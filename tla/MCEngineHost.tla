---------------------------- MODULE MCEngineHost ----------------------------
(***************************************************************************)
(* Instances of EngineHost: the commands are stop, isready and one or two  *)
(* `go infinite`; options play no part.                                    *)
(***************************************************************************)
EXTENDS EngineHost

CONSTANTS c1, c2, s1, s2, variant, v0

MCCallers == {c1, c2}
MCOne     == {s1}
MCTwo     == {s1, s2}
MCOptions == {variant}
MCValues  == {v0}
MCNone    == {}
=============================================================================
