---------------------------- MODULE MCFairyEngine ----------------------------
(***************************************************************************)
(* Instances of FairyEngine: an unlimited analysis, an AI move and a third *)
(* task; two variants, so that the option caches matter.                   *)
(***************************************************************************)
EXTENDS FairyEngine

CONSTANTS analysis, play, third, variant, threads, multipv, skill, v0, v1, v2, keep

MCTasks    == {analysis, play, third}
MCInfinite == {analysis}
MCOptions  == {variant, threads, multipv, skill}
MCValues   == {v0, v1, v2}
MCAwaiting == {threads}

Wants(v, th, m, s) ==
  [o \in MCOptions |-> CASE o = variant -> v [] o = threads -> th
                         [] o = multipv -> m [] o = skill -> s]

\* Small tasks: one common and one mode option differ between the tasks.
MCWant == [t \in MCTasks |->
             CASE t = analysis -> Wants(v1, v1, v2, keep)
               [] t = play     -> Wants(v1, v1, v1, v1)
               [] t = third    -> Wants(v2, v1, v2, keep)]

\* ... and tasks that differ in no option, for the liveness run.
MCWantAlike == [t \in MCTasks |-> Wants(v1, v1, v1, keep)]

MCKindSearch  == [t \in MCTasks |-> IF t = play THEN "bestMove" ELSE "analyze"]
MCKindNewGame == [t \in MCTasks |-> CASE t = play -> "bestMove"
                                      [] t = third -> "newGame" [] OTHER -> "analyze"]
MCNone == {}
MCOver == {third}
=============================================================================
