---------------------------- MODULE MCUciProcess ----------------------------
(* An unlimited stream, a REST move and a REST analysis by other rules. *)
EXTENDS UciProcess

CONSTANTS stream, move, rest, janggi, casual

MCCallers     == {stream, move, rest}
MCStreams     == {stream}
MCTimed       == {move, rest}
MCMayBeOver   == {move}
MCVariants    == {janggi, casual}
MCWantVariant == [c \in MCCallers |-> IF c = rest THEN casual ELSE janggi]
MCWantPv      == [c \in MCCallers |-> IF c = move THEN 1 ELSE 2]
=============================================================================
