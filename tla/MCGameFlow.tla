----------------------------- MODULE MCGameFlow -----------------------------
(* GameFlow on a board with two moves, one of which ends the game. *)
EXTENDS GameFlow

CONSTANTS m, k
MCMoves  == {m, k}
MCMating == {k}
=============================================================================
