----------------------------- MODULE MCRanking -----------------------------
(* Three legal moves; scores inside a narrow window of each other and, far   *)
(* outside it, a mate suffered.  Mates given would square the instance: that *)
(* the scales agree on them is proved in RankingProofs.                      *)
EXTENDS Ranking

MCMoves == 1 .. 3
MCGenerated == <<2, 1, 3>>
MCValues == {-31998, 0, 15}
\* 1000 / (1 + exp(-cp / 300)), to the next per mille.
MCWinRate == [c \in {0, 7} |-> CASE c = 0 -> 500 [] c = 7 -> 506]
=============================================================================
