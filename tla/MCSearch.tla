------------------------------ MODULE MCSearch ------------------------------
(* The server of MCAnalysisServer, and small games for its searches. *)
EXTENDS MCAnalysisServer, Search

\* Positions 1 to 3 and 7 have the first side to move, 4 to 6 the other; in 6
\* and 7 it is mated.  The rest of the graph is free: the moves of 2 to 5.
\* A bikjang ends the game in 3 if the rules say so.
Game(b, c, d, e, check) ==
  LET go == <<<<4, 5>>, b, c, d, e, <<>>, <<>>>>
  IN [asked |-> {1, 4},
      next  |-> [p \in 1..7 |-> [i \in DOMAIN go[p] |-> [to |-> go[p][i], quiet |-> go[p][i] # 4]]],
      pass  |-> [p \in 1..7 |-> IF p = 5 /\ e[1] = 2 THEN 2 ELSE IF p = 4 /\ d[1] # 7 /\ ~check THEN 3 ELSE 0],
      check |-> [p \in 1..7 |-> p \in {6, 7} \/ (p = 4 /\ check)],
      value |-> <<0, 90, -60, 30, -200, 0, 0>>,
      ended |-> [p \in 1..7 |-> FALSE], points |-> [p \in 1..7 |-> DRAW_SCORE],
      rules |-> {[ended |-> [p \in 1..7 |-> p = 3 /\ over], points |-> [p \in 1..7 |-> score]] :
                   <<over, score>> \in {<<FALSE, DRAW_SCORE>>, <<TRUE, DRAW_SCORE>>, <<TRUE, POINTS_WIN>>}}]
MCGames == {Game(b, c, d, e, check) :
              b \in {<<4, 5>>, <<5, 6>>, <<4, 5, 6>>}, c \in {<<4>>, <<6>>},
              d \in {<<7>>, <<2, 3>>, <<1, 2, 3, 7>>},
              e \in {<<2>>, <<7>>, <<2, 3>>, <<3, 7>>, <<2, 3, 7>>},
              check \in BOOLEAN}

\* Either the sessions and their jobs are looked at, or the searches of one Searcher:
\* as a job has it for itself (OneThread), these come one after the other.
NoSearcher ==
  user = "none" /\ game = <<>> /\ root = 0 /\ table = <<>> /\ found = {} /\ shown = {} /\ steps = 0
MCInit == Init /\ (NoSearcher \/ (SearchInit /\ ~wrapped))
MCNext ==
  \/ user = "none" /\ Next /\ UNCHANGED searcher
  \/ user # "none" /\ SearchNext /\ UNCHANGED vars
MCSpec == MCInit /\ [][MCNext]_<<vars, searcher>> /\ Fairness
=============================================================================
