------------------------------ MODULE Explain ------------------------------
(***************************************************************************)
(* What engine/explain.py finds out about a position before it writes its  *)
(* sentences: who attacks a square and which men can be taken at a profit. *)
(***************************************************************************)
EXTENDS Evaluation, SequencesExt

VALUE(type) == IF type = KING THEN 10000 ELSE DEFAULT_CONFIG.material[type]

\* The men of color that could capture on t; unless an enemy stands there, an
\* enemy pawn is put there for the question.
AttackersOf(b, t, color) ==
  LET asked == IF b[t].color = Other(color) THEN b ELSE [b EXCEPT ![t] = Of(Other(color), PAWN)]
  IN  {s \in Own(asked, color) : t \in Reach(s, asked)}

\* What the men on these squares are worth, the cheapest first.
Values(b, squares) ==
  LET value(s) == VALUE(b[s].type)
  IN  [i \in 1 .. Cardinality(squares) |->
         Min({v \in {value(s) : s \in squares} : Cardinality({s \in squares : value(s) <= v}) >= i})]
Takers(b, t, color) == Values(b, AttackersOf(b, t, color))

\* What is taken in an exchange, by the side of first and the side of second in
\* turn: each capture after the first takes what made the one before it.  A king
\* captures only where nobody is left to answer.
Swaps(first, second, victim) ==
  LET made(n) == IF n % 2 = 1 THEN first ELSE second
      turn(n) == (n + 1) \div 2
      possible(n) == /\ turn(n) <= Len(made(n))
                     /\ made(n)[turn(n)] = VALUE(KING) => turn(n + 1) > Len(made(n + 1))
      longest == Max({n \in 0 .. Len(first) + Len(second) : \A k \in 1 .. n : possible(k)})
  IN  [n \in 1 .. longest |-> IF n = 1 THEN victim ELSE made(n - 1)[turn(n - 1)]]
Exchange(b, t, color) ==
  Swaps(Takers(b, t, color), Takers(b, t, Other(color)), VALUE(b[t].type))

\* The swap list: each entry what its side is ahead by, and then backwards,
\* whoever does better to stop stops.
Gains(takes) ==
  LET gains[n \in DOMAIN takes] == IF n = 1 THEN takes[1] ELSE takes[n] - gains[n - 1] IN gains
Backwards(gains) ==
  LET back[n \in DOMAIN gains] ==
        IF n + 1 \notin DOMAIN gains THEN gains[n] ELSE -Max({-gains[n], back[n + 1]})
  IN  IF gains = <<>> THEN 0 ELSE back[1]
SeeGain(b, t, color) ==
  IF b[t] = EMPTY THEN 0 ELSE Backwards(Gains(Exchange(b, t, color)))

HangingPieces(b, color) ==
  {s \in Own(b, color) : b[s].type # KING /\ SeeGain(b, s, Other(color)) > 0}

\* pv_material(): what a line of moves wins and loses for the side to move, up to
\* the first that is not legal.
POINTS(type) ==
  CASE type = KING -> 0   [] type = GUARD -> 3 [] type = CHARIOT -> 13 [] type = CANNON -> 7
    [] type = HORSE -> 5  [] type = ELEPHANT -> 3 [] type = PAWN -> 2 [] type = EMPTY.type -> 0
PvMaterial(p, pv) ==
  LET taken(cur, m) == IF m = PASS_MOVE THEN 0 ELSE POINTS(cur.board[m[2]].type)
      play(st, m) ==
        IF st.over \/ m \notin LegalMoves(st.cur) THEN [st EXCEPT !.over = TRUE]
        ELSE [st EXCEPT !.cur = MakeMove(st.cur, m),
                        !.net = IF st.cur.side = p.side THEN st.net + taken(st.cur, m)
                                                        ELSE st.net - taken(st.cur, m)]
  IN  FoldLeft(play, [cur |-> p, net |-> 0, over |-> FALSE], pv)
=============================================================================
