------------------------------ MODULE Encoding ------------------------------
(***************************************************************************)
(* How neural/encoding.py shows a position and its moves to a network:     *)
(* from the mover's side of the board.                                     *)
(***************************************************************************)
EXTENDS Evaluation

OrientedSquare(s, side) == IF side = CHO THEN s ELSE MirrorSquare(s)

\* The planes: the squares of each kind of man, and what fills a whole plane,
\* passes and repetitions in halves.
EncodePosition(p) ==
  [men        |-> {[own |-> p.board[s].color = p.side, type |-> p.board[s].type,
                    at |-> OrientedSquare(s, p.side)] : s \in {t \in Squares : p.board[t] # EMPTY}},
   in_check   |-> InCheck(p),
   bikjang    |-> p.bikjang,
   passes     |-> Min({p.passes, 2}),
   repetition |-> Max({0, Min({RepetitionCount(p) - 1, 2})}),
   side       |-> p.side = CHO]

NUM_SQUARES == ROWS * COLS
POLICY_SIZE == NUM_SQUARES * NUM_SQUARES + 1
PASS_INDEX  == POLICY_SIZE - 1

Number(s) == COLS * s[1] + s[2]
SquareOf(n) == <<n \div COLS, n % COLS>>

MoveToPolicyIndex(m, side) ==
  IF m = PASS_MOVE THEN PASS_INDEX
  ELSE Number(OrientedSquare(m[1], side)) * NUM_SQUARES + Number(OrientedSquare(m[2], side))
PolicyIndexToMove(i, side) ==
  IF i = PASS_INDEX THEN PASS_MOVE
  ELSE <<OrientedSquare(SquareOf(i \div NUM_SQUARES), side),
         OrientedSquare(SquareOf(i % NUM_SQUARES), side)>>

LegalPolicyMask(p) == {MoveToPolicyIndex(m, p.side) : m \in LegalMoves(p)}
=============================================================================
