-------------------------- MODULE JanggiGameProofs --------------------------
(***************************************************************************)
(* What JanggiGame promises for every start and rule set.  A game that     *)
(* makes and takes back moves always stands where some line of legal moves *)
(* stands (Replayed): so what legal moves preserve is an invariant.        *)
(***************************************************************************)
EXTENDS JanggiGame, TLAPS, FiniteSetTheorems

Board == [Squares -> Piece \union {EMPTY}]
Moves == {PASS_MOVE} \union (Squares \X Squares)
UndoRecord == [move : Moves, captured : Piece \union {EMPTY}, passes : Nat,
               bikjang : BOOLEAN, irrev : Nat]
Position == [board : Board, side : Sides, kings : [Sides -> Squares], passes : Nat,
             bikjang : BOOLEAN, ply : Nat, history : Seq(Board \X Sides),
             stack : Seq(UndoRecord), irrev : Nat, forced : BOOLEAN]

\* No king stands anywhere but where kings says.
KingsKnown(p) ==
  \A c \in Sides : \A s \in Squares : p.board[s] = Of(c, KING) => s = p.kings[c]
WellFormed(p) == p \in Position /\ KingsKnown(p)

USE DEF Sides, CHO, HAN

\* A pseudo-legal move takes one of the mover's men to another square, not its own.
LEMMA PseudoMoveFacts ==
  ASSUME NEW b \in Board, NEW side \in Sides, NEW m \in PseudoMoves(b, side)
  PROVE  \E f, t \in Squares : /\ m = <<f, t>> /\ f # t
                               /\ b[f] \in Piece /\ b[f].color = side /\ b[t].color # side
PROOF
<1>1. PICK f \in Own(b, side) :
        m \in {<<f, t>> : t \in {u \in Reach(f, b) \cap Squares : b[u].color # side}}
  BY DEF PseudoMoves
<1>2. PICK t \in Reach(f, b) \cap Squares : m = <<f, t>> /\ b[t].color # side BY <1>1
<1>3. f \in Squares /\ b[f].color = side BY <1>1 DEF Own
<1>4. b[f] \in Piece BY <1>3 DEF Board, EMPTY
<1>5. QED BY <1>2, <1>3, <1>4

\* A legal move is a pass out of check, or such a move that leaves the king safe.
LEMMA LegalMoveFacts ==
  ASSUME NEW p \in Position, NEW m \in LegalMoves(p)
  PROVE  \/ m = PASS_MOVE /\ ~InCheck(p)
         \/ /\ m # PASS_MOVE /\ IsLegalAfterMake(p, m)
            /\ \E f, t \in Squares : /\ m = <<f, t>> /\ f # t
                                     /\ p.board[f] \in Piece /\ p.board[f].color = p.side
                                     /\ p.board[t].color # p.side
PROOF
<1>1. CASE m \in PseudoMoves(p.board, p.side) /\ IsLegalAfterMake(p, m)
  <2>1. p.board \in Board /\ p.side \in Sides BY DEF Position
  <2>2. QED BY <1>1, <2>1, PseudoMoveFacts DEF PASS_MOVE
<1>2. CASE m = PASS_MOVE /\ ~InCheck(p) BY <1>2
<1>3. QED BY <1>1, <1>2 DEF LegalMoves

\* What taking a move back has to find on the stack is what making it put there.
LEMMA UnmakeInverts ==
  ASSUME NEW p, WellFormed(p), NEW m \in LegalMoves(p)
  PROVE  UnmakeMove(MakeMove(p, m)) = p
PROOF
<1> DEFINE q == MakeMove(p, m)
           cap == IF m = PASS_MOVE THEN EMPTY ELSE p.board[m[2]]
           u == Undo(p, m, cap)
           b == UnmakeMove(q)
<1>1. p \in Position /\ KingsKnown(p) BY DEF WellFormed
<1>2. /\ Len(p.history) \in Nat /\ Len(p.stack) \in Nat /\ p.ply \in Nat
      /\ p.history \in Seq(Board \X Sides) /\ p.stack \in Seq(UndoRecord)
  BY <1>1 DEF Position
<1>3. q.stack = Append(p.stack, u) /\ q.history = Append(p.history, <<q.board, q.side>>)
  BY DEF MakeMove
<1>4. q.stack[Len(q.stack)] = u /\ Len(q.stack) = Len(p.stack) + 1 BY <1>2, <1>3
<1>5. SubSeq(q.stack, 1, Len(q.stack) - 1) = p.stack BY <1>2, <1>3, <1>4
<1>6. SubSeq(q.history, 1, Len(q.history) - 1) = p.history BY <1>2, <1>3
<1>7. u.move = m /\ u.captured = cap /\ u.passes = p.passes /\ u.bikjang = p.bikjang
      /\ u.irrev = p.irrev BY DEF Undo
<1>8. q.side = Other(p.side) /\ Other(q.side) = p.side /\ q.ply - 1 = p.ply
      /\ q.forced = p.forced
  BY <1>1, <1>2 DEF MakeMove, Other, Position
<1>9. b.board = p.board /\ b.kings = p.kings
  <2>1. CASE m = PASS_MOVE BY <2>1, <1>4, <1>7 DEF UnmakeMove, MakeMove
  <2>2. ASSUME NEW f \in Squares, NEW t \in Squares, m = <<f, t>>, f # t, m # PASS_MOVE,
               p.board[f] \in Piece, p.board[f].color = p.side, p.board[t].color # p.side
        PROVE  b.board = p.board /\ b.kings = p.kings
    <3>1. p.board \in Board /\ p.kings \in [Sides -> Squares] /\ p.side \in Sides
      BY <1>1 DEF Position
    <3>2. q.board = [p.board EXCEPT ![t] = p.board[f], ![f] = EMPTY]
      BY <2>2 DEF MakeMove
    <3>3. b.board = [q.board EXCEPT ![f] = q.board[t], ![t] = cap]
      BY <2>2, <1>4, <1>7 DEF UnmakeMove
    <3>4. cap = p.board[t] BY <2>2
    <3>5. b.board = p.board BY <3>1, <3>2, <3>3, <3>4, <2>2 DEF Board
    <3>6. q.board[t] = p.board[f] BY <3>1, <3>2, <2>2 DEF Board
    <3>7. CASE p.board[f].type # KING
      <4>1. q.kings = p.kings BY <3>7, <2>2 DEF MakeMove
      <4>2. b.kings = q.kings BY <3>6, <3>7, <2>2, <1>4, <1>7 DEF UnmakeMove
      <4>3. QED BY <4>1, <4>2, <3>5
    <3>8. CASE p.board[f].type = KING
      <4>1. q.kings = [p.kings EXCEPT ![p.side] = t] BY <3>8, <2>2 DEF MakeMove
      <4>2. b.kings = [q.kings EXCEPT ![p.side] = f]
        BY <3>6, <3>8, <2>2, <1>4, <1>7, <1>8 DEF UnmakeMove
      <4>3. p.board[f] = Of(p.side, KING) BY <3>8, <2>2 DEF Piece, Of
      <4>4. p.kings[p.side] = f BY <4>3, <1>1, <3>1, <2>2 DEF KingsKnown
      <4>5. QED BY <3>1, <3>5, <4>1, <4>2, <4>4
    <3>9. QED BY <3>7, <3>8
  <2>3. QED BY <2>1, <2>2, <1>1, LegalMoveFacts
<1>10. b = [board |-> b.board, side |-> Other(q.side), kings |-> b.kings, passes |-> u.passes,
            bikjang |-> u.bikjang, ply |-> q.ply - 1,
            history |-> SubSeq(q.history, 1, Len(q.history) - 1),
            stack |-> SubSeq(q.stack, 1, Len(q.stack) - 1),
            irrev |-> u.irrev, forced |-> q.forced]
  BY <1>4 DEF UnmakeMove
<1>11. p = [board |-> p.board, side |-> p.side, kings |-> p.kings, passes |-> p.passes,
            bikjang |-> p.bikjang, ply |-> p.ply, history |-> p.history, stack |-> p.stack,
            irrev |-> p.irrev, forced |-> p.forced]
  BY <1>1 DEF Position
<1>12. QED BY <1>5, <1>6, <1>7, <1>8, <1>9, <1>10, <1>11

\* A legal move leaves a well-formed position.
LEMMA MakeWellFormed ==
  ASSUME NEW p, WellFormed(p), p.irrev \in Nat, NEW m \in LegalMoves(p)
  PROVE  WellFormed(MakeMove(p, m))
PROOF
<1> DEFINE q == MakeMove(p, m)
           cap == IF m = PASS_MOVE THEN EMPTY ELSE p.board[m[2]]
<1>1. p \in Position /\ KingsKnown(p) BY DEF WellFormed
<1>2. /\ p.board \in Board /\ p.side \in Sides /\ p.kings \in [Sides -> Squares]
      /\ p.passes \in Nat /\ p.bikjang \in BOOLEAN /\ p.ply \in Nat /\ p.forced \in BOOLEAN
      /\ p.history \in Seq(Board \X Sides) /\ p.stack \in Seq(UndoRecord)
      /\ Len(p.history) \in Nat
  BY <1>1 DEF Position
<1>3. q.side \in Sides BY <1>2 DEF MakeMove, Other
<1>4. /\ q.board \in Board /\ q.kings \in [Sides -> Squares] /\ KingsKnown(q)
      /\ m \in Moves /\ cap \in Piece \union {EMPTY}
  <2>1. CASE m = PASS_MOVE
    BY <1>1, <1>2, <2>1 DEF MakeMove, KingsKnown, Moves
  <2>2. ASSUME NEW f \in Squares, NEW t \in Squares, m = <<f, t>>, f # t, m # PASS_MOVE,
               p.board[f] \in Piece, p.board[f].color = p.side, p.board[t].color # p.side
        PROVE  /\ q.board \in Board /\ q.kings \in [Sides -> Squares] /\ KingsKnown(q)
               /\ m \in Moves /\ cap \in Piece \union {EMPTY}
    <3>1. q.board = [p.board EXCEPT ![t] = p.board[f], ![f] = EMPTY]
      BY <2>2 DEF MakeMove
    <3>2. q.board \in Board BY <1>2, <2>2, <3>1 DEF Board
    <3>3. q.kings = IF p.board[f].type # KING THEN p.kings ELSE [p.kings EXCEPT ![p.side] = t]
      BY <2>2 DEF MakeMove
    <3>4. q.kings \in [Sides -> Squares] BY <1>2, <2>2, <3>3
    <3>5. ASSUME NEW c \in Sides, NEW s \in Squares, q.board[s] = Of(c, KING)
          PROVE  s = q.kings[c]
      <4>0. Of(c, KING).color = c /\ Of(c, KING).type = KING /\ Of(c, KING) # EMPTY
        BY DEF Of, EMPTY, KING
      <4>1. s # f BY <3>1, <3>5, <4>0, <1>2, <2>2 DEF Board
      <4>2. CASE s = t
        <5>1. p.board[f] = Of(c, KING) BY <3>1, <3>5, <4>2, <1>2, <2>2 DEF Board
        <5>2. c = p.side /\ p.board[f].type = KING BY <5>1, <4>0, <2>2
        <5>3. QED BY <5>2, <3>3, <4>2, <1>2
      <4>3. CASE s # t
        <5>1. p.board[s] = Of(c, KING) BY <3>1, <3>5, <4>1, <4>3, <1>2, <2>2 DEF Board
        <5>2. s = p.kings[c] BY <5>1, <1>1 DEF KingsKnown
        <5>3. p.board[f].type = KING => c # p.side
          <6>1. SUFFICES ASSUME p.board[f].type = KING, c = p.side PROVE FALSE OBVIOUS
          <6>2. p.board[f] = Of(c, KING) BY <6>1, <2>2 DEF Piece, Of
          <6>3. f = p.kings[c] BY <6>2, <1>1 DEF KingsKnown
          <6>4. QED BY <6>3, <5>2, <4>1
        <5>4. QED BY <5>2, <5>3, <3>3, <1>2
      <4>4. QED BY <4>2, <4>3
    <3>6. m \in Moves /\ cap \in Piece \union {EMPTY} BY <1>2, <2>2 DEF Moves, Board
    <3>7. QED BY <3>2, <3>4, <3>5, <3>6 DEF KingsKnown
  <2>3. QED BY <2>1, <2>2, <1>1, LegalMoveFacts
<1>5. Undo(p, m, cap) \in UndoRecord BY <1>2, <1>4 DEF Undo, UndoRecord
<1>6. <<q.board, q.side>> \in Board \X Sides BY <1>3, <1>4
<1>7. q.bikjang \in BOOLEAN BY DEF MakeMove, Bikjang, KingsFace
<1>8. q.history \in Seq(Board \X Sides) /\ q.stack \in Seq(UndoRecord)
  <2>1. q.history = Append(p.history, <<q.board, q.side>>) BY DEF MakeMove
  <2>2. q.stack = Append(p.stack, Undo(p, m, cap)) BY DEF MakeMove
  <2>3. QED BY <2>1, <2>2, <1>2, <1>5, <1>6
<1>9. q.passes \in Nat /\ q.ply \in Nat /\ q.irrev \in Nat /\ q.forced \in BOOLEAN
  BY <1>2 DEF MakeMove
<1>10. q = [board |-> q.board, side |-> q.side, kings |-> q.kings, passes |-> q.passes,
            bikjang |-> q.bikjang, ply |-> q.ply, history |-> q.history, stack |-> q.stack,
            irrev |-> q.irrev, forced |-> q.forced]
  BY DEF MakeMove
<1>11. q \in Position BY <1>3, <1>4, <1>7, <1>8, <1>9, <1>10 DEF Position
<1>12. QED BY <1>11, <1>4 DEF WellFormed

-----------------------------------------------------------------------------
(* Captures are irreversible: the men on the board only ever get fewer.      *)

Men(b) == Cardinality({s \in Squares : b[s] # EMPTY})

\* The men on a board can be counted.
LEMMA MenIsNat == ASSUME NEW b PROVE Men(b) \in Nat /\ IsFiniteSet({s \in Squares : b[s] # EMPTY})
PROOF
<1>0. ROWS - 1 \in Int /\ COLS - 1 \in Int /\ 0 \in Int BY DEF ROWS, COLS
<1>1. IsFiniteSet(0 .. ROWS - 1) /\ IsFiniteSet(0 .. COLS - 1)
  BY <1>0, FS_Interval
<1>2. IsFiniteSet(Squares) BY <1>1, FS_Product DEF Squares
<1>3. IsFiniteSet({s \in Squares : b[s] # EMPTY}) BY <1>2, FS_Subset
<1>4. QED BY <1>3, FS_CardinalityType DEF Men

\* A move to an empty square keeps the men, a capture takes one away.
LEMMA MenAfterMove ==
  ASSUME NEW b \in Board, NEW f \in Squares, NEW t \in Squares, f # t, b[f] # EMPTY
  PROVE  Men([b EXCEPT ![t] = b[f], ![f] = EMPTY]) =
           IF b[t] = EMPTY THEN Men(b) ELSE Men(b) - 1
PROOF
<1> DEFINE a == [b EXCEPT ![t] = b[f], ![f] = EMPTY]
           B == {s \in Squares : b[s] # EMPTY}
           A == {s \in Squares : a[s] # EMPTY}
<1>1. A = (B \ {f}) \union {t} BY DEF Board
<1>2. IsFiniteSet(B) /\ IsFiniteSet(B \ {f}) BY MenIsNat, FS_RemoveElement
<1>3. Cardinality(B \ {f}) = Cardinality(B) - 1 BY <1>2, FS_RemoveElement
<1>4. Cardinality(A) = IF t \in B \ {f} THEN Cardinality(B \ {f}) ELSE Cardinality(B \ {f}) + 1
  BY <1>1, <1>2, FS_AddElement
<1>5. t \in B \ {f} <=> b[t] # EMPTY OBVIOUS
<1>6. Cardinality(B) \in Nat BY <1>2, FS_CardinalityType
<1>7. QED BY <1>3, <1>4, <1>5, <1>6 DEF Men

\* What the history of a position says: it ends with the position, the sides
\* alternate, and before irrev there were more men on the board.
HistorySound(p) ==
  LET n == Len(p.history)
  IN  /\ p.irrev \in 1 .. n
      /\ p.history[n] = Hash(p)
      /\ \A i \in 1 .. n : p.history[i][2] = p.side <=> (n - i) % 2 = 0
      /\ \A i \in 1 .. n : Men(p.history[i][1]) >= Men(p.board)
      /\ \A i \in 1 .. p.irrev - 1 : Men(p.history[i][1]) > Men(p.board)

\* A legal move keeps the history sound.
LEMMA MakeHistory ==
  ASSUME NEW p, WellFormed(p), HistorySound(p), NEW m \in LegalMoves(p)
  PROVE  HistorySound(MakeMove(p, m))
PROOF
<1> DEFINE q == MakeMove(p, m)
           n == Len(p.history)
<1>1. p \in Position BY DEF WellFormed
<1>2. /\ p.board \in Board /\ p.side \in Sides /\ p.history \in Seq(Board \X Sides)
      /\ n \in Nat /\ p.irrev \in 1 .. n
  BY <1>1 DEF Position, HistorySound
<1>3. /\ q.history = Append(p.history, <<q.board, q.side>>) /\ q.side = 1 - p.side
      /\ Len(q.history) = n + 1 /\ q.history[n + 1] = <<q.board, q.side>>
      /\ \A i \in 1 .. n : q.history[i] = p.history[i]
  <2>1. q.history = Append(p.history, <<q.board, q.side>>) /\ q.side = 1 - p.side
    BY DEF MakeMove, Other
  <2> HIDE DEF q
  <2>2. QED BY <1>2, <2>1
<1>4. \/ q.irrev = p.irrev /\ Men(q.board) = Men(p.board)
      \/ q.irrev = n + 1 /\ Men(q.board) = Men(p.board) - 1
  <2>1. CASE m = PASS_MOVE BY <2>1 DEF MakeMove
  <2>2. ASSUME NEW f \in Squares, NEW t \in Squares, m = <<f, t>>, f # t, m # PASS_MOVE,
               p.board[f] \in Piece
        PROVE  \/ q.irrev = p.irrev /\ Men(q.board) = Men(p.board)
               \/ q.irrev = n + 1 /\ Men(q.board) = Men(p.board) - 1
    <3>1. p.board[f] # EMPTY BY <2>2 DEF Piece, EMPTY
    <3>2. q.board = [p.board EXCEPT ![t] = p.board[f], ![f] = EMPTY] BY <2>2 DEF MakeMove
    <3>3. q.irrev = IF p.board[t] = EMPTY THEN p.irrev ELSE n + 1 BY <2>2 DEF MakeMove
    <3>4. Men(q.board) = IF p.board[t] = EMPTY THEN Men(p.board) ELSE Men(p.board) - 1
      BY <3>1, <3>2, <1>2, <2>2, MenAfterMove
    <3>5. QED BY <3>3, <3>4
  <2>3. QED BY <2>1, <2>2, <1>1, LegalMoveFacts
<1>5. Men(p.board) \in Nat /\ Men(q.board) \in Nat
      /\ \A i \in 1 .. n : Men(p.history[i][1]) \in Nat
  BY MenIsNat
<1> HIDE DEF q, n
<1>6. q.irrev \in 1 .. n + 1 BY <1>2, <1>4
<1>7. ASSUME NEW i \in 1 .. n + 1 PROVE q.history[i][2] = q.side <=> ((n + 1) - i) % 2 = 0
  <2>1. CASE i = n + 1 BY <2>1, <1>2, <1>3
  <2>2. CASE i \in 1 .. n
    <3>1. p.history[i][2] = p.side <=> (n - i) % 2 = 0 BY <2>2 DEF HistorySound, n
    <3>2. p.history[i][2] \in Sides BY <2>2, <1>2 DEF n
    <3>3. ((n + 1) - i) % 2 = 0 <=> (n - i) % 2 # 0 BY <2>2, <1>2
    <3>4. q.history[i][2] = p.history[i][2] /\ q.side = 1 - p.side BY <1>3, <2>2
    <3>5. (n + 1) - i = (n - i) + 1 BY <2>2, <1>2
    <3>6. p.side \in {0, 1} /\ p.history[i][2] \in {0, 1} BY <1>2, <3>2
    <3>7. p.history[i][2] = 1 - p.side <=> p.history[i][2] # p.side BY <3>6
    <3>8. QED BY <3>1, <3>3, <3>4, <3>7
  <2>3. QED BY <2>1, <2>2, <1>2
<1>8. ASSUME NEW i \in 1 .. n + 1
      PROVE  /\ Men(q.history[i][1]) >= Men(q.board)
             /\ i < q.irrev => Men(q.history[i][1]) > Men(q.board)
  <2>1. CASE i = n + 1 BY <2>1, <1>2, <1>3, <1>5, <1>6
  <2>2. CASE i \in 1 .. n
    <3>1. /\ Men(p.history[i][1]) >= Men(p.board)
          /\ i < p.irrev => Men(p.history[i][1]) > Men(p.board)
      BY <2>2, <1>2 DEF HistorySound, n
    <3>2. QED BY <3>1, <2>2, <1>2, <1>3, <1>4, <1>5, SMTT(30)
  <2>3. QED BY <2>1, <2>2, <1>2
<1>9. q.history[n + 1] = Hash(q) BY <1>3 DEF Hash
<1>10. \A i \in 1 .. q.irrev - 1 : i \in 1 .. n + 1 /\ i < q.irrev BY <1>6, <1>2
<1>11. HistorySound(q)
  <2> DEFINE k == Len(q.history)
  <2>1. k = n + 1 BY <1>3
  <2>2. q.irrev \in 1 .. k /\ q.history[k] = Hash(q) BY <2>1, <1>6, <1>9
  <2>3. \A i \in 1 .. k : q.history[i][2] = q.side <=> (k - i) % 2 = 0
    <3>1. SUFFICES ASSUME NEW i \in 1 .. k
                   PROVE  q.history[i][2] = q.side <=> (k - i) % 2 = 0
      OBVIOUS
    <3>2. i \in 1 .. n + 1 BY <2>1
    <3>3. k - i = (n + 1) - i BY <2>1, Zenon
    <3>4. QED BY <3>2, <3>3, <1>7
  <2>4. \A i \in 1 .. k : Men(q.history[i][1]) >= Men(q.board) BY <2>1, <1>8
  <2>5. \A i \in 1 .. q.irrev - 1 : Men(q.history[i][1]) > Men(q.board) BY <1>8, <1>10
  <2>6. QED BY <2>2, <2>3, <2>4, <2>5, Zenon DEF HistorySound
<1>12. QED BY <1>11 DEF q

-----------------------------------------------------------------------------
(* The rules about checks and bikjang that every legal move keeps.           *)

\* The side that has just moved did not stay in check.
MoverSafe(p) == ~AttackedBy(p.board, p.kings[Other(p.side)], p.side)

\* The flag is what the board says, and it stands after a pass only if it stood
\* before the pass.  Nobody is in check after a pass.
BikjangSound(p) ==
  /\ p.bikjang = Bikjang(p.board, p.kings, p.side)
  /\ p.passes # 0 /\ p.bikjang => PrevBikjang(p)
  /\ p.passes # 0 => ~InCheck(p)

\* A legal move keeps the bikjang flag sound and leaves the mover's king safe.
LEMMA MakeKeepsRules ==
  ASSUME NEW p, WellFormed(p), BikjangSound(p), MoverSafe(p), NEW m \in LegalMoves(p)
  PROVE  BikjangSound(MakeMove(p, m)) /\ MoverSafe(MakeMove(p, m))
PROOF
<1> DEFINE q == MakeMove(p, m)
<1>1. p \in Position BY DEF WellFormed
<1>2. /\ p.side \in Sides /\ p.passes \in Nat /\ p.stack \in Seq(UndoRecord)
      /\ Len(p.stack) \in Nat
  BY <1>1 DEF Position
<1>3. q.bikjang = Bikjang(q.board, q.kings, q.side) BY DEF MakeMove
<1>4. q.side = Other(p.side) /\ Other(q.side) = p.side BY <1>2 DEF MakeMove, Other
<1>5. PrevBikjang(q) = p.bikjang
  <2>1. \E u : q.stack = Append(p.stack, u) /\ u.bikjang = p.bikjang BY DEF MakeMove, Undo
  <2>2. q.stack # <<>> /\ q.stack[Len(q.stack)].bikjang = p.bikjang BY <2>1, <1>2
  <2>3. QED BY <2>2 DEF PrevBikjang
<1>6. CASE m = PASS_MOVE /\ ~InCheck(p)
  <2>1. q.board = p.board /\ q.kings = p.kings BY <1>6 DEF MakeMove
  <2>2. MoverSafe(q) BY <2>1, <1>4, <1>6 DEF MoverSafe, InCheck
  <2>3. q.bikjang => p.bikjang
    BY <2>1, <1>3, <1>6 DEF BikjangSound, Bikjang, InCheck
  <2>4. ~InCheck(q) BY <2>1, <1>4 DEF InCheck, MoverSafe
  <2>5. QED BY <2>2, <2>3, <2>4, <1>3, <1>5 DEF BikjangSound
<1>7. CASE m # PASS_MOVE /\ IsLegalAfterMake(p, m)
  <2>1. MoverSafe(q) BY <1>7, <1>4 DEF IsLegalAfterMake, MoverSafe
  <2>2. q.passes = 0 BY <1>7 DEF MakeMove
  <2>3. QED BY <2>1, <2>2, <1>3 DEF BikjangSound
<1>8. QED BY <1>1, <1>6, <1>7, LegalMoveFacts

-----------------------------------------------------------------------------
(* Lines can be walked both ways: what a piece could take, attack detection,  *)
(* which looks from the square under attack outward, finds, and nothing else. *)

Dirs == ORTH_DIRS \union DIAG_DIRS
Back(d) == <<-d[1], -d[2]>>

\* k steps from s in direction d are on the board, and on lines.
Walk(s, d, k) == \A i \in 1 .. k : LineStep(Along(s, d, i - 1), d)

\* A table is the function it tabulates.
LEMMA TableIs == ASSUME NEW f PROVE Table(f) = f
BY DEF Table

\* The directions.
LEMMA DirFacts ==
  ASSUME NEW d \in Dirs
  PROVE  /\ d = <<d[1], d[2]>> /\ d[1] \in {-1, 0, 1} /\ d[2] \in {-1, 0, 1}
         /\ Back(d) \in Dirs /\ Back(Back(d)) = d
         /\ d \in ORTH_DIRS <=> Back(d) \in ORTH_DIRS
         /\ d \in DIAG_DIRS <=> Back(d) \in DIAG_DIRS
PROOF
<1>1. CASE d \in ORTH_DIRS BY <1>1 DEF Dirs, ORTH_DIRS, DIAG_DIRS, Back
<1>2. CASE d \in DIAG_DIRS BY <1>2 DEF Dirs, ORTH_DIRS, DIAG_DIRS, Back
<1>3. QED BY <1>1, <1>2 DEF Dirs

\* A square is a row and a column.
LEMMA SquareFacts ==
  ASSUME NEW s \in Squares
  PROVE  s = <<s[1], s[2]>> /\ s[1] \in 0 .. 9 /\ s[2] \in 0 .. 8
BY DEF Squares, ROWS, COLS

\* Steps along a line add up, in both directions.
LEMMA AlongFacts ==
  ASSUME NEW s \in Squares, NEW d \in Dirs, NEW i \in Int, NEW j \in Int
  PROVE  /\ Along(Along(s, d, i), d, j) = Along(s, d, i + j)
         /\ Along(Along(s, d, i), Back(d), j) = Along(s, d, i - j)
         /\ Along(s, d, 0) = s
PROOF
<1>1. ASSUME NEW e \in {-1, 0, 1}, NEW x \in Int
      PROVE  /\ (x + i * e) + j * e = x + (i + j) * e
             /\ (x + i * e) + j * (-e) = x + (i - j) * e
             /\ x + 0 * e = x
  <2>1. CASE e = -1 BY <2>1
  <2>2. CASE e = 0 BY <2>2
  <2>3. CASE e = 1 BY <2>3
  <2>4. QED BY <2>1, <2>2, <2>3
<1>2. d[1] \in {-1, 0, 1} /\ d[2] \in {-1, 0, 1} BY DirFacts
<1>3. s = <<s[1], s[2]>> /\ s[1] \in Int /\ s[2] \in Int BY SquareFacts
<1>4. QED BY <1>1, <1>2, <1>3 DEF Along, Back

\* A step along a line can be walked back.
LEMMA LineStepBack ==
  ASSUME NEW a \in Squares, NEW d \in Dirs, LineStep(a, d)
  PROVE  /\ Along(a, d, 1) \in Squares /\ LineStep(Along(a, d, 1), Back(d))
PROOF
<1> DEFINE c == Along(a, d, 1)
<1>1. c \in Squares /\ (d \in ORTH_DIRS \/ DiagStepOk(a, c)) BY DEF LineStep
<1>2. Along(c, Back(d), 1) = a
  <2>1. 1 \in Int /\ 1 - 1 = 0 OBVIOUS
  <2>2. c = Along(a, d, 1) /\ Along(c, Back(d), 1) = Along(a, d, 1 - 1) BY <2>1, AlongFacts
  <2>3. Along(a, d, 0) = a BY <2>1, AlongFacts
  <2>4. QED BY <2>1, <2>2, <2>3
<1>3. DiagStepOk(a, c) => DiagStepOk(c, a)
  <2> SUFFICES ASSUME DiagStepOk(a, c) PROVE DiagStepOk(c, a) OBVIOUS
  <2>1. /\ <<c[1] - a[1], c[2] - a[2]>> \in DIAG_DIRS
        /\ PalaceId(a) # -1 /\ PalaceId(a) = PalaceId(c) /\ {a, c} \cap PALACE_CENTER # {}
    BY DEF DiagStepOk
  <2>2. a[1] \in Int /\ a[2] \in Int /\ c[1] \in Int /\ c[2] \in Int BY <1>1, SquareFacts
  <2> HIDE DEF c
  <2>3. <<a[1] - c[1], a[2] - c[2]>> \in DIAG_DIRS BY <2>1, <2>2 DEF DIAG_DIRS
  <2>4. {c, a} \cap PALACE_CENTER # {} BY <2>1
  <2>5. QED BY <2>1, <2>3, <2>4 DEF DiagStepOk
<1>4. d \in ORTH_DIRS => Back(d) \in ORTH_DIRS BY DirFacts
<1>5. QED BY <1>1, <1>2, <1>3, <1>4 DEF LineStep

\* A set of numbers up to ten has a greatest one.
LEMMA MaxUpToTen ==
  ASSUME NEW K \in SUBSET (0 .. 10), K # {}
  PROVE  Max(K) \in K /\ \A y \in K : y <= Max(K)
PROOF
<1>1. \E x \in K : \A y \in K : x >= y
  <2>1. CASE 10 \in K BY <2>1
  <2>2. CASE 10 \notin K /\ 9 \in K BY <2>2
  <2>3. CASE 10 \notin K /\ 9 \notin K /\ 8 \in K BY <2>3
  <2>4. CASE K \subseteq 0 .. 7
    <3>1. CASE 7 \in K BY <2>4, <3>1
    <3>2. CASE 7 \notin K /\ 6 \in K BY <2>4, <3>2
    <3>3. CASE 7 \notin K /\ 6 \notin K /\ 5 \in K BY <2>4, <3>3
    <3>4. CASE K \subseteq 0 .. 4
      <4>1. CASE 4 \in K BY <3>4, <4>1
      <4>2. CASE 4 \notin K /\ 3 \in K BY <3>4, <4>2
      <4>3. CASE 4 \notin K /\ 3 \notin K /\ 2 \in K BY <3>4, <4>3
      <4>4. CASE K \subseteq 0 .. 1
        <5>1. CASE 1 \in K BY <4>4, <5>1
        <5>2. CASE 1 \notin K
          <6>1. PICK x \in K : TRUE OBVIOUS
          <6>2. \A y \in K : y = 0 BY <4>4, <5>2
          <6>3. QED BY <6>1, <6>2
        <5>3. QED BY <5>1, <5>2
      <4>5. QED BY <3>4, <4>1, <4>2, <4>3, <4>4
    <3>5. QED BY <2>4, <3>1, <3>2, <3>3, <3>4
  <2>5. QED BY <2>1, <2>2, <2>3, <2>4
<1>2. Max(K) \in K /\ \A y \in K : Max(K) >= y BY <1>1, Zenon DEF Max
<1>3. QED BY <1>2

\* A ray goes as far as one can walk.
LEMMA RayFacts ==
  ASSUME NEW s \in Squares, NEW d \in Dirs
  PROVE  LET r == RayFrom(s, d)
         IN  /\ Len(r) \in 0 .. 10 /\ DOMAIN r = 1 .. Len(r)
             /\ Walk(s, d, Len(r))
             /\ \A k \in 0 .. 10 : Walk(s, d, k) => k <= Len(r)
             /\ \A i \in 1 .. Len(r) : r[i] = Along(s, d, i) /\ r[i] \in Squares
PROOF
<1> DEFINE r == RayFrom(s, d)
           K == {k \in 0 .. 10 : Walk(s, d, k)}
           n == Max(K)
<1>1. r = [i \in 1 .. n |-> Along(s, d, i)] BY DEF RayFrom, Walk, ROWS
<1>2. Walk(s, d, 0) BY DEF Walk
<1>3. K \in SUBSET (0 .. 10) /\ K # {} BY <1>2
<1> HIDE DEF K
<1>4. n \in K /\ \A k \in K : k <= n BY <1>3, MaxUpToTen
<1>5. n \in 0 .. 10 /\ Walk(s, d, n) /\ \A k \in 0 .. 10 : Walk(s, d, k) => k <= n
  BY <1>4 DEF K
<1> HIDE DEF n, r
<1>6. Len(r) = n /\ DOMAIN r = 1 .. n /\ \A i \in 1 .. n : r[i] = Along(s, d, i)
  BY <1>1, <1>5
<1>7. ASSUME NEW i \in 1 .. n PROVE Along(s, d, i) \in Squares
  <2>1. LineStep(Along(s, d, i - 1), d) BY <1>5 DEF Walk
  <2>2. Along(Along(s, d, i - 1), d, 1) \in Squares BY <2>1 DEF LineStep
  <2>3. i - 1 \in Int /\ 1 \in Int /\ (i - 1) + 1 = i BY <1>5
  <2>4. Along(Along(s, d, i - 1), d, 1) = Along(s, d, (i - 1) + 1) BY <2>3, AlongFacts
  <2>5. QED BY <2>2, <2>3, <2>4
<1>8. QED BY <1>5, <1>6, <1>7 DEF r

\* From a square on a ray the opposite ray leads back through the same squares.
LEMMA RayBack ==
  ASSUME NEW s \in Squares, NEW d \in Dirs, NEW i \in 1 .. Len(RayFrom(s, d))
  PROVE  LET r == RayFrom(s, d)
             q == RayFrom(r[i], Back(d))
         IN  /\ r[i] \in Squares /\ i <= Len(q) /\ Len(q) \in Nat /\ q[i] = s
             /\ \A j \in 1 .. i - 1 : q[j] = r[i - j]
PROOF
<1> DEFINE r == RayFrom(s, d)
           n == Len(r)
           t == r[i]
           e == Back(d)
           q == RayFrom(t, e)
<1>1. /\ n \in 0 .. 10 /\ Walk(s, d, n)
      /\ \A k \in 1 .. n : r[k] = Along(s, d, k) /\ r[k] \in Squares
  BY RayFacts
<1> HIDE DEF n, r
<1>2. i \in 1 .. n BY DEF n, r
<1>3. t \in Squares /\ t = Along(s, d, i) BY <1>1, <1>2
<1>4. e \in Dirs BY DirFacts
<1>5. \A j \in Int : Along(t, e, j) = Along(s, d, i - j)
  <2>1. i \in Int BY <1>1, <1>2
  <2>2. QED BY <1>3, <2>1, AlongFacts
<1>6. \A k \in 0 .. n : Along(s, d, k) \in Squares
  <2>1. Along(s, d, 0) = s BY AlongFacts
  <2>2. \A k \in 0 .. n : k = 0 \/ k \in 1 .. n BY <1>1
  <2>3. QED BY <1>1, <2>1, <2>2
<1>7. Walk(t, e, i)
  <2> SUFFICES ASSUME NEW j \in 1 .. i PROVE LineStep(Along(t, e, j - 1), e)
    BY DEF Walk
  <2> DEFINE k == i - j
  <2>1. k \in 0 .. n /\ k + 1 \in 1 .. n /\ k \in Int /\ j - 1 \in Int /\ i - (j - 1) = k + 1
        /\ (k + 1) - 1 = k
    BY <1>1, <1>2
  <2> HIDE DEF k
  <2>2. LineStep(Along(s, d, k), d)
    <3>1. LineStep(Along(s, d, (k + 1) - 1), d) BY <1>1, <2>1, Zenon DEF Walk
    <3>2. QED BY <2>1, <3>1
  <2>3. Along(s, d, k) \in Squares BY <1>6, <2>1
  <2>4. LineStep(Along(Along(s, d, k), d, 1), e) BY <2>2, <2>3, LineStepBack
  <2>5. Along(Along(s, d, k), d, 1) = Along(s, d, k + 1) BY <2>1, AlongFacts
  <2>6. Along(t, e, j - 1) = Along(s, d, k + 1) BY <1>5, <2>1
  <2>7. QED BY <2>4, <2>5, <2>6
<1>8. /\ Len(q) \in 0 .. 10 /\ i <= Len(q) /\ \A k \in 1 .. Len(q) : q[k] = Along(t, e, k)
  <2>1. i \in 0 .. 10 BY <1>1, <1>2
  <2>2. QED BY <1>3, <1>4, <1>7, <2>1, RayFacts
<1> HIDE DEF q
<1>9. q[i] = s
  <2>1. i \in 1 .. Len(q) /\ i \in Int /\ i - i = 0 BY <1>1, <1>2, <1>8
  <2>2. q[i] = Along(s, d, i - i) BY <1>5, <1>8, <2>1
  <2>3. QED BY <2>1, <2>2, AlongFacts
<1>10. ASSUME NEW j \in 1 .. i - 1 PROVE q[j] = r[i - j]
  <2>1. j \in 1 .. Len(q) /\ j \in Int /\ i - j \in 1 .. n BY <1>1, <1>2, <1>8
  <2>2. QED BY <1>1, <1>5, <1>8, <2>1
<1>11. QED BY <1>3, <1>8, <1>9, <1>10 DEF q, t, e, r

\* A slider at s looks at t, and a cannon at s looks at t over one screen.
Sees(b, s, t) == \E ray \in RAYS_ALL[s] : \E k \in Sight(ray, 0, b) : ray[k] = t
SeesOver(b, s, t) ==
  \E ray \in RAYS_ALL[s] : \E k \in Sight(ray, 0, b) :
    b[ray[k]].type \notin {EMPTY.type, CANNON} /\ \E i \in Sight(ray, k, b) : ray[i] = t

\* The rays of a square, one a direction.
LEMMA RaysAre ==
  ASSUME NEW s \in Squares
  PROVE  RAYS_ALL[s] = {RayFrom(s, d) : d \in Dirs}
PROOF
<1> DEFINE F == [x \in Squares |-> {RayFrom(x, d) : d \in Dirs}]
<1>1. RAYS_ALL = Table(F) BY DEF RAYS_ALL, Dirs
<1>2. F[s] = {RayFrom(s, d) : d \in Dirs} OBVIOUS
<1> HIDE DEF F
<1>3. QED BY <1>1, <1>2, TableIs

\* Who sees a square is seen from it.
LEMMA SeesBack ==
  ASSUME NEW b, NEW s \in Squares, NEW t, Sees(b, s, t)
  PROVE  t \in Squares /\ Sees(b, t, s)
PROOF
<1>1. PICK ray \in RAYS_ALL[s] : \E k \in Sight(ray, 0, b) : ray[k] = t BY DEF Sees
<1>2. PICK d \in Dirs : ray = RayFrom(s, d) BY <1>1, RaysAre
<1>3. PICK k \in Sight(ray, 0, b) : ray[k] = t BY <1>1
<1> DEFINE q == RayFrom(t, Back(d))
<1>4. Len(ray) \in Nat BY <1>2, RayFacts
<1>5. k \in 1 .. Len(ray) /\ \A j \in 1 .. k - 1 : b[ray[j]] = EMPTY BY <1>3, <1>4 DEF Sight
<1>6. /\ t \in Squares /\ k <= Len(q) /\ Len(q) \in Nat /\ q[k] = s
      /\ \A j \in 1 .. k - 1 : q[j] = ray[k - j]
  BY <1>2, <1>3, <1>5, RayBack
<1>7. q \in RAYS_ALL[t] BY <1>6, DirFacts, RaysAre
<1> HIDE DEF q
<1>8. k \in Sight(q, 0, b)
  <2>1. k \in 0 + 1 .. Len(q) BY <1>4, <1>5, <1>6
  <2>2. \A j \in 1 .. k - 1 : k - j \in 1 .. k - 1 BY <1>4, <1>5
  <2>3. \A j \in 0 + 1 .. k - 1 : b[q[j]] = EMPTY BY <1>5, <1>6, <2>2
  <2>4. QED BY <2>1, <2>3 DEF Sight
<1>9. QED BY <1>6, <1>7, <1>8 DEF Sees

\* And so it is over one screen.
LEMMA SeesOverBack ==
  ASSUME NEW b, NEW s \in Squares, NEW t, SeesOver(b, s, t)
  PROVE  t \in Squares /\ SeesOver(b, t, s)
PROOF
<1>1. PICK ray \in RAYS_ALL[s] : \E k \in Sight(ray, 0, b) :
        b[ray[k]].type \notin {EMPTY.type, CANNON} /\ \E i \in Sight(ray, k, b) : ray[i] = t
  BY DEF SeesOver
<1>2. PICK d \in Dirs : ray = RayFrom(s, d) BY <1>1, RaysAre
<1>3. PICK k \in Sight(ray, 0, b) :
        b[ray[k]].type \notin {EMPTY.type, CANNON} /\ \E i \in Sight(ray, k, b) : ray[i] = t
  BY <1>1
<1>4. PICK i \in Sight(ray, k, b) : ray[i] = t BY <1>3
<1> DEFINE q == RayFrom(t, Back(d))
           h == i - k
<1>5. Len(ray) \in Nat BY <1>2, RayFacts
<1>6. /\ k \in 1 .. Len(ray) /\ \A j \in 1 .. k - 1 : b[ray[j]] = EMPTY
      /\ i \in k + 1 .. Len(ray) /\ \A j \in k + 1 .. i - 1 : b[ray[j]] = EMPTY
  BY <1>3, <1>4, <1>5 DEF Sight
<1>7. i \in 1 .. Len(ray) BY <1>5, <1>6
<1>8. /\ t \in Squares /\ i <= Len(q) /\ Len(q) \in Nat /\ q[i] = s
      /\ \A j \in 1 .. i - 1 : q[j] = ray[i - j]
  BY <1>2, <1>4, <1>7, RayBack
<1>9. q \in RAYS_ALL[t] BY <1>8, DirFacts, RaysAre
<1> HIDE DEF q
<1>10. h \in 1 .. i - 1 /\ i - h = k /\ h \in Int BY <1>5, <1>6
<1>11. q[h] = ray[k] BY <1>8, <1>10
<1> HIDE DEF h
<1>12. h \in Sight(q, 0, b)
  <2>1. h \in 0 + 1 .. Len(q) BY <1>5, <1>6, <1>8, <1>10
  <2>2. \A j \in 0 + 1 .. h - 1 : j \in 1 .. i - 1 /\ i - j \in k + 1 .. i - 1
    BY <1>5, <1>6, <1>10
  <2>3. \A j \in 0 + 1 .. h - 1 : b[q[j]] = EMPTY BY <1>6, <1>8, <2>2
  <2>4. QED BY <2>1, <2>3 DEF Sight
<1>13. i \in Sight(q, h, b)
  <2>1. i \in h + 1 .. Len(q) BY <1>5, <1>6, <1>8, <1>10
  <2>2. \A j \in h + 1 .. i - 1 : j \in 1 .. i - 1 /\ i - j \in 1 .. k - 1
    BY <1>5, <1>6, <1>10
  <2>3. \A j \in h + 1 .. i - 1 : b[q[j]] = EMPTY BY <1>6, <1>8, <2>2
  <2>4. QED BY <2>1, <2>3 DEF Sight
<1>14. b[q[h]].type \notin {EMPTY.type, CANNON} BY <1>3, <1>11
<1>15. QED BY <1>8, <1>9, <1>12, <1>13, <1>14 DEF SeesOver

\* Palace steps can be walked back.
LEMMA PalaceStepBack ==
  ASSUME NEW s \in Squares, NEW t \in PALACE_STEPS[s]
  PROVE  t \in Squares /\ s \in PALACE_STEPS[t]
PROOF
<1> DEFINE Steps(x) == {y \in {Along(x, d, 1) : d \in {e \in Dirs : LineStep(x, e)}} :
                          PalaceId(x) # -1 /\ PalaceId(y) = PalaceId(x)}
           F == [x \in Squares |-> Steps(x)]
<1>1. \A x \in Squares : PALACE_STEPS[x] = Steps(x)
  <2>1. PALACE_STEPS = Table(F) BY DEF PALACE_STEPS, Dirs
  <2>2. \A x \in Squares : F[x] = Steps(x) OBVIOUS
  <2> HIDE DEF F
  <2>3. QED BY <2>1, <2>2, TableIs
<1>2. PICK d \in Dirs : LineStep(s, d) /\ t = Along(s, d, 1) BY <1>1
<1>3. PalaceId(s) # -1 /\ PalaceId(t) = PalaceId(s) BY <1>1
<1>4. t \in Squares /\ LineStep(t, Back(d)) /\ Back(d) \in Dirs BY <1>2, LineStepBack, DirFacts
<1>5. Along(t, Back(d), 1) = s
  <2>1. 1 \in Int /\ 1 - 1 = 0 OBVIOUS
  <2>2. Along(Along(s, d, 1), Back(d), 1) = Along(s, d, 1 - 1) BY <2>1, AlongFacts
  <2>3. Along(s, d, 0) = s BY <2>1, AlongFacts
  <2>4. QED BY <1>2, <2>1, <2>2, <2>3
<1>6. QED BY <1>1, <1>3, <1>4, <1>5

\* The reverse tables hold what the move tables hold.
LEMMA TablesReverse ==
  ASSUME NEW t \in Squares, NEW c \in Sides
  PROVE  /\ HORSE_ATTACKS[t] = UNION {{<<x[1], s>> : x \in {y \in HORSE_MOVES[s] : y[2] = t}} : s \in Squares}
         /\ ELEPHANT_ATTACKS[t] =
              UNION {{<<x[1], x[2], s>> : x \in {y \in ELEPHANT_MOVES[s] : y[3] = t}} : s \in Squares}
         /\ PAWN_ATTACKS[c][t] = {s \in Squares : t \in PAWN_MOVES[c][s]}
PROOF
<1> DEFINE H(u) == UNION {{<<x[1], s>> : x \in {y \in HORSE_MOVES[s] : y[2] = u}} : s \in Squares}
           E(u) == UNION {{<<x[1], x[2], s>> : x \in {y \in ELEPHANT_MOVES[s] : y[3] = u}} : s \in Squares}
           P(d, u) == {s \in Squares : u \in PAWN_MOVES[d][s]}
           HF == [u \in Squares |-> H(u)]
           EF == [u \in Squares |-> E(u)]
           PF(d) == [u \in Squares |-> P(d, u)]
           PFF == [d \in Sides |-> Table(PF(d))]
<1>1. HORSE_ATTACKS[t] = H(t)
  <2>1. HORSE_ATTACKS = Table(HF) BY DEF HORSE_ATTACKS
  <2>2. HF[t] = H(t) OBVIOUS
  <2> HIDE DEF HF, H
  <2>3. QED BY <2>1, <2>2, TableIs
<1>2. ELEPHANT_ATTACKS[t] = E(t)
  <2>1. ELEPHANT_ATTACKS = Table(EF) BY DEF ELEPHANT_ATTACKS
  <2>2. EF[t] = E(t) OBVIOUS
  <2> HIDE DEF EF, E
  <2>3. QED BY <2>1, <2>2, TableIs
<1>3. PAWN_ATTACKS[c][t] = P(c, t)
  <2>1. PAWN_ATTACKS = Table(PFF) BY DEF PAWN_ATTACKS
  <2>2. PFF[c] = Table(PF(c)) OBVIOUS
  <2>3. PF(c)[t] = P(c, t) OBVIOUS
  <2> HIDE DEF PFF, PF, P
  <2>4. PAWN_ATTACKS[c] = PF(c) BY <2>1, <2>2, TableIs
  <2>5. QED BY <2>3, <2>4
<1>4. QED BY <1>1, <1>2, <1>3

USE DEF KING, GUARD, CHARIOT, CANNON, HORSE, ELEPHANT, PAWN

\* A square is attacked exactly when a man of that side reaches it.
LEMMA AttackIsReach ==
  ASSUME NEW b \in Board, NEW t \in Squares, NEW c \in Sides
  PROVE  AttackedBy(b, t, c) <=> \E f \in Own(b, c) : t \in Reach(f, b)
PROOF
<1>1. ASSUME NEW f \in Own(b, c), t \in Reach(f, b)
      PROVE  AttackedBy(b, t, c)
  <2>1. f \in Squares /\ b[f].color = c BY <1>1 DEF Own
  <2>2. b[f] \in Piece
    <3>1. b[f] \in Piece \union {EMPTY} BY <2>1 DEF Board
    <3>2. EMPTY.color = 2 /\ c # 2 BY DEF EMPTY
    <3>3. QED BY <2>1, <3>1, <3>2
  <2>3. b[f] = Of(c, b[f].type) BY <2>1, <2>2 DEF Piece, Of
  <2>4. CASE b[f].type = CHARIOT
    <3>1. t \in ChariotReach(f, b) BY <1>1, <2>4 DEF Reach
    <3>2. Sees(b, f, t) BY <3>1 DEF ChariotReach, Sees
    <3>3. Sees(b, t, f) BY <2>1, <3>2, SeesBack
    <3>4. \E ray \in RAYS_ALL[t] : SlideHits(ray, t, b, c)
      BY <2>3, <2>4, <3>3 DEF Sees, SlideHits
    <3>5. QED BY <3>4 DEF AttackedBy
  <2>5. CASE b[f].type = CANNON
    <3>1. t \in CannonReach(f, b) BY <1>1, <2>5 DEF Reach
    <3>2. SeesOver(b, f, t) /\ b[t].type # CANNON
      BY <3>1 DEF CannonReach, Screens, SeesOver
    <3>3. SeesOver(b, t, f) BY <2>1, <3>2, SeesOverBack
    <3>4. \E ray \in RAYS_ALL[t] : SlideHits(ray, t, b, c)
      BY <2>3, <2>5, <3>2, <3>3 DEF SeesOver, SlideHits
    <3>5. QED BY <3>4 DEF AttackedBy
  <2>6. CASE b[f].type = HORSE
    <3>1. PICK y \in HORSE_MOVES[f] : b[y[1]] = EMPTY /\ t = y[2] BY <1>1, <2>6 DEF Reach
    <3>2. <<y[1], f>> \in HORSE_ATTACKS[t] BY <2>1, <3>1, TablesReverse
    <3>3. QED BY <2>3, <2>6, <3>1, <3>2 DEF AttackedBy
  <2>7. CASE b[f].type = ELEPHANT
    <3>1. PICK y \in ELEPHANT_MOVES[f] : b[y[1]] = EMPTY /\ b[y[2]] = EMPTY /\ t = y[3]
      BY <1>1, <2>7 DEF Reach
    <3>2. <<y[1], y[2], f>> \in ELEPHANT_ATTACKS[t] BY <2>1, <3>1, TablesReverse
    <3>3. QED BY <2>3, <2>7, <3>1, <3>2 DEF AttackedBy
  <2>8. CASE b[f].type = PAWN
    <3>1. t \in PAWN_MOVES[c][f] BY <1>1, <2>1, <2>8 DEF Reach
    <3>2. f \in PAWN_ATTACKS[c][t] BY <2>1, <3>1, TablesReverse
    <3>3. QED BY <2>3, <2>8, <3>2 DEF AttackedBy
  <2>9. CASE b[f].type \in {KING, GUARD}
    <3>1. t \in PALACE_STEPS[f] BY <1>1, <2>9 DEF Reach
    <3>2. f \in PALACE_STEPS[t] BY <2>1, <3>1, PalaceStepBack
    <3>3. b[f] \in {Of(c, KING), Of(c, GUARD)} BY <2>3, <2>9
    <3>4. QED BY <3>2, <3>3 DEF AttackedBy
  <2>10. QED BY <2>2, <2>4, <2>5, <2>6, <2>7, <2>8, <2>9 DEF Piece
<1>2. ASSUME AttackedBy(b, t, c)
      PROVE  \E f \in Own(b, c) : t \in Reach(f, b)
  <2>1. \A f \in Squares : \A type : b[f] = Of(c, type) => f \in Own(b, c) /\ b[f].type = type
    BY DEF Of, Own
  <2>2. CASE \E ray \in RAYS_ALL[t] : SlideHits(ray, t, b, c)
    <3>1. PICK ray \in RAYS_ALL[t] : SlideHits(ray, t, b, c) BY <2>2
    <3>2. CASE \E k \in Sight(ray, 0, b) : b[ray[k]] = Of(c, CHARIOT)
      <4>1. PICK k \in Sight(ray, 0, b) : b[ray[k]] = Of(c, CHARIOT) BY <3>2
      <4>2. Sees(b, t, ray[k]) BY <4>1 DEF Sees
      <4>3. ray[k] \in Squares /\ Sees(b, ray[k], t) BY <4>2, SeesBack
      <4>4. t \in ChariotReach(ray[k], b) BY <4>3 DEF Sees, ChariotReach
      <4>5. b[ray[k]].type = CHARIOT /\ ray[k] \in Own(b, c) BY <2>1, <4>1, <4>3
      <4>6. Reach(ray[k], b) = ChariotReach(ray[k], b) BY <4>5 DEF Reach
      <4>7. QED BY <4>4, <4>5, <4>6
    <3>3. CASE \E k \in Sight(ray, 0, b) : /\ b[ray[k]].type \notin {EMPTY.type, CANNON}
                                          /\ b[t].type # CANNON
                                          /\ \E i \in Sight(ray, k, b) : b[ray[i]] = Of(c, CANNON)
      <4>1. PICK k \in Sight(ray, 0, b) : /\ b[ray[k]].type \notin {EMPTY.type, CANNON}
                                          /\ b[t].type # CANNON
                                          /\ \E i \in Sight(ray, k, b) : b[ray[i]] = Of(c, CANNON)
        BY <3>3
      <4>2. PICK i \in Sight(ray, k, b) : b[ray[i]] = Of(c, CANNON) BY <4>1
      <4> DEFINE f == ray[i]
      <4>3. SeesOver(b, t, f) BY <4>1, <4>2 DEF SeesOver
      <4> HIDE DEF f
      <4>4. f \in Squares /\ SeesOver(b, f, t) BY <4>3, SeesOverBack
      <4>5. t \in CannonReach(f, b) BY <4>1, <4>4 DEF SeesOver, CannonReach, Screens
      <4>6. b[f].type = CANNON /\ f \in Own(b, c) BY <2>1, <4>2, <4>4 DEF f
      <4>7. Reach(f, b) = CannonReach(f, b) BY <4>6 DEF Reach
      <4>8. QED BY <4>5, <4>6, <4>7
    <3>4. QED BY <3>1, <3>2, <3>3, Zenon DEF SlideHits
  <2>3. CASE \E x \in HORSE_ATTACKS[t] : b[x[2]] = Of(c, HORSE) /\ b[x[1]] = EMPTY
    <3>1. PICK x \in HORSE_ATTACKS[t] : b[x[2]] = Of(c, HORSE) /\ b[x[1]] = EMPTY BY <2>3
    <3>2. PICK f \in Squares : x \in {<<y[1], f>> : y \in {z \in HORSE_MOVES[f] : z[2] = t}}
      BY TablesReverse
    <3>3. PICK y \in HORSE_MOVES[f] : x = <<y[1], f>> /\ y[2] = t BY <3>2
    <3>4. b[f].type = HORSE /\ f \in Own(b, c) /\ b[y[1]] = EMPTY BY <2>1, <3>1, <3>3
    <3>5. t \in Reach(f, b) BY <3>3, <3>4 DEF Reach
    <3>6. QED BY <3>4, <3>5
  <2>4. CASE \E x \in ELEPHANT_ATTACKS[t] :
               b[x[3]] = Of(c, ELEPHANT) /\ b[x[1]] = EMPTY /\ b[x[2]] = EMPTY
    <3>1. PICK x \in ELEPHANT_ATTACKS[t] :
            b[x[3]] = Of(c, ELEPHANT) /\ b[x[1]] = EMPTY /\ b[x[2]] = EMPTY
      BY <2>4
    <3>2. PICK f \in Squares : x \in {<<y[1], y[2], f>> : y \in {z \in ELEPHANT_MOVES[f] : z[3] = t}}
      BY TablesReverse
    <3>3. PICK y \in ELEPHANT_MOVES[f] : x = <<y[1], y[2], f>> /\ y[3] = t BY <3>2
    <3>4. b[f].type = ELEPHANT /\ f \in Own(b, c) /\ b[y[1]] = EMPTY /\ b[y[2]] = EMPTY
      BY <2>1, <3>1, <3>3
    <3>5. t \in Reach(f, b) BY <3>3, <3>4 DEF Reach
    <3>6. QED BY <3>4, <3>5
  <2>5. CASE \E s \in PAWN_ATTACKS[c][t] : b[s] = Of(c, PAWN)
    <3>1. PICK f \in PAWN_ATTACKS[c][t] : b[f] = Of(c, PAWN) BY <2>5
    <3>2. f \in Squares /\ t \in PAWN_MOVES[c][f] BY <3>1, TablesReverse
    <3>3. b[f].type = PAWN /\ f \in Own(b, c) /\ b[f].color = c BY <2>1, <3>1, <3>2 DEF Own
    <3>4. t \in Reach(f, b) BY <3>2, <3>3 DEF Reach
    <3>5. QED BY <3>3, <3>4
  <2>6. CASE \E s \in PALACE_STEPS[t] : b[s] \in {Of(c, KING), Of(c, GUARD)}
    <3>1. PICK f \in PALACE_STEPS[t] : b[f] \in {Of(c, KING), Of(c, GUARD)} BY <2>6
    <3>2. f \in Squares /\ t \in PALACE_STEPS[f] BY <3>1, PalaceStepBack
    <3>3. b[f].type \in {KING, GUARD} /\ f \in Own(b, c) BY <2>1, <3>1, <3>2
    <3>4. t \in Reach(f, b) BY <3>2, <3>3 DEF Reach
    <3>5. QED BY <3>3, <3>4
  <2>7. QED BY <1>2, <2>2, <2>3, <2>4, <2>5, <2>6 DEF AttackedBy
<1>3. QED BY <1>1, <1>2

\* A man is attacked exactly when some pseudo-legal move takes it.
LEMMA AttackIsCapture ==
  ASSUME NEW b \in Board, NEW by \in Sides, NEW s \in Own(b, Other(by))
  PROVE  AttackedBy(b, s, by) <=> s \in {m[2] : m \in PseudoMoves(b, by)}
PROOF
<1>0. Other(by) # by BY DEF Other
<1>1. s \in Squares /\ b[s].color # by BY <1>0 DEF Own
<1>2. ASSUME NEW f \in Own(b, by), s \in Reach(f, b)
      PROVE  s \in {m[2] : m \in PseudoMoves(b, by)}
  <2>1. <<f, s>> \in PseudoMoves(b, by) BY <1>1, <1>2 DEF PseudoMoves
  <2>2. <<f, s>>[2] = s OBVIOUS
  <2>3. QED BY <2>1, <2>2
<1>3. ASSUME NEW m \in PseudoMoves(b, by), s = m[2]
      PROVE  \E f \in Own(b, by) : s \in Reach(f, b)
  <2>1. PICK f \in Own(b, by) : m \in {<<f, t>> : t \in {u \in Reach(f, b) \cap Squares : b[u].color # by}}
    BY DEF PseudoMoves
  <2>2. PICK t \in Reach(f, b) : m = <<f, t>> BY <2>1
  <2>3. QED BY <1>3, <2>2
<1>4. QED BY <1>1, <1>2, <1>3, AttackIsReach

\* Each king stands where kings says.
KingsStand(p) == \A c \in Sides : p.board[p.kings[c]] = Of(c, KING)

\* No king is ever taken: a move that could take it shows that the side that has
\* just moved left its king under attack.
LEMMA MakeKeepsKings ==
  ASSUME NEW p, WellFormed(p), KingsStand(p), MoverSafe(p), NEW m \in LegalMoves(p)
  PROVE  KingsStand(MakeMove(p, m))
PROOF
<1> DEFINE q == MakeMove(p, m)
<1>1. p \in Position /\ KingsKnown(p) BY DEF WellFormed
<1>2. /\ p.board \in Board /\ p.side \in Sides /\ p.kings \in [Sides -> Squares]
  BY <1>1 DEF Position
<1>3. CASE m = PASS_MOVE BY <1>3 DEF MakeMove, KingsStand
<1>4. ASSUME NEW f \in Squares, NEW t \in Squares, m = <<f, t>>, f # t, m # PASS_MOVE,
             p.board[f] \in Piece, p.board[f].color = p.side, p.board[t].color # p.side
      PROVE  KingsStand(q)
  <2> DEFINE them == Other(p.side)
  <2>1. them \in Sides /\ them # p.side /\ (\A c \in Sides : c = them \/ c = p.side) /\ Other(them) = p.side
    BY <1>2 DEF Other
  <2>2. \A c \in Sides : /\ Of(c, KING).color = c /\ Of(c, KING).type = KING
    BY DEF Of
  <2>3. t # p.kings[them]
    <3>1. SUFFICES ASSUME t = p.kings[them] PROVE FALSE OBVIOUS
    <3>2. p.board[t] = Of(them, KING) BY <2>1, <3>1 DEF KingsStand
    <3>3. t \in Own(p.board, Other(p.side)) BY <1>4, <2>1, <2>2, <3>2 DEF Own
    <3>4. m \in PseudoMoves(p.board, p.side) BY <1>4 DEF LegalMoves
    <3>5. m[2] = t BY <1>4
    <3>6. t \in {x[2] : x \in PseudoMoves(p.board, p.side)} BY <3>4, <3>5
    <3>7. AttackedBy(p.board, t, p.side) BY <1>2, <3>3, <3>6, AttackIsCapture
    <3>8. QED BY <3>1, <3>7 DEF MoverSafe
  <2>4. q.board = [p.board EXCEPT ![t] = p.board[f], ![f] = EMPTY] BY <1>4 DEF MakeMove
  <2>5. q.kings = IF p.board[f].type # KING THEN p.kings ELSE [p.kings EXCEPT ![p.side] = t]
    BY <1>4 DEF MakeMove
  <2> HIDE DEF q, them
  <2>6. \A s \in Squares : q.board[s] = IF s = f THEN EMPTY ELSE IF s = t THEN p.board[f] ELSE p.board[s]
    BY <1>2, <1>4, <2>4 DEF Board
  <2>7. q.board[q.kings[them]] = Of(them, KING)
    <3>1. q.kings[them] = p.kings[them] BY <1>2, <2>1, <2>5
    <3>2. p.board[p.kings[them]] = Of(them, KING) /\ p.kings[them] \in Squares
      BY <1>2, <2>1 DEF KingsStand
    <3>3. p.kings[them] # f BY <1>4, <2>1, <2>2, <3>2
    <3>4. QED BY <2>3, <2>6, <3>1, <3>2, <3>3
  <2>8. q.board[q.kings[p.side]] = Of(p.side, KING)
    <3>1. p.board[p.kings[p.side]] = Of(p.side, KING) /\ p.kings[p.side] \in Squares
      BY <1>2 DEF KingsStand
    <3>2. CASE p.board[f].type = KING
      <4>1. q.kings[p.side] = t BY <1>2, <2>5, <3>2
      <4>2. p.board[f] = Of(p.side, KING) BY <1>4, <3>2 DEF Piece, Of
      <4>3. QED BY <1>4, <2>6, <4>1, <4>2
    <3>3. CASE p.board[f].type # KING
      <4>1. q.kings[p.side] = p.kings[p.side] BY <2>5, <3>3
      <4>2. p.kings[p.side] # f /\ p.kings[p.side] # t BY <1>2, <1>4, <2>2, <3>1, <3>3
      <4>3. QED BY <2>6, <3>1, <4>1, <4>2
    <3>4. QED BY <3>2, <3>3
  <2>9. QED BY <2>1, <2>7, <2>8 DEF KingsStand
<1>5. QED BY <1>1, <1>3, <1>4, LegalMoveFacts DEF q

HIDE DEF KING, GUARD, CHARIOT, CANNON, HORSE, ELEPHANT, PAWN

-----------------------------------------------------------------------------
(* What every legal move keeps, and every start has.                         *)

Good(p) ==
  /\ WellFormed(p) /\ HistorySound(p) /\ BikjangSound(p)
  /\ MoverSafe(p) /\ KingsStand(p)

\* A legal move keeps all of that.
LEMMA MakeKeepsGood ==
  ASSUME NEW p, Good(p), NEW m \in LegalMoves(p)
  PROVE  Good(MakeMove(p, m)) /\ MakeMove(p, m).forced = p.forced
PROOF
<1>1. p.irrev \in Nat BY DEF Good, WellFormed, Position
<1>2. KingsStand(MakeMove(p, m)) BY MakeKeepsKings, Zenon DEF Good
<1>3. QED BY <1>1, <1>2, MakeWellFormed, MakeHistory, MakeKeepsRules, ZenonT(30) DEF Good, MakeMove

\* Every set-up is sound (StartsAssumption).
LEMMA StartIsGood ==
  ASSUME start \in Starts
  PROVE  Good(StartPosition) /\ StartPosition.forced = (rules.bikjang = "forced")
PROOF
<1> DEFINE p == StartPosition
           b == start.board
           kings == [c \in Sides |-> KingSquare(b, c)]
<1>1. /\ b \in Board /\ start.side \in Sides /\ start.ply \in Nat
      /\ \A c \in Sides : \E k \in Squares : \A t \in Squares : b[t] = Of(c, KING) <=> t = k
      /\ ~AttackedBy(b, KingSquare(b, Other(start.side)), start.side)
  BY StartsAssumption DEF Board
<1>2. p = [board |-> b, side |-> start.side, kings |-> kings, passes |-> 0,
           bikjang |-> Bikjang(b, kings, start.side), ply |-> start.ply,
           history |-> << <<b, start.side>> >>, stack |-> <<>>, irrev |-> 1,
           forced |-> rules.bikjang = "forced"]
  BY DEF StartPosition, Setup
<1>3. ASSUME NEW c \in Sides
      PROVE  /\ KingSquare(b, c) \in Squares
             /\ \A t \in Squares : b[t] = Of(c, KING) => t = KingSquare(b, c)
             /\ b[KingSquare(b, c)] = Of(c, KING)
  BY <1>1 DEF KingSquare
<1>4. WellFormed(p)
  <2>1. kings \in [Sides -> Squares] BY <1>3
  <2>2. KingsKnown(p) BY <1>2, <1>3 DEF KingsKnown
  <2>3. Bikjang(b, kings, start.side) \in BOOLEAN BY DEF Bikjang, KingsFace
  <2>4. << <<b, start.side>> >> \in Seq(Board \X Sides) BY <1>1
  <2>5. <<>> \in Seq(UndoRecord) OBVIOUS
  <2>6. p \in Position BY <1>1, <1>2, <2>1, <2>3, <2>4, <2>5 DEF Position
  <2>7. QED BY <2>2, <2>6 DEF WellFormed
<1>5. HistorySound(p)
  <2>1. Len(p.history) = 1 /\ p.history[1] = <<b, start.side>> /\ p.irrev = 1
        /\ p.board = b /\ p.side = start.side
    BY <1>2
  <2>2. Men(b) \in Nat BY MenIsNat
  <2>3. QED BY <2>1, <2>2 DEF HistorySound, Hash
<1>6. BikjangSound(p) BY <1>2 DEF BikjangSound
<1>7. MoverSafe(p)
  <2>1. Other(start.side) \in Sides BY <1>1 DEF Other
  <2>2. p.kings[Other(p.side)] = KingSquare(b, Other(start.side)) BY <1>2, <2>1
  <2>3. QED BY <1>1, <1>2, <2>2 DEF MoverSafe
<1>8. KingsStand(p)
  <2>1. p.board = b /\ \A c \in Sides : p.kings[c] = KingSquare(b, c) BY <1>2
  <2>2. QED BY <1>3, <2>1 DEF KingsStand
<1>9. QED BY <1>2, <1>4, <1>5, <1>6, <1>7, <1>8 DEF Good

-----------------------------------------------------------------------------
(* The position always stands at the end of a line of legal moves.           *)

\* T holds the positions of the line, the start first; no move is made after two passes.
IsTrace(T, first, moves, last, forced) ==
  /\ T \in Seq(Position) /\ Len(T) = Len(moves) + 1
  /\ T[1] = first /\ T[Len(moves) + 1] = last
  /\ \A i \in 1 .. Len(moves) + 1 : Good(T[i]) /\ T[i].forced = forced
  /\ \A i \in 1 .. Len(moves) :
       moves[i] \in LegalMoves(T[i]) /\ T[i + 1] = MakeMove(T[i], moves[i])
  /\ \A i \in 1 .. Len(moves) : T[i].passes < 2

\* f is what MakeMove makes of first by the moves, one by one.
Replays(f, first, moves) ==
  f = [n \in 0 .. Len(moves) |-> IF n = 0 THEN first ELSE MakeMove(f[n - 1], moves[n])]

\* A replay of the moves can only find the positions of T.
OnlyTrace(T, first, moves) ==
  \A f : Replays(f, first, moves) => \A n \in 0 .. Len(moves) : f[n] = T[n + 1]

Replayed ==
  /\ start \in Starts /\ rules \in RuleSets /\ line \in Seq(Moves)
  /\ \E T : /\ IsTrace(T, StartPosition, line, pos, rules.bikjang = "forced")
            /\ OnlyTrace(T, StartPosition, line)

\* What a replay is, step by step.
LEMMA ReplaySteps ==
  ASSUME NEW moves, Len(moves) \in Nat, NEW first, NEW f, DOMAIN f = 0 .. Len(moves),
         f = [n \in 0 .. Len(moves) |-> f[n]],
         f[0] = first, \A n \in 1 .. Len(moves) : f[n] = MakeMove(f[n - 1], moves[n])
  PROVE  Replays(f, first, moves)
PROOF
<1>1. \A n \in 0 .. Len(moves) : f[n] = IF n = 0 THEN first ELSE MakeMove(f[n - 1], moves[n])
  <2>1. \A n \in 0 .. Len(moves) : n # 0 => n \in 1 .. Len(moves) OBVIOUS
  <2>2. QED BY <2>1
<1>2. QED BY <1>1, Zenon DEF Replays

\* And back: the steps of a replay.
LEMMA StepsOfReplay ==
  ASSUME NEW moves, Len(moves) \in Nat, NEW first, NEW f, Replays(f, first, moves)
  PROVE  /\ f[0] = first /\ \A n \in 1 .. Len(moves) : f[n] = MakeMove(f[n - 1], moves[n])
         /\ f = [n \in 0 .. Len(moves) |-> f[n]]
PROOF
<1> DEFINE g == [n \in 0 .. Len(moves) |-> IF n = 0 THEN first ELSE MakeMove(f[n - 1], moves[n])]
<1>1. f = g BY DEF Replays
<1>2. /\ g[0] = first /\ \A n \in 1 .. Len(moves) : g[n] = MakeMove(f[n - 1], moves[n])
      /\ g = [n \in 0 .. Len(moves) |-> g[n]]
  OBVIOUS
<1> HIDE DEF g
<1>3. QED BY <1>1, <1>2

\* The empty line.
LEMMA InitReplayed == Init => Replayed
PROOF
<1> SUFFICES ASSUME Init PROVE Replayed OBVIOUS
<1>1. start \in Starts /\ rules \in RuleSets /\ line = <<>> /\ pos = StartPosition BY DEF Init
<1>2. Good(pos) /\ pos.forced = (rules.bikjang = "forced") BY <1>1, StartIsGood
<1>3. pos \in Position BY <1>2 DEF Good, WellFormed
<1>4. Len(line) = 0 /\ line \in Seq(Moves) BY <1>1
<1>5. /\ <<pos>> \in Seq(Position) /\ Len(<<pos>>) = 1 /\ <<pos>>[1] = pos
      /\ \A i \in 1 .. 0 + 1 : i = 1
  BY <1>3
<1>6. IsTrace(<<pos>>, StartPosition, line, pos, rules.bikjang = "forced")
  BY <1>1, <1>2, <1>4, <1>5 DEF IsTrace
<1>7. OnlyTrace(<<pos>>, StartPosition, line)
  <2> SUFFICES ASSUME NEW f, Replays(f, StartPosition, line), NEW n \in 0 .. Len(line)
               PROVE  f[n] = <<pos>>[n + 1]
    BY DEF OnlyTrace
  <2>1. n = 0 /\ <<pos>>[n + 1] = pos BY <1>4
  <2>2. f[0] = StartPosition BY <1>4, StepsOfReplay
  <2>3. QED BY <1>1, <2>1, <2>2
<1>8. QED BY <1>1, <1>4, <1>6, <1>7 DEF Replayed

\* A game that goes on has not been passed twice.
LEMMA EndedByPasses ==
  ASSUME NEW p, p.passes \in Nat, GameStatus(p, rules) = ONGOING
  PROVE  p.passes < 2
PROOF
<1> SUFFICES ASSUME p.passes >= 2 PROVE FALSE OBVIOUS
<1>1. View(p).passes = p.passes BY DEF View
<1> HIDE DEF View
<1>2. RuleEnding(View(p), rules) # ONGOING BY <1>1 DEF RuleEnding, ONGOING, End
<1>3. QED BY <1>2 DEF GameStatus, ONGOING, End

\* A move made lengthens the line and its trace.
LEMMA MakeReplayed ==
  ASSUME Replayed, NEW m \in LegalMoves(pos), Make(m)
  PROVE  Replayed'
PROOF
<1>1. PICK T : /\ IsTrace(T, StartPosition, line, pos, rules.bikjang = "forced")
               /\ OnlyTrace(T, StartPosition, line)
  BY DEF Replayed
<1> DEFINE n == Len(line)
           U == Append(T, pos')
<1>2. /\ line \in Seq(Moves) /\ n \in Nat /\ T \in Seq(Position) /\ Len(T) = n + 1
      /\ T[n + 1] = pos /\ Good(pos) /\ pos.forced = (rules.bikjang = "forced")
  BY <1>1 DEF Replayed, IsTrace
<1>3. /\ line' = Append(line, m) /\ pos' = MakeMove(pos, m) /\ start' = start /\ rules' = rules
  BY DEF Make
<1>4. Good(pos') /\ pos'.forced = pos.forced BY <1>2, <1>3, MakeKeepsGood
<1>5. m \in Moves BY <1>2, LegalMoveFacts DEF Good, WellFormed, Moves
<1>6. /\ line' \in Seq(Moves) /\ Len(line') = n + 1 /\ line'[n + 1] = m
      /\ \A i \in 1 .. n : line'[i] = line[i]
  BY <1>2, <1>3, <1>5
<1>7. pos' \in Position BY <1>4 DEF Good, WellFormed
<1>8. /\ U \in Seq(Position) /\ Len(U) = n + 2 /\ U[n + 2] = pos'
      /\ \A i \in 1 .. n + 1 : U[i] = T[i]
  BY <1>2, <1>7
<1> HIDE DEF U, n
<1>9. \A i \in 1 .. n + 2 : Good(U[i]) /\ U[i].forced = (rules'.bikjang = "forced")
  <2>1. \A i \in 1 .. n + 1 : Good(T[i]) /\ T[i].forced = (rules.bikjang = "forced")
    BY <1>1 DEF IsTrace, n
  <2>2. \A i \in 1 .. n + 2 : i \in 1 .. n + 1 \/ i = n + 2 BY <1>2
  <2>3. QED BY <2>1, <2>2, <1>2, <1>3, <1>4, <1>8
<1>10. \A i \in 1 .. n + 1 : line'[i] \in LegalMoves(U[i]) /\ U[i + 1] = MakeMove(U[i], line'[i])
  <2>1. \A i \in 1 .. n : line[i] \in LegalMoves(T[i]) /\ T[i + 1] = MakeMove(T[i], line[i])
    BY <1>1 DEF IsTrace, n
  <2>2. ASSUME NEW i \in 1 .. n
        PROVE  line'[i] \in LegalMoves(U[i]) /\ U[i + 1] = MakeMove(U[i], line'[i])
    <3>1. i \in 1 .. n + 1 /\ i + 1 \in 1 .. n + 1 BY <1>2
    <3>2. U[i] = T[i] /\ U[i + 1] = T[i + 1] /\ line'[i] = line[i] BY <3>1, <1>6, <1>8
    <3>3. QED BY <2>1, <3>2
  <2>3. U[n + 1] = pos /\ U[(n + 1) + 1] = pos' /\ line'[n + 1] = m BY <1>2, <1>6, <1>8
  <2>4. \A i \in 1 .. n + 1 : i \in 1 .. n \/ i = n + 1 BY <1>2
  <2>5. QED BY <2>2, <2>3, <2>4, <1>3
<1>11. U[1] = StartPosition'
  <2>1. T[1] = StartPosition BY <1>1 DEF IsTrace
  <2>2. U[1] = T[1] BY <1>2, <1>8
  <2>3. QED BY <2>1, <2>2, <1>3 DEF StartPosition
<1>12. Len(line') + 1 = n + 2 BY <1>2, <1>6
<1>13. \A i \in 1 .. n + 1 : U[i].passes < 2
  <2>1. \A i \in 1 .. n : T[i].passes < 2 BY <1>1 DEF IsTrace, n
  <2>2. pos.passes < 2
    <3>1. pos.passes \in Nat BY <1>2 DEF Good, WellFormed, Position
    <3>2. GameStatus(pos, rules) = ONGOING BY DEF Make
    <3>3. QED BY <3>1, <3>2, EndedByPasses
  <2>3. U[n + 1] = pos BY <1>2, <1>8
  <2>4. \A i \in 1 .. n : i \in 1 .. n + 1 BY <1>2
  <2>5. \A i \in 1 .. n + 1 : i \in 1 .. n \/ i = n + 1 BY <1>2
  <2>6. QED BY <2>1, <2>2, <2>3, <2>4, <2>5, <1>8
<1>14. IsTrace(U, StartPosition', line', pos', rules'.bikjang = "forced")
  BY <1>6, <1>8, <1>9, <1>10, <1>11, <1>12, <1>13 DEF IsTrace
<1>15. start' \in Starts /\ rules' \in RuleSets BY <1>3 DEF Replayed
<1>16. OnlyTrace(U, StartPosition', line')
  <2> SUFFICES ASSUME NEW f, Replays(f, StartPosition', line'), NEW k \in 0 .. Len(line')
               PROVE  f[k] = U[k + 1]
    BY DEF OnlyTrace
  <2> DEFINE g == [i \in 0 .. n |-> f[i]]
  <2>1. StartPosition' = StartPosition BY <1>3 DEF StartPosition
  <2>2. f[0] = StartPosition /\ \A i \in 1 .. n + 1 : f[i] = MakeMove(f[i - 1], line'[i])
    <3>1. Len(line') \in Nat BY <1>2, <1>6
    <3>2. /\ f[0] = StartPosition' /\ \A i \in 1 .. Len(line') : f[i] = MakeMove(f[i - 1], line'[i])
      BY <3>1, StepsOfReplay
    <3>3. QED BY <2>1, <3>2, <1>6
  <2>3. Replays(g, StartPosition, line)
    <3>1. DOMAIN g = 0 .. n /\ g = [i \in 0 .. n |-> g[i]] /\ g[0] = f[0] BY <1>2
    <3>2. ASSUME NEW i \in 1 .. n PROVE g[i] = MakeMove(g[i - 1], line[i])
      <4>1. g[i] = f[i] /\ g[i - 1] = f[i - 1] BY <1>2
      <4>2. i \in 1 .. n + 1 /\ line'[i] = line[i] BY <1>2, <1>6
      <4>3. QED BY <2>2, <4>1, <4>2
    <3> HIDE DEF g
    <3>3. QED BY <1>2, <2>2, <3>1, <3>2, ReplaySteps DEF n
  <2>4. \A i \in 0 .. n : f[i] = U[i + 1]
    <3>1. \A i \in 0 .. n : g[i] = T[i + 1] BY <1>1, <2>3 DEF OnlyTrace, n
    <3>2. \A i \in 0 .. n : i + 1 \in 1 .. n + 1 BY <1>2
    <3>3. QED BY <3>1, <3>2, <1>8
  <2>5. f[n + 1] = U[n + 2]
    <3>1. n \in 0 .. n /\ n + 1 \in 1 .. n + 1 /\ (n + 1) - 1 = n BY <1>2
    <3>2. f[n] = pos BY <2>4, <3>1, <1>2, <1>8
    <3>3. f[n + 1] = MakeMove(f[n], m) BY <2>2, <3>1, <1>6
    <3>4. QED BY <3>2, <3>3, <1>3, <1>8
  <2>6. k \in 0 .. n \/ (k = n + 1 /\ k + 1 = n + 2) BY <1>2, <1>6
  <2>7. QED BY <2>4, <2>5, <2>6
<1>17. QED BY <1>6, <1>14, <1>15, <1>16 DEF Replayed

\* A move taken back shortens them.
LEMMA UnmakeReplayed ==
  ASSUME Replayed, Unmake
  PROVE  Replayed'
PROOF
<1>1. PICK T : /\ IsTrace(T, StartPosition, line, pos, rules.bikjang = "forced")
               /\ OnlyTrace(T, StartPosition, line)
  BY DEF Replayed
<1> DEFINE n == Len(line)
           U == SubSeq(T, 1, n)
<1>2. /\ line \in Seq(Moves) /\ n \in Nat /\ n # 0 /\ T \in Seq(Position) /\ Len(T) = n + 1
      /\ T[n + 1] = pos
  BY <1>1 DEF Replayed, IsTrace, Unmake
<1>3. /\ line' = SubSeq(line, 1, n - 1) /\ pos' = UnmakeMove(pos)
      /\ start' = start /\ rules' = rules
  BY DEF Unmake
<1>4. /\ line' \in Seq(Moves) /\ Len(line') = n - 1
      /\ \A i \in 1 .. n - 1 : line'[i] = line[i]
  <2> HIDE DEF n
  <2>1. Len(line) = n BY DEF n
  <2>2. QED BY <1>2, <1>3, <2>1
<1>5. U \in Seq(Position) /\ Len(U) = n /\ \A i \in 1 .. n : U[i] = T[i] BY <1>2
<1> HIDE DEF U, n
<1>6. \A i \in 1 .. n + 1 : Good(T[i]) /\ T[i].forced = (rules.bikjang = "forced")
  BY <1>1 DEF IsTrace, n
<1>7. \A i \in 1 .. n : line[i] \in LegalMoves(T[i]) /\ T[i + 1] = MakeMove(T[i], line[i])
  BY <1>1 DEF IsTrace, n
<1>8. pos' = T[n]
  <2>1. n \in 1 .. n /\ n \in 1 .. n + 1 BY <1>2
  <2>2. WellFormed(T[n]) /\ line[n] \in LegalMoves(T[n]) /\ pos = MakeMove(T[n], line[n])
    BY <2>1, <1>2, <1>6, <1>7 DEF Good
  <2>3. QED BY <2>2, <1>3, UnmakeInverts
<1>9. U[1] = StartPosition'
  <2>1. T[1] = StartPosition BY <1>1 DEF IsTrace
  <2>2. U[1] = T[1] BY <1>2, <1>5
  <2>3. QED BY <2>1, <2>2, <1>3 DEF StartPosition
<1>10. Len(line') + 1 = n BY <1>2, <1>4
<1>11. U[n] = pos' BY <1>2, <1>5, <1>8
<1>12. \A i \in 1 .. n : Good(U[i]) /\ U[i].forced = (rules'.bikjang = "forced")
  <2>1. \A i \in 1 .. n : i \in 1 .. n + 1 BY <1>2
  <2>2. QED BY <2>1, <1>3, <1>5, <1>6
<1>13. \A i \in 1 .. n - 1 : line'[i] \in LegalMoves(U[i]) /\ U[i + 1] = MakeMove(U[i], line'[i])
  <2>1. \A i \in 1 .. n - 1 : i \in 1 .. n /\ i + 1 \in 1 .. n BY <1>2
  <2>2. QED BY <2>1, <1>4, <1>5, <1>7
<1>14. \A i \in 1 .. n - 1 : U[i].passes < 2
  <2>1. \A i \in 1 .. n : T[i].passes < 2 BY <1>1 DEF IsTrace, n
  <2>2. \A i \in 1 .. n - 1 : i \in 1 .. n BY <1>2
  <2>3. QED BY <2>1, <2>2, <1>5
<1>15. IsTrace(U, StartPosition', line', pos', rules'.bikjang = "forced")
  BY <1>4, <1>5, <1>9, <1>10, <1>11, <1>12, <1>13, <1>14 DEF IsTrace
<1>16. start' \in Starts /\ rules' \in RuleSets BY <1>3 DEF Replayed
<1>17. OnlyTrace(U, StartPosition', line')
  <2> SUFFICES ASSUME NEW f, Replays(f, StartPosition', line'), NEW k \in 0 .. Len(line')
               PROVE  f[k] = U[k + 1]
    BY DEF OnlyTrace
  <2> DEFINE g == [i \in 0 .. n |-> IF i = n THEN MakeMove(f[n - 1], line[n]) ELSE f[i]]
  <2>1. StartPosition' = StartPosition BY <1>3 DEF StartPosition
  <2>2. f[0] = StartPosition /\ \A i \in 1 .. n - 1 : f[i] = MakeMove(f[i - 1], line'[i])
    <3>1. Len(line') \in Nat BY <1>2, <1>4
    <3>2. /\ f[0] = StartPosition' /\ \A i \in 1 .. Len(line') : f[i] = MakeMove(f[i - 1], line'[i])
      BY <3>1, StepsOfReplay
    <3>3. QED BY <2>1, <3>2, <1>4
  <2>3. Replays(g, StartPosition, line)
    <3>1. DOMAIN g = 0 .. n /\ g = [i \in 0 .. n |-> g[i]] /\ g[0] = f[0] BY <1>2
    <3>2. ASSUME NEW i \in 1 .. n PROVE g[i] = MakeMove(g[i - 1], line[i])
      <4>1. g[i - 1] = f[i - 1] BY <1>2
      <4>2. CASE i = n BY <1>2, <4>1, <4>2
      <4>3. CASE i # n
        <5>1. i \in 1 .. n - 1 /\ g[i] = f[i] BY <1>2, <4>3
        <5>2. QED BY <2>2, <4>1, <5>1, <1>4
      <4>4. QED BY <4>2, <4>3
    <3> HIDE DEF g
    <3>3. QED BY <1>2, <2>2, <3>1, <3>2, ReplaySteps DEF n
  <2>4. \A i \in 0 .. n : g[i] = T[i + 1] BY <1>1, <2>3 DEF OnlyTrace, n
  <2>5. k \in 0 .. n /\ k # n /\ k + 1 \in 1 .. n BY <1>2, <1>4
  <2>6. g[k] = f[k] BY <2>5
  <2>7. QED BY <2>4, <2>5, <2>6, <1>5
<1>18. QED BY <1>4, <1>15, <1>16, <1>17 DEF Replayed

\* Whatever the search made and took back, the position on hand is the end of a
\* line of legal moves from the start, and it is sound.
THEOREM AlwaysReplayed == Spec => []Replayed
PROOF
<1>1. Replayed /\ [Next]_vars => Replayed'
  <2> SUFFICES ASSUME Replayed, [Next]_vars PROVE Replayed' OBVIOUS
  <2>1. CASE \E m \in Offered : Make(m)
    <3>1. PICK m \in Offered : Make(m) BY <2>1
    <3>2. m \in LegalMoves(pos) BY <3>1 DEF Offered
    <3>3. QED BY <3>1, <3>2, MakeReplayed
  <2>2. CASE Unmake BY <2>2, UnmakeReplayed
  <2>3. CASE UNCHANGED vars
    BY <2>3 DEF vars, Replayed, IsTrace, StartPosition
  <2>4. QED BY <2>1, <2>2, <2>3 DEF Next
<1>2. QED BY <1>1, InitReplayed, PTL DEF Spec

\* The position at the end of the line is sound.
LEMMA ReplayedIsGood ==
  ASSUME Replayed
  PROVE  Good(pos) /\ pos.forced = (rules.bikjang = "forced")
PROOF
<1>1. PICK T : IsTrace(T, StartPosition, line, pos, rules.bikjang = "forced") BY DEF Replayed
<1>2. Len(line) \in Nat BY DEF Replayed
<1>3. Len(line) + 1 \in 1 .. Len(line) + 1 BY <1>2
<1>4. QED BY <1>1, <1>3 DEF IsTrace

\* The short scan back to the last capture, two plies at a time, counts every
\* occurrence of the position in the game (JanggiGame's RepetitionIsWhole).
THEOREM RepetitionCountsAll == Spec => []RepetitionIsWhole
PROOF
<1>1. Replayed => RepetitionIsWhole
  <2> SUFFICES ASSUME Replayed PROVE RepetitionIsWhole OBVIOUS
  <2> DEFINE n == Len(pos.history)
             all == {i \in 1 .. n : pos.history[i] = Hash(pos)}
             near == {i \in pos.irrev .. n : (n - i) % 2 = 0 /\ pos.history[i] = Hash(pos)}
  <2>1. Good(pos) BY ReplayedIsGood
  <2>2. pos \in Position /\ HistorySound(pos) BY <2>1 DEF Good, WellFormed
  <2>3. n \in Nat /\ pos.irrev \in 1 .. n /\ n \in all
    BY <2>2 DEF Position, HistorySound
  <2>4. ASSUME NEW i \in all PROVE i \in near
    <3>1. i \in 1 .. n /\ pos.history[i] = <<pos.board, pos.side>> BY <2>4 DEF Hash
    <3>2. (n - i) % 2 = 0
      <4>1. \A j \in 1 .. n : pos.history[j][2] = pos.side <=> (n - j) % 2 = 0
        BY <2>2 DEF HistorySound
      <4>2. pos.history[i][2] = pos.side BY <3>1
      <4>3. QED BY <3>1, <4>1, <4>2, Zenon
    <3>3. ~(Men(pos.board) > Men(pos.board))
      <4>1. Men(pos.board) \in Nat BY MenIsNat
      <4>2. QED BY <4>1
    <3>4. i \notin 1 .. pos.irrev - 1 BY <2>2, <3>1, <3>3 DEF HistorySound
    <3>5. i \in pos.irrev .. n BY <2>3, <3>1, <3>4
    <3>6. QED BY <2>4, <3>2, <3>5
  <2>5. near = all
    <3>1. pos.irrev .. n \subseteq 1 .. n BY <2>3
    <3>2. near \subseteq all BY <3>1
    <3>3. all \subseteq near BY <2>4
    <3>4. QED BY <3>2, <3>3
  <2>6. RepetitionCount(pos) = Cardinality(all) BY <2>5 DEF RepetitionCount
  <2>7. IsRepetition(pos) <=> \E i \in all : i # n
    <3>1. IsRepetition(pos) <=>
            \E i \in pos.irrev .. n - 2 : (n - i) % 2 = 0 /\ pos.history[i] = Hash(pos)
      BY DEF IsRepetition
    <3>2. ASSUME NEW i \in pos.irrev .. n - 2, pos.history[i] = Hash(pos)
          PROVE  i \in all /\ i # n
      BY <2>3, <3>2
    <3>3. ASSUME NEW i \in all, i # n
          PROVE  i \in pos.irrev .. n - 2 /\ (n - i) % 2 = 0 /\ pos.history[i] = Hash(pos)
      <4>1. i \in near BY <2>4, <3>3
      <4>2. i \in pos.irrev .. n /\ (n - i) % 2 = 0 BY <4>1
      <4>3. n - i # 1 BY <4>2
      <4>4. QED BY <2>3, <3>3, <4>2, <4>3
    <3>4. QED BY <3>1, <3>2, <3>3
  <2>8. IsFiniteSet(all)
    <3>1. IsFiniteSet(1 .. n) BY <2>3, FS_Interval
    <3>2. QED BY <3>1, FS_Subset
  <2>9. (\E i \in all : i # n) <=> Cardinality(all) > 1
    <3>1. IsFiniteSet(all \ {n}) /\ Cardinality(all \ {n}) = Cardinality(all) - 1
      BY <2>3, <2>8, FS_RemoveElement
    <3>2. Cardinality(all) \in Nat /\ Cardinality(all \ {n}) \in Nat
      BY <2>8, <3>1, FS_CardinalityType
    <3>3. Cardinality(all \ {n}) = 0 <=> all \ {n} = {} BY <3>1, FS_EmptySet
    <3>4. all \ {n} = {} <=> ~(\E i \in all : i # n) OBVIOUS
    <3> HIDE DEF all
    <3>5. QED BY <3>1, <3>2, <3>3, <3>4
  <2>10. QED BY <2>6, <2>7, <2>9 DEF RepetitionIsWhole
<1>2. QED BY <1>1, AlwaysReplayed, PTL

\* No bikjang stands for two moves under the "forced" rule, on any board
\* (JanggiGame's BikjangIsAnswered).
THEOREM NoBikjangStands == Spec => BikjangIsAnswered
PROOF
<1> DEFINE Answer == rules.bikjang = "forced" /\ pos.bikjang /\ Len(line') > Len(line) =>
       \/ ~KingsFacing(pos')
       \/ Last(line') = PASS_MOVE /\ GameStatus(pos', rules).status = "bikjang_points"
<1>1. ASSUME Replayed, [Next]_vars PROVE [Answer]_vars
  <2>1. SUFFICES ASSUME rules.bikjang = "forced", pos.bikjang, Len(line') > Len(line), Next,
                        KingsFacing(pos')
                 PROVE  Last(line') = PASS_MOVE
                        /\ GameStatus(pos', rules).status = "bikjang_points"
    <3>1. CASE UNCHANGED vars BY <3>1
    <3>2. CASE Next BY <3>2
    <3>3. QED BY <1>1, <3>1, <3>2
  <2>2. Good(pos) /\ pos.forced /\ line \in Seq(Moves)
    BY <1>1, <2>1, ReplayedIsGood DEF Replayed
  <2>3. pos \in Position /\ Len(line) \in Nat BY <2>2 DEF Good, WellFormed
  <2>4. PICK m \in LegalMoves(pos) : Make(m)
    <3>1. CASE Unmake BY <2>1, <2>2, <2>3, <3>1 DEF Unmake
    <3>2. QED BY <2>1, <3>1 DEF Next, Offered
  <2>5. pos' = MakeMove(pos, m) /\ line' = Append(line, m) /\ rules' = rules
        /\ GameStatus(pos, rules) = ONGOING
    BY <2>4 DEF Make
  <2>6. Good(pos') BY <2>2, <2>5, MakeKeepsGood
  <2>7. pos.bikjang = Bikjang(pos.board, pos.kings, pos.side) BY <2>2 DEF Good, BikjangSound
  <2>8. ~InCheck(pos) BY <2>1, <2>7 DEF Bikjang, InCheck
  <2>9. MustResolveBikjang(pos) BY <2>1, <2>2, <2>8 DEF MustResolveBikjang
  <2>10. m = PASS_MOVE
    BY <2>1, <2>3, <2>5, <2>9, LegalMoveFacts DEF IsLegalAfterMake
  <2>11. Last(line') = PASS_MOVE BY <2>2, <2>3, <2>5, <2>10 DEF Last
  <2>12. pos.passes = 0
    <3>1. SUFFICES ASSUME pos.passes # 0 PROVE FALSE OBVIOUS
    <3>2. PrevBikjang(pos) BY <2>1, <2>2, <3>1 DEF Good, BikjangSound
    <3>3. RuleEnding(View(pos), rules) # ONGOING
      BY <2>1, <3>2 DEF RuleEnding, View, ONGOING, End
    <3>4. GameStatus(pos, rules) = RuleEnding(View(pos), rules) BY <2>8 DEF GameStatus
    <3>5. QED BY <2>5, <3>3, <3>4
  <2>13. pos'.passes = 1 /\ PrevBikjang(pos') /\ pos'.bikjang /\ ~InCheck(pos')
    <3>1. pos'.passes = 1 BY <2>5, <2>10, <2>12 DEF MakeMove
    <3>2. pos'.board = pos.board /\ pos'.kings = pos.kings /\ pos'.side = Other(pos.side)
      BY <2>5, <2>10 DEF MakeMove
    <3>3. pos.side \in Sides BY <2>3 DEF Position
    <3>4. Other(Other(pos.side)) = pos.side BY <3>3 DEF Other
    <3>5. ~InCheck(pos') BY <2>2, <3>2, <3>4 DEF Good, MoverSafe, InCheck
    <3>6. pos'.bikjang = Bikjang(pos'.board, pos'.kings, pos'.side)
      BY <2>6 DEF Good, BikjangSound
    <3>7. pos'.bikjang BY <2>1, <3>5, <3>6 DEF Bikjang, InCheck, KingsFacing
    <3>8. PrevBikjang(pos') BY <2>6, <3>1, <3>7 DEF Good, BikjangSound
    <3>9. QED BY <3>1, <3>5, <3>7, <3>8
  <2>14. RuleEnding(View(pos'), rules).status = "bikjang_points"
    <3>1. View(pos').passes = 1 /\ View(pos').unresolved /\ View(pos').board = pos'.board
      BY <2>13 DEF View
    <3> HIDE DEF View
    <3>2. RuleEnding(View(pos'), rules) = End("bikjang_points", PointsWinner(pos'.board))
      BY <2>1, <3>1 DEF RuleEnding
    <3>3. QED BY <3>2 DEF End
  <2>15. GameStatus(pos', rules) = RuleEnding(View(pos'), rules) BY <2>13 DEF GameStatus
  <2>16. QED BY <2>11, <2>14, <2>15
<1>2. QED BY <1>1, AlwaysReplayed, PTL DEF Spec, BikjangIsAnswered

\* The definition by recursion finds it.
LEMMA ReplayFound ==
  ASSUME NEW f, Replays(f, StartPosition, line),
         \A g : Replays(g, StartPosition, line) => g[Len(line)] = pos
  PROVE  PositionIsReplay
PROOF
<1> DEFINE at == CHOOSE g : Replays(g, StartPosition, line)
<1>1. Replays(at, StartPosition, line) OBVIOUS
<1>2. at[Len(line)] = pos BY <1>1
<1>3. QED BY <1>2 DEF PositionIsReplay, Replays

\* What a search makes and takes back leaves nothing behind (JanggiGame's
\* PositionIsReplay).
THEOREM GameIsReplay == Spec => []PositionIsReplay
PROOF
<1>1. Replayed => PositionIsReplay
  <2> SUFFICES ASSUME Replayed PROVE PositionIsReplay OBVIOUS
  <2>1. PICK T : /\ IsTrace(T, StartPosition, line, pos, rules.bikjang = "forced")
                 /\ OnlyTrace(T, StartPosition, line)
    BY DEF Replayed
  <2> DEFINE n == Len(line)
             f == [i \in 0 .. n |-> T[i + 1]]
  <2>2. /\ n \in Nat /\ T[1] = StartPosition /\ T[n + 1] = pos
        /\ \A i \in 1 .. n : T[i + 1] = MakeMove(T[i], line[i])
    BY <2>1 DEF Replayed, IsTrace
  <2> HIDE DEF n
  <2>3. DOMAIN f = 0 .. n /\ f = [i \in 0 .. n |-> f[i]] /\ f[0] = StartPosition BY <2>2
  <2>4. \A i \in 1 .. n : f[i] = MakeMove(f[i - 1], line[i])
    <3>1. \A i \in 1 .. n : f[i] = T[i + 1] /\ f[i - 1] = T[i] BY <2>2
    <3>2. QED BY <2>2, <3>1
  <2> HIDE DEF f
  <2>5. Replays(f, StartPosition, line) BY <2>2, <2>3, <2>4, ReplaySteps DEF n
  <2>6. \A g : Replays(g, StartPosition, line) => g[Len(line)] = pos
    <3>1. n \in 0 .. n BY <2>2
    <3>2. QED BY <2>1, <2>2, <3>1 DEF OnlyTrace, n
  <2>7. QED BY <2>5, <2>6, ReplayFound
<1>2. QED BY <1>1, AlwaysReplayed, PTL

\* What the limit of a search is, and that its rules differ in it alone.
LEMMA SearchRulesFacts ==
  ASSUME Replayed
  PROVE  LET limit == SearchLimit(rules, MaxPliesDraw)
         IN  /\ limit \in Int /\ rules.max_plies \in Int /\ limit <= rules.max_plies
             /\ searched.max_plies = limit /\ searched.bikjang = rules.bikjang
             /\ searched.repetition = rules.repetition
PROOF
<1>1. rules \in RuleSets /\ rules.max_plies \in Int BY RuleSetsAssumption DEF Replayed
<1>2. MaxPliesDraw \in Int BY MaxPliesDrawAssumption
<1> DEFINE limit == SearchLimit(rules, MaxPliesDraw)
<1>3. limit \in Int /\ limit <= rules.max_plies BY <1>1, <1>2 DEF SearchLimit
<1>4. searched = [bikjang |-> rules.bikjang, repetition |-> rules.repetition, max_plies |-> limit]
  BY DEF searched, SearchRules
<1> HIDE DEF limit
<1>5. /\ searched.max_plies = limit /\ searched.bikjang = rules.bikjang
      /\ searched.repetition = rules.repetition
  BY <1>4
<1>6. QED BY <1>1, <1>3, <1>5 DEF limit

\* The search ends a line where the game ends, with the same winner, but for the
\* second occurrence of a position and its own limit (JanggiGame's SearchEndsWithGame).
THEOREM SearchEndsAsGame == Spec => []SearchEndsWithGame
PROOF
<1>1. Replayed /\ RepetitionIsWhole => SearchEndsWithGame
  <2> DEFINE limit == SearchLimit(rules, MaxPliesDraw)
             ending == GameStatus(pos, rules)
             node == NodeEnding(pos, rules, MaxPliesDraw)
  <2> SUFFICES ASSUME Replayed, RepetitionIsWhole
               PROVE  \/ node = ending
                      \/ node.status = "draw_repetition" /\ IsRepetition(pos)
                      \/ /\ node.status = "draw_move_limit" /\ pos.ply >= limit
                         /\ ending = ONGOING \/ ending.status = "checkmate"
    BY DEF SearchEndsWithGame
  <2> DEFINE v == View(pos)
             w == SearchView(pos)
             again == rules.repetition = "draw" /\ IsRepetition(pos)
             cut == RuleEnding(w, searched)
             game == RuleEnding(v, rules)
  <2>1. Good(pos) /\ rules.max_plies \in Int BY ReplayedIsGood, SearchRulesFacts DEF Replayed
  <2>2. pos \in Position /\ BikjangSound(pos) BY <2>1 DEF Good, WellFormed
  <2>3. pos.passes \in Nat /\ pos.ply \in Nat BY <2>2 DEF Position
  <2>4. LegalMoves(pos) = {} => InCheck(pos) BY DEF LegalMoves
  <2>5. /\ v.passes = pos.passes /\ v.board = pos.board /\ v.ply = pos.ply
        /\ v.unresolved = (pos.bikjang /\ PrevBikjang(pos)) /\ v.count = RepetitionCount(pos)
    BY DEF View
  <2>6. /\ w.passes = v.passes /\ w.board = v.board /\ w.ply = v.ply
        /\ w.unresolved = v.unresolved /\ w.count = IF IsRepetition(pos) THEN 3 ELSE 1
    BY DEF SearchView, View
  <2>7. InCheck(pos) => v.passes = 0 /\ ~v.unresolved
    BY <2>2, <2>5 DEF BikjangSound, Bikjang, InCheck
  <2>8. v.count >= 3 => IsRepetition(pos)
    <3> DEFINE all == {i \in 1 .. Len(pos.history) : pos.history[i] = Hash(pos)}
    <3>1. v.count = Cardinality(all) /\ (IsRepetition(pos) <=> Cardinality(all) > 1)
      BY <2>5 DEF RepetitionIsWhole
    <3>2. Cardinality(all) \in Nat
      <4>1. Len(pos.history) \in Nat BY <2>2 DEF Position
      <4>2. IsFiniteSet(1 .. Len(pos.history)) BY <4>1, FS_Interval
      <4>3. IsFiniteSet(all) BY <4>2, FS_Subset
      <4>4. QED BY <4>3, FS_CardinalityType
    <3> HIDE DEF all
    <3>3. QED BY <3>1, <3>2
  <2>9. /\ limit \in Int /\ limit <= rules.max_plies /\ searched.max_plies = limit
        /\ searched.bikjang = rules.bikjang /\ searched.repetition = rules.repetition
    BY SearchRulesFacts
  <2>10. node = IF cut # ONGOING THEN cut
           ELSE IF LegalMoves(pos) = {} THEN End("checkmate", Other(pos.side)) ELSE ONGOING
    BY DEF NodeEnding, searched
  <2>11. ending =
           IF InCheck(pos) /\ LegalMoves(pos) = {} THEN End("checkmate", Other(pos.side)) ELSE game
    BY DEF GameStatus
  <2> HIDE DEF v, w, limit, node, ending
  <2>15. \/ pos.ply >= limit \/ (~(v.ply >= rules.max_plies) /\ ~(w.ply >= limit))
    BY <2>1, <2>3, <2>5, <2>6, <2>9
  <2>12. CASE ~again /\ pos.ply < limit
    <3>0. ~(v.ply >= rules.max_plies) /\ ~(w.ply >= limit) BY <2>3, <2>9, <2>12, <2>15
    <3>1. cut = game BY <2>6, <2>8, <2>9, <2>12, <3>0 DEF RuleEnding
    <3>2. InCheck(pos) => game = ONGOING BY <2>7, <2>8, <2>12, <3>0 DEF RuleEnding
    <3>3. QED BY <2>4, <2>10, <2>11, <3>1, <3>2
  <2>13. CASE again
    <3>1. cut = End("draw_repetition", NoWinner) \/ (cut = game /\ ~InCheck(pos))
      BY <2>6, <2>7, <2>9, <2>13 DEF RuleEnding
    <3>2. CASE cut = End("draw_repetition", NoWinner)
      <4>1. cut # ONGOING /\ cut.status = "draw_repetition" BY <3>2 DEF End, ONGOING
      <4>2. QED BY <2>10, <2>13, <4>1
    <3>3. CASE cut = game /\ ~InCheck(pos) BY <2>4, <2>10, <2>11, <3>3
    <3>4. QED BY <3>1, <3>2, <3>3
  <2>14. CASE ~again /\ pos.ply >= limit
    <3> DEFINE drawn == End("draw_move_limit", NoWinner)
    <3>0. w.ply >= limit BY <2>5, <2>6, <2>14
    <3>1. cut = game \/ (cut = drawn /\ game = ONGOING)
      BY <2>6, <2>8, <2>9, <2>14, <3>0 DEF RuleEnding
    <3>2. InCheck(pos) => cut = drawn BY <2>6, <2>7, <2>8, <2>9, <2>14, <3>0 DEF RuleEnding
    <3>3. drawn # ONGOING /\ drawn.status = "draw_move_limit" BY DEF End, ONGOING
    <3>4. CASE InCheck(pos) /\ LegalMoves(pos) = {}
      <4>1. node = drawn /\ ending.status = "checkmate" BY <2>10, <2>11, <3>2, <3>3, <3>4 DEF End
      <4>2. QED BY <2>14, <3>3, <4>1
    <3>5. CASE ~(InCheck(pos) /\ LegalMoves(pos) = {})
      <4>1. ending = game /\ LegalMoves(pos) # {} BY <2>4, <2>11, <3>5
      <4>2. node = cut BY <2>10, <4>1
      <4>3. QED BY <2>14, <3>1, <3>3, <4>1, <4>2
    <3>6. QED BY <3>4, <3>5
  <2>16. pos.ply < limit \/ pos.ply >= limit BY <2>3, <2>9
  <2>17. QED BY <2>12, <2>13, <2>14, <2>16
<1>2. QED BY <1>1, AlwaysReplayed, RepetitionCountsAll, PTL

\* Attack detection and move generation agree on every board a game can show
\* (JanggiGame's AttacksAreCaptures, a part of TablesAgree).
THEOREM AttacksAreMoves == Spec => []AttacksAreCaptures
PROOF
<1>1. Replayed => AttacksAreCaptures
  <2> SUFFICES ASSUME Replayed, NEW by \in Sides, NEW s \in Own(pos.board, Other(by))
               PROVE  AttackedBy(pos.board, s, by) <=>
                        s \in {m[2] : m \in PseudoMoves(pos.board, by)}
    BY DEF AttacksAreCaptures
  <2>1. pos.board \in Board BY ReplayedIsGood DEF Good, WellFormed, Position
  <2>2. QED BY <2>1, AttackIsCapture
<1>2. QED BY <1>1, AlwaysReplayed, PTL

-----------------------------------------------------------------------------
(* KeysDecide: what the readers of a key rebuild has the same future.         *)

\* The move that was made last, and the position it was made in.
LEMMA LastMove ==
  ASSUME Replayed, line # <<>>
  PROVE  /\ Good(UnmakeMove(pos)) /\ UnmakeMove(pos).forced = (rules.bikjang = "forced")
         /\ Last(line) \in LegalMoves(UnmakeMove(pos))
         /\ pos = MakeMove(UnmakeMove(pos), Last(line))
         /\ UnmakeMove(pos).passes < 2
PROOF
<1>1. PICK T : IsTrace(T, StartPosition, line, pos, rules.bikjang = "forced") BY DEF Replayed
<1> DEFINE n == Len(line)
<1>2. line \in Seq(Moves) /\ n \in Nat /\ n # 0 BY DEF Replayed
<1>3. Last(line) = line[n] BY DEF Last
<1> HIDE DEF n
<1>4. /\ \A i \in 1 .. n + 1 : Good(T[i]) /\ T[i].forced = (rules.bikjang = "forced")
      /\ \A i \in 1 .. n : line[i] \in LegalMoves(T[i]) /\ T[i + 1] = MakeMove(T[i], line[i])
      /\ T[n + 1] = pos /\ \A i \in 1 .. n : T[i].passes < 2
  BY <1>1 DEF IsTrace, n
<1>5. n \in 1 .. n /\ n \in 1 .. n + 1 BY <1>2
<1>6. /\ Good(T[n]) /\ T[n].forced = (rules.bikjang = "forced")
      /\ line[n] \in LegalMoves(T[n]) /\ pos = MakeMove(T[n], line[n]) /\ T[n].passes < 2
  BY <1>4, <1>5
<1>7. UnmakeMove(pos) = T[n] BY <1>6, UnmakeInverts DEF Good
<1>8. QED BY <1>3, <1>6, <1>7

\* The position that a key describes.
LEMMA KeyPositionFacts ==
  ASSUME NEW p, Good(p), NEW passes, NEW bikjang, NEW forced
  PROVE  LET k == KeyPosition(Hash(p), passes, bikjang, forced)
         IN  /\ k.board = p.board /\ k.side = p.side /\ k.kings = p.kings
             /\ k.passes = passes /\ k.bikjang = bikjang /\ k.forced = forced
             /\ Len(k.history) = 1 /\ k.stack = <<>> /\ k.irrev = 1
PROOF
<1> DEFINE kings == [c \in Sides |-> KingSquare(p.board, c)]
           u == Setup(p.board, p.side, 0, forced)
           k == [u EXCEPT !.passes = passes, !.bikjang = bikjang]
<1>1. p.kings \in [Sides -> Squares] /\ KingsKnown(p) /\ KingsStand(p)
  BY DEF Good, WellFormed, Position
<1>2. ASSUME NEW c \in Sides PROVE KingSquare(p.board, c) = p.kings[c]
  <2>1. p.kings[c] \in Squares /\ p.board[p.kings[c]] = Of(c, KING) BY <1>1 DEF KingsStand
  <2>2. \A s \in Squares : p.board[s] = Of(c, KING) => s = p.kings[c] BY <1>1 DEF KingsKnown
  <2>3. QED BY <2>1, <2>2 DEF KingSquare
<1>3. kings = p.kings BY <1>1, <1>2
<1>4. u = [board |-> p.board, side |-> p.side, kings |-> kings, passes |-> 0,
           bikjang |-> Bikjang(p.board, kings, p.side), ply |-> 0,
           history |-> << <<p.board, p.side>> >>, stack |-> <<>>, irrev |-> 1, forced |-> forced]
  BY DEF Setup
<1>5. KeyPosition(Hash(p), passes, bikjang, forced) = k
  <2>1. Hash(p)[1] = p.board /\ Hash(p)[2] = p.side BY DEF Hash
  <2>2. QED BY <2>1 DEF KeyPosition
<1> HIDE DEF u, kings
<1>6. /\ k.board = p.board /\ k.side = p.side /\ k.kings = kings
      /\ k.passes = passes /\ k.bikjang = bikjang /\ k.forced = forced
      /\ k.history = << <<p.board, p.side>> >> /\ k.stack = <<>> /\ k.irrev = 1
  BY <1>4
<1>7. Len(<< <<p.board, p.side>> >>) = 1 OBVIOUS
<1> HIDE DEF k
<1>8. QED BY <1>3, <1>5, <1>6, <1>7

\* What of a position the moves depend on.
LEMMA SameMoves ==
  ASSUME NEW p, NEW q, q.board = p.board, q.side = p.side, q.kings = p.kings
  PROVE  /\ InCheck(q) <=> InCheck(p)
         /\ (MustResolveBikjang(q) <=> MustResolveBikjang(p)) => LegalMoves(q) = LegalMoves(p)
         /\ \A m : LET x == MakeMove(q, m)  y == MakeMove(p, m)
                   IN  x.board = y.board /\ x.side = y.side /\ x.kings = y.kings /\ x.bikjang = y.bikjang
PROOF
<1>1. InCheck(q) <=> InCheck(p) BY DEF InCheck
<1>2. ASSUME NEW m
      PROVE  LET x == MakeMove(q, m)  y == MakeMove(p, m)
             IN  x.board = y.board /\ x.side = y.side /\ x.kings = y.kings /\ x.bikjang = y.bikjang
  BY DEF MakeMove
<1>3. ASSUME MustResolveBikjang(q) <=> MustResolveBikjang(p)
      PROVE  LegalMoves(q) = LegalMoves(p)
  <2>1. \A m : IsLegalAfterMake(q, m) <=> IsLegalAfterMake(p, m)
    <3> SUFFICES ASSUME NEW m PROVE IsLegalAfterMake(q, m) <=> IsLegalAfterMake(p, m) OBVIOUS
    <3> DEFINE x == MakeMove(q, m)
               y == MakeMove(p, m)
    <3>1. x.board = y.board /\ x.side = y.side /\ x.kings = y.kings BY <1>2
    <3>2. KingsFacing(x) <=> KingsFacing(y) BY <3>1 DEF KingsFacing
    <3>3. IsLegalAfterMake(q, m) <=> /\ ~AttackedBy(x.board, x.kings[q.side], x.side)
                                     /\ MustResolveBikjang(q) => ~KingsFacing(x)
      BY DEF IsLegalAfterMake
    <3>4. IsLegalAfterMake(p, m) <=> /\ ~AttackedBy(y.board, y.kings[p.side], y.side)
                                     /\ MustResolveBikjang(p) => ~KingsFacing(y)
      BY DEF IsLegalAfterMake
    <3> HIDE DEF x, y
    <3>5. QED BY <1>3, <3>1, <3>2, <3>3, <3>4
  <2>2. PseudoMoves(q.board, q.side) = PseudoMoves(p.board, p.side) OBVIOUS
  <2>3. QED BY <1>1, <2>1, <2>2, Zenon DEF LegalMoves
<1>4. QED BY <1>1, <1>2, <1>3

\* Of the plies left a key tells when there are none, and a move takes one.
LEMMA PliesFacts ==
  ASSUME NEW M \in Int, NEW ply \in Nat, NEW p, p.ply = ply
  PROVE  LET left(x) == PliesLeft(x, M, Horizon)
         IN  /\ PlyOf(left(p), M) >= M <=> ply >= M
             /\ \A q : q.ply = ply + 1 => left(q) \in LeftAfter(left(p))
PROOF
<1> DEFINE left(x) == PliesLeft(x, M, Horizon)
<1>1. Horizon \in Nat /\ M \in Int BY HorizonAssumption
<1>2. ASSUME NEW a \in Int
      PROVE  Max({a, 0}) = IF a >= 0 THEN a ELSE 0
  <2>1. \E x \in {a, 0} : \A y \in {a, 0} : x >= y BY <1>2
  <2>2. Max({a, 0}) \in {a, 0} /\ \A y \in {a, 0} : Max({a, 0}) >= y BY <2>1, Zenon DEF Max
  <2>3. QED BY <2>2
<1>3. left(p) = IF M - ply > Horizon THEN FAR ELSE IF M - ply >= 0 THEN M - ply ELSE 0
  BY <1>1, <1>2 DEF PliesLeft
<1>4. \A q : q.ply = ply + 1 =>
        left(q) = IF M - (ply + 1) > Horizon THEN FAR ELSE IF M - (ply + 1) >= 0 THEN M - (ply + 1) ELSE 0
  BY <1>1, <1>2 DEF PliesLeft
<1>5. \A l : PlyOf(l, M) = IF l = FAR THEN M - 1 ELSE M - l BY DEF PlyOf
<1>6. ASSUME NEW l \in Int
      PROVE  LeftAfter(l) = IF l = FAR THEN {FAR, Horizon} ELSE {IF l - 1 >= 0 THEN l - 1 ELSE 0}
  <2>1. l - 1 \in Int OBVIOUS
  <2>2. Max({l - 1, 0}) = IF l - 1 >= 0 THEN l - 1 ELSE 0 BY <1>2, <2>1
  <2>3. QED BY <2>2 DEF LeftAfter
<1>7. FAR = -1 BY DEF FAR
<1> HIDE DEF left
<1>8. PlyOf(left(p), M) >= M <=> ply >= M BY <1>1, <1>3, <1>5, <1>7
<1>9. ASSUME NEW q, q.ply = ply + 1
      PROVE  left(q) \in LeftAfter(left(p))
  <2>0. left(q) = IF M - (ply + 1) > Horizon THEN FAR ELSE IF M - (ply + 1) >= 0 THEN M - (ply + 1) ELSE 0
    BY <1>4, <1>9
  <2>1. left(p) \in Int BY <1>1, <1>3, <1>7
  <2>2. CASE left(p) = FAR BY <1>1, <1>3, <2>0, <1>6, <1>7, <2>1, <2>2
  <2>3. CASE left(p) # FAR BY <1>1, <1>3, <2>0, <1>6, <1>7, <2>1, <2>3
  <2>4. QED BY <2>2, <2>3
<1>10. QED BY <1>8, <1>9 DEF left

\* What of a view the endings depend on.
LEMMA SameEnding ==
  ASSUME NEW v, NEW w, NEW r, v.board = w.board, v.count = w.count,
         v.passes >= 2 <=> w.passes >= 2,
         r.bikjang # "off" => (v.unresolved <=> w.unresolved),
         v.ply >= r.max_plies <=> w.ply >= r.max_plies
  PROVE  RuleEnding(v, r) = RuleEnding(w, r)
BY DEF RuleEnding

\* A bag of positions with one more h.
OneMore(bag, h) ==
  [x \in DOMAIN bag \union {h} |->
     (IF x \in DOMAIN bag THEN bag[x] ELSE 0) + (IF x = h THEN 1 ELSE 0)]

\* A move adds its position to the context; a capture empties it first.
LEMMA ContextAfter ==
  ASSUME NEW p, Good(p), NEW q, NEW captured \in BOOLEAN,
         q.history = Append(p.history, Hash(q)),
         q.irrev = IF captured THEN Len(p.history) + 1 ELSE p.irrev
  PROVE  RepetitionContext(q) =
           OneMore(IF captured THEN [x \in {} |-> 0] ELSE RepetitionContext(p), Hash(q))
PROOF
<1> DEFINE n == Len(p.history)
           h == Hash(q)
           A(x) == {i \in p.irrev .. n : p.history[i] = x}
           B(x) == {i \in q.irrev .. n + 1 : q.history[i] = x}
           old == {p.history[i] : i \in p.irrev .. n}
           new == {q.history[i] : i \in q.irrev .. n + 1}
           bag == IF captured THEN [x \in {} |-> 0] ELSE RepetitionContext(p)
<1>1. /\ p.history \in Seq(Board \X Sides) /\ n \in Nat /\ p.irrev \in 1 .. n
  BY DEF Good, WellFormed, Position, HistorySound
<1>2. Len(q.history) = n + 1 /\ q.history[n + 1] = h /\ \A i \in 1 .. n : q.history[i] = p.history[i]
  <2> HIDE DEF h
  <2>1. q.history = Append(p.history, h) BY DEF h
  <2>2. QED BY <1>1, <2>1
<1>3. RepetitionContext(p) = [x \in old |-> Cardinality(A(x))]
  <2>1. {i \in p.irrev .. Len(p.history) : TRUE} = p.irrev .. n OBVIOUS
  <2>2. QED BY <2>1, Zenon DEF RepetitionContext
<1>4. RepetitionContext(q) = [x \in new |-> Cardinality(B(x))]
  <2>1. {i \in q.irrev .. Len(q.history) : TRUE} = q.irrev .. n + 1 BY <1>2
  <2>2. QED BY <2>1, Zenon DEF RepetitionContext
<1>5. CASE captured
  <2>1. q.irrev = n + 1 /\ q.irrev .. n + 1 = {n + 1} BY <1>1, <1>5
  <2>2. new = {h} /\ B(h) = {n + 1} BY <1>2, <2>1
  <2>3. Cardinality({n + 1}) = 1 BY FS_Singleton
  <2>4. bag = [x \in {} |-> 0] /\ DOMAIN bag = {} BY <1>5
  <2> HIDE DEF B, h, bag
  <2>5. OneMore(bag, h) = [x \in {h} |-> 1]
    <3>1. DOMAIN bag \union {h} = {h} BY <2>4
    <3>2. \A x \in {h} : (IF x \in DOMAIN bag THEN bag[x] ELSE 0) + (IF x = h THEN 1 ELSE 0) = 1
      BY <2>4
    <3>3. QED BY <3>1, <3>2 DEF OneMore
  <2>6. RepetitionContext(q) = [x \in {h} |-> 1] BY <1>4, <2>2, <2>3
  <2>7. QED BY <2>5, <2>6 DEF bag, h
<1>6. CASE ~captured
  <2>1. q.irrev = p.irrev BY <1>6
  <2>2. q.irrev .. n + 1 = (p.irrev .. n) \union {n + 1} BY <1>1, <2>1
  <2>3. \A i \in p.irrev .. n : q.history[i] = p.history[i] BY <1>1, <1>2
  <2>4. new = old \union {h}
    <3>1. new = {q.history[i] : i \in p.irrev .. n} \union {q.history[n + 1]} BY <2>2
    <3>2. {q.history[i] : i \in p.irrev .. n} = old BY <2>3
    <3> HIDE DEF new, old
    <3>3. QED BY <3>1, <3>2, <1>2
  <2>5. ASSUME NEW x
        PROVE  Cardinality(B(x)) = (IF x \in old THEN Cardinality(A(x)) ELSE 0) + (IF x = h THEN 1 ELSE 0)
    <3>1. B(x) = IF x = h THEN A(x) \union {n + 1} ELSE A(x) BY <1>2, <2>2, <2>3
    <3>2. n + 1 \notin A(x) BY <1>1
    <3>3. IsFiniteSet(A(x))
      <4>1. p.irrev \in Int /\ n \in Int BY <1>1
      <4>2. IsFiniteSet(p.irrev .. n) BY <4>1, FS_Interval
      <4>3. QED BY <4>2, FS_Subset
    <3>4. Cardinality(A(x)) \in Nat BY <3>3, FS_CardinalityType
    <3>5. Cardinality(A(x) \union {n + 1}) = Cardinality(A(x)) + 1 BY <3>2, <3>3, FS_AddElement
    <3>6. x \notin old => Cardinality(A(x)) = 0
      <4>1. x \notin old => A(x) = {} OBVIOUS
      <4>2. QED BY <4>1, FS_EmptySet
    <3> HIDE DEF A, B, h, old
    <3>7. QED BY <3>1, <3>4, <3>5, <3>6
  <2>6. bag = [x \in old |-> Cardinality(A(x))] BY <1>3, <1>6
  <2> HIDE DEF A, B, h, bag, old, new
  <2>7. DOMAIN bag = old /\ \A x \in old : bag[x] = Cardinality(A(x)) BY <2>6
  <2>8. OneMore(bag, h) = [x \in old \union {h} |->
          (IF x \in old THEN Cardinality(A(x)) ELSE 0) + (IF x = h THEN 1 ELSE 0)]
    BY <2>7 DEF OneMore
  <2>9. RepetitionContext(q) = OneMore(bag, h) BY <1>4, <2>4, <2>5, <2>8
  <2>10. QED BY <2>9 DEF bag, h
<1>7. QED BY <1>5, <1>6

\* The context counts the position itself as often as the whole game shows it.
LEMMA ContextCounts ==
  ASSUME Replayed, RepetitionIsWhole
  PROVE  RepetitionContext(pos)[Hash(pos)] = RepetitionCount(pos)
PROOF
<1> DEFINE n == Len(pos.history)
           h == Hash(pos)
           all == {i \in 1 .. n : pos.history[i] = h}
           since == {i \in pos.irrev .. n : pos.history[i] = h}
<1>1. pos \in Position /\ HistorySound(pos) BY ReplayedIsGood DEF Good, WellFormed
<1>2. /\ n \in Nat /\ pos.irrev \in 1 .. n /\ pos.history[n] = h
      /\ \A i \in 1 .. pos.irrev - 1 : Men(pos.history[i][1]) > Men(pos.board)
  BY <1>1 DEF Position, HistorySound
<1>3. RepetitionContext(pos)[h] = Cardinality(since)
  <2> DEFINE S == pos.irrev .. n
  <2>1. RepetitionContext(pos) =
          [x \in {pos.history[i] : i \in S} |-> Cardinality({i \in S : pos.history[i] = x})]
    <3>1. {i \in pos.irrev .. Len(pos.history) : TRUE} = S OBVIOUS
    <3>2. QED BY <3>1, Zenon DEF RepetitionContext
  <2>2. n \in S BY <1>2
  <2> HIDE DEF S, n
  <2>3. h \in {pos.history[i] : i \in S} BY <1>2, <2>2
  <2> HIDE DEF h
  <2>4. RepetitionContext(pos)[h] = Cardinality({i \in S : pos.history[i] = h}) BY <2>1, <2>3
  <2>5. QED BY <2>4 DEF S
<1>4. ASSUME NEW i \in 1 .. n, pos.history[i] = h PROVE i \in pos.irrev .. n
  <2>1. Men(pos.board) \in Nat BY MenIsNat
  <2>2. pos.history[i][1] = pos.board BY <1>4 DEF Hash
  <2>3. i \notin 1 .. pos.irrev - 1 BY <1>2, <2>1, <2>2
  <2>4. QED BY <1>2, <1>4, <2>3
<1>5. since = all
  <2>1. pos.irrev .. n \subseteq 1 .. n BY <1>2
  <2>2. QED BY <1>4, <2>1
<1>6. RepetitionCount(pos) = Cardinality(all) BY DEF RepetitionIsWhole
<1>7. QED BY <1>3, <1>5, <1>6

\* The state key holds all that the moves, the ending and the keys that follow
\* depend on (JanggiGame's StateKeyDecides).
LEMMA StateKeyHolds ==
  ASSUME Replayed, RepetitionIsWhole
  PROVE  StateKeyDecides
PROOF
<1> DEFINE k == StateKey(pos, rules, Horizon)
           q == StatePosition(k)
<1>1. Good(pos) /\ rules.max_plies \in Int BY ReplayedIsGood, RuleSetsAssumption DEF Replayed
<1>2. pos \in Position BY <1>1 DEF Good, WellFormed
<1>3. /\ k.hash = Hash(pos) /\ k.passes = pos.passes /\ k.bikjang = pos.bikjang
      /\ k.prev = PrevBikjang(pos) /\ k.context = RepetitionContext(pos)
      /\ k.left = PliesLeft(pos, rules.max_plies, Horizon) /\ k.forced = pos.forced
  BY DEF StateKey
<1>4. /\ q.board = pos.board /\ q.side = pos.side /\ q.kings = pos.kings
      /\ q.bikjang = pos.bikjang /\ q.forced = pos.forced
  <2>1. q = KeyPosition(Hash(pos), pos.passes, pos.bikjang, pos.forced)
    BY <1>3 DEF StatePosition
  <2> HIDE DEF q
  <2>2. QED BY <1>1, <2>1, KeyPositionFacts
<1> HIDE DEF k, q
<1>5. (InCheck(q) <=> InCheck(pos)) /\ LegalMoves(q) = LegalMoves(pos)
  <2>1. InCheck(q) <=> InCheck(pos) BY <1>4, SameMoves
  <2>2. MustResolveBikjang(q) <=> MustResolveBikjang(pos) BY <1>4, <2>1 DEF MustResolveBikjang
  <2>3. QED BY <1>4, <2>1, <2>2, SameMoves
<1>6. StateEnding(k) = GameStatus(pos, rules)
  <2> DEFINE v == [board |-> k.hash[1], passes |-> k.passes, ply |-> PlyOf(k.left, rules.max_plies),
                   unresolved |-> k.bikjang /\ k.prev, count |-> k.context[k.hash]]
             w == View(pos)
  <2>1. k.hash[1] = pos.board /\ k.hash[2] = pos.side BY <1>3 DEF Hash
  <2>2. k.context[k.hash] = RepetitionCount(pos) BY <1>3, ContextCounts
  <2>3. PlyOf(k.left, rules.max_plies) >= rules.max_plies <=> pos.ply >= rules.max_plies
    <3>1. pos.ply \in Nat BY <1>2 DEF Position
    <3>2. QED BY <1>1, <1>3, <3>1, PliesFacts
  <2>4. /\ v.board = w.board /\ v.count = w.count /\ v.passes = w.passes
        /\ v.unresolved <=> w.unresolved
    BY <1>3, <2>1, <2>2 DEF View
  <2>5. v.ply >= rules.max_plies <=> w.ply >= rules.max_plies BY <2>3 DEF View
  <2>6. StateEnding(k) = IF InCheck(q) /\ LegalMoves(q) = {}
                         THEN End("checkmate", Other(k.hash[2])) ELSE RuleEnding(v, rules)
    BY DEF StateEnding, q
  <2>7. GameStatus(pos, rules) = IF InCheck(pos) /\ LegalMoves(pos) = {}
                                 THEN End("checkmate", Other(pos.side)) ELSE RuleEnding(w, rules)
    BY DEF GameStatus
  <2> HIDE DEF v, w
  <2>8. RuleEnding(v, rules) = RuleEnding(w, rules) BY <2>4, <2>5, SameEnding
  <2>9. QED BY <1>5, <2>1, <2>6, <2>7, <2>8
<1>7. ASSUME line # <<>>
      PROVE  k \in StateAfter(StateKey(UnmakeMove(pos), rules, Horizon), Last(line))
  <2> DEFINE p == UnmakeMove(pos)
             m == Last(line)
             j == StateKey(p, rules, Horizon)
             x == StatePosition(j)
             y == MakeMove(x, m)
  <2>1. Good(p) /\ m \in LegalMoves(p) /\ pos = MakeMove(p, m) BY <1>7, LastMove
  <2> HIDE DEF p, m
  <2>2. p \in Position /\ HistorySound(p) BY <2>1 DEF Good, WellFormed
  <2>3. /\ j.hash = Hash(p) /\ j.passes = p.passes /\ j.bikjang = p.bikjang
        /\ j.context = RepetitionContext(p)
        /\ j.left = PliesLeft(p, rules.max_plies, Horizon) /\ j.forced = p.forced
    BY DEF StateKey
  <2>4. /\ x.board = p.board /\ x.side = p.side /\ x.kings = p.kings /\ x.passes = p.passes
        /\ x.forced = p.forced /\ Len(x.history) = 1 /\ x.irrev = 1
    <3>1. x = KeyPosition(Hash(p), p.passes, p.bikjang, p.forced) BY <2>3 DEF StatePosition
    <3> HIDE DEF x
    <3>2. QED BY <2>1, <3>1, KeyPositionFacts
  <2> HIDE DEF j, x
  <2> DEFINE captured == m # PASS_MOVE /\ p.board[m[2]] # EMPTY
  <2>5. /\ y.board = pos.board /\ y.side = pos.side /\ y.bikjang = pos.bikjang
    BY <2>1, <2>4, SameMoves
  <2>6. y.passes = pos.passes BY <2>1, <2>4 DEF MakeMove
  <2>7. y.irrev = IF captured THEN 2 ELSE 1 BY <2>4 DEF MakeMove
  <2>8. /\ pos.irrev = IF captured THEN Len(p.history) + 1 ELSE p.irrev
        /\ pos.history = Append(p.history, Hash(pos))
        /\ pos.forced = p.forced /\ pos.ply = p.ply + 1
    BY <2>1 DEF MakeMove, Hash
  <2>9. PrevBikjang(pos) = p.bikjang
    <3>1. pos.stack = Append(p.stack, Undo(p, m, IF m = PASS_MOVE THEN EMPTY ELSE p.board[m[2]]))
      BY <2>1 DEF MakeMove
    <3>2. p.stack \in Seq(UndoRecord) BY <2>2 DEF Position
    <3> DEFINE u == Undo(p, m, IF m = PASS_MOVE THEN EMPTY ELSE p.board[m[2]])
    <3>3. u.bikjang = p.bikjang BY DEF Undo
    <3> HIDE DEF u
    <3>4. pos.stack = Append(p.stack, u) BY <3>1 DEF u
    <3>5. pos.stack # <<>> /\ pos.stack[Len(pos.stack)] = u BY <3>2, <3>4
    <3>6. QED BY <3>3, <3>5 DEF PrevBikjang
  <2>10. captured \in BOOLEAN OBVIOUS
  <2> DEFINE bag == IF captured THEN [z \in {} |-> 0] ELSE RepetitionContext(p)
  <2>11. RepetitionContext(pos) = OneMore(bag, Hash(pos))
    <3> HIDE DEF captured
    <3>1. QED BY <2>1, <2>8, <2>10, ContextAfter
  <2>12. k.left \in LeftAfter(j.left)
    <3>1. p.ply \in Nat BY <2>2 DEF Position
    <3>2. QED BY <1>1, <1>3, <2>3, <2>8, <3>1, PliesFacts
  <2>13. Hash(y) = Hash(pos) BY <2>5 DEF Hash
  <2>14. y.irrev > 1 <=> captured BY <2>7
  <2> HIDE DEF y, captured
  <2>15. (IF y.irrev > 1 THEN [z \in {} |-> 0] ELSE j.context) = bag BY <2>3, <2>14
  <2>16. k = [hash |-> Hash(y), passes |-> y.passes, bikjang |-> y.bikjang, prev |-> j.bikjang,
              context |-> OneMore(bag, Hash(y)), left |-> k.left, forced |-> j.forced]
    <3>1. k = [hash |-> Hash(pos), passes |-> pos.passes, bikjang |-> pos.bikjang,
               prev |-> PrevBikjang(pos), context |-> RepetitionContext(pos),
               left |-> k.left, forced |-> pos.forced]
      BY DEF k, StateKey
    <3> HIDE DEF bag
    <3>2. QED BY <3>1, <2>3, <2>5, <2>6, <2>8, <2>9, <2>11, <2>13
  <2> HIDE DEF bag
  <2>17. StateAfter(j, m) =
           {[hash |-> Hash(y), passes |-> y.passes, bikjang |-> y.bikjang, prev |-> j.bikjang,
             context |-> OneMore(bag, Hash(y)), left |-> l, forced |-> j.forced] : l \in LeftAfter(j.left)}
    BY <2>15, Zenon DEF StateAfter, OneMore, y, x
  <2>18. k \in StateAfter(j, m) BY <2>12, <2>16, <2>17, Zenon
  <2>19. QED BY <2>18 DEF j, p, m
<1>8. QED BY <1>5, <1>6, <1>7 DEF StateKeyDecides, k, q

\* But for repetitions, what a table entry is kept under holds all that its node
\* and those after it depend on (JanggiGame's TtKeyDecides).
LEMMA TtKeyHolds ==
  ASSUME Replayed
  PROVE  TtKeyDecides
PROOF
<1> DEFINE n == TtKeyOf(pos)
           k == TtKeyOf(UnmakeMove(pos))
<1>1. /\ Good(pos) /\ pos.forced = (rules.bikjang = "forced") /\ rules.max_plies \in Int
  BY ReplayedIsGood, RuleSetsAssumption DEF Replayed
<1>2. pos \in Position BY <1>1 DEF Good, WellFormed
<1> DEFINE limit == SearchLimit(rules, MaxPliesDraw)
<1>7. limit \in Int /\ searched.max_plies = limit /\ searched.bikjang = rules.bikjang
  BY SearchRulesFacts
<1> HIDE DEF limit
<1>3. ASSUME NEW p, Good(p), p.forced = (rules.bikjang = "forced")
      PROVE  LET x == TtPosition(TtKeyOf(p))
             IN  /\ x.board = p.board /\ x.side = p.side /\ x.kings = p.kings
                 /\ x.passes = IF p.passes > 0 THEN 1 ELSE 0
                 /\ x.bikjang = (p.bikjang /\ rules.bikjang # "off") /\ x.forced = p.forced
                 /\ x.stack = <<>>
  <2> DEFINE j == TtKeyOf(p)
             x == TtPosition(j)
  <2>1. j.hash = Hash(p) /\ j.pending = (p.passes > 0) /\ j.bikjang = (p.bikjang /\ rules.bikjang # "off")
    BY DEF TtKeyOf, TtKey
  <2>2. x = KeyPosition(Hash(p), IF p.passes > 0 THEN 1 ELSE 0, p.bikjang /\ rules.bikjang # "off",
                        rules.bikjang = "forced")
    BY <2>1 DEF TtPosition
  <2> HIDE DEF x
  <2>3. QED BY <1>3, <2>2, KeyPositionFacts DEF x
<1>4. LegalMoves(TtPosition(n)) = LegalMoves(pos)
  <2> DEFINE x == TtPosition(n)
  <2>1. /\ x.board = pos.board /\ x.side = pos.side /\ x.kings = pos.kings
        /\ x.bikjang = (pos.bikjang /\ rules.bikjang # "off") /\ x.forced = pos.forced
    BY <1>1, <1>3
  <2> HIDE DEF x
  <2>2. InCheck(x) <=> InCheck(pos) BY <2>1, SameMoves
  <2>3. MustResolveBikjang(x) <=> MustResolveBikjang(pos)
    BY <1>1, <2>1, <2>2 DEF MustResolveBikjang
  <2>4. QED BY <2>1, <2>3, SameMoves DEF x
<1>5. ASSUME line # <<>>
      PROVE  /\ n \in TtAfter(k, Last(line))
             /\ TtEndingAfter(k, Last(line), n.left) = RuleEnding([View(pos) EXCEPT !.count = 1], searched)
  <2> DEFINE p == UnmakeMove(pos)
             m == Last(line)
             x == TtPosition(k)
             y == MakeMove(x, m)
  <2>1. /\ Good(p) /\ p.forced = (rules.bikjang = "forced") /\ p.passes < 2
        /\ pos = MakeMove(p, m)
    BY <1>5, LastMove
  <2>2. p \in Position BY <2>1 DEF Good, WellFormed
  <2>3. /\ x.board = p.board /\ x.side = p.side /\ x.kings = p.kings
        /\ x.passes = (IF p.passes > 0 THEN 1 ELSE 0)
        /\ x.bikjang = (p.bikjang /\ rules.bikjang # "off") /\ x.stack = <<>>
    BY <1>3, <2>1
  <2>4. p.passes \in Nat /\ p.ply \in Nat BY <2>2 DEF Position
  <2>5. x.passes = p.passes BY <2>1, <2>3, <2>4
  <2>6. k.left = PliesLeft(p, limit, Horizon) /\ n.left = PliesLeft(pos, limit, Horizon)
    BY DEF TtKeyOf, TtKey, limit
  <2> HIDE DEF p, m, x
  <2>7. y.board = pos.board /\ y.side = pos.side /\ y.bikjang = pos.bikjang
    BY <2>1, <2>3, SameMoves
  <2>8. y.passes = pos.passes /\ pos.ply = p.ply + 1 BY <2>1, <2>5 DEF MakeMove
  <2>9. PrevBikjang(pos) = p.bikjang
    <3> DEFINE u == Undo(p, m, IF m = PASS_MOVE THEN EMPTY ELSE p.board[m[2]])
    <3>1. pos.stack = Append(p.stack, u) BY <2>1 DEF MakeMove
    <3>2. p.stack \in Seq(UndoRecord) BY <2>2 DEF Position
    <3>3. u.bikjang = p.bikjang BY DEF Undo
    <3> HIDE DEF u
    <3>4. pos.stack # <<>> /\ pos.stack[Len(pos.stack)] = u BY <3>1, <3>2
    <3>5. QED BY <3>3, <3>4 DEF PrevBikjang
  <2>10. PrevBikjang(y) = (p.bikjang /\ rules.bikjang # "off")
    <3> DEFINE u == Undo(x, m, IF m = PASS_MOVE THEN EMPTY ELSE x.board[m[2]])
    <3>1. y.stack = Append(x.stack, u) BY DEF MakeMove
    <3>2. u.bikjang = x.bikjang BY DEF Undo
    <3> HIDE DEF u
    <3>3. Append(<<>>, u) # <<>> /\ Append(<<>>, u)[Len(Append(<<>>, u))] = u OBVIOUS
    <3>4. PrevBikjang(y) = x.bikjang BY <2>3, <3>1, <3>2, <3>3 DEF PrevBikjang
    <3>5. QED BY <2>3, <3>4
  <2>11. /\ n.left \in LeftAfter(k.left)
         /\ PlyOf(n.left, limit) >= limit <=> pos.ply >= limit
    <3>1. n.left \in LeftAfter(k.left) BY <1>7, <2>4, <2>6, <2>8, PliesFacts
    <3>2. pos.ply \in Nat BY <2>4, <2>8
    <3>3. PlyOf(n.left, limit) >= limit <=> pos.ply >= limit BY <1>7, <2>6, <3>2, PliesFacts
    <3>4. QED BY <3>1, <3>3
  <2> HIDE DEF y
  <2>12. n \in TtAfter(k, m)
    <3>1. n = [hash |-> Hash(y), pending |-> y.passes > 0,
               bikjang |-> y.bikjang /\ rules.bikjang # "off", left |-> n.left]
      BY <2>7, <2>8 DEF TtKeyOf, TtKey, Hash
    <3> HIDE DEF n, k
    <3>2. TtAfter(k, m) = {[hash |-> Hash(y), pending |-> y.passes > 0,
                            bikjang |-> y.bikjang /\ rules.bikjang # "off", left |-> l] : l \in LeftAfter(k.left)}
      BY Zenon DEF TtAfter, y, x
    <3>3. QED BY <2>11, <3>1, <3>2, Zenon
  <2>13. TtEndingAfter(k, m, n.left) = RuleEnding([View(pos) EXCEPT !.count = 1], searched)
    <3> DEFINE v == [View(y) EXCEPT !.ply = PlyOf(n.left, limit), !.count = 1]
               w == [View(pos) EXCEPT !.count = 1]
    <3>1. TtEndingAfter(k, m, n.left) = RuleEnding(v, searched) BY <1>7 DEF TtEndingAfter, y, x
    <3> HIDE DEF n, k
    <3>2. /\ v.board = y.board /\ v.passes = y.passes /\ v.ply = PlyOf(n.left, limit) /\ v.count = 1
          /\ v.unresolved = (y.bikjang /\ PrevBikjang(y))
          /\ w.board = pos.board /\ w.passes = pos.passes /\ w.ply = pos.ply /\ w.count = 1
          /\ w.unresolved = (pos.bikjang /\ PrevBikjang(pos))
      BY DEF View
    <3> HIDE DEF v, w
    <3>3. searched.bikjang # "off" => (v.unresolved <=> w.unresolved) BY <1>7, <2>7, <2>9, <2>10, <3>2
    <3>4. v.ply >= searched.max_plies <=> w.ply >= searched.max_plies BY <1>7, <2>11, <3>2
    <3>5. RuleEnding(v, searched) = RuleEnding(w, searched)
      BY <2>7, <2>8, <3>2, <3>3, <3>4, SameEnding
    <3>6. QED BY <3>1, <3>5 DEF w
  <2>14. QED BY <2>12, <2>13 DEF m
<1>6. QED BY <1>4, <1>5 DEF TtKeyDecides

\* A cached analysis is an answer for every position with its key, and a table
\* entry for every node with its (JanggiGame's KeysDecide).
THEOREM KeysHoldTheGame == Spec => []KeysDecide
PROOF
<1>1. Replayed /\ RepetitionIsWhole => KeysDecide
  BY StateKeyHolds, TtKeyHolds DEF KeysDecide
<1>2. QED BY <1>1, AlwaysReplayed, RepetitionCountsAll, PTL

-----------------------------------------------------------------------------
(* The board turned round: rows are counted from the other end.              *)

Turned(d) == <<-d[1], d[2]>>
Plane == Int \X Int

\* Turning twice changes nothing, and the palaces change their owners.
LEMMA MirrorFacts ==
  ASSUME NEW s \in Plane
  PROVE  /\ MirrorSquare(s) \in Plane /\ MirrorSquare(MirrorSquare(s)) = s
         /\ MirrorSquare(s) \in Squares <=> s \in Squares
         /\ PalaceId(MirrorSquare(s)) = IF PalaceId(s) = -1 THEN -1 ELSE Other(PalaceId(s))
         /\ MirrorSquare(s) \in PALACE_CENTER <=> s \in PALACE_CENTER
PROOF
<1>1. PICK x, y \in Int : s = <<x, y>> BY DEF Plane
<1>2. MirrorSquare(s) = <<9 - x, y>> BY <1>1 DEF MirrorSquare, ROWS
<1>3. MirrorSquare(MirrorSquare(s)) = s
  <2>1. MirrorSquare(<<9 - x, y>>) = <<9 - (9 - x), y>> BY DEF MirrorSquare, ROWS
  <2>2. 9 - (9 - x) = x OBVIOUS
  <2>3. QED BY <1>1, <1>2, <2>1, <2>2
<1>4. MirrorSquare(s) \in Squares <=> s \in Squares BY <1>1, <1>2 DEF Squares, ROWS, COLS
<1>5. PalaceId(MirrorSquare(s)) = IF PalaceId(s) = -1 THEN -1 ELSE Other(PalaceId(s))
  BY <1>1, <1>2 DEF PalaceId, Other
<1>6. MirrorSquare(s) \in PALACE_CENTER <=> s \in PALACE_CENTER
  BY <1>1, <1>2 DEF PALACE_CENTER
<1>7. QED BY <1>2, <1>3, <1>4, <1>5, <1>6 DEF Plane

\* Squares are points of the plane, and so is what lies along a line.
LEMMA PlaneFacts ==
  /\ \A s \in Squares : s \in Plane
  /\ \A s \in Plane, d \in Dirs, n \in Int : Along(s, d, n) \in Plane
PROOF
<1>1. \A s \in Squares : s \in Plane BY DEF Squares, ROWS, COLS, Plane
<1>2. ASSUME NEW s \in Plane, NEW d \in Dirs, NEW n \in Int
      PROVE  Along(s, d, n) \in Plane
  <2>1. d[1] \in Int /\ d[2] \in Int BY DirFacts
  <2>2. s[1] \in Int /\ s[2] \in Int BY DEF Plane
  <2>3. n * d[1] \in Int /\ n * d[2] \in Int BY <2>1
  <2>4. QED BY <2>2, <2>3 DEF Along, Plane
<1>3. QED BY <1>1, <1>2

\* Steps along a line, turned round.
LEMMA MirrorAlong ==
  ASSUME NEW s \in Plane, NEW d \in Dirs, NEW n \in Int
  PROVE  /\ Turned(d) \in Dirs
         /\ Turned(d) \in ORTH_DIRS <=> d \in ORTH_DIRS
         /\ Turned(d) \in DIAG_DIRS <=> d \in DIAG_DIRS
         /\ MirrorSquare(Along(s, d, n)) = Along(MirrorSquare(s), Turned(d), n)
PROOF
<1>1. d \in ORTH_DIRS => Turned(d) \in ORTH_DIRS /\ Turned(d) \notin DIAG_DIRS /\ d \notin DIAG_DIRS
  BY DEF ORTH_DIRS, DIAG_DIRS, Turned
<1>2. d \in DIAG_DIRS => Turned(d) \in DIAG_DIRS /\ Turned(d) \notin ORTH_DIRS
  BY DEF ORTH_DIRS, DIAG_DIRS, Turned
<1>3. MirrorSquare(Along(s, d, n)) = Along(MirrorSquare(s), Turned(d), n)
  <2>1. d[1] \in {-1, 0, 1} BY DirFacts
  <2>2. s[1] \in Int BY DEF Plane
  <2>3. 9 - (s[1] + n * d[1]) = (9 - s[1]) + n * (-d[1])
    <3>1. CASE d[1] = -1 BY <2>2, <3>1
    <3>2. CASE d[1] = 0 BY <2>2, <3>2
    <3>3. CASE d[1] = 1 BY <2>2, <3>3
    <3>4. QED BY <2>1, <3>1, <3>2, <3>3
  <2>4. QED BY <2>3 DEF MirrorSquare, Along, Turned, ROWS
<1>4. /\ Turned(d) \in Dirs /\ (Turned(d) \in ORTH_DIRS <=> d \in ORTH_DIRS)
      /\ (Turned(d) \in DIAG_DIRS <=> d \in DIAG_DIRS)
  BY <1>1, <1>2 DEF Dirs
<1>5. QED BY <1>3, <1>4

\* A step along a line is one on the board turned round.
LEMMA MirrorLineStep ==
  ASSUME NEW a \in Plane, NEW d \in Dirs, LineStep(a, d)
  PROVE  LineStep(MirrorSquare(a), Turned(d))
PROOF
<1> DEFINE c == Along(a, d, 1)
           a1 == MirrorSquare(a)
           c1 == MirrorSquare(c)
<1>1. c \in Squares /\ (d \in ORTH_DIRS \/ DiagStepOk(a, c)) BY DEF LineStep
<1>2. c \in Plane /\ 1 \in Int BY <1>1, PlaneFacts
<1>3. c1 = Along(a1, Turned(d), 1) BY <1>2, MirrorAlong
<1>4. c1 \in Squares BY <1>1, <1>2, MirrorFacts
<1>5. DiagStepOk(a, c) => DiagStepOk(a1, c1)
  <2> SUFFICES ASSUME DiagStepOk(a, c) PROVE DiagStepOk(a1, c1) OBVIOUS
  <2>1. /\ <<c[1] - a[1], c[2] - a[2]>> \in DIAG_DIRS
        /\ PalaceId(a) # -1 /\ PalaceId(a) = PalaceId(c) /\ {a, c} \cap PALACE_CENTER # {}
    BY DEF DiagStepOk
  <2>2. <<c1[1] - a1[1], c1[2] - a1[2]>> \in DIAG_DIRS
    <3>1. a[1] \in Int /\ c[1] \in Int BY <1>2 DEF Plane
    <3>2. a1[1] = 9 - a[1] /\ a1[2] = a[2] /\ c1[1] = 9 - c[1] /\ c1[2] = c[2]
      BY DEF MirrorSquare, ROWS
    <3> HIDE DEF a1, c1, c
    <3>3. c[1] - a[1] \in {-1, 1} /\ c[2] - a[2] \in {-1, 1} BY <2>1 DEF DIAG_DIRS
    <3>4. c1[1] - a1[1] \in {-1, 1} BY <3>1, <3>2, <3>3
    <3>5. c1[2] - a1[2] \in {-1, 1} BY <3>2, <3>3
    <3>6. QED BY <3>4, <3>5 DEF DIAG_DIRS
  <2>3. PalaceId(a1) # -1 /\ PalaceId(a1) = PalaceId(c1)
    <3>1. PalaceId(a) \in {0, 1} BY <2>1 DEF PalaceId
    <3>2. Other(PalaceId(a)) # -1 BY <3>1 DEF Other
    <3>3. QED BY <1>2, <2>1, <3>2, MirrorFacts
  <2>4. {a1, c1} \cap PALACE_CENTER # {} BY <1>2, <2>1, MirrorFacts
  <2>5. QED BY <2>2, <2>3, <2>4 DEF DiagStepOk
<1>6. d \in ORTH_DIRS => Turned(d) \in ORTH_DIRS BY <1>2, MirrorAlong
<1>7. QED BY <1>1, <1>3, <1>4, <1>5, <1>6 DEF LineStep

\* A ray of the board turned round.
LEMMA MirrorRay ==
  ASSUME NEW s \in Squares, NEW d \in Dirs
  PROVE  LET r == RayFrom(s, d)
             q == RayFrom(MirrorSquare(s), Turned(d))
         IN  /\ Len(r) \in Nat /\ Len(q) \in Nat /\ Len(r) <= Len(q)
             /\ \A i \in 1 .. Len(r) : r[i] \in Squares /\ q[i] = MirrorSquare(r[i])
PROOF
<1> DEFINE r == RayFrom(s, d)
           e == Turned(d)
           u == MirrorSquare(s)
           q == RayFrom(u, e)
           n == Len(r)
<1>1. s \in Plane /\ u \in Squares BY PlaneFacts, MirrorFacts
<1>2. e \in Dirs /\ \A k \in Int : MirrorSquare(Along(s, d, k)) = Along(u, e, k)
  <2>1. 1 \in Int OBVIOUS
  <2>2. QED BY <1>1, <2>1, MirrorAlong
<1>3. n \in 0 .. 10 /\ Walk(s, d, n) /\ \A i \in 1 .. n : r[i] = Along(s, d, i) /\ r[i] \in Squares
  BY RayFacts
<1> HIDE DEF n, r, u, e
<1>4. Walk(u, e, n)
  <2> SUFFICES ASSUME NEW i \in 1 .. n PROVE LineStep(Along(u, e, i - 1), e) BY DEF Walk
  <2>1. i - 1 \in Int BY <1>3
  <2>2. LineStep(Along(s, d, i - 1), d) BY <1>3 DEF Walk
  <2>3. Along(s, d, i - 1) \in Plane BY <1>1, <2>1, PlaneFacts
  <2>4. LineStep(MirrorSquare(Along(s, d, i - 1)), e) BY <2>2, <2>3, MirrorLineStep DEF e
  <2>5. QED BY <1>2, <2>1, <2>4
<1>5. /\ Len(q) \in 0 .. 10 /\ n <= Len(q) /\ \A i \in 1 .. Len(q) : q[i] = Along(u, e, i)
  BY <1>1, <1>2, <1>3, <1>4, RayFacts
<1> HIDE DEF q
<1>6. ASSUME NEW i \in 1 .. n PROVE q[i] = MirrorSquare(r[i])
  <2>1. i \in Int /\ i \in 1 .. Len(q) BY <1>3, <1>5
  <2>2. QED BY <1>2, <1>3, <1>5, <2>1
<1>7. QED BY <1>3, <1>5, <1>6 DEF n, q, r, u, e

\* The men on the board turned round, and that turning it twice changes nothing.
LEMMA MirrorBoardFacts ==
  ASSUME NEW b \in Board
  PROVE  /\ MirrorBoard(b) \in Board /\ MirrorBoard(MirrorBoard(b)) = b
         /\ \A s \in Squares : LET p == MirrorBoard(b)[MirrorSquare(s)]
                               IN  /\ p = EMPTY <=> b[s] = EMPTY
                                   /\ p.type = b[s].type
                                   /\ \A c \in Sides : p.color = Other(c) <=> b[s].color = c
PROOF
<1> DEFINE Man(p) == IF p = EMPTY THEN EMPTY ELSE Of(Other(p.color), p.type)
<1>1. ASSUME NEW a \in Board
      PROVE  MirrorBoard(a) = [s \in Squares |-> Man(a[MirrorSquare(s)])]
  <2> DEFINE F == [s \in Squares |-> Man(a[MirrorSquare(s)])]
  <2>1. MirrorBoard(a) = Table(F) BY DEF MirrorBoard
  <2> HIDE DEF F
  <2>2. MirrorBoard(a) = F BY <2>1, TableIs
  <2>3. QED BY <2>2 DEF F
<1>2. \A s \in Squares : MirrorSquare(s) \in Squares /\ MirrorSquare(MirrorSquare(s)) = s
  BY PlaneFacts, MirrorFacts
<1>3. ASSUME NEW p \in Piece \union {EMPTY}
      PROVE  /\ Man(p) \in Piece \union {EMPTY} /\ Man(Man(p)) = p
             /\ Man(p) = EMPTY <=> p = EMPTY
             /\ Man(p).type = p.type
             /\ \A c \in Sides : Man(p).color = Other(c) <=> p.color = c
  <2>1. CASE p = EMPTY BY <2>1 DEF EMPTY, Other
  <2>2. CASE p \in Piece
    <3>1. p.color \in {0, 1} /\ p = [color |-> p.color, type |-> p.type] /\ p # EMPTY
      BY <2>2 DEF Piece, EMPTY
    <3>2. Other(p.color) \in {0, 1} /\ Other(Other(p.color)) = p.color BY <3>1 DEF Other
    <3>3. Man(p) = Of(Other(p.color), p.type) BY <3>1
    <3>4. /\ Man(p) \in Piece /\ Man(p).type = p.type /\ Man(p).color = Other(p.color)
      BY <2>2, <3>2, <3>3 DEF Piece, Of
    <3>5. Man(p) # EMPTY BY <3>2, <3>4 DEF EMPTY
    <3>6. Man(Man(p)) = p
      <4>1. Man(Man(p)) = Of(Other(Man(p).color), Man(p).type) BY <3>5
      <4> HIDE DEF Man
      <4>2. QED BY <3>1, <3>2, <3>4, <4>1 DEF Of
    <3>7. \A c \in Sides : Other(p.color) = Other(c) <=> p.color = c BY <3>1 DEF Other
    <3> HIDE DEF Man
    <3>8. QED BY <3>1, <3>4, <3>5, <3>6, <3>7
  <2>3. QED BY <2>1, <2>2
<1> HIDE DEF Man
<1>4. \A a \in Board : \A s \in Squares : a[s] \in Piece \union {EMPTY} BY DEF Board
<1>5. ASSUME NEW a \in Board PROVE MirrorBoard(a) \in Board
  BY <1>1, <1>2, <1>3, <1>4 DEF Board
<1>6. MirrorBoard(MirrorBoard(b)) = b
  <2>1. MirrorBoard(b) = [s \in Squares |-> Man(b[MirrorSquare(s)])] BY <1>1
  <2>2. MirrorBoard(MirrorBoard(b)) = [s \in Squares |-> Man(MirrorBoard(b)[MirrorSquare(s)])]
    BY <1>1, <1>5
  <2>3. \A s \in Squares : MirrorBoard(b)[MirrorSquare(s)] = Man(b[s]) BY <1>2, <2>1
  <2>4. \A s \in Squares : Man(MirrorBoard(b)[MirrorSquare(s)]) = b[s] BY <1>3, <1>4, <2>3
  <2>5. b = [s \in Squares |-> b[s]] BY DEF Board
  <2>6. QED BY <2>2, <2>4, <2>5
<1>7. ASSUME NEW s \in Squares
      PROVE  MirrorBoard(b)[MirrorSquare(s)] = Man(b[s])
  BY <1>1, <1>2
<1>8. QED BY <1>3, <1>4, <1>5, <1>6, <1>7

\* What a ray shows on the board turned round.
LEMMA MirrorSight ==
  ASSUME NEW b \in Board, NEW r, NEW q, Len(r) \in Nat, Len(q) \in Nat, Len(r) <= Len(q),
         \A i \in 1 .. Len(r) : r[i] \in Squares /\ q[i] = MirrorSquare(r[i]),
         NEW k \in Nat, NEW i \in Sight(r, k, b)
  PROVE  i \in Sight(q, k, MirrorBoard(b)) /\ i \in 1 .. Len(r)
PROOF
<1>1. i \in k + 1 .. Len(r) /\ \A j \in k + 1 .. i - 1 : b[r[j]] = EMPTY BY DEF Sight
<1>2. i \in 1 .. Len(r) /\ i \in k + 1 .. Len(q) BY <1>1
<1>3. \A j \in k + 1 .. i - 1 : j \in 1 .. Len(r) BY <1>1
<1>4. \A j \in k + 1 .. i - 1 : MirrorBoard(b)[q[j]] = EMPTY BY <1>1, <1>3, MirrorBoardFacts
<1>5. QED BY <1>2, <1>4 DEF Sight

\* Sliders and cannons look the same way on both boards.
LEMMA MirrorSees ==
  ASSUME NEW b \in Board, NEW s \in Squares, NEW t
  PROVE  /\ Sees(b, s, t) => Sees(MirrorBoard(b), MirrorSquare(s), MirrorSquare(t))
         /\ SeesOver(b, s, t) => SeesOver(MirrorBoard(b), MirrorSquare(s), MirrorSquare(t))
PROOF
<1> DEFINE B == MirrorBoard(b)
           u == MirrorSquare(s)
<1>1. u \in Squares BY PlaneFacts, MirrorFacts
<1>2. ASSUME NEW r \in RAYS_ALL[s]
      PROVE  \E q \in RAYS_ALL[u] :
               /\ Len(r) \in Nat /\ Len(q) \in Nat /\ Len(r) <= Len(q)
               /\ \A i \in 1 .. Len(r) : r[i] \in Squares /\ q[i] = MirrorSquare(r[i])
  <2>1. PICK d \in Dirs : r = RayFrom(s, d) BY RaysAre
  <2>2. Turned(d) \in Dirs
    <3>1. s \in Plane /\ 1 \in Int BY PlaneFacts
    <3>2. QED BY <3>1, MirrorAlong
  <2>3. RayFrom(u, Turned(d)) \in RAYS_ALL[u] BY <1>1, <2>2, RaysAre
  <2>4. QED BY <2>1, <2>3, MirrorRay
<1> HIDE DEF u
<1>3. ASSUME Sees(b, s, t) PROVE Sees(B, u, MirrorSquare(t))
  <2>1. PICK r \in RAYS_ALL[s] : \E k \in Sight(r, 0, b) : r[k] = t BY <1>3 DEF Sees
  <2>2. PICK k \in Sight(r, 0, b) : r[k] = t BY <2>1
  <2>3. PICK q \in RAYS_ALL[u] :
          /\ Len(r) \in Nat /\ Len(q) \in Nat /\ Len(r) <= Len(q)
          /\ \A i \in 1 .. Len(r) : r[i] \in Squares /\ q[i] = MirrorSquare(r[i])
    BY <1>2
  <2>4. k \in Sight(q, 0, B) /\ k \in 1 .. Len(r)
    <3>1. 0 \in Nat OBVIOUS
    <3>2. QED BY <2>2, <2>3, <3>1, MirrorSight
  <2>5. q[k] = MirrorSquare(t) BY <2>2, <2>3, <2>4
  <2>6. QED BY <2>4, <2>5 DEF Sees
<1>4. ASSUME SeesOver(b, s, t) PROVE SeesOver(B, u, MirrorSquare(t))
  <2>1. PICK r \in RAYS_ALL[s] : \E k \in Sight(r, 0, b) :
          b[r[k]].type \notin {EMPTY.type, CANNON} /\ \E i \in Sight(r, k, b) : r[i] = t
    BY <1>4 DEF SeesOver
  <2>2. PICK k \in Sight(r, 0, b) :
          b[r[k]].type \notin {EMPTY.type, CANNON} /\ \E i \in Sight(r, k, b) : r[i] = t
    BY <2>1
  <2>3. PICK i \in Sight(r, k, b) : r[i] = t BY <2>2
  <2>4. PICK q \in RAYS_ALL[u] :
          /\ Len(r) \in Nat /\ Len(q) \in Nat /\ Len(r) <= Len(q)
          /\ \A j \in 1 .. Len(r) : r[j] \in Squares /\ q[j] = MirrorSquare(r[j])
    BY <1>2
  <2>5. k \in Sight(q, 0, B) /\ k \in 1 .. Len(r)
    <3>1. 0 \in Nat OBVIOUS
    <3>2. QED BY <2>2, <2>4, <3>1, MirrorSight
  <2>6. k \in Nat BY <2>4, <2>5
  <2>7. i \in Sight(q, k, B) /\ i \in 1 .. Len(r) BY <2>3, <2>4, <2>6, MirrorSight
  <2>8. q[i] = MirrorSquare(t) BY <2>3, <2>4, <2>7
  <2>9. B[q[k]].type = b[r[k]].type BY <2>4, <2>5, MirrorBoardFacts
  <2>10. QED BY <2>2, <2>5, <2>7, <2>8, <2>9 DEF SeesOver
<1>5. QED BY <1>3, <1>4 DEF u

\* The legs of the horse and the elephant: the squares jumped are on the board
\* if the target is.
LEMMA LegFacts ==
  ASSUME NEW s \in Squares, NEW l \in Legs
  PROVE  LET a == Along(s, l[1], 1)
             c == Along(a, l[2], 1)
             e == Along(a, l[2], 2)
         IN  /\ l[1] \in Dirs /\ l[2] \in Dirs
             /\ <<Turned(l[1]), Turned(l[2])>> \in Legs
             /\ c \in Squares => a \in Squares
             /\ e \in Squares => a \in Squares /\ c \in Squares
PROOF
<1>1. l[1] \in ORTH_DIRS /\ l[2] \in Outward(l[1]) /\ l[2] \in DIAG_DIRS
  BY DEF Legs, Outward
<1>2. l[1] \in Dirs /\ l[2] \in Dirs BY <1>1 DEF Dirs
<1> DEFINE d == l[1]
           f == l[2]
<1>3. /\ d \in {<<-1, 0>>, <<1, 0>>, <<0, -1>>, <<0, 1>>} /\ f[1] \in {-1, 1} /\ f[2] \in {-1, 1}
      /\ \A i \in 1 .. 2 : d[i] # 0 => f[i] = d[i]
  BY <1>1 DEF ORTH_DIRS, DIAG_DIRS, Outward
<1>4. (d[1] # 0 => f[1] = d[1]) /\ (d[2] # 0 => f[2] = d[2])
  <2>1. 1 \in 1 .. 2 /\ 2 \in 1 .. 2 OBVIOUS
  <2>2. QED BY <1>3, <2>1
<1> HIDE DEF d, f
<1>5. PICK x \in 0 .. 9, y \in 0 .. 8 : s = <<x, y>> BY SquareFacts
<1>6. ASSUME NEW k \in {1, 2}
      PROVE  /\ Along(s, d, 1) = <<x + d[1], y + d[2]>>
             /\ Along(Along(s, d, 1), f, k) = <<x + d[1] + k * f[1], y + d[2] + k * f[2]>>
  BY <1>3, <1>5 DEF Along
<1>7. /\ Along(Along(s, d, 1), f, 1) = <<x + d[1] + f[1], y + d[2] + f[2]>>
      /\ Along(Along(s, d, 1), f, 2) = <<x + d[1] + 2 * f[1], y + d[2] + 2 * f[2]>>
  <2>1. 1 * f[1] = f[1] /\ 1 * f[2] = f[2] BY <1>3
  <2>2. QED BY <1>6, <2>1
<1>8. Along(s, d, 1) = <<x + d[1], y + d[2]>> BY <1>6
<1>9. \A u, v \in Int : <<u, v>> \in Squares <=> 0 <= u /\ u <= 9 /\ 0 <= v /\ v <= 8
  BY DEF Squares, ROWS, COLS
<1>10. \A k \in {1, 2} : ( /\ 0 <= x + d[1] + k * f[1] /\ x + d[1] + k * f[1] <= 9
                           /\ 0 <= y + d[2] + k * f[2] /\ y + d[2] + k * f[2] <= 8)
                         => ( /\ 0 <= x + d[1] /\ x + d[1] <= 9 /\ 0 <= y + d[2] /\ y + d[2] <= 8
                              /\ 0 <= x + d[1] + f[1] /\ x + d[1] + f[1] <= 9
                              /\ 0 <= y + d[2] + f[2] /\ y + d[2] + f[2] <= 8)
  BY <1>3, <1>4, <1>5
<1>11. /\ Along(Along(s, d, 1), f, 1) \in Squares => Along(s, d, 1) \in Squares
       /\ Along(Along(s, d, 1), f, 2) \in Squares =>
            Along(s, d, 1) \in Squares /\ Along(Along(s, d, 1), f, 1) \in Squares
  <2>1. /\ d[1] \in Int /\ d[2] \in Int /\ f[1] \in Int /\ f[2] \in Int /\ x \in Int /\ y \in Int
    BY <1>3, <1>5
  <2>2. 1 * f[1] = f[1] /\ 1 * f[2] = f[2] BY <1>3
  <2>3. Along(s, d, 1) \in Squares <=> 0 <= x + d[1] /\ x + d[1] <= 9 /\ 0 <= y + d[2] /\ y + d[2] <= 8
    BY <1>8, <1>9, <2>1
  <2>4. Along(Along(s, d, 1), f, 1) \in Squares <=>
          /\ 0 <= x + d[1] + f[1] /\ x + d[1] + f[1] <= 9
          /\ 0 <= y + d[2] + f[2] /\ y + d[2] + f[2] <= 8
    BY <1>7, <1>9, <2>1
  <2>5. Along(Along(s, d, 1), f, 2) \in Squares <=>
          /\ 0 <= x + d[1] + 2 * f[1] /\ x + d[1] + 2 * f[1] <= 9
          /\ 0 <= y + d[2] + 2 * f[2] /\ y + d[2] + 2 * f[2] <= 8
    BY <1>7, <1>9, <2>1
  <2>6. QED BY <1>10, <2>2, <2>3, <2>4, <2>5
<1>12. <<Turned(l[1]), Turned(l[2])>> \in Legs
  <2>1. Turned(d) \in ORTH_DIRS BY <1>3 DEF Turned, ORTH_DIRS
  <2>2. Turned(f) \in DIAG_DIRS BY <1>3 DEF Turned, DIAG_DIRS
  <2>3. \A i \in 1 .. 2 : Turned(d)[i] # 0 => Turned(f)[i] = Turned(d)[i]
    <3>1. Turned(d)[1] = -d[1] /\ Turned(d)[2] = d[2] /\ Turned(f)[1] = -f[1] /\ Turned(f)[2] = f[2]
      BY DEF Turned
    <3>2. d[1] \in Int /\ d[2] \in Int /\ (-d[1] # 0 => d[1] # 0) BY <1>3
    <3>3. \A i \in 1 .. 2 : i = 1 \/ i = 2 OBVIOUS
    <3>4. QED BY <1>4, <3>1, <3>2, <3>3
  <2>4. QED BY <2>1, <2>2, <2>3 DEF Legs, Outward, d, f
<1>13. QED BY <1>2, <1>11, <1>12 DEF d, f

\* The tables of the pieces that do not slide.
LEMMA StepTables ==
  ASSUME NEW s \in Squares
  PROVE  /\ HORSE_MOVES[s] =
              {x \in {<<Along(s, l[1], 1), Along(Along(s, l[1], 1), l[2], 1)>> : l \in Legs} :
                 x[2] \in Squares}
         /\ ELEPHANT_MOVES[s] =
              {x \in {<<Along(s, l[1], 1), Along(Along(s, l[1], 1), l[2], 1),
                        Along(Along(s, l[1], 1), l[2], 2)>> : l \in Legs} : x[3] \in Squares}
         /\ PALACE_STEPS[s] =
              {t \in {Along(s, d, 1) : d \in {e \in Dirs : LineStep(s, e)}} :
                 PalaceId(s) # -1 /\ PalaceId(t) = PalaceId(s)}
         /\ \A c \in Sides : PAWN_MOVES[c][s] =
              {Along(s, d, 1) : d \in {e \in {<<Forward(c), 0>>, <<0, -1>>, <<0, 1>>,
                                              <<Forward(c), -1>>, <<Forward(c), 1>>} : LineStep(s, e)}}
PROOF
<1> DEFINE H(u) == {x \in {<<Along(u, l[1], 1), Along(Along(u, l[1], 1), l[2], 1)>> : l \in Legs} :
                      x[2] \in Squares}
           E(u) == {x \in {<<Along(u, l[1], 1), Along(Along(u, l[1], 1), l[2], 1),
                             Along(Along(u, l[1], 1), l[2], 2)>> : l \in Legs} : x[3] \in Squares}
           K(u) == {t \in {Along(u, d, 1) : d \in {e \in Dirs : LineStep(u, e)}} :
                      PalaceId(u) # -1 /\ PalaceId(t) = PalaceId(u)}
           P(c, u) == {Along(u, d, 1) : d \in {e \in {<<Forward(c), 0>>, <<0, -1>>, <<0, 1>>,
                                                      <<Forward(c), -1>>, <<Forward(c), 1>>} : LineStep(u, e)}}
           HF == [u \in Squares |-> H(u)]
           EF == [u \in Squares |-> E(u)]
           KF == [u \in Squares |-> K(u)]
           PF(c) == [u \in Squares |-> P(c, u)]
           PFF == [c \in Sides |-> Table(PF(c))]
<1>1. HORSE_MOVES[s] = H(s)
  <2>1. HORSE_MOVES = Table(HF) BY DEF HORSE_MOVES
  <2>2. HF[s] = H(s) OBVIOUS
  <2> HIDE DEF HF, H
  <2>3. QED BY <2>1, <2>2, TableIs
<1>2. ELEPHANT_MOVES[s] = E(s)
  <2>1. ELEPHANT_MOVES = Table(EF) BY DEF ELEPHANT_MOVES
  <2>2. EF[s] = E(s) OBVIOUS
  <2> HIDE DEF EF, E
  <2>3. QED BY <2>1, <2>2, TableIs
<1>3. PALACE_STEPS[s] = K(s)
  <2>1. PALACE_STEPS = Table(KF) BY DEF PALACE_STEPS, Dirs
  <2>2. KF[s] = K(s) OBVIOUS
  <2> HIDE DEF KF, K
  <2>3. QED BY <2>1, <2>2, TableIs
<1>4. ASSUME NEW c \in Sides PROVE PAWN_MOVES[c][s] = P(c, s)
  <2>1. PAWN_MOVES = Table(PFF) BY DEF PAWN_MOVES
  <2>2. PFF[c] = Table(PF(c)) OBVIOUS
  <2>3. PF(c)[s] = P(c, s) OBVIOUS
  <2> HIDE DEF PFF, PF, P
  <2>4. PAWN_MOVES[c] = PF(c) BY <2>1, <2>2, TableIs
  <2>5. QED BY <2>3, <2>4
<1>5. QED BY <1>1, <1>2, <1>3, <1>4

\* Horse and elephant, turned round.
LEMMA MirrorLegs ==
  ASSUME NEW s \in Squares
  PROVE  /\ \A x \in HORSE_MOVES[s] :
              /\ x[1] \in Squares /\ x[2] \in Squares
              /\ <<MirrorSquare(x[1]), MirrorSquare(x[2])>> \in HORSE_MOVES[MirrorSquare(s)]
         /\ \A x \in ELEPHANT_MOVES[s] :
              /\ x[1] \in Squares /\ x[2] \in Squares /\ x[3] \in Squares
              /\ <<MirrorSquare(x[1]), MirrorSquare(x[2]), MirrorSquare(x[3])>>
                   \in ELEPHANT_MOVES[MirrorSquare(s)]
PROOF
<1> DEFINE u == MirrorSquare(s)
           A(v, l) == Along(v, l[1], 1)
           C(v, l) == Along(A(v, l), l[2], 1)
           E(v, l) == Along(A(v, l), l[2], 2)
           T(l) == <<Turned(l[1]), Turned(l[2])>>
<1>1. s \in Plane /\ u \in Squares BY PlaneFacts, MirrorFacts
<1>2. ASSUME NEW l \in Legs
      PROVE  /\ T(l) \in Legs
             /\ MirrorSquare(A(s, l)) = A(u, T(l)) /\ MirrorSquare(C(s, l)) = C(u, T(l))
             /\ MirrorSquare(E(s, l)) = E(u, T(l))
             /\ C(s, l) \in Squares => A(s, l) \in Squares
             /\ E(s, l) \in Squares => A(s, l) \in Squares /\ C(s, l) \in Squares
  <2>1. /\ l[1] \in Dirs /\ l[2] \in Dirs /\ T(l) \in Legs
        /\ C(s, l) \in Squares => A(s, l) \in Squares
        /\ E(s, l) \in Squares => A(s, l) \in Squares /\ C(s, l) \in Squares
    BY LegFacts
  <2>2. 1 \in Int /\ 2 \in Int OBVIOUS
  <2>3. A(s, l) \in Plane BY <1>1, <2>1, <2>2, PlaneFacts
  <2>4. T(l)[1] = Turned(l[1]) /\ T(l)[2] = Turned(l[2]) OBVIOUS
  <2>5. MirrorSquare(A(s, l)) = A(u, T(l)) BY <1>1, <2>1, <2>2, <2>4, MirrorAlong
  <2>6. MirrorSquare(C(s, l)) = C(u, T(l)) BY <2>1, <2>2, <2>3, <2>4, <2>5, MirrorAlong
  <2>7. MirrorSquare(E(s, l)) = E(u, T(l)) BY <2>1, <2>2, <2>3, <2>4, <2>5, MirrorAlong
  <2>8. QED BY <2>1, <2>5, <2>6, <2>7
<1>3. ASSUME NEW v \in Squares
      PROVE  MirrorSquare(v) \in Squares
  BY PlaneFacts, MirrorFacts
<1>4. ASSUME NEW v \in Squares
      PROVE  /\ HORSE_MOVES[v] = {x \in {<<A(v, l), C(v, l)>> : l \in Legs} : x[2] \in Squares}
             /\ ELEPHANT_MOVES[v] = {x \in {<<A(v, l), C(v, l), E(v, l)>> : l \in Legs} : x[3] \in Squares}
  BY StepTables
<1> HIDE DEF u, A, C, E, T
<1>5. ASSUME NEW x \in HORSE_MOVES[s]
      PROVE  /\ x[1] \in Squares /\ x[2] \in Squares
             /\ <<MirrorSquare(x[1]), MirrorSquare(x[2])>> \in HORSE_MOVES[u]
  <2>1. PICK l \in Legs : x = <<A(s, l), C(s, l)>> /\ x[2] \in Squares BY <1>4
  <2>2. x[1] = A(s, l) /\ x[2] = C(s, l) BY <2>1
  <2>3. x[1] \in Squares BY <1>2, <2>1, <2>2
  <2>4. T(l) \in Legs /\ MirrorSquare(x[1]) = A(u, T(l)) /\ MirrorSquare(x[2]) = C(u, T(l))
    BY <1>2, <2>2
  <2>5. C(u, T(l)) \in Squares BY <1>3, <2>1, <2>4
  <2>6. <<A(u, T(l)), C(u, T(l))>> \in HORSE_MOVES[u] BY <1>1, <1>4, <2>4, <2>5
  <2>7. QED BY <2>1, <2>3, <2>4, <2>6
<1>6. ASSUME NEW x \in ELEPHANT_MOVES[s]
      PROVE  /\ x[1] \in Squares /\ x[2] \in Squares /\ x[3] \in Squares
             /\ <<MirrorSquare(x[1]), MirrorSquare(x[2]), MirrorSquare(x[3])>> \in ELEPHANT_MOVES[u]
  <2>1. PICK l \in Legs : x = <<A(s, l), C(s, l), E(s, l)>> /\ x[3] \in Squares BY <1>4
  <2>2. x[1] = A(s, l) /\ x[2] = C(s, l) /\ x[3] = E(s, l) BY <2>1
  <2>3. x[1] \in Squares /\ x[2] \in Squares BY <1>2, <2>1, <2>2
  <2>4. /\ T(l) \in Legs /\ MirrorSquare(x[1]) = A(u, T(l)) /\ MirrorSquare(x[2]) = C(u, T(l))
        /\ MirrorSquare(x[3]) = E(u, T(l))
    BY <1>2, <2>2
  <2>5. E(u, T(l)) \in Squares BY <1>3, <2>1, <2>4
  <2>6. <<A(u, T(l)), C(u, T(l)), E(u, T(l))>> \in ELEPHANT_MOVES[u] BY <1>1, <1>4, <2>4, <2>5
  <2>7. QED BY <2>1, <2>3, <2>4, <2>6
<1>7. QED BY <1>5, <1>6 DEF u

\* Palace steps and pawn moves, turned round: the pawn now goes the other way.
LEMMA MirrorSteps ==
  ASSUME NEW s \in Squares, NEW t
  PROVE  /\ t \in PALACE_STEPS[s] => MirrorSquare(t) \in PALACE_STEPS[MirrorSquare(s)]
         /\ \A c \in Sides : t \in PAWN_MOVES[c][s] =>
              MirrorSquare(t) \in PAWN_MOVES[Other(c)][MirrorSquare(s)]
PROOF
<1> DEFINE u == MirrorSquare(s)
           Ways(c) == {<<Forward(c), 0>>, <<0, -1>>, <<0, 1>>, <<Forward(c), -1>>, <<Forward(c), 1>>}
<1>1. s \in Plane /\ u \in Squares /\ 1 \in Int BY PlaneFacts, MirrorFacts
<1>2. ASSUME NEW d \in Dirs, LineStep(s, d)
      PROVE  /\ Turned(d) \in Dirs /\ LineStep(u, Turned(d))
             /\ Along(s, d, 1) \in Plane
             /\ MirrorSquare(Along(s, d, 1)) = Along(u, Turned(d), 1)
  BY <1>1, <1>2, MirrorAlong, MirrorLineStep, PlaneFacts
<1>3. ASSUME t \in PALACE_STEPS[s] PROVE MirrorSquare(t) \in PALACE_STEPS[u]
  <2>1. PICK d \in Dirs : LineStep(s, d) /\ t = Along(s, d, 1) BY <1>3, StepTables
  <2>2. PalaceId(s) # -1 /\ PalaceId(t) = PalaceId(s) BY <1>3, StepTables
  <2>3. /\ Turned(d) \in Dirs /\ LineStep(u, Turned(d)) /\ t \in Plane
        /\ MirrorSquare(t) = Along(u, Turned(d), 1)
    BY <1>2, <2>1
  <2>4. PalaceId(u) # -1 /\ PalaceId(MirrorSquare(t)) = PalaceId(u)
    <3>1. PalaceId(s) \in {0, 1} BY <2>2 DEF PalaceId
    <3>2. Other(PalaceId(s)) # -1 BY <3>1 DEF Other
    <3>3. QED BY <1>1, <2>2, <2>3, <3>2, MirrorFacts
  <2> HIDE DEF u
  <2>5. QED BY <1>1, <2>3, <2>4, StepTables
<1>4. ASSUME NEW c \in Sides, t \in PAWN_MOVES[c][s]
      PROVE  MirrorSquare(t) \in PAWN_MOVES[Other(c)][u]
  <2>1. PAWN_MOVES[c][s] = {Along(s, d, 1) : d \in {e \in Ways(c) : LineStep(s, e)}} BY StepTables
  <2>2. PICK d \in Ways(c) : LineStep(s, d) /\ t = Along(s, d, 1) BY <1>4, <2>1
  <2>3. Other(c) \in Sides /\ Forward(Other(c)) = -Forward(c) /\ Forward(c) \in {-1, 1}
    BY DEF Other, Forward
  <2>4. d \in Dirs BY <2>3 DEF Dirs, ORTH_DIRS, DIAG_DIRS
  <2>5. Turned(d) \in Ways(Other(c)) BY <2>3 DEF Turned
  <2>6. LineStep(u, Turned(d)) /\ MirrorSquare(t) = Along(u, Turned(d), 1) BY <1>2, <2>2, <2>4
  <2>7. PAWN_MOVES[Other(c)][u] = {Along(u, e, 1) : e \in {f \in Ways(Other(c)) : LineStep(u, f)}}
    BY <1>1, <2>3, StepTables
  <2> HIDE DEF Ways, u
  <2>8. QED BY <2>5, <2>6, <2>7
<1>5. QED BY <1>3, <1>4 DEF u

USE DEF KING, GUARD, CHARIOT, CANNON, HORSE, ELEPHANT, PAWN

\* What a man reaches, its image reaches on the board turned round.
LEMMA MirrorReach ==
  ASSUME NEW b \in Board, NEW f \in Squares, b[f] \in Piece, NEW t \in Reach(f, b) \cap Squares
  PROVE  MirrorSquare(t) \in Reach(MirrorSquare(f), MirrorBoard(b))
PROOF
<1> DEFINE B == MirrorBoard(b)
           g == MirrorSquare(f)
           u == MirrorSquare(t)
<1>1. g \in Squares BY PlaneFacts, MirrorFacts
<1>2. /\ \A s \in Squares : /\ B[MirrorSquare(s)] = EMPTY <=> b[s] = EMPTY
                            /\ B[MirrorSquare(s)].type = b[s].type
      /\ \A c \in Sides : B[g].color = Other(c) <=> b[f].color = c
  BY MirrorBoardFacts
<1>3. B[g].type = b[f].type BY <1>2
<1> HIDE DEF B, g, u
<1>4. CASE b[f].type = CHARIOT
  <2>1. Sees(b, f, t) BY <1>4 DEF Reach, ChariotReach, Sees
  <2>2. Sees(B, g, u) BY <2>1, MirrorSees DEF B, g, u
  <2>3. QED BY <1>3, <1>4, <2>2 DEF Reach, ChariotReach, Sees, B, g, u
<1>5. CASE b[f].type = CANNON
  <2>1. t \in CannonReach(f, b) BY <1>5 DEF Reach
  <2>2. SeesOver(b, f, t) /\ b[t].type # CANNON BY <2>1 DEF CannonReach, Screens, SeesOver
  <2>3. SeesOver(B, g, u) BY <2>2, MirrorSees DEF B, g, u
  <2>4. B[u].type # CANNON BY <1>2, <2>2 DEF u
  <2>5. u \in CannonReach(g, B) BY <2>3, <2>4 DEF CannonReach, Screens, SeesOver
  <2>6. Reach(g, B) = CannonReach(g, B) BY <1>3, <1>5 DEF Reach
  <2>7. QED BY <2>5, <2>6 DEF B, g, u
<1>6. CASE b[f].type = HORSE
  <2>1. PICK x \in HORSE_MOVES[f] : b[x[1]] = EMPTY /\ t = x[2] BY <1>6 DEF Reach
  <2>2. x[1] \in Squares /\ <<MirrorSquare(x[1]), u>> \in HORSE_MOVES[g]
    BY <2>1, MirrorLegs DEF g, u
  <2>3. B[MirrorSquare(x[1])] = EMPTY BY <1>2, <2>1, <2>2
  <2>4. Reach(g, B) = {y[2] : y \in {z \in HORSE_MOVES[g] : B[z[1]] = EMPTY}}
    BY <1>3, <1>6 DEF Reach
  <2>5. u \in Reach(g, B)
    <3> DEFINE y == <<MirrorSquare(x[1]), u>>
    <3>1. y \in {z \in HORSE_MOVES[g] : B[z[1]] = EMPTY} BY <2>2, <2>3
    <3>2. y[2] = u OBVIOUS
    <3> HIDE DEF y
    <3>3. QED BY <2>4, <3>1, <3>2
  <2>6. QED BY <2>5 DEF B, g, u
<1>7. CASE b[f].type = ELEPHANT
  <2>1. PICK x \in ELEPHANT_MOVES[f] : b[x[1]] = EMPTY /\ b[x[2]] = EMPTY /\ t = x[3]
    BY <1>7 DEF Reach
  <2>2. /\ x[1] \in Squares /\ x[2] \in Squares
        /\ <<MirrorSquare(x[1]), MirrorSquare(x[2]), u>> \in ELEPHANT_MOVES[g]
    BY <2>1, MirrorLegs DEF g, u
  <2>3. B[MirrorSquare(x[1])] = EMPTY /\ B[MirrorSquare(x[2])] = EMPTY BY <1>2, <2>1, <2>2
  <2>4. Reach(g, B) = {y[3] : y \in {z \in ELEPHANT_MOVES[g] : B[z[1]] = EMPTY /\ B[z[2]] = EMPTY}}
    BY <1>3, <1>7 DEF Reach
  <2>5. u \in Reach(g, B)
    <3> DEFINE y == <<MirrorSquare(x[1]), MirrorSquare(x[2]), u>>
    <3>1. y \in {z \in ELEPHANT_MOVES[g] : B[z[1]] = EMPTY /\ B[z[2]] = EMPTY} BY <2>2, <2>3
    <3>2. y[3] = u OBVIOUS
    <3> HIDE DEF y
    <3>3. QED BY <2>4, <3>1, <3>2
  <2>6. QED BY <2>5 DEF B, g, u
<1>8. CASE b[f].type = PAWN
  <2>1. b[f].color \in Sides BY DEF Piece
  <2>2. B[g].color = Other(b[f].color) BY <1>2, <2>1
  <2>3. t \in PAWN_MOVES[b[f].color][f] BY <1>8 DEF Reach
  <2>4. u \in PAWN_MOVES[B[g].color][g] BY <2>1, <2>2, <2>3, MirrorSteps DEF g, u
  <2>5. u \in Reach(g, B) BY <1>3, <1>8, <2>4 DEF Reach
  <2>6. QED BY <2>5 DEF B, g, u
<1>9. CASE b[f].type \in {KING, GUARD}
  <2>1. t \in PALACE_STEPS[f] BY <1>9 DEF Reach
  <2>2. u \in PALACE_STEPS[g] BY <2>1, MirrorSteps DEF g, u
  <2>3. u \in Reach(g, B) BY <1>3, <1>9, <2>2 DEF Reach
  <2>4. QED BY <2>3 DEF B, g, u
<1>10. QED BY <1>4, <1>5, <1>6, <1>7, <1>8, <1>9 DEF Piece

\* Its own men and what they reach, on both boards, one way.
LEMMA MirrorOwn ==
  ASSUME NEW b \in Board, NEW c \in Sides, NEW f \in Own(b, c)
  PROVE  /\ MirrorSquare(f) \in Own(MirrorBoard(b), Other(c))
         /\ \A t \in Squares : t \in Reach(f, b) =>
              MirrorSquare(t) \in Reach(MirrorSquare(f), MirrorBoard(b))
PROOF
<1>1. f \in Squares /\ b[f].color = c BY DEF Own
<1>2. b[f] \in Piece
  <2>1. b[f] \in Piece \union {EMPTY} BY <1>1 DEF Board
  <2>2. EMPTY.color # c BY DEF EMPTY
  <2>3. QED BY <1>1, <2>1, <2>2
<1>3. MirrorSquare(f) \in Squares BY <1>1, PlaneFacts, MirrorFacts
<1>4. MirrorBoard(b)[MirrorSquare(f)].color = Other(c) BY <1>1, MirrorBoardFacts
<1>5. QED BY <1>1, <1>2, <1>3, <1>4, MirrorReach DEF Own

\* Moves, one way.
LEMMA MirrorMove ==
  ASSUME NEW b \in Board, NEW c \in Sides, NEW m \in PseudoMoves(b, c)
  PROVE  /\ m = <<m[1], m[2]>> /\ m[1] \in Squares /\ m[2] \in Squares
         /\ <<MirrorSquare(m[1]), MirrorSquare(m[2])>> \in PseudoMoves(MirrorBoard(b), Other(c))
PROOF
<1>1. PICK f \in Own(b, c) :
        m \in {<<f, t>> : t \in {u \in Reach(f, b) \cap Squares : b[u].color # c}}
  BY DEF PseudoMoves
<1>2. PICK t \in Reach(f, b) \cap Squares : m = <<f, t>> /\ b[t].color # c BY <1>1
<1>3. f \in Squares /\ t \in Squares BY <1>1, <1>2 DEF Own
<1>4. MirrorSquare(t) \in Squares BY <1>3, PlaneFacts, MirrorFacts
<1>5. MirrorBoard(b)[MirrorSquare(t)].color # Other(c) BY <1>2, <1>3, MirrorBoardFacts
<1>6. /\ MirrorSquare(f) \in Own(MirrorBoard(b), Other(c))
      /\ MirrorSquare(t) \in Reach(MirrorSquare(f), MirrorBoard(b))
  BY <1>1, <1>2, <1>3, MirrorOwn
<1>7. <<MirrorSquare(f), MirrorSquare(t)>> \in PseudoMoves(MirrorBoard(b), Other(c))
  BY <1>4, <1>5, <1>6 DEF PseudoMoves
<1>8. m[1] = f /\ m[2] = t BY <1>2
<1>9. QED BY <1>2, <1>3, <1>7, <1>8

\* Attacks, one way.
LEMMA MirrorAttack ==
  ASSUME NEW b \in Board, NEW c \in Sides, NEW t \in Squares, AttackedBy(b, t, c)
  PROVE  AttackedBy(MirrorBoard(b), MirrorSquare(t), Other(c))
PROOF
<1>1. PICK f \in Own(b, c) : t \in Reach(f, b) BY AttackIsReach
<1>2. /\ MirrorSquare(f) \in Own(MirrorBoard(b), Other(c))
      /\ MirrorSquare(t) \in Reach(MirrorSquare(f), MirrorBoard(b))
  BY <1>1, MirrorOwn
<1>3. Other(c) \in Sides BY DEF Other
<1>4. MirrorSquare(t) \in Squares BY PlaneFacts, MirrorFacts
<1>5. QED BY <1>2, <1>3, <1>4, AttackIsReach, MirrorBoardFacts

\* Cho and Han play by the same rules on every board a game can show (JanggiGame's
\* ColoursAreSymmetric, a part of TablesAgree).
THEOREM ColoursAreAlike == Spec => []ColoursAreSymmetric
PROOF
<1>1. Replayed => ColoursAreSymmetric
  <2> SUFFICES ASSUME Replayed PROVE ColoursAreSymmetric OBVIOUS
  <2> DEFINE b == pos.board
             B == MirrorBoard(b)
             image(m) == <<MirrorSquare(m[1]), MirrorSquare(m[2])>>
  <2>1. b \in Board /\ \A c \in Sides : pos.kings[c] \in Squares
    BY ReplayedIsGood DEF Good, WellFormed, Position
  <2>2. B \in Board /\ MirrorBoard(B) = b BY <2>1, MirrorBoardFacts
  <2>3. \A c \in Sides : Other(c) \in Sides /\ Other(Other(c)) = c BY DEF Other
  <2>4. \A s \in Squares : MirrorSquare(s) \in Squares /\ MirrorSquare(MirrorSquare(s)) = s
    BY PlaneFacts, MirrorFacts
  <2> HIDE DEF b, B
  <2>5. ASSUME NEW c \in Sides
        PROVE  PseudoMoves(B, Other(c)) = {image(m) : m \in PseudoMoves(b, c)}
    <3>1. ASSUME NEW m \in PseudoMoves(b, c) PROVE image(m) \in PseudoMoves(B, Other(c))
      BY <2>1, <3>1, MirrorMove DEF B
    <3>2. ASSUME NEW n \in PseudoMoves(B, Other(c))
          PROVE  \E m \in PseudoMoves(b, c) : n = image(m)
      <4>1. /\ n = <<n[1], n[2]>> /\ n[1] \in Squares /\ n[2] \in Squares
            /\ image(n) \in PseudoMoves(b, c)
        BY <2>2, <2>3, <3>2, MirrorMove
      <4>2. image(image(n)) = n
        <5>1. image(n)[1] = MirrorSquare(n[1]) /\ image(n)[2] = MirrorSquare(n[2]) OBVIOUS
        <5>2. QED BY <2>4, <4>1, <5>1
      <4> HIDE DEF image
      <4>3. QED BY <4>1, <4>2
    <3> HIDE DEF image
    <3>3. QED BY <3>1, <3>2
  <2>6. ASSUME NEW c \in Sides
        PROVE  AttackedBy(b, pos.kings[c], Other(c)) <=> AttackedBy(B, MirrorSquare(pos.kings[c]), c)
    <3> DEFINE k == pos.kings[c]
    <3>1. k \in Squares /\ MirrorSquare(k) \in Squares /\ MirrorSquare(MirrorSquare(k)) = k
      BY <2>1, <2>4
    <3> HIDE DEF k
    <3>2. AttackedBy(b, k, Other(c)) => AttackedBy(B, MirrorSquare(k), c)
      BY <2>1, <2>3, <3>1, MirrorAttack DEF B
    <3>3. AttackedBy(B, MirrorSquare(k), c) => AttackedBy(b, k, Other(c))
      BY <2>2, <3>1, MirrorAttack
    <3>4. QED BY <3>2, <3>3 DEF k
  <2>7. QED BY <2>5, <2>6 DEF ColoursAreSymmetric, b, B
<1>2. QED BY <1>1, AlwaysReplayed, PTL
-----------------------------------------------------------------------------
(* What the network sees: a position and its mirror image.                   *)

\* q shows p turned round, with the colours exchanged.
IsImage(p, q) ==
  /\ q.board = MirrorBoard(p.board) /\ q.side = Other(p.side)
  /\ q.kings = [c \in Sides |-> MirrorSquare(p.kings[Other(c)])]

ImageOfMove(m) == IF m = PASS_MOVE THEN PASS_MOVE ELSE <<MirrorSquare(m[1]), MirrorSquare(m[2])>>

\* Kings that face each other do so on the board turned round.
LEMMA MirrorFacing ==
  ASSUME NEW b \in Board, NEW kings \in [Sides -> Squares], KingsFace(b, kings)
  PROVE  KingsFace(MirrorBoard(b), [c \in Sides |-> MirrorSquare(kings[Other(c)])])
PROOF
<1> DEFINE ks == [c \in Sides |-> MirrorSquare(kings[Other(c)])]
           B == MirrorBoard(b)
<1>1. PICK x \in 0 .. 9, y \in 0 .. 8 : kings[0] = <<x, y>> BY SquareFacts
<1>2. PICK u \in 0 .. 9, v \in 0 .. 8 : kings[1] = <<u, v>> BY SquareFacts
<1>3. y = v /\ \A row \in u + 1 .. x - 1 : b[<<row, y>>] = EMPTY
  BY <1>1, <1>2 DEF KingsFace
<1>4. ks[0] = <<9 - u, v>> /\ ks[1] = <<9 - x, y>>
  BY <1>1, <1>2 DEF MirrorSquare, Other, ROWS
<1> HIDE DEF ks, B
<1>5. ASSUME NEW row \in (9 - x) + 1 .. (9 - u) - 1
      PROVE  B[<<row, v>>] = EMPTY
  <2> DEFINE s == <<9 - row, v>>
  <2>1. 9 - row \in u + 1 .. x - 1 /\ row \in Int BY <1>5
  <2>2. s \in Squares BY <2>1 DEF Squares, ROWS, COLS
  <2>3. b[s] = EMPTY BY <1>3, <2>1
  <2>4. MirrorSquare(s) = <<9 - (9 - row), v>> BY DEF MirrorSquare, ROWS
  <2>5. 9 - (9 - row) = row BY <2>1
  <2> HIDE DEF s
  <2>6. B[MirrorSquare(s)] = EMPTY BY <2>2, <2>3, MirrorBoardFacts DEF B
  <2>7. QED BY <2>4, <2>5, <2>6
<1>6. KingsFace(B, ks) BY <1>3, <1>4, <1>5 DEF KingsFace
<1>7. QED BY <1>6 DEF ks, B

\* Seen as an image, the position comes back.
LEMMA ImageBack ==
  ASSUME NEW p, NEW q, IsImage(p, q),
         p.board \in Board, p.side \in Sides, p.kings \in [Sides -> Squares]
  PROVE  /\ IsImage(q, p)
         /\ q.board \in Board /\ q.side \in Sides /\ q.kings \in [Sides -> Squares]
PROOF
<1>1. \A c \in Sides : Other(c) \in Sides /\ Other(Other(c)) = c BY DEF Other
<1>2. \A s \in Squares : MirrorSquare(s) \in Squares /\ MirrorSquare(MirrorSquare(s)) = s
  BY PlaneFacts, MirrorFacts
<1>3. q.board \in Board /\ MirrorBoard(q.board) = p.board BY MirrorBoardFacts DEF IsImage
<1>4. q.side \in Sides /\ Other(q.side) = p.side BY <1>1 DEF IsImage
<1>5. q.kings \in [Sides -> Squares] BY <1>1, <1>2 DEF IsImage
<1>6. \A c \in Sides : MirrorSquare(q.kings[Other(c)]) = p.kings[c]
  <2> TAKE c \in Sides
  <2>1. q.kings[Other(c)] = MirrorSquare(p.kings[c]) BY <1>1 DEF IsImage
  <2>2. p.kings[c] \in Squares OBVIOUS
  <2>3. QED BY <1>2, <2>1, <2>2
<1>7. p.kings = [c \in Sides |-> MirrorSquare(q.kings[Other(c)])] BY <1>6
<1>8. QED BY <1>3, <1>4, <1>5, <1>7 DEF IsImage

\* Checks, facing kings and bikjangs are the same in an image, one way and so both.
LEMMA ImageRules ==
  ASSUME NEW p, NEW q, IsImage(p, q),
         p.board \in Board, p.side \in Sides, p.kings \in [Sides -> Squares]
  PROVE  /\ \A c \in Sides : AttackedBy(q.board, q.kings[c], Other(c)) <=>
                               AttackedBy(p.board, p.kings[Other(c)], c)
         /\ InCheck(q) <=> InCheck(p)
         /\ KingsFacing(q) <=> KingsFacing(p)
         /\ Bikjang(q.board, q.kings, q.side) <=> Bikjang(p.board, p.kings, p.side)
PROOF
<1>1. /\ IsImage(q, p)
      /\ q.board \in Board /\ q.side \in Sides /\ q.kings \in [Sides -> Squares]
  BY ImageBack
<1>2. \A c \in Sides : Other(c) \in Sides /\ Other(Other(c)) = c BY DEF Other
<1>3. ASSUME NEW a, NEW z, IsImage(a, z),
             a.board \in Board, a.side \in Sides, a.kings \in [Sides -> Squares], NEW c \in Sides,
             AttackedBy(a.board, a.kings[Other(c)], c)
      PROVE  AttackedBy(z.board, z.kings[c], Other(c))
  <2>1. a.kings[Other(c)] \in Squares BY <1>2, <1>3
  <2>2. AttackedBy(MirrorBoard(a.board), MirrorSquare(a.kings[Other(c)]), Other(c))
    BY <1>3, <2>1, MirrorAttack
  <2>3. z.board = MirrorBoard(a.board) /\ z.kings[c] = MirrorSquare(a.kings[Other(c)])
    BY <1>3 DEF IsImage
  <2>4. QED BY <2>2, <2>3
<1>4. ASSUME NEW c \in Sides
      PROVE  AttackedBy(q.board, q.kings[c], Other(c)) <=> AttackedBy(p.board, p.kings[Other(c)], c)
  <2>1. AttackedBy(p.board, p.kings[Other(c)], c) => AttackedBy(q.board, q.kings[c], Other(c))
    BY <1>3
  <2>2. Other(c) \in Sides /\ Other(Other(c)) = c BY <1>2
  <2>3. AttackedBy(q.board, q.kings[Other(Other(c))], Other(c)) =>
          AttackedBy(p.board, p.kings[Other(c)], Other(Other(c)))
    BY <1>1, <1>3, <2>2
  <2>4. QED BY <2>1, <2>2, <2>3
<1>5. ASSUME NEW a, NEW z, IsImage(a, z),
             a.board \in Board, a.side \in Sides, a.kings \in [Sides -> Squares], KingsFacing(a)
      PROVE  KingsFacing(z)
  BY <1>5, MirrorFacing DEF KingsFacing, IsImage
<1>6. KingsFacing(q) <=> KingsFacing(p) BY <1>1, <1>5
<1>7. AttackedBy(q.board, q.kings[q.side], Other(q.side)) <=>
        AttackedBy(p.board, p.kings[p.side], Other(p.side))
  <2>1. q.side \in Sides /\ Other(q.side) = p.side /\ q.side = Other(p.side)
    BY <1>1, <1>2 DEF IsImage
  <2>2. QED BY <1>4, <2>1
<1>8. QED BY <1>4, <1>6, <1>7 DEF InCheck, KingsFacing, Bikjang
\* A move made on both boards leaves images of each other.
LEMMA ImageMove ==
  ASSUME NEW p, NEW q, IsImage(p, q),
         p.board \in Board, p.side \in Sides, p.kings \in [Sides -> Squares],
         NEW m, m = PASS_MOVE \/ (\E f, t \in Squares : m = <<f, t>> /\ f # t)
  PROVE  /\ IsImage(MakeMove(p, m), MakeMove(q, ImageOfMove(m)))
         /\ MakeMove(p, m).board \in Board /\ MakeMove(p, m).side \in Sides
         /\ MakeMove(p, m).kings \in [Sides -> Squares]
         /\ MakeMove(p, m).side = Other(p.side)
PROOF
<1> DEFINE a == MakeMove(p, m)
           z == MakeMove(q, ImageOfMove(m))
<1>1. \A c \in Sides : Other(c) \in Sides /\ Other(Other(c)) = c /\ Other(c) # c
      /\ \A d \in Sides : d # c => d = Other(c)
  BY DEF Other
<1>2. \A s \in Squares : MirrorSquare(s) \in Squares /\ MirrorSquare(MirrorSquare(s)) = s
  BY PlaneFacts, MirrorFacts
<1>3. /\ q.board = MirrorBoard(p.board) /\ q.side = Other(p.side)
      /\ q.kings = [c \in Sides |-> MirrorSquare(p.kings[Other(c)])]
  BY DEF IsImage
<1>4. a.side = Other(p.side) /\ z.side = Other(q.side) BY DEF MakeMove
<1>5. z.side = Other(a.side) /\ a.side \in Sides BY <1>1, <1>3, <1>4
<1>6. CASE m = PASS_MOVE
  <2>1. a.board = p.board /\ a.kings = p.kings /\ z.board = q.board /\ z.kings = q.kings
    BY <1>6 DEF MakeMove, ImageOfMove
  <2> HIDE DEF a, z
  <2>2. QED BY <1>3, <1>4, <1>5, <2>1 DEF IsImage, a, z
<1>7. ASSUME NEW f \in Squares, NEW t \in Squares, m = <<f, t>>, f # t
      PROVE  /\ IsImage(a, z) /\ a.board \in Board /\ a.kings \in [Sides -> Squares]
  <2> DEFINE g == MirrorSquare(f)
             u == MirrorSquare(t)
             n == <<g, u>>
  <2>1. m # PASS_MOVE /\ ImageOfMove(m) = n /\ n # PASS_MOVE
    BY <1>7 DEF ImageOfMove, PASS_MOVE
  <2>2. /\ a.board = [p.board EXCEPT ![t] = p.board[f], ![f] = EMPTY]
        /\ a.kings = IF p.board[f].type # KING THEN p.kings ELSE [p.kings EXCEPT ![p.side] = t]
    <3>1. m[1] = f /\ m[2] = t BY <1>7
    <3>2. QED BY <2>1, <3>1 DEF MakeMove
  <2>3. /\ z.board = [q.board EXCEPT ![u] = q.board[g], ![g] = EMPTY]
        /\ z.kings = IF q.board[g].type # KING THEN q.kings ELSE [q.kings EXCEPT ![q.side] = u]
    <3>1. n[1] = g /\ n[2] = u OBVIOUS
    <3> HIDE DEF n
    <3>2. QED BY <2>1, <3>1 DEF MakeMove
  <2> HIDE DEF a, z
  <2>4. g \in Squares /\ u \in Squares /\ MirrorSquare(g) = f /\ MirrorSquare(u) = t /\ g # u
    BY <1>2, <1>7
  <2> HIDE DEF g, u, n
  <2>5. a.board \in Board
    <3>1. p.board[f] \in Piece \union {EMPTY} BY DEF Board
    <3>2. QED BY <2>2, <3>1 DEF Board
  <2>6. a.kings \in [Sides -> Squares] BY <2>2
  <2>7. q.board \in Board BY <1>3, MirrorBoardFacts
  <2>8. \A s \in Squares : a.board[s] = IF s = f THEN EMPTY ELSE IF s = t THEN p.board[f] ELSE p.board[s]
    BY <1>7, <2>2 DEF Board
  <2>9. \A s \in Squares : z.board[s] = IF s = g THEN EMPTY ELSE IF s = u THEN q.board[g] ELSE q.board[s]
    BY <2>3, <2>4, <2>7 DEF Board
  <2> DEFINE Man(x) == IF x = EMPTY THEN EMPTY ELSE Of(Other(x.color), x.type)
  <2>10. ASSUME NEW b \in Board, NEW s \in Squares PROVE MirrorBoard(b)[s] = Man(b[MirrorSquare(s)])
    <3> DEFINE F == [v \in Squares |-> Man(b[MirrorSquare(v)])]
    <3>1. MirrorBoard(b) = Table(F) BY DEF MirrorBoard
    <3>2. F[s] = Man(b[MirrorSquare(s)]) OBVIOUS
    <3> HIDE DEF F, Man
    <3>3. QED BY <3>1, <3>2, TableIs
  <2>11. Man(EMPTY) = EMPTY OBVIOUS
  <2> HIDE DEF Man
  <2>12. ASSUME NEW s \in Squares PROVE z.board[s] = Man(a.board[MirrorSquare(s)])
    <3>1. MirrorSquare(s) \in Squares /\ (MirrorSquare(s) = f <=> s = g) /\ (MirrorSquare(s) = t <=> s = u)
      BY <1>2, <1>7, <2>4 DEF g, u
    <3>2. q.board[s] = Man(p.board[MirrorSquare(s)]) /\ q.board[g] = Man(p.board[f])
      BY <1>3, <2>4, <2>10
    <3>3. QED BY <2>8, <2>9, <2>11, <3>1, <3>2
  <2>13. z.board = MirrorBoard(a.board)
    <3>1. z.board \in [Squares -> {z.board[s] : s \in Squares}]
      BY <2>3, <2>7 DEF Board
    <3>2. MirrorBoard(a.board) \in Board BY <2>5, MirrorBoardFacts
    <3>3. \A s \in Squares : z.board[s] = MirrorBoard(a.board)[s] BY <2>5, <2>10, <2>12
    <3>4. QED BY <3>1, <3>2, <3>3 DEF Board
  <2>14. q.board[g].type = p.board[f].type BY <1>3, <1>7, MirrorBoardFacts DEF g
  <2>15. z.kings = [c \in Sides |-> MirrorSquare(a.kings[Other(c)])]
    <3>1. CASE p.board[f].type # KING BY <1>3, <2>2, <2>3, <2>14, <3>1
    <3>2. CASE p.board[f].type = KING
      <4>1. a.kings = [p.kings EXCEPT ![p.side] = t] /\ z.kings = [q.kings EXCEPT ![q.side] = u]
        BY <2>2, <2>3, <2>14, <3>2
      <4>2. \A c \in Sides : a.kings[Other(c)] = IF c = q.side THEN t ELSE p.kings[Other(c)]
        BY <1>1, <1>3, <4>1
      <4>3. \A c \in Sides : z.kings[c] = IF c = q.side THEN u ELSE MirrorSquare(p.kings[Other(c)])
        BY <1>1, <1>3, <4>1
      <4>4. \A c \in Sides : z.kings[c] = MirrorSquare(a.kings[Other(c)])
        BY <4>2, <4>3 DEF u
      <4>5. z.kings = [c \in Sides |-> z.kings[c]] BY <1>3, <4>1
      <4>6. QED BY <4>4, <4>5
    <3>3. QED BY <3>1, <3>2
  <2>16. QED BY <1>5, <2>5, <2>6, <2>13, <2>15 DEF IsImage
<1>8. QED BY <1>4, <1>5, <1>6, <1>7

\* The legal moves of an image are the images of the legal moves, one way.
LEMMA ImageLegal ==
  ASSUME NEW p, NEW q, IsImage(p, q), q.forced = p.forced, q.bikjang = p.bikjang,
         p.board \in Board, p.side \in Sides, p.kings \in [Sides -> Squares],
         NEW m \in LegalMoves(p)
  PROVE  ImageOfMove(m) \in LegalMoves(q)
PROOF
<1>1. InCheck(q) <=> InCheck(p) BY ImageRules
<1>2. MustResolveBikjang(q) <=> MustResolveBikjang(p) BY <1>1 DEF MustResolveBikjang
<1>3. CASE m = PASS_MOVE /\ ~InCheck(p) BY <1>1, <1>3 DEF LegalMoves, ImageOfMove
<1>4. CASE m \in PseudoMoves(p.board, p.side) /\ IsLegalAfterMake(p, m)
  <2> DEFINE n == ImageOfMove(m)
             a == MakeMove(p, m)
             z == MakeMove(q, n)
  <2>1. PICK f \in Squares, t \in Squares : m = <<f, t>> /\ f # t BY <1>4, PseudoMoveFacts
  <2>2. m # PASS_MOVE BY <2>1 DEF PASS_MOVE
  <2>3. n = <<MirrorSquare(m[1]), MirrorSquare(m[2])>> BY <2>2 DEF ImageOfMove
  <2>4. n \in PseudoMoves(q.board, q.side) BY <1>4, <2>3, MirrorMove DEF IsImage
  <2>5. /\ IsImage(a, z) /\ a.board \in Board /\ a.side \in Sides /\ a.kings \in [Sides -> Squares]
        /\ a.side = Other(p.side)
    BY <2>1, ImageMove
  <2>6. /\ IsImage(p, q) /\ Other(p.side) \in Sides /\ Other(Other(p.side)) = p.side
    BY DEF Other
  <2>7. z.side = p.side /\ q.side = Other(p.side) /\ a.side = Other(p.side)
    BY <2>5, <2>6 DEF IsImage
  <2>8. AttackedBy(z.board, z.kings[q.side], z.side) <=> AttackedBy(a.board, a.kings[p.side], a.side)
    <3>1. \A c \in Sides : AttackedBy(z.board, z.kings[c], Other(c)) <=>
                             AttackedBy(a.board, a.kings[Other(c)], c)
      BY <2>5, ImageRules
    <3> HIDE DEF a, z
    <3>2. QED BY <2>6, <2>7, <3>1
  <2>9. KingsFacing(z) <=> KingsFacing(a) BY <2>5, ImageRules
  <2>10. ~AttackedBy(a.board, a.kings[p.side], a.side) /\ (MustResolveBikjang(p) => ~KingsFacing(a))
    BY <1>4 DEF IsLegalAfterMake
  <2> HIDE DEF a
  <2>11. IsLegalAfterMake(q, n) BY <1>2, <2>8, <2>9, <2>10 DEF IsLegalAfterMake
  <2>12. QED BY <2>4, <2>11 DEF LegalMoves
<1>5. QED BY <1>3, <1>4 DEF LegalMoves
\* The index of a move names the move, and an image's move has the index of the
\* move it is the image of.
LEMMA PolicyFacts ==
  ASSUME NEW side \in Sides, NEW m, m = PASS_MOVE \/ (\E f, t \in Squares : m = <<f, t>>)
  PROVE  /\ PolicyIndexToMove(MoveToPolicyIndex(m, side), side) = m
         /\ MoveToPolicyIndex(ImageOfMove(m), Other(side)) = MoveToPolicyIndex(m, side)
PROOF
<1>1. NUM_SQUARES = 90 /\ PASS_INDEX = 8100
  BY DEF NUM_SQUARES, PASS_INDEX, POLICY_SIZE, ROWS, COLS
<1>2. \A s \in Squares : MirrorSquare(s) \in Squares /\ MirrorSquare(MirrorSquare(s)) = s
  BY PlaneFacts, MirrorFacts
<1>3. ASSUME NEW s \in Squares
      PROVE  /\ OrientedSquare(s, side) \in Squares
             /\ OrientedSquare(OrientedSquare(s, side), side) = s
             /\ OrientedSquare(MirrorSquare(s), Other(side)) = OrientedSquare(s, side)
  BY <1>2 DEF OrientedSquare, Other
<1>4. ASSUME NEW s \in Squares PROVE Number(s) \in 0 .. 89 /\ SquareOf(Number(s)) = s
  <2>1. PICK x \in 0 .. 9, y \in 0 .. 8 : s = <<x, y>> BY SquareFacts
  <2>2. Number(s) = 9 * x + y BY <2>1 DEF Number, COLS
  <2>3. (9 * x + y) \div 9 = x /\ (9 * x + y) % 9 = y OBVIOUS
  <2>4. 9 * x + y \in 0 .. 89 OBVIOUS
  <2>5. QED BY <2>1, <2>2, <2>3, <2>4 DEF SquareOf, COLS
<1>5. CASE m = PASS_MOVE BY <1>5 DEF MoveToPolicyIndex, PolicyIndexToMove, ImageOfMove
<1>6. ASSUME NEW f \in Squares, NEW t \in Squares, m = <<f, t>>
      PROVE  /\ PolicyIndexToMove(MoveToPolicyIndex(m, side), side) = m
             /\ MoveToPolicyIndex(ImageOfMove(m), Other(side)) = MoveToPolicyIndex(m, side)
  <2> DEFINE g == OrientedSquare(f, side)
             u == OrientedSquare(t, side)
  <2>1. m # PASS_MOVE /\ m[1] = f /\ m[2] = t BY <1>6 DEF PASS_MOVE
  <2>2. MoveToPolicyIndex(m, side) = Number(g) * 90 + Number(u)
    BY <1>1, <2>1 DEF MoveToPolicyIndex
  <2>3. MoveToPolicyIndex(ImageOfMove(m), Other(side)) = Number(g) * 90 + Number(u)
    <3> DEFINE n == <<MirrorSquare(f), MirrorSquare(t)>>
    <3>1. ImageOfMove(m) = n /\ n # PASS_MOVE BY <2>1 DEF ImageOfMove, PASS_MOVE
    <3>2. n[1] = MirrorSquare(f) /\ n[2] = MirrorSquare(t) OBVIOUS
    <3> HIDE DEF n
    <3>3. /\ OrientedSquare(n[1], Other(side)) = g /\ OrientedSquare(n[2], Other(side)) = u
      BY <1>3, <3>2
    <3>4. QED BY <1>1, <3>1, <3>3 DEF MoveToPolicyIndex
  <2>4. /\ g \in Squares /\ u \in Squares
        /\ OrientedSquare(g, side) = f /\ OrientedSquare(u, side) = t
    BY <1>3
  <2> HIDE DEF g, u
  <2>5. /\ Number(g) \in 0 .. 89 /\ Number(u) \in 0 .. 89
        /\ SquareOf(Number(g)) = g /\ SquareOf(Number(u)) = u
    BY <1>4, <2>4
  <2> DEFINE i == Number(g) * 90 + Number(u)
  <2>6. i # 8100 /\ i \div 90 = Number(g) /\ i % 90 = Number(u)
    <3>1. \A x, y \in 0 .. 89 : /\ x * 90 + y # 8100 /\ (x * 90 + y) \div 90 = x
                                /\ (x * 90 + y) % 90 = y
      OBVIOUS
    <3>2. QED BY <2>5, <3>1
  <2> HIDE DEF i
  <2>7. PolicyIndexToMove(i, side) = <<OrientedSquare(g, side), OrientedSquare(u, side)>>
    BY <1>1, <2>5, <2>6 DEF PolicyIndexToMove
  <2>8. QED BY <1>6, <2>2, <2>3, <2>4, <2>7 DEF i
<1>7. QED BY <1>5, <1>6

\* The image the network is shown: Mirrored's records.
LEMMA MirroredIsImage ==
  ASSUME NEW p, Good(p)
  PROVE  /\ IsImage(p, Mirrored(p)) /\ Mirrored(p).passes = p.passes
         /\ Mirrored(p).forced = p.forced
         /\ Mirrored(p).bikjang = p.bikjang
PROOF
<1> DEFINE B == MirrorBoard(p.board)
           side == Other(p.side)
           kings == [c \in Sides |-> KingSquare(B, c)]
           u == Setup(B, side, 0, p.forced)
           k == [u EXCEPT !.passes = p.passes]
<1>1. /\ p.board \in Board /\ p.side \in Sides /\ p.kings \in [Sides -> Squares]
      /\ KingsKnown(p) /\ KingsStand(p) /\ p.bikjang = Bikjang(p.board, p.kings, p.side)
  BY DEF Good, WellFormed, Position, BikjangSound
<1>2. \A c \in Sides : Other(c) \in Sides /\ Other(Other(c)) = c BY DEF Other
<1>3. \A s \in Squares : MirrorSquare(s) \in Squares /\ MirrorSquare(MirrorSquare(s)) = s
  BY PlaneFacts, MirrorFacts
<1>4. B \in Board BY <1>1, MirrorBoardFacts
<1> HIDE DEF B, side
<1>5. ASSUME NEW c \in Sides, NEW s \in Squares
      PROVE  B[MirrorSquare(s)] = Of(c, KING) <=> p.board[s] = Of(Other(c), KING)
  <2> DEFINE x == B[MirrorSquare(s)]
  <2>1. MirrorSquare(s) \in Squares BY <1>3
  <2>2. x \in Piece \union {EMPTY} /\ p.board[s] \in Piece \union {EMPTY} BY <1>1, <1>4, <2>1 DEF Board
  <2>3. x.type = p.board[s].type /\ (x = EMPTY <=> p.board[s] = EMPTY)
    BY <1>1, MirrorBoardFacts DEF B
  <2>4. x.color = c <=> p.board[s].color = Other(c)
    <3>1. Other(c) \in Sides /\ Other(Other(c)) = c BY <1>2
    <3>2. \A d \in Sides : x.color = Other(d) <=> p.board[s].color = d
      BY <1>1, MirrorBoardFacts DEF B
    <3>3. QED BY <3>1, <3>2
  <2> HIDE DEF x
  <2>5. \A y \in Piece \union {EMPTY} : \A d \in Sides : y = Of(d, KING) <=> y.color = d /\ y.type = KING
    BY DEF Piece, EMPTY, Of
  <2>6. x = Of(c, KING) <=> x.color = c /\ x.type = KING BY <2>2, <2>5
  <2>7. p.board[s] = Of(Other(c), KING) <=> p.board[s].color = Other(c) /\ p.board[s].type = KING
    BY <1>2, <2>2, <2>5
  <2>8. QED BY <2>3, <2>4, <2>6, <2>7 DEF x
<1>6. ASSUME NEW c \in Sides PROVE KingSquare(B, c) = MirrorSquare(p.kings[Other(c)])
  <2> DEFINE h == p.kings[Other(c)]
  <2>1. h \in Squares /\ p.board[h] = Of(Other(c), KING) BY <1>1, <1>2 DEF KingsStand
  <2>2. MirrorSquare(h) \in Squares /\ B[MirrorSquare(h)] = Of(c, KING) BY <1>3, <1>5, <2>1
  <2>3. \A s \in Squares : B[s] = Of(c, KING) => s = MirrorSquare(h)
    <3> TAKE s \in Squares
    <3> HAVE B[s] = Of(c, KING)
    <3>1. MirrorSquare(s) \in Squares /\ MirrorSquare(MirrorSquare(s)) = s BY <1>3
    <3>2. p.board[MirrorSquare(s)] = Of(Other(c), KING) BY <1>5, <3>1
    <3>3. MirrorSquare(s) = h BY <1>1, <1>2, <3>1, <3>2 DEF KingsKnown
    <3>4. QED BY <3>1, <3>3
  <2> HIDE DEF h
  <2>4. QED BY <2>2, <2>3 DEF KingSquare, h
<1>7. kings = [c \in Sides |-> MirrorSquare(p.kings[Other(c)])] BY <1>6
<1>8. u = [board |-> B, side |-> side, kings |-> kings, passes |-> 0,
           bikjang |-> Bikjang(B, kings, side), ply |-> 0,
           history |-> << <<B, side>> >>, stack |-> <<>>, irrev |-> 1, forced |-> p.forced]
  BY DEF Setup
<1>9. Mirrored(p) = k BY DEF Mirrored, B, side
<1> HIDE DEF u, kings
<1>10. /\ k.board = B /\ k.side = side /\ k.kings = kings /\ k.passes = p.passes
       /\ k.forced = p.forced /\ k.bikjang = Bikjang(B, kings, side)
  BY <1>8
<1> HIDE DEF k
<1>11. IsImage(p, k) BY <1>7, <1>10 DEF IsImage, B, side
<1>12. Bikjang(k.board, k.kings, k.side) <=> Bikjang(p.board, p.kings, p.side)
  BY <1>1, <1>11, ImageRules
<1>13. Bikjang(k.board, k.kings, k.side) \in BOOLEAN /\ Bikjang(p.board, p.kings, p.side) \in BOOLEAN
  BY DEF Bikjang, KingsFace
<1>14. k.bikjang = p.bikjang BY <1>1, <1>10, <1>12, <1>13
<1>15. QED BY <1>9, <1>10, <1>11, <1>14

\* The network sees a position and its image alike, and the mask of the image
\* names the legal moves (JanggiGame's NetworkAgrees, a part of TablesAgree).
THEOREM NetworkSeesImage == Spec => []NetworkAgrees
PROOF
<1>1. Replayed => NetworkAgrees
  <2> SUFFICES ASSUME Replayed PROVE NetworkAgrees OBVIOUS
  <2> DEFINE p == pos
             q == Mirrored(pos)
  <2>1. Good(p) BY ReplayedIsGood
  <2>2. /\ IsImage(p, q) /\ q.passes = p.passes /\ q.forced = p.forced /\ q.bikjang = p.bikjang
    BY <2>1, MirroredIsImage
  <2>3. p.board \in Board /\ p.side \in Sides /\ p.kings \in [Sides -> Squares] /\ p \in Position
    BY <2>1 DEF Good, WellFormed, Position
  <2> HIDE DEF p, q
  <2>4. /\ IsImage(q, p) /\ q.board \in Board /\ q.side \in Sides /\ q.kings \in [Sides -> Squares]
    BY <2>2, <2>3, ImageBack
  <2>5. \A c \in Sides : Other(c) \in Sides /\ Other(Other(c)) = c BY DEF Other
  <2>6. \A s \in Squares : MirrorSquare(s) \in Squares /\ MirrorSquare(MirrorSquare(s)) = s
    BY PlaneFacts, MirrorFacts
  <2>7. ASSUME NEW a, NEW z, IsImage(a, z), a.board \in Board, a.side \in Sides,
               NEW x \in EncodePosition(a).men
        PROVE  x \in EncodePosition(z).men
    <3> DEFINE man(y, s) == [own |-> y.board[s].color = y.side, type |-> y.board[s].type,
                             at |-> OrientedSquare(s, y.side)]
    <3>1. EncodePosition(a).men = {man(a, s) : s \in {t \in Squares : a.board[t] # EMPTY}}
      BY DEF EncodePosition
    <3>2. EncodePosition(z).men = {man(z, s) : s \in {t \in Squares : z.board[t] # EMPTY}}
      BY DEF EncodePosition
    <3>3. PICK s \in Squares : a.board[s] # EMPTY /\ x = man(a, s) BY <2>7, <3>1
    <3>4. z.board = MirrorBoard(a.board) /\ z.side = Other(a.side) BY <2>7 DEF IsImage
    <3>5. /\ MirrorSquare(s) \in Squares /\ z.board[MirrorSquare(s)] # EMPTY
          /\ z.board[MirrorSquare(s)].type = a.board[s].type
          /\ (z.board[MirrorSquare(s)].color = z.side <=> a.board[s].color = a.side)
      BY <2>6, <2>7, <3>3, <3>4, MirrorBoardFacts
    <3>6. OrientedSquare(MirrorSquare(s), z.side) = OrientedSquare(s, a.side)
      BY <2>6, <2>7, <3>4 DEF OrientedSquare, Other
    <3>7. man(z, MirrorSquare(s)) = man(a, s)
      <4>1. (z.board[MirrorSquare(s)].color = z.side) = (a.board[s].color = a.side) BY <3>5
      <4>2. QED BY <3>5, <3>6, <4>1
    <3> HIDE DEF man
    <3>8. QED BY <3>2, <3>3, <3>5, <3>7
  <2>8. EncodePosition(p).men = EncodePosition(q).men
    <3> DEFINE M == EncodePosition(p).men
               N == EncodePosition(q).men
    <3>1. \A x \in M : x \in N BY <2>2, <2>3, <2>7
    <3>2. \A x \in N : x \in M BY <2>4, <2>7
    <3> HIDE DEF M, N
    <3>3. M = N BY <3>1, <3>2
    <3>4. QED BY <3>3 DEF M, N
  <2>9. InCheck(p) = InCheck(q)
    <3>1. InCheck(q) <=> InCheck(p) BY <2>2, <2>3, ImageRules
    <3>2. InCheck(p) \in BOOLEAN /\ InCheck(q) \in BOOLEAN BY DEF InCheck, AttackedBy
    <3>3. QED BY <3>1, <3>2
  <2> DEFINE seen(y) == [EncodePosition(y) EXCEPT !.repetition = 0, !.side = TRUE]
  <2>10. \A y : seen(y) = [men |-> EncodePosition(y).men, in_check |-> InCheck(y), bikjang |-> y.bikjang,
                           passes |-> Min({y.passes, 2}), repetition |-> 0, side |-> TRUE]
    <3> TAKE y
    <3> DEFINE e == [men |-> EncodePosition(y).men, in_check |-> InCheck(y), bikjang |-> y.bikjang,
                     passes |-> Min({y.passes, 2}),
                     repetition |-> Max({0, Min({RepetitionCount(y) - 1, 2})}), side |-> y.side = CHO]
    <3>1. EncodePosition(y) = e BY Zenon DEF EncodePosition
    <3>2. seen(y) = [e EXCEPT !.repetition = 0, !.side = TRUE] BY <3>1
    <3> HIDE DEF seen
    <3>3. QED BY <3>2
  <2> HIDE DEF seen
  <2>11. seen(p) = seen(q) BY <2>2, <2>8, <2>9, <2>10
  <2>12. \A m \in LegalMoves(p) : m = PASS_MOVE \/ (\E f, t \in Squares : m = <<f, t>>)
    BY <2>3, LegalMoveFacts
  <2>13. \A m \in LegalMoves(p) : ImageOfMove(m) \in LegalMoves(q)
    BY <2>2, <2>3, ImageLegal
  <2>14. \A n \in LegalMoves(q) : ImageOfMove(n) \in LegalMoves(p)
    BY <2>2, <2>4, ImageLegal
  <2>15. \A n \in LegalMoves(q) : (n = PASS_MOVE \/ \E f, t \in Squares : n = <<f, t>>)
    <3> TAKE n \in LegalMoves(q)
    <3>1. n = PASS_MOVE \/ n \in PseudoMoves(q.board, q.side) BY DEF LegalMoves
    <3>2. QED BY <2>4, <3>1, PseudoMoveFacts
  <2>16. \A n \in LegalMoves(q) : n = ImageOfMove(ImageOfMove(n))
    <3> SUFFICES ASSUME NEW f \in Squares, NEW t \in Squares
                 PROVE  ImageOfMove(ImageOfMove(<<f, t>>)) = <<f, t>>
      <4>1. ImageOfMove(ImageOfMove(PASS_MOVE)) = PASS_MOVE BY DEF ImageOfMove
      <4>2. QED BY <2>15, <4>1
    <3> DEFINE g == MirrorSquare(f)
               u == MirrorSquare(t)
    <3>1. \A x, y : <<x, y>> # PASS_MOVE /\ <<x, y>>[1] = x /\ <<x, y>>[2] = y BY DEF PASS_MOVE
    <3>2. ImageOfMove(<<f, t>>) = <<g, u>> BY <3>1, Zenon DEF ImageOfMove
    <3>3. ImageOfMove(<<g, u>>) = <<MirrorSquare(g), MirrorSquare(u)>> BY <3>1, Zenon DEF ImageOfMove
    <3>4. QED BY <2>6, <3>2, <3>3
  <2>17. q.side = Other(p.side) BY <2>2 DEF IsImage
  <2>18. \A m \in LegalMoves(p) : /\ MoveToPolicyIndex(ImageOfMove(m), q.side) = MoveToPolicyIndex(m, p.side)
                                  /\ PolicyIndexToMove(MoveToPolicyIndex(m, p.side), p.side) = m
    BY <2>3, <2>12, <2>17, PolicyFacts
  <2>19. LegalMoves(p) = {PolicyIndexToMove(i, p.side) : i \in LegalPolicyMask(q)}
    <3>1. ASSUME NEW m \in LegalMoves(p)
          PROVE  \E i \in LegalPolicyMask(q) : m = PolicyIndexToMove(i, p.side)
      BY <2>13, <2>18 DEF LegalPolicyMask
    <3>2. ASSUME NEW i \in LegalPolicyMask(q) PROVE PolicyIndexToMove(i, p.side) \in LegalMoves(p)
      <4>1. PICK n \in LegalMoves(q) : i = MoveToPolicyIndex(n, q.side) BY DEF LegalPolicyMask
      <4>2. ImageOfMove(n) \in LegalMoves(p) /\ n = ImageOfMove(ImageOfMove(n)) BY <2>14, <2>16
      <4>3. QED BY <2>18, <4>1, <4>2
    <3>3. QED BY <3>1, <3>2
  <2>20. QED BY <2>11, <2>19 DEF NetworkAgrees, p, q, seen
<1>2. QED BY <1>1, AlwaysReplayed, PTL
-----------------------------------------------------------------------------
(* Induction over numbers and finite sets.  What is proved of every number is *)
(* given as the set of the numbers that have it: so the facts are first-order. *)

\* A set of naturals has a least one.
LEMMA LeastNumber ==
  ASSUME NEW T, T \subseteq Nat, T # {}
  PROVE  \E n \in T : \A m \in T : n <= m
PROOF
<1>1. IsWellFoundedOn(OpToRel(<, Nat), Nat) BY NatLessThanWellFounded
<1>2. PICK n \in T : \A m \in T : <<m, n>> \notin OpToRel(<, Nat) BY <1>1, WFMin
<1>3. \A m \in T : ~(m < n) BY <1>2, Zenon DEF OpToRel
<1>4. QED BY <1>3

\* Zero and the successor of each: all naturals.
LEMMA NumbersByInduction ==
  ASSUME NEW T, 0 \in T, \A n \in Nat : n \in T => n + 1 \in T
  PROVE  \A n \in Nat : n \in T
PROOF
<1> DEFINE U == {n \in Nat : n \notin T}
<1>1. U = {}
  <2> SUFFICES ASSUME U # {} PROVE FALSE OBVIOUS
  <2>1. U \subseteq Nat OBVIOUS
  <2> HIDE DEF U
  <2>2. PICK n \in U : \A m \in U : n <= m BY <2>1, LeastNumber
  <2>3. n \in Nat /\ n \notin T BY <2>2 DEF U
  <2>4. n # 0 BY <2>3
  <2>5. n - 1 \in Nat /\ n = (n - 1) + 1 BY <2>3, <2>4
  <2>6. n - 1 \in T
    <3>1. ~(n <= n - 1) BY <2>3
    <3>2. n - 1 \notin U BY <2>2, <3>1
    <3>3. QED BY <2>5, <3>2 DEF U
  <2>7. QED BY <2>3, <2>5, <2>6
<1>2. QED BY <1>1

\* The empty set and one element more: all subsets of a finite set.
LEMMA SubsetsByInduction ==
  ASSUME NEW S, IsFiniteSet(S), NEW T,
         {} \in T, \A s \in SUBSET S : \A x \in S \ s : s \in T => s \union {x} \in T
  PROVE  \A s \in SUBSET S : s \in T
PROOF
<1> DEFINE N == {n \in Nat : \A s \in SUBSET S : Cardinality(s) = n => s \in T}
<1>1. \A s \in SUBSET S : IsFiniteSet(s) /\ Cardinality(s) \in Nat BY FS_Subset, FS_CardinalityType
<1>2. 0 \in N
  <2>1. \A s \in SUBSET S : Cardinality(s) = 0 => s = {} BY <1>1, FS_EmptySet
  <2>2. QED BY <2>1
<1>3. ASSUME NEW n \in Nat, n \in N
      PROVE  n + 1 \in N
  <2> SUFFICES ASSUME NEW s \in SUBSET S, Cardinality(s) = n + 1 PROVE s \in T
    OBVIOUS
  <2>1. s # {} BY <1>1, FS_EmptySet
  <2>2. PICK x \in s : TRUE BY <2>1
  <2> DEFINE u == s \ {x}
  <2>3. Cardinality(u) = n
    <3>1. IsFiniteSet(s) BY <1>1
    <3>2. Cardinality(u) = Cardinality(s) - 1 BY <3>1, FS_RemoveElement
    <3>3. QED BY <3>2
  <2>4. u \in SUBSET S /\ x \in S \ u /\ u \union {x} = s OBVIOUS
  <2>5. u \in T BY <1>3, <2>3, <2>4
  <2> HIDE DEF u
  <2>6. QED BY <2>4, <2>5
<1> HIDE DEF N
<1>4. \A n \in Nat : n \in N BY <1>2, <1>3, NumbersByInduction
<1>5. QED BY <1>1, <1>4 DEF N

\* A finite set of numbers that is not empty has a largest and a smallest.
LEMMA MaxMin ==
  ASSUME NEW K, IsFiniteSet(K), K \subseteq Int, K # {}
  PROVE  /\ Max(K) \in K /\ \A y \in K : y <= Max(K)
         /\ Min(K) \in K /\ \A y \in K : Min(K) <= y
PROOF
<1> DEFINE T == {s \in SUBSET K : s # {} => /\ \E x \in s : \A y \in s : x >= y
                                            /\ \E x \in s : \A y \in s : x =< y}
<1>1. {} \in T OBVIOUS
<1>2. ASSUME NEW s \in SUBSET K, NEW x \in K \ s, s \in T
      PROVE  s \union {x} \in T
  <2>1. CASE s = {}
    <3>1. s \union {x} = {x} /\ x \in Int BY <2>1
    <3>2. QED BY <3>1
  <2>2. CASE s # {}
    <3>1. PICK h \in s : \A y \in s : h >= y BY <1>2, <2>2
    <3>2. PICK l \in s : \A y \in s : l =< y BY <1>2, <2>2
    <3>3. h \in Int /\ l \in Int /\ x \in Int /\ \A y \in s : y \in Int OBVIOUS
    <3>4. \E z \in s \union {x} : \A y \in s \union {x} : z >= y
      <4>1. CASE h >= x BY <3>1, <3>3, <4>1
      <4>2. CASE ~(h >= x)
        <5>1. \A y \in s \union {x} : x >= y BY <3>1, <3>3, <4>2
        <5>2. QED BY <5>1
      <4>3. QED BY <4>1, <4>2
    <3>5. \E z \in s \union {x} : \A y \in s \union {x} : z =< y
      <4>1. CASE l =< x BY <3>2, <3>3, <4>1
      <4>2. CASE ~(l =< x)
        <5>1. \A y \in s \union {x} : x =< y BY <3>2, <3>3, <4>2
        <5>2. QED BY <5>1
      <4>3. QED BY <4>1, <4>2
    <3>6. QED BY <3>4, <3>5
  <2>3. QED BY <2>1, <2>2
<1>3. K \in T
  <2> HIDE DEF T
  <2>1. \A s \in SUBSET K : s \in T BY <1>1, <1>2, SubsetsByInduction
  <2>2. QED BY <2>1
<1>4. (\E x \in K : \A y \in K : x >= y) /\ (\E x \in K : \A y \in K : x =< y) BY <1>3
<1>5. Max(K) \in K /\ \A y \in K : Max(K) >= y BY <1>4, Zenon DEF Max
<1>6. Min(K) \in K /\ \A y \in K : Min(K) =< y BY <1>4, Zenon DEF Min
<1>7. QED BY <1>5, <1>6
\* Of the subsets of a finite set that have something, one has it alone of what is
\* left when an element is taken from it.
LEMMA SmallestSubset ==
  ASSUME NEW S, IsFiniteSet(S), NEW T, T \subseteq SUBSET S, T # {}
  PROVE  \E u \in T : \A x \in u : u \ {x} \notin T
PROOF
<1> DEFINE N == {Cardinality(s) : s \in T}
<1>1. \A s \in T : IsFiniteSet(s) /\ Cardinality(s) \in Nat BY FS_Subset, FS_CardinalityType
<1>2. N \subseteq Nat /\ N # {} BY <1>1
<1>3. PICK n \in N : \A m \in N : n <= m
  <2> HIDE DEF N
  <2>1. QED BY <1>2, LeastNumber
<1>4. PICK u \in T : Cardinality(u) = n BY <1>3
<1>5. ASSUME NEW x \in u PROVE u \ {x} \notin T
  <2>1. IsFiniteSet(u) /\ n \in Nat BY <1>1, <1>4
  <2>2. Cardinality(u \ {x}) = n - 1 BY <1>4, <1>5, <2>1, FS_RemoveElement
  <2>3. ~(n <= n - 1) BY <2>1
  <2>4. u \ {x} \in T => n - 1 \in N BY <2>2
  <2>5. QED BY <1>3, <2>3, <2>4
<1>6. QED BY <1>4, <1>5

-----------------------------------------------------------------------------
(* Sums over finite sets: what MapThenSumSet adds up, for a function g.       *)

Total(g, S) == MapThenSumSet(LAMBDA s : g[s], S)
First(s) == CHOOSE x \in s : TRUE
SumsUp(it, g, S) ==
  it = [s \in SUBSET S |-> IF s = {} THEN 0 ELSE g[First(s)] + it[s \ {First(s)}]]
Numbers(g, S) == IsFiniteSet(S) /\ \A s \in S : g[s] \in Int

\* The recursive function of a sum.
LEMMA TotalIs ==
  ASSUME NEW g, NEW S
  PROVE  Total(g, S) = (CHOOSE it : SumsUp(it, g, S))[S]
BY DEF Total, MapThenSumSet, MapThenFoldSet, SumsUp, First

\* Such a function exists: for the sets of at most n elements, whatever n is.
LEMMA SumExists ==
  ASSUME NEW g, NEW S, Numbers(g, S)
  PROVE  \E it : SumsUp(it, g, S)
PROOF
<1> DEFINE Upto(n) == {s \in SUBSET S : Cardinality(s) <= n}
           step(h, s) == IF s = {} THEN 0 ELSE g[First(s)] + h[s \ {First(s)}]
           N == {n \in Nat : \E h : h = [s \in Upto(n) |-> step(h, s)]}
<1>1. \A s \in SUBSET S : IsFiniteSet(s) /\ Cardinality(s) \in Nat
  BY FS_Subset, FS_CardinalityType DEF Numbers
<1>2. \A s \in SUBSET S : Cardinality(s) = 0 <=> s = {} BY <1>1, FS_EmptySet
<1>3. ASSUME NEW s \in SUBSET S, s # {}
      PROVE  /\ First(s) \in s /\ s \ {First(s)} \in SUBSET S
             /\ Cardinality(s \ {First(s)}) = Cardinality(s) - 1
  BY <1>1, <1>3, FS_RemoveElement DEF First
<1>4. 0 \in N
  <2> DEFINE h == [s \in Upto(0) |-> 0]
  <2>1. \A s \in Upto(0) : s = {} BY <1>1, <1>2
  <2>2. h = [s \in Upto(0) |-> step(h, s)] BY <2>1
  <2>3. QED BY <2>2
<1>5. ASSUME NEW n \in Nat, n \in N
      PROVE  n + 1 \in N
  <2>1. PICK h : h = [s \in Upto(n) |-> step(h, s)] BY <1>5
  <2> DEFINE k == [s \in Upto(n + 1) |-> IF s \in Upto(n) THEN h[s] ELSE step(h, s)]
  <2>2. \A s \in Upto(n + 1) : s # {} => s \ {First(s)} \in Upto(n) /\ s \ {First(s)} \in Upto(n + 1)
    BY <1>1, <1>3
  <2>3. \A s \in Upto(n) : h[s] = step(h, s) BY <2>1
  <2>4. \A s \in Upto(n + 1) : k[s] = step(h, s)
    <3> HIDE DEF step, Upto
    <3>1. QED BY <2>3
  <2>5. \A s \in Upto(n) : s \in Upto(n + 1) BY <1>1
  <2>6. \A s \in Upto(n) : k[s] = h[s] BY <2>5
  <2>7. \A s \in Upto(n + 1) : step(k, s) = step(h, s) BY <2>2, <2>6
  <2>8. \A s \in Upto(n + 1) : k[s] = step(k, s) BY <2>4, <2>7
  <2>9. k = [s \in Upto(n + 1) |-> k[s]] OBVIOUS
  <2> HIDE DEF k, step, Upto
  <2>10. k = [s \in Upto(n + 1) |-> step(k, s)] BY <2>8, <2>9
  <2>11. QED BY <2>10
<1>6. Cardinality(S) \in N
  <2> HIDE DEF N
  <2>1. \A n \in Nat : n \in N BY <1>4, <1>5, NumbersByInduction
  <2>2. QED BY <1>1, <2>1
<1>7. Upto(Cardinality(S)) = SUBSET S BY FS_Subset DEF Numbers
<1> HIDE DEF Upto
<1>8. QED BY <1>6, <1>7 DEF SumsUp

\* It has the sum of each subset, and the sum is a number.
LEMMA SumAt ==
  ASSUME NEW g, NEW S, Numbers(g, S), NEW it, SumsUp(it, g, S), NEW s \in SUBSET S
  PROVE  it[s] = Total(g, s) /\ it[s] \in Int
PROOF
<1>1. Numbers(g, s) BY FS_Subset DEF Numbers
<1> DEFINE h == CHOOSE h : SumsUp(h, g, s)
<1>2. SumsUp(h, g, s) BY <1>1, SumExists
<1>3. Total(g, s) = h[s] BY TotalIs
<1> HIDE DEF h
<1>4. \A u \in SUBSET s : /\ it[u] = IF u = {} THEN 0 ELSE g[First(u)] + it[u \ {First(u)}]
                          /\ h[u] = IF u = {} THEN 0 ELSE g[First(u)] + h[u \ {First(u)}]
  <2>1. \A u \in SUBSET S : it[u] = IF u = {} THEN 0 ELSE g[First(u)] + it[u \ {First(u)}]
    BY Zenon DEF SumsUp
  <2>2. \A u \in SUBSET s : h[u] = IF u = {} THEN 0 ELSE g[First(u)] + h[u \ {First(u)}]
    BY <1>2, Zenon DEF SumsUp
  <2>3. QED BY <2>1, <2>2
<1> DEFINE T == {u \in SUBSET s : ~(it[u] = h[u] /\ it[u] \in Int)}
<1>5. T = {}
  <2> SUFFICES ASSUME T # {} PROVE FALSE OBVIOUS
  <2>1. T \subseteq SUBSET s /\ IsFiniteSet(s) BY <1>1 DEF Numbers
  <2>2. PICK u \in T : \A x \in u : u \ {x} \notin T
    <3> HIDE DEF T
    <3>1. QED BY <2>1, SmallestSubset
  <2>3. u \in SUBSET s /\ ~(it[u] = h[u] /\ it[u] \in Int) BY <2>2
  <2>4. u # {} BY <1>4, <2>3
  <2>5. First(u) \in u /\ g[First(u)] \in Int BY <1>1, <2>3, <2>4 DEF First, Numbers
  <2> DEFINE w == u \ {First(u)}
  <2>6. w \in SUBSET s /\ w \notin T BY <2>2, <2>3, <2>5
  <2>7. it[w] = h[w] /\ it[w] \in Int BY <2>6
  <2>8. it[u] = g[First(u)] + it[w] /\ h[u] = g[First(u)] + h[w] BY <1>4, <2>3, <2>4
  <2> HIDE DEF w, T
  <2>9. QED BY <2>3, <2>5, <2>7, <2>8
<1>6. s \in SUBSET s OBVIOUS
<1>7. QED BY <1>3, <1>5, <1>6

\* The sum of nothing, and one summand taken out: whichever it is.
LEMMA TotalStep ==
  ASSUME NEW g, NEW S, Numbers(g, S)
  PROVE  /\ Total(g, S) \in Int /\ Total(g, {}) = 0
         /\ \A x \in S : Total(g, S) = g[x] + Total(g, S \ {x})
PROOF
<1>1. PICK it : SumsUp(it, g, S) BY SumExists
<1>2. \A s \in SUBSET S : it[s] = Total(g, s) /\ it[s] \in Int BY <1>1, SumAt
<1>3. \A s \in SUBSET S : it[s] = IF s = {} THEN 0 ELSE g[First(s)] + it[s \ {First(s)}]
  BY <1>1, Zenon DEF SumsUp
<1>4. Total(g, {}) = 0 /\ Total(g, S) \in Int
  <2>1. {} \in SUBSET S /\ S \in SUBSET S OBVIOUS
  <2>2. QED BY <1>2, <1>3, <2>1
<1> DEFINE T == {s \in SUBSET S : ~(\A x \in s : it[s] = g[x] + it[s \ {x}])}
<1>5. T = {}
  <2> SUFFICES ASSUME T # {} PROVE FALSE OBVIOUS
  <2>1. T \subseteq SUBSET S /\ IsFiniteSet(S) BY DEF Numbers
  <2>2. PICK u \in T : \A x \in u : u \ {x} \notin T
    <3> HIDE DEF T
    <3>1. QED BY <2>1, SmallestSubset
  <2>3. PICK x \in u : it[u] # g[x] + it[u \ {x}] BY <2>2
  <2>4. u \in SUBSET S /\ u # {} BY <2>2, <2>3
  <2> DEFINE f == First(u)
  <2>5. f \in u /\ it[u] = g[f] + it[u \ {f}] BY <1>3, <2>4 DEF First
  <2>6. f # x BY <2>3, <2>5
  <2> HIDE DEF f
  <2>7. u \ {f} \in SUBSET S /\ u \ {f} \notin T /\ u \ {x} \in SUBSET S /\ u \ {x} \notin T
    BY <2>2, <2>3, <2>4, <2>5
  <2>8. it[u \ {f}] = g[x] + it[(u \ {f}) \ {x}] BY <2>3, <2>6, <2>7
  <2>9. it[u \ {x}] = g[f] + it[(u \ {x}) \ {f}] BY <2>5, <2>6, <2>7
  <2>10. (u \ {f}) \ {x} = (u \ {x}) \ {f} /\ (u \ {x}) \ {f} \in SUBSET S BY <2>4
  <2>11. /\ g[x] \in Int /\ g[f] \in Int /\ it[(u \ {x}) \ {f}] \in Int
    BY <1>2, <2>3, <2>4, <2>5, <2>10 DEF Numbers
  <2> DEFINE c == it[(u \ {x}) \ {f}]
  <2>12. it[u \ {f}] = g[x] + c /\ it[u \ {x}] = g[f] + c /\ c \in Int
    BY <2>8, <2>9, <2>10, <2>11
  <2> HIDE DEF T, c
  <2>13. g[f] + (g[x] + c) = g[x] + (g[f] + c) BY <2>11, <2>12
  <2>14. QED BY <2>3, <2>5, <2>12, <2>13
<1>6. ASSUME NEW x \in S PROVE Total(g, S) = g[x] + Total(g, S \ {x})
  <2>1. S \in SUBSET S /\ S \ {x} \in SUBSET S OBVIOUS
  <2>2. it[S] = g[x] + it[S \ {x}] BY <1>5, <2>1
  <2>3. QED BY <1>2, <2>1, <2>2
<1>7. QED BY <1>4, <1>6
\* Adding an element adds its summand.
LEMMA TotalAdd ==
  ASSUME NEW g, NEW S, IsFiniteSet(S), NEW x, x \notin S, g[x] \in Int, \A s \in S : g[s] \in Int
  PROVE  /\ Total(g, S \union {x}) = g[x] + Total(g, S)
         /\ Total(g, S) \in Int /\ Total(g, S \union {x}) \in Int
PROOF
<1>1. Numbers(g, S) /\ Numbers(g, S \union {x}) BY FS_AddElement DEF Numbers
<1>2. x \in S \union {x} /\ (S \union {x}) \ {x} = S OBVIOUS
<1>3. Total(g, S \union {x}) = g[x] + Total(g, (S \union {x}) \ {x}) BY <1>1, <1>2, TotalStep
<1>4. QED BY <1>1, <1>2, <1>3, TotalStep

\* Equal summands, sums of two summands, and summands of the other sign.
LEMMA TotalLinear ==
  ASSUME NEW g, NEW S, Numbers(g, S)
  PROVE  /\ \A h : (\A s \in S : h[s] = g[s]) => Total(h, S) = Total(g, S)
         /\ \A h : (\A s \in S : h[s] = -g[s]) => Total(h, S) = -Total(g, S)
         /\ \A f, h : (\A s \in S : f[s] \in Int /\ h[s] = f[s] + g[s]) =>
                        Total(h, S) = Total(f, S) + Total(g, S)
PROOF
<1>1. \A s \in SUBSET S : IsFiniteSet(s) /\ Numbers(g, s) BY FS_Subset DEF Numbers
<1>2. IsFiniteSet(S) /\ Total(g, {}) = 0 /\ \A s \in S : g[s] \in Int BY TotalStep DEF Numbers
<1>3. \A s \in SUBSET S : Total(g, s) \in Int BY <1>1, TotalStep
<1>4. \A h : Total(h, {}) = 0
  <2> TAKE h
  <2>1. Numbers(h, {}) BY FS_EmptySet DEF Numbers
  <2>2. QED BY <2>1, TotalStep
<1>5. ASSUME NEW h, \A s \in S : h[s] = g[s] PROVE Total(h, S) = Total(g, S)
  <2> DEFINE T == {s \in SUBSET S : Total(h, s) = Total(g, s)}
  <2>1. {} \in T BY <1>2, <1>4
  <2>2. ASSUME NEW s \in SUBSET S, NEW x \in S \ s, s \in T PROVE s \union {x} \in T
    <3>1. IsFiniteSet(s) /\ x \notin s /\ g[x] \in Int /\ h[x] = g[x]
          /\ \A y \in s : g[y] \in Int /\ h[y] \in Int
      BY <1>1, <1>2, <1>5
    <3>2. Total(g, s \union {x}) = g[x] + Total(g, s) BY <3>1, TotalAdd
    <3>3. Total(h, s \union {x}) = h[x] + Total(h, s) BY <3>1, TotalAdd
    <3>4. QED BY <2>2, <3>1, <3>2, <3>3
  <2> HIDE DEF T
  <2>3. \A s \in SUBSET S : s \in T BY <1>2, <2>1, <2>2, SubsetsByInduction
  <2>4. QED BY <2>3 DEF T
<1>6. ASSUME NEW h, \A s \in S : h[s] = -g[s] PROVE Total(h, S) = -Total(g, S)
  <2> DEFINE T == {s \in SUBSET S : Total(h, s) = -Total(g, s)}
  <2>1. {} \in T BY <1>2, <1>4
  <2>2. ASSUME NEW s \in SUBSET S, NEW x \in S \ s, s \in T PROVE s \union {x} \in T
    <3>1. IsFiniteSet(s) /\ x \notin s /\ g[x] \in Int /\ h[x] = -g[x]
          /\ \A y \in s : g[y] \in Int /\ h[y] \in Int
      BY <1>1, <1>2, <1>6
    <3>2. Total(g, s \union {x}) = g[x] + Total(g, s) /\ Total(g, s) \in Int BY <3>1, TotalAdd
    <3>3. Total(h, s \union {x}) = h[x] + Total(h, s) BY <3>1, TotalAdd
    <3>4. Total(h, s) = -Total(g, s) BY <2>2
    <3>5. -g[x] + -Total(g, s) = -(g[x] + Total(g, s)) BY <3>1, <3>2
    <3>6. QED BY <3>1, <3>2, <3>3, <3>4, <3>5
  <2> HIDE DEF T
  <2>3. \A s \in SUBSET S : s \in T BY <1>2, <2>1, <2>2, SubsetsByInduction
  <2>4. QED BY <2>3 DEF T
<1>7. ASSUME NEW f, NEW h, \A s \in S : f[s] \in Int /\ h[s] = f[s] + g[s]
      PROVE  Total(h, S) = Total(f, S) + Total(g, S)
  <2> DEFINE T == {s \in SUBSET S : Total(h, s) = Total(f, s) + Total(g, s)}
  <2>1. {} \in T BY <1>2, <1>4
  <2>2. ASSUME NEW s \in SUBSET S, NEW x \in S \ s, s \in T PROVE s \union {x} \in T
    <3>1. IsFiniteSet(s) /\ x \notin s /\ g[x] \in Int /\ f[x] \in Int /\ h[x] = f[x] + g[x]
          /\ \A y \in s : g[y] \in Int /\ f[y] \in Int /\ h[y] \in Int
      BY <1>1, <1>2, <1>7
    <3>2. Total(g, s \union {x}) = g[x] + Total(g, s) /\ Total(g, s) \in Int BY <3>1, TotalAdd
    <3>3. Total(f, s \union {x}) = f[x] + Total(f, s) /\ Total(f, s) \in Int BY <3>1, TotalAdd
    <3>4. h[x] \in Int BY <3>1
    <3>5. Total(h, s \union {x}) = h[x] + Total(h, s) BY <3>1, <3>4, TotalAdd
    <3>6. Total(h, s) = Total(f, s) + Total(g, s) BY <2>2
    <3>7. \A a, b, c, d \in Int : (a + b) + (c + d) = (a + c) + (b + d) OBVIOUS
    <3>8. (f[x] + g[x]) + (Total(f, s) + Total(g, s)) = (f[x] + Total(f, s)) + (g[x] + Total(g, s))
      BY <3>1, <3>2, <3>3, <3>7
    <3>9. Total(h, s \union {x}) = Total(f, s \union {x}) + Total(g, s \union {x})
      BY <3>1, <3>2, <3>3, <3>5, <3>6, <3>8
    <3>10. QED BY <3>9
  <2> HIDE DEF T
  <2>3. \A s \in SUBSET S : s \in T BY <1>2, <2>1, <2>2, SubsetsByInduction
  <2>4. QED BY <2>3 DEF T
<1>8. QED BY <1>5, <1>6, <1>7

\* Two sets that share nothing.
LEMMA TotalUnion ==
  ASSUME NEW g, NEW S, NEW U, Numbers(g, S), Numbers(g, U), S \cap U = {}
  PROVE  Total(g, S \union U) = Total(g, S) + Total(g, U)
PROOF
<1> DEFINE T == {s \in SUBSET S : Total(g, s \union U) = Total(g, s) + Total(g, U)}
<1>1. \A s \in SUBSET S : IsFiniteSet(s) /\ IsFiniteSet(s \union U)
  BY FS_Subset, FS_Union DEF Numbers
<1>2. IsFiniteSet(S) /\ Total(g, {}) = 0 /\ Total(g, U) \in Int
      /\ \A s \in S \union U : g[s] \in Int
  BY TotalStep DEF Numbers
<1>3. {} \in T
  <2>1. {} \union U = U /\ {} \in SUBSET S OBVIOUS
  <2>2. QED BY <1>2, <2>1
<1>4. ASSUME NEW s \in SUBSET S, NEW x \in S \ s, s \in T PROVE s \union {x} \in T
  <2>1. /\ IsFiniteSet(s) /\ x \notin s /\ g[x] \in Int /\ \A y \in s : g[y] \in Int
        /\ IsFiniteSet(s \union U) /\ x \notin s \union U /\ \A y \in s \union U : g[y] \in Int
    BY <1>1, <1>2
  <2>2. Total(g, s \union {x}) = g[x] + Total(g, s) /\ Total(g, s) \in Int BY <2>1, TotalAdd
  <2>3. Total(g, (s \union U) \union {x}) = g[x] + Total(g, s \union U)
    BY <2>1, TotalAdd
  <2>4. (s \union U) \union {x} = (s \union {x}) \union U OBVIOUS
  <2>5. Total(g, s \union U) = Total(g, s) + Total(g, U) BY <1>4
  <2>6. g[x] + (Total(g, s) + Total(g, U)) = (g[x] + Total(g, s)) + Total(g, U)
    BY <1>2, <2>1, <2>2
  <2>7. Total(g, (s \union {x}) \union U) = Total(g, s \union {x}) + Total(g, U)
    BY <2>2, <2>3, <2>4, <2>5, <2>6
  <2>8. QED BY <2>7
<1> HIDE DEF T
<1>5. \A s \in SUBSET S : s \in T BY <1>2, <1>3, <1>4, SubsetsByInduction
<1>6. QED BY <1>5 DEF T

\* The same summands under other names: f names each element of U once.
LEMMA TotalRenamed ==
  ASSUME NEW g, NEW h, NEW S, NEW U, Numbers(g, S), NEW f,
         \A s \in S : f[s] \in U /\ h[f[s]] = g[s],
         \A s, r \in S : f[s] = f[r] => s = r,
         \A u \in U : \E s \in S : f[s] = u
  PROVE  Total(h, U) = Total(g, S)
PROOF
<1> DEFINE im(s) == {f[x] : x \in s}
           T == {s \in SUBSET S : IsFiniteSet(im(s)) /\ Total(h, im(s)) = Total(g, s)}
<1>1. \A s \in SUBSET S : IsFiniteSet(s) BY FS_Subset DEF Numbers
<1>2. IsFiniteSet(S) /\ Total(g, {}) = 0 /\ \A s \in S : g[s] \in Int
  BY TotalStep DEF Numbers
<1>3. {} \in T
  <2>1. im({}) = {} OBVIOUS
  <2>2. Numbers(h, {}) BY FS_EmptySet DEF Numbers
  <2>3. QED BY <1>2, <2>1, <2>2, FS_EmptySet, TotalStep
<1>4. ASSUME NEW s \in SUBSET S, NEW x \in S \ s, s \in T PROVE s \union {x} \in T
  <2>1. /\ IsFiniteSet(s) /\ x \notin s /\ g[x] \in Int /\ \A y \in s : g[y] \in Int
    BY <1>1, <1>2
  <2>2. /\ IsFiniteSet(im(s)) /\ f[x] \notin im(s) /\ h[f[x]] = g[x]
        /\ \A u \in im(s) : h[u] \in Int
    BY <1>4, <2>1
  <2>3. im(s \union {x}) = im(s) \union {f[x]} OBVIOUS
  <2>4. Total(h, im(s)) = Total(g, s) BY <1>4
  <2> HIDE DEF im
  <2>5. Total(h, im(s) \union {f[x]}) = h[f[x]] + Total(h, im(s)) BY <2>1, <2>2, TotalAdd
  <2>6. Total(g, s \union {x}) = g[x] + Total(g, s) BY <2>1, TotalAdd
  <2>7. IsFiniteSet(im(s \union {x}))
    <3>1. IsFiniteSet(im(s) \union {f[x]}) BY <2>2, FS_AddElement
    <3>2. QED BY <2>3, <3>1
  <2>8. QED BY <2>2, <2>3, <2>4, <2>5, <2>6, <2>7
<1>5. im(S) = U OBVIOUS
<1> HIDE DEF T, im
<1>6. \A s \in SUBSET S : s \in T BY <1>2, <1>3, <1>4, SubsetsByInduction
<1>7. S \in T BY <1>6
<1>8. QED BY <1>5, <1>7 DEF T

\* How many elements a family of sets has that share nothing.
LEMMA TotalOfSizes ==
  ASSUME NEW F, NEW S, IsFiniteSet(S), \A s \in S : IsFiniteSet(F[s]),
         \A s, r \in S : s # r => F[s] \cap F[r] = {},
         NEW g, \A s \in S : g[s] = Cardinality(F[s])
  PROVE  /\ Numbers(g, S)
         /\ Cardinality(UNION {F[s] : s \in S}) = Total(g, S)
PROOF
<1> DEFINE all(s) == UNION {F[x] : x \in s}
           T == {s \in SUBSET S : IsFiniteSet(all(s)) /\ Cardinality(all(s)) = Total(g, s)}
<1>1. \A s \in SUBSET S : IsFiniteSet(s) BY FS_Subset
<1>2. \A s \in S : g[s] \in Int /\ Cardinality(F[s]) \in Int BY FS_CardinalityType
<1>3. Numbers(g, S) BY <1>2 DEF Numbers
<1>4. {} \in T
  <2>1. all({}) = {} OBVIOUS
  <2>2. Total(g, {}) = 0 BY <1>3, TotalStep
  <2>3. QED BY <2>1, <2>2, FS_EmptySet
<1>5. ASSUME NEW s \in SUBSET S, NEW x \in S \ s, s \in T PROVE s \union {x} \in T
  <2>1. IsFiniteSet(s) /\ x \notin s /\ g[x] \in Int /\ \A y \in s : g[y] \in Int BY <1>1, <1>2
  <2>2. all(s \union {x}) = all(s) \union F[x] /\ all(s) \cap F[x] = {} BY <1>5
  <2>3. IsFiniteSet(all(s)) /\ Cardinality(all(s)) = Total(g, s) /\ IsFiniteSet(F[x])
        /\ g[x] = Cardinality(F[x])
    BY <1>5
  <2> HIDE DEF all
  <2>4. IsFiniteSet(all(s) \union F[x]) BY <2>3, FS_Union
  <2>5. Cardinality(all(s) \union F[x]) = Cardinality(all(s)) + Cardinality(F[x]) - Cardinality(all(s) \cap F[x])
    BY <2>3, FS_Union
  <2>6. Cardinality(all(s) \cap F[x]) = 0 BY <2>2, FS_EmptySet
  <2>7. Total(g, s \union {x}) = g[x] + Total(g, s) /\ Total(g, s) \in Int BY <2>1, TotalAdd
  <2>8. Total(g, s) + g[x] - 0 = g[x] + Total(g, s) BY <2>1, <2>7
  <2>9. Cardinality(all(s \union {x})) = Total(g, s \union {x})
    BY <2>2, <2>3, <2>5, <2>6, <2>7, <2>8
  <2>10. QED BY <2>2, <2>4, <2>9
<1> HIDE DEF T
<1>6. \A s \in SUBSET S : s \in T BY <1>4, <1>5, SubsetsByInduction
<1>7. QED BY <1>3, <1>6 DEF T
-----------------------------------------------------------------------------
(* Lines add up: what a line takes is what it changes in the points.          *)

\* What the men on a board are worth, in halves.
Worth(b) == [s \in Squares |-> IF b[s] = EMPTY THEN 0 ELSE POINT_VALUE(b[s].type)]

\* There are finitely many squares, and each man is worth a number of half points,
\* twice what pv_material counts for it.
LEMMA WorthFacts ==
  ASSUME NEW b \in Board
  PROVE  /\ IsFiniteSet(Squares)
         /\ \A s \in Squares : /\ Worth(b)[s] \in Int /\ POINTS(b[s].type) \in Int
                               /\ Worth(b)[s] = 2 * POINTS(b[s].type)
         /\ \A S \in SUBSET Squares : Numbers(Worth(b), S)
PROOF
<1>1. IsFiniteSet(Squares)
  <2>1. IsFiniteSet(0 .. 9) /\ IsFiniteSet(0 .. 8)
    <3>1. 0 \in Int /\ 8 \in Int /\ 9 \in Int OBVIOUS
    <3>2. QED BY <3>1, FS_Interval
  <2>2. QED BY <2>1, FS_Product DEF Squares, ROWS, COLS
<1>2. ASSUME NEW s \in Squares
      PROVE  /\ Worth(b)[s] \in Int /\ POINTS(b[s].type) \in Int
             /\ Worth(b)[s] = 2 * POINTS(b[s].type)
  <2>1. CASE b[s] = EMPTY
    <3>1. Worth(b)[s] = 0 BY <2>1 DEF Worth
    <3>2. POINTS(b[s].type) = 0 BY <2>1 DEF POINTS, EMPTY
    <3>3. QED BY <3>1, <3>2
  <2>2. CASE b[s] \in Piece
    <3>1. b[s] # EMPTY BY <2>2 DEF Piece, EMPTY
    <3>2. Worth(b)[s] = POINT_VALUE(b[s].type) BY <3>1 DEF Worth
    <3>3. b[s].type \in {KING, GUARD, CHARIOT, CANNON, HORSE, ELEPHANT, PAWN} BY <2>2 DEF Piece
    <3>4. \A x \in {KING, GUARD, CHARIOT, CANNON, HORSE, ELEPHANT, PAWN} :
            POINTS(x) \in Int /\ POINT_VALUE(x) = 2 * POINTS(x)
      BY DEF POINTS, POINT_VALUE
    <3>5. QED BY <3>2, <3>3, <3>4
  <2>3. QED BY <2>1, <2>2 DEF Board
<1>3. ASSUME NEW S \in SUBSET Squares PROVE Numbers(Worth(b), S)
  BY <1>1, <1>2, FS_Subset DEF Numbers
<1>4. QED BY <1>1, <1>2, <1>3

\* The points of a side are the sum of what its men are worth.
LEMMA PointsAreWorth ==
  ASSUME NEW b \in Board, NEW c \in Sides
  PROVE  /\ MaterialPoints(b, c) = Total(Worth(b), Own(b, c)) + (IF c = HAN THEN HAN_BONUS_POINTS ELSE 0)
         /\ MaterialPoints(b, c) \in Int
         /\ Numbers(Worth(b), Own(b, c))
PROOF
<1> DEFINE S == Own(b, c)
           g == Worth(b)
           P(it) == it = [s \in SUBSET S |-> IF s = {} THEN 0
                                             ELSE POINT_VALUE(b[First(s)].type) + it[s \ {First(s)}]]
<1>1. MapThenSumSet(LAMBDA s : POINT_VALUE(b[s].type), S) = (CHOOSE it : P(it))[S]
  BY DEF MapThenSumSet, MapThenFoldSet, First
<1>2. \A s \in S : s \in Squares /\ b[s] # EMPTY BY DEF Own, EMPTY
<1>3. \A s \in S : g[s] = POINT_VALUE(b[s].type) BY <1>2 DEF Worth
<1>4. \A it : P(it) <=> SumsUp(it, g, S)
  <2>1. \A s \in SUBSET S : s # {} => g[First(s)] = POINT_VALUE(b[First(s)].type)
    BY <1>3 DEF First
  <2> HIDE DEF g, S
  <2>2. QED BY <2>1 DEF SumsUp
<1> HIDE DEF P, g, S
<1>5. (CHOOSE it : P(it)) = (CHOOSE it : SumsUp(it, g, S)) BY <1>4, Zenon
<1>6. MapThenSumSet(LAMBDA s : POINT_VALUE(b[s].type), S) = Total(g, S) BY <1>1, <1>5, TotalIs
<1>7. Numbers(g, S) BY <1>2, WorthFacts DEF g
<1>8. Total(g, S) \in Int BY <1>7, TotalStep
<1>9. MaterialPoints(b, c) = Total(g, S) + (IF c = HAN THEN HAN_BONUS_POINTS ELSE 0)
  BY <1>6 DEF MaterialPoints, S
<1>10. QED BY <1>7, <1>8, <1>9 DEF g, S, HAN_BONUS_POINTS

\* A move takes from the other side what stood on its target, and nothing else changes.
LEMMA MovePoints ==
  ASSUME NEW p, Good(p), NEW m \in LegalMoves(p)
  PROVE  LET q == MakeMove(p, m)
             v == IF m = PASS_MOVE THEN 0 ELSE POINTS(p.board[m[2]].type)
         IN  /\ v \in Int
             /\ MaterialPoints(q.board, p.side) = MaterialPoints(p.board, p.side)
             /\ MaterialPoints(q.board, Other(p.side)) = MaterialPoints(p.board, Other(p.side)) - 2 * v
PROOF
<1> DEFINE q == MakeMove(p, m)
           b == p.board
           B == q.board
           us == p.side
           them == Other(p.side)
<1>1. p \in Position /\ b \in Board /\ us \in Sides BY DEF Good, WellFormed, Position
<1>2. q \in Position /\ B \in Board BY MakeKeepsGood DEF Good, WellFormed, Position
<1>3. them \in Sides /\ them # us /\ \A c \in Sides : c = us \/ c = them BY <1>1 DEF Other
<1>4. CASE m = PASS_MOVE
  <2>1. B = b BY <1>4 DEF MakeMove
  <2>2. MaterialPoints(b, them) \in Int BY <1>1, <1>3, PointsAreWorth
  <2>3. MaterialPoints(b, them) = MaterialPoints(b, them) - 2 * 0 BY <2>2
  <2> HIDE DEF B, b, us, them
  <2>4. QED BY <1>4, <2>1, <2>3 DEF b, B, us, them
<1>5. ASSUME NEW f \in Squares, NEW t \in Squares, m = <<f, t>>, m # PASS_MOVE, f # t,
             b[f] \in Piece, b[f].color = us, b[t].color # us
      PROVE  /\ POINTS(b[t].type) \in Int
             /\ MaterialPoints(B, us) = MaterialPoints(b, us)
             /\ MaterialPoints(B, them) = MaterialPoints(b, them) - 2 * POINTS(b[t].type)
  <2>1. B = [b EXCEPT ![t] = b[f], ![f] = EMPTY]
    <3>1. m[1] = f /\ m[2] = t BY <1>5
    <3>2. QED BY <1>5, <3>1 DEF MakeMove
  <2>2. \A s \in Squares : B[s] = IF s = f THEN EMPTY ELSE IF s = t THEN b[f] ELSE b[s]
    <3> HIDE DEF B, b
    <3>1. QED BY <1>1, <1>5, <2>1 DEF Board
  <2> HIDE DEF b, B, us, them
  <2> DEFINE g == Worth(b)
             h == Worth(B)
             S == Own(b, us)
             U == Own(b, them)
  <2>3. EMPTY.color = 2 BY DEF EMPTY
  <2>4. Own(B, us) = (S \ {f}) \union {t}
    <3>1. \A s \in Squares : B[s].color = us <=> (s \in (S \ {f}) \union {t})
      BY <1>1, <1>5, <2>2, <2>3 DEF Own
    <3>2. \A s \in (S \ {f}) \union {t} : s \in Squares BY <1>5 DEF Own
    <3> HIDE DEF S
    <3>3. QED BY <3>1, <3>2 DEF Own
  <2>5. Own(B, them) = U \ {t}
    <3>1. \A s \in Squares : B[s].color = them <=> s \in U \ {t}
      BY <1>1, <1>3, <1>5, <2>2, <2>3 DEF Own
    <3>2. \A s \in U \ {t} : s \in Squares BY DEF Own
    <3> HIDE DEF U
    <3>3. QED BY <3>1, <3>2 DEF Own
  <2>6. /\ \A s \in Squares : s # f /\ s # t => h[s] = g[s]
        /\ h[t] = g[f]
    BY <1>5, <2>2 DEF Worth
  <2>7. /\ Numbers(g, S) /\ Numbers(h, Own(B, us)) /\ Numbers(g, U) /\ Numbers(h, Own(B, them))
        /\ f \in S /\ t \notin S /\ f \notin U
    BY <1>1, <1>2, <1>3, <1>5, PointsAreWorth DEF Own
  <2>8. S \in SUBSET Squares /\ U \in SUBSET Squares BY DEF Own
  <2>9. /\ \A s \in Squares : g[s] \in Int /\ POINTS(b[s].type) \in Int /\ g[s] = 2 * POINTS(b[s].type)
        /\ IsFiniteSet(Squares)
    BY <1>1, WorthFacts
  <2> HIDE DEF g, h, S, U
  <2>10. Numbers(g, S \ {f}) /\ Numbers(g, U \ {t})
    <3>1. IsFiniteSet(S \ {f}) /\ IsFiniteSet(U \ {t}) BY <2>7, FS_RemoveElement DEF Numbers
    <3>2. QED BY <2>7, <3>1 DEF Numbers
  <2>11. Total(h, S \ {f}) = Total(g, S \ {f})
    <3>1. \A s \in S \ {f} : h[s] = g[s] BY <2>6, <2>7, <2>8
    <3>2. QED BY <2>10, <3>1, TotalLinear
  <2>12. Total(h, U \ {t}) = Total(g, U \ {t})
    <3>1. \A s \in U \ {t} : h[s] = g[s] BY <2>6, <2>7, <2>8
    <3>2. QED BY <2>10, <3>1, TotalLinear
  <2>13. Total(h, Own(B, us)) = Total(g, S)
    <3>1. Total(g, S) = g[f] + Total(g, S \ {f}) BY <2>7, TotalStep
    <3>2. t \in Own(B, us) /\ Own(B, us) \ {t} = S \ {f} BY <2>4, <2>7
    <3>3. Total(h, Own(B, us)) = h[t] + Total(h, Own(B, us) \ {t}) BY <2>7, <3>2, TotalStep
    <3>4. QED BY <2>6, <2>11, <3>1, <3>2, <3>3
  <2>14. Total(h, Own(B, them)) = Total(g, U) - 2 * POINTS(b[t].type)
    <3>1. CASE t \in U
      <4>1. Total(g, U) = g[t] + Total(g, U \ {t}) BY <2>7, <3>1, TotalStep
      <4>2. Total(g, U \ {t}) \in Int BY <2>10, TotalStep
      <4>3. g[t] \in Int /\ g[t] = 2 * POINTS(b[t].type) BY <2>9
      <4>4. \A x, y \in Int : (x + y) - x = y OBVIOUS
      <4>5. Total(g, U) - g[t] = Total(g, U \ {t}) BY <4>1, <4>2, <4>3, <4>4
      <4>6. QED BY <2>5, <2>12, <4>3, <4>5
    <3>2. CASE t \notin U
      <4>1. b[t] = EMPTY
        <5>1. b[t].color # them BY <3>2 DEF U, Own
        <5>2. b[t] \in Piece \union {EMPTY} BY <1>1 DEF Board
        <5>3. b[t] \in Piece => b[t].color \in Sides BY DEF Piece
        <5>4. QED BY <1>3, <1>5, <5>1, <5>2, <5>3
      <4>2. POINTS(b[t].type) = 0 BY <4>1 DEF POINTS, EMPTY
      <4>3. U \ {t} = U BY <3>2
      <4>4. Total(g, U) \in Int BY <2>7, TotalStep
      <4>5. QED BY <2>5, <2>12, <4>2, <4>3, <4>4
    <3>3. QED BY <3>1, <3>2
  <2>15. POINTS(b[t].type) \in Int /\ Total(g, S) \in Int /\ Total(g, U) \in Int
    BY <2>7, <2>9, TotalStep
  <2>16. MaterialPoints(B, us) = MaterialPoints(b, us)
    <3>1. /\ MaterialPoints(B, us) = Total(h, Own(B, us)) + (IF us = HAN THEN HAN_BONUS_POINTS ELSE 0)
          /\ MaterialPoints(b, us) = Total(g, S) + (IF us = HAN THEN HAN_BONUS_POINTS ELSE 0)
      BY <1>1, <1>2, PointsAreWorth DEF g, h, S
    <3>2. QED BY <2>13, <3>1
  <2>17. MaterialPoints(B, them) = MaterialPoints(b, them) - 2 * POINTS(b[t].type)
    <3> DEFINE e == IF them = HAN THEN HAN_BONUS_POINTS ELSE 0
               v == POINTS(b[t].type)
    <3>1. MaterialPoints(B, them) = Total(h, Own(B, them)) + e /\ MaterialPoints(b, them) = Total(g, U) + e
      BY <1>1, <1>2, <1>3, PointsAreWorth DEF g, h, U
    <3>2. e \in Int /\ v \in Int BY <2>15 DEF HAN_BONUS_POINTS
    <3> HIDE DEF e, v
    <3>3. (Total(g, U) - 2 * v) + e = (Total(g, U) + e) - 2 * v BY <2>15, <3>2
    <3>4. QED BY <2>14, <3>1, <3>3 DEF v
  <2>18. QED BY <2>15, <2>16, <2>17
<1>6. CASE m # PASS_MOVE
  <2>1. PICK f \in Squares, t \in Squares :
          m = <<f, t>> /\ f # t /\ b[f] \in Piece /\ b[f].color = us /\ b[t].color # us
    BY <1>1, <1>6, LegalMoveFacts
  <2>2. m[2] = t BY <2>1
  <2> HIDE DEF b, B, us, them
  <2>3. QED BY <1>5, <1>6, <2>1, <2>2 DEF b, B, us, them
<1>7. QED BY <1>4, <1>6

\* The account of a line of legal moves: pv_material finds its end, and what it
\* counts is half of what the points change for the side that moved first.
LEMMA LineMaterial ==
  ASSUME NEW T, NEW first, NEW moves \in Seq(Moves), NEW last, NEW forced,
         IsTrace(T, first, moves, last, forced)
  PROVE  LET told == PvMaterial(first, moves)
             me == first.side
             ahead(b) == MaterialPoints(b, me) - MaterialPoints(b, Other(me))
         IN  /\ ~told.over /\ told.cur = last
             /\ 2 * told.net = ahead(last.board) - ahead(first.board)
PROOF
<1> DEFINE me == first.side
           ahead(b) == MaterialPoints(b, me) - MaterialPoints(b, Other(me))
           n == Len(moves)
           base == [cur |-> first, net |-> 0, over |-> FALSE]
           taken(cur, m) == IF m = PASS_MOVE THEN 0 ELSE POINTS(cur.board[m[2]].type)
           play(st, m) ==
             IF st.over \/ m \notin LegalMoves(st.cur) THEN [st EXCEPT !.over = TRUE]
             ELSE [st EXCEPT !.cur = MakeMove(st.cur, m),
                             !.net = IF st.cur.side = first.side THEN st.net + taken(st.cur, m)
                                                                 ELSE st.net - taken(st.cur, m)]
           step(it, s) == IF s = {} THEN base ELSE play(it[s \ {Max(s)}], moves[Max(s)])
           P(it) == it = [s \in SUBSET DOMAIN moves |-> step(it, s)]
<1>1. PvMaterial(first, moves) = (CHOOSE it : P(it))[DOMAIN moves]
  BY DEF PvMaterial, FoldLeft, MapThenFoldSet
<1>2. n \in Nat /\ DOMAIN moves = 1 .. n OBVIOUS
<1>3. /\ Len(T) = n + 1 /\ T[1] = first /\ T[n + 1] = last
      /\ \A i \in 1 .. n + 1 : Good(T[i])
      /\ \A i \in 1 .. n : moves[i] \in LegalMoves(T[i]) /\ T[i + 1] = MakeMove(T[i], moves[i])
  BY DEF IsTrace
<1> HIDE DEF n
<1>4. IsFiniteSet(1 .. n)
  <2>1. 1 \in Int /\ n \in Int BY <1>2
  <2>2. QED BY <2>1, FS_Interval
<1>5. \A s \in SUBSET (1 .. n) : /\ IsFiniteSet(s) /\ Cardinality(s) \in Nat
                                 /\ Cardinality(s) = 0 <=> s = {}
  BY <1>4, FS_Subset, FS_CardinalityType, FS_EmptySet
<1>6. ASSUME NEW s \in SUBSET (1 .. n), s # {}
      PROVE  /\ Max(s) \in s /\ \A y \in s : y <= Max(s)
             /\ s \ {Max(s)} \in SUBSET (1 .. n)
             /\ Cardinality(s \ {Max(s)}) = Cardinality(s) - 1
  <2>1. s \subseteq Int BY <1>2
  <2>2. Max(s) \in s /\ \A y \in s : y <= Max(s) BY <1>5, <1>6, <2>1, MaxMin
  <2>3. Cardinality(s \ {Max(s)}) = Cardinality(s) - 1 BY <1>5, <2>2, FS_RemoveElement
  <2>4. QED BY <2>2, <2>3
<1> HIDE DEF step
<1>7. \E it : P(it)
  <2> DEFINE Upto(k) == {s \in SUBSET (1 .. n) : Cardinality(s) <= k}
             N == {k \in Nat : \E h : h = [s \in Upto(k) |-> step(h, s)]}
  <2>1. 0 \in N
    <3> DEFINE h == [s \in Upto(0) |-> base]
    <3>1. \A s \in Upto(0) : s = {} BY <1>5
    <3>2. h = [s \in Upto(0) |-> step(h, s)] BY <3>1 DEF step
    <3>3. QED BY <3>2
  <2>2. ASSUME NEW k \in Nat, k \in N PROVE k + 1 \in N
    <3>1. PICK h : h = [s \in Upto(k) |-> step(h, s)] BY <2>2
    <3> DEFINE g == [s \in Upto(k + 1) |-> IF s \in Upto(k) THEN h[s] ELSE step(h, s)]
    <3>2. \A s \in Upto(k + 1) : s # {} => s \ {Max(s)} \in Upto(k)
      BY <1>5, <1>6
    <3>3. \A s \in Upto(k) : h[s] = step(h, s) BY <3>1
    <3>4. \A s \in Upto(k + 1) : g[s] = step(h, s)
      <4> HIDE DEF Upto
      <4>1. QED BY <3>3
    <3>5. \A s \in Upto(k) : s \in Upto(k + 1) BY <1>5
    <3>6. \A s \in Upto(k) : g[s] = h[s] BY <3>5
    <3>7. \A s \in Upto(k + 1) : step(g, s) = step(h, s)
      <4> HIDE DEF g, Upto
      <4>1. QED BY <3>2, <3>6 DEF step
    <3>8. \A s \in Upto(k + 1) : g[s] = step(g, s) BY <3>4, <3>7
    <3>9. g = [s \in Upto(k + 1) |-> g[s]] OBVIOUS
    <3> HIDE DEF g, Upto
    <3>10. g = [s \in Upto(k + 1) |-> step(g, s)] BY <3>8, <3>9
    <3>11. QED BY <3>10
  <2>3. n \in N
    <3> HIDE DEF N
    <3>1. \A k \in Nat : k \in N BY <2>1, <2>2, NumbersByInduction
    <3>2. QED BY <1>2, <3>1
  <2>4. Upto(n) = SUBSET (1 .. n)
    <3>1. Cardinality(1 .. n) = n
      <4>1. 1 \in Int /\ n \in Int BY <1>2
      <4>2. Cardinality(1 .. n) = IF 1 > n THEN 0 ELSE n - 1 + 1 BY <4>1, FS_Interval
      <4>3. QED BY <1>2, <4>2
    <3>2. \A s \in SUBSET (1 .. n) : Cardinality(s) <= Cardinality(1 .. n) BY <1>4, FS_Subset
    <3>3. QED BY <3>1, <3>2
  <2> HIDE DEF Upto
  <2>5. QED BY <1>2, <2>3, <2>4
<1> DEFINE it == CHOOSE it : P(it)
<1>8. P(it) BY <1>7
<1> HIDE DEF it
<1>9. \A s \in SUBSET (1 .. n) : it[s] = step(it, s) BY <1>2, <1>8
<1> HIDE DEF P
<1>10. Good(first) /\ first.board \in Board /\ me \in Sides /\ Other(me) \in Sides /\ Other(me) # me
       /\ (\A c \in Sides : c = me \/ c = Other(me)) /\ Other(Other(me)) = me
  <2>1. 1 \in 1 .. n + 1 BY <1>2
  <2>2. Good(first) BY <1>3, <2>1
  <2>3. first.board \in Board /\ me \in Sides BY <2>2 DEF Good, WellFormed, Position
  <2> HIDE DEF me
  <2>4. Other(me) \in Sides /\ Other(me) # me /\ (\A c \in Sides : c = me \/ c = Other(me))
        /\ Other(Other(me)) = me
    BY <2>3 DEF Other
  <2>5. QED BY <2>2, <2>3, <2>4
<1> DEFINE Told(k) == \E net \in Int : /\ it[1 .. k] = [cur |-> T[k + 1], net |-> net, over |-> FALSE]
                                       /\ 2 * net = ahead(T[k + 1].board) - ahead(first.board)
           K == {k \in Nat : k <= n => Told(k)}
<1>11. ASSUME NEW b \in Board PROVE ahead(b) \in Int
  <2>1. MaterialPoints(b, me) \in Int /\ MaterialPoints(b, Other(me)) \in Int
    BY <1>10, PointsAreWorth
  <2>2. QED BY <2>1
<1>12. 0 \in K
  <2>1. 1 .. 0 = {} /\ {} \in SUBSET (1 .. n) /\ 0 + 1 = 1 OBVIOUS
  <2>2. it[1 .. 0] = base BY <1>9, <2>1 DEF step
  <2>3. T[0 + 1] = first BY <1>3, <2>1
  <2>4. 2 * 0 = ahead(first.board) - ahead(first.board) BY <1>10, <1>11
  <2>5. Told(0)
    <3> HIDE DEF ahead
    <3>1. 0 \in Int /\ it[1 .. 0] = [cur |-> T[0 + 1], net |-> 0, over |-> FALSE] BY <2>2, <2>3
    <3>2. 2 * 0 = ahead(T[0 + 1].board) - ahead(first.board) BY <2>3, <2>4
    <3>3. QED BY <3>1, <3>2
  <2> HIDE DEF Told
  <2>6. QED BY <2>5
<1>13. ASSUME NEW k \in Nat, k \in K PROVE k + 1 \in K
  <2> SUFFICES ASSUME k + 1 <= n PROVE Told(k + 1)
    OBVIOUS
  <2> DEFINE i == k + 1
             m == moves[i]
             p == T[i]
             q == T[i + 1]
             v == taken(p, m)
  <2>1. i \in 1 .. n /\ i \in 1 .. n + 1 /\ i + 1 \in 1 .. n + 1 /\ k <= n /\ i \in Nat BY <1>2
  <2>2. Good(p) /\ Good(q) /\ m \in LegalMoves(p) /\ q = MakeMove(p, m) BY <1>3, <2>1
  <2>3. PICK net \in Int : /\ it[1 .. k] = [cur |-> p, net |-> net, over |-> FALSE]
                           /\ 2 * net = ahead(p.board) - ahead(first.board)
    BY <1>13, <2>1
  <2>4. 1 .. i \in SUBSET (1 .. n) /\ 1 .. i # {} /\ i \in 1 .. i
    <3> HIDE DEF i
    <3>1. i \in 1 .. i /\ \A j \in 1 .. i : j \in 1 .. n BY <1>2, <2>1
    <3>2. QED BY <3>1
  <2>5. Max(1 .. i) = i
    <3>1. Max(1 .. i) \in 1 .. i /\ i <= Max(1 .. i) BY <1>6, <2>4
    <3>2. QED BY <2>1, <3>1
  <2>6. (1 .. i) \ {i} = 1 .. k BY <2>1
  <2>7. it[1 .. i] = play(it[1 .. k], m)
    <3> HIDE DEF play, i, base
    <3>1. it[1 .. i] = step(it, 1 .. i) BY <1>9, <2>4
    <3>2. step(it, 1 .. i) = play(it[(1 .. i) \ {Max(1 .. i)}], moves[Max(1 .. i)]) BY <2>4 DEF step
    <3>3. QED BY <2>5, <2>6, <3>1, <3>2
  <2>8. p.board \in Board /\ p.side \in Sides /\ q.board \in Board
    BY <2>2 DEF Good, WellFormed, Position
  <2>9. /\ v \in Int
        /\ MaterialPoints(q.board, p.side) = MaterialPoints(p.board, p.side)
        /\ MaterialPoints(q.board, Other(p.side)) = MaterialPoints(p.board, Other(p.side)) - 2 * v
    <3>1. LET w == IF m = PASS_MOVE THEN 0 ELSE POINTS(p.board[m[2]].type)
          IN  /\ w \in Int
              /\ MaterialPoints(q.board, p.side) = MaterialPoints(p.board, p.side)
              /\ MaterialPoints(q.board, Other(p.side)) = MaterialPoints(p.board, Other(p.side)) - 2 * w
      BY <2>2, MovePoints
    <3>2. QED BY <3>1
  <2> DEFINE more == IF p.side = first.side THEN net + v ELSE net - v
  <2>10. play(it[1 .. k], m) = [cur |-> q, net |-> more, over |-> FALSE]
    <3> DEFINE st == [cur |-> p, net |-> net, over |-> FALSE]
    <3> HIDE DEF i, m, p, q, taken
    <3>1. it[1 .. k] = st BY <2>3
    <3>2. ~st.over /\ st.cur = p /\ st.net = net OBVIOUS
    <3> HIDE DEF st
    <3>3. play(st, m) = [st EXCEPT !.cur = q, !.net = more] BY <2>2, <3>2
    <3>4. [st EXCEPT !.cur = q, !.net = more] = [cur |-> q, net |-> more, over |-> FALSE]
      <4> HIDE DEF more, q
      <4> DEFINE w == [st EXCEPT !.cur = q, !.net = more]
      <4>1. DOMAIN st = {"cur", "net", "over"} /\ st.over = FALSE BY DEF st
      <4>2. DOMAIN w = DOMAIN st /\ w.cur = q /\ w.net = more /\ w.over = st.over BY <4>1
      <4>3. w = [x \in DOMAIN st |-> w[x]] OBVIOUS
      <4> HIDE DEF w
      <4>4. w = [cur |-> q, net |-> more, over |-> FALSE] BY <4>1, <4>2, <4>3
      <4>5. QED BY <4>4 DEF w
    <3> HIDE DEF play, more
    <3>5. QED BY <3>1, <3>3, <3>4
  <2> DEFINE x == MaterialPoints(p.board, me)
             y == MaterialPoints(p.board, Other(me))
  <2>11. x \in Int /\ y \in Int /\ ahead(p.board) = x - y /\ ahead(first.board) \in Int
    BY <1>10, <1>11, <2>8, PointsAreWorth
  <2>12. 2 * more = ahead(q.board) - ahead(first.board) /\ more \in Int
    <3>1. CASE p.side = me
      <4>1. ahead(q.board) = x - (y - 2 * v) BY <2>9, <3>1
      <4> DEFINE a == ahead(first.board)
      <4>2. more = net + v /\ 2 * net = (x - y) - a BY <2>3, <2>11, <3>1
      <4>3. a \in Int /\ v \in Int BY <2>9, <2>11
      <4> HIDE DEF x, y, v, ahead, more, a
      <4>4. 2 * more = (x - (y - 2 * v)) - a /\ more \in Int BY <2>11, <4>2, <4>3
      <4>5. QED BY <4>1, <4>4 DEF a
    <3>2. CASE p.side # me
      <4>0. p.side = Other(me) /\ Other(p.side) = me BY <1>10, <2>8, <3>2
      <4>1. ahead(q.board) = (x - 2 * v) - y BY <2>9, <4>0
      <4> DEFINE a == ahead(first.board)
      <4>2. more = net - v /\ 2 * net = (x - y) - a BY <2>3, <2>11, <3>2
      <4>3. a \in Int /\ v \in Int BY <2>9, <2>11
      <4> DEFINE w == more
      <4>6. w = net - v BY <4>2
      <4> HIDE DEF x, y, v, ahead, w, a
      <4>7. x \in Int /\ y \in Int BY <2>11
      <4>8. 2 * w = 2 * net - 2 * v /\ w \in Int BY <4>3, <4>6
      <4>9. 2 * w = ((x - 2 * v) - y) - a BY <4>2, <4>3, <4>7, <4>8
      <4>4. 2 * more = ((x - 2 * v) - y) - a /\ more \in Int BY <4>8, <4>9 DEF w
      <4>5. QED BY <4>1, <4>4 DEF a
    <3>3. QED BY <3>1, <3>2
  <2> HIDE DEF more, ahead, play
  <2>13. it[1 .. i] = [cur |-> q, net |-> more, over |-> FALSE] BY <2>7, <2>10
  <2>14. QED BY <2>12, <2>13
<1>14. Told(n)
  <2> HIDE DEF K, Told
  <2>1. \A k \in Nat : k \in K BY <1>12, <1>13, NumbersByInduction
  <2>2. QED BY <1>2, <2>1 DEF K
<1> DEFINE told == PvMaterial(first, moves)
<1>15. told = it[1 .. n] BY <1>1, <1>2 DEF it
<1> HIDE DEF told, ahead
<1>16. ~told.over /\ told.cur = last /\ 2 * told.net = ahead(last.board) - ahead(first.board)
  BY <1>3, <1>14, <1>15
<1>17. QED BY <1>16 DEF told, ahead

\* What explain.py says a line wins is what it changes in the points of the rules
\* (JanggiGame's LinesAddUp, a part of TablesAgree).
THEOREM LinesWinWhatTheyTake == Spec => []LinesAddUp
PROOF
<1>1. Replayed => LinesAddUp
  <2> SUFFICES ASSUME Replayed PROVE LinesAddUp OBVIOUS
  <2>1. PICK T : IsTrace(T, StartPosition, line, pos, rules.bikjang = "forced") BY DEF Replayed
  <2>2. line \in Seq(Moves) BY DEF Replayed
  <2>3. StartPosition.side = start.side /\ StartPosition.board = start.board
    BY DEF StartPosition, Setup
  <2>4. LET told == PvMaterial(StartPosition, line)
            me == StartPosition.side
            ahead(b) == MaterialPoints(b, me) - MaterialPoints(b, Other(me))
        IN  /\ ~told.over /\ told.cur = pos
            /\ 2 * told.net = ahead(pos.board) - ahead(StartPosition.board)
    BY <2>1, <2>2, LineMaterial
  <2>5. QED BY <2>3, <2>4 DEF LinesAddUp
<1>2. QED BY <1>1, AlwaysReplayed, PTL

-----------------------------------------------------------------------------
(* Exchanges: a swap list is worth what best play makes of it.                *)

\* The larger of two numbers.
LEMMA MaxOfTwo ==
  ASSUME NEW a \in Int, NEW c \in Int
  PROVE  Max({a, c}) = IF a >= c THEN a ELSE c
PROOF
<1>1. Max({a, c}) \in {a, c} /\ \A y \in {a, c} : Max({a, c}) >= y
  <2>1. \E x \in {a, c} : \A y \in {a, c} : x >= y
    <3>1. CASE a >= c BY <3>1
    <3>2. CASE ~(a >= c) BY <3>2
    <3>3. QED BY <3>1, <3>2
  <2>2. QED BY <2>1, Zenon DEF Max
<1> DEFINE m == Max({a, c})
<1> HIDE DEF m
<1>2. m \in {a, c} /\ m >= a /\ m >= c BY <1>1 DEF m
<1>3. m = IF a >= c THEN a ELSE c BY <1>2
<1>4. QED BY <1>3 DEF m

\* A number before the first, and each from the one before it: such a list exists.
LEMMA Iterated ==
  ASSUME NEW N \in Nat, NEW F \in [(1 .. N) \X Int -> Int], NEW v \in Int
  PROVE  \E f \in [0 .. N -> Int] : f[0] = v /\ \A n \in 1 .. N : f[n] = F[<<n, f[n - 1]>>]
PROOF
<1> DEFINE Upto(k) == \E f \in [0 .. k -> Int] :
                         f[0] = v /\ \A n \in 1 .. k : f[n] = F[<<n, f[n - 1]>>]
           K == {k \in Nat : k <= N => Upto(k)}
<1>1. 0 \in K
  <2> DEFINE f == [i \in 0 .. 0 |-> v]
  <2>1. f \in [0 .. 0 -> Int] /\ f[0] = v /\ \A n \in 1 .. 0 : FALSE OBVIOUS
  <2>2. Upto(0) BY <2>1
  <2>3. QED BY <2>2
<1>2. ASSUME NEW k \in Nat, k \in K PROVE k + 1 \in K
  <2> SUFFICES ASSUME k + 1 <= N PROVE Upto(k + 1) OBVIOUS
  <2>1. PICK f \in [0 .. k -> Int] : f[0] = v /\ \A n \in 1 .. k : f[n] = F[<<n, f[n - 1]>>]
    BY <1>2
  <2> DEFINE w == F[<<k + 1, f[k]>>]
             g == [i \in 0 .. k + 1 |-> IF i = k + 1 THEN w ELSE f[i]]
  <2>2. w \in Int
    <3>1. f[k] \in Int /\ k + 1 \in 1 .. N OBVIOUS
    <3>2. <<k + 1, f[k]>> \in (1 .. N) \X Int BY <3>1
    <3>3. QED BY <3>2
  <2> HIDE DEF w
  <2>3. g \in [0 .. k + 1 -> Int] /\ g[0] = v BY <2>1, <2>2
  <2>4. ASSUME NEW n \in 1 .. k + 1 PROVE g[n] = F[<<n, g[n - 1]>>]
    <3>1. g[n - 1] = f[n - 1] OBVIOUS
    <3>2. CASE n = k + 1
      <4>1. g[n] = w /\ n - 1 = k BY <3>2
      <4> HIDE DEF g
      <4>2. F[<<n, g[n - 1]>>] = F[<<k + 1, f[k]>>] BY <3>1, <3>2, <4>1
      <4>3. QED BY <4>1, <4>2 DEF w
    <3>3. CASE n # k + 1
      <4>1. n \in 1 .. k /\ g[n] = f[n] BY <3>3
      <4>2. QED BY <2>1, <3>1, <4>1
    <3>4. QED BY <3>2, <3>3
  <2> HIDE DEF g
  <2>5. QED BY <2>3, <2>4
<1> HIDE DEF K
<1>3. \A k \in Nat : k \in K BY <1>1, <1>2, NumbersByInduction
<1> HIDE DEF Upto
<1>4. Upto(N) BY <1>3 DEF K
<1>5. QED BY <1>4 DEF Upto

\* The swap list: what each side is ahead by.
LEMMA GainsAre ==
  ASSUME NEW takes \in Seq(Int)
  PROVE  LET g == Gains(takes)
         IN  /\ DOMAIN g = 1 .. Len(takes) /\ g = [n \in 1 .. Len(takes) |-> g[n]]
             /\ \A n \in 1 .. Len(takes) :
                  g[n] \in Int /\ g[n] = IF n = 1 THEN takes[1] ELSE takes[n] - g[n - 1]
PROOF
<1> DEFINE N == Len(takes)
           P(g) == g = [n \in 1 .. N |-> IF n = 1 THEN takes[1] ELSE takes[n] - g[n - 1]]
           F == [x \in (1 .. N) \X Int |-> takes[x[1]] - x[2]]
<1>1. N \in Nat /\ DOMAIN takes = 1 .. N /\ \A n \in 1 .. N : takes[n] \in Int OBVIOUS
<1> HIDE DEF N
<1>2. PICK f \in [0 .. N -> Int] : f[0] = 0 /\ \A n \in 1 .. N : f[n] = F[<<n, f[n - 1]>>]
  <2>1. F \in [(1 .. N) \X Int -> Int] BY <1>1
  <2> HIDE DEF F
  <2>2. 0 \in Int OBVIOUS
  <2>3. QED BY <1>1, <2>1, <2>2, Iterated, Zenon
<1>3. \A n \in 1 .. N : f[n] = IF n = 1 THEN takes[1] ELSE takes[n] - f[n - 1]
  <2> SUFFICES ASSUME NEW n \in 1 .. N
               PROVE  f[n] = IF n = 1 THEN takes[1] ELSE takes[n] - f[n - 1]
    OBVIOUS
  <2>1. n - 1 \in 0 .. N /\ f[n - 1] \in Int /\ takes[n] \in Int BY <1>1
  <2>2. <<n, f[n - 1]>> \in (1 .. N) \X Int BY <2>1
  <2>3. f[n] = takes[n] - f[n - 1] BY <1>2, <2>2
  <2>4. CASE n = 1
    <3>1. f[n - 1] = 0 BY <1>2, <2>4
    <3>2. QED BY <2>1, <2>3, <2>4, <3>1
  <2>5. QED BY <2>3, <2>4
<1> DEFINE g == [n \in 1 .. N |-> f[n]]
<1>4. P(g)
  <2>1. \A n \in 1 .. N : n # 1 => n - 1 \in 1 .. N /\ g[n - 1] = f[n - 1] BY <1>1
  <2>2. \A n \in 1 .. N : g[n] = IF n = 1 THEN takes[1] ELSE takes[n] - g[n - 1]
    BY <1>3, <2>1
  <2>3. QED BY <2>2
<1> HIDE DEF g
<1> DEFINE h == CHOOSE h : P(h)
<1>5. P(h) BY <1>4
<1>6. Gains(takes) = h BY <1>1 DEF Gains
<1> HIDE DEF h
<1>7. \A n \in 1 .. N : h[n] = IF n = 1 THEN takes[1] ELSE takes[n] - h[n - 1] BY <1>5, Zenon
<1>8. DOMAIN h = 1 .. N /\ h = [n \in 1 .. N |-> h[n]] BY <1>5
<1> HIDE DEF P
<1> DEFINE K == {n \in Nat : n + 1 <= N => h[n + 1] \in Int}
<1>9. 0 \in K
  <2>1. 1 <= N => h[1] \in Int BY <1>1, <1>7
  <2>2. QED BY <2>1
<1>10. ASSUME NEW n \in Nat, n \in K PROVE n + 1 \in K
  <2> SUFFICES ASSUME (n + 1) + 1 <= N PROVE h[(n + 1) + 1] \in Int OBVIOUS
  <2>1. n + 1 \in 1 .. N /\ (n + 1) + 1 \in 1 .. N /\ ((n + 1) + 1) - 1 = n + 1 /\ (n + 1) + 1 # 1
    BY <1>1
  <2>2. h[(n + 1) + 1] = takes[(n + 1) + 1] - h[n + 1] BY <1>7, <2>1
  <2>3. h[n + 1] \in Int BY <1>1, <1>10, <2>1
  <2>4. QED BY <1>1, <2>1, <2>2, <2>3
<1>11. \A n \in 1 .. N : h[n] \in Int
  <2>1. \A n \in Nat : n \in K
    <3> HIDE DEF K
    <3>1. QED BY <1>9, <1>10, NumbersByInduction
  <2>2. ASSUME NEW n \in 1 .. N PROVE h[n] \in Int
    <3>1. n - 1 \in Nat /\ (n - 1) + 1 = n /\ n <= N BY <1>1
    <3>2. n - 1 \in K BY <2>1, <3>1
    <3>3. QED BY <3>1, <3>2
  <2>3. QED BY <2>2
<1>12. QED BY <1>6, <1>7, <1>8, <1>11, Zenon DEF N


\* From the last capture back to the first: such a list exists.
LEMMA IteratedBack ==
  ASSUME NEW N \in Nat, NEW F \in [(1 .. N) \X Int -> Int], NEW v \in Int
  PROVE  \E f \in [1 .. N + 1 -> Int] :
           f[N + 1] = v /\ \A n \in 1 .. N : f[n] = F[<<n, f[n + 1]>>]
PROOF
<1> DEFINE G == [x \in (1 .. N) \X Int |-> F[<<N + 1 - x[1], x[2]>>]]
<1>1. G \in [(1 .. N) \X Int -> Int]
  <2>1. \A x \in (1 .. N) \X Int : <<N + 1 - x[1], x[2]>> \in (1 .. N) \X Int OBVIOUS
  <2>2. QED BY <2>1
<1>2. ASSUME NEW n \in 1 .. N, NEW y \in Int PROVE G[<<N + 1 - n, y>>] = F[<<n, y>>]
  <2>1. N + 1 - n \in 1 .. N /\ N + 1 - (N + 1 - n) = n OBVIOUS
  <2>2. <<N + 1 - n, y>> \in (1 .. N) \X Int BY <2>1
  <2>3. QED BY <2>1, <2>2
<1> HIDE DEF G
<1>3. PICK h \in [0 .. N -> Int] : h[0] = v /\ \A n \in 1 .. N : h[n] = G[<<n, h[n - 1]>>]
  BY <1>1, Iterated, Zenon
<1> DEFINE f == [n \in 1 .. N + 1 |-> h[N + 1 - n]]
<1>4. f \in [1 .. N + 1 -> Int] /\ f[N + 1] = v
  <2>1. \A n \in 1 .. N + 1 : N + 1 - n \in 0 .. N OBVIOUS
  <2>2. N + 1 \in 1 .. N + 1 /\ N + 1 - (N + 1) = 0 OBVIOUS
  <2>3. QED BY <1>3, <2>1, <2>2
<1>5. ASSUME NEW n \in 1 .. N PROVE f[n] = F[<<n, f[n + 1]>>]
  <2> DEFINE m == N + 1 - n
  <2>1. m \in 1 .. N /\ m - 1 \in 0 .. N /\ m - 1 = N + 1 - (n + 1) /\ n + 1 \in 1 .. N + 1
        /\ n \in 1 .. N + 1
    OBVIOUS
  <2>2. f[n] = h[m] /\ f[n + 1] = h[m - 1] /\ h[m - 1] \in Int BY <2>1
  <2>3. h[m] = G[<<m, h[m - 1]>>] BY <1>3, <2>1
  <2>4. G[<<m, h[m - 1]>>] = F[<<n, h[m - 1]>>] BY <1>2, <2>2
  <2> HIDE DEF f, m
  <2>5. QED BY <2>2, <2>3, <2>4
<1> HIDE DEF f
<1>6. QED BY <1>4, <1>5

\* What best play makes of an exchange from each capture on.
LEMMA BestPlayIs ==
  ASSUME NEW takes \in Seq(Int), Len(takes) # 0
  PROVE  \E f : /\ WorthOf(takes) = f[1] /\ f \in [1 .. Len(takes) -> Int]
                /\ \A n \in 1 .. Len(takes) :
                     f[n] = takes[n] - (IF n = Len(takes) THEN 0 ELSE Max({0, f[n + 1]}))
PROOF
<1> DEFINE N == Len(takes)
           P(f) == f = [n \in 1 .. N |-> takes[n] - (IF n = N THEN 0 ELSE Max({0, f[n + 1]}))]
           F == [x \in (1 .. N) \X Int |-> takes[x[1]] - Max({0, x[2]})]
<1>1. N \in Nat /\ N # 0 /\ DOMAIN takes = 1 .. N /\ (\A n \in 1 .. N : takes[n] \in Int)
      /\ takes # <<>>
  OBVIOUS
<1> HIDE DEF N
<1>2. \A x \in Int : Max({0, x}) \in Int
  <2> SUFFICES ASSUME NEW x \in Int PROVE Max({0, x}) \in Int OBVIOUS
  <2>1. 0 \in Int OBVIOUS
  <2>2. Max({0, x}) = IF 0 >= x THEN 0 ELSE x BY <2>1, MaxOfTwo
  <2>3. QED BY <2>2
<1>3. F \in [(1 .. N) \X Int -> Int] BY <1>1, <1>2
<1>4. \A n \in 1 .. N : \A x \in Int : F[<<n, x>>] = takes[n] - Max({0, x})
  <2> SUFFICES ASSUME NEW n \in 1 .. N, NEW x \in Int
               PROVE  F[<<n, x>>] = takes[n] - Max({0, x})
    OBVIOUS
  <2>1. <<n, x>> \in (1 .. N) \X Int OBVIOUS
  <2>2. QED BY <2>1
<1> HIDE DEF F
<1>5. PICK f \in [1 .. N + 1 -> Int] :
        f[N + 1] = 0 /\ \A n \in 1 .. N : f[n] = F[<<n, f[n + 1]>>]
  <2>1. 0 \in Int OBVIOUS
  <2>2. QED BY <1>1, <1>3, <2>1, IteratedBack, Zenon
<1>6. \A n \in 1 .. N : f[n] = takes[n] - (IF n = N THEN 0 ELSE Max({0, f[n + 1]}))
  <2> SUFFICES ASSUME NEW n \in 1 .. N
               PROVE  f[n] = takes[n] - (IF n = N THEN 0 ELSE Max({0, f[n + 1]}))
    OBVIOUS
  <2>1. n + 1 \in 1 .. N + 1 /\ f[n + 1] \in Int BY <1>1
  <2>2. f[n] = takes[n] - Max({0, f[n + 1]}) BY <1>4, <1>5, <2>1
  <2>3. CASE n = N
    <3>1. f[n + 1] = 0 BY <1>5, <2>3
    <3>2. 0 \in Int OBVIOUS
    <3>3. Max({0, 0}) = 0 BY <3>2, MaxOfTwo
    <3>4. QED BY <2>2, <2>3, <3>1, <3>3
  <2>4. QED BY <2>2, <2>3
<1> DEFINE g == [n \in 1 .. N |-> f[n]]
<1>7. P(g)
  <2>1. \A n \in 1 .. N : n # N => n + 1 \in 1 .. N /\ g[n + 1] = f[n + 1] BY <1>1
  <2>2. \A n \in 1 .. N : g[n] = takes[n] - (IF n = N THEN 0 ELSE Max({0, g[n + 1]}))
    BY <1>6, <2>1
  <2>3. QED BY <2>2
<1> HIDE DEF g
<1> DEFINE h == CHOOSE h : P(h)
<1>8. P(h) BY <1>7
<1>9. WorthOf(takes) = h[1] BY <1>1 DEF WorthOf, N
<1> HIDE DEF h
<1>10. \A n \in 1 .. N : h[n] = takes[n] - (IF n = N THEN 0 ELSE Max({0, h[n + 1]}))
  BY <1>8, Zenon
<1>11. DOMAIN h = 1 .. N /\ h = [n \in 1 .. N |-> h[n]] BY <1>8
<1> HIDE DEF P
<1> DEFINE K == {k \in Nat : k < N => h[N - k] \in Int}
<1>12. 0 \in K
  <2>1. N \in 1 .. N /\ N - 0 = N BY <1>1
  <2>2. h[N] = takes[N] - 0 BY <1>10, <2>1
  <2>3. QED BY <1>1, <2>1, <2>2
<1>13. ASSUME NEW k \in Nat, k \in K PROVE k + 1 \in K
  <2> SUFFICES ASSUME k + 1 < N PROVE h[N - (k + 1)] \in Int OBVIOUS
  <2> DEFINE n == N - (k + 1)
  <2>1. n \in 1 .. N /\ n # N /\ n + 1 = N - k /\ k < N BY <1>1
  <2>2. h[N - k] \in Int BY <1>13, <2>1
  <2> HIDE DEF n
  <2>3. h[n] = takes[n] - Max({0, h[n + 1]}) BY <1>10, <2>1
  <2>4. takes[n] \in Int /\ Max({0, h[n + 1]}) \in Int BY <1>1, <1>2, <2>1, <2>2
  <2>5. h[n] \in Int BY <2>3, <2>4
  <2>6. QED BY <2>5 DEF n
<1>14. \A n \in 1 .. N : h[n] \in Int
  <2>1. \A k \in Nat : k \in K
    <3> HIDE DEF K
    <3>1. QED BY <1>12, <1>13, NumbersByInduction
  <2>2. ASSUME NEW n \in 1 .. N PROVE h[n] \in Int
    <3>1. N - n \in Nat /\ N - n < N /\ N - (N - n) = n BY <1>1
    <3>2. N - n \in K BY <2>1, <3>1
    <3>3. QED BY <3>1, <3>2
  <2>3. QED BY <2>2
<1>15. h \in [1 .. N -> Int] BY <1>11, <1>14
<1>16. QED BY <1>9, <1>10, <1>15, Zenon DEF N


\* A swap list, taken back from its end, is what best play makes of the exchange:
\* from each capture on, best play gains what the list says more than the side
\* that made the capture before is ahead by.
LEMMA SwapListIsBestPlay ==
  ASSUME NEW takes \in Seq(Int)
  PROVE  Backwards(Gains(takes)) = WorthOf(takes)
PROOF
<1> DEFINE N == Len(takes)
           g == Gains(takes)
<1>1. N \in Nat /\ DOMAIN takes = 1 .. N /\ \A n \in 1 .. N : takes[n] \in Int OBVIOUS
<1>2. /\ DOMAIN g = 1 .. N /\ g = [n \in 1 .. N |-> g[n]]
      /\ \A n \in 1 .. N : g[n] \in Int /\ g[n] = IF n = 1 THEN takes[1] ELSE takes[n] - g[n - 1]
  BY GainsAre
<1>3. CASE N = 0
  <2>1. takes = <<>> BY <1>3
  <2>2. 1 .. N = {} BY <1>3
  <2> HIDE DEF g
  <2>3. g = <<>> BY <1>2, <2>2
  <2>4. QED BY <2>1, <2>3 DEF Backwards, WorthOf, g
<1>4. CASE N # 0
  <2> DEFINE P(back) == back = [n \in DOMAIN g |->
               IF n + 1 \notin DOMAIN g THEN g[n] ELSE -Max({-g[n], back[n + 1]})]
             F == [x \in (1 .. N) \X Int |-> -Max({-g[x[1]], x[2]})]
  <2>0. 1 \in 1 .. N BY <1>1, <1>4
  <2>1. g # <<>>
    <3> HIDE DEF g
    <3>1. QED BY <1>2, <2>0
  <2>2. PICK from : /\ WorthOf(takes) = from[1] /\ from \in [1 .. N -> Int]
                    /\ \A n \in 1 .. N :
                         from[n] = takes[n] - (IF n = N THEN 0 ELSE Max({0, from[n + 1]}))
    BY <1>4, BestPlayIs
  <2> HIDE DEF N, g
  <2>3. ASSUME NEW n \in 1 .. N, NEW x \in Int
        PROVE  Max({-g[n], x}) = (IF -g[n] >= x THEN -g[n] ELSE x) /\ Max({-g[n], x}) \in Int
    <3>0. \A i \in Int : -i \in Int OBVIOUS
    <3>4. g[n] \in Int BY <1>2
    <3>1. -g[n] \in Int BY <3>0, <3>4
    <3>2. Max({-g[n], x}) = IF -g[n] >= x THEN -g[n] ELSE x BY <3>1, MaxOfTwo
    <3>3. QED BY <3>1, <3>2
  <2>4. F \in [(1 .. N) \X Int -> Int]
    <3>1. \A x \in (1 .. N) \X Int : -Max({-g[x[1]], x[2]}) \in Int BY <2>3
    <3>2. QED BY <3>1
  <2>5. ASSUME NEW n \in 1 .. N, NEW x \in Int PROVE F[<<n, x>>] = -Max({-g[n], x})
    <3>1. <<n, x>> \in (1 .. N) \X Int OBVIOUS
    <3>2. QED BY <3>1
  <2> HIDE DEF F
  <2>6. -g[N] \in Int /\ N \in 1 .. N
    <3>1. N \in 1 .. N BY <1>1, <1>4
    <3>2. g[N] \in Int BY <1>2, <3>1
    <3>3. \A i \in Int : -i \in Int OBVIOUS
    <3>4. QED BY <3>1, <3>2, <3>3
  <2> DEFINE v == -g[N]
  <2>7. PICK f \in [1 .. N + 1 -> Int] :
          f[N + 1] = v /\ \A n \in 1 .. N : f[n] = F[<<n, f[n + 1]>>]
    <3>1. v \in Int BY <2>6
    <3> HIDE DEF v
    <3>2. QED BY <1>1, <2>4, <3>1, IteratedBack, Zenon
  <2>8. \A n \in 1 .. N : f[n] = IF n + 1 \notin 1 .. N THEN g[n] ELSE -Max({-g[n], f[n + 1]})
    <3> SUFFICES ASSUME NEW n \in 1 .. N
                 PROVE  f[n] = IF n + 1 \notin 1 .. N THEN g[n] ELSE -Max({-g[n], f[n + 1]})
      OBVIOUS
    <3>1. n + 1 \in 1 .. N + 1 /\ f[n + 1] \in Int BY <1>1
    <3>2. f[n] = -Max({-g[n], f[n + 1]}) BY <2>5, <2>7, <3>1
    <3>3. CASE n + 1 \notin 1 .. N
      <4>1. n = N BY <1>1, <3>3
      <4>2. f[n + 1] = -g[n] BY <2>7, <4>1
      <4>3. Max({-g[n], f[n + 1]}) = -g[n] BY <2>3, <2>6, <4>1, <4>2
      <4>4. g[n] \in Int BY <1>2
      <4>5. f[n] = g[n] BY <3>2, <4>3, <4>4
      <4>6. QED BY <3>3, <4>5
    <3>4. QED BY <3>2, <3>3
  <2> DEFINE h == [n \in 1 .. N |-> f[n]]
  <2>9. P(h)
    <3>1. \A n \in 1 .. N : n + 1 \in 1 .. N => h[n + 1] = f[n + 1] BY <1>1
    <3>2. \A n \in 1 .. N : h[n] = IF n + 1 \notin 1 .. N THEN g[n] ELSE -Max({-g[n], h[n + 1]})
      BY <2>8, <3>1
    <3>3. QED BY <1>2, <3>2
  <2> HIDE DEF h
  <2> DEFINE back == CHOOSE back : P(back)
  <2>10. P(back) BY <2>9
  <2>11. Backwards(g) = back[1] BY <2>1 DEF Backwards
  <2> HIDE DEF back
  <2>12. \A n \in 1 .. N :
           back[n] = IF n + 1 \notin 1 .. N THEN g[n] ELSE -Max({-g[n], back[n + 1]})
    BY <1>2, <2>10, Zenon
  <2> HIDE DEF P
  <2> DEFINE ahead(n) == IF n = 1 THEN 0 ELSE g[n - 1]
             K == {k \in Nat : k < N => back[N - k] = from[N - k] - ahead(N - k)}
  <2>13. ASSUME NEW n \in 1 .. N PROVE ahead(n) \in Int /\ g[n] = takes[n] - ahead(n)
    <3>1. CASE n = 1
      <4>1. takes[1] \in Int BY <1>1, <2>0
      <4>2. takes[1] - 0 = takes[1] /\ ahead(n) = 0 BY <3>1, <4>1
      <4>3. g[1] = takes[1] BY <1>2, <2>0
      <4>4. QED BY <3>1, <4>2, <4>3
    <3>2. CASE n # 1
      <4>1. n - 1 \in 1 .. N BY <1>1, <3>2
      <4>2. QED BY <1>2, <3>2, <4>1
    <3>3. QED BY <3>1, <3>2
  <2>14. 0 \in K
    <3>1. N - 0 = N /\ N + 1 \notin 1 .. N BY <1>1
    <3>2. back[N] = g[N] BY <2>6, <2>12, <3>1
    <3>3. takes[N] \in Int /\ from[N] = takes[N] - 0 BY <1>1, <2>2, <2>6
    <3>4. from[N] = takes[N] BY <3>3
    <3> HIDE DEF ahead
    <3>5. g[N] = takes[N] - ahead(N) BY <2>6, <2>13
    <3>6. QED BY <3>1, <3>2, <3>4, <3>5
  <2>15. ASSUME NEW k \in Nat, k \in K PROVE k + 1 \in K
    <3> DEFINE n == N - (k + 1)
    <3> SUFFICES ASSUME k + 1 < N PROVE back[n] = from[n] - ahead(n) OBVIOUS
    <3>1. n \in 1 .. N /\ n # N /\ n + 1 = N - k /\ k < N /\ n + 1 \in 1 .. N /\ n + 1 # 1
          /\ (n + 1) - 1 = n
      BY <1>1
    <3>2. back[n + 1] = from[n + 1] - ahead(n + 1) BY <2>15, <3>1
    <3>3. ahead(n + 1) = g[n] BY <3>1
    <3> HIDE DEF n, ahead
    <3>4. back[n] = -Max({-g[n], back[n + 1]}) BY <2>12, <3>1
    <3>5. from[n] = takes[n] - Max({0, from[n + 1]}) BY <2>2, <3>1
    <3> DEFINE x == from[n + 1]
               y == g[n]
               z == back[n + 1]
               w == takes[n]
               a == ahead(n)
    <3>6. x \in Int /\ y \in Int /\ w \in Int /\ a \in Int BY <1>1, <1>2, <2>2, <2>13, <3>1
    <3>7. y = w - a BY <2>13, <3>1
    <3>8. z = x - y BY <3>2, <3>3
    <3> HIDE DEF x, y, z, w, a
    <3>9. Max({0, x}) = IF 0 >= x THEN 0 ELSE x
      <4>1. 0 \in Int OBVIOUS
      <4>2. QED BY <3>6, <4>1, MaxOfTwo
    <3>10. z \in Int BY <3>6, <3>8
    <3>11. Max({-y, z}) = IF -y >= z THEN -y ELSE z BY <2>3, <3>1, <3>10 DEF y
    <3>12. -Max({-y, z}) = (w - Max({0, x})) - a BY <3>6, <3>7, <3>8, <3>9, <3>10, <3>11
    <3>13. QED BY <3>4, <3>5, <3>12 DEF x, y, z, w, a
  <2>16. back[1] = from[1]
    <3>1. \A k \in Nat : k \in K
      <4> HIDE DEF K
      <4>1. QED BY <2>14, <2>15, NumbersByInduction
    <3>2. N - 1 \in Nat /\ N - 1 < N /\ N - (N - 1) = 1 BY <1>1, <1>4
    <3>3. N - 1 \in K BY <3>1, <3>2
    <3>4. back[1] = from[1] - 0 BY <3>2, <3>3
    <3>5. from[1] \in Int BY <2>0, <2>2
    <3>6. QED BY <3>4, <3>5
  <2>17. QED BY <2>2, <2>11, <2>16 DEF g
<1>5. QED BY <1>3, <1>4


\* What men are worth in an exchange are numbers, and one man alone is worth his
\* value.
LEMMA ValuesAre ==
  ASSUME NEW b \in Board, NEW S \in SUBSET Squares, \A s \in S : b[s] \in Piece
  PROVE  /\ Values(b, S) \in Seq(Int) /\ Len(Values(b, S)) = Cardinality(S)
         /\ IsFiniteSet(S) /\ Cardinality(S) \in Nat
         /\ \A s \in S : S = {s} => Values(b, S)[1] = VALUE(b[s].type)
PROOF
<1> DEFINE value(s) == VALUE(b[s].type)
           V == {value(s) : s \in S}
           upto(v) == {s \in S : value(s) <= v}
           enough(i) == {v \in V : Cardinality(upto(v)) >= i}
           n == Cardinality(S)
<1>1. IsFiniteSet(S) /\ n \in Nat
  BY WorthFacts, FS_Subset, FS_CardinalityType
<1>2. \A s \in S : value(s) \in Int
  <2>1. \A s \in S : b[s].type \in {KING, GUARD, CHARIOT, CANNON, HORSE, ELEPHANT, PAWN}
    BY DEF Piece
  <2>2. \A t \in {KING, GUARD, CHARIOT, CANNON, HORSE, ELEPHANT, PAWN} : VALUE(t) \in Int
    BY DEF VALUE, DEFAULT_CONFIG
  <2>3. QED BY <2>1, <2>2
<1>3. IsFiniteSet(V)
  <2> DEFINE f == [s \in S |-> value(s)]
  <2>1. f \in Surjection(S, V) BY DEF Surjection
  <2> HIDE DEF V, f
  <2>2. QED BY <1>1, <2>1, FS_Surjection
<1>4. V \subseteq Int BY <1>2
<1>5. Values(b, S) = [i \in 1 .. n |-> Min(enough(i))] BY DEF Values
<1> HIDE DEF value, n
<1>6. ASSUME NEW i \in 1 .. n
      PROVE  Min(enough(i)) \in V
  <2>1. S # {}
    <3>1. Cardinality({}) = 0 BY FS_EmptySet
    <3>2. n # 0 BY <1>1
    <3>3. QED BY <3>1, <3>2 DEF n
  <2>2. V # {} BY <2>1
  <2> DEFINE m == Max(V)
  <2>3. m \in V /\ \A v \in V : v <= m
    <3> HIDE DEF V
    <3>1. QED BY <1>3, <1>4, <2>2, MaxMin
  <2> HIDE DEF m
  <2>4. upto(m) = S BY <2>3
  <2>5. m \in enough(i) BY <1>1, <2>3, <2>4 DEF n
  <2>6. enough(i) \subseteq V OBVIOUS
  <2> HIDE DEF V, enough
  <2>7. enough(i) # {} /\ IsFiniteSet(enough(i)) /\ enough(i) \subseteq Int
    BY <1>3, <1>4, <2>5, <2>6, FS_Subset
  <2>8. Min(enough(i)) \in enough(i) BY <2>7, MaxMin
  <2>9. QED BY <2>6, <2>8
<1>7. Values(b, S) \in Seq(Int) /\ Len(Values(b, S)) = n
  <2>1. \A i \in 1 .. n : Min(enough(i)) \in Int BY <1>4, <1>6
  <2> HIDE DEF enough, V
  <2>2. QED BY <1>1, <1>5, <2>1
<1>8. ASSUME NEW s \in S, S = {s} PROVE Values(b, S)[1] = value(s)
  <2>1. n = 1 BY <1>8, FS_Singleton DEF n
  <2>2. 1 \in 1 .. n BY <2>1
  <2>3. V = {value(s)} BY <1>8
  <2> HIDE DEF enough, V
  <2>4. Min(enough(1)) = value(s) BY <1>6, <2>2, <2>3
  <2>5. QED BY <1>5, <2>2, <2>4
<1>9. QED BY <1>1, <1>7, <1>8 DEF n, value

\* Who attacks a square are men on the board, and what they are worth is known.
LEMMA AttackersAre ==
  ASSUME NEW b \in Board, NEW t \in Squares, NEW c \in Sides, b[t].color = c \/ b[t].color = Other(c)
  PROVE  LET S == AttackersOf(b, t, c)
         IN  /\ S \in SUBSET Squares /\ \A s \in S : b[s] \in Piece
             /\ Takers(b, t, c) \in Seq(Int) /\ Len(Takers(b, t, c)) = Cardinality(S)
             /\ IsFiniteSet(S) /\ Cardinality(S) \in Nat
             /\ \A s \in S : S = {s} => Takers(b, t, c)[1] = VALUE(b[s].type)
PROOF
<1> DEFINE S == AttackersOf(b, t, c)
           asked == IF b[t].color = Other(c) THEN b ELSE [b EXCEPT ![t] = Of(Other(c), PAWN)]
<1>1. Other(c) \in Sides /\ c # Other(c) BY DEF Other
<1>2. asked \in [Squares -> Piece \union {EMPTY}]
  BY <1>1 DEF Board, Of, Piece
<1>3. \A s \in Squares : asked[s].color = c => s # t
  <2>1. asked[t].color # c BY <1>1, <1>2 DEF Board, Of
  <2>2. QED BY <2>1
<1>4. \A s \in Squares : s # t => asked[s] = b[s] BY DEF Board
<1>5. \A s \in S : s \in Squares /\ asked[s].color = c BY DEF AttackersOf, Own
<1> HIDE DEF asked
<1>6. S \in SUBSET Squares /\ \A s \in S : b[s].color = c BY <1>3, <1>4, <1>5
<1>7. \A s \in S : b[s] \in Piece
  <2> HIDE DEF S
  <2>1. \A s \in S : b[s] \in Piece \union {EMPTY} BY <1>6 DEF Board
  <2>2. EMPTY.color = 2 /\ c # 2 BY DEF EMPTY
  <2>3. QED BY <1>6, <2>1, <2>2
<1> HIDE DEF S
<1>8. QED BY <1>6, <1>7, ValuesAre, Zenon DEF Takers, S


\* What is taken in turn are numbers; nothing is taken where nobody attacks, and
\* nothing where only a king does and somebody is left to answer.
LEMMA SwapsAre ==
  ASSUME NEW first \in Seq(Int), NEW second \in Seq(Int), NEW victim \in Int
  PROVE  /\ Swaps(first, second, victim) \in Seq(Int)
         /\ Len(first) = 0 => Swaps(first, second, victim) = <<>>
         /\ Len(first) = 1 /\ first[1] = VALUE(KING) /\ Len(second) # 0
              => Swaps(first, second, victim) = <<>>
PROOF
<1> DEFINE made(n) == IF n % 2 = 1 THEN first ELSE second
           turn(n) == (n + 1) \div 2
           possible(n) == /\ turn(n) <= Len(made(n))
                          /\ made(n)[turn(n)] = VALUE(KING) => turn(n + 1) > Len(made(n + 1))
           K == {n \in 0 .. Len(first) + Len(second) : \A k \in 1 .. n : possible(k)}
           longest == Max(K)
           entry(n) == IF n = 1 THEN victim ELSE made(n - 1)[turn(n - 1)]
           all == 0 .. Len(first) + Len(second)
<1>1. Swaps(first, second, victim) = [n \in 1 .. longest |-> entry(n)] BY DEF Swaps
<1>2. Len(first) \in Nat /\ Len(second) \in Nat OBVIOUS
<1>3. IsFiniteSet(all)
  <2>1. 0 \in Int /\ Len(first) + Len(second) \in Int BY <1>2
  <2>2. QED BY <2>1, FS_Interval
<1>4. K \subseteq all OBVIOUS
<1>5. 0 \in K BY <1>2
<1> HIDE DEF possible
<1>6. longest \in K /\ longest \in Nat
  <2>1. all \subseteq Nat /\ all \subseteq Int BY <1>2
  <2> HIDE DEF K, all
  <2>2. IsFiniteSet(K) /\ K \subseteq Int /\ K # {} BY <1>3, <1>4, <1>5, <2>1, FS_Subset
  <2>3. Max(K) \in K BY <2>2, MaxMin
  <2>4. QED BY <1>4, <2>1, <2>3
<1>7. \A k \in 1 .. longest : possible(k) BY <1>6
<1> HIDE DEF longest, K, all
<1>8. \A n \in 1 .. longest : entry(n) \in Int
  <2> SUFFICES ASSUME NEW n \in 1 .. longest, n # 1 PROVE entry(n) \in Int OBVIOUS
  <2>1. n - 1 \in 1 .. longest BY <1>6
  <2>2. turn(n - 1) <= Len(made(n - 1)) BY <1>7, <2>1 DEF possible
  <2>3. turn(n - 1) \in Nat /\ turn(n - 1) >= 1 BY <2>1
  <2>4. made(n - 1) \in Seq(Int) OBVIOUS
  <2> HIDE DEF made, turn
  <2>5. made(n - 1)[turn(n - 1)] \in Int BY <2>2, <2>3, <2>4
  <2>6. QED BY <2>5
<1> HIDE DEF entry
<1>9. Swaps(first, second, victim) \in Seq(Int) BY <1>1, <1>6, <1>8
<1>10. ASSUME ~possible(1) PROVE Swaps(first, second, victim) = <<>>
  <2>1. longest = 0
    <3>1. 1 \notin 1 .. longest BY <1>7, <1>10
    <3>2. QED BY <1>6, <3>1
  <2>2. 1 .. 0 = {} OBVIOUS
  <2>3. QED BY <1>1, <2>1, <2>2
<1>11. Len(first) = 0 => ~possible(1) BY DEF possible
<1>12. Len(first) = 1 /\ first[1] = VALUE(KING) /\ Len(second) # 0 => ~possible(1)
  <2>1. made(1) = first /\ made(1 + 1) = second /\ turn(1) = 1 /\ turn(1 + 1) = 1 OBVIOUS
  <2> HIDE DEF made, turn
  <2>2. QED BY <1>2, <2>1 DEF possible
<1>13. QED BY <1>9, <1>10, <1>11, <1>12

\* So it is of the exchange on a square where a man of the other side stands.
LEMMA ExchangeFacts ==
  ASSUME NEW b \in Board, NEW c \in Sides, NEW t \in Own(b, Other(c))
  PROVE  /\ Exchange(b, t, c) \in Seq(Int) /\ b[t] \in Piece
         /\ AttackersOf(b, t, c) = {} => Exchange(b, t, c) = <<>>
         /\ \A k : AttackersOf(b, t, c) = {k} /\ b[k].type = KING /\ AttackersOf(b, t, Other(c)) # {}
                   => Exchange(b, t, c) = <<>>
PROOF
<1>0. Other(c) \in Sides /\ Other(Other(c)) = c BY DEF Other
<1>1. t \in Squares /\ b[t].color = Other(c) BY DEF Own
<1>2. b[t] \in Piece
  <2>1. b[t] \in Piece \union {EMPTY} BY <1>1 DEF Board
  <2>2. EMPTY.color = 2 /\ Other(c) # 2 BY <1>0 DEF EMPTY
  <2>3. QED BY <1>1, <2>1, <2>2
<1>3. VALUE(b[t].type) \in Int
  <2>1. b[t].type \in {KING, GUARD, CHARIOT, CANNON, HORSE, ELEPHANT, PAWN} BY <1>2 DEF Piece
  <2>2. QED BY <2>1 DEF VALUE, DEFAULT_CONFIG
<1> DEFINE first == Takers(b, t, c)
           second == Takers(b, t, Other(c))
           S == AttackersOf(b, t, c)
           U == AttackersOf(b, t, Other(c))
<1>4. /\ first \in Seq(Int) /\ Len(first) = Cardinality(S) /\ IsFiniteSet(S)
      /\ \A s \in S : S = {s} => first[1] = VALUE(b[s].type)
  BY <1>1, AttackersAre
<1>5. second \in Seq(Int) /\ Len(second) = Cardinality(U) /\ IsFiniteSet(U)
  BY <1>0, <1>1, AttackersAre
<1>6. Exchange(b, t, c) = Swaps(first, second, VALUE(b[t].type)) BY DEF Exchange
<1> HIDE DEF first, second, S, U
<1>7. Exchange(b, t, c) \in Seq(Int) BY <1>3, <1>4, <1>5, <1>6, SwapsAre
<1>8. ASSUME S = {} PROVE Exchange(b, t, c) = <<>>
  <2>1. Len(first) = 0 BY <1>4, <1>8, FS_EmptySet
  <2>2. QED BY <1>3, <1>4, <1>5, <1>6, <2>1, SwapsAre
<1>9. ASSUME NEW k, S = {k}, b[k].type = KING, U # {} PROVE Exchange(b, t, c) = <<>>
  <2>1. Len(first) = 1 BY <1>4, <1>9, FS_Singleton
  <2>2. first[1] = VALUE(KING) BY <1>4, <1>9
  <2>3. Len(second) # 0 BY <1>5, <1>9, FS_EmptySet
  <2>4. QED BY <1>3, <1>4, <1>5, <1>6, <2>1, <2>2, <2>3, SwapsAre
<1>10. \A k : S = {k} /\ b[k].type = KING /\ U # {} => Exchange(b, t, c) = <<>> BY <1>9
<1>11. QED BY <1>2, <1>7, <1>8, <1>10, Zenon DEF S, U

\* The worth of nothing is nothing.
LEMMA NothingTaken ==
  ASSUME NEW b, NEW t, NEW c, Exchange(b, t, c) = <<>>
  PROVE  SeeGain(b, t, c) = 0
PROOF
<1>1. <<>> \in Seq(Int) /\ Len(<<>>) = 0 OBVIOUS
<1>2. Backwards(Gains(<<>>)) = WorthOf(<<>>) BY <1>1, SwapListIsBestPlay
<1>3. WorthOf(<<>>) = 0 BY DEF WorthOf
<1>4. QED BY <1>2, <1>3 DEF SeeGain


\* Whoever goes comes elsewhere.
LEMMA StepsLeave ==
  /\ \A s \in Plane, d \in Dirs, n \in Int : n # 0 => Along(s, d, n) # s
  /\ \A s \in Squares, l \in Legs, n \in {1, 2} : Along(Along(s, l[1], 1), l[2], n) # s
PROOF
<1>1. ASSUME NEW s \in Plane, NEW d \in Dirs, NEW n \in Int, n # 0 PROVE Along(s, d, n) # s
  <2>1. s[1] \in Int /\ s[2] \in Int BY DEF Plane
  <2>2. d[1] \in {-1, 0, 1} /\ d[2] \in {-1, 0, 1} /\ (d[1] # 0 \/ d[2] # 0)
    <3>1. CASE d \in ORTH_DIRS BY <3>1 DEF ORTH_DIRS
    <3>2. CASE d \in DIAG_DIRS BY <3>2 DEF DIAG_DIRS
    <3>3. QED BY <3>1, <3>2 DEF Dirs
  <2>3. \A u \in Int, e \in {-1, 0, 1} : e # 0 => u + n * e # u BY <1>1
  <2>4. s[1] + n * d[1] # s[1] \/ s[2] + n * d[2] # s[2]
    <3> DEFINE d1 == d[1]  d2 == d[2]
    <3> HIDE DEF d1, d2
    <3>1. (d1 # 0 => s[1] + n * d1 # s[1]) /\ (d2 # 0 => s[2] + n * d2 # s[2])
      BY <2>1, <2>2, <2>3 DEF d1, d2
    <3>2. QED BY <2>2, <3>1 DEF d1, d2
  <2>5. Along(s, d, n)[1] = s[1] + n * d[1] /\ Along(s, d, n)[2] = s[2] + n * d[2] BY DEF Along
  <2>6. QED BY <2>4, <2>5
<1>2. ASSUME NEW s \in Squares, NEW l \in Legs, NEW n \in {1, 2}
      PROVE  Along(Along(s, l[1], 1), l[2], n) # s
  <2> DEFINE d == l[1]
             f == l[2]
  <2>1. d \in ORTH_DIRS /\ f \in Outward(d) /\ f \in DIAG_DIRS BY DEF Legs, Outward
  <2>2. /\ d \in {<<-1, 0>>, <<1, 0>>, <<0, -1>>, <<0, 1>>} /\ f[1] \in {-1, 1} /\ f[2] \in {-1, 1}
        /\ \A i \in 1 .. 2 : d[i] # 0 => f[i] = d[i]
    BY <2>1 DEF ORTH_DIRS, DIAG_DIRS, Outward
  <2>3. (d[1] # 0 => f[1] = d[1]) /\ (d[2] # 0 => f[2] = d[2])
    <3>1. 1 \in 1 .. 2 /\ 2 \in 1 .. 2 OBVIOUS
    <3>2. QED BY <2>2, <3>1
  <2>4. PICK x \in 0 .. 9, y \in 0 .. 8 : s = <<x, y>> BY SquareFacts
  <2> HIDE DEF d, f
  <2>5. Along(Along(s, d, 1), f, n) = <<x + d[1] + n * f[1], y + d[2] + n * f[2]>>
    BY <2>2, <2>4 DEF Along
  <2>6. x + d[1] + n * f[1] # x \/ y + d[2] + n * f[2] # y BY <2>2, <2>3, <2>4
  <2>7. QED BY <2>4, <2>5, <2>6 DEF d, f
<1>3. QED BY <1>1, <1>2

\* What is looked at to find out who attacks a square are other squares.
LEMMA AroundFacts ==
  ASSUME NEW t \in Squares
  PROVE  /\ \A ray \in RAYS_ALL[t] :
              Len(ray) \in Nat /\ \A i \in 1 .. Len(ray) : ray[i] \in Squares \ {t}
         /\ \A f \in Squares : \A x \in HORSE_MOVES[f] :
              x[2] = t => x[1] \in Squares \ {t} /\ f # t
         /\ \A f \in Squares : \A x \in ELEPHANT_MOVES[f] :
              x[3] = t => x[1] \in Squares \ {t} /\ x[2] \in Squares \ {t} /\ f # t
         /\ \A f \in Squares : \A c \in Sides : t \in PAWN_MOVES[c][f] => f # t
         /\ PALACE_STEPS[t] \subseteq Squares \ {t}
PROOF
<1>1. ASSUME NEW ray \in RAYS_ALL[t]
      PROVE  Len(ray) \in Nat /\ \A i \in 1 .. Len(ray) : ray[i] \in Squares \ {t}
  <2>1. PICK d \in Dirs : ray = RayFrom(t, d) BY RaysAre
  <2>2. /\ Len(ray) \in 0 .. 10
        /\ \A i \in 1 .. Len(ray) : ray[i] = Along(t, d, i) /\ ray[i] \in Squares
    BY <2>1, RayFacts
  <2>3. \A i \in 1 .. Len(ray) : Along(t, d, i) # t
    <3>1. t \in Plane /\ \A i \in 1 .. Len(ray) : i \in Int /\ i # 0 BY <2>2, PlaneFacts
    <3>2. QED BY <3>1, StepsLeave
  <2>4. QED BY <2>2, <2>3
<1>2. ASSUME NEW f \in Squares, NEW x \in HORSE_MOVES[f], x[2] = t
      PROVE  x[1] \in Squares \ {t} /\ f # t
  <2>1. PICK l \in Legs : x = <<Along(f, l[1], 1), Along(Along(f, l[1], 1), l[2], 1)>>
    BY StepTables
  <2>2. x[1] \in Squares BY MirrorLegs
  <2>3. x[1] = Along(f, l[1], 1) /\ t = Along(x[1], l[2], 1) BY <1>2, <2>1
  <2>4. l[2] \in Dirs BY LegFacts
  <2>5. x[1] \in Plane BY <2>2, PlaneFacts
  <2>6. t # x[1] BY <2>3, <2>4, <2>5, StepsLeave
  <2>7. t # f BY <2>3, StepsLeave
  <2>8. QED BY <2>2, <2>6, <2>7
<1>3. ASSUME NEW f \in Squares, NEW x \in ELEPHANT_MOVES[f], x[3] = t
      PROVE  x[1] \in Squares \ {t} /\ x[2] \in Squares \ {t} /\ f # t
  <2>1. PICK l \in Legs : x = <<Along(f, l[1], 1), Along(Along(f, l[1], 1), l[2], 1),
                                Along(Along(f, l[1], 1), l[2], 2)>>
    BY StepTables
  <2>2. x[1] \in Squares /\ x[2] \in Squares BY MirrorLegs
  <2>3. x[1] = Along(f, l[1], 1) /\ x[2] = Along(x[1], l[2], 1) /\ t = Along(x[1], l[2], 2)
    BY <1>3, <2>1
  <2>4. l[2] \in Dirs BY LegFacts
  <2>5. x[1] \in Plane /\ x[2] \in Plane BY <2>2, PlaneFacts
  <2>6. t # x[1] BY <2>3, <2>4, <2>5, StepsLeave
  <2>7. t # f BY <2>3, StepsLeave
  <2>8. t = Along(x[2], l[2], 1)
    <3>1. 1 \in Int /\ 1 + 1 = 2 OBVIOUS
    <3>2. Along(Along(x[1], l[2], 1), l[2], 1) = Along(x[1], l[2], 1 + 1)
      BY <2>2, <2>4, <3>1, AlongFacts
    <3>3. QED BY <2>3, <3>1, <3>2
  <2>9. t # x[2] BY <2>4, <2>5, <2>8, StepsLeave
  <2>10. QED BY <2>2, <2>6, <2>7, <2>9
<1>4. ASSUME NEW f \in Squares, NEW d \in Dirs PROVE Along(f, d, 1) # f
  BY PlaneFacts, StepsLeave
<1>5. ASSUME NEW f \in Squares, NEW c \in Sides, t \in PAWN_MOVES[c][f] PROVE f # t
  <2>1. PICK d : /\ d \in {<<Forward(c), 0>>, <<0, -1>>, <<0, 1>>, <<Forward(c), -1>>, <<Forward(c), 1>>}
                 /\ t = Along(f, d, 1)
    BY <1>5, StepTables
  <2>2. d \in Dirs BY <2>1 DEF Forward, Dirs, ORTH_DIRS, DIAG_DIRS
  <2>3. QED BY <1>4, <2>1, <2>2
<1>6. PALACE_STEPS[t] \subseteq Squares \ {t}
  <2>1. ASSUME NEW s \in PALACE_STEPS[t] PROVE s \in Squares /\ s # t
    <3>1. PICK d \in Dirs : s = Along(t, d, 1) BY StepTables
    <3>2. QED BY <1>4, <3>1, PalaceStepBack
  <2>2. QED BY <2>1
<1>7. QED BY <1>1, <1>2, <1>3, <1>5, <1>6


\* Who attacks a square does not depend on what stands there, unless it is a cannon.
LEMMA AttackIgnoresVictim ==
  ASSUME NEW b, NEW e, NEW t \in Squares, NEW c \in Sides,
         \A s \in Squares \ {t} : b[s] = e[s],
         b[t].type # CANNON, e[t].type # CANNON, AttackedBy(b, t, c)
  PROVE  AttackedBy(e, t, c)
PROOF
<1>1. ASSUME NEW ray \in RAYS_ALL[t], SlideHits(ray, t, b, c)
      PROVE  SlideHits(ray, t, e, c)
  <2>1. Len(ray) \in Nat /\ \A i \in 1 .. Len(ray) : b[ray[i]] = e[ray[i]]
    BY AroundFacts
  <2>2. ASSUME NEW k \in Nat PROVE Sight(ray, k, b) = Sight(ray, k, e)
    BY <2>1 DEF Sight
  <2>3. \A k \in Nat : \A i \in Sight(ray, k, b) : i \in 1 .. Len(ray) /\ i \in Nat
    BY <2>1 DEF Sight
  <2>4. 0 \in Nat OBVIOUS
  <2>5. PICK k \in Sight(ray, 0, b) :
          \/ b[ray[k]] = Of(c, CHARIOT)
          \/ /\ b[ray[k]].type \notin {EMPTY.type, CANNON}
             /\ \E i \in Sight(ray, k, b) : b[ray[i]] = Of(c, CANNON)
    BY <1>1 DEF SlideHits
  <2>6. k \in Sight(ray, 0, e) /\ b[ray[k]] = e[ray[k]] /\ k \in Nat BY <2>1, <2>2, <2>3, <2>4
  <2>7. CASE b[ray[k]] = Of(c, CHARIOT) BY <2>6, <2>7 DEF SlideHits
  <2>8. CASE /\ b[ray[k]].type \notin {EMPTY.type, CANNON}
             /\ \E i \in Sight(ray, k, b) : b[ray[i]] = Of(c, CANNON)
    <3>1. PICK i \in Sight(ray, k, b) : b[ray[i]] = Of(c, CANNON) BY <2>8
    <3>2. i \in Sight(ray, k, e) /\ e[ray[i]] = Of(c, CANNON) BY <2>1, <2>2, <2>3, <2>6, <3>1
    <3>3. QED BY <2>6, <2>8, <3>2 DEF SlideHits
  <2>9. QED BY <2>5, <2>7, <2>8
<1>2. CASE \E ray \in RAYS_ALL[t] : SlideHits(ray, t, b, c) BY <1>1, <1>2 DEF AttackedBy
<1>3. CASE \E x \in HORSE_ATTACKS[t] : b[x[2]] = Of(c, HORSE) /\ b[x[1]] = EMPTY
  <2>1. PICK x \in HORSE_ATTACKS[t] : b[x[2]] = Of(c, HORSE) /\ b[x[1]] = EMPTY BY <1>3
  <2>2. PICK f \in Squares : x \in {<<y[1], f>> : y \in {z \in HORSE_MOVES[f] : z[2] = t}}
    BY TablesReverse
  <2>3. PICK y \in HORSE_MOVES[f] : x = <<y[1], f>> /\ y[2] = t BY <2>2
  <2>4. x[1] \in Squares \ {t} /\ x[2] \in Squares \ {t} BY <2>3, AroundFacts
  <2>5. e[x[2]] = Of(c, HORSE) /\ e[x[1]] = EMPTY BY <2>1, <2>4
  <2>6. QED BY <2>5 DEF AttackedBy
<1>4. CASE \E x \in ELEPHANT_ATTACKS[t] :
             b[x[3]] = Of(c, ELEPHANT) /\ b[x[1]] = EMPTY /\ b[x[2]] = EMPTY
  <2>1. PICK x \in ELEPHANT_ATTACKS[t] :
          b[x[3]] = Of(c, ELEPHANT) /\ b[x[1]] = EMPTY /\ b[x[2]] = EMPTY
    BY <1>4
  <2>2. PICK f \in Squares : x \in {<<y[1], y[2], f>> : y \in {z \in ELEPHANT_MOVES[f] : z[3] = t}}
    BY TablesReverse
  <2>3. PICK y \in ELEPHANT_MOVES[f] : x = <<y[1], y[2], f>> /\ y[3] = t BY <2>2
  <2>4. x[1] \in Squares \ {t} /\ x[2] \in Squares \ {t} /\ x[3] \in Squares \ {t}
    BY <2>3, AroundFacts
  <2>5. e[x[3]] = Of(c, ELEPHANT) /\ e[x[1]] = EMPTY /\ e[x[2]] = EMPTY BY <2>1, <2>4
  <2>6. QED BY <2>5 DEF AttackedBy
<1>5. CASE \E s \in PAWN_ATTACKS[c][t] : b[s] = Of(c, PAWN)
  <2>1. PICK f \in PAWN_ATTACKS[c][t] : b[f] = Of(c, PAWN) BY <1>5
  <2>2. f \in Squares /\ t \in PAWN_MOVES[c][f] BY TablesReverse
  <2>3. f \in Squares \ {t} BY <2>2, AroundFacts
  <2>4. e[f] = Of(c, PAWN) BY <2>1, <2>3
  <2>5. QED BY <2>4 DEF AttackedBy
<1>6. CASE \E s \in PALACE_STEPS[t] : b[s] \in {Of(c, KING), Of(c, GUARD)}
  <2>1. PICK s \in PALACE_STEPS[t] : b[s] \in {Of(c, KING), Of(c, GUARD)} BY <1>6
  <2>2. s \in Squares \ {t} BY AroundFacts
  <2>3. e[s] \in {Of(c, KING), Of(c, GUARD)} BY <2>1, <2>2
  <2>4. QED BY <2>3 DEF AttackedBy
<1>7. QED BY <1>2, <1>3, <1>4, <1>5, <1>6 DEF AttackedBy

\* The men an exchange counts on are there exactly when attack detection says so.
LEMMA AttackersAreReal ==
  ASSUME NEW b \in Board, NEW t \in Squares, NEW c \in Sides
  PROVE  /\ b[t].color = Other(c) => (AttackersOf(b, t, c) # {} <=> AttackedBy(b, t, c))
         /\ b[t].color # Other(c) =>
              (AttackersOf(b, t, c) # {}
                 <=> AttackedBy([b EXCEPT ![t] = Of(Other(c), KING)], t, c))
PROOF
<1> DEFINE asked == IF b[t].color = Other(c) THEN b ELSE [b EXCEPT ![t] = Of(Other(c), PAWN)]
           e == [b EXCEPT ![t] = Of(Other(c), KING)]
<1>1. Other(c) \in Sides BY DEF Other
<1>2. asked \in Board BY <1>1 DEF Board, Of, Piece
<1>3. AttackersOf(b, t, c) = {s \in Own(asked, c) : t \in Reach(s, asked)} BY DEF AttackersOf
<1>4. b[t].color # Other(c) =>
        /\ \A s \in Squares \ {t} : asked[s] = e[s]
        /\ asked[t].type # CANNON /\ e[t].type # CANNON
  BY DEF Board, Of
<1>5. b[t].color = Other(c) => asked = b OBVIOUS
<1> HIDE DEF asked, e
<1>6. AttackersOf(b, t, c) # {} <=> AttackedBy(asked, t, c) BY <1>2, <1>3, AttackIsReach
<1>7. ASSUME b[t].color # Other(c) PROVE AttackedBy(asked, t, c) <=> AttackedBy(e, t, c)
  <2>1. \A s \in Squares \ {t} : e[s] = asked[s] BY <1>4, <1>7
  <2>2. AttackedBy(asked, t, c) => AttackedBy(e, t, c) BY <1>4, <1>7, AttackIgnoresVictim
  <2>3. AttackedBy(e, t, c) => AttackedBy(asked, t, c) BY <1>4, <1>7, <2>1, AttackIgnoresVictim
  <2>4. QED BY <2>2, <2>3
<1>8. QED BY <1>5, <1>6, <1>7 DEF e

\* What explain.py says of exchanges is what best play in them is worth, and the men
\* it says hang can be taken (JanggiGame's ExchangesAgree, a part of TablesAgree).
THEOREM ExchangesAreBestPlay == Spec => []ExchangesAgree
PROOF
<1>1. Replayed => ExchangesAgree
  <2> SUFFICES ASSUME Replayed, NEW c \in Sides
               PROVE  LET hanging == HangingPieces(pos.board, c)
                      IN  /\ \A s \in Own(pos.board, c) :
                               /\ SeeGain(pos.board, s, Other(c))
                                    = WorthOf(Exchange(pos.board, s, Other(c)))
                               /\ AttackersOf(pos.board, s, c) # {} <=> Defended(s, c)
                          /\ hanging \subseteq {m[2] : m \in PseudoMoves(pos.board, Other(c))}
                          /\ \A s \in hanging :
                               AttackersOf(pos.board, s, Other(c)) = {pos.kings[Other(c)]}
                                 => ~Defended(s, c)
    BY DEF ExchangesAgree
  <2> DEFINE b == pos.board
             by == Other(c)
  <2>1. Good(pos) BY ReplayedIsGood
  <2>2. b \in Board /\ \A x \in Sides : b[pos.kings[x]] = Of(x, KING)
    BY <2>1 DEF Good, WellFormed, Position, KingsStand
  <2>3. by \in Sides /\ Other(by) = c /\ c # by BY DEF Other
  <2> HIDE DEF b, by
  <2>4. ASSUME NEW s \in Own(b, c)
        PROVE  /\ s \in Squares /\ b[s].color = c /\ b[s] # EMPTY /\ b[s] \in Piece
               /\ SeeGain(b, s, by) = WorthOf(Exchange(b, s, by))
               /\ AttackersOf(b, s, c) # {} <=> Defended(s, c)
               /\ AttackersOf(b, s, by) # {} <=> AttackedBy(b, s, by)
               /\ AttackersOf(b, s, by) = {} => SeeGain(b, s, by) = 0
               /\ \A k : AttackersOf(b, s, by) = {k} /\ b[k].type = KING /\ AttackersOf(b, s, c) # {}
                           => SeeGain(b, s, by) = 0
    <3>1. s \in Squares /\ b[s].color = c BY DEF Own
    <3>2. b[s] # EMPTY BY <3>1 DEF EMPTY
    <3>3. s \in Own(b, Other(by)) BY <2>3
    <3>4. /\ Exchange(b, s, by) \in Seq(Int) /\ b[s] \in Piece
          /\ AttackersOf(b, s, by) = {} => Exchange(b, s, by) = <<>>
          /\ \A k : AttackersOf(b, s, by) = {k} /\ b[k].type = KING /\ AttackersOf(b, s, c) # {}
                      => Exchange(b, s, by) = <<>>
      BY <2>2, <2>3, <3>3, ExchangeFacts
    <3>5. SeeGain(b, s, by) = WorthOf(Exchange(b, s, by))
      BY <3>2, <3>4, SwapListIsBestPlay DEF SeeGain
    <3>6. AttackersOf(b, s, c) # {} <=> Defended(s, c)
      <4>1. b[s].color # Other(c) BY <2>3, <3>1 DEF by
      <4>2. AttackersOf(b, s, c) # {} <=> AttackedBy([b EXCEPT ![s] = Of(Other(c), KING)], s, c)
        <5>1. \A x \in Board, u \in Squares, d \in Sides : x[u].color # Other(d) =>
                (AttackersOf(x, u, d) # {}
                   <=> AttackedBy([x EXCEPT ![u] = Of(Other(d), KING)], u, d))
          BY AttackersAreReal
        <5>2. c \in Sides OBVIOUS
        <5>3. QED BY <2>2, <3>1, <4>1, <5>1, <5>2, Zenon
      <4>3. QED BY <4>2, Zenon DEF Defended, b
    <3>7. AttackersOf(b, s, by) # {} <=> AttackedBy(b, s, by)
      <4>1. b[s].color = Other(by) BY <2>3, <3>1
      <4>2. QED BY <2>2, <2>3, <3>1, <4>1, AttackersAreReal, Zenon
    <3>8. QED BY <3>1, <3>2, <3>4, <3>5, <3>6, <3>7, NothingTaken
  <2>5. ASSUME NEW s \in HangingPieces(b, c)
        PROVE  s \in {m[2] : m \in PseudoMoves(b, by)}
    <3>1. s \in Own(b, c) /\ SeeGain(b, s, by) > 0 BY DEF HangingPieces, by
    <3>2. AttackedBy(b, s, by)
      <4>1. SeeGain(b, s, by) # 0 BY <3>1
      <4>2. QED BY <2>4, <3>1, <4>1
    <3>3. s \in Own(b, Other(by)) BY <2>3, <3>1
    <3>4. QED BY <2>2, <2>3, <3>2, <3>3, AttackIsCapture
  <2>6. ASSUME NEW s \in HangingPieces(b, c), AttackersOf(b, s, by) = {pos.kings[by]}, Defended(s, c)
        PROVE  FALSE
    <3>1. s \in Own(b, c) /\ SeeGain(b, s, by) > 0 BY DEF HangingPieces, by
    <3>2. SeeGain(b, s, by) # 0 BY <3>1
    <3>3. b[pos.kings[by]].type = KING BY <2>2, <2>3 DEF Of
    <3>4. QED BY <2>4, <2>6, <3>1, <3>2, <3>3
  <2>7. QED BY <2>4, <2>5, <2>6, Zenon DEF b, by
<1>2. QED BY <1>1, AlwaysReplayed, PTL

-----------------------------------------------------------------------------
(* Evaluations: what is counted square by square, and what is summed up.      *)

\* A renaming of a finite set changes nothing about how many there are.
LEMMA SizeRenamed ==
  ASSUME NEW S, NEW U, NEW f, IsFiniteSet(S),
         \A s \in S : f[s] \in U,
         \A s, r \in S : f[s] = f[r] => s = r,
         \A u \in U : \E s \in S : f[s] = u
  PROVE  IsFiniteSet(U) /\ Cardinality(U) = Cardinality(S)
PROOF
<1> DEFINE g == [s \in S |-> f[s]]
<1>1. g \in Bijection(S, U) BY DEF Bijection, Injection, Surjection, IsInjective
<1> HIDE DEF g
<1>2. ExistsBijection(S, U) BY <1>1 DEF ExistsBijection
<1>3. QED BY <1>2, FS_Bijection

\* Two ways from a square to another are one way.
LEMMA WaysAreOne ==
  /\ \A s \in Squares, d \in Dirs, e \in Dirs, i \in Nat, j \in Nat :
       i # 0 /\ j # 0 /\ Along(s, d, i) = Along(s, e, j) => d = e /\ i = j
  /\ \A s \in Squares, l \in Legs, m \in Legs, k \in {1, 2} :
       Along(Along(s, l[1], 1), l[2], k) = Along(Along(s, m[1], 1), m[2], k) => l = m
PROOF
<1>1. ASSUME NEW s \in Squares, NEW d \in Dirs, NEW e \in Dirs, NEW i \in Nat, NEW j \in Nat,
             i # 0, j # 0, Along(s, d, i) = Along(s, e, j)
      PROVE  d = e /\ i = j
  <2>1. PICK x \in 0 .. 9, y \in 0 .. 8 : s = <<x, y>> BY SquareFacts
  <2>2. ASSUME NEW f \in Dirs
        PROVE  f = <<f[1], f[2]>> /\ f[1] \in {-1, 0, 1} /\ f[2] \in {-1, 0, 1} /\ (f[1] # 0 \/ f[2] # 0)
    <3>1. CASE f \in ORTH_DIRS BY <3>1 DEF ORTH_DIRS
    <3>2. CASE f \in DIAG_DIRS BY <3>2 DEF DIAG_DIRS
    <3>3. QED BY <3>1, <3>2 DEF Dirs
  <2>3. ASSUME NEW z \in Int, NEW a \in {-1, 0, 1}, NEW c \in {-1, 0, 1}, z + i * a = z + j * c
        PROVE  a = c /\ (a # 0 => i = j)
    <3>1. CASE a = 0 BY <1>1, <2>3, <3>1
    <3>2. CASE a = 1 BY <1>1, <2>3, <3>2
    <3>3. CASE a = -1 BY <1>1, <2>3, <3>3
    <3>4. QED BY <3>1, <3>2, <3>3
  <2>4. x + i * d[1] = x + j * e[1] /\ y + i * d[2] = y + j * e[2] BY <1>1, <2>1 DEF Along
  <2>5. x \in Int /\ y \in Int OBVIOUS
  <2>6. d[1] = e[1] /\ (d[1] # 0 => i = j) BY <2>2, <2>3, <2>4, <2>5
  <2>7. d[2] = e[2] /\ (d[2] # 0 => i = j) BY <2>2, <2>3, <2>4, <2>5
  <2>8. QED BY <2>2, <2>6, <2>7
<1>2. ASSUME NEW s \in Squares, NEW l \in Legs, NEW m \in Legs, NEW k \in {1, 2},
             Along(Along(s, l[1], 1), l[2], k) = Along(Along(s, m[1], 1), m[2], k)
      PROVE  l = m
  <2>1. PICK x \in 0 .. 9, y \in 0 .. 8 : s = <<x, y>> BY SquareFacts
  <2>2. ASSUME NEW g \in Legs
        PROVE  /\ g = <<g[1], g[2]>> /\ g[1] = <<g[1][1], g[1][2]>> /\ g[2] = <<g[2][1], g[2][2]>>
               /\ g[1] \in {<<-1, 0>>, <<1, 0>>, <<0, -1>>, <<0, 1>>}
               /\ g[2][1] \in {-1, 1} /\ g[2][2] \in {-1, 1}
               /\ g[1][1] # 0 => g[2][1] = g[1][1]
               /\ g[1][2] # 0 => g[2][2] = g[1][2]
    <3>1. g = <<g[1], g[2]>> /\ g[1] \in ORTH_DIRS /\ g[2] \in Outward(g[1]) BY DEF Legs
    <3>2. /\ g[2] \in DIAG_DIRS
          /\ \A i \in 1 .. 2 : g[1][i] # 0 => g[2][i] = g[1][i]
      BY <3>1 DEF Outward
    <3>3. 1 \in 1 .. 2 /\ 2 \in 1 .. 2 OBVIOUS
    <3>4. (g[1][1] # 0 => g[2][1] = g[1][1]) /\ (g[1][2] # 0 => g[2][2] = g[1][2])
      BY <3>2, <3>3
    <3>5. g[1] \in {<<-1, 0>>, <<1, 0>>, <<0, -1>>, <<0, 1>>} /\ g[1] = <<g[1][1], g[1][2]>>
      BY <3>1 DEF ORTH_DIRS
    <3>6. g[2][1] \in {-1, 1} /\ g[2][2] \in {-1, 1} /\ g[2] = <<g[2][1], g[2][2]>>
      BY <3>2 DEF DIAG_DIRS
    <3>7. QED BY <3>1, <3>4, <3>5, <3>6
  <2>3. ASSUME NEW g \in Legs
        PROVE  Along(Along(s, g[1], 1), g[2], k)
                 = <<x + g[1][1] + k * g[2][1], y + g[1][2] + k * g[2][2]>>
    BY <2>1, <2>2 DEF Along
  <2>4. /\ x + l[1][1] + k * l[2][1] = x + m[1][1] + k * m[2][1]
        /\ y + l[1][2] + k * l[2][2] = y + m[1][2] + k * m[2][2]
    BY <1>2, <2>3
  <2> DEFINE a == l[1][1]  c == l[1][2]  d == l[2][1]  e == l[2][2]
             A == m[1][1]  C == m[1][2]  D == m[2][1]  E == m[2][2]
  <2>5. /\ a \in {-1, 0, 1} /\ c \in {-1, 0, 1} /\ d \in {-1, 1} /\ e \in {-1, 1}
        /\ a # 0 <=> c = 0
        /\ a # 0 => d = a
        /\ c # 0 => e = c
    BY <2>2
  <2>6. /\ A \in {-1, 0, 1} /\ C \in {-1, 0, 1} /\ D \in {-1, 1} /\ E \in {-1, 1}
        /\ A # 0 <=> C = 0
        /\ A # 0 => D = A
        /\ C # 0 => E = C
    BY <2>2
  <2>7. x + a + k * d = x + A + k * D /\ y + c + k * e = y + C + k * E BY <2>4
  <2> HIDE DEF a, c, d, e, A, C, D, E
  <2>8. a + k * d = A + k * D /\ c + k * e = C + k * E
    BY <2>1, <2>5, <2>6, <2>7
  <2>9. a = A /\ c = C /\ d = D /\ e = E
    <3>1. CASE k = 1 BY <2>5, <2>6, <2>8, <3>1
    <3>2. CASE k = 2 BY <2>5, <2>6, <2>8, <3>2
    <3>3. QED BY <3>1, <3>2
  <2>10. QED BY <2>2, <2>9 DEF a, c, d, e, A, C, D, E
<1>3. QED BY <1>1, <1>2


\* The rays of a square share no square.
LEMMA RaysApart ==
  ASSUME NEW s \in Squares
  PROVE  /\ IsFiniteSet(RAYS_ALL[s])
         /\ \A r \in RAYS_ALL[s] :
              /\ Len(r) \in Nat /\ \A i \in 1 .. Len(r) : r[i] \in Squares
              /\ \A i, j \in 1 .. Len(r) : r[i] = r[j] => i = j
         /\ \A r, q \in RAYS_ALL[s] : \A i \in 1 .. Len(r), j \in 1 .. Len(q) : r[i] = q[j] => r = q
PROOF
<1>1. IsFiniteSet(RAYS_ALL[s])
  <2> DEFINE f == [d \in Dirs |-> RayFrom(s, d)]
  <2>1. IsFiniteSet(Dirs)
    <3> DEFINE V == {-1, 0, 1}
    <3>1. IsFiniteSet(V)
      <4>1. IsFiniteSet({}) BY FS_EmptySet
      <4>2. IsFiniteSet({1}) BY FS_Singleton
      <4>3. IsFiniteSet({0, 1})
        <5>1. {0, 1} = {1} \union {0} OBVIOUS
        <5>2. QED BY <4>2, <5>1, FS_AddElement
      <4>4. {-1, 0, 1} = {0, 1} \union {-1} OBVIOUS
      <4>5. QED BY <4>3, <4>4, FS_AddElement
    <3> HIDE DEF V
    <3>2. IsFiniteSet(V \X V) BY <3>1, FS_Product
    <3>3. Dirs \subseteq V \X V
      <4>1. \A d \in Dirs : d = <<d[1], d[2]>> /\ d[1] \in V /\ d[2] \in V BY DirFacts DEF V
      <4>2. QED BY <4>1
    <3>4. QED BY <3>2, <3>3, FS_Subset
  <2>2. f \in Surjection(Dirs, RAYS_ALL[s])
    <3>1. RAYS_ALL[s] = {RayFrom(s, d) : d \in Dirs} BY RaysAre
    <3>2. f \in [Dirs -> RAYS_ALL[s]] BY <3>1
    <3>3. \A t \in RAYS_ALL[s] : \E d \in Dirs : f[d] = t BY <3>1
    <3> HIDE DEF f
    <3>4. QED BY <3>2, <3>3 DEF Surjection
  <2> HIDE DEF f
  <2>3. QED BY <2>1, <2>2, FS_Surjection
<1>2. ASSUME NEW r \in RAYS_ALL[s]
      PROVE  \E d \in Dirs : /\ r = RayFrom(s, d) /\ Len(r) \in 0 .. 10
                             /\ \A i \in 1 .. Len(r) : r[i] = Along(s, d, i) /\ r[i] \in Squares
  <2>1. PICK d \in Dirs : r = RayFrom(s, d) BY RaysAre
  <2>2. QED BY <2>1, RayFacts
<1>3. ASSUME NEW r \in RAYS_ALL[s], NEW q \in RAYS_ALL[s],
             NEW i \in 1 .. Len(r), NEW j \in 1 .. Len(q), r[i] = q[j]
      PROVE  r = q /\ i = j
  <2>1. PICK d \in Dirs : /\ r = RayFrom(s, d) /\ Len(r) \in 0 .. 10
                          /\ \A k \in 1 .. Len(r) : r[k] = Along(s, d, k)
    BY <1>2
  <2>2. PICK e \in Dirs : /\ q = RayFrom(s, e) /\ Len(q) \in 0 .. 10
                          /\ \A k \in 1 .. Len(q) : q[k] = Along(s, e, k)
    BY <1>2
  <2>3. i \in Nat /\ i # 0 /\ j \in Nat /\ j # 0 BY <2>1, <2>2
  <2>4. Along(s, d, i) = Along(s, e, j) BY <1>3, <2>1, <2>2
  <2>5. d = e /\ i = j BY <2>3, <2>4, WaysAreOne
  <2>6. QED BY <2>1, <2>2, <2>5
<1>4. QED BY <1>1, <1>2, <1>3

\* The squares a slider sees on a ray are as many as their places on it.
LEMMA CountedOnRay ==
  ASSUME NEW b, NEW s \in Squares, NEW r \in RAYS_ALL[s], NEW k \in Nat,
         NEW I \in SUBSET Sight(r, k, b)
  PROVE  /\ IsFiniteSet(I) /\ IsFiniteSet({r[i] : i \in I})
         /\ Cardinality({r[i] : i \in I}) = Cardinality(I)
PROOF
<1>1. Len(r) \in Nat /\ \A i, j \in 1 .. Len(r) : r[i] = r[j] => i = j BY RaysApart
<1>2. I \subseteq 1 .. Len(r) BY <1>1 DEF Sight
<1>3. IsFiniteSet(1 .. Len(r))
  <2>1. 1 \in Int /\ Len(r) \in Int BY <1>1
  <2>2. QED BY <2>1, FS_Interval
<1>4. IsFiniteSet(I) BY <1>2, <1>3, FS_Subset
<1> DEFINE U == {r[i] : i \in I}
<1>5. /\ \A i \in I : r[i] \in U
      /\ \A i, j \in I : r[i] = r[j] => i = j
      /\ \A u \in U : \E i \in I : r[i] = u
  BY <1>1, <1>2
<1> HIDE DEF U
<1>6. IsFiniteSet(U) /\ Cardinality(U) = Cardinality(I) BY <1>4, <1>5, SizeRenamed, Zenon
<1>7. QED BY <1>4, <1>6 DEF U


\* How many squares a piece may go to that are not its own side's.
Targets(b, s) == {t \in Reach(s, b) : b[t].color # b[s].color}

\* A chariot's moves, counted ray by ray.
LEMMA ChariotMobility ==
  ASSUME NEW b, NEW s \in Squares, b[s].type = CHARIOT
  PROVE  Mobility(b, s) = Cardinality(Targets(b, s)) /\ Mobility(b, s) \in Int
PROOF
<1> DEFINE places(r) == {i \in Sight(r, 0, b) : b[r[i]].color # b[s].color}
           R == RAYS_ALL[s]
           g == [r \in R |-> Cardinality(places(r))]
           F == [r \in R |-> {r[i] : i \in places(r)}]
           P(it) == it = [S \in SUBSET R |-> IF S = {} THEN 0
                                             ELSE Cardinality(places(First(S))) + it[S \ {First(S)}]]
<1>1. Mobility(b, s) = (CHOOSE it : P(it))[R]
  BY DEF Mobility, MapThenSumSet, MapThenFoldSet, First
<1>2. Targets(b, s) = UNION {F[r] : r \in R}
  <2>1. Reach(s, b) = UNION {{r[i] : i \in Sight(r, 0, b)} : r \in R} BY DEF Reach, ChariotReach
  <2>2. ASSUME NEW t \in Targets(b, s) PROVE t \in UNION {F[r] : r \in R}
    <3>1. PICK r \in R : \E i \in Sight(r, 0, b) : t = r[i] BY <2>1 DEF Targets
    <3>2. PICK i \in Sight(r, 0, b) : t = r[i] BY <3>1
    <3>3. i \in places(r) BY <3>2 DEF Targets
    <3>4. t \in F[r] BY <3>2, <3>3
    <3>5. QED BY <3>4
  <2>3. ASSUME NEW r \in R, NEW t \in F[r] PROVE t \in Targets(b, s)
    <3>1. PICK i \in places(r) : t = r[i] OBVIOUS
    <3>2. QED BY <2>1, <3>1 DEF Targets
  <2> HIDE DEF F
  <2>4. QED BY <2>2, <2>3
<1>3. \A r \in R : F[r] = {r[i] : i \in places(r)} /\ g[r] = Cardinality(places(r)) OBVIOUS
<1>4. ASSUME NEW r \in R
      PROVE  IsFiniteSet(F[r]) /\ g[r] = Cardinality(F[r])
  <2>1. places(r) \in SUBSET Sight(r, 0, b) /\ 0 \in Nat OBVIOUS
  <2> HIDE DEF places
  <2>2. IsFiniteSet({r[i] : i \in places(r)})
        /\ Cardinality({r[i] : i \in places(r)}) = Cardinality(places(r))
    BY <2>1, CountedOnRay
  <2>3. QED BY <1>3, <2>2
<1>5. ASSUME NEW r \in R, NEW q \in R, r # q PROVE F[r] \cap F[q] = {}
  <2>1. \A i \in Sight(r, 0, b), j \in Sight(q, 0, b) : r[i] # q[j]
    <3>1. Sight(r, 0, b) \subseteq 1 .. Len(r) /\ Sight(q, 0, b) \subseteq 1 .. Len(q)
      BY RaysApart DEF Sight
    <3>2. QED BY <1>5, <3>1, RaysApart
  <2>2. QED BY <2>1
<1>6. IsFiniteSet(R) BY RaysApart
<1>7. \A it : P(it) <=> SumsUp(it, g, R)
  <2>1. \A S \in SUBSET R : S # {} => g[First(S)] = Cardinality(places(First(S)))
    BY <1>3 DEF First
  <2> HIDE DEF g, R, places
  <2>2. QED BY <2>1 DEF SumsUp
<1> HIDE DEF P, g, R, F, places
<1>8. (CHOOSE it : P(it)) = (CHOOSE it : SumsUp(it, g, R)) BY <1>7, Zenon
<1>9. Mobility(b, s) = Total(g, R) BY <1>1, <1>8, TotalIs
<1>10. Numbers(g, R) /\ Cardinality(UNION {F[r] : r \in R}) = Total(g, R)
  <2>1. \A r \in R : IsFiniteSet(F[r]) BY <1>4
  <2>2. \A r \in R : g[r] = Cardinality(F[r]) BY <1>4
  <2>3. \A r, q \in R : r # q => F[r] \cap F[q] = {} BY <1>5
  <2>4. QED BY <1>6, <2>1, <2>2, <2>3, TotalOfSizes
<1>11. Total(g, R) \in Int BY <1>10, TotalStep
<1>12. QED BY <1>2, <1>9, <1>10, <1>11

\* A cannon's moves, counted ray by ray past the one man it may jump.
LEMMA CannonMobility ==
  ASSUME NEW b, NEW s \in Squares, b[s].type = CANNON
  PROVE  Mobility(b, s) = Cardinality(Targets(b, s)) /\ Mobility(b, s) \in Int
PROOF
<1> DEFINE places(r, k) == {i \in Sight(r, k, b) : b[r[i]].color # b[s].color /\ b[r[i]].type # CANNON}
           over(r) == MapThenSumSet(LAMBDA k : Cardinality(places(r, k)), Screens(r, b))
           R == RAYS_ALL[s]
           g == [r \in R |-> over(r)]
           F == [r \in R |-> UNION {{r[i] : i \in places(r, k)} : k \in Screens(r, b)}]
           P(it) == it = [S \in SUBSET R |-> IF S = {} THEN 0
                                             ELSE over(First(S)) + it[S \ {First(S)}]]
<1>1. Mobility(b, s) = (CHOOSE it : P(it))[R]
  BY DEF Mobility, MapThenSumSet, MapThenFoldSet, First
<1>2. Targets(b, s) = UNION {F[r] : r \in R}
  <2>1. Reach(s, b) = {t \in UNION {UNION {{r[i] : i \in Sight(r, k, b)} : k \in Screens(r, b)}
                                     : r \in R} : b[t].type # CANNON}
    BY DEF Reach, CannonReach
  <2>2. ASSUME NEW t \in Targets(b, s) PROVE t \in UNION {F[r] : r \in R}
    <3>1. PICK r \in R : \E k \in Screens(r, b) : \E i \in Sight(r, k, b) : t = r[i] BY <2>1 DEF Targets
    <3>2. PICK k \in Screens(r, b) : \E i \in Sight(r, k, b) : t = r[i] BY <3>1
    <3>3. PICK i \in Sight(r, k, b) : t = r[i] BY <3>2
    <3>4. i \in places(r, k) BY <2>1, <3>3 DEF Targets
    <3>5. t \in F[r] BY <3>3, <3>4
    <3>6. QED BY <3>5
  <2>3. ASSUME NEW r \in R, NEW t \in F[r] PROVE t \in Targets(b, s)
    <3>1. PICK k \in Screens(r, b) : \E i \in places(r, k) : t = r[i] OBVIOUS
    <3>2. PICK i \in places(r, k) : t = r[i] BY <3>1
    <3>3. i \in Sight(r, k, b) /\ b[t].color # b[s].color /\ b[t].type # CANNON BY <3>2
    <3>4. QED BY <2>1, <3>2, <3>3 DEF Targets
  <2> HIDE DEF F
  <2>4. QED BY <2>2, <2>3
<1>3. \A r \in R : /\ F[r] = UNION {{r[i] : i \in places(r, k)} : k \in Screens(r, b)}
                   /\ g[r] = over(r)
  BY Zenon
<1>4. ASSUME NEW r \in R
      PROVE  IsFiniteSet(F[r]) /\ g[r] = Cardinality(F[r])
  <2>1. ASSUME NEW k \in Nat
        PROVE  /\ IsFiniteSet({r[i] : i \in places(r, k)})
               /\ Cardinality({r[i] : i \in places(r, k)}) = Cardinality(places(r, k))
               /\ IsFiniteSet(places(r, k))
    <3>1. places(r, k) \in SUBSET Sight(r, k, b) OBVIOUS
    <3> HIDE DEF places
    <3>2. QED BY <3>1, CountedOnRay
  <2>2. Len(r) \in Nat BY RaysApart
  <2>3. \A k \in Screens(r, b) : k \in Nat /\ k \in Sight(r, 0, b) /\ b[r[k]] # EMPTY
    BY <2>2 DEF Screens, Sight, EMPTY
  <2>4. \A k, l \in Screens(r, b) : k = l
    <3> SUFFICES ASSUME NEW k \in Screens(r, b), NEW l \in Screens(r, b), k < l PROVE FALSE
      BY <2>3
    <3>1. k \in 1 .. l - 1 /\ \A j \in 1 .. l - 1 : b[r[j]] = EMPTY BY <2>2, <2>3 DEF Sight
    <3>2. QED BY <2>3, <3>1
  <2> DEFINE C == Screens(r, b)
             h == [k \in C |-> Cardinality(places(r, k))]
             Q(it) == it = [S \in SUBSET C |-> IF S = {} THEN 0
                              ELSE Cardinality(places(r, First(S))) + it[S \ {First(S)}]]
  <2>5. over(r) = (CHOOSE it : Q(it))[C] BY DEF MapThenSumSet, MapThenFoldSet, First
  <2>6. \A k \in C : h[k] = Cardinality(places(r, k)) OBVIOUS
  <2>7. \A it : Q(it) <=> SumsUp(it, h, C)
    <3>1. \A S \in SUBSET C : S # {} => h[First(S)] = Cardinality(places(r, First(S)))
      BY <2>6 DEF First
    <3> HIDE DEF h, C, places
    <3>2. QED BY <3>1 DEF SumsUp
  <2> HIDE DEF Q, h, C, over
  <2>8. (CHOOSE it : Q(it)) = (CHOOSE it : SumsUp(it, h, C)) BY <2>7, Zenon
  <2>9. over(r) = Total(h, C) BY <2>5, <2>8, TotalIs
  <2> HIDE DEF places
  <2>10. CASE C = {}
    <3>1. F[r] = {} BY <1>3, <2>10 DEF C
    <3>2. IsFiniteSet(C) /\ Numbers(h, C) BY <2>10, FS_EmptySet DEF Numbers
    <3>3. Total(h, {}) = 0 BY <3>2, TotalStep
    <3>4. QED BY <1>3, <2>9, <2>10, <3>1, <3>3, FS_EmptySet
  <2>11. ASSUME NEW k \in C PROVE IsFiniteSet(F[r]) /\ g[r] = Cardinality(F[r])
    <3>1. C = {k} BY <2>4, <2>11 DEF C
    <3>2. F[r] = {r[i] : i \in places(r, k)} BY <1>3, <3>1 DEF C
    <3>3. k \in Nat BY <2>3 DEF C
    <3>4. h[k] \in Int /\ h[k] = Cardinality(places(r, k))
      <4>1. IsFiniteSet(places(r, k)) BY <2>1, <3>3
      <4>2. Cardinality(places(r, k)) \in Nat BY <4>1, FS_CardinalityType
      <4>3. h[k] = Cardinality(places(r, k)) BY <2>6
      <4>4. QED BY <4>2, <4>3
    <3>5. Numbers(h, C) BY <3>1, <3>4, FS_Singleton DEF Numbers
    <3>6. Total(h, C) = h[k] + Total(h, C \ {k}) BY <3>5, TotalStep
    <3>7. C \ {k} = {} /\ Total(h, {}) = 0 BY <3>1, <3>5, TotalStep
    <3>8. Total(h, C) = h[k]
      <4>1. Total(h, C) = h[k] + 0 BY <3>6, <3>7
      <4>2. QED BY <3>4, <4>1
    <3>9. QED BY <1>3, <2>1, <2>9, <3>2, <3>3, <3>4, <3>8
  <2>12. QED BY <2>10, <2>11
<1>5. ASSUME NEW r \in R, NEW q \in R, r # q PROVE F[r] \cap F[q] = {}
  <2>1. \A k \in Screens(r, b) : Sight(r, k, b) \subseteq 1 .. Len(r) BY RaysApart DEF Sight, Screens
  <2>2. \A k \in Screens(q, b) : Sight(q, k, b) \subseteq 1 .. Len(q) BY RaysApart DEF Sight, Screens
  <2>3. \A t \in F[r] : \E i \in 1 .. Len(r) : t = r[i] BY <1>3, <2>1
  <2>4. \A t \in F[q] : \E i \in 1 .. Len(q) : t = q[i] BY <1>3, <2>2
  <2> HIDE DEF F
  <2>5. QED BY <1>5, <2>3, <2>4, RaysApart
<1>6. IsFiniteSet(R) BY RaysApart
<1>7. \A it : P(it) <=> SumsUp(it, g, R)
  <2> HIDE DEF over
  <2>1. \A S \in SUBSET R : S # {} => g[First(S)] = over(First(S))
    BY <1>3 DEF First
  <2> HIDE DEF g, R
  <2>2. QED BY <2>1 DEF SumsUp
<1> HIDE DEF P, g, R, F, over
<1>8. (CHOOSE it : P(it)) = (CHOOSE it : SumsUp(it, g, R)) BY <1>7, Zenon
<1>9. Mobility(b, s) = Total(g, R) BY <1>1, <1>8, TotalIs
<1>10. Numbers(g, R) /\ Cardinality(UNION {F[r] : r \in R}) = Total(g, R)
  <2>1. \A r \in R : IsFiniteSet(F[r]) BY <1>4
  <2>2. \A r \in R : g[r] = Cardinality(F[r]) BY <1>4
  <2>3. \A r, q \in R : r # q => F[r] \cap F[q] = {} BY <1>5
  <2>4. QED BY <1>6, <2>1, <2>2, <2>3, TotalOfSizes
<1>11. Total(g, R) \in Int BY <1>10, TotalStep
<1>12. QED BY <1>2, <1>9, <1>10, <1>11


\* A jumper's moves, counted leg by leg.
LEMMA LegMobility ==
  ASSUME NEW b, NEW s \in Squares, b[s].type \in {HORSE, ELEPHANT}
  PROVE  Mobility(b, s) = Cardinality(Targets(b, s)) /\ Mobility(b, s) \in Int
PROOF
<1> DEFINE U == Targets(b, s)
<1>1. ASSUME NEW S, NEW k \in {2, 3},
             \A x \in S : x[k] \in U,
             \A x, y \in S : x[k] = y[k] => x = y,
             \A t \in U : \E x \in S : x[k] = t,
             U \subseteq Squares
      PROVE  Cardinality(S) = Cardinality(U) /\ Cardinality(S) \in Nat
  <2> DEFINE f == [t \in U |-> CHOOSE x \in S : x[k] = t]
  <2> HIDE DEF U
  <2>1. \A t \in U : f[t] \in S /\ f[t][k] = t BY <1>1
  <2>2. IsFiniteSet(U)
    <3>1. IsFiniteSet(Squares)
      <4>1. 0 \in Int /\ 8 \in Int /\ 9 \in Int OBVIOUS
      <4>2. IsFiniteSet(0 .. 9) /\ IsFiniteSet(0 .. 8) BY <4>1, FS_Interval
      <4>3. Squares = (0 .. 9) \X (0 .. 8) BY DEF Squares, ROWS, COLS
      <4>4. QED BY <4>2, <4>3, FS_Product
    <3>2. QED BY <1>1, <3>1, FS_Subset
  <2> HIDE DEF f
  <2>3. \A t, u \in U : f[t] = f[u] => t = u BY <2>1
  <2>4. \A x \in S : \E t \in U : f[t] = x BY <1>1, <2>1
  <2>5. IsFiniteSet(S) /\ Cardinality(S) = Cardinality(U)
    <3>1. \A t \in U : f[t] \in S BY <2>1
    <3>2. QED BY <2>2, <2>3, <2>4, <3>1, SizeRenamed, ZenonT(40)
  <2>6. QED BY <2>5, FS_CardinalityType
<1>2. CASE b[s].type = HORSE
  <2> DEFINE S == {x \in HORSE_MOVES[s] : b[x[1]] = EMPTY /\ b[x[2]].color # b[s].color}
  <2>1. Mobility(b, s) = Cardinality(S) BY <1>2 DEF Mobility
  <2>2. Reach(s, b) = {x[2] : x \in {y \in HORSE_MOVES[s] : b[y[1]] = EMPTY}} BY <1>2 DEF Reach
  <2>3. \A x \in S : x[2] \in U /\ x[2] \in Squares BY <2>2, MirrorLegs DEF Targets
  <2>4. \A t \in U : \E x \in S : x[2] = t BY <2>2 DEF Targets
  <2>5. ASSUME NEW x \in S, NEW y \in S, x[2] = y[2] PROVE x = y
    <3>1. \A z \in S : \E l \in Legs : z = <<Along(s, l[1], 1), Along(Along(s, l[1], 1), l[2], 1)>>
      BY StepTables
    <3>2. PICK l \in Legs : x = <<Along(s, l[1], 1), Along(Along(s, l[1], 1), l[2], 1)>> BY <3>1
    <3>3. PICK m \in Legs : y = <<Along(s, m[1], 1), Along(Along(s, m[1], 1), m[2], 1)>> BY <3>1
    <3>4. Along(Along(s, l[1], 1), l[2], 1) = Along(Along(s, m[1], 1), m[2], 1)
      BY <2>5, <3>2, <3>3
    <3>5. l = m BY <3>4, WaysAreOne
    <3>6. QED BY <3>2, <3>3, <3>5
  <2> HIDE DEF S
  <2>6. U \subseteq Squares
    <3> HIDE DEF U
    <3>1. QED BY <2>3, <2>4
  <2>7. Cardinality(S) = Cardinality(U) /\ Cardinality(S) \in Nat
    <3> HIDE DEF U
    <3>1. QED BY <1>1, <2>3, <2>4, <2>5, <2>6
  <2>8. QED BY <2>1, <2>7
<1>3. CASE b[s].type = ELEPHANT
  <2> DEFINE S == {x \in ELEPHANT_MOVES[s] :
                     b[x[1]] = EMPTY /\ b[x[2]] = EMPTY /\ b[x[3]].color # b[s].color}
  <2>1. Mobility(b, s) = Cardinality(S) BY <1>3 DEF Mobility
  <2>2. Reach(s, b) = {x[3] : x \in {y \in ELEPHANT_MOVES[s] : b[y[1]] = EMPTY /\ b[y[2]] = EMPTY}}
    BY <1>3 DEF Reach
  <2>3. \A x \in S : x[3] \in U /\ x[3] \in Squares BY <2>2, MirrorLegs DEF Targets
  <2>4. \A t \in U : \E x \in S : x[3] = t BY <2>2 DEF Targets
  <2>5. ASSUME NEW x \in S, NEW y \in S, x[3] = y[3] PROVE x = y
    <3> DEFINE way(l) == <<Along(s, l[1], 1), Along(Along(s, l[1], 1), l[2], 1),
                           Along(Along(s, l[1], 1), l[2], 2)>>
    <3>1. \A z \in S : \E l \in Legs : z = way(l) BY StepTables
    <3>2. PICK l \in Legs : x = way(l) BY <3>1
    <3>3. PICK m \in Legs : y = way(m) BY <3>1
    <3>4. Along(Along(s, l[1], 1), l[2], 2) = Along(Along(s, m[1], 1), m[2], 2)
      BY <2>5, <3>2, <3>3
    <3>5. l = m BY <3>4, WaysAreOne
    <3>6. QED BY <3>2, <3>3, <3>5
  <2> HIDE DEF S
  <2>6. U \subseteq Squares
    <3> HIDE DEF U
    <3>1. QED BY <2>3, <2>4
  <2>7. Cardinality(S) = Cardinality(U) /\ Cardinality(S) \in Nat
    <3> HIDE DEF U
    <3>1. QED BY <1>1, <2>3, <2>4, <2>5, <2>6
  <2>8. QED BY <2>1, <2>7
<1>4. QED BY <1>2, <1>3

\* The evaluation counts the moves of a piece as move generation gives them.
LEMMA MobilityIsReach ==
  ASSUME NEW b, NEW s \in Squares, b[s].type \in {CHARIOT, CANNON, HORSE, ELEPHANT}
  PROVE  Mobility(b, s) = Cardinality(Targets(b, s)) /\ Mobility(b, s) \in Int
PROOF
<1>1. CASE b[s].type = CHARIOT BY <1>1, ChariotMobility
<1>2. CASE b[s].type = CANNON BY <1>2, CannonMobility
<1>3. CASE b[s].type \in {HORSE, ELEPHANT} BY <1>3, LegMobility
<1>4. QED BY <1>1, <1>2, <1>3


\* What the men count for: as such, where they stand, by their moves and near a king.
Mat(b) == [s \in Squares |-> DEFAULT_CONFIG.material[b[s].type]]
Here(b) == [s \in Squares |-> PST[b[s].color][<<b[s].type, s>>]]
Mob(b) == [s \in Squares |-> DEFAULT_CONFIG.mobility_weight[b[s].type] * Mobility(b, s)]
Near(b) == [s \in Squares |-> DEFAULT_CONFIG.king_danger[b[s].type]]
Types == {KING, GUARD, CHARIOT, CANNON, HORSE, ELEPHANT, PAWN}

\* The table of the squares: each entry a number, and the same for both sides.
LEMMA PstFacts ==
  ASSUME NEW c \in Sides, NEW t \in Types, NEW s \in Squares
  PROVE  /\ PST[c][<<t, s>>] \in Int
         /\ PST[Other(c)][<<t, MirrorSquare(s)>>] = PST[c][<<t, s>>]
PROOF
<1>1. DOMAIN DEFAULT_CONFIG.material = Types BY DEF DEFAULT_CONFIG, Types
<1>2. ASSUME NEW d \in Sides, NEW u \in Squares
      PROVE  PST[d][<<t, u>>] = OnSquare(t, IF d = CHO THEN u ELSE MirrorSquare(u))
  <2> DEFINE row(e) == [x \in Types \X Squares |->
                          OnSquare(x[1], IF e = CHO THEN x[2] ELSE MirrorSquare(x[2]))]
  <2>1. PST = [e \in Sides |-> row(e)] BY <1>1, TableIs, Zenon DEF PST
  <2>2. PST[d] = row(d) BY <2>1, Zenon
  <2>3. <<t, u>> \in Types \X Squares OBVIOUS
  <2>4. <<t, u>>[1] = t /\ <<t, u>>[2] = u OBVIOUS
  <2>5. row(d)[<<t, u>>] = OnSquare(t, IF d = CHO THEN u ELSE MirrorSquare(u))
    BY <2>3, <2>4
  <2>6. QED BY <2>2, <2>5
<1>3. ASSUME NEW u \in Squares PROVE OnSquare(t, u) \in Int
  <2>1. PICK x \in 0 .. 9, y \in 0 .. 8 : u = <<x, y>> BY SquareFacts
  <2>2. u[1] = x /\ u[2] = y BY <2>1
  <2>3. <<14, 44, 36, 26, 16, 8, 0, 0, 0, 0>>[x + 1] \in Int
    <3> DEFINE row == <<14, 44, 36, 26, 16, 8, 0, 0, 0, 0>>
    <3>1. \A i \in 1 .. 10 : \/ i = 1 \/ i = 2 \/ i = 3 \/ i = 4 \/ i = 5
                               \/ i = 6 \/ i = 7 \/ i = 8 \/ i = 9 \/ i = 10
      OBVIOUS
    <3>2. /\ row[1] = 14 /\ row[2] = 44 /\ row[3] = 36 /\ row[4] = 26 /\ row[5] = 16
          /\ row[6] = 8 /\ row[7] = 0 /\ row[8] = 0 /\ row[9] = 0 /\ row[10] = 0
      OBVIOUS
    <3> HIDE DEF row
    <3>3. x + 1 \in 1 .. 10 OBVIOUS
    <3>4. row[x + 1] \in Int BY <3>1, <3>2, <3>3
    <3>5. QED BY <3>4 DEF row
  <2>4. \A q \in BOOLEAN, n \in Int : If(q, n) \in Int BY DEF If
  <2>5. CASE t = PAWN BY <2>2, <2>3, <2>5 DEF OnSquare, If
  <2>6. CASE t \in {HORSE, ELEPHANT, CHARIOT} BY <2>6 DEF OnSquare, If
  <2>7. CASE t \in {CANNON, KING, GUARD} BY <2>7 DEF OnSquare, If
  <2>8. QED BY <2>5, <2>6, <2>7 DEF Types
<1>4. MirrorSquare(s) \in Squares /\ MirrorSquare(MirrorSquare(s)) = s BY PlaneFacts, MirrorFacts
<1>5. Other(c) \in Sides /\ (Other(c) = CHO <=> c # CHO) BY DEF Other
<1>6. PST[c][<<t, s>>] \in Int BY <1>2, <1>3, <1>4
<1>7. PST[Other(c)][<<t, MirrorSquare(s)>>] = PST[c][<<t, s>>] BY <1>2, <1>4, <1>5
<1>8. QED BY <1>6, <1>7

\* What is counted are numbers.
LEMMA MenCount ==
  ASSUME NEW b \in Board, NEW c \in Sides, NEW s \in Own(b, c)
  PROVE  /\ s \in Squares /\ b[s] \in Piece /\ b[s].type \in Types /\ b[s].color = c
         /\ Mat(b)[s] \in Int /\ Here(b)[s] \in Int
         /\ Mat(b)[s] = DEFAULT_CONFIG.material[b[s].type] /\ Here(b)[s] = PST[c][<<b[s].type, s>>]
         /\ s \in Movers(b, c, DEFAULT_CONFIG) =>
              Mob(b)[s] \in Int /\ b[s].type \in {CHARIOT, CANNON, HORSE, ELEPHANT}
         /\ b[s].type \in DOMAIN DEFAULT_CONFIG.king_danger => Near(b)[s] \in Int
PROOF
<1>1. s \in Squares /\ b[s].color = c BY DEF Own
<1>2. b[s] \in Piece
  <2>1. b[s] \in Piece \union {EMPTY} BY <1>1 DEF Board
  <2>2. EMPTY.color = 2 /\ c # 2 BY DEF EMPTY
  <2>3. QED BY <1>1, <2>1, <2>2
<1>3. b[s].type \in Types BY <1>2 DEF Piece, Types
<1>4. Mat(b)[s] = DEFAULT_CONFIG.material[b[s].type] /\ Here(b)[s] = PST[c][<<b[s].type, s>>]
  BY <1>1 DEF Mat, Here
<1>5. \A t \in Types : DEFAULT_CONFIG.material[t] \in Int BY DEF DEFAULT_CONFIG, Types
<1>6. Mat(b)[s] \in Int /\ Here(b)[s] \in Int BY <1>1, <1>3, <1>4, <1>5, PstFacts
<1>7. ASSUME s \in Movers(b, c, DEFAULT_CONFIG)
      PROVE  Mob(b)[s] \in Int /\ b[s].type \in {CHARIOT, CANNON, HORSE, ELEPHANT}
  <2>1. b[s].type \in {CHARIOT, CANNON, HORSE, ELEPHANT} BY <1>7 DEF Movers, DEFAULT_CONFIG
  <2>2. DEFAULT_CONFIG.mobility_weight[b[s].type] \in Int BY <2>1 DEF DEFAULT_CONFIG
  <2>3. Mobility(b, s) \in Int BY <1>1, <2>1, MobilityIsReach
  <2>4. QED BY <1>1, <2>1, <2>2, <2>3 DEF Mob
<1>8. ASSUME b[s].type \in DOMAIN DEFAULT_CONFIG.king_danger PROVE Near(b)[s] \in Int
  <2>1. DEFAULT_CONFIG.king_danger[b[s].type] \in Int BY <1>8 DEF DEFAULT_CONFIG
  <2>2. QED BY <1>1, <2>1 DEF Near
<1>9. QED BY <1>1, <1>2, <1>3, <1>4, <1>6, <1>7, <1>8


\* Of whatever is counted for the men of a side there are finitely many numbers.
LEMMA SideNumbers ==
  ASSUME NEW b \in Board, NEW c \in Sides
  PROVE  /\ Numbers(Mat(b), Own(b, c)) /\ Numbers(Here(b), Own(b, c))
         /\ Numbers(Mob(b), Movers(b, c, DEFAULT_CONFIG))
         /\ Numbers(Near(b), Endangering(b, Other(c), DEFAULT_CONFIG))
         /\ ConnectedPawns(b, c) \in Int
PROOF
<1> DEFINE M == Movers(b, c, DEFAULT_CONFIG)
           E == Endangering(b, Other(c), DEFAULT_CONFIG)
           C == {s \in Own(b, c) : b[s].type = PAWN /\ s[2] < COLS - 1 /\ b[<<s[1], s[2] + 1>>] = b[s]}
<1>1. IsFiniteSet(Squares) BY WorthFacts
<1>2. Own(b, c) \subseteq Squares BY DEF Own
<1>3. M \subseteq Own(b, c) BY DEF Movers
<1>4. E \subseteq Own(b, c) /\ \A s \in E : b[s].type \in DOMAIN DEFAULT_CONFIG.king_danger
  <2>1. Other(Other(c)) = c BY DEF Other
  <2>2. QED BY <2>1 DEF Endangering
<1>5. C \subseteq Own(b, c) OBVIOUS
<1>6. ConnectedPawns(b, c) = Cardinality(C) BY DEF ConnectedPawns
<1> HIDE DEF M, E, C
<1>7. IsFiniteSet(Own(b, c)) /\ IsFiniteSet(M) /\ IsFiniteSet(E) /\ IsFiniteSet(C)
  <2>1. IsFiniteSet(Own(b, c)) BY <1>1, <1>2, FS_Subset
  <2>2. QED BY <1>3, <1>4, <1>5, <2>1, FS_Subset
<1>8. \A s \in Own(b, c) : Mat(b)[s] \in Int /\ Here(b)[s] \in Int BY MenCount
<1>9. \A s \in M : Mob(b)[s] \in Int BY <1>3, MenCount DEF M
<1>10. \A s \in E : Near(b)[s] \in Int BY <1>4, MenCount
<1>11. Cardinality(C) \in Nat BY <1>7, FS_CardinalityType
<1>12. QED BY <1>6, <1>7, <1>8, <1>9, <1>10, <1>11 DEF Numbers, M, E

\* The guards next to a king are a number of guards.
LEMMA GuardsAreNumber ==
  ASSUME NEW p, NEW c \in Sides, p.kings[c] \in Squares
  PROVE  AdjacentGuards(p, c) \in Int
PROOF
<1> DEFINE S == {s \in PALACE_STEPS[p.kings[c]] : p.board[s] = Of(c, GUARD)}
<1>1. IsFiniteSet(Squares) /\ S \subseteq Squares
  <2>1. IsFiniteSet(Squares)
    <3>1. 0 \in Int /\ 8 \in Int /\ 9 \in Int OBVIOUS
    <3>2. IsFiniteSet(0 .. 9) /\ IsFiniteSet(0 .. 8) BY <3>1, FS_Interval
    <3>3. Squares = (0 .. 9) \X (0 .. 8) BY DEF Squares, ROWS, COLS
    <3>4. QED BY <3>2, <3>3, FS_Product
  <2>2. QED BY <2>1, AroundFacts
<1> HIDE DEF S
<1>2. Cardinality(S) \in Nat BY <1>1, FS_Subset, FS_CardinalityType
<1>3. QED BY <1>2 DEF AdjacentGuards, S

\* The men of a side, as such and where they stand.
LEMMA StandingSum ==
  ASSUME NEW b \in Board, NEW c \in Sides
  PROVE  MapThenSumSet(LAMBDA s : DEFAULT_CONFIG.material[b[s].type]
                         + (PST[c][<<b[s].type, s>>] * DEFAULT_CONFIG.pst_weight) \div 100, Own(b, c))
           = Total(Mat(b), Own(b, c)) + Total(Here(b), Own(b, c))
PROOF
<1> DEFINE S == Own(b, c)
           term(s) == DEFAULT_CONFIG.material[b[s].type]
                        + (PST[c][<<b[s].type, s>>] * DEFAULT_CONFIG.pst_weight) \div 100
           g == [s \in S |-> Mat(b)[s] + Here(b)[s]]
           P(it) == it = [U \in SUBSET S |-> IF U = {} THEN 0 ELSE term(First(U)) + it[U \ {First(U)}]]
<1>1. MapThenSumSet(LAMBDA s : DEFAULT_CONFIG.material[b[s].type]
                      + (PST[c][<<b[s].type, s>>] * DEFAULT_CONFIG.pst_weight) \div 100, S)
        = (CHOOSE it : P(it))[S]
  BY DEF MapThenSumSet, MapThenFoldSet, First
<1>2. ASSUME NEW s \in S PROVE term(s) = Mat(b)[s] + Here(b)[s]
  <2>1. /\ Mat(b)[s] \in Int /\ Here(b)[s] \in Int
        /\ Mat(b)[s] = DEFAULT_CONFIG.material[b[s].type] /\ Here(b)[s] = PST[c][<<b[s].type, s>>]
    BY MenCount
  <2>2. DEFAULT_CONFIG.pst_weight = 100 BY DEF DEFAULT_CONFIG
  <2>3. \A n \in Int : (n * 100) \div 100 = n OBVIOUS
  <2>4. (PST[c][<<b[s].type, s>>] * DEFAULT_CONFIG.pst_weight) \div 100 = Here(b)[s]
    BY <2>1, <2>2, <2>3
  <2>5. QED BY <2>1, <2>4
<1>3. \A s \in S : g[s] = term(s) BY <1>2
<1>4. \A it : P(it) <=> SumsUp(it, g, S)
  <2>1. \A U \in SUBSET S : U # {} => g[First(U)] = term(First(U)) BY <1>3 DEF First
  <2> HIDE DEF g, S, term
  <2>2. QED BY <2>1 DEF SumsUp
<1>5. \A s \in S : g[s] = Mat(b)[s] + Here(b)[s] OBVIOUS
<1> HIDE DEF P, g, S, term
<1>6. (CHOOSE it : P(it)) = (CHOOSE it : SumsUp(it, g, S)) BY <1>4, Zenon
<1>7. (CHOOSE it : P(it))[S] = Total(g, S) BY <1>6, TotalIs
<1>8. Numbers(Mat(b), S) /\ Numbers(Here(b), S) BY SideNumbers DEF S
<1>9. Total(g, S) = Total(Mat(b), S) + Total(Here(b), S)
  <2>1. \A s \in S : Mat(b)[s] \in Int /\ g[s] = Mat(b)[s] + Here(b)[s] BY <1>5, <1>8 DEF Numbers
  <2>2. QED BY <1>8, <2>1, TotalLinear
<1>10. QED BY <1>1, <1>7, <1>9 DEF S

\* What the moves of a side count for, and its men near the king of the other.
LEMMA MovingSum ==
  ASSUME NEW b \in Board, NEW c \in Sides
  PROVE  /\ MapThenSumSet(LAMBDA s : DEFAULT_CONFIG.mobility_weight[b[s].type] * Mobility(b, s),
                          Movers(b, c, DEFAULT_CONFIG))
              = Total(Mob(b), Movers(b, c, DEFAULT_CONFIG))
         /\ Danger(b, c, DEFAULT_CONFIG) = Total(Near(b), Endangering(b, c, DEFAULT_CONFIG))
PROOF
<1> DEFINE S == Movers(b, c, DEFAULT_CONFIG)
           V == Endangering(b, c, DEFAULT_CONFIG)
           term(s) == DEFAULT_CONFIG.mobility_weight[b[s].type] * Mobility(b, s)
           near(s) == DEFAULT_CONFIG.king_danger[b[s].type]
           P(it) == it = [U \in SUBSET S |-> IF U = {} THEN 0 ELSE term(First(U)) + it[U \ {First(U)}]]
           Q(it) == it = [U \in SUBSET V |-> IF U = {} THEN 0 ELSE near(First(U)) + it[U \ {First(U)}]]
<1>1. MapThenSumSet(LAMBDA s : DEFAULT_CONFIG.mobility_weight[b[s].type] * Mobility(b, s), S)
        = (CHOOSE it : P(it))[S]
  BY DEF MapThenSumSet, MapThenFoldSet, First
<1>2. Danger(b, c, DEFAULT_CONFIG) = (CHOOSE it : Q(it))[V]
  BY DEF Danger, MapThenSumSet, MapThenFoldSet, First
<1>3. \A s \in S : Mob(b)[s] = term(s) BY DEF Movers, Own, Mob
<1>4. \A s \in V : Near(b)[s] = near(s) BY DEF Endangering, Own, Near
<1>5. \A it : P(it) <=> SumsUp(it, Mob(b), S)
  <2>1. \A U \in SUBSET S : U # {} => Mob(b)[First(U)] = term(First(U)) BY <1>3 DEF First
  <2> HIDE DEF S, term
  <2>2. QED BY <2>1 DEF SumsUp
<1>6. \A it : Q(it) <=> SumsUp(it, Near(b), V)
  <2>1. \A U \in SUBSET V : U # {} => Near(b)[First(U)] = near(First(U)) BY <1>4 DEF First
  <2> HIDE DEF V, near
  <2>2. QED BY <2>1 DEF SumsUp
<1> HIDE DEF P, Q, S, V, term, near
<1>7. (CHOOSE it : P(it)) = (CHOOSE it : SumsUp(it, Mob(b), S)) BY <1>5, Zenon
<1>8. (CHOOSE it : Q(it)) = (CHOOSE it : SumsUp(it, Near(b), V)) BY <1>6, Zenon
<1>9. (CHOOSE it : P(it))[S] = Total(Mob(b), S) BY <1>7, TotalIs
<1>10. (CHOOSE it : Q(it))[V] = Total(Near(b), V) BY <1>8, TotalIs
<1>11. QED BY <1>1, <1>2, <1>9, <1>10 DEF S, V


\* What a side has, term by term.
Terms(p, c) ==
  [mat |-> Total(Mat(p.board), Own(p.board, c)), here |-> Total(Here(p.board), Own(p.board, c)),
   mob |-> Total(Mob(p.board), Movers(p.board, c, DEFAULT_CONFIG)),
   pawns |-> 12 * ConnectedPawns(p.board, c),
   near |-> Total(Near(p.board), Endangering(p.board, Other(c), DEFAULT_CONFIG)),
   guards |-> 10 * AdjacentGuards(p, c)]

\* The score of a side is the sum of its terms.
LEMMA SideCounts ==
  ASSUME NEW p, p.board \in Board, p.kings \in [Sides -> Squares], NEW c \in Sides
  PROVE  LET t == Terms(p, c)
         IN  /\ SideScore(p, c, DEFAULT_CONFIG) = t.mat + t.here + t.mob + t.pawns + t.near + t.guards
             /\ t.mat \in Int /\ t.here \in Int /\ t.mob \in Int
             /\ t.pawns \in Int /\ t.near \in Int /\ t.guards \in Int
PROOF
<1> DEFINE b == p.board
           cfg == DEFAULT_CONFIG
           t == Terms(p, c)
<1>1. Other(c) \in Sides /\ Other(Other(c)) = c BY DEF Other
<1>2. /\ Numbers(Mat(b), Own(b, c)) /\ Numbers(Here(b), Own(b, c))
      /\ Numbers(Mob(b), Movers(b, c, cfg)) /\ Numbers(Near(b), Endangering(b, Other(c), cfg))
      /\ ConnectedPawns(b, c) \in Int
  BY SideNumbers
<1>3. AdjacentGuards(p, c) \in Int BY GuardsAreNumber
<1>4. /\ t.mat = Total(Mat(b), Own(b, c)) /\ t.here = Total(Here(b), Own(b, c))
      /\ t.mob = Total(Mob(b), Movers(b, c, cfg)) /\ t.pawns = 12 * ConnectedPawns(b, c)
      /\ t.near = Total(Near(b), Endangering(b, Other(c), cfg))
      /\ t.guards = 10 * AdjacentGuards(p, c)
  BY DEF Terms
<1> HIDE DEF t
<1>5. t.mat \in Int /\ t.here \in Int /\ t.mob \in Int /\ t.near \in Int
  BY <1>2, <1>4, TotalStep
<1>6. t.pawns \in Int /\ t.guards \in Int BY <1>2, <1>3, <1>4
<1> DEFINE standing == MapThenSumSet(LAMBDA s : cfg.material[b[s].type]
                         + (PST[c][<<b[s].type, s>>] * cfg.pst_weight) \div 100, Own(b, c))
           moving == MapThenSumSet(LAMBDA s : cfg.mobility_weight[b[s].type] * Mobility(b, s),
                                   Movers(b, c, cfg))
<1>7. SideScore(p, c, cfg)
        = standing + moving + cfg.pawn_connected * ConnectedPawns(b, c)
            + Danger(b, Other(c), cfg) + cfg.guard_adjacent * AdjacentGuards(p, c)
  BY DEF SideScore
<1>8. standing = t.mat + t.here BY <1>4, StandingSum
<1>9. moving = t.mob BY <1>4, MovingSum
<1>10. Danger(b, Other(c), cfg) = t.near BY <1>1, <1>4, MovingSum
<1>11. cfg.pawn_connected = 12 /\ cfg.guard_adjacent = 10 BY DEF DEFAULT_CONFIG
<1> HIDE DEF standing, moving, cfg, b
<1>12. SideScore(p, c, cfg) = t.mat + t.here + t.mob + t.pawns + t.near + t.guards
  BY <1>4, <1>5, <1>6, <1>7, <1>8, <1>9, <1>10, <1>11
<1>13. QED BY <1>5, <1>6, <1>12 DEF t, cfg

\* What counts for one side and against the other.
LEMMA TotalSigned ==
  ASSUME NEW g, NEW h, NEW S, NEW U, Numbers(g, S), Numbers(g, U), S \cap U = {},
         \A s \in S : h[s] = g[s], \A s \in U : h[s] = -g[s]
  PROVE  Total(h, S \union U) = Total(g, S) - Total(g, U)
PROOF
<1>1. Total(h, S) = Total(g, S) /\ Total(h, U) = -Total(g, U) BY TotalLinear
<1>2. Numbers(h, S) /\ Numbers(h, U) BY DEF Numbers
<1>3. Total(h, S \union U) = Total(h, S) + Total(h, U) BY <1>2, TotalUnion
<1>4. Total(g, S) \in Int /\ Total(g, U) \in Int BY TotalStep
<1>5. QED BY <1>1, <1>3, <1>4


\* All men as such, with the sign of their sides.
LEMMA MaterialSigned ==
  ASSUME NEW b \in Board
  PROVE  MapThenSumSet(LAMBDA s : Sign(b[s].color) * DEFAULT_CONFIG.material[b[s].type],
                       Own(b, CHO) \union Own(b, HAN))
           = Total(Mat(b), Own(b, CHO)) - Total(Mat(b), Own(b, HAN))
PROOF
<1> DEFINE S == Own(b, CHO)
           U == Own(b, HAN)
           A == S \union U
           term(s) == Sign(b[s].color) * DEFAULT_CONFIG.material[b[s].type]
           h == [s \in A |-> term(s)]
           P(it) == it = [W \in SUBSET A |-> IF W = {} THEN 0 ELSE term(First(W)) + it[W \ {First(W)}]]
<1>1. MapThenSumSet(LAMBDA s : Sign(b[s].color) * DEFAULT_CONFIG.material[b[s].type], A) = (CHOOSE it : P(it))[A]
  BY DEF MapThenSumSet, MapThenFoldSet, First
<1>2. /\ Numbers(Mat(b), S) /\ Numbers(Mat(b), U) BY SideNumbers
<1>3. /\ \A s \in S : s \in Own(b, CHO) /\ b[s].color = 0
      /\ \A s \in U : s \in Own(b, HAN) /\ b[s].color = 1
  BY DEF Own
<1>4. S \cap U = {} BY <1>3
<1>5. (\A s \in S : term(s) = Mat(b)[s]) /\ (\A s \in U : term(s) = -Mat(b)[s])
  <2>1. ASSUME NEW c \in Sides, NEW s \in Own(b, c)
        PROVE  term(s) = Sign(c) * Mat(b)[s] /\ Mat(b)[s] \in Int
    BY MenCount
  <2>2. Sign(CHO) = 1 /\ Sign(HAN) = -1 /\ CHO \in Sides /\ HAN \in Sides BY DEF Sign
  <2> HIDE DEF term
  <2>3. QED BY <1>3, <2>1, <2>2
<1>6. \A s \in A : h[s] = term(s) OBVIOUS
<1>7. \A it : P(it) <=> SumsUp(it, h, A)
  <2>1. \A W \in SUBSET A : W # {} => h[First(W)] = term(First(W)) BY <1>6 DEF First
  <2> HIDE DEF h, A, term
  <2>2. QED BY <2>1 DEF SumsUp
<1>8. (\A s \in S : h[s] = Mat(b)[s]) /\ (\A s \in U : h[s] = -Mat(b)[s])
  <2> HIDE DEF h, term
  <2>1. QED BY <1>5, <1>6
<1> HIDE DEF P, h, S, U, term
<1>9. Total(h, A) = Total(Mat(b), S) - Total(Mat(b), U) BY <1>2, <1>4, <1>8, TotalSigned
<1> HIDE DEF A
<1>10. (CHOOSE it : P(it)) = (CHOOSE it : SumsUp(it, h, A)) BY <1>7, Zenon
<1>11. (CHOOSE it : P(it))[A] = Total(h, A) BY <1>10, TotalIs
<1>12. QED BY <1>1, <1>9, <1>11 DEF A, S, U

\* All men where they stand, with the sign of their sides.
LEMMA StandingSigned ==
  ASSUME NEW b \in Board
  PROVE  MapThenSumSet(LAMBDA s : (Sign(b[s].color) * PST[b[s].color][<<b[s].type, s>>] * DEFAULT_CONFIG.pst_weight) \div 100,
                       Own(b, CHO) \union Own(b, HAN))
           = Total(Here(b), Own(b, CHO)) - Total(Here(b), Own(b, HAN))
PROOF
<1> DEFINE S == Own(b, CHO)
           U == Own(b, HAN)
           A == S \union U
           term(s) == (Sign(b[s].color) * PST[b[s].color][<<b[s].type, s>>] * DEFAULT_CONFIG.pst_weight) \div 100
           h == [s \in A |-> term(s)]
           P(it) == it = [W \in SUBSET A |-> IF W = {} THEN 0 ELSE term(First(W)) + it[W \ {First(W)}]]
<1>1. MapThenSumSet(LAMBDA s : (Sign(b[s].color) * PST[b[s].color][<<b[s].type, s>>] * DEFAULT_CONFIG.pst_weight) \div 100, A) = (CHOOSE it : P(it))[A]
  BY DEF MapThenSumSet, MapThenFoldSet, First
<1>2. /\ Numbers(Here(b), S) /\ Numbers(Here(b), U) BY SideNumbers
<1>3. /\ \A s \in S : s \in Own(b, CHO) /\ b[s].color = 0
      /\ \A s \in U : s \in Own(b, HAN) /\ b[s].color = 1
  BY DEF Own
<1>4. S \cap U = {} BY <1>3
<1>5. (\A s \in S : term(s) = Here(b)[s]) /\ (\A s \in U : term(s) = -Here(b)[s])
  <2>1. ASSUME NEW c \in Sides, NEW s \in Own(b, c)
        PROVE  term(s) = Sign(c) * Here(b)[s] /\ Here(b)[s] \in Int
    <3>1. b[s].color = c /\ Here(b)[s] \in Int /\ Here(b)[s] = PST[c][<<b[s].type, s>>] BY MenCount
    <3>2. DEFAULT_CONFIG.pst_weight = 100 BY DEF DEFAULT_CONFIG
    <3>3. \A n \in Int : (n * 100) \div 100 = n OBVIOUS
    <3>4. Sign(c) \in Int BY DEF Sign
    <3>5. Sign(c) * Here(b)[s] \in Int BY <3>1, <3>4
    <3>6. ((Sign(c) * Here(b)[s]) * 100) \div 100 = Sign(c) * Here(b)[s] BY <3>3, <3>5
    <3>7. term(s) = (Sign(c) * PST[c][<<b[s].type, s>>] * 100) \div 100 BY <3>1, <3>2, Zenon
    <3> HIDE DEF term
    <3>8. term(s) = (Sign(c) * Here(b)[s] * 100) \div 100 BY <3>1, <3>7, Zenon
    <3>9. QED BY <3>1, <3>6, <3>8
  <2>2. Sign(CHO) = 1 /\ Sign(HAN) = -1 /\ CHO \in Sides /\ HAN \in Sides BY DEF Sign
  <2> HIDE DEF term
  <2>3. QED BY <1>3, <2>1, <2>2
<1>6. \A s \in A : h[s] = term(s) OBVIOUS
<1>7. \A it : P(it) <=> SumsUp(it, h, A)
  <2>1. \A W \in SUBSET A : W # {} => h[First(W)] = term(First(W)) BY <1>6 DEF First
  <2> HIDE DEF h, A, term
  <2>2. QED BY <2>1 DEF SumsUp
<1>8. (\A s \in S : h[s] = Here(b)[s]) /\ (\A s \in U : h[s] = -Here(b)[s])
  <2> HIDE DEF h, term
  <2>1. QED BY <1>5, <1>6
<1> HIDE DEF P, h, S, U, term
<1>9. Total(h, A) = Total(Here(b), S) - Total(Here(b), U) BY <1>2, <1>4, <1>8, TotalSigned
<1> HIDE DEF A
<1>10. (CHOOSE it : P(it)) = (CHOOSE it : SumsUp(it, h, A)) BY <1>7, Zenon
<1>11. (CHOOSE it : P(it))[A] = Total(h, A) BY <1>10, TotalIs
<1>12. QED BY <1>1, <1>9, <1>11 DEF A, S, U

\* The moves of both sides, each with its sign.
LEMMA MovingSigned ==
  ASSUME NEW b \in Board
  PROVE  MapThenSumSet(LAMBDA s : Sign(b[s].color) * DEFAULT_CONFIG.mobility_weight[b[s].type] * Mobility(b, s),
                       Movers(b, CHO, DEFAULT_CONFIG) \union Movers(b, HAN, DEFAULT_CONFIG))
           = Total(Mob(b), Movers(b, CHO, DEFAULT_CONFIG)) - Total(Mob(b), Movers(b, HAN, DEFAULT_CONFIG))
PROOF
<1> DEFINE S == Movers(b, CHO, DEFAULT_CONFIG)
           U == Movers(b, HAN, DEFAULT_CONFIG)
           A == S \union U
           term(s) == Sign(b[s].color) * DEFAULT_CONFIG.mobility_weight[b[s].type] * Mobility(b, s)
           h == [s \in A |-> term(s)]
           P(it) == it = [W \in SUBSET A |-> IF W = {} THEN 0 ELSE term(First(W)) + it[W \ {First(W)}]]
<1>1. MapThenSumSet(LAMBDA s : Sign(b[s].color) * DEFAULT_CONFIG.mobility_weight[b[s].type] * Mobility(b, s), A) = (CHOOSE it : P(it))[A]
  BY DEF MapThenSumSet, MapThenFoldSet, First
<1>2. /\ Numbers(Mob(b), S) /\ Numbers(Mob(b), U) BY SideNumbers
<1>3. /\ \A s \in S : s \in Own(b, CHO) /\ b[s].color = 0
      /\ \A s \in U : s \in Own(b, HAN) /\ b[s].color = 1
  BY DEF Own, Movers
<1>4. S \cap U = {} BY <1>3
<1>5. (\A s \in S : term(s) = Mob(b)[s]) /\ (\A s \in U : term(s) = -Mob(b)[s])
  <2>1. ASSUME NEW c \in Sides, NEW s \in Movers(b, c, DEFAULT_CONFIG)
        PROVE  term(s) = Sign(c) * Mob(b)[s] /\ Mob(b)[s] \in Int
    <3>1. s \in Own(b, c) BY DEF Movers
    <3>2. /\ s \in Squares /\ b[s].color = c /\ Mob(b)[s] \in Int
          /\ b[s].type \in {CHARIOT, CANNON, HORSE, ELEPHANT}
      BY <3>1, MenCount
    <3>3. Mobility(b, s) \in Int BY <3>2, MobilityIsReach
    <3> DEFINE x == DEFAULT_CONFIG.mobility_weight[b[s].type]
               y == Mobility(b, s)
               z == Sign(c)
    <3>4. x \in Int BY <3>2 DEF DEFAULT_CONFIG
    <3>5. z \in Int BY DEF Sign
    <3>6. Mob(b)[s] = x * y BY <3>2 DEF Mob
    <3>7. term(s) = z * x * y BY <3>2, Zenon
    <3> HIDE DEF x, y, z, term
    <3>8. (z * x) * y = z * (x * y)
      <4>1. y \in Int BY <3>3 DEF y
      <4>2. QED BY <3>4, <3>5, <4>1
    <3>9. QED BY <3>2, <3>6, <3>7, <3>8 DEF z
  <2>2. Sign(CHO) = 1 /\ Sign(HAN) = -1 /\ CHO \in Sides /\ HAN \in Sides BY DEF Sign
  <2> HIDE DEF term, S, U
  <2>3. QED BY <1>3, <2>1, <2>2 DEF S, U
<1>6. \A s \in A : h[s] = term(s) OBVIOUS
<1>7. \A it : P(it) <=> SumsUp(it, h, A)
  <2>1. \A W \in SUBSET A : W # {} => h[First(W)] = term(First(W)) BY <1>6 DEF First
  <2> HIDE DEF h, A, term
  <2>2. QED BY <2>1 DEF SumsUp
<1>8. (\A s \in S : h[s] = Mob(b)[s]) /\ (\A s \in U : h[s] = -Mob(b)[s])
  <2> HIDE DEF h, term
  <2>1. QED BY <1>5, <1>6
<1> HIDE DEF P, h, S, U, term
<1>9. Total(h, A) = Total(Mob(b), S) - Total(Mob(b), U) BY <1>2, <1>4, <1>8, TotalSigned
<1> HIDE DEF A
<1>10. (CHOOSE it : P(it)) = (CHOOSE it : SumsUp(it, h, A)) BY <1>7, Zenon
<1>11. (CHOOSE it : P(it))[A] = Total(h, A) BY <1>10, TotalIs
<1>12. QED BY <1>1, <1>9, <1>11 DEF A, S, U


\* evaluate_breakdown() and evaluate() come to the same number.
LEMMA BreakdownIsValue ==
  ASSUME NEW p, p.board \in Board, p.kings \in [Sides -> Squares], p.side \in Sides
  PROVE  Evaluate(p, DEFAULT_CONFIG) = Breakdown(p, DEFAULT_CONFIG).total
PROOF
<1> DEFINE b == p.board
           cfg == DEFAULT_CONFIG
           of(s) == Sign(b[s].color)
           flip == Sign(p.side)
           material == MapThenSumSet(LAMBDA s : of(s) * cfg.material[b[s].type],
                                     Own(b, CHO) \union Own(b, HAN))
           pst == MapThenSumSet(LAMBDA s : (of(s) * PST[b[s].color][<<b[s].type, s>>] * cfg.pst_weight)
                                             \div 100, Own(b, CHO) \union Own(b, HAN))
           mobility == MapThenSumSet(LAMBDA s : of(s) * cfg.mobility_weight[b[s].type] * Mobility(b, s),
                                     Movers(b, CHO, cfg) \union Movers(b, HAN, cfg))
           pawns == cfg.pawn_connected * (ConnectedPawns(b, CHO) - ConnectedPawns(b, HAN))
           safety == Danger(b, HAN, cfg) - Danger(b, CHO, cfg)
                       + cfg.guard_adjacent * (AdjacentGuards(p, CHO) - AdjacentGuards(p, HAN))
           tempo == flip * cfg.tempo
           t == Terms(p, CHO)
           u == Terms(p, HAN)
<1>0. CHO \in Sides /\ HAN \in Sides /\ Other(CHO) = HAN /\ Other(HAN) = CHO BY DEF Other
<1>1. Breakdown(p, cfg).total = flip * (material + pst + pawns + safety + mobility + tempo)
  BY DEF Breakdown
<1>2. /\ SideScore(p, CHO, cfg) = t.mat + t.here + t.mob + t.pawns + t.near + t.guards
      /\ t.mat \in Int /\ t.here \in Int /\ t.mob \in Int
      /\ t.pawns \in Int /\ t.near \in Int /\ t.guards \in Int
  BY <1>0, SideCounts
<1>3. /\ SideScore(p, HAN, cfg) = u.mat + u.here + u.mob + u.pawns + u.near + u.guards
      /\ u.mat \in Int /\ u.here \in Int /\ u.mob \in Int
      /\ u.pawns \in Int /\ u.near \in Int /\ u.guards \in Int
  BY <1>0, SideCounts
<1>4. material = t.mat - u.mat
  <2>1. t.mat = Total(Mat(b), Own(b, CHO)) /\ u.mat = Total(Mat(b), Own(b, HAN)) BY DEF Terms
  <2> HIDE DEF t, u
  <2>2. QED BY <2>1, MaterialSigned
<1>5. pst = t.here - u.here
  <2>1. t.here = Total(Here(b), Own(b, CHO)) /\ u.here = Total(Here(b), Own(b, HAN)) BY DEF Terms
  <2> HIDE DEF t, u
  <2>2. QED BY <2>1, StandingSigned
<1>6. mobility = t.mob - u.mob
  <2>1. t.mob = Total(Mob(b), Movers(b, CHO, cfg)) /\ u.mob = Total(Mob(b), Movers(b, HAN, cfg))
    BY DEF Terms
  <2> HIDE DEF t, u
  <2>2. QED BY <2>1, MovingSigned
<1>7. pawns = t.pawns - u.pawns
  <2>1. t.pawns = 12 * ConnectedPawns(b, CHO) /\ u.pawns = 12 * ConnectedPawns(b, HAN) BY DEF Terms
  <2>2. cfg.pawn_connected = 12 BY DEF DEFAULT_CONFIG
  <2>3. ConnectedPawns(b, CHO) \in Int /\ ConnectedPawns(b, HAN) \in Int BY <1>0, SideNumbers
  <2> DEFINE x == ConnectedPawns(b, CHO)  y == ConnectedPawns(b, HAN)
  <2> HIDE DEF t, u, x, y
  <2>4. 12 * (x - y) = 12 * x - 12 * y BY <2>3 DEF x, y
  <2>5. QED BY <2>1, <2>2, <2>4 DEF x, y
<1>8. safety = (t.near - u.near) + (t.guards - u.guards)
  <2>1. t.guards = 10 * AdjacentGuards(p, CHO) /\ u.guards = 10 * AdjacentGuards(p, HAN) BY DEF Terms
  <2>2. /\ t.near = Total(Near(b), Endangering(b, HAN, cfg))
        /\ u.near = Total(Near(b), Endangering(b, CHO, cfg))
    BY <1>0, Zenon DEF Terms
  <2>3. Danger(b, HAN, cfg) = t.near /\ Danger(b, CHO, cfg) = u.near BY <1>0, <2>2, MovingSum
  <2>4. cfg.guard_adjacent = 10 BY DEF DEFAULT_CONFIG
  <2>5. AdjacentGuards(p, CHO) \in Int /\ AdjacentGuards(p, HAN) \in Int BY <1>0, GuardsAreNumber
  <2> DEFINE x == AdjacentGuards(p, CHO)  y == AdjacentGuards(p, HAN)
  <2> HIDE DEF t, u, x, y
  <2>6. 10 * (x - y) = 10 * x - 10 * y BY <2>5 DEF x, y
  <2>7. safety = t.near - u.near + 10 * (x - y) BY <2>3, <2>4 DEF x, y
  <2>8. t.guards = 10 * x /\ u.guards = 10 * y BY <2>1 DEF x, y
  <2> HIDE DEF safety
  <2>9. x \in Int /\ y \in Int BY <2>5 DEF x, y
  <2>10. QED BY <1>2, <1>3, <2>6, <2>7, <2>8, <2>9
<1>9. cfg.tempo = 10 BY DEF DEFAULT_CONFIG
<1>10. Evaluate(p, cfg) = SideScore(p, p.side, cfg) - SideScore(p, Other(p.side), cfg) + 10
  BY <1>9 DEF Evaluate
<1>11. (p.side = CHO => flip = 1) /\ (p.side = HAN => flip = -1) BY DEF Sign
<1> HIDE DEF material, pst, mobility, pawns, safety, flip, t, u, cfg
<1> DEFINE x == SideScore(p, CHO, cfg)
           y == SideScore(p, HAN, cfg)
<1>12. material + pst + pawns + safety + mobility = x - y /\ x \in Int /\ y \in Int
  BY <1>2, <1>3, <1>4, <1>5, <1>6, <1>7, <1>8
<1>13. material \in Int /\ pst \in Int /\ pawns \in Int /\ safety \in Int /\ mobility \in Int
  BY <1>2, <1>3, <1>4, <1>5, <1>6, <1>7, <1>8
<1> HIDE DEF x, y
<1>14. CASE p.side = CHO
  <2>1. Evaluate(p, cfg) = x - y + 10 BY <1>0, <1>10, <1>14 DEF x, y
  <2>2. flip = 1 /\ tempo = 10 BY <1>9, <1>11, <1>14
  <2> HIDE DEF tempo
  <2>3. flip * (material + pst + pawns + safety + mobility + tempo) = (x - y) + 10
    BY <1>12, <1>13, <2>2
  <2>4. QED BY <1>1, <1>12, <2>1, <2>3 DEF cfg
<1>15. CASE p.side = HAN
  <2>1. Evaluate(p, cfg) = y - x + 10 BY <1>0, <1>10, <1>15 DEF x, y
  <2>2. flip = -1 /\ tempo = -10 BY <1>9, <1>11, <1>15
  <2> HIDE DEF tempo
  <2>3. material + pst + pawns + safety + mobility + tempo = (x - y) - 10
    BY <1>12, <1>13, <2>2
  <2>4. flip * ((x - y) - 10) = (y - x) + 10 BY <1>12, <2>2
  <2>5. QED BY <1>1, <1>12, <2>1, <2>3, <2>4 DEF cfg
<1>16. QED BY <1>14, <1>15


\* The squares that move generation knows are on the board.
LEMMA TargetsOnBoard ==
  ASSUME NEW b, NEW s \in Squares, b[s].type \in {CHARIOT, CANNON, HORSE, ELEPHANT}
  PROVE  Targets(b, s) \subseteq Reach(s, b) \cap Squares /\ IsFiniteSet(Targets(b, s))
PROOF
<1>1. \A r \in RAYS_ALL[s] : \A k \in Nat : \A i \in Sight(r, k, b) : r[i] \in Squares
  BY RaysApart DEF Sight
<1>2. \A r \in RAYS_ALL[s] : \A k \in Screens(r, b) : k \in Nat BY RaysApart DEF Screens, Sight
<1>8. IsFiniteSet(Squares)
  <2>1. 0 \in Int /\ 8 \in Int /\ 9 \in Int OBVIOUS
  <2>2. IsFiniteSet(0 .. 9) /\ IsFiniteSet(0 .. 8) BY <2>1, FS_Interval
  <2>3. Squares = (0 .. 9) \X (0 .. 8) BY DEF Squares, ROWS, COLS
  <2>4. QED BY <2>2, <2>3, FS_Product
<1>9. Reach(s, b) \subseteq Squares =>
        Targets(b, s) \subseteq Reach(s, b) \cap Squares /\ IsFiniteSet(Targets(b, s))
  <2>1. Targets(b, s) \subseteq Reach(s, b) BY DEF Targets
  <2>2. QED BY <1>8, <2>1, FS_Subset
<1>3. CASE b[s].type = CHARIOT
  <2>1. ChariotReach(s, b) \subseteq Squares BY <1>1 DEF ChariotReach
  <2>2. Reach(s, b) = ChariotReach(s, b) BY <1>3 DEF Reach
  <2>3. QED BY <1>9, <2>1, <2>2
<1>4. CASE b[s].type = CANNON
  <2>1. CannonReach(s, b) \subseteq Squares BY <1>1, <1>2 DEF CannonReach
  <2>2. Reach(s, b) = CannonReach(s, b) BY <1>4 DEF Reach
  <2>3. QED BY <1>9, <2>1, <2>2
<1>5. CASE b[s].type = HORSE
  <2>1. Reach(s, b) \subseteq Squares BY <1>5, MirrorLegs DEF Reach
  <2>2. QED BY <1>9, <2>1
<1>6. CASE b[s].type = ELEPHANT
  <2>1. Reach(s, b) \subseteq Squares BY <1>6, MirrorLegs DEF Reach
  <2>2. QED BY <1>9, <2>1
<1>7. QED BY <1>3, <1>4, <1>5, <1>6

\* A piece has as many moves on the board turned round.
LEMMA MirrorMobility ==
  ASSUME NEW b \in Board, NEW c \in Sides, NEW s \in Own(b, c),
         b[s].type \in {CHARIOT, CANNON, HORSE, ELEPHANT}
  PROVE  Mobility(MirrorBoard(b), MirrorSquare(s)) = Mobility(b, s)
PROOF
<1> DEFINE B == MirrorBoard(b)
           z == MirrorSquare(s)
           S == Targets(b, s)
           U == Targets(B, z)
           f == [t \in S |-> MirrorSquare(t)]
<1>1. Other(c) \in Sides /\ Other(Other(c)) = c BY DEF Other
<1>2. s \in Squares /\ b[s].color = c BY DEF Own
<1>3. B \in Board /\ MirrorBoard(B) = b BY MirrorBoardFacts
<1>4. z \in Own(B, Other(c)) BY MirrorOwn
<1>5. z \in Squares /\ B[z].color = Other(c) BY <1>4 DEF Own
<1>6. B[z].type = b[s].type BY <1>2, MirrorBoardFacts
<1>7. MirrorSquare(z) = s BY <1>2, PlaneFacts, MirrorFacts
<1> HIDE DEF B, z
<1>8. S \subseteq Reach(s, b) \cap Squares /\ IsFiniteSet(S) BY <1>2, TargetsOnBoard
<1>9. U \subseteq Reach(z, B) \cap Squares BY <1>5, <1>6, TargetsOnBoard
<1>10. ASSUME NEW t \in S PROVE MirrorSquare(t) \in U
  <2>1. t \in Squares /\ t \in Reach(s, b) /\ b[t].color # c BY <1>2, <1>8 DEF Targets
  <2>2. MirrorSquare(t) \in Reach(z, B) BY <2>1, MirrorOwn DEF B, z
  <2>3. B[MirrorSquare(t)].color # Other(c) BY <2>1, MirrorBoardFacts DEF B
  <2>4. QED BY <1>5, <2>2, <2>3 DEF Targets
<1>11. ASSUME NEW t \in U PROVE MirrorSquare(t) \in S
  <2>1. t \in Squares /\ t \in Reach(z, B) /\ B[t].color # Other(c) BY <1>5, <1>9 DEF Targets
  <2>2. MirrorSquare(t) \in Reach(s, b) BY <1>1, <1>3, <1>4, <1>7, <2>1, MirrorOwn
  <2>3. b[MirrorSquare(t)].color # c BY <1>1, <1>3, <2>1, MirrorBoardFacts
  <2>4. QED BY <1>2, <2>2, <2>3 DEF Targets
<1>12. \A t \in Squares : MirrorSquare(MirrorSquare(t)) = t BY PlaneFacts, MirrorFacts
<1>13. /\ \A t \in S : f[t] = MirrorSquare(t) /\ f[t] \in U
       /\ \A t, v \in S : f[t] = f[v] => t = v
       /\ \A v \in U : \E t \in S : f[t] = v
  <2>1. \A t \in S : f[t] = MirrorSquare(t) /\ f[t] \in U BY <1>10
  <2> HIDE DEF f, S, U
  <2>2. \A t, v \in S : f[t] = f[v] => t = v BY <1>8, <1>12, <2>1
  <2>3. \A v \in U : \E t \in S : f[t] = v BY <1>9, <1>11, <1>12, <2>1
  <2>4. QED BY <2>1, <2>2, <2>3
<1> HIDE DEF f, S, U
<1>14. Cardinality(U) = Cardinality(S)
  <2>1. \A t \in S : f[t] \in U BY <1>13
  <2>2. QED BY <1>8, <1>13, <2>1, SizeRenamed, Zenon
<1>15. Mobility(b, s) = Cardinality(S) BY <1>2, MobilityIsReach DEF S
<1>16. Mobility(B, z) = Cardinality(U) BY <1>5, <1>6, MobilityIsReach DEF U
<1>17. QED BY <1>14, <1>15, <1>16 DEF B, z


\* The squares of a set, turned round: as many, and they count as much.
LEMMA ImageCounts ==
  ASSUME NEW S \in SUBSET Squares, NEW U \in SUBSET Squares,
         \A s \in S : MirrorSquare(s) \in U, \A u \in U : MirrorSquare(u) \in S
  PROVE  /\ Cardinality(U) = Cardinality(S)
         /\ \A g, h : Numbers(g, S) /\ (\A s \in S : h[MirrorSquare(s)] = g[s]) => Total(h, U) = Total(g, S)
PROOF
<1> DEFINE f == [s \in S |-> MirrorSquare(s)]
<1>1. \A s \in Squares : MirrorSquare(MirrorSquare(s)) = s BY PlaneFacts, MirrorFacts
<1>2. \A s \in S : f[s] = MirrorSquare(s) OBVIOUS
<1> HIDE DEF f
<1>3. \A s \in S : f[s] \in U BY <1>2
<1>4. \A s, r \in S : f[s] = f[r] => s = r BY <1>1, <1>2
<1>5. \A u \in U : \E s \in S : f[s] = u BY <1>1, <1>2
<1>6. IsFiniteSet(S)
  <2>1. 0 \in Int /\ 8 \in Int /\ 9 \in Int OBVIOUS
  <2>2. IsFiniteSet(0 .. 9) /\ IsFiniteSet(0 .. 8) BY <2>1, FS_Interval
  <2>3. Squares = (0 .. 9) \X (0 .. 8) BY DEF Squares, ROWS, COLS
  <2>4. QED BY <2>2, <2>3, FS_Product, FS_Subset
<1>7. Cardinality(U) = Cardinality(S) BY <1>3, <1>4, <1>5, <1>6, SizeRenamed
<1>8. ASSUME NEW g, NEW h, Numbers(g, S), \A s \in S : h[MirrorSquare(s)] = g[s]
      PROVE  Total(h, U) = Total(g, S)
  <2>1. \A s \in S : f[s] \in U /\ h[f[s]] = g[s] BY <1>2, <1>3, <1>8
  <2>2. QED BY <1>4, <1>5, <1>8, <2>1, TotalRenamed
<1>9. QED BY <1>7, <1>8

\* The same for a sum alone.
LEMMA ImageTotal ==
  ASSUME NEW S \in SUBSET Squares, NEW U \in SUBSET Squares, NEW g, NEW h, Numbers(g, S),
         \A s \in S : MirrorSquare(s) \in U, \A u \in U : MirrorSquare(u) \in S,
         \A s \in S : h[MirrorSquare(s)] = g[s]
  PROVE  Total(h, U) = Total(g, S)
PROOF
BY ImageCounts

\* The pawns with a pawn of their side at their right.
Linked(b, c) == {s \in Own(b, c) : b[s].type = PAWN /\ s[2] < COLS - 1 /\ b[<<s[1], s[2] + 1>>] = b[s]}

\* What counts for a side on a board counts for the other on the board turned round.
LEMMA MirrorSets ==
  ASSUME NEW b \in Board, NEW c \in Sides, NEW s
  PROVE  LET B == MirrorBoard(b)  z == MirrorSquare(s)
         IN  /\ s \in Own(b, c) => z \in Own(B, Other(c)) /\ B[z].type = b[s].type
             /\ s \in Movers(b, c, DEFAULT_CONFIG) => z \in Movers(B, Other(c), DEFAULT_CONFIG)
             /\ s \in Endangering(b, c, DEFAULT_CONFIG) => z \in Endangering(B, Other(c), DEFAULT_CONFIG)
             /\ s \in Linked(b, c) => z \in Linked(B, Other(c))
PROOF
<1> DEFINE B == MirrorBoard(b)
           z == MirrorSquare(s)
<1>1. Other(c) \in Sides /\ Other(Other(c)) = c BY DEF Other
<1>2. \A d \in Sides : s \in Own(b, d) => s \in Squares /\ z \in Own(B, Other(d)) /\ B[z].type = b[s].type
  BY MirrorOwn, MirrorBoardFacts DEF Own
<1> HIDE DEF B
<1>3. s \in Movers(b, c, DEFAULT_CONFIG) => z \in Movers(B, Other(c), DEFAULT_CONFIG)
  BY <1>2 DEF Movers
<1>4. ASSUME s \in Endangering(b, c, DEFAULT_CONFIG) PROVE z \in Endangering(B, Other(c), DEFAULT_CONFIG)
  <2>1. s \in Own(b, Other(c)) /\ s \in DANGER_ZONE(c) /\ b[s].type \in DOMAIN DEFAULT_CONFIG.king_danger
    BY <1>4 DEF Endangering
  <2>2. z \in Own(B, Other(Other(c))) /\ B[z].type = b[s].type /\ s \in Squares BY <1>1, <1>2, <2>1
  <2>3. z \in DANGER_ZONE(Other(c))
    <3>1. PICK x \in 0 .. 9, y \in 0 .. 8 : s = <<x, y>> BY <2>2, SquareFacts
    <3>2. s[1] = x /\ s[2] = y /\ z = <<9 - x, y>> BY <3>1 DEF MirrorSquare, ROWS
    <3>3. z[1] = 9 - x /\ z[2] = y BY <3>2
    <3>4. z \in Squares BY <2>2, PlaneFacts, MirrorFacts
    <3>5. y \in 2 .. 6 /\ (x >= 5 <=> c = CHO) BY <2>1, <3>2 DEF DANGER_ZONE
    <3>6. Other(c) = CHO <=> c # CHO BY DEF Other
    <3>7. 9 - x >= 5 <=> ~(x >= 5) OBVIOUS
    <3> HIDE DEF z
    <3>8. QED BY <3>3, <3>4, <3>5, <3>6, <3>7 DEF DANGER_ZONE
  <2>4. QED BY <2>1, <2>2, <2>3 DEF Endangering
<1>5. ASSUME s \in Linked(b, c) PROVE z \in Linked(B, Other(c))
  <2> DEFINE n == <<s[1], s[2] + 1>>
  <2>1. /\ s \in Own(b, c) /\ b[s].type = PAWN /\ s[2] < COLS - 1 /\ b[n] = b[s]
    BY <1>5 DEF Linked
  <2>2. s \in Squares /\ z \in Own(B, Other(c)) /\ B[z].type = PAWN BY <1>2, <2>1
  <2>3. PICK x \in 0 .. 9, y \in 0 .. 8 : s = <<x, y>> BY <2>2, SquareFacts
  <2>4. y < 8 BY <2>1, <2>3 DEF COLS
  <2>5. n = <<x, y + 1>> /\ y + 1 \in 0 .. 8 BY <2>3, <2>4
  <2>6. n \in Squares BY <2>5 DEF Squares, ROWS, COLS
  <2>7. z = <<9 - x, y>> /\ MirrorSquare(n) = <<9 - x, y + 1>> BY <2>3, <2>5 DEF MirrorSquare, ROWS
  <2>8. z[1] = 9 - x /\ z[2] = y /\ <<z[1], z[2] + 1>> = MirrorSquare(n) BY <2>7
  <2>9. b[n] # EMPTY
    <3>1. b[s].color = c /\ EMPTY.color = 2 /\ c # 2 BY <2>1 DEF Own, EMPTY
    <3>2. QED BY <2>1, <3>1
  <2> HIDE DEF n, z
  <2>10. B[MirrorSquare(n)] = B[z]
    <3> DEFINE row == [t \in Squares |-> LET p == b[MirrorSquare(t)]
                                         IN  IF p = EMPTY THEN EMPTY ELSE Of(Other(p.color), p.type)]
    <3>1. B = row BY TableIs DEF B, MirrorBoard
    <3>2. \A t \in Squares : MirrorSquare(t) \in Squares /\ MirrorSquare(MirrorSquare(t)) = t
      BY PlaneFacts, MirrorFacts
    <3>3. \A t \in Squares : row[MirrorSquare(t)]
            = IF b[t] = EMPTY THEN EMPTY ELSE Of(Other(b[t].color), b[t].type)
      BY <3>2
    <3> HIDE DEF row
    <3>4. QED BY <2>1, <2>2, <2>6, <3>1, <3>3 DEF z
  <2>11. z[2] < COLS - 1 BY <2>4, <2>8 DEF COLS
  <2>12. QED BY <2>2, <2>8, <2>10, <2>11 DEF Linked
<1>6. QED BY <1>2, <1>3, <1>4, <1>5 DEF B


\* The terms of a side are those of the other on the board turned round.
LEMMA MirrorTerms ==
  ASSUME NEW p, NEW q, IsImage(p, q), p.board \in Board, p.kings \in [Sides -> Squares], NEW c \in Sides
  PROVE  Terms(q, Other(c)) = Terms(p, c)
PROOF
<1> DEFINE b == p.board
           B == MirrorBoard(b)
           d == Other(c)
           cfg == DEFAULT_CONFIG
<1>1. d \in Sides /\ Other(d) = c BY DEF Other
<1>2. B \in Board /\ MirrorBoard(B) = b BY MirrorBoardFacts
<1>3. q.board = B /\ q.kings[d] = MirrorSquare(p.kings[c]) BY <1>1 DEF IsImage
<1>4. b \in Board OBVIOUS
<1>5. \A s \in Squares : MirrorSquare(s) \in Squares /\ MirrorSquare(MirrorSquare(s)) = s
  BY PlaneFacts, MirrorFacts
<1> HIDE DEF b, B, d
<1>6. \A s : /\ s \in Own(b, c) => MirrorSquare(s) \in Own(B, d) /\ B[MirrorSquare(s)].type = b[s].type
             /\ s \in Movers(b, c, cfg) => MirrorSquare(s) \in Movers(B, d, cfg)
             /\ s \in Endangering(b, d, cfg) => MirrorSquare(s) \in Endangering(B, c, cfg)
             /\ s \in Linked(b, c) => MirrorSquare(s) \in Linked(B, d)
  <2>1. \A s : /\ s \in Own(b, c) => MirrorSquare(s) \in Own(B, d) /\ B[MirrorSquare(s)].type = b[s].type
               /\ s \in Movers(b, c, cfg) => MirrorSquare(s) \in Movers(B, d, cfg)
               /\ s \in Linked(b, c) => MirrorSquare(s) \in Linked(B, d)
    BY <1>4, MirrorSets DEF B, d
  <2>2. \A s : s \in Endangering(b, d, cfg) => MirrorSquare(s) \in Endangering(B, c, cfg)
    BY <1>1, <1>4, MirrorSets DEF B
  <2>3. QED BY <2>1, <2>2
<1>7. \A s : /\ s \in Own(B, d) => MirrorSquare(s) \in Own(b, c)
             /\ s \in Movers(B, d, cfg) => MirrorSquare(s) \in Movers(b, c, cfg)
             /\ s \in Endangering(B, c, cfg) => MirrorSquare(s) \in Endangering(b, d, cfg)
             /\ s \in Linked(B, d) => MirrorSquare(s) \in Linked(b, c)
  <2>1. \A s : /\ s \in Own(B, d) => MirrorSquare(s) \in Own(b, c)
               /\ s \in Movers(B, d, cfg) => MirrorSquare(s) \in Movers(b, c, cfg)
               /\ s \in Linked(B, d) => MirrorSquare(s) \in Linked(b, c)
    BY <1>1, <1>2, MirrorSets
  <2>2. \A s : s \in Endangering(B, c, cfg) => MirrorSquare(s) \in Endangering(b, d, cfg)
    BY <1>2, MirrorSets DEF d
  <2>3. QED BY <2>1, <2>2
<1>8. /\ Own(b, c) \in SUBSET Squares /\ Own(B, d) \in SUBSET Squares
      /\ Movers(b, c, cfg) \in SUBSET Squares /\ Movers(B, d, cfg) \in SUBSET Squares
      /\ Endangering(b, d, cfg) \in SUBSET Squares /\ Endangering(B, c, cfg) \in SUBSET Squares
      /\ Linked(b, c) \in SUBSET Squares /\ Linked(B, d) \in SUBSET Squares
  BY DEF Own, Movers, Endangering, Linked
<1>9. /\ Numbers(Mat(b), Own(b, c)) /\ Numbers(Here(b), Own(b, c))
      /\ Numbers(Mob(b), Movers(b, c, cfg)) /\ Numbers(Near(b), Endangering(b, d, cfg))
  BY <1>4, SideNumbers DEF d
<1>10. Total(Mat(B), Own(B, d)) = Total(Mat(b), Own(b, c))
  <2>1. \A s \in Own(b, c) : Mat(B)[MirrorSquare(s)] = Mat(b)[s]
    BY <1>5, <1>6, <1>8 DEF Mat
  <2>2. Numbers(Mat(b), Own(b, c)) /\ Own(b, c) \in SUBSET Squares /\ Own(B, d) \in SUBSET Squares
    BY <1>8, <1>9
  <2>3. \A s \in Own(b, c) : MirrorSquare(s) \in Own(B, d) BY <1>6
  <2>4. \A s \in Own(B, d) : MirrorSquare(s) \in Own(b, c) BY <1>7
  <2> DEFINE S == Own(b, c)
             U == Own(B, d)
             g == Mat(b)
             h == Mat(B)
  <2>5. /\ Numbers(g, S) /\ S \in SUBSET Squares /\ U \in SUBSET Squares
        /\ \A s \in S : MirrorSquare(s) \in U
        /\ \A s \in U : MirrorSquare(s) \in S
        /\ \A s \in S : h[MirrorSquare(s)] = g[s]
    BY <2>1, <2>2, <2>3, <2>4
  <2> HIDE DEF S, U, g, h
  <2>6. Total(h, U) = Total(g, S) BY <2>5, ImageTotal
  <2>7. QED BY <2>6 DEF S, U, g, h
<1>11. Total(Here(B), Own(B, d)) = Total(Here(b), Own(b, c))
  <2>1. ASSUME NEW s \in Own(b, c) PROVE Here(B)[MirrorSquare(s)] = Here(b)[s]
    <3>1. s \in Squares /\ b[s].type \in Types /\ Here(b)[s] = PST[c][<<b[s].type, s>>]
      BY <1>4, MenCount
    <3>2. /\ MirrorSquare(s) \in Own(B, d) /\ B[MirrorSquare(s)].type = b[s].type BY <1>6
    <3>3. Here(B)[MirrorSquare(s)] = PST[d][<<b[s].type, MirrorSquare(s)>>]
      BY <1>1, <1>2, <3>2, MenCount
    <3>4. QED BY <3>1, <3>3, PstFacts DEF d
  <2>2. Numbers(Here(b), Own(b, c)) /\ Own(b, c) \in SUBSET Squares /\ Own(B, d) \in SUBSET Squares
    BY <1>8, <1>9
  <2>3. \A s \in Own(b, c) : MirrorSquare(s) \in Own(B, d) BY <1>6
  <2>4. \A s \in Own(B, d) : MirrorSquare(s) \in Own(b, c) BY <1>7
  <2> DEFINE S == Own(b, c)
             U == Own(B, d)
             g == Here(b)
             h == Here(B)
  <2>5. /\ Numbers(g, S) /\ S \in SUBSET Squares /\ U \in SUBSET Squares
        /\ \A s \in S : MirrorSquare(s) \in U
        /\ \A s \in U : MirrorSquare(s) \in S
        /\ \A s \in S : h[MirrorSquare(s)] = g[s]
    BY <2>1, <2>2, <2>3, <2>4
  <2> HIDE DEF S, U, g, h
  <2>6. Total(h, U) = Total(g, S) BY <2>5, ImageTotal
  <2>7. QED BY <2>6 DEF S, U, g, h
<1>12. Total(Mob(B), Movers(B, d, cfg)) = Total(Mob(b), Movers(b, c, cfg))
  <2>1. ASSUME NEW s \in Movers(b, c, cfg) PROVE Mob(B)[MirrorSquare(s)] = Mob(b)[s]
    <3>1. s \in Own(b, c) /\ s \in Squares BY <1>8 DEF Movers
    <3>2. b[s].type \in {CHARIOT, CANNON, HORSE, ELEPHANT} BY <1>4, <3>1, MenCount
    <3>3. MirrorSquare(s) \in Squares /\ B[MirrorSquare(s)].type = b[s].type BY <1>5, <1>6, <3>1
    <3>4. Mobility(B, MirrorSquare(s)) = Mobility(b, s) BY <1>4, <3>1, <3>2, MirrorMobility DEF B
    <3>5. QED BY <3>1, <3>3, <3>4 DEF Mob
  <2>2. Numbers(Mob(b), Movers(b, c, cfg)) /\ Movers(b, c, cfg) \in SUBSET Squares /\ Movers(B, d, cfg) \in SUBSET Squares
    BY <1>8, <1>9
  <2>3. \A s \in Movers(b, c, cfg) : MirrorSquare(s) \in Movers(B, d, cfg) BY <1>6
  <2>4. \A s \in Movers(B, d, cfg) : MirrorSquare(s) \in Movers(b, c, cfg) BY <1>7
  <2> DEFINE S == Movers(b, c, cfg)
             U == Movers(B, d, cfg)
             g == Mob(b)
             h == Mob(B)
  <2>5. /\ Numbers(g, S) /\ S \in SUBSET Squares /\ U \in SUBSET Squares
        /\ \A s \in S : MirrorSquare(s) \in U
        /\ \A s \in U : MirrorSquare(s) \in S
        /\ \A s \in S : h[MirrorSquare(s)] = g[s]
    BY <2>1, <2>2, <2>3, <2>4
  <2> HIDE DEF S, U, g, h
  <2>6. Total(h, U) = Total(g, S) BY <2>5, ImageTotal
  <2>7. QED BY <2>6 DEF S, U, g, h
<1>13. Total(Near(B), Endangering(B, c, cfg)) = Total(Near(b), Endangering(b, d, cfg))
  <2>1. ASSUME NEW s \in Endangering(b, d, cfg) PROVE Near(B)[MirrorSquare(s)] = Near(b)[s]
    <3>1. s \in Own(b, c) /\ s \in Squares BY <1>1, <1>8 DEF Endangering
    <3>2. MirrorSquare(s) \in Squares /\ B[MirrorSquare(s)].type = b[s].type BY <1>5, <1>6, <3>1
    <3>3. QED BY <3>1, <3>2 DEF Near
  <2>2. Numbers(Near(b), Endangering(b, d, cfg)) /\ Endangering(b, d, cfg) \in SUBSET Squares /\ Endangering(B, c, cfg) \in SUBSET Squares
    BY <1>8, <1>9
  <2>3. \A s \in Endangering(b, d, cfg) : MirrorSquare(s) \in Endangering(B, c, cfg) BY <1>6
  <2>4. \A s \in Endangering(B, c, cfg) : MirrorSquare(s) \in Endangering(b, d, cfg) BY <1>7
  <2> DEFINE S == Endangering(b, d, cfg)
             U == Endangering(B, c, cfg)
             g == Near(b)
             h == Near(B)
  <2>5. /\ Numbers(g, S) /\ S \in SUBSET Squares /\ U \in SUBSET Squares
        /\ \A s \in S : MirrorSquare(s) \in U
        /\ \A s \in U : MirrorSquare(s) \in S
        /\ \A s \in S : h[MirrorSquare(s)] = g[s]
    BY <2>1, <2>2, <2>3, <2>4
  <2> HIDE DEF S, U, g, h
  <2>6. Total(h, U) = Total(g, S) BY <2>5, ImageTotal
  <2>7. QED BY <2>6 DEF S, U, g, h
<1>14. ConnectedPawns(B, d) = ConnectedPawns(b, c)
  <2>1. Cardinality(Linked(B, d)) = Cardinality(Linked(b, c)) BY <1>6, <1>7, <1>8, ImageCounts
  <2>2. QED BY <2>1 DEF ConnectedPawns, Linked
<1>15. AdjacentGuards(q, d) = AdjacentGuards(p, c)
  <2> DEFINE k == p.kings[c]
             K == MirrorSquare(k)
             S == {s \in PALACE_STEPS[k] : b[s] = Of(c, GUARD)}
             U == {s \in PALACE_STEPS[K] : B[s] = Of(d, GUARD)}
  <2>1. k \in Squares /\ K \in Squares /\ MirrorSquare(K) = k BY <1>5
  <2> HIDE DEF k, K
  <2>2. \A x \in Squares : PALACE_STEPS[x] \subseteq Squares BY AroundFacts
  <2>3. S \in SUBSET Squares /\ U \in SUBSET Squares BY <2>1, <2>2
  <2>4. \A x \in Board, e \in Sides, s \in Squares :
          x[s] = Of(e, GUARD) => MirrorBoard(x)[MirrorSquare(s)] = Of(Other(e), GUARD)
    <3> SUFFICES ASSUME NEW x \in Board, NEW e \in Sides, NEW s \in Squares, x[s] = Of(e, GUARD)
                 PROVE  MirrorBoard(x)[MirrorSquare(s)] = Of(Other(e), GUARD)
      OBVIOUS
    <3> DEFINE row == [t \in Squares |-> LET m == x[MirrorSquare(t)]
                                         IN  IF m = EMPTY THEN EMPTY ELSE Of(Other(m.color), m.type)]
    <3>1. MirrorBoard(x) = row BY TableIs DEF MirrorBoard
    <3>2. row[MirrorSquare(s)] = IF x[s] = EMPTY THEN EMPTY ELSE Of(Other(x[s].color), x[s].type)
      BY <1>5
    <3>3. Of(e, GUARD).color = e /\ Of(e, GUARD).type = GUARD /\ Of(e, GUARD) # EMPTY
      BY DEF Of, EMPTY
    <3> HIDE DEF row
    <3>4. QED BY <3>1, <3>2, <3>3
  <2>5. \A s \in S : MirrorSquare(s) \in U
    <3>1. \A s \in S : MirrorSquare(s) \in PALACE_STEPS[K] BY <2>1, MirrorSteps DEF K
    <3>2. \A s \in S : B[MirrorSquare(s)] = Of(d, GUARD) BY <1>4, <2>3, <2>4 DEF B, d
    <3>3. QED BY <3>1, <3>2
  <2>6. \A s \in U : MirrorSquare(s) \in S
    <3>1. \A s \in U : MirrorSquare(s) \in PALACE_STEPS[k] BY <2>1, MirrorSteps
    <3>2. \A s \in U : b[MirrorSquare(s)] = Of(c, GUARD) BY <1>1, <1>2, <2>3, <2>4
    <3>3. QED BY <3>1, <3>2
  <2> HIDE DEF S, U
  <2>7. Cardinality(U) = Cardinality(S) BY <2>3, <2>5, <2>6, ImageCounts
  <2>8. AdjacentGuards(p, c) = Cardinality(S) BY DEF AdjacentGuards, S, b, k
  <2>9. AdjacentGuards(q, d) = Cardinality(U) BY <1>3 DEF AdjacentGuards, U, K, k
  <2>10. QED BY <2>7, <2>8, <2>9
<1> HIDE DEF cfg
<1>16. Terms(q, d) = [mat |-> Total(Mat(B), Own(B, d)), here |-> Total(Here(B), Own(B, d)),
                      mob |-> Total(Mob(B), Movers(B, d, cfg)), pawns |-> 12 * ConnectedPawns(B, d),
                      near |-> Total(Near(B), Endangering(B, c, cfg)), guards |-> 10 * AdjacentGuards(q, d)]
  BY <1>1, <1>3, Zenon DEF Terms, cfg
<1>17. Terms(p, c) = [mat |-> Total(Mat(b), Own(b, c)), here |-> Total(Here(b), Own(b, c)),
                      mob |-> Total(Mob(b), Movers(b, c, cfg)), pawns |-> 12 * ConnectedPawns(b, c),
                      near |-> Total(Near(b), Endangering(b, d, cfg)), guards |-> 10 * AdjacentGuards(p, c)]
  BY Zenon DEF Terms, cfg, b, d
<1>18. QED BY <1>10, <1>11, <1>12, <1>13, <1>14, <1>15, <1>16, <1>17, Zenon DEF d

\* evaluate() is the same for the board turned round.
LEMMA ValueOfImage ==
  ASSUME NEW p, NEW q, IsImage(p, q), p.board \in Board, p.kings \in [Sides -> Squares], p.side \in Sides
  PROVE  Evaluate(q, DEFAULT_CONFIG) = Evaluate(p, DEFAULT_CONFIG)
PROOF
<1> DEFINE c == p.side
           d == Other(c)
           cfg == DEFAULT_CONFIG
<1>1. c \in Sides /\ d \in Sides /\ Other(d) = c BY DEF Other
<1>2. q.board \in Board BY MirrorBoardFacts DEF IsImage
<1>3. q.side = d BY DEF IsImage
<1>4. q.kings \in [Sides -> Squares]
  <2>1. \A e \in Sides : Other(e) \in Sides BY DEF Other
  <2>2. \A e \in Sides : MirrorSquare(p.kings[Other(e)]) \in Squares
    BY <2>1, PlaneFacts, MirrorFacts
  <2>3. QED BY <2>2 DEF IsImage
<1> HIDE DEF c, d
<1>5. ASSUME NEW e \in Sides PROVE SideScore(q, Other(e), cfg) = SideScore(p, e, cfg)
  <2> DEFINE sum(t) == t.mat + t.here + t.mob + t.pawns + t.near + t.guards
  <2>1. Other(e) \in Sides BY DEF Other
  <2>2. SideScore(p, e, cfg) = sum(Terms(p, e)) BY SideCounts
  <2>3. SideScore(q, Other(e), cfg) = sum(Terms(q, Other(e))) BY <1>2, <1>4, <2>1, SideCounts
  <2>4. Terms(q, Other(e)) = Terms(p, e) BY MirrorTerms
  <2> HIDE DEF sum
  <2>5. QED BY <2>2, <2>3, <2>4
<1> HIDE DEF cfg
<1>6. SideScore(q, d, cfg) = SideScore(p, c, cfg) BY <1>1, <1>5 DEF d
<1>7. SideScore(q, c, cfg) = SideScore(p, d, cfg) BY <1>1, <1>5
<1>8. QED BY <1>1, <1>3, <1>6, <1>7 DEF Evaluate, c, d, cfg

\* In every position of a game: the evaluation and its breakdown come to the same
\* number, the side to move is told the same if board and sides are turned round, and
\* what the loops over the moves of a piece count is what move generation knows.
THEOREM EvaluationsAreOne == Spec => []EvaluationsAgree
PROOF
<1>1. Replayed => EvaluationsAgree
  <2> SUFFICES ASSUME Replayed PROVE EvaluationsAgree OBVIOUS
  <2>1. Good(pos) BY ReplayedIsGood
  <2>2. pos.board \in Board /\ pos.kings \in [Sides -> Squares] /\ pos.side \in Sides
    BY <2>1 DEF Good, WellFormed, Position
  <2>3. Evaluate(pos, DEFAULT_CONFIG) = Breakdown(pos, DEFAULT_CONFIG).total BY <2>2, BreakdownIsValue
  <2>4. IsImage(pos, Mirrored(pos)) BY <2>1, MirroredIsImage
  <2>5. Evaluate(Mirrored(pos), DEFAULT_CONFIG) = Evaluate(pos, DEFAULT_CONFIG)
    BY <2>2, <2>4, ValueOfImage
  <2>6. DOMAIN DEFAULT_CONFIG.mobility_weight = {CHARIOT, CANNON, HORSE, ELEPHANT}
    BY DEF DEFAULT_CONFIG
  <2>7. \A s \in Squares : pos.board[s].type \in {CHARIOT, CANNON, HORSE, ELEPHANT} =>
          Mobility(pos.board, s)
            = Cardinality({t \in Reach(s, pos.board) : pos.board[t].color # pos.board[s].color})
    BY MobilityIsReach DEF Targets
  <2>8. QED BY <2>3, <2>5, <2>6, <2>7, Zenon DEF EvaluationsAgree
<1>2. QED BY <1>1, AlwaysReplayed, PTL

\* All of it together: whatever the code computes twice comes out the same, in every
\* position of every game from every start the rules allow.
THEOREM TablesAgreeAlways == Spec => []TablesAgree
PROOF
<1>1. ASSUME AttacksAreCaptures, ColoursAreSymmetric,
             EvaluationsAgree, NetworkAgrees, ExchangesAgree, LinesAddUp
      PROVE  TablesAgree
  BY <1>1 DEF TablesAgree
<1>2. QED
  BY <1>1, AttacksAreMoves, ColoursAreAlike, EvaluationsAreOne, NetworkSeesImage,
     ExchangesAreBestPlay, LinesWinWhatTheyTake, PTL

=============================================================================
