---------------------------- MODULE JanggiRules ----------------------------
(***************************************************************************)
(* The rules of janggi as the Python engine computes them (src/engine:     *)
(* geometry.py, board.py, movegen.py, rules.py); the Kotlin module         *)
(* android/game is a port of the same tables and functions.                *)
(*                                                                         *)
(* A square is a pair <<row, col>> and a board maps each to what stands    *)
(* there.  The Zobrist hash of a position stands for the pair of its board *)
(* and its side to move: Hash is that pair, so two positions share a hash  *)
(* exactly when they share both.                                           *)
(***************************************************************************)
EXTENDS Integers, Sequences, FiniteSets, FiniteSetsExt, TLC

CHO == 0
HAN == 1
Sides == {CHO, HAN}
Other(color) == 1 - color

KING == "king"        GUARD == "guard"      CHARIOT == "chariot"
CANNON == "cannon"    HORSE == "horse"      ELEPHANT == "elephant"
PAWN == "pawn"

Piece == [color : Sides, type : {KING, GUARD, CHARIOT, CANNON, HORSE, ELEPHANT, PAWN}]
EMPTY == [color |-> 2, type |-> "empty"]
PASS_MOVE == <<>>

-----------------------------------------------------------------------------
(* geometry.py: the board, its palaces and the precomputed tables           *)

ROWS == 10
COLS == 9
Squares == (0 .. ROWS - 1) \X (0 .. COLS - 1)

PalaceId(s) ==
  IF s[2] \notin 3 .. 5 THEN -1
  ELSE IF s[1] <= 2 THEN HAN ELSE IF s[1] >= 7 THEN CHO ELSE -1

PALACE_CENTER == {<<1, 4>>, <<8, 4>>}
ORTH_DIRS == {<<-1, 0>>, <<1, 0>>, <<0, -1>>, <<0, 1>>}
DIAG_DIRS == {-1, 1} \X {-1, 1}

\* The function f itself, tabulated: the code builds its tables once (_build).
Table(f) == CHOOSE g \in {f} : g = f

Along(s, d, n) == <<s[1] + n * d[1], s[2] + n * d[2]>>

\* Diagonal lines join a corner of a palace and its centre, nothing else.
DiagStepOk(a, b) ==
  /\ <<b[1] - a[1], b[2] - a[2]>> \in DIAG_DIRS
  /\ PalaceId(a) # -1 /\ PalaceId(a) = PalaceId(b)
  /\ {a, b} \cap PALACE_CENTER # {}

\* One step that a slider may take: anywhere orthogonally, diagonally on a line.
LineStep(a, d) ==
  /\ Along(a, d, 1) \in Squares
  /\ d \in ORTH_DIRS \/ DiagStepOk(a, Along(a, d, 1))

RayFrom(s, d) ==
  LET n == Max({k \in 0 .. ROWS : \A i \in 1 .. k : LineStep(Along(s, d, i - 1), d)})
  IN  [i \in 1 .. n |-> Along(s, d, i)]

RAYS_ALL == Table([s \in Squares |-> {RayFrom(s, d) : d \in ORTH_DIRS \union DIAG_DIRS}])

PALACE_STEPS ==
  Table([s \in Squares |->
     {t \in {Along(s, d, 1) : d \in {e \in ORTH_DIRS \union DIAG_DIRS : LineStep(s, e)}} :
        PalaceId(s) # -1 /\ PalaceId(t) = PalaceId(s)}])

\* The two diagonals that go on outward from an orthogonal step.
Outward(d) == {e \in DIAG_DIRS : \A i \in 1 .. 2 : d[i] # 0 => e[i] = d[i]}

Legs == {l \in ORTH_DIRS \X DIAG_DIRS : l[2] \in Outward(l[1])}
HORSE_MOVES ==
  Table([s \in Squares |->
     {x \in {<<Along(s, l[1], 1), Along(Along(s, l[1], 1), l[2], 1)>> : l \in Legs} :
        x[2] \in Squares}])
ELEPHANT_MOVES ==
  Table([s \in Squares |->
     {x \in {<<Along(s, l[1], 1), Along(Along(s, l[1], 1), l[2], 1),
               Along(Along(s, l[1], 1), l[2], 2)>> : l \in Legs} :
        x[3] \in Squares}])

Forward(color) == IF color = CHO THEN -1 ELSE 1
PAWN_MOVES ==
  Table([color \in Sides |-> Table([s \in Squares |->
     {Along(s, d, 1) : d \in {e \in {<<Forward(color), 0>>, <<0, -1>>, <<0, 1>>,
                                     <<Forward(color), -1>>, <<Forward(color), 1>>} :
                                LineStep(s, e)}}])])

\* The reverse tables of attack detection: from which origins a square is hit.
HORSE_ATTACKS ==
  Table([t \in Squares |-> UNION {{<<x[1], s>> : x \in {y \in HORSE_MOVES[s] : y[2] = t}}
                              : s \in Squares}])
ELEPHANT_ATTACKS ==
  Table([t \in Squares |-> UNION {{<<x[1], x[2], s>> : x \in {y \in ELEPHANT_MOVES[s] : y[3] = t}}
                              : s \in Squares}])
PAWN_ATTACKS ==
  Table([color \in Sides |-> Table([t \in Squares |-> {s \in Squares : t \in PAWN_MOVES[color][s]}])])

-----------------------------------------------------------------------------
(* movegen.py: where each piece may go                                       *)

Own(b, color) == {s \in Squares : b[s].color = color}

\* What a slider standing before ray[k + 1] sees: up to and with the next piece.
Sight(ray, k, b) ==
  {i \in k + 1 .. Len(ray) : \A j \in k + 1 .. i - 1 : b[ray[j]] = EMPTY}

\* The one piece a cannon may jump on this ray: the first, unless it is a cannon.
Screens(ray, b) ==
  {k \in Sight(ray, 0, b) : b[ray[k]].type \notin {EMPTY.type, CANNON}}

ChariotReach(f, b) ==
  UNION {{ray[i] : i \in Sight(ray, 0, b)} : ray \in RAYS_ALL[f]}
CannonReach(f, b) ==
  {t \in UNION {UNION {{ray[i] : i \in Sight(ray, k, b)} : k \in Screens(ray, b)}
                  : ray \in RAYS_ALL[f]} :
     b[t].type # CANNON}

Reach(f, b) ==
  LET p == b[f]
  IN  CASE p.type = CHARIOT  -> ChariotReach(f, b)
        [] p.type = CANNON   -> CannonReach(f, b)
        [] p.type = HORSE    -> {x[2] : x \in {y \in HORSE_MOVES[f] : b[y[1]] = EMPTY}}
        [] p.type = ELEPHANT -> {x[3] : x \in {y \in ELEPHANT_MOVES[f] :
                                                  b[y[1]] = EMPTY /\ b[y[2]] = EMPTY}}
        [] p.type = PAWN     -> PAWN_MOVES[p.color][f]
        [] OTHER             -> PALACE_STEPS[f]

PseudoMoves(b, side) ==
  UNION {{<<f, t>> : t \in {u \in Reach(f, b) \cap Squares : b[u].color # side}}
           : f \in Own(b, side)}

-----------------------------------------------------------------------------
(* board.py: attack detection looks from the square under attack outward     *)

Of(color, type) == [color |-> color, type |-> type]

\* Mutant: attack detection forgets that a cannon never takes a cannon.
SlideHitsCannons(ray, t, b, color) ==
  \E k \in Sight(ray, 0, b) :
    \/ b[ray[k]] = Of(color, CHARIOT)
    \/ /\ b[ray[k]].type \notin {EMPTY.type, CANNON}
       /\ \E i \in Sight(ray, k, b) : b[ray[i]] = Of(color, CANNON)
SlideHits(ray, t, b, color) ==
  \E k \in Sight(ray, 0, b) :
    \/ b[ray[k]] = Of(color, CHARIOT)
    \/ /\ b[ray[k]].type \notin {EMPTY.type, CANNON}
       /\ b[t].type # CANNON
       /\ \E i \in Sight(ray, k, b) : b[ray[i]] = Of(color, CANNON)

AttackedBy(b, t, color) ==
  \/ \E ray \in RAYS_ALL[t] : SlideHits(ray, t, b, color)
  \/ \E x \in HORSE_ATTACKS[t] : b[x[2]] = Of(color, HORSE) /\ b[x[1]] = EMPTY
  \/ \E x \in ELEPHANT_ATTACKS[t] :
       b[x[3]] = Of(color, ELEPHANT) /\ b[x[1]] = EMPTY /\ b[x[2]] = EMPTY
  \/ \E s \in PAWN_ATTACKS[color][t] : b[s] = Of(color, PAWN)
  \/ \E s \in PALACE_STEPS[t] : b[s] \in {Of(color, KING), Of(color, GUARD)}

(***************************************************************************)
(* A Position.  history holds the hash of every position of the game with  *)
(* the current one last, stack what each move on it has to put back, and   *)
(* irrev the index in history of the position the last capture produced.   *)
(***************************************************************************)
Hash(p) == <<p.board, p.side>>

InCheck(p) == AttackedBy(p.board, p.kings[p.side], Other(p.side))

KingsFace(b, kings) ==
  /\ kings[CHO][2] = kings[HAN][2]
  /\ \A row \in kings[HAN][1] + 1 .. kings[CHO][1] - 1 : b[<<row, kings[CHO][2]>>] = EMPTY
KingsFacing(p) == KingsFace(p.board, p.kings)

\* Facing kings are a bikjang unless the side to move is in check.
Bikjang(b, kings, side) ==
  KingsFace(b, kings) /\ ~AttackedBy(b, kings[side], Other(side))

PrevBikjang(p) == IF p.stack = <<>> THEN FALSE ELSE p.stack[Len(p.stack)].bikjang

KingSquare(b, color) == CHOOSE s \in Squares : b[s] = Of(color, KING)

\* from_fen: nothing of the play before the position is known.
Setup(b, side, ply, forced) ==
  LET kings == [c \in Sides |-> KingSquare(b, c)]
  IN  [board |-> b, side |-> side, kings |-> kings, passes |-> 0,
       bikjang |-> Bikjang(b, kings, side), ply |-> ply,
       history |-> << <<b, side>> >>, stack |-> <<>>, irrev |-> 1, forced |-> forced]

\* Position.initial: a set-up is the four pieces between chariots and guards,
\* each side's read from its own left.
BackRank(setup) ==
  <<CHARIOT, setup[1], setup[2], GUARD, EMPTY.type, GUARD, setup[3], setup[4], CHARIOT>>
InitialBoard(choSetup, hanSetup) ==
  LET army(s, color, rank, cannons, pawns, king) ==
        IF s = king THEN KING
        ELSE IF s[1] = rank THEN BackRank(IF color = CHO THEN choSetup ELSE hanSetup)
                                    [IF color = CHO THEN s[2] + 1 ELSE COLS - s[2]]
        ELSE IF s[1] = cannons /\ s[2] \in {1, 7} THEN CANNON
        ELSE IF s[1] = pawns /\ s[2] % 2 = 0 THEN PAWN ELSE EMPTY.type
      man(s) == IF s[1] >= 5 THEN Of(CHO, army(s, CHO, 9, 7, 6, <<8, 4>>))
                             ELSE Of(HAN, army(s, HAN, 0, 2, 3, <<1, 4>>))
  IN  Table([s \in Squares |-> IF man(s).type = EMPTY.type THEN EMPTY ELSE man(s)])

\* What a move has to put back; mutant: recorded after irrev has moved on.
UndoLate(p, m, cap) ==
  [move |-> m, captured |-> cap, passes |-> p.passes, bikjang |-> p.bikjang,
   irrev |-> IF cap = EMPTY THEN p.irrev ELSE Len(p.history) + 1]
Undo(p, m, cap) ==
  [move |-> m, captured |-> cap, passes |-> p.passes, bikjang |-> p.bikjang,
   irrev |-> p.irrev]

MakeMove(p, m) ==
  LET pass  == m = PASS_MOVE
      cap   == IF pass THEN EMPTY ELSE p.board[m[2]]
      board == IF pass THEN p.board
               ELSE [p.board EXCEPT ![m[2]] = p.board[m[1]], ![m[1]] = EMPTY]
      kings == IF pass \/ p.board[m[1]].type # KING THEN p.kings
               ELSE [p.kings EXCEPT ![p.side] = m[2]]
      side  == Other(p.side)
  IN  [board   |-> board,
       side    |-> side,
       kings   |-> kings,
       passes  |-> IF pass THEN p.passes + 1 ELSE 0,
       bikjang |-> Bikjang(board, kings, side),
       ply     |-> p.ply + 1,
       history |-> Append(p.history, <<board, side>>),
       stack   |-> Append(p.stack, Undo(p, m, cap)),
       irrev   |-> IF cap = EMPTY THEN p.irrev ELSE Len(p.history) + 1,
       forced  |-> p.forced]

UnmakeMove(p) ==
  LET u     == p.stack[Len(p.stack)]
      m     == u.move
      pass  == m = PASS_MOVE
      mover == Other(p.side)
  IN  [board   |-> IF pass THEN p.board
                   ELSE [p.board EXCEPT ![m[1]] = p.board[m[2]], ![m[2]] = u.captured],
       side    |-> mover,
       kings   |-> IF pass \/ p.board[m[2]].type # KING THEN p.kings
                   ELSE [p.kings EXCEPT ![mover] = m[1]],
       passes  |-> u.passes,
       bikjang |-> u.bikjang,
       ply     |-> p.ply - 1,
       history |-> SubSeq(p.history, 1, Len(p.history) - 1),
       stack   |-> SubSeq(p.stack, 1, Len(p.stack) - 1),
       irrev   |-> u.irrev,
       forced  |-> p.forced]

\* The scans of history: every second entry, back to the last capture.
CountAfterCapture(p) ==   \* mutant: the position the capture produced is skipped
  Cardinality({i \in p.irrev + 1 .. Len(p.history) :
                 (Len(p.history) - i) % 2 = 0 /\ p.history[i] = Hash(p)})
RepetitionCount(p) ==
  Cardinality({i \in p.irrev .. Len(p.history) :
                 (Len(p.history) - i) % 2 = 0 /\ p.history[i] = Hash(p)})
IsRepetition(p) ==
  \E i \in p.irrev .. Len(p.history) - 2 :
    (Len(p.history) - i) % 2 = 0 /\ p.history[i] = Hash(p)

-----------------------------------------------------------------------------
(* movegen.py: the moves a player may make                                   *)

NeedNotResolve(p) == FALSE   \* mutant
MustResolveBikjang(p) == p.forced /\ p.bikjang /\ ~InCheck(p)

IsLegalAfterMake(p, m) ==
  LET q == MakeMove(p, m)
  IN  /\ ~AttackedBy(q.board, q.kings[p.side], q.side)
      /\ MustResolveBikjang(p) => ~KingsFacing(q)

LegalMoves(p) ==
  {m \in PseudoMoves(p.board, p.side) : IsLegalAfterMake(p, m)}
    \union (IF InCheck(p) THEN {} ELSE {PASS_MOVE})

-----------------------------------------------------------------------------
(* rules.py: how a game ends under a rule set                                *)
(* [bikjang |-> "draw" | "points" | "forced" | "off",                        *)
(*  repetition |-> "draw" | "off", max_plies |-> a number]                    *)

\* Points in halves, so that Han's bonus of 1.5 is a whole number.
POINT_VALUE(type) ==
  2 * (CASE type = KING -> 0  [] type = GUARD -> 3  [] type = CHARIOT -> 13
         [] type = CANNON -> 7 [] type = HORSE -> 5 [] type = ELEPHANT -> 3
         [] type = PAWN -> 2)
HAN_BONUS_POINTS == 3

MaterialPoints(b, color) ==
  MapThenSumSet(LAMBDA s : POINT_VALUE(b[s].type), Own(b, color))
    + (IF color = HAN THEN HAN_BONUS_POINTS ELSE 0)

NoWinner == 2
PointsWinner(b) ==
  LET cho == MaterialPoints(b, CHO)  han == MaterialPoints(b, HAN)
  IN  IF cho > han THEN CHO ELSE IF han > cho THEN HAN ELSE NoWinner

End(status, winner) == [status |-> status, winner |-> winner]
ONGOING == End("ongoing", NoWinner)

\* What the endings look at, so that a key of a position can be asked too.
View(p) == [board |-> p.board, passes |-> p.passes, ply |-> p.ply,
            unresolved |-> p.bikjang /\ PrevBikjang(p), count |-> RepetitionCount(p)]

RuleEnding(v, rules) ==
  IF v.passes >= 2
  THEN IF rules.bikjang = "forced" THEN End("passes_points", PointsWinner(v.board))
                                   ELSE End("draw_passes", NoWinner)
  ELSE IF v.unresolved /\ rules.bikjang = "draw" THEN End("draw_bikjang", NoWinner)
  ELSE IF v.unresolved /\ rules.bikjang \in {"points", "forced"}
       THEN End("bikjang_points", PointsWinner(v.board))
  ELSE IF rules.repetition = "draw" /\ v.count >= 3 THEN End("draw_repetition", NoWinner)
  ELSE IF v.ply >= rules.max_plies THEN End("draw_move_limit", NoWinner)
  ELSE ONGOING

GameStatus(p, rules) ==
  IF InCheck(p) /\ LegalMoves(p) = {} THEN End("checkmate", Other(p.side))
  ELSE RuleEnding(View(p), rules)

-----------------------------------------------------------------------------
(* The keys under which what is known of a position is kept                   *)

\* The multiset of the positions since the last capture.
RepetitionContext(p) ==
  LET since == {i \in p.irrev .. Len(p.history) : TRUE}
  IN  [h \in {p.history[i] : i \in since} |->
         Cardinality({i \in since : p.history[i] = h})]

FAR == -1
PliesLeft(p, limit, horizon) ==
  IF limit - p.ply > horizon THEN FAR ELSE Max({limit - p.ply, 0})

\* board.py: the key of the analysis caches.
StateKeyNoPrev(p, rules, horizon) ==   \* mutant: the bikjang before is left out
  [hash |-> Hash(p), passes |-> p.passes, bikjang |-> p.bikjang,
   prev |-> FALSE, context |-> RepetitionContext(p),
   left |-> PliesLeft(p, rules.max_plies, horizon), forced |-> p.forced]
StateKey(p, rules, horizon) ==
  [hash |-> Hash(p), passes |-> p.passes, bikjang |-> p.bikjang,
   prev |-> PrevBikjang(p), context |-> RepetitionContext(p),
   left |-> PliesLeft(p, rules.max_plies, horizon), forced |-> p.forced]

\* search.py: a search draws at the lower of the game's move limit and its own.
SearchLimit(rules, cap) == IF cap < rules.max_plies THEN cap ELSE rules.max_plies
SearchRules(rules, cap) ==
  [bikjang |-> rules.bikjang, repetition |-> rules.repetition,
   max_plies |-> SearchLimit(rules, cap)]

\* search.py: the key of the transposition table.
TtKey(p, rules, cap, horizon) ==
  [hash |-> Hash(p), pending |-> p.passes > 0,
   bikjang |-> p.bikjang /\ rules.bikjang # "off",
   left |-> PliesLeft(p, SearchLimit(rules, cap), horizon)]

(***************************************************************************)
(* search.py: what a node below the root is worth when the game is over     *)
(* there, for the side to move.  A second occurrence already counts as a    *)
(* draw, and the endings by rule are looked at before the moves.            *)
(***************************************************************************)
SearchView(p) == [View(p) EXCEPT !.count = IF IsRepetition(p) THEN 3 ELSE 1]
NodeEndingDeaf(p, rules, cap) ==   \* mutant: an unresolved bikjang is forgotten
  LET byRule == RuleEnding([SearchView(p) EXCEPT !.unresolved = FALSE], SearchRules(rules, cap))
  IN  IF byRule # ONGOING THEN byRule
      ELSE IF LegalMoves(p) = {} THEN End("checkmate", Other(p.side)) ELSE ONGOING
NodeEnding(p, rules, cap) ==
  LET byRule == RuleEnding(SearchView(p), SearchRules(rules, cap))
  IN  IF byRule # ONGOING THEN byRule
      ELSE IF LegalMoves(p) = {} THEN End("checkmate", Other(p.side)) ELSE ONGOING
=============================================================================
