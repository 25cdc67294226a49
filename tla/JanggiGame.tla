----------------------------- MODULE JanggiGame -----------------------------
(***************************************************************************)
(* One Position in use (src/engine/board.py): a game replays its moves on  *)
(* it and the search makes and takes back moves on the same object.  The   *)
(* rules themselves are in JanggiRules.                                    *)
(***************************************************************************)
EXTENDS Explain, Encoding, SequencesExt

CONSTANTS
  Starts,     \* set-ups: [board, side, ply]; two bounds: to, the squares moves
              \* may go to, and depth, the moves on the stack at a time
  RuleSets,   \* the rule configurations
  MaxPliesDraw,   \* max_plies_draw: the ply from which a search calls a line drawn
  Horizon     \* plies before the move limit from which the keys count them

\* A game starts from a board with one king a side, and the side that is not to
\* move is not in check (from_fen asks for the kings only).
ASSUME StartsAssumption ==
  \A s \in Starts :
    /\ s.board \in [Squares -> Piece \union {EMPTY}] /\ s.side \in Sides /\ s.ply \in Nat
    /\ \A c \in Sides : \E k \in Squares :
         \A t \in Squares : s.board[t] = Of(c, KING) <=> t = k
    /\ ~AttackedBy(s.board, KingSquare(s.board, Other(s.side)), s.side)

\* RuleConfig takes no other modes.
ASSUME RuleSetsAssumption ==
  \A r \in RuleSets : /\ r.bikjang \in {"draw", "points", "forced", "off"}
                      /\ r.repetition \in {"draw", "off"} /\ r.max_plies \in Int
ASSUME HorizonAssumption == Horizon \in Nat
ASSUME MaxPliesDrawAssumption == MaxPliesDraw \in Int

VARIABLES
  start, rules,   \* chosen once
  line,           \* the moves made and not taken back
  pos             \* the Position

vars == <<start, rules, line, pos>>

StartPosition == Setup(start.board, start.side, start.ply, rules.bikjang = "forced")

Init ==
  /\ start \in Starts /\ rules \in RuleSets
  /\ line = <<>>
  /\ pos = StartPosition

Offered == {m \in LegalMoves(pos) : m # PASS_MOVE => m[2] \in start.to}

\* A player or the search makes a legal move in a game that is not over.
Make(m) ==
  /\ Len(line) < start.depth
  /\ GameStatus(pos, rules) = ONGOING
  /\ pos' = MakeMove(pos, m)
  /\ line' = Append(line, m)
  /\ UNCHANGED <<start, rules>>

\* The search leaves a node, or unwinds after an abort.
Unmake ==
  /\ line # <<>>
  /\ pos' = UnmakeMove(pos)
  /\ line' = SubSeq(line, 1, Len(line) - 1)
  /\ UNCHANGED <<start, rules>>

Next == (\E m \in Offered : Make(m)) \/ Unmake

Spec == Init /\ [][Next]_vars

-----------------------------------------------------------------------------
(* Properties                                                                *)

\* The record is a position: each king where kings says, in its own palace,
\* the history as long as the game and irrev inside it.
TypeOK ==
  /\ start \in Starts /\ rules \in RuleSets
  /\ DOMAIN pos.board = Squares
  /\ \A s \in Squares : pos.board[s] \in Piece \union {EMPTY}
  /\ pos.side \in Sides
  /\ \A c \in Sides : /\ PalaceId(pos.kings[c]) = c
                      /\ pos.board[pos.kings[c]] = Of(c, KING)
  /\ pos.passes \in 0 .. 2 /\ pos.bikjang \in BOOLEAN /\ pos.ply \in Nat
  /\ Len(pos.stack) = Len(line) /\ Len(pos.history) = Len(line) + 1
  /\ pos.irrev \in 1 .. Len(pos.history)
  /\ pos.history[Len(pos.history)] = Hash(pos)

\* Whatever was made and taken back, the position is the one that replaying
\* the moves on the stack gives: a search leaves nothing behind in the game.
PositionIsReplay ==
  LET at[n \in 0 .. Len(line)] == IF n = 0 THEN StartPosition ELSE MakeMove(at[n - 1], line[n])
  IN  pos = at[Len(line)]

\* Attack detection, which walks outward from the square, and move generation,
\* which walks from the pieces, agree: a piece is attacked exactly when some
\* pseudo-legal move takes it.
AttacksAreCaptures ==
  \A by \in Sides :
    LET taken == {m[2] : m \in PseudoMoves(pos.board, by)}
    IN  \A s \in Own(pos.board, Other(by)) : AttackedBy(pos.board, s, by) <=> s \in taken

\* The scans of history skip every second entry and stop at the last capture,
\* and still find every earlier occurrence of the position in the whole game.
RepetitionIsWhole ==
  LET all == {i \in 1 .. Len(pos.history) : pos.history[i] = Hash(pos)}
  IN  /\ RepetitionCount(pos) = Cardinality(all)
      /\ IsRepetition(pos) <=> Cardinality(all) > 1

\* Cho and Han play by the same rules: the board turned round with the colours
\* exchanged has the same moves and the same attacks (Position.mirrored).
MirrorBoard(b) ==
  Table([s \in Squares |->
     LET p == b[MirrorSquare(s)] IN IF p = EMPTY THEN EMPTY ELSE Of(Other(p.color), p.type)])
ColoursAreSymmetric ==
  LET b == pos.board
  IN  /\ \A c \in Sides : PseudoMoves(MirrorBoard(b), Other(c)) =
                            {<<MirrorSquare(m[1]), MirrorSquare(m[2])>> : m \in PseudoMoves(b, c)}
      /\ \A c \in Sides : AttackedBy(b, pos.kings[c], Other(c)) <=>
                            AttackedBy(MirrorBoard(b), MirrorSquare(pos.kings[c]), c)

\* The two evaluations agree, a position and its mirror image are worth the same,
\* and a piece has as many moves as the evaluation counts.
Mirrored(p) == [Setup(MirrorBoard(p.board), Other(p.side), 0, p.forced) EXCEPT !.passes = p.passes]
EvaluationsAgree ==
  LET b       == pos.board
      value   == Evaluate(pos, DEFAULT_CONFIG)
      counted == {s \in Squares : b[s].type \in DOMAIN DEFAULT_CONFIG.mobility_weight}
  IN  /\ value = Breakdown(pos, DEFAULT_CONFIG).total
      /\ value = Evaluate(Mirrored(pos), DEFAULT_CONFIG)
      /\ \A s \in counted :
           Mobility(b, s) = Cardinality({t \in Reach(s, b) : b[t].color # b[s].color})

\* The network sees a position and its mirror image alike, but for what a mirror
\* image does not have, a history, and for the side; and the moves that the mask of
\* the image names are the legal moves of the position.
NetworkAgrees ==
  LET image == Mirrored(pos)
      seen(p) == [EncodePosition(p) EXCEPT !.repetition = 0, !.side = TRUE]
  IN  /\ seen(pos) = seen(image)
      /\ LegalMoves(pos) = {PolicyIndexToMove(i, pos.side) : i \in LegalPolicyMask(image)}

\* What a swap list says is what best play in the exchange is worth: each side
\* goes on only if that pays.  Its defenders are those attack detection would find,
\* a man said to hang can be taken, and by a king only if nobody defends him.
WorthOf(takes) ==
  LET from[n \in DOMAIN takes] ==
        takes[n] - (IF n = Len(takes) THEN 0 ELSE Max({0, from[n + 1]}))
  IN  IF takes = <<>> THEN 0 ELSE from[1]
Defended(s, color) == AttackedBy([pos.board EXCEPT ![s] = Of(Other(color), KING)], s, color)
ExchangesAgree ==
  \A color \in Sides :
    LET hanging == HangingPieces(pos.board, color)
    IN  /\ \A s \in Own(pos.board, color) :
             /\ SeeGain(pos.board, s, Other(color)) = WorthOf(Exchange(pos.board, s, Other(color)))
             /\ AttackersOf(pos.board, s, color) # {} <=> Defended(s, color)
        /\ hanging \subseteq {m[2] : m \in PseudoMoves(pos.board, Other(color))}
        /\ \A s \in hanging : AttackersOf(pos.board, s, Other(color)) = {pos.kings[Other(color)]}
                                => ~Defended(s, color)

\* What explain.py says a line wins is what it changes in the points of the rules,
\* which are counted in halves.
LinesAddUp ==
  LET me         == start.side
      ahead(b)   == MaterialPoints(b, me) - MaterialPoints(b, Other(me))
      told       == PvMaterial(StartPosition, line)
  IN  ~told.over /\ told.cur.board = pos.board /\ 2 * told.net = ahead(pos.board) - ahead(start.board)

\* The tables, the moves, the attacks and what is built on them agree.
TablesAgree ==
  /\ AttacksAreCaptures /\ ColoursAreSymmetric
  /\ EvaluationsAgree /\ NetworkAgrees /\ ExchangesAgree /\ LinesAddUp

\* The search ends a line exactly where the game ends, with the same winner, but
\* for two draws of its own: at the second occurrence of a position, where the game
\* waits for the third, and from its move limit on, where the game may be mate or,
\* when its rules allow more plies than max_plies_draw, not over at all.
SearchEndsWithGame ==
  line # <<>> =>
    LET ending == GameStatus(pos, rules)
        node   == NodeEnding(pos, rules, MaxPliesDraw)
    IN  \/ node = ending
        \/ node.status = "draw_repetition" /\ IsRepetition(pos)
        \/ /\ node.status = "draw_move_limit" /\ pos.ply >= SearchLimit(rules, MaxPliesDraw)
           /\ ending = ONGOING \/ ending.status = "checkmate"

\* Under the "forced" rule the receiver of a bikjang either breaks it or
\* passes, and the pass ends the game: no bikjang stands for two moves.
BikjangIsAnswered ==
  [][rules.bikjang = "forced" /\ pos.bikjang /\ Len(line') > Len(line) =>
       \/ ~KingsFacing(pos')
       \/ Last(line') = PASS_MOVE /\ GameStatus(pos', rules).status = "bikjang_points"]_vars

-----------------------------------------------------------------------------
(* What a key decides.  KeyPosition is the position a reader of the key can  *)
(* rebuild; nothing of the game but the key is used from here on.            *)

KeyPosition(hash, passes, bikjang, forced) ==
  [Setup(hash[1], hash[2], 0, forced) EXCEPT !.passes = passes, !.bikjang = bikjang]

LeftAfter(left) == IF left = FAR THEN {FAR, Horizon} ELSE {Max({left - 1, 0})}
PlyOf(left, limit) == IF left = FAR THEN limit - 1 ELSE limit - left

StatePosition(k) == KeyPosition(k.hash, k.passes, k.bikjang, k.forced)
StateEnding(k) ==
  IF InCheck(StatePosition(k)) /\ LegalMoves(StatePosition(k)) = {}
  THEN End("checkmate", Other(k.hash[2]))
  ELSE RuleEnding([board |-> k.hash[1], passes |-> k.passes, ply |-> PlyOf(k.left, rules.max_plies),
                   unresolved |-> k.bikjang /\ k.prev, count |-> k.context[k.hash]], rules)
StateAfter(k, m) ==
  LET q    == MakeMove(StatePosition(k), m)
      h    == Hash(q)
      bag  == IF q.irrev > 1 THEN [x \in {} |-> 0] ELSE k.context
      more == [x \in DOMAIN bag \union {h} |->
                 (IF x \in DOMAIN bag THEN bag[x] ELSE 0) + (IF x = h THEN 1 ELSE 0)]
  IN  {[hash |-> h, passes |-> q.passes, bikjang |-> q.bikjang, prev |-> k.bikjang,
        context |-> more, left |-> l, forced |-> k.forced] : l \in LeftAfter(k.left)}

\* The moves, the ending and the key after each move all follow from the state
\* key alone, so two positions that share one have the same game before them.
StateKeyDecides ==
  LET k == StateKey(pos, rules, Horizon)
  IN  /\ LegalMoves(StatePosition(k)) = LegalMoves(pos)
      /\ StateEnding(k) = GameStatus(pos, rules)
      /\ line # <<>> => k \in StateAfter(StateKey(UnmakeMove(pos), rules, Horizon), Last(line))

searched == SearchRules(rules, MaxPliesDraw)
TtKeyOf(p) == TtKey(p, rules, MaxPliesDraw, Horizon)
TtPosition(k) ==
  KeyPosition(k.hash, IF k.pending THEN 1 ELSE 0, k.bikjang, rules.bikjang = "forced")
TtAfter(k, m) ==
  LET q == MakeMove(TtPosition(k), m)
  IN  {[hash |-> Hash(q), pending |-> q.passes > 0,
        bikjang |-> q.bikjang /\ rules.bikjang # "off", left |-> l] : l \in LeftAfter(k.left)}
\* How the node after m ends by rule, leaving repetitions out of the account.
TtEndingAfter(k, m, left) ==
  LET q == MakeMove(TtPosition(k), m)
  IN  RuleEnding([View(q) EXCEPT !.ply = PlyOf(left, searched.max_plies), !.count = 1], searched)

\* "board hash plus every state component that changes the game result": but
\* for repetitions, a table entry's key decides the moves of its node, how the
\* node after each of them ends, and that node's key.
TtKeyDecides ==
  LET n == TtKeyOf(pos)
      k == TtKeyOf(UnmakeMove(pos))
  IN  /\ pos.passes < 2 => LegalMoves(TtPosition(n)) = LegalMoves(pos)
      /\ line # <<>> => /\ n \in TtAfter(k, Last(line))
                        /\ TtEndingAfter(k, Last(line), n.left) =
                             RuleEnding([View(pos) EXCEPT !.count = 1], searched)

\* A cached analysis is an answer for every position with its key, and a table
\* entry for every node with its.
KeysDecide == StateKeyDecides /\ TtKeyDecides
=============================================================================
