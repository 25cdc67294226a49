------------------------------- MODULE Search -------------------------------
(***************************************************************************)
(* The alpha-beta search of engine/search.py and the analysis of each move *)
(* of the root by engine/analysis.py on abstract games: a game is a graph  *)
(* of positions in which one position can be reached along several lines,  *)
(* at different plies and in several searches that share one transposition *)
(* table.  A position is its own key (KeysDecide of JanggiGame is about    *)
(* the real one); killers, history and the values of captures, which only  *)
(* order moves, are left out.                                              *)
(***************************************************************************)
EXTENDS Integers, Sequences, FiniteSets

CONSTANTS
  Games,     \* the games
  Depths,    \* how deep they are searched
  MaxSteps   \* how many searches or analyses share a table

INF        == 1000000
MATE       == 100000
MATE_BOUND == MATE - 1000
POINTS_WIN == 30000
DRAW_SCORE == 0
NO_MOVE    == 0
MAX_PLY    == 96

\* A game: next[p], the moves of p as records of `to` and `quiet` (no capture); pass[p],
\* the position after a pass, NO_MOVE if that is no legal move; check[p]; value[p], the
\* evaluation; ended[p], whether a bikjang ends the game there, and points[p], the score
\* if it does; rules, what these two may be; asked, the positions of the requests.
Positions(g)  == DOMAIN g.next
Replies(g, p) == {g.next[p][i].to : i \in DOMAIN g.next[p]}
Playing(g)    == {p \in Positions(g) : ~g.ended[p]}
Rules(g) == [ended : [Positions(g) -> BOOLEAN],
             points : [Positions(g) -> {DRAW_SCORE, POINTS_WIN, -POINTS_WIN}]]
Under(g, r) == [g EXCEPT !.ended = r.ended, !.points = r.points]
IsGame(g) ==
  /\ DOMAIN g = {"next", "pass", "check", "value", "ended", "points", "rules", "asked"}
  /\ Positions(g) \subseteq Nat \ {NO_MOVE} /\ g.asked \subseteq Positions(g)
  /\ g.next \in [Positions(g) -> Seq([to : Positions(g), quiet : BOOLEAN])]
  /\ g.pass \in [Positions(g) -> Positions(g) \union {NO_MOVE}]
  /\ g.check \in [Positions(g) -> BOOLEAN]
  /\ g.value \in [Positions(g) -> -MATE_BOUND .. MATE_BOUND]
  /\ [ended |-> g.ended, points |-> g.points] \in Rules(g) /\ g.rules \subseteq Rules(g)

ASSUME GamesAssumption == (\A g \in Games : IsGame(g)) /\ Depths \subseteq Nat /\ MaxSteps \in Nat

Magnitude(n) == IF n < 0 THEN -n ELSE n
Larger(a, b) == IF a < b THEN b ELSE a
Smaller(a, b) == IF a < b THEN a ELSE b

-----------------------------------------------------------------------------
(* The transposition table *)

Entry == [depth : Int, flag : {"none", "exact", "lower", "upper"}, score : Int, move : Nat]
Tables(g) == [Positions(g) -> Entry]
NoEntries(g) ==
  [p \in Positions(g) |-> [depth |-> -1, flag |-> "none", score |-> 0, move |-> NO_MOVE]]

\* The table counts a mate from the position it belongs to, the search from its
\* root.
Stored(score, ply) ==
  IF score > MATE_BOUND THEN score + ply
  ELSE IF score < -MATE_BOUND THEN score - ply ELSE score

\* Wrong on purpose: the distance is taken as if it were counted from the root.
ProbedAsStored(score, ply) == score

Probed(score, ply) ==
  IF score > MATE_BOUND THEN score - ply
  ELSE IF score < -MATE_BOUND THEN score + ply ELSE score

\* Does entry e answer a search of this depth and window?
Answers(e, depth, score, alpha, beta) ==
  /\ e.depth >= depth
  /\ \/ e.flag = "exact"
     \/ e.flag = "lower" /\ score >= beta
     \/ e.flag = "upper" /\ score <= alpha

Flag(best, alpha, beta) ==
  IF best <= alpha THEN "upper" ELSE IF best >= beta THEN "lower" ELSE "exact"

\* The move of the table or of the last iteration goes first.
Ordered(moves, first) ==
  LET k == CHOOSE j \in DOMAIN moves : moves[j].to = first
  IN  IF \A j \in DOMAIN moves : moves[j].to # first THEN moves
      ELSE [i \in DOMAIN moves |-> moves[IF i = 1 THEN k ELSE IF i <= k THEN i - 1 ELSE i]]

-----------------------------------------------------------------------------
(* qsearch(): captures, and every move out of a check.  Of the endings by    *)
(* rule it sees only those of bikjang.                                       *)

qsearch_max_depth == 6

QuietCalls(g) == [here : Positions(g), ply : Int, alpha : Int, beta : Int]

\* One move of the loop; `below` is the search of the next ply.
QuietTry(g, below, x, st, m) ==
  LET score == -below[[here |-> m.to, ply |-> x.ply + 1, alpha |-> -x.beta, beta |-> -st.alpha]]
  IN  IF st.alpha >= x.beta \/ (m.quiet /\ ~g.check[x.here]) THEN st
      ELSE [best |-> Larger(score, st.best), alpha |-> Larger(score, st.alpha)]

QuietMoves(g, below, x) ==
  LET moves == g.next[x.here]
      stand == g.value[x.here]
      after[i \in 0 .. Len(moves)] ==
        IF i > 0 THEN QuietTry(g, below, x, after[i - 1], moves[i])
        ELSE IF g.check[x.here] THEN [best |-> -INF, alpha |-> x.alpha]
        ELSE [best |-> stand, alpha |-> Larger(stand, x.alpha)]
  IN  after[Len(moves)].best

QuietNode(g, below, x, last) ==
  IF x.ply >= MAX_PLY THEN g.value[x.here]
  ELSE IF g.ended[x.here] THEN g.points[x.here]
  ELSE IF last \/ (~g.check[x.here] /\ g.value[x.here] >= x.beta) THEN g.value[x.here]
  ELSE IF g.check[x.here] /\ g.next[x.here] = <<>> THEN -MATE + x.ply
  ELSE QuietMoves(g, below, x)

\* By the plies that are left of qsearch_max_depth.
QSearch(g) ==
  LET quiet[left \in 0 .. qsearch_max_depth] ==
        [x \in QuietCalls(g) |-> QuietNode(g, quiet[left - 1], x, left = 0)]
  IN  quiet

-----------------------------------------------------------------------------
(* negamax(): the path that led here, its last position being searched *)

Calls(g) == [path : Seq(Positions(g)) \ {<<>>}, depth : Int, alpha : Int, beta : Int, tt : Tables(g)]
Call(path, depth, alpha, beta, tt) ==
  [path |-> path, depth |-> depth, alpha |-> alpha, beta |-> beta, tt |-> tt]

Tip(path) == path[Len(path)]
Ply(path) == Len(path) - 1

\* The loop over the moves before its first one.
NoMoveYet(alpha, move, tt) ==
  [legal |-> 0, tt |-> tt, best |-> -INF, move |-> move, alpha |-> alpha, cut |-> FALSE]

\* What a searched move does to the loop: the best one so far, alpha, a cutoff.
Searched(st, m, beta, r) ==
  LET score == -r.score
  IN [legal |-> st.legal + 1, tt |-> r.tt,
      best  |-> Larger(score, st.best), move |-> IF score > st.best THEN m.to ELSE st.move,
      alpha |-> Larger(score, st.alpha), cut |-> Larger(score, st.alpha) >= beta]

\* A null window's answer stands, unless it says that the move may be better.
Confirmed(below, path, depth, beta, alpha, reduced, narrow) ==
  IF -narrow.score > alpha /\ (reduced \/ -narrow.score < beta)
  THEN below[Call(path, depth - 1, -beta, -alpha, narrow.tt)] ELSE narrow

\* One move of the loop: a null window and reductions first, then in full.
Try(g, below, x, depth, st, m) ==
  LET path    == Append(x.path, m.to)
      reduced == /\ depth >= 3 /\ ~g.check[Tip(x.path)] /\ st.legal >= 3
                 /\ m.quiet /\ ~g.check[m.to]
      less    == IF reduced THEN depth - 2 ELSE depth - 1
  IN IF st.cut THEN st
     ELSE Searched(st, m, x.beta,
            IF st.legal = 0 THEN below[Call(path, depth - 1, -x.beta, -st.alpha, st.tt)]
            ELSE Confirmed(below, path, depth, x.beta, st.alpha, reduced,
                           below[Call(path, less, -st.alpha - 1, -st.alpha, st.tt)]))

\* The result of the loop, and the entry that remembers it.
Finished(g, x, depth, st) ==
  LET here == Tip(x.path)
      ply  == Ply(x.path)
  IN IF st.legal = 0
     THEN [score |-> IF g.check[here] THEN -MATE + ply ELSE DRAW_SCORE, tt |-> st.tt]
     ELSE [score |-> st.best,
           tt |-> [st.tt EXCEPT ![here] = [depth |-> depth, flag |-> Flag(st.best, x.alpha, x.beta),
                                           score |-> Stored(st.best, ply), move |-> st.move]]]

\* The moves in order, up to a cutoff.
MoveLoop(g, below, x, depth, first, tt) ==
  LET moves == Ordered(g.next[Tip(x.path)], first)
      after[i \in 0 .. Len(moves)] ==
        IF i = 0 THEN NoMoveYet(x.alpha, NO_MOVE, tt)
        ELSE Try(g, below, x, depth, after[i - 1], moves[i])
  IN  Finished(g, x, depth, after[Len(moves)])

\* A real pass at reduced depth; whoever is still above beta need not look further.
TriesPass(g, x, depth) ==
  LET here == Tip(x.path)
  IN  /\ x.beta - x.alpha <= 1 /\ ~g.check[here] /\ depth >= 3 /\ Ply(x.path) > 0
      /\ g.pass[here] # NO_MOVE /\ g.value[here] >= x.beta

\* The moves, unless the pass was good enough.
AfterPass(g, below, x, depth, first, passed) ==
  IF -passed.score >= x.beta /\ Magnitude(passed.score) < POINTS_WIN - 1000
  THEN [score |-> x.beta, tt |-> passed.tt]
  ELSE MoveLoop(g, below, x, depth, first, passed.tt)

\* What is not over by rule, short of MAX_PLY.
Deepened(g, below, x, depth) ==
  LET here  == Tip(x.path)
      e     == x.tt[here]
      known == Probed(e.score, Ply(x.path))
      less  == depth - 3 - (IF depth >= 6 THEN 1 ELSE 0)
  IN IF depth <= 0
     THEN [score |-> QSearch(g)[qsearch_max_depth][[here |-> here, ply |-> Ply(x.path),
                                                    alpha |-> x.alpha, beta |-> x.beta]],
           tt |-> x.tt]
     ELSE IF Ply(x.path) > 0 /\ Answers(e, depth, known, x.alpha, x.beta)
          THEN [score |-> known, tt |-> x.tt]
     ELSE IF TriesPass(g, x, depth)
          THEN AfterPass(g, below, x, depth, e.move,
                 below[Call(Append(x.path, g.pass[here]), less, -x.beta, -x.beta + 1, x.tt)])
     ELSE MoveLoop(g, below, x, depth, e.move, x.tt)

Node(g, below, x, last) ==
  LET here    == Tip(x.path)
      repeats == \E i \in 1 .. Ply(x.path) : x.path[i] = here
  IN IF Ply(x.path) > 0 /\ g.ended[here] THEN [score |-> g.points[here], tt |-> x.tt]
     ELSE IF repeats THEN [score |-> DRAW_SCORE, tt |-> x.tt]
     ELSE IF last THEN [score |-> g.value[here], tt |-> x.tt]
     ELSE Deepened(g, below, x, IF g.check[here] THEN x.depth + 1 ELSE x.depth)

\* By the plies that are left of MAX_PLY.
Negamax(g) ==
  LET negamax[left \in 0 .. MAX_PLY] ==
        [x \in Calls(g) |-> Node(g, negamax[left - 1], x, left = 0)]
  IN  negamax

\* The search of the position after a move of the root.
Reply(g, p, q, depth, alpha, beta, tt) ==
  Negamax(g)[MAX_PLY - 1][Call(<<p, q>>, depth, alpha, beta, tt)]

-----------------------------------------------------------------------------
(* search(): iterative deepening in aspiration windows *)

\* _root() does not reduce, and searches again only inside the window.
RootConfirmed(g, p, q, depth, beta, alpha, narrow) ==
  IF alpha < -narrow.score /\ -narrow.score < beta
  THEN Reply(g, p, q, depth - 1, -beta, -alpha, narrow.tt) ELSE narrow

RootTry(g, p, depth, beta, st, m) ==
  IF st.cut THEN st
  ELSE Searched(st, m, beta,
         IF st.legal = 0 THEN Reply(g, p, m.to, depth - 1, -beta, -st.alpha, st.tt)
         ELSE RootConfirmed(g, p, m.to, depth, beta, st.alpha,
                Reply(g, p, m.to, depth - 1, -st.alpha - 1, -st.alpha, st.tt)))

Root(g, p, depth, alpha, beta, first, tt) ==
  LET moves == Ordered(g.next[p], first)
      after[i \in 0 .. Len(moves)] ==
        IF i = 0 THEN NoMoveYet(alpha, first, tt)
        ELSE RootTry(g, p, depth, beta, after[i - 1], moves[i])
  IN  after[Len(moves)]

aspiration_window == 40

\* A score outside the window is searched again in one four times as wide; as
\* scores lie in -MATE .. MATE, a window is wide enough after nine times.
Widenings == 9

Wider(g, p, depth, first, w) ==
  LET low  == IF w.r.best <= w.low THEN Larger(-INF, w.low - 4 * w.window) ELSE w.low
      high == IF w.r.best <= w.low THEN w.high ELSE Smaller(INF, w.high + 4 * w.window)
  IN IF w.low < w.r.best /\ w.r.best < w.high THEN w
     ELSE [low |-> low, high |-> high, window |-> 4 * w.window,
           r |-> Root(g, p, depth, low, high, first, w.r.tt)]
Widen(g, p, depth, alpha, beta, first, tt) ==
  LET tried[i \in 0 .. Widenings] ==
        IF i > 0 THEN Wider(g, p, depth, first, tried[i - 1])
        ELSE [low |-> alpha, high |-> beta, window |-> aspiration_window,
              r |-> Root(g, p, depth, alpha, beta, first, tt)]
  IN  tried[Widenings].r

ResultOf(best) == [score |-> best.best, move |-> best.move, tt |-> best.tt]

\* One iteration after the other; r is the result of the last one.  An aborted
\* search is one with fewer iterations.
Iterate(g, p, r, depth) ==
  LET around == depth > 1 /\ Magnitude(r.score) < MATE_BOUND
      low  == IF around THEN r.score - aspiration_window ELSE -INF
      high == IF around THEN r.score + aspiration_window ELSE INF
  IN IF Magnitude(r.score) > MATE_BOUND THEN r
     ELSE ResultOf(Widen(g, p, depth, low, high, r.move, r.tt))

SearchFor(g, p, max_depth, tt) ==
  LET result[d \in 0 .. max_depth] ==
        IF d = 0 THEN [score |-> 0, move |-> g.next[p][1].to, tt |-> tt]
        ELSE Iterate(g, p, result[d - 1], d)
  IN  IF g.next[p] # <<>> THEN result[max_depth]
      ELSE [score |-> IF g.check[p] THEN -MATE ELSE DRAW_SCORE, move |-> NO_MOVE, tt |-> tt]

-----------------------------------------------------------------------------
(* analyze() of engine/analysis.py: every move of the root has a search of   *)
(* its own.  What it has shown, also before an abort, is in `shown`.         *)

NOT_SCORED == -INF

\* A mate, or a win on points.
Decisive(score) == Magnitude(score) >= POINTS_WIN - 1000

WiderMove(g, p, q, depth, w) ==
  LET score == -w.r.score
      fails == score <= w.low /\ w.low > -INF
      low   == IF fails THEN Larger(-INF, w.low - 4 * w.window) ELSE w.low
      high  == IF fails THEN w.high ELSE Smaller(INF, w.high + 4 * w.window)
  IN IF ~fails /\ ~(score >= w.high /\ w.high < INF) THEN w
     ELSE [low |-> low, high |-> high, window |-> 4 * w.window,
           r |-> Reply(g, p, q, depth - 1, -high, -low, w.r.tt)]
WidenMove(g, p, q, depth, alpha, beta, tt) ==
  LET tried[i \in 0 .. Widenings] ==
        IF i > 0 THEN WiderMove(g, p, q, depth, tried[i - 1])
        ELSE [low |-> alpha, high |-> beta, window |-> aspiration_window,
              r |-> Reply(g, p, q, depth - 1, -beta, -alpha, tt)]
  IN  tried[Widenings].r

\* The score of the move to q, shown, and the table.
Noted(st, q, r) == [score |-> [st.score EXCEPT ![q] = -r.score],
                    shown |-> st.shown \union {[move |-> q, score |-> -r.score]}, tt |-> r.tt]

\* The search of the move to q.
AnalyseMove(g, p, depth, st, q) ==
  LET prev   == st.score[q]
      around == prev # NOT_SCORED /\ depth > 2 /\ Magnitude(prev) < MATE_BOUND
      low    == IF around THEN prev - aspiration_window ELSE -INF
      high   == IF around THEN prev + aspiration_window ELSE INF
  IN  Noted(st, q, WidenMove(g, p, q, depth, low, high, st.tt))

\* Best first.
Foremost(score, left) ==
  CHOOSE q \in left : \A r \in left : score[q] > score[r] \/ (score[q] = score[r] /\ q <= r)

\* Whoever is decided on every move goes no deeper.
AnalyseDepth(g, p, depth, st) ==
  LET after[i \in 0 .. Cardinality(Replies(g, p))] ==
        IF i = 0 THEN [st |-> st, left |-> Replies(g, p)]
        ELSE LET q == Foremost(st.score, after[i - 1].left)
             IN  [st |-> AnalyseMove(g, p, depth, after[i - 1].st, q), left |-> after[i - 1].left \ {q}]
      decided == \A q \in Replies(g, p) : st.score[q] # NOT_SCORED /\ Decisive(st.score[q])
  IN IF decided THEN st ELSE after[Cardinality(Replies(g, p))].st

Analyse(g, p, max_depth, tt) ==
  LET after[d \in 0 .. max_depth] ==
        IF d > 0 THEN AnalyseDepth(g, p, d, after[d - 1])
        ELSE [score |-> [q \in Replies(g, p) |-> NOT_SCORED], shown |-> {}, tt |-> tt]
  IN IF g.ended[p] THEN after[0] ELSE after[max_depth]

-----------------------------------------------------------------------------
(* What a mate is, whatever the search does *)

\* The furthest mate that a score can tell.
Furthest == MATE - MATE_BOUND

\* After n plies of best play: positions whose side to move is mated by then, and
\* positions whose side to move has mated by then.
Decided(g) ==
  LET mated == {p \in Playing(g) : g.check[p] /\ Replies(g, p) = {}}
      within[n \in 0 .. Furthest] ==
        IF n = 0 THEN [lost |-> mated, won |-> {}]
        ELSE LET before == within[n - 1]
             IN  [lost |-> mated \union {p \in Playing(g) : /\ Replies(g, p) # {}
                                                            /\ Replies(g, p) \subseteq before.won},
                  won  |-> {p \in Playing(g) : Replies(g, p) \intersect before.lost # {}}]
  IN  within
LostIn(g, n) == IF n < 0 THEN {} ELSE Decided(g)[n].lost
WonIn(g, n) == IF n < 0 THEN {} ELSE Decided(g)[n].won

\* A mate score means a mate on the board, within the plies it says.
IsReal(g, p, score) ==
  /\ score > MATE_BOUND  => p \in WonIn(g, MATE - score)
  /\ score < -MATE_BOUND => p \in LostIn(g, MATE + score)

\* So does the score of a move, counted from before it.
MoveIsReal(g, x) ==
  /\ x.score > MATE_BOUND  => x.move \in LostIn(g, MATE - x.score - 1)
  /\ x.score < -MATE_BOUND => x.move \in WonIn(g, MATE + x.score - 1)

-----------------------------------------------------------------------------
(* The life of a Searcher, with one table: cmd_play plays a game with it, a  *)
(* session of the server analyses the positions of its requests.             *)

VARIABLES
  user,   \* who has it
  game,   \* the game, under the rules of the last request
  root,   \* the position at hand
  table,  \* Searcher.tt
  found,  \* what the last search() says of its position
  shown,  \* what the last analyze() has shown of the moves
  steps   \* the searches and analyses so far

searcher == <<user, game, root, table, found, shown, steps>>

SearchInit ==
  /\ user \in {"play", "session"}
  /\ \E g \in Games : \E r \in g.rules : game = Under(g, r)
  /\ root \in IF user = "play" THEN game.asked ELSE {NO_MOVE}
  /\ table = NoEntries(game) /\ found = {} /\ shown = {} /\ steps = 0

\* Unless the game is over, search() finds a move, which is made.  Its deadline ends
\* it between two iterations, or in one, of which only the table knows.
PlayMove(begun, finished) ==
  /\ user = "play" /\ steps < MaxSteps /\ finished \in {begun, begun - 1}
  /\ root \in Playing(game) /\ Replies(game, root) # {}
  /\ \E r \in {[n \in {begun, finished} |-> SearchFor(game, root, n, table)]} :
       /\ found' = {[position |-> root, score |-> r[finished].score]}
       /\ root' = r[finished].move /\ table' = r[begun].tt
  /\ steps' = steps + 1
  /\ UNCHANGED <<user, game, shown>>

\* A request brings its position and its rules; other rules need another table.
AnalyseJob(p, r, depth) ==
  /\ user = "session" /\ steps < MaxSteps
  /\ game' = Under(game, r) /\ root' = p
  /\ LET tt == IF Under(game, r) = game THEN table ELSE NoEntries(game)
     IN  \E st \in {Analyse(Under(game, r), p, depth, tt)} : table' = st.tt /\ shown' = st.shown
  /\ steps' = steps + 1
  /\ UNCHANGED <<user, found>>

SearchNext ==
  \/ \E depth \in Depths : \E begun, finished \in 0 .. depth : PlayMove(begun, finished)
  \/ \E p \in game.asked, r \in game.rules, depth \in Depths : AnalyseJob(p, r, depth)

SearchSpec == SearchInit /\ [][SearchNext]_searcher

\* Whatever graph a game is, a mate score of search(), or of a move in any result
\* of analyze(), means that the mate is there, in as many plies at most: also when
\* the entry it comes from was made at another ply, at a smaller depth, in a null
\* window, in the search of another move, or in an earlier search or analysis.
MatesAreReal ==
  /\ \A x \in found : IsReal(game, x.position, x.score)
  /\ \A x \in shown : MoveIsReal(game, x)
=============================================================================
