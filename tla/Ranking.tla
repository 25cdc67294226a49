------------------------------ MODULE Ranking ------------------------------
(***************************************************************************)
(* One analysis, from the root moves of the engine's search thread to the  *)
(* ranking of all legal moves on the screen: iterative deepening over      *)
(* MultiPV lines with aspiration windows (search.cpp), the batches of info *)
(* lines it prints, the app's table of lines by MultiPV index and the      *)
(* snapshot made of it (FairyStockfishEngine.kt; uci_engine.py keeps the   *)
(* same table), and the coach's grades.                                    *)
(*                                                                         *)
(* A search of a root move is a value out of Values: what is below the     *)
(* root is left out, and with it the reductions of the depth at which a    *)
(* line is searched.  The engine goes on when its lines are read: the      *)
(* reader has no influence on it.                                          *)
(***************************************************************************)
EXTENDS Integers, Sequences, SequencesExt, FiniteSetsExt, CoachGrade

CONSTANTS
  Moves,       \* the legal moves, numbered in the order of their notations
  Generated,   \* the order in which the engine generates them
  Values,      \* what the search of a root move may return
  MultiPv,     \* option MultiPV
  WinRate,     \* the win model: per mille of a centipawn score
  WindowFrom,  \* the depth from which windows are narrow (4 in the code)
  MaxDepth,    \* depth limit of the go command
  MaxWiden     \* bound: windows widened for one line

VALUE_MATE            == 32000
VALUE_INFINITE        == 32001
MAX_PLY               == 246
VALUE_MATE_IN_MAX_PLY == VALUE_MATE - MAX_PLY
PawnValueEg           == 208
NOTHING               == -VALUE_INFINITE

ASSUME RankingAssumption ==
  /\ Moves \subseteq Nat /\ IsFiniteSet(Moves) /\ Moves # {}
  /\ Generated \in SetToSeqs(Moves)
  /\ Values \subseteq (1 - VALUE_MATE) .. (VALUE_MATE - 1)
  /\ MultiPv \in 1 .. 500 /\ MaxDepth \in Nat /\ WindowFrom \in Nat /\ MaxWiden \in Nat

\* WinProbability is increasing.
ASSUME WinRateAssumption ==
  /\ \A c \in DOMAIN WinRate : c \in Int /\ WinRate[c] \in 0 .. 1000
  /\ \A c, d \in DOMAIN WinRate : c <= d => WinRate[c] <= WinRate[d]

N     == Cardinality(Moves)
Lines == Min({MultiPv, N})

VARIABLES
  root,       \* rootMoves in their order: [move, score, prev], and as history
              \* at and prevAt, the depths that found score and prev
  depth,      \* rootDepth
  pvIdx,      \* the line being searched, from 1
  window,     \* [alpha, beta, delta, tries]
  ended,      \* bestmove is sent
  wire,       \* info lines printed and not read
  lines,      \* MultiPV index -> latest line
  completed,  \* history: the last depth at which every line was searched
  stopped     \* history: a stop ended the search

vars == <<root, depth, pvIdx, window, ended, wire, lines, completed, stopped>>

\* A set as a sequence.
Arranged(S, ahead(_, _)) ==
  CHOOSE s \in SetToSeqs(S) : \A i, j \in DOMAIN s : i < j => ahead(s[i], s[j])

NoLine == [slot |-> 0]

Everything == [alpha |-> NOTHING, beta |-> VALUE_INFINITE, delta |-> 0, tries |-> 0]

\* Small around the score of the last iteration.
Window(d, prev) ==
  IF d < WindowFrom THEN Everything
  ELSE [alpha |-> Max({prev - 17, NOTHING}), beta |-> Min({prev + 17, VALUE_INFINITE}),
        delta |-> 17, tries |-> 0]

Init ==
  /\ root = [i \in 1 .. N |-> [move |-> Generated[i], score |-> NOTHING, prev |-> NOTHING,
                               at |-> 0, prevAt |-> 0]]
  /\ depth = 1 /\ pvIdx = 1 /\ window = Window(1, NOTHING)
  /\ ended = FALSE /\ stopped = FALSE /\ completed = 0
  /\ wire = <<>>
  /\ lines = [i \in 1 .. Lines |-> NoLine]

-----------------------------------------------------------------------------
(* A search of the root: moves of the list from pvIdx on, the first one     *)
(* first and the others in any order.                                       *)

\* RootMove::operator<: does a come before b?
Before(a, b) == a.score > b.score \/ (a.score = b.score /\ a.prev > b.prev)

\* std::stable_sort of positions from .. to.
StableSort(r, from, to) ==
  LET ahead(i, j) == Before(r[i], r[j]) \/ (~Before(r[j], r[i]) /\ i < j)
      place(j)    == from + Cardinality({i \in from .. to : ahead(i, j)})
  IN [p \in DOMAIN r |-> IF p \in from .. to THEN r[CHOOSE j \in from .. to : place(j) = p]
                         ELSE r[p]]

\* What a search of the root has seen: positions in the order of their search,
\* and what each returned.  Only the last one may reach beta.
Visits ==
  LET orders == {<<>>} \cup {<<pvIdx>> \o p : p \in SetToAllKPermutations(pvIdx + 1 .. N)}
  IN {v \in UNION {[at : {o}, value : [DOMAIN o -> Values]] : o \in orders} :
        \A k \in DOMAIN v.at : v.value[k] >= window.beta => k = Len(v.at)}

IsWhole(v) == v.at # <<>> /\ (Len(v.at) = N + 1 - pvIdx \/ Last(v.value) >= window.beta)

\* The first move and those better than all before them get a score, the others
\* none.
Raises(v, k) == k = 1 \/ \A a \in {window.alpha} \cup {v.value[h] : h \in 1 .. k - 1} : v.value[k] > a

Scored(v) ==
  [i \in 1 .. N |->
     IF i \notin Range(v.at) THEN root[i]
     ELSE LET k == CHOOSE h \in DOMAIN v.at : v.at[h] = i
          IN IF Raises(v, k) THEN [root[i] EXCEPT !.score = v.value[k], !.at = depth]
             ELSE [root[i] EXCEPT !.score = NOTHING]]

Searched(v) == StableSort(Scored(v), pvIdx, N)
Best(v)     == Max(Range(v.value))

-----------------------------------------------------------------------------
(* UCI::pv()                                                                *)

\* UCI::value(); C++ divides towards zero.
Quotient(a, b) == IF a < 0 THEN -((-a) \div b) ELSE a \div b
UciValue(v) ==
  IF v > -VALUE_MATE_IN_MAX_PLY /\ v < VALUE_MATE_IN_MAX_PLY
  THEN [kind |-> "cp", value |-> Quotient(v * 100, PawnValueEg)]
  ELSE [kind |-> "mate",
        value |-> Quotient(IF v > 0 THEN VALUE_MATE - v + 1 ELSE -VALUE_MATE - v - 1, 2)]

\* The win model takes every score there can be.
ASSUME ScoreAssumption ==
  \A v \in Values \cup {0} : UciValue(v).kind = "cp" => UciValue(v).value \in DOMAIN WinRate

\* A line whose move has no score of this iteration shows the last one's.
Info(r, i) ==
  LET updated == r[i].score # NOTHING
      v       == IF updated THEN r[i].score ELSE r[i].prev
  IN [slot |-> i, move |-> r[i].move, depth |-> IF updated THEN depth ELSE Max({1, depth - 1}),
      score |-> UciValue(IF v = NOTHING THEN 0 ELSE v),
      at |-> IF updated THEN r[i].at ELSE r[i].prevAt]

Infos(r, slots) == LET sorted == Arranged(slots, <) IN [k \in DOMAIN sorted |-> Info(r, sorted[k])]

\* Wrong on purpose: lines that were not searched again are left out.
OnlyUpdated(r) == Infos(r, {i \in 1 .. Lines : r[i].score # NOTHING \/ i = 1})

\* At depth 1 there is nothing to say of a move that was not searched.
Batch(r) == Infos(r, {i \in 1 .. Lines : r[i].score # NOTHING \/ depth > 1 \/ i = 1})

-----------------------------------------------------------------------------
(* Thread::search()                                                         *)

\* A fail low or high widens the window for another search of the same line; a
\* single line is printed before it, after three seconds.
Widen(v, late) ==
  /\ IsWhole(v) /\ window.tries < MaxWiden
  /\ \/ /\ Best(v) <= window.alpha
        /\ window' = [alpha |-> Max({Best(v) - window.delta, NOTHING}),
                      beta  |-> Quotient(window.alpha + window.beta, 2),
                      delta |-> window.delta + window.delta \div 4 + 5, tries |-> window.tries + 1]
     \/ /\ Best(v) >= window.beta
        /\ window' = [window EXCEPT !.beta = Min({Best(v) + window.delta, VALUE_INFINITE}),
                                    !.delta = @ + @ \div 4 + 5, !.tries = @ + 1]
  /\ root' = Searched(v)
  /\ wire' = IF late /\ Lines = 1 THEN Batch(root') ELSE <<>>
  /\ UNCHANGED <<depth, pvIdx, ended, lines, completed, stopped>>

\* Is this line done, and with what list?
LineDone(v) == IsWhole(v) /\ window.alpha < Best(v) /\ Best(v) < window.beta
After(v)    == StableSort(Searched(v), 1, pvIdx)

\* The next line of the same iteration; after three seconds the lines so far
\* are printed.
NextLine(v, late) ==
  /\ LineDone(v) /\ pvIdx < Lines
  /\ root' = After(v)
  /\ pvIdx' = pvIdx + 1
  /\ window' = Window(depth, root'[pvIdx'].prev)
  /\ wire' = IF late THEN Batch(root') ELSE <<>>
  /\ UNCHANGED <<depth, ended, lines, completed, stopped>>

\* Wrong on purpose: the score of the last iteration is not kept.
KeepsNothing(rm) == [rm EXCEPT !.prev = NOTHING, !.prevAt = 0]

\* rm.previousScore = rm.score
NewIteration(rm) == [rm EXCEPT !.prev = rm.score, !.prevAt = rm.at]

\* The last line: all are printed, and the next iteration begins unless the
\* depth limit is reached.
NextDepth(v) ==
  /\ LineDone(v) /\ pvIdx = Lines
  /\ wire' = Batch(After(v))
  /\ completed' = depth
  /\ IF depth = MaxDepth
       THEN /\ ended' = TRUE
            /\ root' = After(v)
            /\ UNCHANGED <<depth, pvIdx, window>>
       ELSE /\ root' = [i \in 1 .. N |-> NewIteration(After(v)[i])]
            /\ depth' = depth + 1
            /\ pvIdx' = 1
            /\ window' = Window(depth', root'[1].prev)
            /\ UNCHANGED ended
  /\ UNCHANGED <<lines, stopped>>

\* A stop (of the app, or of the clock) inside the search of a line: what has a
\* score is sorted and printed.
StopInLine(v) ==
  /\ root' = After(v)
  /\ wire' = Batch(root')
  /\ ended' = TRUE /\ stopped' = TRUE
  /\ UNCHANGED <<depth, pvIdx, window, lines, completed>>

\* A stop seen before a line is begun prints nothing any more.
StopBetween ==
  /\ window.tries = 0
  /\ ended' = TRUE /\ stopped' = TRUE
  /\ UNCHANGED <<root, depth, pvIdx, window, wire, lines, completed>>

Engine ==
  /\ ~ended /\ wire = <<>>
  /\ \/ \E v \in Visits :
          \/ \E late \in BOOLEAN : Widen(v, late) \/ NextLine(v, late)
          \/ NextDepth(v) \/ StopInLine(v)
     \/ StopBetween

\* lines[info.multipv] = info
ReadLine ==
  /\ wire # <<>>
  /\ lines' = [lines EXCEPT ![Head(wire).slot] = Head(wire)]
  /\ wire' = Tail(wire)
  /\ UNCHANGED <<root, depth, pvIdx, window, ended, completed, stopped>>

Next == Engine \/ ReadLine

Spec == Init /\ [][Next]_vars

-----------------------------------------------------------------------------
(* buildSnapshot(), which may be called after every line                    *)

orderingScore(line) ==
  IF line.score.kind = "cp" THEN line.score.value
  ELSE IF line.score.value > 0 THEN 100000 - line.score.value
  ELSE -(100000 + line.score.value)

\* The lines by move, the scored moves, best first, and the depth they all have.
\* Of two lines of one move the one of the higher index is put last, and kept.
Snapshot ==
  LET read   == {i \in DOMAIN lines : lines[i] # NoLine}
      byMove == [m \in {lines[i].move : i \in read} |-> lines[Max({i \in read : lines[i].move = m})]]
      key    == [m \in DOMAIN byMove |-> orderingScore(byMove[m])]
  IN [byMove |-> byMove,
      moves  |-> Arranged(DOMAIN byMove, LAMBDA m, n : key[m] > key[n] \/ (key[m] = key[n] /\ m < n)),
      depth  |-> IF DOMAIN byMove = Moves THEN Min({byMove[m].depth : m \in Moves}) ELSE 0]

\* What the coach reads of a move.
Score(line) ==
  LET s == line.score
  IN IF s.kind = "cp" THEN [move |-> line.move, mateIn |-> 0, winRate |-> WinRate[s.value]]
     ELSE [move |-> line.move, mateIn |-> s.value, winRate |-> IF s.value > 0 THEN 1000 ELSE 0]

Verdict(s, m) == Grade(Score(s.byMove[s.moves[1]]), Score(s.byMove[m]))

-----------------------------------------------------------------------------
(* Properties                                                               *)

IsFinal == ended /\ wire = <<>>

\* No line is older than it says by more than one iteration, although a stop
\* labels the scores it finds with the depth it cut.  The one exception is the
\* placeholder of a search stopped before it had searched a single move.
LinesAreFresh ==
  \A i \in {j \in DOMAIN lines : lines[j] # NoLine} :
    \/ lines[i].at \in {lines[i].depth, lines[i].depth - 1} \ {0}
    \/ stopped /\ completed = 0 /\ i = 1

\* The last snapshot of a search that got through one iteration ranks every
\* legal move, although moves change places while the lines are read one by
\* one; and the depth it gives is that of a whole iteration, or one more when a
\* stop cut the next.
FinalIsWhole ==
  IsFinal /\ completed > 0 /\ MultiPv >= N =>
    LET s == Snapshot
    IN /\ DOMAIN s.byMove = Moves
       /\ s.depth \in {completed, completed + 1}
       /\ ~stopped => s.depth = completed

\* The coach's grades get no better down the ranking, mates and all; and the
\* move the engine would play is the best one unless the search was cut.
VerdictsFollow ==
  LET s     == Snapshot
      grade == [i \in DOMAIN s.moves |-> Verdict(s, s.moves[i])]
  IN /\ \A i \in 2 .. Len(s.moves) : grade[i - 1] <= grade[i]
     /\ IsFinal /\ ~stopped => Verdict(s, root[1].move) = BEST
=============================================================================
