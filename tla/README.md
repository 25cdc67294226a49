# Verification of the Janggi engine, app and server

TLA+ models, TLC runs and TLAPS proofs for this repository: the concurrent way from
a tap on the board of the Android app, through the Kotlin engine session, down to
the native Fairy-Stockfish loop and back; the Python server that shares one engine
between clients; and the algorithms whose results everything else trusts (the rules of
the game, the Python search, the ranking of moves).

## 1. The system

| Component | Source | State it keeps | Operations | Modelled in |
|---|---|---|---|---|
| Native UCI loop | `fairy-stockfish/uci.cpp`, `thread.cpp`, `search.cpp`, `ucioption.cpp` | options, position, `Threads.stop`, the main search thread, root moves | `go`, `stop`, `quit`, `position`, `setoption`, `isready` | `UciCore`, `Ranking` |
| Native host | `engine_host.cpp`, JNI | running flag, thread, line buffers, redirected `cin`/`cout` | `start`, `shutdown`, `send`, `readLine` | `EngineHost` |
| Kotlin engine session | `FairyStockfishEngine.kt`, `JniUciTransport.kt` | `searchMutex`, engine thread, `searching`, option caches | `analyze`, `bestMove`, `newGame`, `stop`, `close` | `FairyEngine`, `EngineContract` |
| Info lines and snapshots | `UciInfo.kt`, `buildSnapshot()` | table of lines by MultiPV index | read a line, build a snapshot | `Ranking` |
| Game screen | `GameViewModel.kt`, `GameSession.kt` | session, mode, `aiJob`, `aiSearching`, `generation`, `pendingCoach` | play, undo, new game, pause, background | `GameFlow` |
| Coach | `CoachController.kt` | `currentId`, `analyzingPly`, verdicts | `evaluate`, `finish`, `cancel`, `sync` | `GameFlow` |
| Coach grading | `CoachEvaluator.kt`, `CoachGrade.kt` | none | grade a move | `CoachGrade`, `Ranking` |
| Analysis screen | `AnalysisController.kt`, `AnalysisViewModel.kt` | current id, job, snapshot cache, strength | request, stop, navigate, background | `AnalysisFlow` |
| Analysis server | `server/app.py` | active jobs, engine locks | websocket sessions, REST calls | `AnalysisServer` |
| UCI process wrapper | `uci_engine.py`, `get_uci_engine()` | process, reader thread, line queue, caches | start, search, close, replace | `UciProcess` |
| Rules | `board.py`, `movegen.py`, `rules.py`, `geometry.py` and their port in `android/game` | board, history, passes, bikjang | make, unmake, legal moves, endings, keys | `JanggiRules`, `JanggiGame` |
| Python search | `search.py`, `analysis.py` | transposition table | alpha-beta, quiescence, deepening, analysis of every move | `Search`, `JanggiRules` |
| Evaluation, explanations, network input | `evaluation.py`, `explain.py`, `neural/encoding.py` | none | value a position, weigh exchanges, encode | `Evaluation`, `Explain`, `Encoding` |
| Settings, records, UI, CLI | `data/`, `navigation/`, `cli.py`, ... | files | load, save, draw | not modelled, but for `cmd_play` (`Search`) |

How they interact. The screens run on the main thread and call `JanggiEngine`.
Each call becomes a coroutine on the one engine thread, serialised by `searchMutex`.
The engine thread sends lines to the host's input buffer and polls the output buffer.
The host's own thread runs the UCI loop, which hands searches to a search thread.
`stop()` and `close()` bypass the queue and come from any thread; `send("stop")` even
raises the native stop flag itself. Cancellation of the calling coroutine is a second,
independent way to end a search. On the server, websocket sessions start analyses on
worker threads, which contend with REST calls for the lock of an engine; the engine is
an in-process `Analyzer` or a `UciEngine` around a child process with a reader thread.

Hard parts: a stop overtaking the `go` it is meant for, or hitting the next one; a
request that ends early and leaves output or a search behind; timeouts whose late
answer arrives during a later request; option caches; restarts of a session or process
that died or timed out; results that come back to a screen that has moved on; caches by
position when endings depend on more than the board; one search making and unmaking
thousands of moves on the game's own position; table entries shared between plies and
searches; rankings assembled from lines that arrive one by one. `PROJECT.json` lists
each hazard with its line and the properties against it.

### What makes each component correct

- UCI loop: one `bestmove` per `go`; a stop is not lost; no thread left behind.
- Host: `running`, thread and streams agree; a session ends only when told to.
- Session: quiet engine between searches; answers, info lines, options and
  position belong to the request; whoever cancels or stops gets the engine back.
- Ranking: the last snapshot has every legal move, with scores as recent as it says;
  grades follow the ranking.
- Game screen and coach: outdated results never reach the board; verdicts fit the
  game shown; the coach never competes with the AI; the AI always moves.
- Analysis screen: the snapshot shown is of the position shown; nothing cut short is
  cached; the screen shows its analysis in the end.
- Server: one final message per job, jobs in order, the engine given back.
- Process wrapper: a call gets its own answer under its own options, or an error.
- Rules: take-back is exact; attack detection agrees with move generation; repetition
  counting misses nothing; the keys decide what they are used for.
- Search: ends where the game ends; a mate it announces is one, in the plies it says.

## 2. The modules

### UciCore
Variables: the queues `inq` and `outq` between the app and the loop, the flag
`stop` (`Threads.stop`), where the loop is (`loop`), the search thread (`srch`),
the root position and the options. Actions: one per command of `UCI::loop`, the
wait of `start_thinking()` for the previous search, info lines, the end of a
search by its limit or by the flag, and the busy wait of an unlimited search.
A line is a record (command, task, option, value). `MaxInfo` bounds the info lines of
a search.

### FairyEngine (on UciCore)
A *task* is one call of `analyze`, `bestMove` or `newGame`. `pc` is the point of
the handler at which the engine thread is: acquire the mutex, start and handshake,
`applyCommon`, drain, `setMultiPv`, `position`, sync, `go`, `searching = true`,
the read loop with its cancellation check, the emit of a snapshot. Every
`readUntil` may reach its deadline if `MayTimeOut`. `Cancel(t)` is the collector
going away at any moment, also between `scope.isActive` and `scope.send` (lines 221 to
223), where the send throws (`EmitThrows`) and the search goes on with nobody waiting
for it: it is *leaked*. `stop()` is three steps: it reads `searching` (`StopCheck`), raises
the native flag (`StopSend`) and queues the line (`StopPush`); the other senders of a stop
hold the mutex or have closed the engine, so that no other request's `go` can come in
between, and send it in one step. `close()` is three (`CloseBegin`, `CloseQuit`, `CloseEnd`).
History variables, read by properties only: `answer` (the search whose bestmove a
task got), `seen` (the searches whose info lines it recorded), `told` (tasks during
whose search a stop was sent), `leaked`.

### EngineContract
The abstract engine: `work`, `reply`, `leaked`, `shut`. It works for one request at a time,
begins only when it is quiet, and answers a request with its own search. Work does not
vanish: what nobody answers keeps it busy for ever. The exception is a request that leaks
its search (`Leak`): that one may run beside the next ones, be thrown away (`Forget`), or
answer one of them by mistake (`Mistake`), whose own search is leaked in turn; while nothing
is leaked there is no room for any of this. `FairyEngine` implements it with
`work <- Work`, the set of searches queued, running or with an unread bestmove; see
`ImplementsContract`.

### EngineHost (on UciCore)
Any number of threads inside `start`, `shutdown` and `send`, each split where
the code takes or leaves a lock or reads a flag; the engine thread's `run()`; the
input buffer and the stream redirection. `expired` remembers that a `shutdown` ran
into its timeout.

### GameFlow
`s` is the state of one game screen (GameViewModel and CoachController). All of it
runs on the main thread, so each callback or coroutine segment is one action; the
functions it calls are operators from state to state with the names of the code.
The engine is the queue its contract promises: `EngineEnds` finishes the first search
and posts its result, which is handled in a later step, when the screen may have
changed. `Stop` marks every queued search as possibly cut, which covers a stop that
lands late. A game is the sequence of its moves, and `Mating` moves end it. A search
"without usable result" stands for errors, aborted searches and results without a
legal move or score. Kotlin cancellation: a cancelled AI turn resumes when the engine
is done with it and only runs its `finally`; one still in `delay(350)` ends at once.
The coach is always switched on, and the moves are no passes.

### AnalysisFlow
The same style for the analysis screen: `s` holds AnalysisViewModel (session,
strength, auto-analysis), AnalysisController (current id, job, state, cache) and the
engine's queue. A job waits in its debounce or collects the snapshots of its search,
whose last one comes when the search ends. What a SavedStateHandle keeps survives
process death. `Others` adds the screen left before, which is cleared late and calls
`engine.stop()` as it goes. `StateKey` is a constant, so that an instance can let two
positions share a key, as positions do that differ in the rules alone; `ShownFitsKey` and
everything proved hold with such keys, `ShownFitsBoard` is what they break (§4).

### AnalysisServer
Coroutines of one event loop: what happens between two awaits is one action. Each
job has a task (`run_job`) and a worker thread (`work()`), which registers in
`ACTIVE_JOBS`, takes the engine's lock, searches and posts to the job's queue. REST
calls stop the registered jobs and wait for the lock. Clients may disconnect at any
moment; a search or the start of an engine may raise. The heartbeat has a fallback that
posts a final message for a thread that ended without one ("should not happen",
`app.py:547`); it is left out, and `NeverSilent` (in `SessionsAgree`) shows that it is
never needed.

### UciProcess
`UciEngine` objects, the processes they started and the reader threads of these, and
worker threads inside `get_uci_engine()`, `analyze()` and `bestmove()`. A process may
die at any point; the next caller replaces the object or restarts its process. A reader
puts its lines and its end mark, some time after the death, into the queue its object has
by then. `ReaderKeepsUp` says whether the end mark comes before the object starts its next
process. A deadline may pass in every wait (`TimedOut`) and, for a call with a time
limit, in the read loop (`GivesUp`), which leaves the search running with the lock
free. `close()` is a step per line, as other threads restart the process under the
object's lock, which it does not take: the process it waits for, the one it kills and the
one it forgets (`proc = None`) need not be the same. Three history variables name what the
properties except: `cut`, the objects with a handshake that timed out before `uciok`;
`mixed`, those whose queue gets the lines of two processes; and `late`, those on which a call
gave up reading, until a later call sends its `go` to a process that is idle (`Idle`), or
starts another.

### JanggiRules and JanggiGame
`JanggiRules` is the rules engine as operators, table by table and function by
function: the palace and its diagonals, rays, steps, horse and elephant legs; move
generation and, separately, attack detection; `MakeMove`, `UnmakeMove`, repetition,
endings, points, and the two keys. A Zobrist hash is the pair of board and side it
stands for. `JanggiGame` is the state machine that a search or an analysis is: from one
of several boards it makes legal moves and takes them back in any order.

### Evaluation, Explain and Encoding
Pure functions of a position: `evaluate()` and, beside it, `evaluate_breakdown()`, each
with the sums of its own code; who attacks a square, the swap list of an exchange, the
hanging men and the balance of a line; the planes and move indices of the network. Each
does something that other code does too, and `TablesAgree` compares them: the two
evaluations, a position and its mirror image, mobility and the moves, the attackers and
attack detection, the swap list and best play in the exchange, a line and the points of
the rules.

### Search
`negamax`, `qsearch`, `_root` and the iterative deepening of `search.py`, and `analyze`
of `analysis.py`, which gives every root move a search of its own, over abstract games
(`Games`): graphs of positions with moves, captures, passes, checks, values and endings.
A position is its own key, so entries are shared wherever two lines meet. Loops and
searches are recursive functions. `negamax` and `qsearch` recur by the plies they have
left, as both end at `MAX_PLY` and `qsearch_max_depth`; each call gets its path, depth,
window and table and returns its score and the table. The loops that widen a window are
unrolled nine times, after which every window is wide enough (`WindowSizes`). `shown`
collects every score an analysis reports. `WonIn` and `LostIn` say what a mate is without
any search.

The state machine is the life of a `Searcher`, which `MCSearch` checks beside the server's.
Its `table` is not cleared between searches: `cmd_play` makes a move found and searches the
next position with it (`PlayMove`); a session analyses the positions of its requests
(`AnalyseJob`) and gets an empty one when the rules change, which may end the game in other
positions (`Under`). Only one search uses it at a time: `OneThread` says so of a session. A
deadline that cuts `search()` leaves the result of the iteration before and the table of the
one begun, all of it.

### Ranking and CoachGrade
One analysis: `root` is `rootMoves`, with each move's score, the score of the last
iteration and, as history, the depths that found them. `Engine` is one search of the
root for one MultiPV line: `Visits` are the moves it got through, in any order, and
what they returned. After it the window is widened (a fail that comes late is
printed if there is a single line), the next line or iteration begins,
or a stop cuts it; `Batch` is `UCI::pv()`. The app reads the batch line by line into its
table. `Snapshot`, `Score` and `Verdict` are what the screen and the coach make of the
table at that moment. `CoachGrade` is the grade itself, from two scores.

The modules named `MC...` give the constants their values for TLC. Operators commented
"Wrong on purpose" or "mutant" are plausible bugs, used by no action: each property
is violated when one of them takes the place of the definition it varies.

## 3. The runs

| Run | Question | Instance | Time |
|---|---|---|---|
| `fsf` | stops and cancellations give the engine back, also behind a leaked search; everyone is served | 3 tasks, one unlimited, one without legal moves, cancellations anywhere, one `stop()` | 2 min |
| `fsf_faults` | handover, own answers, right options, the contract | analysis, move and newGame; cancellations anywhere, timeouts at every wait, `close()` at any time | 1 min |
| `fsf_leak` | finding | two analyses and a move, cancellations anywhere | |
| `host` | flag, thread, streams and session agree; sessions end, calls return | 2 threads, 5 calls, `shutdown` timeouts | 2 min |
| `game` | stale results, coach against AI, verdicts, spinners; the AI moves, the coach speaks | human is Han, 4 plies, 3 user actions or trips to the background, failing searches, process death | 2 min |
| `analysis` | what is shown and cached, one live search, full strength; the analysis comes | 4 positions, two with one state key, 2 limits and none, cache of one, 3 actions, failures, process death, a foreign `stop()` | 1 min |
| `analysis_rules` | finding | two positions with one state key | |
| `server` | order, finals, locks, leavers, pre-emption; mates | 2 sessions, one may leave, 2 jobs, a REST call, failures; 180 game graphs, 3 rule sets, 4 deep, 2 searches | 1 min |
| `server_rest` | finding | as `server` | |
| `uci` | own answers, right variant and MultiPV, calls end | a stream, a move and an analysis by other rules; one crash, one deadline in a wait or the read loop | 2 min |
| `rules` | take-back, attacks, repetition, endings, keys | 4 boards, 3 rule sets, with move limits on both sides of the search's own | 1 min |
| `ranking` | whole and fresh snapshots, grades | 3 moves, 3 lines, 2 iterations, 1 widening, any stop | 1 min |

Why the bounds are enough. A race in the session needs a victim, an intruder and
one task that finds the damage: three tasks. Two values per option make a stale cache
visible. One stop is enough, as a second one only repeats the flag. Two threads
and five calls let a host be started, timed out, restarted and shut down while the
other thread sends. In a game, one own move, the reply, its verdict, an undo and
another move fit into four plies and three actions; on the analysis screen, three
actions are a move, its return and a change of strength, and a cache of one evicts at the
second position. Two jobs and a REST call are the smallest case of every conflict on
the server: two jobs of one session follow each other, of two sessions contend. One
crash and one deadline, anywhere, reach every error path of the process wrapper, and
three callers leave one to meet what the other two left. The four boards are made so
that each rule bites: bikjang with a screen to take, repetitions on both sides of a
capture, every piece around a palace, and the opening; `ply` starts near the move limit
where that matters, and `depth` bounds the line; the search's own limit (`MaxPliesDraw`, 400
in the code) is 8, between the limits of the rule sets, 7 and 9. The game graphs have two paths to
each position, cycles, and mates at different plies; four is the
least depth at which a pass or a reduction is tried below the root without a check, and a
second search meets the entries of the first. In the ranking, one iteration with
full windows fills the table and one with narrow windows fails low, high or in neither way; three
moves let one overtake another past a third. The values of a root move are centipawns,
inside and outside the window, and a mate suffered: mates given would square the
instance, and are covered by the proofs, which take every value.

`MaxInfo`, `MaxStops`, `MaxCalls`, `MaxActs`, `MaxSnaps`, `MaxJobs`, `MaxUpdates`,
`MaxCrashes`, `MaxTimeOuts`, `MaxSteps` and `MaxWiden` are guards of the environment (info lines,
stops, calls, user actions, updates, crashes, deadlines, fails), never of a component's
reaction. `MaxPly` and `MaxDepth` are limits of the rules and of the go command, and
`Horizon` is `PLIES_LEFT_HORIZON` of the keys, made small. `WindowFrom` is 4 in the code.

Deadlock is not checked where users may simply stop acting, or a search just ends.
`CallsEnd` of `UciProcess` states what deadlock freedom means there.

### Fairness
- Session: the engine thread, the native loop and the search thread keep running
  (operating-system threads), and `stop()` and `close()`, once begun, end. A
  limited search ends by itself. Nobody has to cancel, so `ServedIfCancelled` says
  explicitly that whoever starts an unlimited search cancels it some day.
- Host: a thread inside a call goes on; nobody has to call or to read.
- Screens: the engine ends every search that has a limit or was stopped, which the
  `fsf` run justifies, and the main thread runs what is posted. The user owes
  nothing; the liveness properties are about a screen that stays on.
- Server: the event loop runs every task that is ready, worker threads run, and a
  search that was told to stop ends. A search that was not told may go on for ever;
  the properties name that case (`Endless`).
- Process wrapper, rules, ranking: none; their runs check safety only (`CallsEnd` speaks of states
  in which nothing moves by itself any more).

## 4. Findings

1. `fsf_leak`: a cancellation between `scope.isActive` and `scope.send` releases the
   mutex while the engine searches (`FairyStockfishEngine.kt:221-223`), against the
   class comment on race safety. The next request may have to wait for its
   predecessor's search, or gets its bestmove; a `stop()` still lands (`StopLands`).
   `QuietUnlessLeaked`, `OwnAnswer` and `ImplementsContract` say what remains true.
2. `analysis_rules`: the state key leaves out the rules, so an analysis made under
   other rules counts as current after a change of settings and a new game;
   `ShownFitsKey` says what remains true.
3. `server_rest`: a job that registers behind a REST call's back takes the engine
   from it without a limit.

Observations made while modelling, without a run:

- A coach analysis interrupted by the background is never resumed and offers no retry
  (`GameViewModel.kt:308`), although `AppForeground.kt:8` says work resumes.
- The end of a cancelled AI turn clears `aiSearching` of its successor
  (`GameViewModel.kt:333`); `ScreenAgrees` shows that no coach search slips through.
- `onCleared()` of one screen stops the search of the next one, which is then cached as
  a finished analysis (`GameViewModel.kt:364`).
- `close()` racing the first request can leave the native engine up; a `start()` after
  a timed-out `shutdown()` saves redirected streams as the original ones
  (`engine_host.cpp:230`).
- The end mark of an old reader can arrive in the new queue (`uci_engine.py:203`), and a
  handshake that times out leaves an engine that was never set up: later searches run
  with the default variant. `close()` may set `proc = None` after another thread restarted
  it: that process has no owner, and its reader goes on writing into the queue of the object's
  next process, so that with four threads a call can be answered with another call's
  bestmove. Replaced objects do restart processes, although the docstring at `app.py:134`
  speaks of one engine.
- A call whose read loop passes its deadline (`uci_engine.py:340`, `:573`) leaves its search
  running and gives up the lock. The next call reads that bestmove as its own, the one after
  it that of the next, and so on until a call finds the process idle or the process is
  replaced. If one of the searches left behind is unlimited, no one can stop it but by
  another call's stop, and the calls behind it wait (`Analysing`).
- Between raising the flag and queueing its line (`engine_host.cpp:251`) a `stop()` may be
  overtaken: `start_thinking()` lowers the flag, the search is leaked, and the next `go` is
  queued before the line. The loop then waits behind the leaked search with the stop in the
  queue, unless another one is sent.
- A client's rules may allow more plies (`max_plies`) than the 400 of `SearchConfig.max_plies_draw`
  (`search.py:73`): from ply 400 on the search scores every line as a draw while
  `game_status()` lets the game go on.
- `search.py`: `qsearch` states that only the bikjang ending can arise in it; but it
  also makes quiet moves out of check, and captures that reach the move limit. A mate on
  the last ply before the limit is a draw for the search and a checkmate for `game_status()`.
- A stop early in iteration d + 1 prints moves not searched again with depth d + 1
  and the score of depth d, so a snapshot can claim one iteration more than it has
  (`JanggiEngine.kt`: "Depth completed for *all* legal moves"); `FinalIsWhole` allows this one.
- A search stopped before its first root move prints `cp 0` for it, which the coach
  would grade "best" although its KDoc promises null instead of guessing.
- A snapshot in the middle of a batch lacks a move that changed places, and of two lines of one
  move keeps the higher index. A time cut after a fail low can rank another move above
  the engine's `bestmove`. Being mated faster than by the best line still counts as "best".
- `evaluate()` is `evaluate_breakdown()`'s total, as its docstring says, for the default
  `pst_weight`: with another one, such as 30, the two round a man of Han differently
  (`evaluation.py:196`, `:271`). Nothing in the repository sets another one.
- The docstring of `geometry.palace_id` names the two sides the wrong way round.

## 5. What is proved

| Theorem | Statement |
|---|---|
| `FairyEngineProofs!TypeCorrect` | `Spec => []TypeOK` |
| `FairyEngineProofs!InvCorrect` | the inductive invariant `IInv` |
| `FairyEngineProofs!QuietUnlessLeakedCorrect` | `Spec => []QuietUnlessLeaked` |
| `FairyEngineProofs!OneSearchCorrect` | `Spec => []OneSearch` |
| `FairyEngineProofs!OwnAnswerCorrect` | `Spec => []OwnAnswer` |
| `FairyEngineProofs!RightSetupCorrect` | `Spec => []RightSetup` |
| `FairyEngineProofs!ImplementsContractCorrect` | `Spec => ImplementsContract` |
| `EngineHostProofs!HostInvCorrect` | the inductive invariant of the host |
| `EngineHostProofs!HostAgreesCorrect` | `Spec => []HostAgrees` |
| `EngineHostProofs!SessionsEndOnceCorrect` | `Spec => []SessionsEndOnce` |
| `GameFlowProofs!GameInvCorrect` | the inductive invariant of the game screen |
| `GameFlowProofs!ScreenAgreesCorrect` | `Spec => []ScreenAgrees` |
| `GameFlowProofs!UsesWholeSearchesCorrect` | `Spec => []UsesWholeSearches` |
| `GameFlowProofs!VerdictsFitCorrect` | `Spec => []VerdictsFit` |
| `GameFlowProofs!NoStrayMoveCorrect` | `Spec => NoStrayMove` |
| `AnalysisFlowProofs!ScreenInvCorrect` | the inductive invariant of the analysis screen |
| `AnalysisFlowProofs!ShownFitsKeyCorrect` | `Spec => []ShownFitsKey`, for every state key |
| `AnalysisFlowProofs!ControllerAgreesCorrect` | `Spec => []ControllerAgrees` |
| `AnalysisFlowProofs!NeverOwnCutCorrect` | `Spec => []NeverOwnCut` |
| `AnalysisFlowProofs!FullStrengthCorrect` | `Spec => []FullStrength` |
| `AnalysisServerProofs!ServerInvCorrect` | the inductive invariant of the server |
| `AnalysisServerProofs!SessionsAgreeCorrect` | `Spec => []SessionsAgree` |
| `AnalysisServerProofs!InOrderCorrect` | `Spec => []InOrder` |
| `AnalysisServerProofs!MateScoresAreMates` | `SearchSpec => []MatesAreReal` |
| `UciProcessProofs!ProcessInv` | the inductive invariant of the process wrapper |
| `UciProcessProofs!OwnAnswers` | `Spec => AnswersOwnCall` |
| `UciProcessProofs!OwnSettings` | `Spec => []RunsAsAsked` |
| `JanggiGameProofs!AlwaysReplayed` | the position is a replay of its own moves |
| `JanggiGameProofs!RepetitionCountsAll` | `Spec => []RepetitionIsWhole` |
| `JanggiGameProofs!GameIsReplay` | `Spec => []PositionIsReplay` |
| `JanggiGameProofs!SearchEndsAsGame` | `Spec => []SearchEndsWithGame` |
| `JanggiGameProofs!NoBikjangStands` | `Spec => BikjangIsAnswered` |
| `JanggiGameProofs!KeysHoldTheGame` | `Spec => []KeysDecide` |
| `JanggiGameProofs!AttacksAreMoves` | `Spec => []AttacksAreCaptures`, a part of `TablesAgree` |
| `JanggiGameProofs!ColoursAreAlike` | `Spec => []ColoursAreSymmetric`, another part |
| `JanggiGameProofs!NetworkSeesImage` | `Spec => []NetworkAgrees`, another part |
| `JanggiGameProofs!LinesWinWhatTheyTake` | `Spec => []LinesAddUp`, another part |
| `JanggiGameProofs!ExchangesAreBestPlay` | `Spec => []ExchangesAgree`, another part |
| `JanggiGameProofs!EvaluationsAreOne` | `Spec => []EvaluationsAgree`, another part |
| `JanggiGameProofs!TablesAgreeAlways` | `Spec => []TablesAgree`, all of it |
| `RankingProofs!ScaleKeepsOrder` | the ranking's scale is monotone in the engine's values |
| `RankingProofs!GradesFollowRanking` | grades are monotone along the ranking |
| `RankingProofs!RankingInvCorrect` | the inductive invariant of one analysis |
| `RankingProofs!LinesAreFreshCorrect` | `Spec => []LinesAreFresh` |
| `RankingProofs!FinalIsWholeCorrect` | `Spec => []FinalIsWhole` |
| `RankingProofs!VerdictsFollowCorrect` | `Spec => []VerdictsFollow` |

**The session.** The theorems hold for any set of tasks, options and values, any number of
stops and info lines, with and without timeouts and `close()`, and with cancellations at
every point, within an emit too. The only assumptions are the ASSUMEs on the constants in
`UciCore` and `FairyEngine`. None of the properties is inductive: what makes them true is who may have work in the
pipeline. `IInv` adds:

- `OpenMeansUp`: until `close()` begins nobody has sent `quit`, and from the end of
  `ensureStarted()` on the native engine is up.
- `Ownership`: everything in the pipeline (queued `go`, running search, bestmove
  and info lines) was leaked or belongs to the task that holds the mutex, and to that one only
  from its `go` to its bestmove (`Holder`). Only after `close()` may other work be left with
  nobody in a handler.
- `OneAtATime`: each search is in the pipeline in one of its forms, a queued `go`, a
  running search or a bestmove line, and the bestmove comes after the info lines.
- `TurnOnce`: a task gets one turn only, so that one with the mutex has no answer yet and
  has not leaked.

Each action preserves these conjuncts one by one. The crucial cases are a timeout (it
falls before `go`, so no search is left), a cancellation (the handler stays in the loop
until the bestmove is read, or leaks its search), a bestmove of a leaked search (it ends the
handler, whose own search is leaked with it) and an engine found dead (only after `close()`).
The refinement proof maps `SendGo` to `Begin`, `ReadBestMove` to `Answer` or `Mistake`,
`EmitThrows` to `Leak`, the drains and a restart to `Forget`, the begin of `close()` to
`Shut`, and every other step to a stutter.

`RightSetup` needs another invariant, `SetupInv`, about what the queued commands will have
set by the time the engine reads them: a cached value, unless it is unset, is what the option
will be once the queue is drained (`CacheSettles`); a handler past its `setoption`s finds no
difference, and past its `position` the root is its own (`HandlerSettles`); and every
queued `go` has before it, in the queue or already executed, all that its request asked for
(`GoSettles`). Nothing in it depends on whose search it is: requests may be cancelled at any
point and leave the queue as it is, since a cache is written together with its
`setoption` and forgotten with the engine.

**The host.** For any number of callers and calls. The invariant says what each part of a
locked call may rely on: the one holder of `lifecycle` stands behind its lock_guard
(`LockHeld`), what it found out about the thread stays true while it holds the lock
(`HolderKnows`), the flags and the streams follow the thread (`FlagsFit`, `StreamsFit`), and
what ends a session (a `quit`, a closed buffer) is in it only after a `shutdown()` asked for
that session's end (`EndIsAsked`). The flag `expired` marks the one exception the
code has: after a `shutdown()` that timed out, `running` is down over a live thread.

**The game screen.** For any move limit, any number of searches and any user actions. Most
actions are compositions of the view model's functions, so the lemmas are about those: each
takes a screen to a screen (`Fits`) and says which fields it may change. The invariant
is `Fits /\ Spins`, with the parts:

- `Numbered`, `Marked`: searches in flight have different numbers, all of them handed out;
  what was cancelled or cut short is among them.
- `AiTurnFits`: a turn of the AI has an uncancelled search of the position on the board,
  every other AI search is cancelled, and there is no coach job beside it.
- `CoachFits`: a coach analysis has an uncancelled search and runs only while the AI owes no reply.
- `RequestsFit`: the coach is asked about moves of the human only.
- `FailureFits`: a failed coach analysis is one of a move still played, and while the AI
  owes its reply, not of the last one.
- `CommentsFit`: verdicts are about moves that are still played.

`ScreenAgrees` alone is not inductive: a retry after a failure starts a coach analysis
whoever is to move, which is where `FailureFits` is needed, and `AiMove` plays into the board as it is
then, which is right only because an uncancelled search is one of that position. The end
of a cancelled coroutine comes late and may fall behind any other action;
`JobCommutes` shows that it disturbs nothing but `aiSearching`. The action property
`NoStrayMove` follows from the invariant action by action.

**The analysis screen.** For any positions, strengths and cache sizes and any actions. The
operators for the controller's functions are again treated one by one: `request()`, for the
board as it is, takes whatever it finds to a screen in order (`RequestFits`); `stop()` leaves
an idle one. The invariant `Fits` consists of:

- `JobFits`: a job is one of the last request, about the position on the board, with the
  strength chosen, on a screen that is on; the spinner turns exactly during it.
- `QueueFits`: a search that is not cancelled is the one the job collects, there is one at
  most, and it is gone once its result or its exception is there.
- `InboxFits`: what waits to be collected is about the job's position, with its budget, and
  not cut by this screen. A stop() of this screen comes after the cancellation of
  the job, so it never cuts a search whose result is still awaited (`StopFacts`).
- `CacheFits`: at most one entry of a key and `CacheSize` in all, each a whole analysis
  under the key of its own position; `KeyFits` says the same of what is on display.
- `StrongEnough`: `FullStrength`, for the state as it is.

`ShownFitsKey` follows from `KeyFits`. The key of the board is all that can be said of what is
shown: whether it is also an analysis of the board depends on the key, and `analysis_rules`
shows the positions for which it is not.

**The server.** For any set of clients, jobs and REST requests. `SessionsAgree` and `InOrder`
rest on `IInv`: a REST call searches exactly while it holds the engine's lock (`RestHolds`);
jobs are made in the order of their numbers (`MadeInOrder`) and only the last one of a client
can be unfinished (`CurrentIsLast`); a final message is the last that a job's thread
posts (`FinalIsLast`); and a client is sent messages of its own jobs, the final one of a job only
when its task is over (`OwnMessages`).

**The process wrapper.** For any number of threads, processes, crashes and passed deadlines,
and whether or not readers keep up. `Ownership` says who may do what: `_UCI_LOCK` belongs to
the one that replaces the object, whose new object nobody else knows until it is started;
`start()` and the searches are otherwise under the lock of the object, which only one
caller holds; and the process of an object is the last one started for it. On top of it:

- `OneWriter`, `NoEarlyEnd`: only the last process of an object writes to its queue, and
  there is no end mark in it while that process runs, unless the object is `mixed`.
- `QuietBefore`, `OwnWhileReading`, `QuietAfter`: queued `go`s, the running search and unread
  bestmoves of an object are none until a caller sends its `go`, at most its own one
  while it reads, and none when it leaves, unless the process is dead or the object is
  `late`. The read loop is left by the bestmove, the end mark, a broken pipe or its deadline:
  that is why a call that is told to stop has to wait for its bestmove, and why the
  deadline makes the object `late`. It is so no longer when a process takes over that
  has nothing left behind: a new one, or one found idle.
- `OnRecord`: `_active_variant` and `_multipv` are what the process will have set once
  it has read its input, from the end of the handshake on; `GoAsAsked` says the same of
  the commands before each `go`, so that later settings of other callers cannot reach it.

`close()` takes no part in the locks of the objects it closes: the proof shows that it can only
kill a process, queue a `quit` behind everything else, or lose a process; the last makes
the object's next queue a mixed one.

**The rules.** For every set of starts that are boards with one king a side, the side
that has moved not in check (`StartsAssumption`), every rule set that `RuleConfig` accepts (`RuleSetsAssumption`) and every
number of plies that the keys count (`HorizonAssumption`).
`Replayed` says that the position is the end of some line of positions, each made from
the one before by a legal move, that starts where the game starts. Making a move extends the
line; taking one back shortens it, because `UnmakeMove` inverts `MakeMove`, which is
where the undo records are needed. Whatever legal moves preserve (`Good`) therefore holds
throughout. It also says that a replay of the moves can only find these positions
(`OnlyTrace`): the induction over the line is done by the state machine, one
move at a time, so that `PositionIsReplay` follows.

- Repetitions: sides alternate, so half of the history cannot match; and the
  number of men never grows and falls with every capture, so nothing before
  the last capture can match.
- Bikjang: a legal reply to one either separates the kings or is a pass, and the pass
  ends the game.
- Endings: a mate and an ending by rule do not compete, as nobody is in check after a pass or
  in a bikjang; a third occurrence is a second one. So the order in which the search and the
  game look does not matter.
- Attacks: what a slider sees, a cannon over its screen too, sees it, since a line can be walked
  in both directions (`RayBack`); the tables of the horse, the elephant and the
  pawn are those of their moves reversed (`TablesReverse`). It follows that no king is ever
  taken (`MakeKeepsKings`): the capture would show that the last move was not legal.
- Colours: turning the board round takes rays to rays (`MirrorRay`), legs to legs and pawns
  to pawns of the other side, hence what a man reaches to what its image reaches
  (`MirrorReach`); as turning it twice changes nothing, one direction is enough.
- Sums: the library adds up a set by taking away one element after the other, whichever it
  picks. `Total` is such a sum, and it does not depend on the choice (`TotalStep`, `TotalUnion`),
  so it is the same after a renaming of the elements (`TotalRenamed`). Induction is not by
  the library's theorems, which take operators, but over sets: a set of numbers that has 0
  and with each number the next has them all (`NumbersByInduction`), and so for sets.
- Network: the planes are read off the board turned round, square by square; the moves of the
  mask are those of the image, turned back (`ImageMove`), and turning takes legal moves to legal
  moves, as it takes making a move to making its image.
- Lines: a legal move changes the points by what it takes (`MovePoints`), since
  the points are a sum over the men that stand; the rest is induction over the line.
- Exchanges: the swap list is worked off backwards, best play forwards; what is left of both after
  n takes is the same (`GainsAre`, `BestPlayIs`). The defenders are found on the board
  without the man attacked, which does not matter (`AttackIgnoresVictim`).
- Evaluation: both functions are brought to the same six sums a side (`Terms`). Rounding does no
  harm because `pst_weight` is 100 (`StandingSigned`). Turned round, each sum is that of
  the other side (`MirrorTerms`). The loops of `_mobility` count positions on rays, screens and
  legs; no square is met twice (`WaysAreOne`, `RaysApart`), so they count squares.
- Keys: the position a reader rebuilds has the board, the side, the kings, the passes and
  the flag of the one that was stored; moves and attacks depend on nothing else
  (`SameMoves`). The bag of positions of the key is the one before the move with one more, or
  starts anew with a capture (`ContextAfter`); the plies left tell when there are none
  (`PliesFacts`). For the shorter key of the table it is needed that no node is searched
  after two passes.

**The search** (in `AnalysisServerProofs`, beside the server that runs it). For every set of
game graphs, finite or not, with finitely many moves in each position, every depth, and any
sequence of searches or analyses on one table, under one set of rules or several
(`GamesAssumption`, which also says that evaluations are no mate scores). The
invariant `SearchInv` adds to `MatesAreReal` that the table is real under the rules at hand
(`RealTables`). That a search keeps it so is by induction over the plies left, which is
by sets again (`LoopKeeps`): every call from a real table in a sensible window gives a
sound score and a real table.

- `Sound`: a score above alpha that is a mate score is a mate within the plies it says, and
  so is one of being mated if it is below beta. Nothing more is true: what a null window or a
  cutoff returns is a bound, and may name a mate that is not there.
- `EntryIsReal`: an entry keeps, by its flag, the half of this that its score has, counted from
  its own position (`EntryOfSound`). Read at another ply, under another window or depth, it is
  sound again (`KnownIsSound`); counting from the wrong end is the mutant of this run.
- The loop: `Best` says of the best move so far what `Sound` will say of the node; for a
  node that is mated it needs all moves, so it also keeps which were tried, and a cutoff ends
  that need (`OthersDoNotMatter`). A null window or a reduction stands only for an answer that
  is repeated in full otherwise (`NarrowStands`). A pass returns
  beta, which is no mate score, since it is tried only where the evaluation reaches beta
  (`PassIsAnswered`).
- The root: a score inside its window is real without reserve (`InsideIsReal`). A window that
  fails has a side that is too narrow, which grows fourfold; the eighth is wider than all
  scores on one side, the ninth on the other (`WiderWindow`).

Draws by repetition, evaluations at a horizon and wins on points enter as scores that are
no mate scores; that is all the proof needs to know of them.

**The ranking.** For any set of moves, number of lines and iterations, order of the root
moves, width of the windows and time of the stop. First the scale: for every value a root
move may return, the printed score is a centipawn value within 15266 or a mate in 1 to 123,
and the divisions keep the order on each part. A line above another one therefore mates if
that does, and is mated only if that is; the rest is that losses, hence grades, are
monotone. The win model is any increasing function that has a rate for every score that can
be printed (`WinRateAssumption`, `ScoreAssumption`).

Then the state (`RankingInv`, checked with TLC before it was proved). None of the three
properties speaks of the root moves, all of them depend on these: that they stay
a list of all legal moves needs that the stable sort permutes, which is
proved from its definition by counting how many moves stand before each. That a
snapshot is whole needs more. A batch leaves out the moves that have neither a score nor a
previous one, so `RootList` counts: from the second iteration on at least `Lines` moves have
a previous score, and as moves without any score sort last, all lines of a batch are filled.
`Latest` is the table as it will be when everything printed is read; it changes when
`UCI::pv` prints, and not when a line is read, which is why a half-read table does no harm
to the last snapshot. Of a stopped first iteration only the first line can be older than
it says: the placeholder that has no score at all.

Only model-checked: liveness, and ENABLED, which `CallsEnd` uses, because they are out of the
prover's reach.

## 6. Not modelled

- The vendored engine below the root: alpha-beta, evaluation, move generation, magic bitboards,
  endgame tables, variants, and its XBoard, UCCI and USI protocols. It is third-party code
  that the project only drives; what it returns for a root move is any value in `Ranking`.
  Also there: helper threads, reductions of the depth, bound flags and skill levels.
- `Search` leaves out the evaluation, the order of moves beyond the table move, the
  eviction of table entries, the table as an iteration cut halfway leaves it, and repetitions
  with positions before the root.
- `UciProcess` leaves out the parsing of lines, `AnalysisServer` the heartbeat's fallback (§2).
- Text: FEN, move notation, UCI parsing, messages, the sentences of the coach and of `explain.py`.
- Settings, records and other I/O; layout and navigation; the command line but for `cmd_play`; calibration;
  the value targets of the neural encoding.
- The Kotlin rules library is described by the same modules as the Python one, of which
  it is a port; only its state key is treated on its own (`AnalysisFlow`).

The reasons are in `PROJECT.json`, component by component.

## 7. Plan

All properties of the runs but the liveness properties and `CallsEnd` are proved.
What is left is more of the program: the order of moves in `search.py`, settings and records.
