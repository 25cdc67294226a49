---------------------------- MODULE AnalysisFlow ----------------------------
(***************************************************************************)
(* The analysis screen: AnalysisViewModel and its AnalysisController.      *)
(* Both run on the main thread; the engine, shared with other screens,     *)
(* executes its searches one after the other and streams their snapshots.  *)
(* Each function of the two classes is an operator from the screen's state *)
(* `s` to the state it leaves.                                             *)
(***************************************************************************)
EXTENDS Naturals, Sequences, FiniteSets, SequencesExt

CONSTANTS
  Positions,    \* what a session shows: a board with its history and rules
  Start,        \* the position of a new game
  Over,         \* those where the game is over
  StateKey,     \* [Positions -> a key]: Position.stateKey()
  NoPosition,
  Budgets,      \* time limits of the strengths
  Unlimited,    \* the strength without one
  CacheSize,
  Others,       \* TRUE: the screen left before this one is not yet cleared
  MayFail,      \* TRUE: a search may fail
  MayDie,       \* TRUE: the process may be killed in the background
  MaxSnaps,     \* bound: snapshots of a search before its final one (TLC only)
  MaxActs       \* bound: user actions and trips to the background (TLC only)

Strengths == Budgets \cup {Unlimited}
NoKey == "no key"

ASSUME PositionsAssumption ==
  /\ Start \in Positions \ Over /\ Over \subseteq Positions /\ NoPosition \notin Positions
  /\ DOMAIN StateKey = Positions /\ \A p \in Positions : StateKey[p] # NoKey
ASSUME StrengthsAssumption == Budgets \subseteq Nat \ {0} /\ Unlimited = 0
ASSUME BoundsAssumption ==
  /\ CacheSize \in Nat \ {0} /\ MaxSnaps \in Nat /\ MaxActs \in Nat
  /\ Others \in BOOLEAN /\ MayFail \in BOOLEAN /\ MayDie \in BOOLEAN

VARIABLES
  s,      \* the screen and the engine's queue, see Fresh
  acts    \* user actions so far

vars == <<s, acts>>

-----------------------------------------------------------------------------
(* Snapshots, jobs and searches *)

\* An AnalysisSnapshot.  `of` is the position searched, `budget` its limit,
\* `time` what it took; `cut` tells whose engine.stop() ended it (history).
Snapshot(search, final, time, error) ==
  [id |-> search.id, of |-> search.pos, budget |-> search.budget, time |-> time,
   final |-> final, error |-> error, cut |-> search.cut]
NoSnapshot == [id |-> 0, of |-> NoPosition, budget |-> 0, time |-> 0,
               final |-> FALSE, error |-> FALSE, cut |-> "no"]

\* An AnalysisUiState.
UiState(running, snapshot, key, error) ==
  [running |-> running, snapshot |-> snapshot, key |-> key, error |-> error]
NoUiState == UiState(FALSE, NoSnapshot, NoKey, FALSE)

\* The controller's job: in delay(debounceMs), then collecting `inbox`.
NoJob == [phase |-> "none", id |-> 0, pos |-> NoPosition, budget |-> 0,
          inbox |-> << >>, thrown |-> FALSE]

\* What the engine works through: analyses of this screen, the search another
\* screen left behind, and newGame() calls.
Task(kind, id, pos, budget) ==
  [kind |-> kind, id |-> id, pos |-> pos, budget |-> budget,
   phase |-> "setup", cut |-> "no", cancelled |-> FALSE, told |-> 0]

Fresh(session, strength, auto) ==
  [\* AnalysisViewModel: SavedStateHandle keeps session, strength, `saved`
   session |-> session, strength |-> strength, auto |-> auto, saved |-> auto,
   analysis |-> NoUiState,
   \* AnalysisController
   currentId |-> 0, job |-> NoJob, state |-> NoUiState, cache |-> << >>,
   \* the engine
   queue |-> << >>,
   \* AppForeground, this screen and the one before it
   fg |-> TRUE, gone |-> FALSE, other |-> FALSE]

-----------------------------------------------------------------------------
(* The engine's calls *)

\* A list without the element at one of the indices I, of which there is at
\* most one.
Dropped(list, I) == IF I = {} THEN list ELSE RemoveAt(list, CHOOSE i \in I : TRUE)

\* Cancelling a collector: a search that waits for the engine never begins;
\* one that has the engine is told to stop, and its result is not delivered.
CancelSearch(queue, id) ==
  LET mine   == {i \in DOMAIN queue : queue[i].kind = "analyze" /\ queue[i].id = id}
      marked == IF 1 \in mine THEN [queue EXCEPT ![1].cancelled = TRUE] ELSE queue
  IN  Dropped(marked, mine \ {1})

\* engine.stop() ends the search under way, whoever it belongs to.
Stop(queue, by) ==
  IF queue # << >> /\ Head(queue).phase = "searching" /\ Head(queue).cut = "no"
    THEN [queue EXCEPT ![1].cut = by] ELSE queue

-----------------------------------------------------------------------------
(* AnalysisController *)

\* Wrong on purpose: the job goes on.
KeepJob(t) == [t EXCEPT !.job = NoJob]

\* job?.cancel()
CancelJob(t) == [t EXCEPT !.job = NoJob, !.queue = CancelSearch(@, t.job.id)]

\* The cache, least recently used first; an entry is a pair of key and snapshot,
\* and a key has one at most.
Slots(cache, key) == {i \in DOMAIN cache : cache[i].key = key}
Slot(cache, key)  == CHOOSE i \in Slots(cache, key) : TRUE

Cached(cache, key) ==
  IF Slots(cache, key) = {} THEN NoSnapshot ELSE cache[Slot(cache, key)].snapshot

CacheTouch(cache, key) ==
  IF Slots(cache, key) = {} THEN cache
  ELSE Append(Dropped(cache, Slots(cache, key)), cache[Slot(cache, key)])

CachePut(cache, key, snapshot) ==
  LET added == Append(Dropped(cache, Slots(cache, key)), [key |-> key, snapshot |-> snapshot])
  IN  IF Len(added) > CacheSize THEN Tail(added) ELSE added

\* Wrong on purpose: any cached analysis will do.
AnyLength(snapshot, budget) == TRUE

\* A cached analysis is good enough without a time limit, or with 80 % of it.
LongEnough(snapshot, budget) == budget = Unlimited \/ 10 * snapshot.time >= 8 * budget

\* request()
Request(t, pos, budget, useCache) ==
  LET id     == t.currentId + 1
      key    == StateKey[pos]
      a      == CancelJob([t EXCEPT !.currentId = id])
      b      == IF useCache THEN [a EXCEPT !.cache = CacheTouch(@, key)] ELSE a
      cached == IF useCache THEN Cached(t.cache, key) ELSE NoSnapshot
      shown  == IF cached = NoSnapshot THEN cached ELSE [cached EXCEPT !.id = id]
  IN  IF cached # NoSnapshot /\ LongEnough(cached, budget)
        THEN [b EXCEPT !.state = UiState(FALSE, shown, key, FALSE)]
        ELSE [b EXCEPT !.state = UiState(TRUE, shown, key, FALSE),
                       !.job = [NoJob EXCEPT !.phase = "debounce", !.id = id, !.pos = pos,
                                             !.budget = budget]]

\* stop()
StopAnalysis(t) ==
  LET a == CancelJob([t EXCEPT !.currentId = @ + 1])
  IN  [a EXCEPT !.queue = Stop(@, "own"), !.state.running = FALSE]

\* clear()
Clear(t) == [StopAnalysis(t) EXCEPT !.state = NoUiState]

\* Wrong on purpose: every snapshot is cached.
CollectCachesAll(t, snap) ==
  LET key == StateKey[t.job.pos]
  IN  [t EXCEPT !.cache = CachePut(@, key, snap),
                !.state = UiState(~snap.final, snap, key, snap.error),
                !.job = IF snap.final THEN NoJob ELSE [t.job EXCEPT !.inbox = Tail(@)]]

\* The collector of request(): a snapshot that is not stale is shown, and
\* cached if it is a final one of a search that did not fail.
Collect(t, snap) ==
  LET key == StateKey[t.job.pos]
      a   == [t EXCEPT !.job = IF snap.final THEN NoJob ELSE [t.job EXCEPT !.inbox = Tail(@)]]
      b   == IF snap.final /\ ~snap.error THEN [a EXCEPT !.cache = CachePut(@, key, snap)] ELSE a
  IN  IF snap.id # t.currentId THEN a
        ELSE [b EXCEPT !.state = UiState(~snap.final, snap, key, snap.error)]

-----------------------------------------------------------------------------
(* AnalysisViewModel *)

\* analyzeCurrent()
AnalyzeCurrent(t) ==
  IF ~t.auto \/ ~t.fg THEN t
    ELSE IF t.session \in Over THEN Clear(t)
    ELSE Request(t, t.session, t.strength, TRUE)

SetSession(t, pos) ==
  AnalyzeCurrent([t EXCEPT !.session = pos, !.saved = t.auto])

\* Wrong on purpose: the return to the foreground resumes nothing.
CollectBackground(t) == IF t.fg THEN t ELSE StopAnalysis(t)

\* The collector of AppForeground; viewModelScope runs it at once.
CollectForeground(t) == IF t.fg THEN AnalyzeCurrent(t) ELSE StopAnalysis(t)

\* The screen opens while the search of the one before it may still run.
Init ==
  /\ acts = 0
  /\ \E b \in Strengths, other \in {FALSE, Others} :
       s = CollectForeground([Fresh(Start, b, TRUE) EXCEPT
              !.other = other,
              !.queue = IF other THEN <<Task("other", 0, NoPosition, Unlimited)>> ELSE << >>])

\* Wrong on purpose: whatever came last.
LatestSnapshot == s.analysis.snapshot

\* Snapshot only if it belongs to the position on screen.
CurrentSnapshot ==
  IF s.analysis.key = StateKey[s.session] THEN s.analysis.snapshot ELSE NoSnapshot

UserActs == acts < MaxActs /\ ~s.gone /\ acts' = acts + 1
OnScreen == s.fg /\ UserActs

\* A move, an undo, a step in the record, a FEN: playMove(), undo(), first(),
\* previous(), next(), last(), goTo(), loadFen().  A record that is opened comes late
\* and may find the app in the background.
Navigate == UserActs /\ \E pos \in Positions : s' = SetSession(s, pos)

NewGame ==
  /\ OnScreen
  /\ s' = SetSession([s EXCEPT !.queue = Append(@, Task("newGame", 0, NoPosition, Unlimited))], Start)

SetStrength ==
  /\ OnScreen
  /\ \E b \in Strengths :
       s' = AnalyzeCurrent(StopAnalysis([s EXCEPT !.strength = b, !.saved = s.auto]))

ToggleAnalysis ==
  /\ OnScreen
  /\ s' = IF s.auto THEN [StopAnalysis(s) EXCEPT !.auto = FALSE, !.saved = FALSE]
          ELSE [AnalyzeCurrent([s EXCEPT !.auto = TRUE]) EXCEPT !.saved = TRUE]

\* reanalyze() switches the analysis on and does not save that.
Reanalyze ==
  /\ OnScreen
  /\ s.session \notin Over
  /\ s' = Request([s EXCEPT !.auto = TRUE], s.session, s.strength, FALSE)

\* The app goes to the background or returns.
SwitchApp == UserActs /\ s' = CollectForeground([s EXCEPT !.fg = ~@])

ProcessDeath ==
  /\ MayDie /\ ~s.fg /\ ~s.gone
  /\ s' = CollectForeground([Fresh(s.session, s.strength, s.saved) EXCEPT !.fg = FALSE])
  /\ UNCHANGED acts

\* onCleared(), once viewModelScope is cancelled.
Leave == UserActs /\ s' = [StopAnalysis(s) EXCEPT !.gone = TRUE]

\* onCleared() of the screen before this one, at the end of its exit animation.
OtherCleared ==
  /\ s.other
  /\ LET q == s.queue
     IN  s' = [s EXCEPT !.other = FALSE,
                        !.queue = IF q # << >> /\ q[1].kind = "other"
                                    THEN [q EXCEPT ![1].cancelled = TRUE] ELSE Stop(q, "other")]
  /\ UNCHANGED acts

-----------------------------------------------------------------------------
(* What the main thread owes: collectors and the job *)

\* The collector of controller.state.
StateCollected ==
  /\ ~s.gone /\ s.analysis # s.state
  /\ s' = [s EXCEPT !.analysis = s.state]

DebounceEnds ==
  /\ s.job.phase = "debounce"
  /\ s' = IF s.currentId # s.job.id THEN [s EXCEPT !.job = NoJob]
          ELSE [s EXCEPT !.job.phase = "collect",
                         !.queue = Append(@, Task("analyze", s.job.id, s.job.pos, s.job.budget))]

SnapshotCollected ==
  /\ s.job.inbox # << >>
  /\ s' = Collect(s, Head(s.job.inbox))

\* catch { } of request(): the search ended with an exception.
CatchFailure ==
  /\ s.job.thrown /\ s.job.inbox = << >>
  /\ s' = [s EXCEPT !.job = NoJob,
                    !.state = IF s.currentId = s.job.id
                                THEN UiState(FALSE, @.snapshot, StateKey[s.job.pos], TRUE) ELSE @]

-----------------------------------------------------------------------------
(* The engine as its contract has it *)

Engaged == s.queue # << >>
Current == Head(s.queue)
Deliver(snap) ==
  IF Current.kind = "analyze" /\ ~Current.cancelled /\ Current.id = s.job.id
    THEN [s.job EXCEPT !.inbox = Append(@, snap)] ELSE s.job

EngineGoes ==
  /\ Engaged /\ Current.kind # "newGame" /\ Current.phase = "setup"
  /\ s' = [s EXCEPT !.queue[1].phase = "searching"]

EngineTells ==
  /\ Engaged /\ Current.phase = "searching" /\ Current.told < MaxSnaps
  /\ Current.kind = "analyze" /\ ~Current.cancelled
  /\ s' = [s EXCEPT !.queue[1].told = @ + 1, !.job = Deliver(Snapshot(Current, FALSE, 0, FALSE))]

\* A search ends at its time limit, or before when nothing is left to search
\* or somebody stopped it.
EngineEnds ==
  /\ Engaged
  /\ \/ Current.kind = "newGame"
     \/ /\ Current.phase = "searching"
        /\ Current.budget # Unlimited \/ Current.cut # "no" \/ Current.cancelled
  /\ \E time \in {0, Current.budget} :
       s' = [s EXCEPT !.queue = Tail(@), !.job = Deliver(Snapshot(Current, TRUE, time, FALSE))]

\* The engine fails (a final snapshot with an error), or the call throws.
EngineFails ==
  /\ MayFail /\ Engaged /\ Current.kind = "analyze"
  /\ \/ s' = [s EXCEPT !.queue = Tail(@), !.job = Deliver(Snapshot(Current, TRUE, 0, TRUE))]
     \/ /\ ~Current.cancelled /\ Current.phase = "setup"
        /\ s' = [s EXCEPT !.queue = Tail(@), !.job.thrown = TRUE]

-----------------------------------------------------------------------------
MainThread ==
  /\ StateCollected \/ DebounceEnds \/ SnapshotCollected \/ CatchFailure
  /\ UNCHANGED acts
Engine == (EngineGoes \/ EngineTells \/ EngineEnds) /\ UNCHANGED acts

Next ==
  \/ Navigate \/ NewGame \/ SetStrength \/ ToggleAnalysis \/ Reanalyze
  \/ SwitchApp \/ ProcessDeath \/ Leave \/ OtherCleared
  \/ MainThread
  \/ Engine \/ (EngineFails /\ UNCHANGED acts)

Spec == Init /\ [][Next]_vars

\* The main thread runs what is posted to it, the engine works; the screen
\* before this one is cleared some day.  The user owes nothing.
Fairness ==
  /\ WF_vars(StateCollected /\ UNCHANGED acts)
  /\ WF_vars(DebounceEnds /\ UNCHANGED acts) /\ WF_vars(SnapshotCollected /\ UNCHANGED acts)
  /\ WF_vars(CatchFailure /\ UNCHANGED acts)
  /\ WF_vars(Engine) /\ WF_vars(OtherCleared)

FairSpec == Spec /\ Fairness

-----------------------------------------------------------------------------
(* Safety *)

TypeOK ==
  /\ acts \in Nat
  /\ s.session \in Positions /\ s.strength \in Strengths
  /\ {s.auto, s.saved, s.fg, s.gone, s.other} \subseteq BOOLEAN
  /\ s.currentId \in Nat
  /\ s.job.phase \in {"none", "debounce", "collect"}
  /\ Len(s.cache) <= CacheSize
  /\ \A e, f \in ToSet(s.cache) : e.key = f.key => e = f

\* The analysis shown is one of the position on screen, rules and history
\* included: "Stale results are impossible by construction" (AnalysisViewModel).
ShownFitsBoard ==
  CurrentSnapshot # NoSnapshot => CurrentSnapshot.of = s.session

\* What the code achieves of it: whatever arrives late, comes from the cache or
\* is left from before a navigation, the position that was searched for what is
\* shown has the state key of the one on screen, for keys that leave out what
\* they like.
ShownFitsKey ==
  CurrentSnapshot # NoSnapshot =>
    /\ CurrentSnapshot.of \in Positions
    /\ StateKey[CurrentSnapshot.of] = StateKey[s.session]

\* The spinner turns exactly while a job of the current request can stop it:
\* a search that failed, was cancelled or was answered from the cache never leaves it on.
RunningHasJob ==
  s.state.running =>
    /\ s.job.phase # "none" /\ s.job.id = s.currentId
    /\ s.state.key = StateKey[s.job.pos]

\* Every search of this screen that is not cancelled is the one its job waits
\* for, and there is one at most: rapid navigation never piles searches up.
OneLiveSearch ==
  LET live == {i \in DOMAIN s.queue : s.queue[i].kind = "analyze" /\ ~s.queue[i].cancelled}
  IN  /\ Cardinality(live) <= 1
      /\ \A i \in live : s.job.phase = "collect" /\ s.queue[i].id = s.job.id

\* When analysis is off, the app is in the background, the game over or the
\* screen left, no search of this screen goes on.
QuietWhenOff ==
  (~s.auto \/ ~s.fg \/ s.gone \/ s.session \in Over) => s.job = NoJob

\* The controller's records agree: types, spinner, job and the engine's queue.
ControllerAgrees == TypeOK /\ RunningHasJob /\ OneLiveSearch /\ QuietWhenOff

\* Only whole analyses are shown as final or kept in the cache: none that
\* this screen itself stopped, whatever the order of stop, navigation and result.
NeverOwnCut ==
  /\ s.state.snapshot.final => s.state.snapshot.cut # "own"
  /\ \A e \in ToSet(s.cache) :
       /\ e.snapshot.final /\ ~e.snapshot.error /\ e.snapshot.cut # "own"
       /\ e.key = StateKey[e.snapshot.of]

\* At rest, the analysis shown was made with the strength now selected, or
\* took 80 % of its time; a stop from another screen is the exception.
AtRest == s.auto /\ s.fg /\ ~s.gone /\ s.session \notin Over /\ ~s.state.running
FullStrength ==
  (AtRest /\ ~s.state.error /\ s.state.snapshot.cut = "no") =>
    \/ s.strength = Unlimited
    \/ s.state.snapshot.budget = s.strength
    \/ 10 * s.state.snapshot.time >= 8 * s.strength

-----------------------------------------------------------------------------
(* Liveness *)

On == s.auto /\ s.fg /\ ~s.gone
Analysed ==
  \/ s.analysis.error
  \/ CurrentSnapshot # NoSnapshot /\ (s.analysis.running => s.strength = Unlimited)

\* A screen that stays on and shows a game that is not over shows its analysis
\* at last, complete or, without a limit, under way.
AnalysedAtLast == <>[](On /\ s.session \notin Over) => <>[]Analysed
=============================================================================
