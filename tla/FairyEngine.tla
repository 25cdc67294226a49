----------------------------- MODULE FairyEngine -----------------------------
(***************************************************************************)
(* FairyStockfishEngine: searches requested by coroutines of the app,      *)
(* executed one at a time on the engine thread by talking UCI to the       *)
(* native loop of UciCore.  A request is a task; the engine thread holds   *)
(* searchMutex for the task `mutex` and `pc` says where in its handler it  *)
(* is.  Other actors: the coroutines' owners (Request, Cancel), a thread   *)
(* inside stop() and a thread inside close().                              *)
(***************************************************************************)
EXTENDS UciCore

CONSTANTS
  Kind,        \* what each task asks for: "analyze", "bestMove" or "newGame"
  Over,        \* the tasks whose position has no legal move or is over
  Want,        \* Want[t][o]: the value task t needs option o to have
  Keep,        \* in Want: the handler does not touch the option
  Unset,       \* an option cache that is null
  MayTimeOut,  \* TRUE: readUntil() may reach its deadline
  MayClose,    \* TRUE: the app closes the engine
  MaxStops     \* bound: calls of stop() that find a search (TLC only)

CommonOptions == {Variant} \cup Awaiting      \* those of applyCommon()
ModeOptions   == Options \ CommonOptions      \* MultiPV and Skill Level

ASSUME TasksKindAssumption ==
  /\ Kind \in [Tasks -> {"analyze", "bestMove", "newGame"}]
  /\ Over \subseteq {t \in Tasks : Kind[t] # "newGame"}

ASSUME WantAssumption ==
  /\ Keep \notin Values /\ Unset \notin Values
  /\ Want \in [Tasks -> [Options -> Values \cup {Keep}]]
  /\ \A t \in Tasks : \A o \in CommonOptions : Want[t][o] # Keep

ASSUME FlagsAssumption ==
  /\ MayTimeOut \in BOOLEAN /\ MayClose \in BOOLEAN
  /\ MaxStops \in Nat

VARIABLES
  status,     \* progress of each task, as its caller sees it
  waitq,      \* tasks dispatched to the engine thread, in order
  mutex,      \* the task that holds searchMutex
  pc,         \* where the engine thread is
  changed,    \* local of applyCommon()
  stopSent,   \* local of the read loop; `aborted` is set together with it
  started, searching, cache, running, cancelled,
  stopper,    \* a thread inside stop(): "out", "armed" once it saw `searching`, or
              \* "raised" once it set Threads.stop
  stops,      \* number of stop() calls that saw a search
  closer,     \* close(): "open", "stopped", "waiting", "closed"
  answer,     \* the search whose bestmove ended the task (history)
  seen,       \* the searches whose info lines the task recorded (history)
  told,       \* tasks during whose search a stop was sent (history)
  leaked      \* searches whose handler left them under way, by an exception or
              \* for the bestmove of such a search (history)

appVars == <<status, waitq, mutex, pc, changed, stopSent, started, searching, cache,
             running, cancelled, stopper, stops, closer, answer, seen, told, leaked>>
vars == <<coreVars, appVars>>

closed == closer # "open"

SyncPoints == {"uciSync", "applySync", "posSync", "newGameSync"}
PCs == {"idle", "begin", "start", "uciWait", "apply", "drain", "mode", "go", "mark",
        "check", "read", "emit", "newGame"} \cup SyncPoints

Statuses == {"new", "queued", "running", "done", "aborted", "failed", "dropped", "lost"}

TypeOK ==
  /\ CoreTypeOK
  /\ status \in [Tasks -> Statuses]
  /\ waitq \in Seq(Tasks)
  /\ mutex \in Tasks \cup {NoTask}
  /\ pc \in PCs
  /\ pc = "idle" <=> mutex = NoTask
  /\ changed \in BOOLEAN /\ stopSent \in BOOLEAN /\ started \in BOOLEAN
  /\ searching \in BOOLEAN /\ running \in BOOLEAN
  /\ cache \in [Options -> Values \cup {Unset}]
  /\ cancelled \subseteq Tasks
  /\ stopper \in {"out", "armed", "raised"} /\ stops \in Nat
  /\ closer \in {"open", "stopped", "waiting", "closed"}
  /\ answer \in [Tasks -> Tasks \cup {NoTask}]
  /\ seen \in [Tasks -> SUBSET Tasks]
  /\ told \subseteq Tasks /\ leaked \subseteq Tasks

Init ==
  /\ CoreInit
  /\ status = [t \in Tasks |-> "new"]
  /\ waitq = << >>
  /\ mutex = NoTask /\ pc = "idle"
  /\ changed = FALSE /\ stopSent = FALSE /\ started = FALSE
  /\ searching = FALSE /\ running = FALSE
  /\ cache = [o \in Options |-> Unset]
  /\ cancelled = {}
  /\ stopper = "out" /\ stops = 0 /\ closer = "open"
  /\ answer = [t \in Tasks |-> NoTask]
  /\ seen = [t \in Tasks |-> {}]
  /\ told = {} /\ leaked = {}

-----------------------------------------------------------------------------
(* Helpers *)

\* EngineHost::send(): nothing is queued for an engine that is not running.
Send(c) == inq' = IF running THEN Append(inq, c) ELSE inq

StopQueuedOnly == Send(Plain("stop")) /\ UNCHANGED stop

\* ... and a stop is also raised directly.  Between the two only a thread inside
\* stop() can be overtaken by a new go, so only there they are two steps.
SendStop ==
  /\ Send(Plain("stop"))
  /\ stop' = (running \/ stop)

\* Wrong on purpose: searchMutex stays locked.
ReleaseKeepsMutex(result) ==
  /\ status' = [status EXCEPT ![mutex] = result]
  /\ UNCHANGED mutex
  /\ pc' = "idle"

\* The engine thread leaves its handler: the result goes to the caller and
\* searchMutex is released.
Release(result) ==
  /\ status' = [status EXCEPT ![mutex] = result]
  /\ mutex' = NoTask
  /\ pc' = "idle"

\* An EngineException ends the handler; only analyze() and the read loop of
\* bestMove() lower `searching` on the way.
Fail ==
  /\ Release("failed")
  /\ searching' = IF Kind[mutex] = "analyze" \/ pc \in {"check", "read"}
                    THEN FALSE ELSE searching
  /\ UNCHANGED <<coreVars, waitq, changed, stopSent, started, cache, running, cancelled,
                 stopper, stops, closer, answer, seen, told, leaked>>

\* Only the engine thread's place changes.
Jump(to) ==
  /\ pc' = to
  /\ UNCHANGED <<status, waitq, mutex, changed, stopSent, started, searching, cache,
                 running, cancelled, stopper, stops, closer, answer, seen, told, leaked>>

AfterStart == IF Kind[mutex] = "newGame" THEN "newGame" ELSE "apply"

\* A stop reaches a running engine after the go command of `mutex`.
InSearch == pc \in {"mark", "check", "read", "emit"}
Tell == told' = IF running /\ InSearch THEN told \cup {mutex} ELSE told

-----------------------------------------------------------------------------
(* The owners of the requests *)

\* withContext(engineDispatcher) dispatches; a closed executor cancels.
Request(t) ==
  /\ status[t] = "new"
  /\ IF closer = "closed"
       THEN status' = [status EXCEPT ![t] = "dropped"] /\ UNCHANGED waitq
       ELSE status' = [status EXCEPT ![t] = "queued"] /\ waitq' = Append(waitq, t)
  /\ UNCHANGED <<coreVars, mutex, pc, changed, stopSent, started, searching, cache, running,
                 cancelled, stopper, stops, closer, answer, seen, told, leaked>>

\* The coroutine is cancelled; the engine thread notices when it looks.
Cancel(t) ==
  /\ status[t] \in {"queued", "running"}
  /\ t \notin cancelled
  /\ cancelled' = cancelled \cup {t}
  /\ UNCHANGED <<coreVars, status, waitq, mutex, pc, changed, stopSent, started, searching,
                 cache, running, stopper, stops, closer, answer, seen, told, leaked>>

\* stop() first reads `searching` ...
StopCheck ==
  /\ stopper = "out" /\ searching /\ stops < MaxStops
  /\ stopper' = "armed"
  /\ stops' = stops + 1
  /\ UNCHANGED <<coreVars, status, waitq, mutex, pc, changed, stopSent, started, searching,
                 cache, running, cancelled, closer, answer, seen, told, leaked>>

\* ... then writes to the transport, whatever happened in between: the flag is
\* raised at once if the engine runs ...
StopSend ==
  /\ stopper = "armed"
  /\ IF running THEN stopper' = "raised" /\ stop' = TRUE
                ELSE stopper' = "out" /\ UNCHANGED stop
  /\ Tell
  /\ UNCHANGED <<inq, outq, loop, srch, root, opts, status, waitq, mutex, pc, changed, stopSent,
                 started, searching, cache, running, cancelled, stops, closer, answer, seen, leaked>>

\* ... and the line is queued after that, without a second look.
StopPush ==
  /\ stopper = "raised"
  /\ stopper' = "out"
  /\ inq' = Append(inq, Plain("stop"))
  /\ UNCHANGED <<outq, stop, loop, srch, root, opts, status, waitq, mutex, pc, changed, stopSent, started,
                 searching, cache, running, cancelled, stops, closer, answer, seen, told, leaked>>

-----------------------------------------------------------------------------
(* close() *)

\* shutdownNow() discards the dispatched tasks: their callers never resume.
LoseQueued ==
  /\ status' = [t \in Tasks |-> IF status[t] = "queued" THEN "lost" ELSE status[t]]
  /\ waitq' = << >>

CloseBegin ==
  /\ MayClose /\ closer = "open"
  /\ IF running
       THEN /\ closer' = "stopped"
            /\ SendStop
            /\ Tell
            /\ UNCHANGED <<status, waitq>>
       ELSE /\ closer' = "closed"
            /\ LoseQueued
            /\ UNCHANGED <<inq, stop, told>>
  /\ UNCHANGED <<outq, loop, srch, root, opts, mutex, pc, changed, stopSent, started, searching,
                 cache, running, cancelled, stopper, stops, answer, seen, leaked>>

\* EngineHost::shutdown() asks the loop to quit ...
CloseQuit ==
  /\ closer = "stopped"
  /\ closer' = "waiting"
  /\ IF running THEN inq' = Append(inq, Plain("quit")) /\ stop' = TRUE
                ELSE UNCHANGED <<inq, stop>>
  /\ Tell
  /\ UNCHANGED <<outq, loop, srch, root, opts, status, waitq, mutex, pc, changed, stopSent,
                 started, searching, cache, running, cancelled, stopper, stops, answer, seen, leaked>>

\* ... and marks the engine not running when it ended or the timeout expired.
CloseEnd ==
  /\ closer = "waiting"
  /\ loop = "ended" \/ MayTimeOut
  /\ closer' = "closed"
  /\ running' = FALSE
  /\ LoseQueued
  /\ UNCHANGED <<coreVars, mutex, pc, changed, stopSent, started, searching, cache, cancelled,
                 stopper, stops, answer, seen, told, leaked>>

-----------------------------------------------------------------------------
(* The engine thread: from the mutex to the go command *)

\* Wrong on purpose: a task starts without taking searchMutex.
AcquireUnlocked ==
  /\ waitq # << >>
  /\ waitq' = Tail(waitq)
  /\ status' = [status EXCEPT ![Head(waitq)] = "running"]
  /\ mutex' = Head(waitq)
  /\ pc' = "begin"
  /\ UNCHANGED <<coreVars, changed, stopSent, started, searching, cache, running, cancelled,
                 stopper, stops, closer, answer, seen, told, leaked>>

Acquire ==
  /\ mutex = NoTask /\ waitq # << >>
  /\ waitq' = Tail(waitq)
  /\ IF Head(waitq) \in cancelled
       THEN /\ status' = [status EXCEPT ![Head(waitq)] = "dropped"]
            /\ UNCHANGED <<mutex, pc>>
       ELSE /\ status' = [status EXCEPT ![Head(waitq)] = "running"]
            /\ mutex' = Head(waitq)
            /\ pc' = "begin"
  /\ UNCHANGED <<coreVars, changed, stopSent, started, searching, cache, running, cancelled,
                 stopper, stops, closer, answer, seen, told, leaked>>

\* Wrong on purpose: the early return for a finished game skips the unlock.
BeginKeepsMutex ==
  /\ pc = "begin"
  /\ IF mutex \in Over
       THEN /\ status' = [status EXCEPT ![mutex] = "done"]
            /\ UNCHANGED <<coreVars, waitq, mutex, pc, changed, stopSent, started, searching,
                           cache, running, cancelled, stopper, stops, closer, answer, seen, told, leaked>>
       ELSE /\ Jump(IF started /\ running THEN AfterStart ELSE "start")
            /\ UNCHANGED coreVars

\* No search for a finished game; otherwise ensureStarted() looks at `closed`
\* and at the transport.
Begin ==
  /\ pc = "begin"
  /\ IF mutex \in Over
       THEN /\ Release("done")
            /\ UNCHANGED <<coreVars, waitq, changed, stopSent, started, searching, cache,
                           running, cancelled, stopper, stops, closer, answer, seen, told, leaked>>
       ELSE IF closed
       THEN Fail
       ELSE /\ Jump(IF started /\ running THEN AfterStart ELSE "start")
            /\ UNCHANGED coreVars

\* transport.start() is a no-op on a running engine.  The option caches are
\* forgotten, old output is drained and the handshake begins.
Start ==
  /\ pc = "start"
  /\ ~running => loop = "ended"
  /\ running' = TRUE
  /\ loop' = IF running THEN loop ELSE "reading"
  /\ cache' = [o \in Options |-> Unset]
  /\ outq' = << >>
  /\ inq' = Append(IF running THEN inq ELSE << >>, Plain("uci"))
  /\ pc' = "uciWait"
  /\ UNCHANGED <<stop, srch, root, opts, status, waitq, mutex, changed, stopSent, started,
                 searching, cancelled, stopper, stops, closer, answer, seen, told, leaked>>

StartFails == pc = "start" /\ ~running /\ Fail

\* readUntil(): one line of output per step, lines before the awaited one are
\* discarded.
Await(kind) ==
  /\ outq # << >>
  /\ outq' = Tail(outq)
  /\ Head(outq).kind = kind

AwaitUciOk ==
  /\ pc = "uciWait"
  /\ Await("uciok")
  /\ Send(Plain("isready"))
  /\ Jump("uciSync")
  /\ UNCHANGED <<stop, loop, srch, root, opts>>

AwaitReadyOk ==
  /\ pc \in SyncPoints
  /\ Await("readyok")
  /\ IF pc = "newGameSync"
       THEN Release("done") /\ UNCHANGED started
       ELSE /\ pc' = CASE pc = "uciSync"   -> AfterStart
                       [] pc = "applySync" -> "drain"
                       [] pc = "posSync"   -> "go"
            /\ started' = (started \/ pc = "uciSync")
            /\ UNCHANGED <<status, mutex>>
  /\ UNCHANGED <<inq, stop, loop, srch, root, opts, waitq, changed, stopSent, searching, cache,
                 running, cancelled, stopper, stops, closer, answer, seen, told, leaked>>

AwaitSkips ==
  /\ pc \in SyncPoints \cup {"uciWait"}
  /\ outq # << >>
  /\ Head(outq).kind # (IF pc = "uciWait" THEN "uciok" ELSE "readyok")
  /\ outq' = Tail(outq)
  /\ UNCHANGED <<inq, stop, loop, srch, root, opts, appVars>>

\* Wrong on purpose: the deadline also ends the read loop of a search.
AwaitFailsAnywhere ==
  /\ pc \in SyncPoints \cup {"uciWait", "read"}
  /\ MayTimeOut \/ (~running /\ outq = << >>)
  /\ Fail

AwaitFails ==
  /\ pc \in SyncPoints \cup {"uciWait"}
  /\ MayTimeOut \/ (~running /\ outq = << >>)
  /\ Fail

NewGame ==
  /\ pc = "newGame"
  /\ inq' = IF running THEN inq \o <<Plain("ucinewgame"), Plain("isready")>> ELSE inq
  /\ Jump("newGameSync")
  /\ UNCHANGED <<outq, stop, loop, srch, root, opts>>

\* An option is sent when its cached value differs from the wanted one.
Differs(o) == Want[mutex][o] # Keep /\ cache[o] # Want[mutex][o]

SendOption(o) ==
  /\ Send(SetOption(o, Want[mutex][o]))
  /\ cache' = [cache EXCEPT ![o] = Want[mutex][o]]

\* applyCommon(): the variant first, then Threads and Hash ...
ApplyOption(o) ==
  /\ pc = "apply" /\ o \in CommonOptions
  /\ Differs(o)
  /\ o # Variant => ~Differs(Variant)
  /\ SendOption(o)
  /\ changed' = TRUE
  /\ UNCHANGED <<outq, stop, loop, srch, root, opts, status, waitq, mutex, pc, stopSent, started,
                 searching, running, cancelled, stopper, stops, closer, answer, seen, told, leaked>>

\* Wrong on purpose: only the first option that differs is sent.
ApplyFirstOnly ==
  /\ pc = "apply"
  /\ changed \/ \A o \in CommonOptions : ~Differs(o)
  /\ changed' = FALSE
  /\ IF changed THEN Send(Plain("isready")) /\ pc' = "applySync"
                ELSE UNCHANGED inq /\ pc' = "drain"
  /\ UNCHANGED <<outq, stop, loop, srch, root, opts, status, waitq, mutex, stopSent, started,
                 searching, cache, running, cancelled, stopper, stops, closer, answer, seen, told, leaked>>

\* ... and a sync if anything was sent.
ApplyDone ==
  /\ pc = "apply"
  /\ \A o \in CommonOptions : ~Differs(o)
  /\ changed' = FALSE
  /\ IF changed THEN Send(Plain("isready")) /\ pc' = "applySync"
                ELSE UNCHANGED inq /\ pc' = "drain"
  /\ UNCHANGED <<outq, stop, loop, srch, root, opts, status, waitq, mutex, stopSent, started,
                 searching, cache, running, cancelled, stopper, stops, closer, answer, seen, told, leaked>>

Drain ==
  /\ pc = "drain"
  /\ outq' = << >>
  /\ Jump("mode")
  /\ UNCHANGED <<inq, stop, loop, srch, root, opts>>

\* setMultiPv() and, for bestMove(), setSkill().
ModeOption(o) ==
  /\ pc = "mode" /\ o \in ModeOptions
  /\ Differs(o)
  /\ SendOption(o)
  /\ UNCHANGED <<outq, stop, loop, srch, root, opts, status, waitq, mutex, pc, changed, stopSent,
                 started, searching, running, cancelled, stopper, stops, closer, answer, seen, told, leaked>>

SendPosition ==
  /\ pc = "mode"
  /\ \A o \in ModeOptions : ~Differs(o)
  /\ inq' = IF running THEN inq \o <<PositionOf(mutex), Plain("isready")>> ELSE inq
  /\ Jump("posSync")
  /\ UNCHANGED <<outq, stop, loop, srch, root, opts>>

SendGo ==
  /\ pc = "go"
  /\ Send(Go(mutex))
  /\ Jump("mark")
  /\ UNCHANGED <<outq, stop, loop, srch, root, opts>>

\* Wrong on purpose: the flag of the previous search is kept.
MarkKeepsStopSent ==
  /\ pc = "mark"
  /\ searching' = TRUE
  /\ pc' = "check"
  /\ UNCHANGED <<coreVars, status, waitq, mutex, changed, stopSent, started, cache, running,
                 cancelled, stopper, stops, closer, answer, seen, told, leaked>>

\* `searching = true` is a later step than the go command.
Mark ==
  /\ pc = "mark"
  /\ searching' = TRUE
  /\ stopSent' = FALSE
  /\ pc' = "check"
  /\ UNCHANGED <<coreVars, status, waitq, mutex, changed, started, cache, running, cancelled,
                 stopper, stops, closer, answer, seen, told, leaked>>

-----------------------------------------------------------------------------
(* The engine thread: the read loop *)

\* Wrong on purpose: a cancelled task sends stop and does not wait for bestmove.
CheckAndLeave ==
  /\ pc = "check"
  /\ IF mutex \in cancelled
       THEN Release("dropped") /\ SendStop /\ Tell /\ searching' = FALSE
       ELSE pc' = "read" /\ UNCHANGED <<status, mutex, inq, stop, told, searching>>
  /\ UNCHANGED <<outq, loop, srch, root, opts, waitq, changed, stopSent, started,
                 cache, running, cancelled, stopper, stops, closer, answer, seen, leaked>>

\* A cancelled task stops its search, once.
Check ==
  /\ pc = "check"
  /\ pc' = "read"
  /\ IF mutex \in cancelled /\ ~stopSent
       THEN stopSent' = TRUE /\ SendStop /\ Tell
       ELSE UNCHANGED <<stopSent, inq, stop, told>>
  /\ UNCHANGED <<outq, loop, srch, root, opts, status, waitq, mutex, changed, started, searching,
                 cache, running, cancelled, stopper, stops, closer, answer, seen, leaked>>

\* readLine() returns null: loop, or give up on a dead engine.
ReadNothing ==
  /\ pc = "read" /\ outq = << >>
  /\ IF running THEN Jump("check") /\ UNCHANGED coreVars ELSE Fail

\* An info line is recorded; analyze() may emit a snapshot of it if the
\* collector is still active.
ReadInfo ==
  /\ pc = "read" /\ Await("info")
  /\ seen' = [seen EXCEPT ![mutex] = @ \cup {Head(outq).id}]
  /\ pc' \in IF Kind[mutex] = "analyze" /\ mutex \notin cancelled
               THEN {"emit", "check"} ELSE {"check"}
  /\ UNCHANGED <<inq, stop, loop, srch, root, opts, status, waitq, mutex, changed, stopSent,
                 started, searching, cache, running, cancelled, stopper, stops, closer, answer, told, leaked>>

ReadOther ==
  /\ pc = "read" /\ outq # << >>
  /\ Head(outq).kind \notin {"info", "bestmove"}
  /\ outq' = Tail(outq)
  /\ Jump("check")
  /\ UNCHANGED <<inq, stop, loop, srch, root, opts>>

\* bestmove ends the search and the handler.
ReadBestMove ==
  /\ pc = "read" /\ Await("bestmove")
  /\ answer' = [answer EXCEPT ![mutex] = Head(outq).id]
  /\ searching' = FALSE
  /\ Release(IF stopSent THEN "aborted" ELSE "done")
  /\ leaked' = IF Head(outq).id \in leaked THEN leaked \cup {mutex} ELSE leaked
  /\ UNCHANGED <<inq, stop, loop, srch, root, opts, waitq, changed, stopSent, started, cache,
                 running, cancelled, stopper, stops, closer, seen, told>>

\* The snapshot is built and sent to the channel ...
EmitSnapshot ==
  /\ pc = "emit"
  /\ Jump("check")
  /\ UNCHANGED coreVars

\* ... which throws CancellationException if the collector went away after
\* scope.isActive was read.  runAnalysis() only catches EngineException.
EmitThrows ==
  /\ pc = "emit" /\ mutex \in cancelled
  /\ Release("dropped")
  /\ leaked' = leaked \cup {mutex}
  /\ UNCHANGED <<coreVars, waitq, changed, stopSent, started, searching, cache, running,
                 cancelled, stopper, stops, closer, answer, seen, told>>

-----------------------------------------------------------------------------
EngineThread ==
  \/ Acquire \/ Begin \/ Start \/ StartFails
  \/ AwaitUciOk \/ AwaitReadyOk \/ AwaitSkips \/ AwaitFails
  \/ NewGame \/ ApplyDone \/ Drain \/ SendPosition \/ SendGo \/ Mark
  \/ \E o \in Options : ApplyOption(o) \/ ModeOption(o)
  \/ Check \/ ReadNothing \/ ReadInfo \/ ReadOther \/ ReadBestMove
  \/ EmitSnapshot \/ EmitThrows

\* The loop thread marks the host not running when it ends.
NativeEnds == LoopEnds /\ running' = FALSE /\ UNCHANGED <<status, waitq, mutex, pc, changed,
                stopSent, started, searching, cache, cancelled, stopper, stops, closer,
                answer, seen, told, leaked>>

Native == (LoopThread \/ SearchThread) /\ UNCHANGED appVars

Closing == CloseBegin \/ CloseQuit \/ CloseEnd

Next ==
  \/ EngineThread
  \/ Native \/ NativeEnds
  \/ StopCheck \/ StopSend \/ StopPush
  \/ Closing
  \/ \E t \in Tasks : Request(t) \/ Cancel(t)

Spec == Init /\ [][Next]_vars

\* The engine's threads run on, a stop() or close() that began ends, and a
\* limited search ends by itself; the owners of requests owe nothing.
Fairness ==
  /\ WF_vars(EngineThread)
  /\ WF_vars(LoopThread /\ UNCHANGED appVars)
  /\ WF_vars(SearchThread /\ UNCHANGED appVars)
  /\ WF_vars(NativeEnds)
  /\ WF_vars(StopSend)
  /\ WF_vars(StopPush)
  /\ WF_vars(CloseQuit)
  /\ WF_vars(CloseEnd)

FairSpec == Spec /\ Fairness

-----------------------------------------------------------------------------
(* Safety *)

\* The work the native engine still owes an answer for: go commands not yet
\* executed, the search that runs, and bestmove lines not yet read.
GoQueued     == {i \in DOMAIN inq : inq[i].cmd = "go"}
BestMoveLines == {i \in DOMAIN outq : outq[i].kind = "bestmove"}
Thinking     == srch.phase = "thinking"

Work == {inq[i].id : i \in GoQueued}
          \cup (IF Thinking THEN {srch.id} ELSE {})
          \cup {outq[i].id : i \in BestMoveLines}

\* When searchMutex is free the engine is quiet: the last search has ended and
\* its bestmove was read, so the next search starts on a quiet engine
\* (the "Race safety" promise of FairyStockfishEngine's class comment).
QuietHandover == (mutex = NoTask /\ ~closed) => Work = {}

\* ... and what the code does: at a free mutex nothing is under way but searches
\* that were leaked, when a cancellation falls between scope.isActive and scope.send,
\* and those whose request was then answered by such a search.
QuietUnlessLeaked == (mutex = NoTask /\ ~closed) => Work \subseteq leaked

\* UCI allows one `go` at a time: but for leaked searches, never are two under way,
\* counting those that are queued and those whose bestmove nobody has read, and each
\* search is under way only once.
OneSearch ==
  /\ \A s, t \in Work \ leaked : s = t
  /\ \A i, j \in GoQueued : inq[i].id = inq[j].id => i = j
  /\ \A i, j \in BestMoveLines : outq[i].id = outq[j].id => i = j
  /\ \A i \in GoQueued, j \in BestMoveLines : inq[i].id # outq[j].id
  /\ Thinking => /\ \A i \in GoQueued : inq[i].id # srch.id
                 /\ \A i \in BestMoveLines : outq[i].id # srch.id

\* A request is answered by its own search and records only lines of its own
\* search, never those of a cancelled or timed-out predecessor: only those of a
\* leaked search may come in between.
OwnAnswer ==
  \A t \in Tasks : answer[t] \in {NoTask, t} \cup leaked /\ seen[t] \subseteq {t} \cup leaked

\* Every search runs on the position and with the options its request asked
\* for, although options are only sent when a cached value differs.
RightSetup ==
  Thinking => /\ srch.on = srch.id
              /\ srch.variant = Want[srch.id][Variant]
              /\ \A o \in Options :
                   Want[srch.id][o] \in {Keep, srch.opts[o]}

-----------------------------------------------------------------------------
(* Liveness *)

\* A stop sent during a search ends that search, whether it overtakes the go
\* command in the queue or not.
StopLands == \A t \in Tasks : (t \in told) ~> (mutex # t)

\* A cancelled task gives the engine back.
CancelReleases == \A t \in Tasks : (mutex = t /\ t \in cancelled) ~> (mutex # t)

\* Every dispatched task gets its turn, provided that whoever started an
\* unlimited search cancels it some day, and that no search is leaked.
UnlimitedAreCancelled == \A t \in Infinite : (mutex = t) ~> (t \in cancelled)
EveryTaskServed == \A t \in Tasks : (status[t] = "queued") ~> (status[t] # "queued")
ServedIfCancelled == UnlimitedAreCancelled /\ []QuietHandover => EveryTaskServed

-----------------------------------------------------------------------------
(* The engine implements its contract *)

Contract == INSTANCE EngineContract WITH work <- Work, reply <- answer, shut <- closed

\* One quiet engine, one answer per search and to the right request, until a leak,
\* and again once what was leaked is gone.
ImplementsContract == Contract!Spec
=============================================================================
