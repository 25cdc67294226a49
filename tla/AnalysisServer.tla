---------------------------- MODULE AnalysisServer ----------------------------
(***************************************************************************)
(* The analysis server (server/app.py): websocket sessions that stream one *)
(* analysis at a time, REST calls that stop them to get an engine, and the *)
(* worker threads that hold the engines' locks.  Coroutines run on one     *)
(* event loop, so what they do between two awaits is one action; threads   *)
(* interleave anywhere.                                                    *)
(***************************************************************************)
EXTENDS Naturals, Sequences, FiniteSets, SequencesExt

CONSTANTS
  Clients,     \* websocket sessions
  Requests,    \* REST calls that need an engine
  Leavers,     \* those of the clients whose connection may end
  Nobody,
  MayFail,     \* TRUE: a search, or the start of an engine, may raise
  MaxJobs,     \* bound: analyses in all sessions together (TLC only)
  MaxUpdates   \* bound: jobs that send an update (TLC only)

ASSUME BoundsAssumption ==
  Leavers \subseteq Clients /\ MaxJobs \in Nat /\ MaxUpdates \in Nat /\ MayFail \in BOOLEAN

\* Jobs are numbered in the order in which the sessions make them.
Jobs == 1..MaxJobs

ASSUME NobodyAssumption ==
  Nobody \notin Jobs \cup Requests \cup Clients /\ Requests \cap Jobs = {}

VARIABLES
  open,     \* is the client still connected
  loop,     \* where the receive loop of a session is
  current,  \* the session's current job, 0 before the first
  owner,    \* the session that made a job, Nobody before that
  task,     \* run_job of a job
  thread,   \* work() of a job, on a worker thread
  stop,     \* job.stop
  active,   \* ACTIVE_JOBS
  inbox,    \* the queue from the thread to run_job
  wrapped,  \* is the engine a UciEngine, or an Analyzer
  lock,     \* who holds the engine's lock
  rest,     \* where a REST call is
  log,      \* messages a client was sent (history)
  late      \* REST calls that a job registered behind (history)

session == <<open, loop, current>>
jobs    == <<owner, task, thread, stop, active, inbox>>
vars    == <<session, jobs, wrapped, lock, rest, log, late>>

Init ==
  /\ open = [c \in Clients |-> TRUE] /\ loop = [c \in Clients |-> "receive"]
  /\ current = [c \in Clients |-> 0]
  /\ owner = [j \in Jobs |-> Nobody] /\ task = [j \in Jobs |-> "none"] /\ thread = [j \in Jobs |-> "none"]
  /\ stop = [j \in Jobs |-> FALSE]
  /\ active = {} /\ inbox = [j \in Jobs |-> << >>]
  /\ wrapped \in BOOLEAN /\ lock = Nobody
  /\ rest = [r \in Requests |-> "idle"]
  /\ log = [c \in Clients |-> << >>] /\ late = {}

-----------------------------------------------------------------------------
(* The receive loop of a session *)

\* Wrong on purpose: the task ends while its thread may go on.
TaskOver(j) == task[j] = "over"

\* The task of a job is done when its message loop is over and so is its
\* thread: finally, await worker.
TaskDone(j) == task[j] = "over" /\ thread[j] = "done"

Busy(c) == current[c] > 0 /\ ~TaskDone(current[c])

\* stop.set() of the session's current job
StopCurrent(c) ==
  IF current[c] > 0 THEN [stop EXCEPT ![current[c]] = TRUE] ELSE stop

Made == {j \in Jobs : owner[j] # Nobody}
Pending == {c \in Clients : loop[c] = "supersede"}

\* job = _Job(...); create_task(run_job(...)); current = job
Create(c) ==
  /\ \E j \in Jobs \ Made :
       /\ \A i \in Jobs : i < j => i \in Made
       /\ owner' = [owner EXCEPT ![j] = c] /\ current' = [current EXCEPT ![c] = j]
       /\ task' = [task EXCEPT ![j] = "run"] /\ thread' = [thread EXCEPT ![j] = "spawned"]
  /\ UNCHANGED <<stop, active, inbox>>

\* An analyze message stops the analysis under way and waits for its task.
Analyze(c) ==
  /\ loop[c] = "receive" /\ open[c] /\ Cardinality(Made \cup Pending) < MaxJobs
  /\ IF Busy(c)
       THEN /\ stop' = StopCurrent(c) /\ loop' = [loop EXCEPT ![c] = "supersede"]
            /\ UNCHANGED <<current, owner, task, thread, active, inbox>>
       ELSE Create(c) /\ UNCHANGED loop
  /\ UNCHANGED <<open, wrapped, lock, rest, log, late>>

\* Wrong on purpose: the new job does not wait for the old one's task.
SupersedeAtOnce(c) ==
  /\ loop[c] = "supersede" /\ Create(c) /\ loop' = [loop EXCEPT ![c] = "receive"]
  /\ UNCHANGED <<open, wrapped, lock, rest, log, late>>

Supersede(c) ==
  /\ loop[c] = "supersede" /\ ~Busy(c)
  /\ Create(c) /\ loop' = [loop EXCEPT ![c] = "receive"]
  /\ UNCHANGED <<open, wrapped, lock, rest, log, late>>

StopMessage(c) ==
  /\ loop[c] = "receive" /\ open[c] /\ stop' = StopCurrent(c)
  /\ UNCHANGED <<session, owner, task, thread, active, inbox, wrapped, lock, rest, log, late>>

Disconnect(c) ==
  /\ c \in Leavers /\ open[c] /\ open' = [open EXCEPT ![c] = FALSE]
  /\ UNCHANGED <<loop, current, jobs, wrapped, lock, rest, log, late>>

\* Wrong on purpose: the session ends without stopping its job.
CloseRunning(c) ==
  /\ loop[c] = "receive" /\ ~open[c] /\ loop' = [loop EXCEPT ![c] = "closed"]
  /\ UNCHANGED <<open, current, jobs, wrapped, lock, rest, log, late>>

\* WebSocketDisconnect is raised by receive_json(); finally stops the job.
Close(c) ==
  /\ loop[c] = "receive" /\ ~open[c]
  /\ loop' = [loop EXCEPT ![c] = "closed"] /\ stop' = StopCurrent(c)
  /\ UNCHANGED <<open, current, owner, task, thread, active, inbox, wrapped, lock, rest, log, late>>

-----------------------------------------------------------------------------
(* work(): the thread of a job *)

\* progress(): a message to run_job, by call_soon_threadsafe
Post(j, what) == inbox' = [inbox EXCEPT ![j] = Append(@, what)]
Goes(j, from, to) == thread[j] = from /\ thread' = [thread EXCEPT ![j] = to]

\* Wrong on purpose: a registration that no REST call can see.
RegisterNot(j) ==
  /\ Goes(j, "spawned", "waiting")
  /\ UNCHANGED <<session, owner, task, stop, active, inbox, wrapped, lock, rest, log, late>>

Register(j) ==
  /\ Goes(j, "spawned", "waiting") /\ active' = active \cup {j}
  /\ late' = late \cup {r \in Requests : rest[r] = "waiting"}
  /\ UNCHANGED <<session, owner, task, stop, inbox, wrapped, lock, rest, log>>

\* A UciEngine's job looks at job.stop before it waits for the lock.
SkipEngine(j) ==
  /\ wrapped /\ stop[j]
  /\ Goes(j, "waiting", "leaving") /\ Post(j, "final")
  /\ UNCHANGED <<session, owner, task, stop, active, wrapped, lock, rest, log, late>>

\* get_uci_engine() raises: the exception handler posts the final message.
NoEngine(j) ==
  /\ MayFail /\ wrapped
  /\ Goes(j, "waiting", "leaving") /\ Post(j, "final")
  /\ UNCHANGED <<session, owner, task, stop, active, wrapped, lock, rest, log, late>>

PassEngineCheck(j) ==
  /\ wrapped /\ ~stop[j]
  /\ Goes(j, "waiting", "locking")
  /\ UNCHANGED <<session, owner, task, stop, active, inbox, wrapped, lock, rest, log, late>>

\* The lock is taken; an Analyzer's job looks at job.stop only then, and
\* leaves at once if it was stopped.
TakeEngine(j) ==
  /\ lock = Nobody
  /\ \/ Goes(j, "locking", "searching") /\ lock' = j /\ UNCHANGED inbox
     \/ ~wrapped /\ ~stop[j] /\ Goes(j, "waiting", "searching") /\ lock' = j /\ UNCHANGED inbox
     \/ ~wrapped /\ stop[j] /\ Goes(j, "waiting", "leaving") /\ Post(j, "final") /\ UNCHANGED lock
  /\ UNCHANGED <<session, owner, task, stop, active, wrapped, rest, log, late>>

Updated == {j \in Jobs : \/ "update" \in ToSet(inbox[j])
                          \/ \E c \in Clients : [job |-> j, what |-> "update"] \in ToSet(log[c])}
Update(j) ==
  /\ thread[j] = "searching" /\ Post(j, "update")
  /\ j \notin Updated /\ Cardinality(Updated) < MaxUpdates
  /\ UNCHANGED <<session, owner, task, thread, stop, active, wrapped, lock, rest, log, late>>

\* A search ends by its limit, if it has one, by job.stop, or when nothing is
\* left to search.
SearchEnds(j) ==
  /\ Goes(j, "searching", "leaving") /\ Post(j, "final") /\ lock' = Nobody
  /\ UNCHANGED <<session, owner, task, stop, active, wrapped, rest, log, late>>

\* Wrong on purpose: the exception ends the thread without a word.
FailSilently(j) ==
  /\ MayFail /\ Goes(j, "searching", "leaving")
  /\ lock' = Nobody
  /\ UNCHANGED <<session, owner, task, stop, active, inbox, wrapped, rest, log, late>>

\* An exception leaves the lock and is turned into the final message.
SearchFails(j) ==
  /\ MayFail /\ Goes(j, "searching", "leaving") /\ Post(j, "final")
  /\ lock' = Nobody
  /\ UNCHANGED <<session, owner, task, stop, active, wrapped, rest, log, late>>

Leave(j) ==
  /\ Goes(j, "leaving", "done") /\ active' = active \ {j}
  /\ UNCHANGED <<session, owner, task, stop, inbox, wrapped, lock, rest, log, late>>

-----------------------------------------------------------------------------
(* run_job: the coroutine that forwards a job's messages *)

\* send() to a client that has gone raises, which also ends the message loop.
Deliver(j) ==
  /\ task[j] = "run" /\ inbox[j] # << >>
  /\ inbox' = [inbox EXCEPT ![j] = Tail(@)]
  /\ log' = IF open[owner[j]]
              THEN [log EXCEPT ![owner[j]] = Append(@, [job |-> j, what |-> Head(inbox[j])])] ELSE log
  /\ task' = IF Head(inbox[j]) = "final" \/ ~open[owner[j]] THEN [task EXCEPT ![j] = "over"] ELSE task
  /\ UNCHANGED <<session, owner, thread, stop, active, wrapped, lock, rest, late>>

\* Nothing for HEARTBEAT_S seconds, and the client has gone.  (A heartbeat
\* that arrives changes nothing.  The fallback for a thread that ended without
\* a final message is left out: NeverSilent says that there is none.)
HeartbeatFails(j) ==
  /\ task[j] = "run" /\ inbox[j] = << >> /\ ~open[owner[j]]
  /\ task' = [task EXCEPT ![j] = "over"]
  /\ UNCHANGED <<session, owner, thread, stop, active, inbox, wrapped, lock, rest, log, late>>

-----------------------------------------------------------------------------
(* REST calls: _run_analysis, _run_bestmove *)

RestGoes(r, from, to) == rest[r] = from /\ rest' = [rest EXCEPT ![r] = to]

\* _preempt_ws_jobs()
Preempt(r) ==
  /\ RestGoes(r, "idle", "waiting")
  /\ stop' = [j \in Jobs |-> stop[j] \/ j \in active]
  /\ UNCHANGED <<session, owner, task, thread, active, inbox, wrapped, lock, log, late>>

RestTakes(r) ==
  /\ RestGoes(r, "waiting", "searching")
  /\ lock = Nobody /\ lock' = r
  /\ UNCHANGED <<session, jobs, wrapped, log, late>>

\* get_uci_engine() finds no engine or cannot start it: a 503.
RestFails(r) ==
  /\ MayFail /\ wrapped /\ RestGoes(r, "waiting", "done")
  /\ UNCHANGED <<session, jobs, wrapped, lock, log, late>>

\* A REST call always has a deadline (_rest_time).
RestEnds(r) ==
  /\ RestGoes(r, "searching", "done") /\ lock' = Nobody
  /\ UNCHANGED <<session, jobs, wrapped, log, late>>

-----------------------------------------------------------------------------
SessionStep(c) == Analyze(c) \/ Supersede(c) \/ StopMessage(c) \/ Disconnect(c) \/ Close(c)
WorkStep(j) ==
  \/ Register(j) \/ SkipEngine(j) \/ NoEngine(j) \/ PassEngineCheck(j) \/ TakeEngine(j)
  \/ Update(j) \/ SearchEnds(j) \/ SearchFails(j) \/ Leave(j)
TaskStep(j) == Deliver(j) \/ HeartbeatFails(j)
RestStep(r) == Preempt(r) \/ RestTakes(r) \/ RestFails(r) \/ RestEnds(r)

Next ==
  \/ \E c \in Clients : SessionStep(c)
  \/ \E j \in Jobs : WorkStep(j) \/ TaskStep(j)
  \/ \E r \in Requests : RestStep(r)

Spec == Init /\ [][Next]_vars

\* Threads and the event loop go on; a search need not end before it is
\* stopped.  Clients and callers owe nothing.
ThreadGoesOn(j) ==
  \/ Register(j) \/ SkipEngine(j) \/ PassEngineCheck(j) \/ TakeEngine(j)
  \/ stop[j] /\ SearchEnds(j)
  \/ Leave(j)
Fairness ==
  /\ \A c \in Clients : WF_vars(Supersede(c) \/ Close(c))
  /\ \A j \in Jobs : WF_vars(ThreadGoesOn(j)) /\ WF_vars(TaskStep(j))
  /\ \A r \in Requests : WF_vars(RestTakes(r) \/ RestEnds(r))

FairSpec == Spec /\ Fairness

-----------------------------------------------------------------------------
(* Safety *)

\* Type correctness; ACTIVE_JOBS are the threads under way, so a REST call can
\* reach whoever holds the engine's lock.
TypeOK ==
  /\ open \in [Clients -> BOOLEAN]
  /\ loop \in [Clients -> {"receive", "supersede", "closed"}]
  /\ current \in [Clients -> Jobs \cup {0}]
  /\ owner \in [Jobs -> Clients \cup {Nobody}]
  /\ task \in [Jobs -> {"none", "run", "over"}]
  /\ thread \in [Jobs -> {"none", "spawned", "waiting", "locking", "searching",
                          "leaving", "done"}]
  /\ stop \in [Jobs -> BOOLEAN] /\ active \subseteq Jobs
  /\ inbox \in [Jobs -> Seq({"update", "final"})]
  /\ wrapped \in BOOLEAN /\ lock \in Jobs \cup Requests \cup {Nobody}
  /\ rest \in [Requests -> {"idle", "waiting", "searching", "done"}]
  /\ log \in [Clients -> Seq([job : Jobs, what : {"update", "final"}])]
  /\ late \subseteq Requests
  /\ active = {j \in Jobs : thread[j] \in {"waiting", "locking", "searching", "leaving"}}
  /\ \A j \in Jobs : lock = j <=> thread[j] = "searching"

\* What a client is sent: the jobs one after the other, and nothing of a job
\* after its final message, whatever was superseded, stopped or pre-empted.
InOrder ==
  \A c \in Clients : \A m, n \in DOMAIN log[c] :
    m < n => \/ log[c][m].job < log[c][n].job
             \/ log[c][m].job = log[c][n].job /\ log[c][m].what = "update"

\* "TT persists across positions of this session": the session's Analyzer is
\* never in the hands of two threads.
OneThread ==
  \A c \in Clients : Cardinality({j \in Jobs : owner[j] = c /\ thread[j] \notin {"none", "done"}}) <= 1

\* "the thread ended without a final (should not happen)": when a job's thread
\* has ended, its final message waits for run_job or has been handled.
NeverSilent ==
  \A j \in Jobs : thread[j] = "done" /\ task[j] = "run" => "final" \in ToSet(inbox[j])

\* The records of sessions, tasks, threads and locks agree.
SessionsAgree == TypeOK /\ OneThread /\ NeverSilent

-----------------------------------------------------------------------------
(* Liveness *)

\* A REST call gets its engine although no client ever stops its analysis, if
\* no job registers behind its back.
RestServed == \A r \in Requests : rest[r] = "waiting" ~> (rest[r] = "done" \/ r \in late)

\* Somebody else's analysis without a limit, which nobody has stopped.
Endless(c) == \E j \in Jobs : owner[j] # c /\ thread[j] = "searching" /\ ~stop[j]

\* A client that leaves gives the engine back: its threads end, unless another
\* client's endless analysis keeps them from the lock.
Threads(c) == {j \in Jobs : owner[j] = c /\ thread[j] \notin {"none", "done"}}
LeaversRelease == \A c \in Clients : ~open[c] ~> (Threads(c) = {} \/ Endless(c))

\* "never leave the client without a final message": whoever stays gets the
\* final message of a job that is stopped, be it by the client, by its next
\* request or by a REST call.
FinalSent(j) == \E c \in Clients : owner[j] = c /\ [job |-> j, what |-> "final"] \in ToSet(log[c])
ClientLeft(j) == \E c \in Clients : owner[j] = c /\ ~open[c]
FinalsCome ==
  \A j \in Jobs : j \in Made /\ stop[j] ~> (FinalSent(j) \/ ClientLeft(j) \/ Endless(owner[j]))

\* "A REST engine call must not queue behind an unlimited streaming analysis".
RestNeverQueues == \A r \in Requests : rest[r] = "waiting" ~> rest[r] = "done"
=============================================================================
