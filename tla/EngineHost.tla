----------------------------- MODULE EngineHost -----------------------------
(***************************************************************************)
(* EngineHost: the in-process host of the UCI loop.  Threads of the app    *)
(* call start(), shutdown(), send() and readLine() at any time; the native *)
(* loop of UciCore runs on a thread of its own with std::cin and std::cout *)
(* redirected to the host's buffers.  Both streams are handled alike, so   *)
(* one variable, `stream`, stands for what they point to.                  *)
(***************************************************************************)
EXTENDS UciCore

CONSTANTS
  Callers,   \* threads of the app
  NoCaller,
  MaxCalls   \* bound: calls of start(), shutdown() and send() (TLC only)

ASSUME CallersAssumption == NoCaller \notin Callers /\ MaxCalls \in Nat

VARIABLES
  lifecycle,  \* holder of the mutex `lifecycle`
  call,       \* where each caller is
  sending,    \* the command of each caller inside send()
  thread,     \* "none": not joinable; "alive": in run(); "marked": running is
              \* lowered; "finished": run() has returned, joinable
  running, loopEnded,
  closed,     \* InputBuffer::closed_
  stream,     \* what std::cin / std::cout point to: "process" or "host"
  saved,      \* savedCin / savedCout: "null", "process" or "host"
  calls,      \* calls made so far
  session,    \* sessions started so far (history)
  asked,      \* the last session a shutdown() told to quit (history)
  expired,    \* some shutdown() ran into its timeout (history)
  eos         \* a reader was told "not running, nothing left" (history)

hostVars == <<lifecycle, call, sending, thread, running, loopEnded, closed, stream, saved,
              calls, session, asked, expired, eos>>
vars == <<coreVars, hostVars>>

\* The commands the app sends; quit is left to shutdown().
Sendable == {Plain("stop"), Plain("isready")} \cup {Go(t) : t \in Tasks}
NoCommand == Plain("none")

Places == {"out", "start", "startLocked", "startReset", "startMarked",
           "shutdown", "shutdownLocked", "shutdownWaits", "shutdownJoins", "send"}

TypeOK ==
  /\ CoreTypeOK
  /\ lifecycle \in Callers \cup {NoCaller}
  /\ call \in [Callers -> Places]
  /\ sending \in [Callers -> Sendable \cup {NoCommand}]
  /\ thread \in {"none", "alive", "marked", "finished"}
  /\ {running, loopEnded, closed, expired, eos} \subseteq BOOLEAN
  /\ stream \in {"process", "host"}
  /\ saved \in {"null", "process", "host"}
  /\ calls \in Nat /\ session \in Nat /\ asked \in Nat

Init ==
  /\ CoreInit
  /\ lifecycle = NoCaller
  /\ call = [c \in Callers |-> "out"]
  /\ sending = [c \in Callers |-> NoCommand]
  /\ thread = "none" /\ running = FALSE /\ loopEnded = TRUE /\ closed = FALSE
  /\ stream = "process" /\ saved = "null"
  /\ calls = 0 /\ session = 0 /\ asked = 0
  /\ expired = FALSE /\ eos = FALSE

-----------------------------------------------------------------------------
(* Calls *)

Enter(c, place) ==
  /\ call[c] = "out" /\ calls < MaxCalls
  /\ calls' = calls + 1
  /\ call' = [call EXCEPT ![c] = place]

Step(c, from, to) == call[c] = from /\ call' = [call EXCEPT ![c] = to]

\* The lock_guard at the top of start() and shutdown().
Lock(c, from, to) ==
  /\ Step(c, from, to)
  /\ lifecycle = NoCaller
  /\ lifecycle' = c

Return(c, from) == Step(c, from, "out") /\ lifecycle' = NoCaller

Begins(c) ==
  /\ Enter(c, "start") \/ Enter(c, "shutdown")
  /\ UNCHANGED <<coreVars, lifecycle, sending, thread, running, loopEnded, closed, stream, saved,
                 session, asked, expired, eos>>

Locks(c) ==
  /\ Lock(c, "start", "startLocked") \/ Lock(c, "shutdown", "shutdownLocked")
  /\ UNCHANGED <<coreVars, sending, thread, running, loopEnded, closed, stream, saved, calls,
                 session, asked, expired, eos>>

-----------------------------------------------------------------------------
(* start() *)

StartNoOp(c) ==
  /\ running
  /\ Return(c, "startLocked")
  /\ UNCHANGED <<coreVars, sending, thread, running, loopEnded, closed, stream, saved, calls,
                 session, asked, expired, eos>>

\* An old thread is joined first, however long that takes; then the buffers
\* are reset and the streams redirected, remembering what they were.
StartReset(c) ==
  /\ ~running
  /\ thread \in {"none", "finished"}
  /\ Step(c, "startLocked", "startReset")
  /\ thread' = "none"
  /\ inq' = << >> /\ outq' = << >> /\ closed' = FALSE
  /\ saved' = stream /\ stream' = "host"
  /\ UNCHANGED <<stop, loop, srch, root, opts, lifecycle, sending, running, loopEnded, calls,
                 session, asked, expired, eos>>

StartMark(c) ==
  /\ Step(c, "startReset", "startMarked")
  /\ running' = TRUE /\ loopEnded' = FALSE
  /\ eos' = FALSE
  /\ UNCHANGED <<coreVars, lifecycle, sending, thread, closed, stream, saved, calls, session,
                 asked, expired>>

StartSpawn(c) ==
  /\ Return(c, "startMarked")
  /\ thread' = "alive" /\ loop' = "reading"
  /\ session' = session + 1
  /\ UNCHANGED <<inq, outq, stop, srch, root, opts, sending, running, loopEnded, closed, stream,
                 saved, calls, asked, expired, eos>>

\* The thread cannot be created: everything is put back.
StartFails(c) ==
  /\ Return(c, "startMarked")
  /\ stream' = saved
  /\ running' = FALSE /\ loopEnded' = TRUE
  /\ UNCHANGED <<coreVars, sending, thread, closed, saved, calls, session, asked, expired, eos>>

-----------------------------------------------------------------------------
(* shutdown() *)

ShutdownNoThread(c) ==
  /\ thread = "none"
  /\ Return(c, "shutdownLocked")
  /\ running' = FALSE
  /\ UNCHANGED <<coreVars, sending, thread, loopEnded, closed, stream, saved, calls, session,
                 asked, expired, eos>>

\* Wrong on purpose: quit is queued, Threads.stop is not raised.
ShutdownQueuesOnly(c) ==
  /\ thread # "none"
  /\ Step(c, "shutdownLocked", "shutdownWaits")
  /\ IF running
       THEN inq' = Append(inq, Plain("quit")) /\ closed' = TRUE /\ asked' = session
       ELSE UNCHANGED <<inq, closed, asked>>
  /\ UNCHANGED <<outq, stop, loop, srch, root, opts, lifecycle, sending, thread, running,
                 loopEnded, stream, saved, calls, session, expired, eos>>

ShutdownAsks(c) ==
  /\ thread # "none"
  /\ Step(c, "shutdownLocked", "shutdownWaits")
  /\ IF running
       THEN /\ stop' = TRUE
            /\ inq' = Append(inq, Plain("quit"))
            /\ closed' = TRUE
            /\ asked' = session
       ELSE UNCHANGED <<stop, inq, closed, asked>>
  /\ UNCHANGED <<outq, loop, srch, root, opts, lifecycle, sending, thread, running, loopEnded,
                 stream, saved, calls, session, expired, eos>>

\* Wrong on purpose: the streams are restored although the thread goes on.
ShutdownExpiresRestoring(c) ==
  /\ ~loopEnded
  /\ Return(c, "shutdownWaits")
  /\ running' = FALSE
  /\ expired' = TRUE
  /\ stream' = saved /\ saved' = "null"
  /\ UNCHANGED <<coreVars, sending, thread, loopEnded, closed, calls, session, asked, eos>>

\* The deadline passes before the loop has ended: the thread keeps running and
\* the streams stay redirected.
ShutdownExpires(c) ==
  /\ ~loopEnded
  /\ Return(c, "shutdownWaits")
  /\ running' = FALSE
  /\ expired' = TRUE
  /\ UNCHANGED <<coreVars, sending, thread, loopEnded, closed, stream, saved, calls, session,
                 asked, eos>>

ShutdownSeesEnd(c) ==
  /\ loopEnded
  /\ Step(c, "shutdownWaits", "shutdownJoins")
  /\ UNCHANGED <<coreVars, lifecycle, sending, thread, running, loopEnded, closed, stream, saved,
                 calls, session, asked, expired, eos>>

ShutdownJoins(c) ==
  /\ thread = "finished"
  /\ Return(c, "shutdownJoins")
  /\ thread' = "none"
  /\ stream' = IF saved = "null" THEN stream ELSE saved
  /\ saved' = "null"
  /\ running' = FALSE
  /\ UNCHANGED <<coreVars, sending, loopEnded, closed, calls, session, asked, expired, eos>>

-----------------------------------------------------------------------------
(* send() and readLine() *)

\* send() looks at `running` first ...
SendCheck(c) ==
  /\ running
  /\ Enter(c, "send")
  /\ \E cmd \in Sendable : sending' = [sending EXCEPT ![c] = cmd]
  /\ UNCHANGED <<coreVars, lifecycle, thread, running, loopEnded, closed, stream, saved, session,
                 asked, expired, eos>>

\* ... and pushes to whatever session there is by then.
SendPush(c) ==
  /\ Step(c, "send", "out")
  /\ inq' = Append(inq, sending[c])
  /\ stop' = (stop \/ sending[c] = Plain("stop"))
  /\ sending' = [sending EXCEPT ![c] = NoCommand]
  /\ UNCHANGED <<outq, loop, srch, root, opts, lifecycle, thread, running, loopEnded, closed,
                 stream, saved, calls, session, asked, expired, eos>>

\* readLine() returns a line, or -1; 0 changes nothing.
ReadLine ==
  /\ outq # << >>
  /\ outq' = Tail(outq)
  /\ UNCHANGED <<inq, stop, loop, srch, root, opts, hostVars>>

ReadEnd ==
  /\ outq = << >> /\ ~running
  /\ eos' = TRUE
  /\ UNCHANGED <<coreVars, lifecycle, call, sending, thread, running, loopEnded, closed, stream,
                 saved, calls, session, asked, expired>>

-----------------------------------------------------------------------------
(* The engine thread: run() *)

Loop ==
  /\ thread = "alive"
  /\ LoopThread \/ SearchThread
  /\ UNCHANGED hostVars

\* getline() fails at the end of a closed, empty buffer, which counts as a quit
\* command, like the one that LoopThread reads.
LoopQuits ==
  /\ thread = "alive" /\ loop = "reading"
  /\ IF inq = << >> THEN closed ELSE Head(inq).cmd = "quit"
  /\ inq' = IF inq = << >> THEN inq ELSE Tail(inq)
  /\ stop' = TRUE
  /\ loop' = "quitting"
  /\ UNCHANGED <<outq, srch, root, opts, hostVars>>

RunEnds ==
  /\ thread = "alive"
  /\ LoopEnds
  /\ UNCHANGED hostVars

\* Wrong on purpose: running is lowered before the search thread is gone.
RunMarksEarly ==
  /\ thread = "alive"
  /\ loop \in {"quitting", "ended"}
  /\ IF loop = "ended" THEN thread' = "marked" ELSE UNCHANGED thread
  /\ running' = FALSE
  /\ UNCHANGED <<coreVars, lifecycle, call, sending, loopEnded, closed, stream, saved, calls,
                 session, asked, expired, eos>>

RunMarks ==
  /\ thread = "alive" /\ loop = "ended"
  /\ thread' = "marked"
  /\ running' = FALSE
  /\ UNCHANGED <<coreVars, lifecycle, call, sending, loopEnded, closed, stream, saved, calls,
                 session, asked, expired, eos>>

RunFinishes ==
  /\ thread = "marked"
  /\ thread' = "finished"
  /\ loopEnded' = TRUE
  /\ UNCHANGED <<coreVars, lifecycle, call, sending, running, closed, stream, saved, calls,
                 session, asked, expired, eos>>

-----------------------------------------------------------------------------
CallerSteps(c) ==
  \/ Locks(c)
  \/ StartNoOp(c) \/ StartReset(c) \/ StartMark(c) \/ StartSpawn(c) \/ StartFails(c)
  \/ ShutdownNoThread(c) \/ ShutdownAsks(c) \/ ShutdownExpires(c)
  \/ ShutdownSeesEnd(c) \/ ShutdownJoins(c)
  \/ SendPush(c)

EngineSteps == Loop \/ LoopQuits \/ RunEnds \/ RunMarks \/ RunFinishes

Next ==
  \/ EngineSteps
  \/ ReadLine \/ ReadEnd
  \/ \E c \in Callers : Begins(c) \/ SendCheck(c) \/ CallerSteps(c)

Spec == Init /\ [][Next]_vars

\* A thread inside a call goes on, and so do the loop and the search thread;
\* nobody has to call anything or to read.
Fairness ==
  /\ \A c \in Callers : WF_vars(CallerSteps(c))
  /\ WF_vars(thread = "alive" /\ LoopThread /\ UNCHANGED hostVars)
  /\ WF_vars(thread = "alive" /\ SearchThread /\ UNCHANGED hostVars)
  /\ WF_vars(LoopQuits) /\ WF_vars(RunEnds) /\ WF_vars(RunMarks) /\ WF_vars(RunFinishes)

FairSpec == Spec /\ Fairness

-----------------------------------------------------------------------------
(* Properties *)

\* Whenever nobody is inside start() or shutdown(), a host marked running has
\* an engine thread and a session that no shutdown() has told to quit.
RunningMeansServed ==
  (running /\ lifecycle = NoCaller) => thread = "alive" /\ asked < session

\* While the engine thread lives, std::cin and std::cout are the host's
\* buffers, also after a shutdown() that timed out: the loop never reads the
\* app's own input nor prints to its output.
LoopOwnsStreams == thread \in {"alive", "marked"} => stream = "host"

\* As long as every shutdown() saw its thread end, an idle host has given the
\* app its streams back and has no thread left.
IdleHostIsClean ==
  (lifecycle = NoCaller /\ ~running /\ ~expired) => thread = "none" /\ stream = "process"

\* A session ends only because it was told to: nothing left over from an
\* earlier session (a closed buffer, a queued quit) ends it.
EndsOnlyWhenAsked ==
  (thread = "alive" /\ loop # "reading") => asked = session

\* A reader that was told "-1: engine not running and no buffered output is
\* left" has all the output of the session.
NothingAfterEnd == (eos /\ ~expired) => outq = << >>

\* An ended engine thread leaves no search thread behind.
NoSearchWithoutThread == thread # "alive" => SearchFinished

\* The host's own records agree with its thread, its streams and the engine.
HostAgrees ==
  TypeOK /\ RunningMeansServed /\ LoopOwnsStreams /\ IdleHostIsClean /\ NoSearchWithoutThread

\* A session ends when it is told to, not before, and the reader hears of the end
\* after everything else.
SessionsEndOnce == EndsOnlyWhenAsked /\ NothingAfterEnd

\* Premise of the liveness property: the app never queues a second go behind
\* one that waits (FairyEngine!OneSearch).  Otherwise quit waits behind two
\* searches and the stop flag it raises ends only the first.
OneGoWaits == \A i, j \in DOMAIN inq : inq[i].cmd = "go" /\ inq[j].cmd = "go" => i = j

\* Every call returns; in particular start(), which joins the old thread while
\* it holds the lifecycle lock, cannot wait forever: a session told to quit
\* ends, even when a search without limits runs and the next go waits behind it.
CallsReturn ==
  []OneGoWaits => \A c \in Callers : (call[c] # "out") ~> (call[c] = "out")
=============================================================================
