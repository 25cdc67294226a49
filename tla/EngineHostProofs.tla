-------------------------- MODULE EngineHostProofs --------------------------
(*****************************************************************************)
(* The records of the engine host agree with its thread and its streams      *)
(* (HostAgrees), and a session ends only when it is told to                  *)
(* (SessionsEndOnce), for any number of callers and calls.                   *)
(*****************************************************************************)
EXTENDS EngineHost, TLAPS

-----------------------------------------------------------------------------
(* Facts about sequences and commands, and what a step of the loop thread or *)
(* of the search thread does to the state of UciCore                         *)

\* What Append does to a sequence, index by index.
LEMMA AppendFacts ==
  ASSUME NEW S, NEW s \in Seq(S), NEW e \in S
  PROVE  /\ Append(s, e) \in Seq(S)
         /\ DOMAIN Append(s, e) = 1 .. Len(s) + 1
         /\ \A i \in DOMAIN s : Append(s, e)[i] = s[i]
         /\ Append(s, e)[Len(s) + 1] = e
  OBVIOUS

\* What Head and Tail do to a non-empty sequence, index by index.
LEMMA TailFacts ==
  ASSUME NEW S, NEW s \in Seq(S), s # << >>
  PROVE  /\ Tail(s) \in Seq(S)
         /\ Head(s) \in S
         /\ Head(s) = s[1]
         /\ 1 \in DOMAIN s
         /\ DOMAIN Tail(s) = 1 .. Len(s) - 1
         /\ \A i \in DOMAIN Tail(s) : i + 1 \in DOMAIN s /\ Tail(s)[i] = s[i + 1]
  OBVIOUS

\* The commands and lines that the actions build are commands and lines.
LEMMA CommandFacts ==
  /\ \A c \in {"uci", "isready", "stop", "quit", "ucinewgame"} : Plain(c) \in Commands
  /\ \A t \in Tasks : Go(t) \in Commands /\ PositionOf(t) \in Commands
  /\ \A o \in Options, v \in Values : SetOption(o, v) \in Commands
  /\ \A t \in Tasks : Info(t) \in Lines /\ BestMove(t) \in Lines
  /\ UciOk \in Lines /\ ReadyOk \in Lines
  BY DEF Commands, Lines

\* The fields of a command have the types the loop relies on.
LEMMA CommandFields ==
  ASSUME NEW c \in Commands
  PROVE  /\ c.cmd \in {"go", "position"} => c.id \in Tasks
         /\ c.cmd = "setoption" => c.name \in Options /\ c.value \in Values
  BY DEF Commands, Plain, Go, PositionOf, SetOption

\* A parked search thread is a search thread.
LEMMA ParkedType == Parked \in SearchThreads
  BY OptionsAssumption DEF Parked, SearchThreads

-----------------------------------------------------------------------------
\* The engine is well typed before its first session.
LEMMA CoreInitType == CoreInit => CoreTypeOK
<1> SUFFICES ASSUME CoreInit PROVE CoreTypeOK
  OBVIOUS
<1>1. srch \in SearchThreads /\ srch.phase # "thinking"
  BY ParkedType DEF CoreInit, Parked
<1>2. opts \in [Options -> Values]
  BY OptionsAssumption DEF CoreInit
<1>3. root \in [of : Tasks \cup {NoTask}, variant : Values]
  BY OptionsAssumption DEF CoreInit
<1>4. inq \in Seq(Commands) /\ outq \in Seq(Lines)
  BY DEF CoreInit
<1>5. stop \in BOOLEAN /\ loop \in {"reading", "quitting", "ended"}
  BY DEF CoreInit
<1> QED BY <1>1, <1>2, <1>3, <1>4, <1>5 DEF CoreTypeOK

\* The loop thread keeps the state of the engine in its type.
LEMMA LoopCoreType == ASSUME CoreTypeOK, LoopThread PROVE CoreTypeOK'
<1> USE CommandFacts, OptionsAssumption DEF CoreTypeOK
<1>1. inq # << >> /\ inq' = Tail(inq)
  BY DEF LoopThread, LoopStop, LoopQuit, LoopUci, LoopIsReady, LoopSetOption, LoopPosition, LoopNewGame, LoopGo, Reads
<1>2. inq' \in Seq(Commands) /\ Head(inq) \in Commands
  BY <1>1, TailFacts
<1>a. CASE LoopStop BY <1>2, <1>a DEF LoopStop, Reads
<1>b. CASE LoopQuit BY <1>2, <1>b DEF LoopQuit, Reads
<1>c. CASE LoopUci
  <2>1. outq' \in Seq(Lines)
    BY <1>c DEF LoopUci, Emit
  <2> QED BY <1>2, <2>1, <1>c DEF LoopUci
<1>d. CASE LoopIsReady
  <2>1. outq' \in Seq(Lines)
    BY <1>d DEF LoopIsReady, Emit
  <2> QED BY <1>2, <2>1, <1>d DEF LoopIsReady
<1>e. CASE LoopSetOption BY <1>2, <1>e, CommandFields DEF LoopSetOption, Reads
<1>f. CASE LoopPosition BY <1>2, <1>f, CommandFields DEF LoopPosition, Reads
<1>g. CASE LoopNewGame BY <1>2, <1>g DEF LoopNewGame, Reads
<1>h. CASE LoopGo BY <1>2, <1>h, CommandFields DEF LoopGo, Reads, SearchThreads
<1> QED BY <1>a, <1>b, <1>c, <1>d, <1>e, <1>f, <1>g, <1>h DEF LoopThread

\* The search thread keeps the state of the engine in its type.
LEMMA SearchCoreType == ASSUME CoreTypeOK, SearchThread PROVE CoreTypeOK'
<1> USE CommandFacts, OptionsAssumption DEF CoreTypeOK
<1>a. CASE SearchInfo
  <2>1. srch' \in SearchThreads
    <3>1. srch.infos + 1 \in Nat
      BY DEF SearchThreads
    <3> QED BY <3>1, <1>a DEF SearchInfo, SearchThreads
  <2>2. outq' \in Seq(Lines)
    BY <1>a, AppendFacts DEF SearchInfo, Emit
  <2> QED BY <1>a, <2>1, <2>2 DEF SearchInfo
<1>b. CASE SearchBestMove
  <2>1. srch' \in SearchThreads
    BY <1>b DEF SearchBestMove, SearchThreads
  <2>2. outq' \in Seq(Lines)
    BY <1>b, AppendFacts DEF SearchBestMove, Emit
  <2> QED BY <1>b, <2>1, <2>2 DEF SearchBestMove
<1>c. CASE SearchParks BY <1>c, ParkedType DEF SearchParks, Parked
<1> QED BY <1>a, <1>b, <1>c DEF SearchThread

\* The loop reads one command per step while it is reading, and goes on
\* reading unless that command is quit.
LEMMA LoopThreadReads ==
  ASSUME LoopThread
  PROVE  /\ loop = "reading" /\ inq # << >> /\ inq' = Tail(inq)
         /\ IF Head(inq).cmd = "quit" THEN loop' = "quitting" ELSE loop' = "reading"
  BY DEF LoopThread, LoopStop, LoopQuit, LoopUci, LoopIsReady, LoopSetOption, LoopPosition,
         LoopNewGame, LoopGo, Reads

\* The search thread moves only during a search, and leaves the input and the
\* loop alone.
LEMMA SearchThreadMoves ==
  ASSUME SearchThread
  PROVE  ~SearchFinished /\ inq' = inq /\ loop' = loop
  BY DEF SearchThread, SearchInfo, SearchBestMove, SearchParks, SearchFinished

-----------------------------------------------------------------------------
(* The inductive invariant *)

\* The places of start() and shutdown() behind their lock_guard.
Locked == {"startLocked", "startReset", "startMarked",
           "shutdownLocked", "shutdownWaits", "shutdownJoins"}

\* Where the holder of `lifecycle` is.
holder == IF lifecycle \in Callers THEN call[lifecycle] ELSE "out"

Resetting == holder \in {"startReset", "startMarked"}
Stopping  == holder \in {"shutdownWaits", "shutdownJoins"}

\* Exactly the holder of the mutex is behind the lock_guard.
LockHeld == \A c \in Callers : call[c] \in Locked <=> lifecycle = c

\* What the holder has found out about the thread is still true.
HolderKnows ==
  /\ Resetting => thread = "none"
  /\ holder = "startReset" => ~running
  /\ holder = "startMarked" => running /\ ~loopEnded
  /\ holder = "shutdownWaits" => thread # "none"
  /\ holder = "shutdownJoins" => thread = "finished"

\* The flags follow the thread: `running` is lowered early only by a
\* shutdown() that timed out.
FlagsFit ==
  /\ thread \in {"alive", "marked"} => ~loopEnded
  /\ running => thread = "alive" \/ holder = "startMarked"
  /\ thread = "alive" /\ ~running => expired

\* A session is over only after it was told to quit, and until then nothing
\* that ends it is in its buffer.
NoQuit == \A i \in DOMAIN inq : inq[i].cmd # "quit"

EndIsAsked ==
  /\ asked <= session
  /\ running /\ asked = session => holder \in {"startMarked", "shutdownWaits"}
  /\ thread \in {"marked", "finished"} => asked = session
  /\ thread # "none" /\ asked = session /\ ~expired => Stopping
  /\ thread = "alive" /\ asked # session => loop = "reading" /\ ~closed /\ NoQuit
  /\ Resetting => ~closed /\ NoQuit

\* The streams are the host's from the reset to the join, and what they were
\* before is remembered.
StreamsFit ==
  /\ thread \in {"alive", "marked"} \/ Resetting => stream = "host"
  /\ Resetting => saved # "null"
  /\ ~expired => IF thread # "none" \/ Resetting THEN saved = "process" ELSE stream = "process"

\* The search thread is gone before run() goes on.
SearchGone == thread # "alive" \/ loop = "ended" => SearchFinished

\* Nothing is printed after the reader was told the end.
EndIsFinal == eos /\ ~expired => outq = << >> /\ ~running

\* A caller inside send() has a command to push.
SendHolds == \A c \in Callers : call[c] = "send" => sending[c] \in Sendable

RecordsFit ==
  LockHeld /\ HolderKnows /\ FlagsFit /\ EndIsAsked /\ StreamsFit /\ SearchGone /\ EndIsFinal

IInv == TypeOK /\ SendHolds /\ RecordsFit

-----------------------------------------------------------------------------
(* The mutex *)

\* Nobody is behind the lock_guard but the holder.
LEMMA HolderPlace ==
  ASSUME TypeOK, LockHeld
  PROVE  /\ holder \in Locked \cup {"out"}
         /\ \A c \in Callers : call[c] \in Locked => holder = call[c]
         /\ lifecycle = NoCaller <=> holder = "out"
  BY CallersAssumption DEF TypeOK, LockHeld, holder, Locked

\* A lock_guard hands the free mutex to one caller.
LEMMA HolderLocks ==
  ASSUME TypeOK, LockHeld, NEW c \in Callers, NEW from, NEW to \in Locked, Lock(c, from, to)
  PROVE  LockHeld' /\ holder = "out" /\ holder' = to
  BY CallersAssumption DEF TypeOK, LockHeld, Lock, Step, holder

\* The holder goes on inside the lock.
LEMMA HolderSteps ==
  ASSUME TypeOK, LockHeld, NEW c \in Callers, NEW from \in Locked, NEW to \in Locked,
         Step(c, from, to), lifecycle' = lifecycle
  PROVE  LockHeld' /\ holder = from /\ holder' = to
  BY CallersAssumption DEF TypeOK, LockHeld, Step, holder

\* The holder returns and frees the mutex.
LEMMA HolderReturns ==
  ASSUME TypeOK, LockHeld, NEW c \in Callers, NEW from \in Locked, Return(c, from)
  PROVE  LockHeld' /\ holder = from /\ holder' = "out"
  BY CallersAssumption DEF TypeOK, LockHeld, Return, Step, holder, Locked

\* A caller that is not behind the lock_guard moves without the holder noticing.
LEMMA OthersMove ==
  ASSUME TypeOK, LockHeld, NEW c \in Callers, call[c] \notin Locked, NEW to, to \notin Locked,
         call' = [call EXCEPT ![c] = to], lifecycle' = lifecycle
  PROVE  LockHeld' /\ holder' = holder
  BY CallersAssumption DEF TypeOK, LockHeld, holder

\* So does the engine thread.
LEMMA NobodyMoves ==
  ASSUME LockHeld, UNCHANGED <<lifecycle, call>>
  PROVE  LockHeld' /\ holder' = holder
  BY DEF LockHeld, holder

-----------------------------------------------------------------------------
(* The input buffer *)

\* The commands that the app sends are commands, and quit is not among them.
LEMMA SendableFacts ==
  /\ Sendable \subseteq Commands
  /\ \A cmd \in Sendable \cup {NoCommand} : cmd.cmd # "quit"
  BY CommandFacts DEF Sendable, NoCommand, Plain, Go

\* Sending something else leaves no quit in the buffer.
LEMMA NoQuitPush ==
  ASSUME inq \in Seq(Commands), NEW cmd \in Commands, cmd.cmd # "quit", NoQuit,
         inq' = Append(inq, cmd)
  PROVE  NoQuit'
  BY AppendFacts DEF NoQuit

\* Neither does reading a command.
LEMMA NoQuitPop ==
  ASSUME inq \in Seq(Commands), inq # << >>, NoQuit, inq' = Tail(inq)
  PROVE  NoQuit' /\ Head(inq).cmd # "quit"
  BY TailFacts DEF NoQuit

\* Nothing changes for a buffer that is left alone, and an empty one has no quit.
LEMMA NoQuitSame == (NoQuit /\ inq' = inq) \/ inq' = << >> => NoQuit'
  BY DEF NoQuit

-----------------------------------------------------------------------------
(* The initial state *)

LEMMA InitInv == Init => IInv
<1> SUFFICES ASSUME Init PROVE IInv
  OBVIOUS
<1>1. TypeOK
  <2>1. CoreTypeOK
    BY CoreInitType DEF Init
  <2>2. call \in [Callers -> Places] /\ sending \in [Callers -> Sendable \cup {NoCommand}]
    BY DEF Init, Places
  <2> QED BY <2>1, <2>2 DEF Init, TypeOK
<1>2. LockHeld /\ holder = "out"
  BY CallersAssumption DEF Init, LockHeld, Locked, holder
<1>3. SearchFinished /\ inq = << >> /\ outq = << >>
  BY DEF Init, CoreInit, SearchFinished, Parked
<1>4. SendHolds
  BY DEF Init, SendHolds
<1> QED
  BY <1>1, <1>2, <1>3, <1>4
  DEF Init, IInv, RecordsFit, HolderKnows, FlagsFit, EndIsAsked, StreamsFit, SearchGone, EndIsFinal,
      Resetting, Stopping

-----------------------------------------------------------------------------
(* Every step keeps the invariant: one lemma per group of actions *)

\* Entering a call, and taking the mutex.
LEMMA EnterInv == ASSUME IInv, NEW c \in Callers, Begins(c) \/ Locks(c) PROVE TypeOK' /\ RecordsFit'
<1> USE DEF IInv, RecordsFit
<1>1. TypeOK'
  <2>1. CASE Begins(c)
    BY <2>1 DEF Begins, Enter, TypeOK, Places, CoreTypeOK, coreVars
  <2>2. CASE Locks(c)
    BY <2>2, SMTT(30) DEF Locks, Lock, Step, TypeOK, Places, CoreTypeOK, coreVars
  <2> QED BY <2>1, <2>2
<1>2. CASE Begins(c)
  <2>1. LockHeld' /\ holder' = holder
    <3>1. call[c] = "out" /\ lifecycle' = lifecycle
      BY <1>2 DEF Begins, Enter
    <3>2. \E to \in {"start", "shutdown"} : call' = [call EXCEPT ![c] = to]
      BY <1>2 DEF Begins, Enter
    <3> QED BY <3>1, <3>2, OthersMove DEF Locked
  <2> QED
    BY <1>1, <1>2, <2>1, NoQuitSame
    DEF Begins, coreVars, HolderKnows, FlagsFit, EndIsAsked, StreamsFit, SearchGone,
        SearchFinished, EndIsFinal, Resetting, Stopping
<1>3. CASE Locks(c)
  <2>1. LockHeld' /\ holder = "out" /\ holder' \in {"startLocked", "shutdownLocked"}
    BY <1>3, HolderLocks DEF Locks, Locked
  <2> QED
    BY <1>1, <1>3, <2>1, NoQuitSame
    DEF Locks, coreVars, HolderKnows, FlagsFit, EndIsAsked, StreamsFit, SearchGone,
        SearchFinished, EndIsFinal, Resetting, Stopping
<1> QED BY <1>2, <1>3

\* start().
LEMMA StartInv ==
  ASSUME IInv, NEW c \in Callers,
         StartNoOp(c) \/ StartReset(c) \/ StartMark(c) \/ StartSpawn(c) \/ StartFails(c)
  PROVE  TypeOK' /\ RecordsFit'
<1> USE DEF IInv, RecordsFit, HolderKnows, FlagsFit, EndIsAsked, StreamsFit, SearchGone, SearchFinished,
            EndIsFinal, Resetting, Stopping
<1>1. CASE StartNoOp(c)
  <2>1. LockHeld' /\ holder = "startLocked" /\ holder' = "out"
    BY <1>1, HolderReturns DEF StartNoOp, Locked
  <2>2. TypeOK'
    BY <1>1 DEF StartNoOp, Return, Step, TypeOK, Places, CoreTypeOK, coreVars
  <2> QED BY <1>1, <2>1, <2>2, NoQuitSame DEF StartNoOp, coreVars
<1>2. CASE StartReset(c)
  <2>1. LockHeld' /\ holder = "startLocked" /\ holder' = "startReset"
    BY <1>2, HolderSteps DEF StartReset, Locked
  <2>2. TypeOK'
    <3>1. inq' \in Seq(Commands) /\ outq' \in Seq(Lines)
      BY <1>2 DEF StartReset
    <3> QED BY <1>2, <3>1 DEF StartReset, Step, TypeOK, Places, CoreTypeOK
  <2> QED BY <1>2, <2>1, <2>2, NoQuitSame DEF StartReset, TypeOK
<1>3. CASE StartMark(c)
  <2>1. LockHeld' /\ holder = "startReset" /\ holder' = "startMarked"
    BY <1>3, HolderSteps DEF StartMark, Locked
  <2>2. TypeOK'
    BY <1>3, ZenonT(30) DEF StartMark, Step, TypeOK, Places, CoreTypeOK, coreVars
  <2> QED BY <1>3, <2>1, <2>2, NoQuitSame DEF StartMark, coreVars
<1>4. CASE StartSpawn(c)
  <2>1. LockHeld' /\ holder = "startMarked" /\ holder' = "out"
    BY <1>4, HolderReturns DEF StartSpawn, Locked
  <2>2. TypeOK'
    BY <1>4 DEF StartSpawn, Return, Step, TypeOK, Places, CoreTypeOK
  <2>3. asked' <= session' /\ asked' # session'
    BY <1>4 DEF StartSpawn, TypeOK
  <2> QED BY <1>4, <2>1, <2>2, <2>3, NoQuitSame DEF StartSpawn
<1>5. CASE StartFails(c)
  <2>1. LockHeld' /\ holder = "startMarked" /\ holder' = "out"
    BY <1>5, HolderReturns DEF StartFails, Locked
  <2>2. TypeOK'
    BY <1>5, <2>1 DEF StartFails, Return, Step, TypeOK, Places, CoreTypeOK, coreVars
  <2> QED BY <1>5, <2>1, <2>2, NoQuitSame DEF StartFails, coreVars
<1> QED BY <1>1, <1>2, <1>3, <1>4, <1>5

\* shutdown().
LEMMA ShutdownInv ==
  ASSUME IInv, NEW c \in Callers,
         \/ ShutdownNoThread(c) \/ ShutdownAsks(c) \/ ShutdownExpires(c)
         \/ ShutdownSeesEnd(c) \/ ShutdownJoins(c)
  PROVE  TypeOK' /\ RecordsFit'
<1> USE DEF IInv, RecordsFit, HolderKnows, FlagsFit, EndIsAsked, StreamsFit, SearchGone, SearchFinished,
            EndIsFinal, Resetting, Stopping
<1>1. CASE ShutdownNoThread(c)
  <2>1. LockHeld' /\ holder = "shutdownLocked" /\ holder' = "out"
    BY <1>1, HolderReturns DEF ShutdownNoThread, Locked
  <2>2. TypeOK'
    BY <1>1 DEF ShutdownNoThread, Return, Step, TypeOK, Places, CoreTypeOK, coreVars
  <2> QED BY <1>1, <2>1, <2>2, NoQuitSame DEF ShutdownNoThread, coreVars
<1>2. CASE ShutdownAsks(c)
  <2>1. LockHeld' /\ holder = "shutdownLocked" /\ holder' = "shutdownWaits"
    BY <1>2, HolderSteps DEF ShutdownAsks, Locked
  <2>2. TypeOK'
    <3>1. inq \in Seq(Commands) /\ Append(inq, Plain("quit")) \in Seq(Commands)
      BY CommandFacts, AppendFacts DEF TypeOK, CoreTypeOK
    <3> QED BY <1>2, <3>1, ZenonT(30) DEF ShutdownAsks, Step, TypeOK, Places, CoreTypeOK
  <2>3. CASE running
    BY <1>2, <2>1, <2>2, <2>3 DEF ShutdownAsks, TypeOK
  <2>4. CASE ~running
    BY <1>2, <2>1, <2>2, <2>4, NoQuitSame DEF ShutdownAsks
  <2> QED BY <2>3, <2>4
<1>3. CASE ShutdownExpires(c)
  <2>1. LockHeld' /\ holder = "shutdownWaits" /\ holder' = "out"
    BY <1>3, HolderReturns DEF ShutdownExpires, Locked
  <2>2. TypeOK'
    BY <1>3 DEF ShutdownExpires, Return, Step, TypeOK, Places, CoreTypeOK, coreVars
  <2> QED BY <1>3, <2>1, <2>2, NoQuitSame DEF ShutdownExpires, coreVars
<1>4. CASE ShutdownSeesEnd(c)
  <2>1. LockHeld' /\ holder = "shutdownWaits" /\ holder' = "shutdownJoins"
    BY <1>4, HolderSteps DEF ShutdownSeesEnd, Locked
  <2>2. TypeOK'
    BY <1>4 DEF ShutdownSeesEnd, Step, TypeOK, Places, CoreTypeOK, coreVars
  <2> QED BY <1>4, <2>1, <2>2, NoQuitSame DEF ShutdownSeesEnd, coreVars, TypeOK
<1>5. CASE ShutdownJoins(c)
  <2>1. LockHeld' /\ holder = "shutdownJoins" /\ holder' = "out"
    BY <1>5, HolderReturns DEF ShutdownJoins, Locked
  <2>2. TypeOK'
    BY <1>5 DEF ShutdownJoins, Return, Step, TypeOK, Places, CoreTypeOK, coreVars
  <2> QED BY <1>5, <2>1, <2>2, NoQuitSame DEF ShutdownJoins, coreVars
<1> QED BY <1>1, <1>2, <1>3, <1>4, <1>5

\* send(): a command that was checked against one session may reach the next,
\* but it is never quit.
LEMMA SendInv == ASSUME IInv, NEW c \in Callers, SendCheck(c) \/ SendPush(c) PROVE TypeOK' /\ RecordsFit'
<1> USE DEF IInv, RecordsFit, HolderKnows, FlagsFit, EndIsAsked, StreamsFit, SearchGone, SearchFinished,
            EndIsFinal, Resetting, Stopping
<1>1. CASE SendCheck(c)
  <2>1. LockHeld' /\ holder' = holder
    BY <1>1, OthersMove DEF SendCheck, Enter, Locked
  <2>2. TypeOK'
    BY <1>1 DEF SendCheck, Enter, TypeOK, Places, CoreTypeOK, coreVars
  <2> QED BY <1>1, <2>1, <2>2, NoQuitSame DEF SendCheck, coreVars
<1>2. CASE SendPush(c)
  <2>1. LockHeld' /\ holder' = holder
    BY <1>2, OthersMove DEF SendPush, Step, Locked
  <2>2. sending[c] \in Commands /\ sending[c].cmd # "quit"
    BY <1>2, SendableFacts DEF SendPush, Step, SendHolds
  <2>3. inq \in Seq(Commands) /\ Append(inq, sending[c]) \in Seq(Commands)
    BY <2>2, AppendFacts DEF TypeOK, CoreTypeOK
  <2>4. TypeOK'
    <3>1. sending' \in [Callers -> Sendable \cup {NoCommand}]
      BY <1>2 DEF SendPush, TypeOK
    <3>2. stop' \in BOOLEAN
      BY <1>2 DEF SendPush, TypeOK, CoreTypeOK
    <3> QED BY <1>2, <2>3, <3>1, <3>2 DEF SendPush, Step, TypeOK, Places, CoreTypeOK
  <2>5. NoQuit => NoQuit'
    BY <1>2, <2>2, <2>3, NoQuitPush DEF SendPush
  <2> QED BY <1>2, <2>1, <2>4, <2>5 DEF SendPush
<1> QED BY <1>1, <1>2

\* readLine().
LEMMA ReadInv == ASSUME IInv, ReadLine \/ ReadEnd PROVE TypeOK' /\ RecordsFit'
<1> USE DEF IInv, RecordsFit, HolderKnows, FlagsFit, EndIsAsked, StreamsFit, SearchGone,
            SearchFinished, EndIsFinal, Resetting, Stopping
<1>1. LockHeld' /\ holder' = holder
  BY NobodyMoves DEF ReadLine, ReadEnd, hostVars
<1>2. CASE ReadLine
  <2>1. outq' \in Seq(Lines)
    BY <1>2, TailFacts DEF ReadLine, TypeOK, CoreTypeOK
  <2>2. TypeOK'
    BY <1>2, <2>1 DEF ReadLine, hostVars, TypeOK, CoreTypeOK
  <2> QED BY <1>1, <1>2, <2>2, NoQuitSame DEF ReadLine, hostVars
<1>3. CASE ReadEnd
  <2>1. TypeOK'
    BY <1>3 DEF ReadEnd, coreVars, TypeOK, CoreTypeOK
  <2> QED BY <1>1, <1>3, <2>1, NoQuitSame DEF ReadEnd, coreVars
<1> QED BY <1>2, <1>3

\* The engine thread: the loop and the search thread move only while the host
\* is marked running or a shutdown() has timed out, so nothing is printed
\* after the reader was told the end.
LEMMA EngineInv == ASSUME IInv, EngineSteps PROVE TypeOK' /\ RecordsFit'
<1> USE DEF IInv, RecordsFit, HolderKnows, FlagsFit, EndIsAsked, StreamsFit, SearchGone,
            EndIsFinal, Resetting, Stopping
<1>1. LockHeld' /\ holder' = holder
  BY NobodyMoves DEF EngineSteps, Loop, LoopQuits, RunEnds, RunMarks, RunFinishes, hostVars
<1>2. inq \in Seq(Commands)
  BY DEF TypeOK, CoreTypeOK
<1>3. CASE Loop /\ LoopThread
  <2>1. TypeOK'
    BY <1>3, LoopCoreType DEF Loop, hostVars, TypeOK
  <2>2. NoQuit => NoQuit' /\ loop' = "reading"
    BY <1>2, <1>3, NoQuitPop, LoopThreadReads
  <2>3. loop' # "ended"
    BY <1>3, LoopThreadReads
  <2> QED BY <1>1, <1>3, <2>1, <2>2, <2>3 DEF Loop, hostVars
<1>4. CASE Loop /\ SearchThread
  <2>1. TypeOK'
    BY <1>4, SearchCoreType DEF Loop, hostVars, TypeOK
  <2> QED BY <1>1, <1>4, <2>1, SearchThreadMoves, NoQuitSame DEF Loop, hostVars
<1>5. CASE LoopQuits
  <2>1. TypeOK'
    <3>1. inq' \in Seq(Commands)
      BY <1>2, <1>5, TailFacts DEF LoopQuits
    <3> QED BY <1>5, <3>1 DEF LoopQuits, hostVars, TypeOK, CoreTypeOK
  <2>2. closed \/ ~NoQuit
    BY <1>2, <1>5, NoQuitPop DEF LoopQuits
  <2>3. asked = session
    BY <1>5, <2>2 DEF LoopQuits
  <2> QED BY <1>1, <1>5, <2>1, <2>3 DEF LoopQuits, hostVars, SearchFinished
<1>6. CASE RunEnds
  <2>1. TypeOK'
    BY <1>6 DEF RunEnds, LoopEnds, hostVars, TypeOK, CoreTypeOK
  <2> QED BY <1>1, <1>6, <2>1 DEF RunEnds, LoopEnds, hostVars, SearchFinished
<1>7. CASE RunMarks
  <2>1. TypeOK'
    BY <1>7 DEF RunMarks, coreVars, TypeOK, CoreTypeOK
  <2> QED BY <1>1, <1>7, <2>1, NoQuitSame DEF RunMarks, coreVars, SearchFinished
<1>8. CASE RunFinishes
  <2>1. TypeOK'
    BY <1>8 DEF RunFinishes, coreVars, TypeOK, CoreTypeOK
  <2> QED BY <1>1, <1>8, <2>1, NoQuitSame DEF RunFinishes, coreVars, SearchFinished
<1> QED BY <1>3, <1>4, <1>5, <1>6, <1>7, <1>8 DEF EngineSteps, Loop

\* A caller enters send() with a command and leaves it when it is pushed.
LEMMA NextSends == ASSUME IInv, [Next]_vars PROVE SendHolds'
<1> USE DEF IInv, SendHolds, TypeOK
<1>1. ASSUME NEW c \in Callers, SendCheck(c) PROVE SendHolds'
  BY <1>1 DEF SendCheck, Enter
<1>2. ASSUME NEW c \in Callers, SendPush(c) PROVE SendHolds'
  BY <1>2 DEF SendPush, Step
<1>3. ASSUME NEW c \in Callers, Begins(c) PROVE SendHolds'
  BY <1>3 DEF Begins, Enter
<1>4. ASSUME NEW c \in Callers, CallerSteps(c), ~SendPush(c) PROVE SendHolds'
  <2>1. /\ sending' = sending
        /\ \E to \in Places \ {"send"} : call' = [call EXCEPT ![c] = to]
    BY <1>4
    DEF CallerSteps, Locks, Lock, StartNoOp, StartReset, StartMark, StartSpawn, StartFails,
        ShutdownNoThread, ShutdownAsks, ShutdownExpires, ShutdownSeesEnd, ShutdownJoins,
        Return, Step, Places
  <2> QED BY <2>1
<1>5. CASE EngineSteps \/ ReadLine \/ ReadEnd \/ UNCHANGED vars
  BY <1>5
  DEF EngineSteps, Loop, LoopQuits, RunEnds, RunMarks, RunFinishes, ReadLine, ReadEnd,
      hostVars, vars
<1> QED BY <1>1, <1>2, <1>3, <1>4, <1>5 DEF Next

LEMMA NextInv == ASSUME IInv, [Next]_vars PROVE IInv'
<1>1. SendHolds'
  BY NextSends
<1>2. CASE EngineSteps \/ ReadLine \/ ReadEnd
  BY <1>1, <1>2, EngineInv, ReadInv DEF IInv
<1>3. ASSUME NEW c \in Callers, Begins(c) \/ SendCheck(c) \/ CallerSteps(c) PROVE IInv'
  BY <1>1, <1>3, EnterInv, StartInv, ShutdownInv, SendInv DEF IInv, CallerSteps
<1>4. CASE UNCHANGED vars
  <2>1. TypeOK'
    BY <1>4 DEF vars, coreVars, hostVars, IInv, TypeOK, CoreTypeOK
  <2>2. RecordsFit'
    BY <1>4, NobodyMoves, NoQuitSame
    DEF vars, coreVars, hostVars, IInv, RecordsFit, HolderKnows, FlagsFit, EndIsAsked,
        StreamsFit, SearchGone, SearchFinished, EndIsFinal, Resetting, Stopping
  <2> QED BY <1>1, <2>1, <2>2 DEF IInv
<1> QED BY <1>2, <1>3, <1>4 DEF Next

\* The invariant of the host, for every set of callers, tasks and bounds.
THEOREM HostInvCorrect == Spec => []IInv
<1>1. Init => IInv
  BY InitInv
<1>2. IInv /\ [Next]_vars => IInv'
  BY NextInv
<1> QED BY <1>1, <1>2, PTL DEF Spec

\* The host's records (running, the streams, the thread) agree with the engine
\* thread whatever start(), shutdown() and send() are called at the same time.
THEOREM HostAgreesCorrect == Spec => []HostAgrees
<1>1. IInv => HostAgrees
  <2> SUFFICES ASSUME IInv PROVE HostAgrees
    OBVIOUS
  <2> USE DEF IInv, RecordsFit, HolderKnows, FlagsFit, EndIsAsked, StreamsFit
  <2>1. lifecycle = NoCaller => holder = "out"
    BY HolderPlace
  <2>2. RunningMeansServed
    BY <2>1 DEF RunningMeansServed, TypeOK
  <2>3. LoopOwnsStreams
    BY DEF LoopOwnsStreams
  <2>4. IdleHostIsClean
    BY <2>1 DEF IdleHostIsClean, Resetting, Stopping, TypeOK
  <2>5. NoSearchWithoutThread
    BY DEF NoSearchWithoutThread, SearchGone
  <2> QED BY <2>2, <2>3, <2>4, <2>5 DEF HostAgrees
<1> QED BY <1>1, HostInvCorrect, PTL

\* A session ends only when a shutdown() told it to, and a reader that was told
\* the end has read all of it.
THEOREM SessionsEndOnceCorrect == Spec => []SessionsEndOnce
<1>1. IInv => SessionsEndOnce
  BY DEF IInv, RecordsFit, EndIsAsked, EndIsFinal, SessionsEndOnce, EndsOnlyWhenAsked,
         NothingAfterEnd
<1> QED BY <1>1, HostInvCorrect, PTL
=============================================================================
