-------------------------- MODULE FairyEngineProofs --------------------------
(*****************************************************************************)
(* Type correctness of FairyEngine, and the safety of a session: the         *)
(* inductive invariant behind QuietUnlessLeaked, OneSearch and OwnAnswer,    *)
(* and the one behind RightSetup.  At the end, FairyEngine implements        *)
(* EngineContract: step by step, under the mapping of FairyEngine!Contract,  *)
(* from that invariant.  Nothing is assumed of when a cancellation falls.    *)
(*****************************************************************************)
EXTENDS FairyEngine, TLAPS

-----------------------------------------------------------------------------
(* Facts about sequences, commands and lines, and what a step of the loop    *)
(* thread or of the search thread does to the state of UciCore               *)

\* What Append does to a sequence, index by index.
LEMMA AppendFacts ==
  ASSUME NEW S, NEW s \in Seq(S), NEW e \in S
  PROVE  /\ Append(s, e) \in Seq(S)
         /\ DOMAIN Append(s, e) = 1 .. Len(s) + 1
         /\ \A i \in DOMAIN s : Append(s, e)[i] = s[i]
         /\ Append(s, e)[Len(s) + 1] = e
  OBVIOUS

\* What Head and Tail do to a non-empty sequence, index by index.
LEMMA TailFacts ==
  ASSUME NEW S, NEW s \in Seq(S), s # << >>
  PROVE  /\ Tail(s) \in Seq(S)
         /\ Head(s) \in S
         /\ Head(s) = s[1]
         /\ 1 \in DOMAIN s
         /\ DOMAIN Tail(s) = 1 .. Len(s) - 1
         /\ \A i \in DOMAIN Tail(s) : i + 1 \in DOMAIN s /\ Tail(s)[i] = s[i + 1]
  OBVIOUS

\* The commands and lines that the actions build are commands and lines.
LEMMA CommandFacts ==
  /\ \A c \in {"uci", "isready", "stop", "quit", "ucinewgame"} : Plain(c) \in Commands
  /\ \A t \in Tasks : Go(t) \in Commands /\ PositionOf(t) \in Commands
  /\ \A o \in Options, v \in Values : SetOption(o, v) \in Commands
  /\ \A t \in Tasks : Info(t) \in Lines /\ BestMove(t) \in Lines
  /\ UciOk \in Lines /\ ReadyOk \in Lines
  BY DEF Commands, Lines

\* The fields of a command have the types the loop relies on.
LEMMA CommandFields ==
  ASSUME NEW c \in Commands
  PROVE  /\ c.cmd \in {"go", "position"} => c.id \in Tasks
         /\ c.cmd = "setoption" => c.name \in Options /\ c.value \in Values
  BY DEF Commands, Plain, Go, PositionOf, SetOption

\* An info or bestmove line names the task of its search.
LEMMA LineFields ==
  ASSUME NEW l \in Lines
  PROVE  l.kind \in {"info", "bestmove"} => l.id \in Tasks
  BY DEF Lines, Info, BestMove, UciOk, ReadyOk

\* A parked search thread is a search thread.
LEMMA ParkedType == Parked \in SearchThreads
  BY OptionsAssumption DEF Parked, SearchThreads

-----------------------------------------------------------------------------
\* The engine is well typed before its first session.
LEMMA CoreInitType == CoreInit => CoreTypeOK
<1> SUFFICES ASSUME CoreInit PROVE CoreTypeOK
  OBVIOUS
<1>1. srch \in SearchThreads /\ srch.phase # "thinking"
  BY ParkedType DEF CoreInit, Parked
<1>2. opts \in [Options -> Values]
  BY OptionsAssumption DEF CoreInit
<1>3. root \in [of : Tasks \cup {NoTask}, variant : Values]
  BY OptionsAssumption DEF CoreInit
<1>4. inq \in Seq(Commands) /\ outq \in Seq(Lines)
  BY DEF CoreInit
<1>5. stop \in BOOLEAN /\ loop \in {"reading", "quitting", "ended"}
  BY DEF CoreInit
<1> QED BY <1>1, <1>2, <1>3, <1>4, <1>5 DEF CoreTypeOK

\* The loop thread keeps the state of the engine in its type.
LEMMA LoopCoreType == ASSUME CoreTypeOK, LoopThread PROVE CoreTypeOK'
<1> USE CommandFacts, OptionsAssumption DEF CoreTypeOK
<1>1. inq # << >> /\ inq' = Tail(inq)
  BY DEF LoopThread, LoopStop, LoopQuit, LoopUci, LoopIsReady, LoopSetOption, LoopPosition, LoopNewGame, LoopGo, Reads
<1>2. inq' \in Seq(Commands) /\ Head(inq) \in Commands
  BY <1>1, TailFacts
<1>a. CASE LoopStop BY <1>2, <1>a DEF LoopStop, Reads
<1>b. CASE LoopQuit BY <1>2, <1>b DEF LoopQuit, Reads
<1>c. CASE LoopUci
  <2>1. outq' \in Seq(Lines)
    BY <1>c DEF LoopUci, Emit
  <2> QED BY <1>2, <2>1, <1>c DEF LoopUci
<1>d. CASE LoopIsReady
  <2>1. outq' \in Seq(Lines)
    BY <1>d DEF LoopIsReady, Emit
  <2> QED BY <1>2, <2>1, <1>d DEF LoopIsReady
<1>e. CASE LoopSetOption BY <1>2, <1>e, CommandFields DEF LoopSetOption, Reads
<1>f. CASE LoopPosition BY <1>2, <1>f, CommandFields DEF LoopPosition, Reads
<1>g. CASE LoopNewGame BY <1>2, <1>g DEF LoopNewGame, Reads
<1>h. CASE LoopGo BY <1>2, <1>h, CommandFields DEF LoopGo, Reads, SearchThreads
<1> QED BY <1>a, <1>b, <1>c, <1>d, <1>e, <1>f, <1>g, <1>h DEF LoopThread

\* The search thread keeps the state of the engine in its type.
LEMMA SearchCoreType == ASSUME CoreTypeOK, SearchThread PROVE CoreTypeOK'
<1> USE CommandFacts, OptionsAssumption DEF CoreTypeOK
<1>a. CASE SearchInfo
  <2>1. srch' \in SearchThreads
    <3>1. srch.infos + 1 \in Nat
      BY DEF SearchThreads
    <3> QED BY <3>1, <1>a DEF SearchInfo, SearchThreads
  <2>2. outq' \in Seq(Lines)
    BY <1>a, AppendFacts DEF SearchInfo, Emit
  <2> QED BY <1>a, <2>1, <2>2 DEF SearchInfo
<1>b. CASE SearchBestMove
  <2>1. srch' \in SearchThreads
    BY <1>b DEF SearchBestMove, SearchThreads
  <2>2. outq' \in Seq(Lines)
    BY <1>b, AppendFacts DEF SearchBestMove, Emit
  <2> QED BY <1>b, <2>1, <2>2 DEF SearchBestMove
<1>c. CASE SearchParks BY <1>c, ParkedType DEF SearchParks, Parked
<1> QED BY <1>a, <1>b, <1>c DEF SearchThread

\* The loop reads one command per step while it is reading, and goes on
\* reading unless that command is quit.
LEMMA LoopThreadReads ==
  ASSUME LoopThread
  PROVE  /\ loop = "reading" /\ inq # << >> /\ inq' = Tail(inq)
         /\ IF Head(inq).cmd = "quit" THEN loop' = "quitting" ELSE loop' = "reading"
  BY DEF LoopThread, LoopStop, LoopQuit, LoopUci, LoopIsReady, LoopSetOption, LoopPosition,
         LoopNewGame, LoopGo, Reads

\* The search thread moves only during a search, and leaves the input and the
\* loop alone.
LEMMA SearchThreadMoves ==
  ASSUME SearchThread
  PROVE  ~SearchFinished /\ inq' = inq /\ loop' = loop
  BY DEF SearchThread, SearchInfo, SearchBestMove, SearchParks, SearchFinished

-----------------------------------------------------------------------------
(* What the commands in the queue will have set, once they are executed *)

\* A command that sets the option o, and the value it gives it.
Assigns(c, o) == (c.cmd = "setoption" /\ c.name = o) \/ (c.cmd = "uci" /\ o = Variant)
Assigned(c)   == IF c.cmd = "uci" THEN Default ELSE c.value

\* From the option table p, the first n commands of q leave the option o at v.
OptionAfter(p, q, n, o, v) ==
  \/ p[o] = v /\ \A i \in 1 .. n : ~Assigns(q[i], o)
  \/ \E i \in 1 .. n : /\ Assigns(q[i], o) /\ Assigned(q[i]) = v
                       /\ \A j \in i + 1 .. n : ~Assigns(q[j], o)

\* From the options p and the root r, they leave the position of task t,
\* set up under the variant v.
SetsRoot(c) == c.cmd \in {"position", "uci"}
RootAfter(p, r, q, n, t, v) ==
  \/ r = [of |-> t, variant |-> v] /\ \A i \in 1 .. n : ~SetsRoot(q[i])
  \/ \E i \in 1 .. n : /\ q[i].cmd = "position" /\ q[i].id = t
                       /\ OptionAfter(p, q, i - 1, Variant, v)
                       /\ \A j \in i + 1 .. n : ~SetsRoot(q[j])

\* Only the first n commands matter.
LEMMA AfterPrefix ==
  ASSUME NEW p, NEW r, NEW q, NEW q2, NEW n \in Nat, \A i \in 1 .. n : q2[i] = q[i],
         NEW o, NEW t, NEW v
  PROVE  /\ OptionAfter(p, q, n, o, v) => OptionAfter(p, q2, n, o, v)
         /\ RootAfter(p, r, q, n, t, v) => RootAfter(p, r, q2, n, t, v)
<1>1. ASSUME NEW m \in Nat, m <= n, NEW x, OptionAfter(p, q, m, x, v)
      PROVE  OptionAfter(p, q2, m, x, v)
  BY <1>1 DEF OptionAfter
<1>2. ASSUME RootAfter(p, r, q, n, t, v) PROVE RootAfter(p, r, q2, n, t, v)
  <2>1. CASE r = [of |-> t, variant |-> v] /\ \A i \in 1 .. n : ~SetsRoot(q[i])
    BY <2>1 DEF RootAfter
  <2>2. ASSUME NEW i \in 1 .. n, q[i].cmd = "position", q[i].id = t,
               OptionAfter(p, q, i - 1, Variant, v), \A j \in i + 1 .. n : ~SetsRoot(q[j])
        PROVE  RootAfter(p, r, q2, n, t, v)
    <3>1. OptionAfter(p, q2, i - 1, Variant, v)
      BY <1>1, <2>2
    <3>2. \A j \in i + 1 .. n : ~SetsRoot(q2[j])
      BY <2>2
    <3> QED BY <2>2, <3>1, <3>2 DEF RootAfter
  <2> QED BY <1>2, <2>1, <2>2 DEF RootAfter
<1> QED BY <1>1, <1>2

\* What one more command changes.
LEMMA AfterPush ==
  ASSUME NEW p, NEW r, NEW q \in Seq(Commands), NEW c \in Commands, NEW o, NEW t, NEW v
  PROVE  LET q2 == Append(q, c)  n == Len(q) IN
         /\ ~Assigns(c, o) /\ OptionAfter(p, q, n, o, v) => OptionAfter(p, q2, n + 1, o, v)
         /\ Assigns(c, o) /\ Assigned(c) = v => OptionAfter(p, q2, n + 1, o, v)
         /\ ~SetsRoot(c) /\ RootAfter(p, r, q, n, t, v) => RootAfter(p, r, q2, n + 1, t, v)
         /\ c = PositionOf(t) /\ OptionAfter(p, q, n, Variant, v)
              => RootAfter(p, r, q2, n + 1, t, v)
<1> DEFINE q2 == Append(q, c)
           n  == Len(q)
<1>1. n \in Nat /\ \A i \in 1 .. n : q2[i] = q[i]
  BY AppendFacts
<1>2. q2[n + 1] = c
  BY AppendFacts
<1> HIDE DEF q2, n
<1>3. /\ OptionAfter(p, q, n, o, v) => OptionAfter(p, q2, n, o, v)
      /\ OptionAfter(p, q, n, Variant, v) => OptionAfter(p, q2, n, Variant, v)
      /\ RootAfter(p, r, q, n, t, v) => RootAfter(p, r, q2, n, t, v)
  BY <1>1, AfterPrefix
<1>4. ~Assigns(c, o) /\ OptionAfter(p, q2, n, o, v) => OptionAfter(p, q2, n + 1, o, v)
  BY <1>1, <1>2 DEF OptionAfter
<1>5. Assigns(c, o) /\ Assigned(c) = v => OptionAfter(p, q2, n + 1, o, v)
  BY <1>1, <1>2 DEF OptionAfter
<1>6. ASSUME ~SetsRoot(c), RootAfter(p, r, q2, n, t, v) PROVE RootAfter(p, r, q2, n + 1, t, v)
  <2>1. \A i \in 1 .. n + 1 : i \in 1 .. n \/ i = n + 1
    BY <1>1
  <2>2. CASE r = [of |-> t, variant |-> v] /\ \A i \in 1 .. n : ~SetsRoot(q2[i])
    BY <1>2, <1>6, <2>1, <2>2 DEF RootAfter
  <2>3. ASSUME NEW i \in 1 .. n, q2[i].cmd = "position", q2[i].id = t,
               OptionAfter(p, q2, i - 1, Variant, v), \A j \in i + 1 .. n : ~SetsRoot(q2[j])
        PROVE  RootAfter(p, r, q2, n + 1, t, v)
    <3>1. i \in 1 .. n + 1 /\ \A j \in i + 1 .. n + 1 : ~SetsRoot(q2[j])
      BY <1>1, <1>2, <1>6, <2>3, SMTT(30)
    <3> QED BY <2>3, <3>1 DEF RootAfter
  <2> QED BY <1>6, <2>2, <2>3 DEF RootAfter
<1>7. c = PositionOf(t) /\ OptionAfter(p, q2, n, Variant, v) => RootAfter(p, r, q2, n + 1, t, v)
  BY <1>1, <1>2 DEF RootAfter, PositionOf
<1> QED BY <1>3, <1>4, <1>5, <1>6, <1>7 DEF q2, n

\* What the execution of the first command changes.
LEMMA AfterPop ==
  ASSUME NEW p, NEW p2, NEW r, NEW r2, NEW q \in Seq(Commands), q # << >>,
         Variant \in Options,
         \A o \in Options : p2[o] = IF Assigns(Head(q), o) THEN Assigned(Head(q)) ELSE p[o],
         ~SetsRoot(Head(q)) => r2 = r,
         Head(q).cmd = "position" => r2 = [of |-> Head(q).id, variant |-> p[Variant]],
         NEW n \in Nat, n + 1 <= Len(q), NEW o \in Options, NEW t, NEW v
  PROVE  /\ OptionAfter(p, q, n + 1, o, v) => OptionAfter(p2, Tail(q), n, o, v)
         /\ RootAfter(p, r, q, n + 1, t, v) => RootAfter(p2, r2, Tail(q), n, t, v)
<1> DEFINE q2 == Tail(q)
           c  == Head(q)
<1>1. q[1] = c /\ \A i \in 1 .. n : q2[i] = q[i + 1]
  BY TailFacts
<1> HIDE DEF q2, c
<1>2. ASSUME NEW m \in Nat, m <= n, NEW x \in Options, OptionAfter(p, q, m + 1, x, v)
      PROVE  OptionAfter(p2, q2, m, x, v)
  <2>1. CASE p[x] = v /\ \A i \in 1 .. m + 1 : ~Assigns(q[i], x)
    <3>1. p2[x] = v
      BY <1>1, <2>1 DEF c
    <3>2. \A i \in 1 .. m : ~Assigns(q2[i], x)
      BY <1>1, <1>2, <2>1
    <3> QED BY <3>1, <3>2 DEF OptionAfter
  <2>2. ASSUME NEW i \in 1 .. m + 1, Assigns(q[i], x), Assigned(q[i]) = v,
               \A j \in i + 1 .. m + 1 : ~Assigns(q[j], x)
        PROVE  OptionAfter(p2, q2, m, x, v)
    <3>1. CASE i = 1
      <4>1. p2[x] = v
        BY <1>1, <2>2, <3>1 DEF c
      <4>2. \A j \in 1 .. m : ~Assigns(q2[j], x)
        BY <1>1, <1>2, <2>2, <3>1
      <4> QED BY <4>1, <4>2 DEF OptionAfter
    <3>2. CASE i > 1
      <4>1. i - 1 \in 1 .. m /\ q2[i - 1] = q[i]
        BY <1>1, <1>2, <2>2, <3>2
      <4>2. \A j \in (i - 1) + 1 .. m : ~Assigns(q2[j], x)
        BY <1>1, <1>2, <2>2, <3>2
      <4> QED BY <2>2, <4>1, <4>2 DEF OptionAfter
    <3> QED BY <3>1, <3>2
  <2> QED BY <1>2, <2>1, <2>2 DEF OptionAfter
<1>3. ASSUME RootAfter(p, r, q, n + 1, t, v) PROVE RootAfter(p2, r2, q2, n, t, v)
  <2>1. CASE r = [of |-> t, variant |-> v] /\ \A i \in 1 .. n + 1 : ~SetsRoot(q[i])
    <3>1. r2 = r
      BY <1>1, <2>1 DEF c
    <3>2. \A i \in 1 .. n : ~SetsRoot(q2[i])
      BY <1>1, <2>1
    <3> QED BY <2>1, <3>1, <3>2 DEF RootAfter
  <2>2. ASSUME NEW i \in 1 .. n + 1, q[i].cmd = "position", q[i].id = t,
               OptionAfter(p, q, i - 1, Variant, v),
               \A j \in i + 1 .. n + 1 : ~SetsRoot(q[j])
        PROVE  RootAfter(p2, r2, q2, n, t, v)
    <3>1. CASE i = 1
      <4>1. p[Variant] = v
        BY <2>2, <3>1 DEF OptionAfter
      <4>2. r2 = [of |-> t, variant |-> v]
        BY <1>1, <2>2, <3>1, <4>1 DEF c
      <4>3. \A j \in 1 .. n : ~SetsRoot(q2[j])
        BY <1>1, <2>2, <3>1
      <4> QED BY <4>2, <4>3 DEF RootAfter
    <3>2. CASE i > 1
      <4>1. i - 1 \in 1 .. n /\ q2[i - 1] = q[i]
        BY <1>1, <2>2, <3>2
      <4>2. \A j \in (i - 1) + 1 .. n : ~SetsRoot(q2[j])
        BY <1>1, <2>2, <3>2
      <4>3. OptionAfter(p2, q2, (i - 1) - 1, Variant, v)
        <5>1. (i - 1) - 1 \in Nat /\ (i - 1) - 1 <= n /\ ((i - 1) - 1) + 1 = i - 1
          BY <3>2
        <5> QED BY <1>2, <2>2, <5>1
      <4> QED BY <2>2, <4>1, <4>2, <4>3 DEF RootAfter
    <3> QED BY <3>1, <3>2
  <2> QED BY <1>3, <2>1, <2>2 DEF RootAfter
<1> QED BY <1>2, <1>3 DEF q2

\* The loop executes a command as the above has it.
LEMMA LoopEffect ==
  ASSUME CoreTypeOK, LoopThread
  PROVE  LET c == Head(inq) IN
         /\ \A o \in Options : opts'[o] = IF Assigns(c, o) THEN Assigned(c) ELSE opts[o]
         /\ ~SetsRoot(c) => root' = root
         /\ c.cmd = "position" => root' = [of |-> c.id, variant |-> opts[Variant]]
<1> USE OptionsAssumption DEF CoreTypeOK, Assigns, Assigned, SetsRoot
<1>1. CASE LoopStop \/ LoopQuit \/ LoopIsReady \/ LoopNewGame \/ LoopGo
  BY <1>1 DEF LoopStop, LoopQuit, LoopIsReady, LoopNewGame, LoopGo, Reads
<1>2. CASE LoopUci
  BY <1>2 DEF LoopUci, Reads
<1>3. CASE LoopSetOption
  BY <1>3 DEF LoopSetOption, Reads
<1>4. CASE LoopPosition
  BY <1>4 DEF LoopPosition, Reads
<1> QED BY <1>1, <1>2, <1>3, <1>4 DEF LoopThread

-----------------------------------------------------------------------------
\* The initial state is well typed.
LEMMA TypeInit == Init => TypeOK
<1> SUFFICES ASSUME Init PROVE TypeOK
  OBVIOUS
<1>1. CoreTypeOK
  BY CoreInitType DEF Init
<1>2. pc \in PCs /\ (pc = "idle" <=> mutex = NoTask)
  BY DEF Init, PCs
<1>3. /\ status \in [Tasks -> Statuses]
      /\ cache \in [Options -> Values \cup {Unset}]
      /\ answer \in [Tasks -> Tasks \cup {NoTask}]
      /\ seen \in [Tasks -> SUBSET Tasks]
  BY DEF Init, Statuses
<1>5. waitq \in Seq(Tasks) /\ stops \in Nat
  BY DEF Init
<1>4. /\ mutex \in Tasks \cup {NoTask}
      /\ changed \in BOOLEAN /\ stopSent \in BOOLEAN /\ started \in BOOLEAN
      /\ searching \in BOOLEAN /\ running \in BOOLEAN
      /\ cancelled \subseteq Tasks
      /\ stopper \in {"out", "armed", "raised"}
      /\ closer \in {"open", "stopped", "waiting", "closed"}
      /\ told \subseteq Tasks /\ leaked \subseteq Tasks
  BY DEF Init
<1> QED BY <1>1, <1>2, <1>3, <1>4, <1>5 DEF TypeOK

\* The loop thread and the search thread keep every variable in its type.
LEMMA TypeNative == TypeOK /\ (LoopThread \/ SearchThread) /\ UNCHANGED appVars => TypeOK'
  BY LoopCoreType, SearchCoreType DEF appVars, TypeOK

\* EngineHost::send() queues commands only.
LEMMA SendType ==
  ASSUME CoreTypeOK, running \in BOOLEAN, NEW c \in Commands, Send(c)
  PROVE  inq' \in Seq(Commands)
  BY DEF CoreTypeOK, Send

\* Sending a stop keeps the queue, the flag and the history well typed.
LEMMA SendStopType ==
  ASSUME TypeOK, SendStop, Tell
  PROVE  inq' \in Seq(Commands) /\ stop' \in BOOLEAN /\ told' \subseteq Tasks
<1>1. inq' \in Seq(Commands)
  BY SendType, CommandFacts DEF SendStop, TypeOK
<1>2. stop' \in BOOLEAN
  BY DEF SendStop, TypeOK, CoreTypeOK
<1>3. told' \subseteq Tasks
  BY DEF Tell, InSearch, TypeOK
<1> QED BY <1>1, <1>2, <1>3

\* Leaving the handler keeps the tasks, the mutex and the place well typed.
LEMMA ReleaseType ==
  ASSUME TypeOK, mutex # NoTask, NEW r \in Statuses, Release(r)
  PROVE  /\ status' \in [Tasks -> Statuses]
         /\ mutex' \in Tasks \cup {NoTask} /\ pc' \in PCs
         /\ (pc' = "idle" <=> mutex' = NoTask)
  BY DEF TypeOK, Release, PCs

\* executor.shutdownNow() keeps the tasks well typed.
LEMMA LoseQueuedType ==
  ASSUME TypeOK, LoseQueued
  PROVE  status' \in [Tasks -> Statuses] /\ waitq' \in Seq(Tasks)
<1>1. status' \in [Tasks -> Statuses]
  BY DEF TypeOK, LoseQueued, Statuses
<1>2. waitq' \in Seq(Tasks)
  BY DEF LoseQueued
<1> QED BY <1>1, <1>2

\* Every step of the app keeps every variable in its type.
LEMMA TypeApp ==
  ASSUME TypeOK,
         \/ EngineThread \/ NativeEnds \/ StopCheck \/ StopSend \/ StopPush \/ Closing
         \/ \E t \in Tasks : Request(t) \/ Cancel(t)
  PROVE  TypeOK'
<1> USE TasksAssumption DEF coreVars, TypeOK, CoreTypeOK
<1>1. Fail /\ mutex # NoTask => TypeOK'
  <2> SUFFICES ASSUME Fail, mutex # NoTask PROVE TypeOK'
    OBVIOUS
  <2>1. searching' \in BOOLEAN
    BY DEF Fail
  <2>2. /\ status' \in [Tasks -> Statuses]
        /\ mutex' \in Tasks \cup {NoTask} /\ pc' \in PCs
        /\ (pc' = "idle" <=> mutex' = NoTask)
    BY ReleaseType DEF Fail, Statuses
  <2>3. UNCHANGED <<coreVars, waitq, changed, stopSent, started, cache, running, cancelled,
                    stopper, stops, closer, answer, seen, told, leaked>>
    BY DEF Fail
  <2> QED BY <2>1, <2>2, <2>3
<1>2. Acquire => TypeOK'
  <2> SUFFICES ASSUME Acquire PROVE TypeOK'
    OBVIOUS
  <2>1. waitq' \in Seq(Tasks) /\ Head(waitq) \in Tasks
    BY TailFacts DEF Acquire
  <2>2. status' \in [Tasks -> Statuses]
    BY <2>1 DEF Acquire, Statuses
  <2>3. mutex' \in Tasks \cup {NoTask} /\ pc' \in PCs /\ (pc' = "idle" <=> mutex' = NoTask)
    BY <2>1 DEF Acquire, PCs
  <2> QED BY <2>1, <2>2, <2>3 DEF Acquire
<1>3. Begin => TypeOK'
  <2> SUFFICES ASSUME Begin PROVE TypeOK'
    OBVIOUS
  <2>1. CASE mutex \in Over
    BY <2>1, ReleaseType DEF Begin, Statuses
  <2>2. CASE mutex \notin Over
    BY <1>1, <2>2 DEF Begin, Jump, PCs, AfterStart
  <2> QED BY <2>1, <2>2
<1>4. Start => TypeOK'
  BY CommandFacts DEF Start, PCs
<1>5. StartFails => TypeOK'
  BY <1>1 DEF StartFails
<1>6. AwaitUciOk => TypeOK'
  BY CommandFacts, SendType DEF AwaitUciOk, Await, Jump, PCs, SyncPoints
<1>7. AwaitReadyOk => TypeOK'
  <2> SUFFICES ASSUME AwaitReadyOk PROVE TypeOK'
    OBVIOUS
  <2>1. /\ status' \in [Tasks -> Statuses]
        /\ mutex' \in Tasks \cup {NoTask} /\ pc' \in PCs
        /\ (pc' = "idle" <=> mutex' = NoTask)
    BY DEF AwaitReadyOk, Release, PCs, SyncPoints, AfterStart, Statuses
  <2>2. started' \in BOOLEAN
    BY DEF AwaitReadyOk
  <2>3. outq' \in Seq(Lines)
    BY TailFacts DEF AwaitReadyOk, Await
  <2> QED BY <2>1, <2>2, <2>3 DEF AwaitReadyOk
<1>8. AwaitSkips => TypeOK'
  BY DEF AwaitSkips, appVars
<1>9. AwaitFails => TypeOK'
  BY <1>1 DEF AwaitFails, SyncPoints
<1>10. NewGame => TypeOK'
  BY CommandFacts DEF NewGame, Jump, PCs, SyncPoints
<1>11. ASSUME NEW o \in Options, ApplyOption(o) PROVE TypeOK'
  BY <1>11, CommandFacts, SendType, WantAssumption DEF ApplyOption, SendOption, Differs
<1>12. ApplyDone => TypeOK'
  BY CommandFacts, SendType DEF ApplyDone, PCs, SyncPoints
<1>13. Drain => TypeOK'
  BY DEF Drain, Jump, PCs
<1>14. ASSUME NEW o \in Options, ModeOption(o) PROVE TypeOK'
  BY <1>14, CommandFacts, SendType, WantAssumption DEF ModeOption, SendOption, Differs
<1>15. SendPosition => TypeOK'
  BY CommandFacts DEF SendPosition, Jump, PCs, SyncPoints
<1>16. SendGo => TypeOK'
  BY CommandFacts, SendType DEF SendGo, Jump, PCs
<1>17. Mark => TypeOK'
  BY DEF Mark, PCs
<1>18. Check => TypeOK'
  BY CommandFacts, SendType DEF Check, PCs, SendStop, Tell
<1>19. ReadNothing => TypeOK'
  BY <1>1 DEF ReadNothing, Jump, PCs
<1>20. ReadInfo => TypeOK'
  BY LineFields DEF ReadInfo, Await, PCs
<1>21. ReadOther => TypeOK'
  BY DEF ReadOther, Jump, PCs
<1>22. ReadBestMove => TypeOK'
  <2> SUFFICES ASSUME ReadBestMove PROVE TypeOK'
    OBVIOUS
  <2>1. /\ status' \in [Tasks -> Statuses]
        /\ mutex' \in Tasks \cup {NoTask} /\ pc' \in PCs
        /\ (pc' = "idle" <=> mutex' = NoTask)
    BY ReleaseType DEF ReadBestMove, Statuses
  <2>2. outq' \in Seq(Lines) /\ Head(outq) \in Lines
    BY TailFacts DEF ReadBestMove, Await
  <2>3. answer' \in [Tasks -> Tasks \cup {NoTask}]
    BY <2>2, LineFields DEF ReadBestMove, Await
  <2>4. searching' \in BOOLEAN /\ leaked' \subseteq Tasks
    BY DEF ReadBestMove
  <2> QED BY <2>1, <2>2, <2>3, <2>4 DEF ReadBestMove
<1>23. EmitSnapshot => TypeOK'
  BY DEF EmitSnapshot, Jump, PCs
<1>24. EmitThrows => TypeOK'
  BY ReleaseType DEF EmitThrows, Statuses
<1>25. NativeEnds => TypeOK'
  BY DEF NativeEnds, LoopEnds
<1>26. StopCheck => TypeOK'
  BY DEF StopCheck
<1>27. StopSend \/ StopPush => TypeOK'
  <2>2. ASSUME StopSend PROVE TypeOK'
    <3>1. told' \subseteq Tasks
      BY <2>2 DEF StopSend, Tell, InSearch
    <3>2. stop' \in BOOLEAN /\ stopper' \in {"out", "armed", "raised"}
      BY <2>2 DEF StopSend
    <3>3. UNCHANGED <<inq, outq, loop, srch, root, opts, status, waitq, mutex, pc, changed, stopSent,
                      started, searching, cache, running, cancelled, stops, closer, answer, seen, leaked>>
      BY <2>2 DEF StopSend
    <3> QED BY <3>1, <3>2, <3>3
  <2>3. ASSUME StopPush PROVE TypeOK'
    <3>1. Append(inq, Plain("stop")) \in Seq(Commands)
      BY CommandFacts, AppendFacts
    <3> QED BY <2>3, <3>1 DEF StopPush
  <2> QED BY <2>2, <2>3
<1>28. CloseBegin => TypeOK'
  BY SendStopType, LoseQueuedType DEF CloseBegin
<1>29. CloseQuit => TypeOK'
  <2> SUFFICES ASSUME CloseQuit PROVE TypeOK'
    OBVIOUS
  <2>1. inq' \in Seq(Commands)
    <3>1. Append(inq, Plain("quit")) \in Seq(Commands)
      BY CommandFacts, AppendFacts
    <3> QED BY <3>1 DEF CloseQuit
  <2>3. stop' \in BOOLEAN
    BY DEF CloseQuit
  <2>2. told' \subseteq Tasks
    BY DEF CloseQuit, Tell, InSearch
  <2> QED BY <2>1, <2>2, <2>3 DEF CloseQuit
<1>30. CloseEnd => TypeOK'
  BY LoseQueuedType DEF CloseEnd
<1>31. ASSUME NEW t \in Tasks, Request(t) PROVE TypeOK'
  <2>1. waitq' \in Seq(Tasks)
    <3>1. Append(waitq, t) \in Seq(Tasks)
      BY AppendFacts
    <3> QED BY <3>1, <1>31 DEF Request
  <2>2. status' \in [Tasks -> Statuses]
    BY <1>31 DEF Request, Statuses
  <2> QED BY <1>31, <2>1, <2>2 DEF Request
<1>32. ASSUME NEW t \in Tasks, Cancel(t) PROVE TypeOK'
  BY <1>32 DEF Cancel
<1> QED BY <1>1, <1>2, <1>3, <1>4, <1>5, <1>6, <1>7, <1>8, <1>9, <1>10, <1>11,
           <1>12, <1>13, <1>14, <1>15, <1>16, <1>17, <1>18, <1>19, <1>20, <1>21, <1>22,
           <1>23, <1>24, <1>25, <1>26, <1>27, <1>28, <1>29, <1>30, <1>31, <1>32
        DEF Closing, EngineThread

\* TypeOK is inductive.
LEMMA TypeNext == TypeOK /\ [Next]_vars => TypeOK'
<1> SUFFICES ASSUME TypeOK, [Next]_vars PROVE TypeOK'
  OBVIOUS
<1>1. CASE Native
  BY <1>1, TypeNative DEF Native
<1>2. CASE UNCHANGED vars
  BY <1>2 DEF vars, coreVars, appVars, TypeOK, CoreTypeOK
<1>3. CASE Next /\ ~Native
  BY <1>3, TypeApp DEF Next
<1> QED BY <1>1, <1>2, <1>3

\* Type correctness of the session of FairyStockfishEngine with the native
\* loop, for every set of tasks, options and bounds.
THEOREM TypeCorrect == Spec => []TypeOK
<1>1. Init => TypeOK
  BY TypeInit
<1>2. TypeOK /\ [Next]_vars => TypeOK'
  BY TypeNext
<1> QED BY <1>1, <1>2, PTL DEF Spec

-----------------------------------------------------------------------------
(* A task has its turn once.                                                 *)

\* A task is queued at most once, holds the mutex at most once, and has no
\* answer before it has ended; only what has ended is leaked.
TurnOnce ==
  /\ \A i \in DOMAIN waitq : status[waitq[i]] = "queued"
  /\ \A i, j \in DOMAIN waitq : waitq[i] = waitq[j] => i = j
  /\ mutex # NoTask => status[mutex] = "running"
  /\ \A t \in Tasks : status[t] \in {"new", "queued", "running"} => answer[t] = NoTask /\ t \notin leaked

\* A step that leaves queue, tasks, mutex and answers alone keeps TurnOnce.
LEMMA TurnSame ==
  ASSUME TurnOnce, UNCHANGED <<waitq, status, mutex, answer, leaked>>
  PROVE  TurnOnce'
  BY DEF TurnOnce

\* The task that ends is not queued again.
LEMMA TurnReleased ==
  ASSUME TypeOK, TurnOnce, mutex # NoTask, waitq' = waitq,
         Release("done") \/ Release("aborted") \/ Release("failed") \/ Release("dropped"),
         \A t \in Tasks : t # mutex => answer'[t] = answer[t],
         leaked' \in {leaked, leaked \cup {mutex}}
  PROVE  TurnOnce'
<1>1. PICK r \in {"done", "aborted", "failed", "dropped"} : Release(r)
  OBVIOUS
<1>2. mutex' = NoTask /\ status' = [status EXCEPT ![mutex] = r]
  BY <1>1 DEF Release
<1>3. \A i \in DOMAIN waitq : waitq[i] \in Tasks /\ waitq[i] # mutex
  BY DEF TypeOK, TurnOnce
<1>4. \A i \in DOMAIN waitq : status'[waitq[i]] = "queued"
  BY <1>2, <1>3 DEF TypeOK, TurnOnce
<1>5. \A t \in Tasks : status'[t] \in {"new", "queued", "running"} => answer'[t] = NoTask /\ t \notin leaked'
  BY <1>2 DEF TypeOK, TurnOnce
<1> QED BY <1>2, <1>4, <1>5 DEF TurnOnce

\* TurnOnce is inductive: a task is queued once and answered while it runs.
LEMMA StepTurn ==
  ASSUME TypeOK, TurnOnce, [Next]_vars
  PROVE  TurnOnce'
<1>1. CASE Acquire
  <2>1. /\ waitq' \in Seq(Tasks) /\ Head(waitq) = waitq[1] /\ waitq[1] \in Tasks /\ 1 \in DOMAIN waitq
        /\ DOMAIN waitq' = 1 .. Len(waitq) - 1 /\ Len(waitq) \in Nat
        /\ \A i \in DOMAIN waitq' : i + 1 \in DOMAIN waitq /\ waitq'[i] = waitq[i + 1]
    BY <1>1, TailFacts DEF Acquire, TypeOK
  <2>2. PICK r \in {"dropped", "running"} :
          /\ status' = [status EXCEPT ![waitq[1]] = r]
          /\ IF r = "running" THEN mutex' = waitq[1] ELSE mutex' = NoTask
    BY <1>1, <2>1 DEF Acquire
  <2>3. \A i \in DOMAIN waitq' : waitq'[i] # waitq[1] /\ status[waitq'[i]] = "queued"
    BY <2>1 DEF TurnOnce
  <2>4. \A i \in DOMAIN waitq' : status'[waitq'[i]] = "queued"
    BY <2>1, <2>2, <2>3 DEF TypeOK
  <2>5. \A i, j \in DOMAIN waitq' : waitq'[i] = waitq'[j] => i = j
    BY <2>1 DEF TurnOnce
  <2>6. answer' = answer /\ leaked' = leaked /\ status[waitq[1]] = "queued"
    BY <1>1, <2>1 DEF Acquire, TurnOnce
  <2>7. \A t \in Tasks : status'[t] \in {"new", "queued", "running"} => answer'[t] = NoTask /\ t \notin leaked'
    BY <2>1, <2>2, <2>6 DEF TurnOnce, TypeOK
  <2>8. mutex' # NoTask => status'[mutex'] = "running"
    BY <2>1, <2>2 DEF TypeOK
  <2> QED BY <2>4, <2>5, <2>7, <2>8 DEF TurnOnce
<1>2. ASSUME NEW t \in Tasks, Request(t) PROVE TurnOnce'
  <2>1. UNCHANGED <<mutex, answer, leaked>> /\ status[t] = "new"
    BY <1>2 DEF Request
  <2>2. PICK r \in {"dropped", "queued"} :
          /\ status' = [status EXCEPT ![t] = r]
          /\ IF r = "queued" THEN waitq' = Append(waitq, t) ELSE waitq' = waitq
    BY <1>2 DEF Request
  <2>3. \A u \in Tasks : status'[u] \in {"new", "queued", "running"} => answer'[u] = NoTask /\ u \notin leaked'
    BY <2>1, <2>2 DEF TurnOnce, TypeOK
  <2>4. mutex' # NoTask => status'[mutex'] = "running"
    BY <2>1, <2>2 DEF TurnOnce, TypeOK
  <2>5. waitq \in Seq(Tasks) /\ \A i \in DOMAIN waitq : waitq[i] \in Tasks /\ waitq[i] # t /\ status'[waitq[i]] = "queued"
    BY <2>1, <2>2 DEF TurnOnce, TypeOK
  <2>6. CASE r = "dropped"
    BY <2>2, <2>3, <2>4, <2>5, <2>6 DEF TurnOnce
  <2>7. CASE r = "queued"
    <3>1. /\ DOMAIN waitq' = 1 .. Len(waitq) + 1 /\ waitq'[Len(waitq) + 1] = t
          /\ \A i \in DOMAIN waitq : waitq'[i] = waitq[i]
      BY <2>2, <2>5, <2>7, AppendFacts
    <3>2. \A i \in DOMAIN waitq' : i \in DOMAIN waitq \/ i = Len(waitq) + 1
      BY <2>5, <3>1
    <3>3. status'[t] = "queued"
      BY <2>2, <2>7 DEF TypeOK
    <3>4. \A i \in DOMAIN waitq' : status'[waitq'[i]] = "queued"
      BY <2>5, <3>1, <3>2, <3>3
    <3>5. \A i, j \in DOMAIN waitq' : waitq'[i] = waitq'[j] => i = j
      BY <2>5, <3>1, <3>2 DEF TurnOnce
    <3> QED BY <2>3, <2>4, <3>4, <3>5 DEF TurnOnce
  <2> QED BY <2>6, <2>7
<1>3. ASSUME LoseQueued, UNCHANGED <<mutex, answer, leaked>> PROVE TurnOnce'
  <2>1. waitq' = << >>
    BY <1>3 DEF LoseQueued
  <2>2. mutex' # NoTask => status'[mutex'] = "running"
    BY <1>3 DEF LoseQueued, TurnOnce, TypeOK
  <2>3. \A t \in Tasks : status'[t] \in {"new", "queued", "running"} => answer'[t] = NoTask /\ t \notin leaked'
    BY <1>3 DEF LoseQueued, TurnOnce, TypeOK
  <2> QED BY <2>1, <2>2, <2>3 DEF TurnOnce
<1>4. CASE Closing
  BY <1>3, <1>4, TurnSame DEF Closing, CloseBegin, CloseQuit, CloseEnd
<1>5. CASE Native \/ NativeEnds \/ StopCheck \/ StopSend \/ StopPush \/ UNCHANGED vars \/ \E t \in Tasks : Cancel(t)
  BY <1>5, TurnSame DEF Native, NativeEnds, StopCheck, StopSend, StopPush, Cancel, vars, appVars
<1>6. CASE EngineThread /\ ~Acquire
  <2> USE DEF SyncPoints
  <2>0. Fail /\ pc # "idle" => TurnOnce'
    BY TurnReleased DEF Fail, TypeOK
  <2>1. CASE Begin \/ AwaitReadyOk \/ EmitThrows
    BY <2>0, <2>1, TurnSame, TurnReleased DEF Begin, AwaitReadyOk, EmitThrows, Jump, TypeOK
  <2>2. CASE StartFails \/ AwaitFails \/ ReadNothing
    BY <2>0, <2>2, TurnSame DEF StartFails, AwaitFails, ReadNothing, Jump
  <2>3. CASE Start \/ AwaitUciOk \/ AwaitSkips \/ NewGame \/ ApplyDone \/ Drain \/ SendPosition \/ SendGo
             \/ Mark \/ \E o \in Options : ApplyOption(o) \/ ModeOption(o)
    BY <2>3, TurnSame
    DEF Start, AwaitUciOk, AwaitSkips, NewGame, ApplyDone, Drain, SendPosition, SendGo, Mark,
        ApplyOption, ModeOption, Jump, appVars
  <2>4. CASE Check \/ ReadInfo \/ ReadOther \/ EmitSnapshot
    BY <2>4, TurnSame DEF Check, ReadInfo, ReadOther, EmitSnapshot, Jump
  <2>5. CASE ReadBestMove
    BY <2>5, TurnReleased DEF ReadBestMove, TypeOK
  <2> QED BY <1>6, <2>1, <2>2, <2>3, <2>4, <2>5 DEF EngineThread
<1> QED BY <1>1, <1>2, <1>4, <1>5, <1>6 DEF Next

-----------------------------------------------------------------------------
(* The inductive invariant *)
InfoLines == {i \in DOMAIN outq : outq[i].kind = "info"}

\* All the work under way, and all info lines, are of searches in S.
Within(S) ==
  /\ \A i \in GoQueued : inq[i].id \in S
  /\ Thinking => srch.id \in S
  /\ \A i \in BestMoveLines \cup InfoLines : outq[i].id \in S

\* ... which is what was leaked, and the search of the task that holds
\* searchMutex once it is past its go command, unless the engine was closed under
\* a handler that gave up: then no later handler gets beyond the closed check of
\* ensureStarted().
Holder == IF InSearch THEN {mutex} ELSE {}
Ownership ==
  \/ Within(leaked \cup Holder)
  \/ closed /\ pc \in {"idle", "begin"} /\ \E t \in Tasks : Within(leaked \cup {t})

\* Each search is under way only once, and bestmove is its last line.
OneAtATime ==
  /\ \A i, j \in GoQueued : inq[i].id = inq[j].id => i = j
  /\ \A i, j \in BestMoveLines : outq[i].id = outq[j].id => i = j
  /\ \A i \in GoQueued, j \in BestMoveLines \cup InfoLines : inq[i].id # outq[j].id
  /\ Thinking => /\ \A i \in GoQueued : inq[i].id # srch.id
                 /\ \A j \in BestMoveLines : outq[j].id # srch.id
  /\ \A i \in BestMoveLines, j \in InfoLines : outq[i].id = outq[j].id => j < i

NoQuit == \A i \in DOMAIN inq : inq[i].cmd # "quit"

\* Until close() begins nobody quits, so the handler reads from an engine that
\* is up.
OpenMeansUp ==
  ~closed => /\ NoQuit
             /\ loop = (IF running THEN "reading" ELSE "ended")
             /\ pc \notin {"idle", "begin", "start"} => running

IInv == TypeOK /\ OpenMeansUp /\ TurnOnce /\ Ownership /\ OneAtATime /\ OwnAnswer

-----------------------------------------------------------------------------
(* Steps without new work: searches are at most forgotten, in order *)

InqKept(k) == \A i \in GoQueued' : i + k \in GoQueued /\ inq'[i] = inq[i + k]

OutqKept(k) ==
  /\ \A i \in BestMoveLines' : i + k \in BestMoveLines /\ outq'[i] = outq[i + k]
  /\ \A i \in InfoLines' : i + k \in InfoLines /\ outq'[i] = outq[i + k]

NoNewWork ==
  /\ \E k \in {0, 1} : InqKept(k)
  /\ \E k \in {0, 1} : OutqKept(k)
  /\ Thinking' => Thinking /\ srch'.id = srch.id

\* The same queue asks for the same searches.
LEMMA InqSame == TypeOK /\ inq' = inq => InqKept(0)
  BY DEF InqKept, GoQueued, TypeOK, CoreTypeOK

\* A command other than go asks for no search.
LEMMA InqPush ==
  ASSUME TypeOK, NEW c \in Commands, c.cmd # "go", inq' = Append(inq, c)
  PROVE  InqKept(0)
  BY AppendFacts DEF InqKept, GoQueued, TypeOK, CoreTypeOK

\* ... also when it is sent through EngineHost::send().
LEMMA InqSend ==
  ASSUME TypeOK, NEW c \in Commands, c.cmd # "go", Send(c)
  PROVE  InqKept(0)
  BY InqSame, InqPush DEF Send

\* ... nor do two of them, as in sendPosition() with its isready.
LEMMA InqPush2 ==
  ASSUME TypeOK, NEW c \in Commands, c.cmd # "go", NEW d \in Commands, d.cmd # "go",
         inq' = inq \o <<c, d>>
  PROVE  InqKept(0)
<1>1. inq \in Seq(Commands) /\ DOMAIN inq' = 1 .. Len(inq) + 2
  BY DEF TypeOK, CoreTypeOK
<1>2. \A i \in DOMAIN inq' : inq'[i] = IF i <= Len(inq) THEN inq[i]
                                       ELSE IF i = Len(inq) + 1 THEN c ELSE d
  BY DEF TypeOK, CoreTypeOK
<1> QED BY <1>1, <1>2 DEF InqKept, GoQueued

\* Reading a command asks for no new search.
LEMMA InqPop == TypeOK /\ inq # << >> /\ inq' = Tail(inq) => InqKept(1)
  BY TailFacts DEF InqKept, GoQueued, TypeOK, CoreTypeOK

\* The same output holds the same search lines.
LEMMA OutqSame == TypeOK /\ outq' = outq => OutqKept(0)
  BY DEF OutqKept, BestMoveLines, InfoLines, TypeOK, CoreTypeOK

\* uciok and readyok are no search lines.
LEMMA OutqPush ==
  ASSUME TypeOK, NEW l \in {UciOk, ReadyOk}, outq' = Append(outq, l)
  PROVE  OutqKept(0)
  BY AppendFacts, CommandFacts DEF OutqKept, BestMoveLines, InfoLines, TypeOK, CoreTypeOK, UciOk, ReadyOk

\* Reading a line adds no search line.
LEMMA OutqPop == TypeOK /\ outq # << >> /\ outq' = Tail(outq) => OutqKept(1)
  BY TailFacts DEF OutqKept, BestMoveLines, InfoLines, TypeOK, CoreTypeOK

\* drain() leaves no search line.
LEMMA OutqDrained == outq' = << >> => OutqKept(0)
  BY DEF OutqKept, BestMoveLines, InfoLines

\* A step without new work keeps each search in one place.
LEMMA KeptOne == TypeOK /\ TypeOK' /\ OneAtATime /\ NoNewWork => OneAtATime'
<1> SUFFICES ASSUME TypeOK, TypeOK', OneAtATime, NoNewWork PROVE OneAtATime'
  OBVIOUS
<1>1. PICK k \in {0, 1} : InqKept(k)
  BY DEF NoNewWork
<1>2. PICK m \in {0, 1} : OutqKept(m)
  BY DEF NoNewWork
<1>3. /\ GoQueued' \subseteq Nat /\ BestMoveLines' \subseteq Nat /\ InfoLines' \subseteq Nat
  BY DEF TypeOK, CoreTypeOK, GoQueued, BestMoveLines, InfoLines
<1>4. ASSUME NEW i \in GoQueued', NEW j \in GoQueued', inq'[i].id = inq'[j].id PROVE i = j
  <2>1. i + k \in GoQueued /\ j + k \in GoQueued /\ inq[i + k].id = inq[j + k].id
    BY <1>1, <1>4 DEF InqKept
  <2>2. i + k = j + k
    BY <2>1 DEF OneAtATime
  <2> QED BY <1>3, <2>2
<1>5. ASSUME NEW i \in BestMoveLines', NEW j \in BestMoveLines', outq'[i].id = outq'[j].id PROVE i = j
  <2>1. i + m \in BestMoveLines /\ j + m \in BestMoveLines /\ outq[i + m].id = outq[j + m].id
    BY <1>2, <1>5 DEF OutqKept
  <2>2. i + m = j + m
    BY <2>1 DEF OneAtATime
  <2> QED BY <1>3, <2>2
<1>6. ASSUME NEW i \in BestMoveLines', NEW j \in InfoLines', outq'[i].id = outq'[j].id PROVE j < i
  <2>1. i + m \in BestMoveLines /\ j + m \in InfoLines /\ outq[i + m].id = outq[j + m].id
    BY <1>2, <1>6 DEF OutqKept
  <2>2. j + m < i + m
    BY <2>1 DEF OneAtATime
  <2> QED BY <1>3, <2>2
<1>7. ASSUME NEW i \in GoQueued', NEW j \in BestMoveLines' \cup InfoLines' PROVE inq'[i].id # outq'[j].id
  <2>1. i + k \in GoQueued /\ inq'[i] = inq[i + k]
    BY <1>1 DEF InqKept
  <2>2. j + m \in BestMoveLines \cup InfoLines /\ outq'[j] = outq[j + m]
    BY <1>2 DEF OutqKept
  <2> QED BY <2>1, <2>2 DEF OneAtATime
<1>8. ASSUME Thinking'
      PROVE  /\ \A i \in GoQueued' : inq'[i].id # srch'.id
             /\ \A j \in BestMoveLines' : outq'[j].id # srch'.id
  <2>1. Thinking /\ srch'.id = srch.id
    BY <1>8 DEF NoNewWork
  <2> QED BY <1>1, <1>2, <2>1 DEF InqKept, OutqKept, OneAtATime
<1> QED BY <1>4, <1>5, <1>6, <1>7, <1>8 DEF OneAtATime

\* Only four actions of code can add to the work under way: the go command of
\* goCommand(), its execution in start_thinking(), and the two that print.
LEMMA Kinds ==
  ASSUME TypeOK, [Next]_vars
  PROVE  NoNewWork \/ SendGo \/ (Native /\ (LoopGo \/ SearchInfo \/ SearchBestMove))
<1> USE CommandFacts DEF Plain, SetOption, PositionOf, coreVars, Thinking, NoNewWork
<1>1. CASE UNCHANGED vars
  BY <1>1, InqSame, OutqSame DEF vars
<1>2. ASSUME Native PROVE NoNewWork \/ LoopGo \/ SearchInfo \/ SearchBestMove
  <2>1. CASE LoopUci \/ LoopIsReady
    BY <2>1, InqPop, OutqPush DEF LoopUci, LoopIsReady, Reads, Emit
  <2>2. CASE LoopStop \/ LoopQuit \/ LoopSetOption \/ LoopPosition \/ LoopNewGame
    BY <2>2, InqPop, OutqSame DEF LoopStop, LoopQuit, LoopSetOption, LoopPosition, LoopNewGame, Reads
  <2>3. CASE SearchParks
    BY <2>3, InqSame, OutqSame DEF SearchParks, Parked
  <2> QED BY <1>2, <2>1, <2>2, <2>3 DEF Native, LoopThread, SearchThread
<1>3. CASE NativeEnds \/ StopCheck \/ \E t \in Tasks : Request(t) \/ Cancel(t)
  BY <1>3, InqSame, OutqSame DEF NativeEnds, LoopEnds, StopCheck, Request, Cancel
<1>4. CASE StopSend \/ StopPush
  BY <1>4, InqSame, InqPush, OutqSame DEF StopSend, StopPush
<1>5. CASE CloseBegin \/ CloseQuit \/ CloseEnd
  BY <1>5, InqSame, InqSend, InqPush, OutqSame DEF CloseBegin, CloseQuit, CloseEnd, SendStop
<1>6. Fail => NoNewWork
  BY InqSame, OutqSame DEF Fail
<1>7. CASE EngineThread
  <2>1. CASE Acquire \/ Begin \/ StartFails \/ AwaitFails \/ Mark \/ ReadNothing \/ EmitSnapshot \/ EmitThrows
    BY <1>6, <2>1, InqSame, OutqSame
    DEF Acquire, Begin, StartFails, AwaitFails, Mark, ReadNothing, EmitSnapshot, EmitThrows
  <2>2. CASE Start
    <3>1. InqKept(0)
      BY <2>2, InqPush DEF Start, InqKept, GoQueued
    <3> QED BY <2>2, <3>1, OutqDrained DEF Start
  <2>3. CASE AwaitUciOk
    BY <2>3, InqSend, OutqPop DEF AwaitUciOk, Await
  <2>4. CASE AwaitReadyOk \/ AwaitSkips \/ ReadInfo \/ ReadOther \/ ReadBestMove
    BY <2>4, InqSame, OutqPop DEF AwaitReadyOk, AwaitSkips, ReadInfo, ReadOther, ReadBestMove, Await
  <2>5. CASE NewGame \/ SendPosition
    BY <2>5, InqSame, InqPush2, OutqSame DEF NewGame, SendPosition, TypeOK
  <2>6. ASSUME NEW o \in Options, ApplyOption(o) \/ ModeOption(o) PROVE NoNewWork
    BY <2>6, InqSend, OutqSame, WantAssumption DEF ApplyOption, ModeOption, SendOption, Differs, TypeOK
  <2>7. CASE ApplyDone
    BY <2>7, InqSame, InqSend, OutqSame DEF ApplyDone
  <2>8. CASE Drain
    BY <2>8, InqSame, OutqDrained DEF Drain
  <2>9. CASE Check
    BY <2>9, InqSame, InqSend, OutqSame DEF Check, SendStop
  <2> QED BY <1>7, <2>1, <2>2, <2>3, <2>4, <2>5, <2>6, <2>7, <2>8, <2>9 DEF EngineThread
<1> QED BY <1>1, <1>2, <1>3, <1>4, <1>5, <1>7 DEF Next, Closing

\* Work and info lines are of tasks.
LEMMA WorkTypes ==
  ASSUME TypeOK
  PROVE  /\ \A i \in GoQueued : inq[i].id \in Tasks
         /\ Thinking => srch.id \in Tasks
         /\ \A i \in BestMoveLines \cup InfoLines : outq[i].id \in Tasks
<1>1. \A i \in GoQueued : inq[i] \in Commands
  BY DEF TypeOK, CoreTypeOK, GoQueued
<1>2. \A i \in BestMoveLines \cup InfoLines : outq[i] \in Lines
  BY DEF TypeOK, CoreTypeOK, BestMoveLines, InfoLines
<1> QED BY <1>1, <1>2, CommandFields, LineFields
        DEF GoQueued, BestMoveLines, InfoLines, Thinking, TypeOK, CoreTypeOK

\* A handler that has not sent its go command runs beside leaked searches only.
LEMMA NoWorkBeforeSearch ==
  ASSUME Ownership, pc \notin {"idle", "begin"}, ~InSearch
  PROVE  Within(leaked)
<1>1. leaked \cup Holder = leaked
  BY DEF Holder
<1> QED BY <1>1 DEF Ownership

\* Sending go adds at most one command to the queue, and it carries its own task.
LEMMA SendGoEffect ==
  ASSUME TypeOK, SendGo
  PROVE  /\ mutex \in Tasks /\ Len(inq) + 1 \notin GoQueued
         /\ \A i \in GoQueued' : \/ i \in GoQueued /\ inq'[i] = inq[i]
                                 \/ i = Len(inq) + 1 /\ inq'[i].id = mutex
         /\ \A i \in GoQueued : i \in GoQueued' /\ inq'[i] = inq[i]
<1>1. mutex \in Tasks /\ inq \in Seq(Commands) /\ Len(inq) \in Nat /\ DOMAIN inq = 1 .. Len(inq)
  BY DEF SendGo, TypeOK, CoreTypeOK
<1>2. CASE running
  <2>1. inq' = Append(inq, Go(mutex)) /\ Go(mutex) \in Commands
    BY <1>1, <1>2, CommandFacts DEF SendGo, Send
  <2>2. /\ DOMAIN inq' = 1 .. Len(inq) + 1 /\ inq'[Len(inq) + 1] = Go(mutex)
        /\ \A i \in DOMAIN inq : inq'[i] = inq[i]
    BY <1>1, <2>1, AppendFacts
  <2>3. \A i \in DOMAIN inq' : i \in DOMAIN inq \/ i = Len(inq) + 1
    BY <1>1, <2>2
  <2>4. Len(inq) + 1 \notin DOMAIN inq /\ DOMAIN inq \subseteq DOMAIN inq'
    BY <1>1, <2>2
  <2>5. Go(mutex).id = mutex
    BY DEF Go
  <2> QED BY <1>1, <2>2, <2>3, <2>4, <2>5 DEF GoQueued
<1>3. CASE ~running
  <2>1. inq' = inq
    BY <1>3 DEF SendGo, Send
  <2>2. Len(inq) + 1 \notin DOMAIN inq
    BY <1>1
  <2> QED BY <1>1, <2>1, <2>2 DEF GoQueued
<1> QED BY <1>2, <1>3

\* start_thinking() turns the first go in the queue into the running search.
LEMMA LoopGoEffect ==
  ASSUME TypeOK, LoopGo
  PROVE  /\ 1 \in GoQueued /\ srch'.id = inq[1].id /\ ~Thinking /\ Thinking'
         /\ \A i \in GoQueued' : i + 1 # 1 /\ i + 1 \in GoQueued /\ inq'[i] = inq[i + 1]
         /\ outq' = outq /\ BestMoveLines' = BestMoveLines /\ InfoLines' = InfoLines
<1>1. 1 \in GoQueued /\ srch'.id = inq[1].id
  BY TailFacts DEF LoopGo, Reads, GoQueued, TypeOK, CoreTypeOK
<1>2. InqKept(1)
  BY InqPop DEF LoopGo, Reads
<1>3. \A i \in GoQueued' : i + 1 # 1
  BY DEF GoQueued, LoopGo, Reads, TypeOK, CoreTypeOK
<1>4. outq' = outq /\ ~Thinking /\ Thinking'
  BY DEF LoopGo, SearchFinished, Thinking
<1> QED BY <1>1, <1>2, <1>3, <1>4 DEF InqKept, BestMoveLines, InfoLines

\* An info line belongs to the running search and changes no other line.
LEMMA SearchInfoEffect ==
  ASSUME TypeOK, SearchInfo
  PROVE  /\ Thinking /\ Thinking' /\ srch'.id = srch.id /\ GoQueued' = GoQueued
         /\ inq' = inq
         /\ BestMoveLines' = BestMoveLines /\ \A i \in BestMoveLines : outq'[i] = outq[i]
         /\ \A i \in InfoLines' : (i \in InfoLines /\ outq'[i] = outq[i])
                                  \/ outq'[i].id = srch.id
<1>1. outq' = Append(outq, Info(srch.id)) /\ srch.id \in Tasks /\ outq \in Seq(Lines)
  BY DEF SearchInfo, Emit, TypeOK, CoreTypeOK
<1>2. /\ DOMAIN outq' = 1 .. Len(outq) + 1
      /\ \A i \in DOMAIN outq : outq'[i] = outq[i]
      /\ outq'[Len(outq) + 1] = Info(srch.id)
  BY <1>1, AppendFacts, CommandFacts
<1>3. \A i \in DOMAIN outq' : i \in DOMAIN outq \/ i = Len(outq) + 1
  BY <1>1, <1>2
<1>4. DOMAIN outq \subseteq DOMAIN outq'
  BY <1>1, <1>2
<1>5. Thinking /\ Thinking' /\ srch'.id = srch.id /\ GoQueued' = GoQueued /\ inq' = inq
  BY DEF SearchInfo, Thinking, GoQueued, TypeOK, CoreTypeOK, SearchThreads
<1> QED BY <1>2, <1>3, <1>4, <1>5 DEF BestMoveLines, InfoLines, Info

\* The bestmove line is the last and only one of its search.
LEMMA SearchBestMoveEffect ==
  ASSUME TypeOK, SearchBestMove
  PROVE  /\ Thinking /\ ~Thinking' /\ GoQueued' = GoQueued /\ inq' = inq
         /\ \A i \in BestMoveLines' : \/ i \in BestMoveLines /\ outq'[i] = outq[i]
                                      \/ i = Len(outq) + 1 /\ outq'[i].id = srch.id
         /\ \A i \in InfoLines' : i \in InfoLines /\ outq'[i] = outq[i] /\ i < Len(outq) + 1
<1>1. outq' = Append(outq, BestMove(srch.id)) /\ srch.id \in Tasks /\ outq \in Seq(Lines)
  BY DEF SearchBestMove, Emit, TypeOK, CoreTypeOK
<1>2. /\ DOMAIN outq' = 1 .. Len(outq) + 1
      /\ \A i \in DOMAIN outq : outq'[i] = outq[i]
      /\ outq'[Len(outq) + 1] = BestMove(srch.id)
  BY <1>1, AppendFacts, CommandFacts
<1>3. \A i \in DOMAIN outq' : i \in DOMAIN outq \/ i = Len(outq) + 1
  BY <1>1, <1>2
<1>4. DOMAIN outq = 1 .. Len(outq) /\ Len(outq) \in Nat
  BY <1>1
<1>5. Thinking /\ ~Thinking' /\ inq' = inq
  BY DEF SearchBestMove, Thinking, TypeOK, CoreTypeOK, SearchThreads
<1>6. \A i \in InfoLines' : i \in InfoLines /\ outq'[i] = outq[i]
  BY <1>2, <1>3 DEF InfoLines, BestMove
<1>7. \A i \in InfoLines : i < Len(outq) + 1
  BY <1>4 DEF InfoLines
<1> QED BY <1>2, <1>3, <1>5, <1>6, <1>7 DEF BestMoveLines, BestMove, GoQueued

\* OneAtATime is inductive: a search is sent once, by a task that is not leaked.
LEMMA StepOne ==
  TypeOK /\ TypeOK' /\ TurnOnce /\ Ownership /\ OneAtATime /\ [Next]_vars => OneAtATime'
<1> SUFFICES ASSUME TypeOK, TypeOK', TurnOnce, Ownership, OneAtATime, [Next]_vars PROVE OneAtATime'
  OBVIOUS
<1>1. CASE NoNewWork
  BY <1>1, KeptOne
<1>2. CASE SendGo
  <2>1. Within(leaked)
    BY <1>2, NoWorkBeforeSearch DEF SendGo, InSearch
  <2>2. mutex \notin leaked
    BY <1>2 DEF SendGo, TurnOnce, TypeOK
  <2>3. /\ Thinking' = Thinking /\ srch' = srch /\ outq' = outq
        /\ BestMoveLines' = BestMoveLines /\ InfoLines' = InfoLines
    BY <1>2 DEF SendGo, Thinking, BestMoveLines, InfoLines
  <2>4. /\ \A i \in GoQueued : inq[i].id # mutex
        /\ Thinking => srch.id # mutex
        /\ \A i \in BestMoveLines \cup InfoLines : outq[i].id # mutex
    BY <2>1, <2>2 DEF Within
  <2> QED BY <1>2, <2>3, <2>4, SendGoEffect DEF OneAtATime
<1>3. CASE LoopGo
  <2>1. /\ 1 \in GoQueued /\ srch'.id = inq[1].id /\ ~Thinking /\ Thinking'
        /\ \A i \in GoQueued' : i + 1 # 1 /\ i + 1 \in GoQueued /\ inq'[i] = inq[i + 1]
        /\ outq' = outq /\ BestMoveLines' = BestMoveLines /\ InfoLines' = InfoLines
    BY <1>3, LoopGoEffect
  <2>2. ASSUME NEW i \in GoQueued', NEW j \in GoQueued', inq'[i].id = inq'[j].id PROVE i = j
    <3>1. i + 1 = j + 1
      BY <2>1, <2>2 DEF OneAtATime
    <3>2. i \in Nat /\ j \in Nat
      BY DEF GoQueued, TypeOK, CoreTypeOK
    <3> QED BY <3>1, <3>2
  <2>3. \A i \in GoQueued' : inq'[i].id # srch'.id
    BY <2>1 DEF OneAtATime
  <2> QED BY <2>1, <2>2, <2>3 DEF OneAtATime
<1>4. CASE SearchInfo
  <2>1. ASSUME NEW i \in BestMoveLines', NEW j \in InfoLines', outq'[i].id = outq'[j].id PROVE j < i
    BY <1>4, <2>1, SearchInfoEffect DEF OneAtATime
  <2>2. ASSUME NEW i \in GoQueued', NEW j \in BestMoveLines' \cup InfoLines' PROVE inq'[i].id # outq'[j].id
    BY <1>4, SearchInfoEffect DEF OneAtATime
  <2> QED BY <1>4, <2>1, <2>2, SearchInfoEffect DEF OneAtATime
<1>5. CASE SearchBestMove
  <2>1. /\ Thinking /\ ~Thinking' /\ GoQueued' = GoQueued /\ inq' = inq
        /\ \A i \in BestMoveLines' : \/ i \in BestMoveLines /\ outq'[i] = outq[i]
                                     \/ i = Len(outq) + 1 /\ outq'[i].id = srch.id
        /\ \A i \in InfoLines' : i \in InfoLines /\ outq'[i] = outq[i] /\ i < Len(outq) + 1
    BY <1>5, SearchBestMoveEffect
  <2>2. \A i, j \in BestMoveLines' : outq'[i].id = outq'[j].id => i = j
    BY <2>1 DEF OneAtATime
  <2>3. \A i \in BestMoveLines', j \in InfoLines' : outq'[i].id = outq'[j].id => j < i
    BY <2>1 DEF OneAtATime
  <2>4. \A i \in GoQueued', j \in BestMoveLines' \cup InfoLines' : inq'[i].id # outq'[j].id
    BY <2>1 DEF OneAtATime
  <2> QED BY <2>1, <2>2, <2>3, <2>4 DEF OneAtATime
<1> QED BY <1>1, <1>2, <1>3, <1>4, <1>5, Kinds

\* Only the engine thread takes or releases searchMutex.
LEMMA EngineOnly ==
  ASSUME TypeOK, [Next]_vars, ~EngineThread
  PROVE  mutex' = mutex /\ pc' = pc /\ (closed => closed')
<1>1. CASE Native \/ NativeEnds
  BY <1>1 DEF Native, NativeEnds, appVars, closed
<1>2. CASE StopCheck \/ StopSend \/ StopPush \/ Closing
  BY <1>2 DEF StopCheck, StopSend, StopPush, Closing, CloseBegin, CloseQuit, CloseEnd, closed
<1>3. CASE \E t \in Tasks : Request(t) \/ Cancel(t)
  BY <1>3 DEF Request, Cancel, closed
<1>4. CASE UNCHANGED vars
  BY <1>4 DEF vars, appVars, closed
<1> QED BY <1>1, <1>2, <1>3, <1>4 DEF Next

\* How the engine thread can leave the part of its handler after the go command.
LEMMA EngineMoves ==
  ASSUME TypeOK, EngineThread
  PROVE  /\ closed' = closed
         /\ closed /\ pc \in {"idle", "begin"} => pc' \in {"idle", "begin"}
         /\ InSearch => \/ InSearch' /\ mutex' = mutex
                        \/ ReadBestMove
                        \/ EmitThrows
                        \/ ReadNothing /\ ~running /\ pc' = "idle"
<1> USE DEF closed, InSearch, SyncPoints
<1>1. Fail => closed' = closed /\ pc' = "idle"
  BY DEF Fail, Release
<1>2. CASE Acquire \/ Begin \/ Start \/ StartFails
  <2>1. CASE Acquire
    BY <2>1 DEF Acquire, TypeOK
  <2>2. CASE Begin
    BY <1>1, <2>2 DEF Begin, Release, Jump
  <2>3. CASE Start \/ StartFails
    BY <1>1, <2>3 DEF Start, StartFails
  <2> QED BY <1>2, <2>1, <2>2, <2>3
<1>3. CASE AwaitUciOk \/ AwaitReadyOk \/ AwaitSkips \/ AwaitFails \/ NewGame
  BY <1>1, <1>3 DEF AwaitUciOk, AwaitReadyOk, AwaitSkips, AwaitFails, NewGame, Jump, Release, appVars
<1>4. CASE ApplyDone \/ Drain \/ SendPosition \/ SendGo \/ Mark
  BY <1>4 DEF ApplyDone, Drain, SendPosition, SendGo, Mark, Jump
<1>5. CASE \E o \in Options : ApplyOption(o) \/ ModeOption(o)
  BY <1>5 DEF ApplyOption, ModeOption
<1>6. CASE Check \/ ReadNothing \/ ReadInfo \/ ReadOther
  BY <1>1, <1>6 DEF Check, ReadNothing, ReadInfo, ReadOther, Jump
<1>7. CASE ReadBestMove \/ EmitSnapshot \/ EmitThrows
  BY <1>7 DEF ReadBestMove, EmitSnapshot, EmitThrows, Jump
<1> QED BY <1>2, <1>3, <1>4, <1>5, <1>6, <1>7 DEF EngineThread

\* Searches are leaked only by the engine thread, and for good.
LEMMA LeakedGrows ==
  ASSUME [Next]_vars
  PROVE  /\ leaked \subseteq leaked'
         /\ ReadBestMove \/ EmitThrows \/ leaked' = leaked
<1>1. CASE EngineThread
  <2> USE DEF Jump, Fail, appVars
  <2>1. CASE Acquire \/ Begin \/ Start \/ StartFails \/ AwaitUciOk \/ AwaitReadyOk \/ AwaitSkips
             \/ AwaitFails \/ NewGame
    BY <2>1 DEF Acquire, Begin, Start, StartFails, AwaitUciOk, AwaitReadyOk, AwaitSkips,
                AwaitFails, NewGame
  <2>2. CASE ApplyDone \/ Drain \/ SendPosition \/ SendGo \/ Mark
             \/ \E o \in Options : ApplyOption(o) \/ ModeOption(o)
    BY <2>2 DEF ApplyDone, Drain, SendPosition, SendGo, Mark, ApplyOption, ModeOption
  <2>3. CASE Check \/ ReadNothing \/ ReadInfo \/ ReadOther \/ EmitSnapshot
    BY <2>3 DEF Check, ReadNothing, ReadInfo, ReadOther, EmitSnapshot
  <2>4. CASE ReadBestMove \/ EmitThrows
    BY <2>4 DEF ReadBestMove, EmitThrows
  <2> QED BY <1>1, <2>1, <2>2, <2>3, <2>4 DEF EngineThread
<1>2. CASE ~EngineThread
  BY <1>2
  DEF Next, Native, NativeEnds, StopCheck, StopSend, StopPush, Closing, CloseBegin, CloseQuit, CloseEnd,
      Request, Cancel, vars, appVars
<1> QED BY <1>1, <1>2

\* A step without new work leaves the work where it was.
LEMMA KeptWork ==
  ASSUME TypeOK, NoNewWork, NEW S, Within(S)
  PROVE  /\ \A i \in GoQueued' : inq'[i].id \in S
         /\ Thinking' => srch'.id \in S
         /\ \A i \in BestMoveLines' \cup InfoLines' : outq'[i].id \in S
<1>1. PICK k \in {0, 1} : InqKept(k)
  BY DEF NoNewWork
<1>2. PICK m \in {0, 1} : OutqKept(m)
  BY DEF NoNewWork
<1> QED BY <1>1, <1>2 DEF Within, NoNewWork, InqKept, OutqKept

\* ... and so do the steps of the native side.
LEMMA NativeKeeps ==
  ASSUME TypeOK, LoopGo \/ SearchInfo \/ SearchBestMove, NEW S, Within(S)
  PROVE  /\ \A i \in GoQueued' : inq'[i].id \in S
         /\ Thinking' => srch'.id \in S
         /\ \A i \in BestMoveLines' \cup InfoLines' : outq'[i].id \in S
<1>1. CASE LoopGo
  BY <1>1, LoopGoEffect DEF Within
<1>2. CASE SearchInfo
  BY <1>2, SearchInfoEffect DEF Within
<1>3. CASE SearchBestMove
  BY <1>3, SearchBestMoveEffect DEF Within
<1> QED BY <1>1, <1>2, <1>3

\* When the handler has read its bestmove nothing is left of its search: this
\* is where one search at a time and no info after bestmove are needed.
LEMMA BestMoveEndsWork ==
  ASSUME TypeOK, OneAtATime, ReadBestMove
  PROVE  LET id == Head(outq).id
         IN  /\ id \in Tasks /\ 1 \in BestMoveLines /\ id = outq[1].id
             /\ \A i \in GoQueued' : i \in GoQueued /\ inq'[i] = inq[i] /\ inq'[i].id # id
             /\ Thinking' => Thinking /\ srch'.id = srch.id /\ srch'.id # id
             /\ \A i \in BestMoveLines' \cup InfoLines' :
                  /\ i + 1 \in BestMoveLines \cup InfoLines
                  /\ outq'[i] = outq[i + 1] /\ outq'[i].id # id
<1> DEFINE id == Head(outq).id
<1>1. outq \in Seq(Lines) /\ outq # << >> /\ outq' = Tail(outq) /\ inq' = inq /\ srch' = srch
  BY DEF ReadBestMove, Await, TypeOK, CoreTypeOK
<1>2. 1 \in BestMoveLines /\ id = outq[1].id
  BY <1>1, TailFacts DEF BestMoveLines, ReadBestMove, Await
<1>3. id \in Tasks
  BY <1>2, WorkTypes
<1> HIDE DEF id
<1>4. \A i \in GoQueued' : i \in GoQueued /\ inq'[i] = inq[i] /\ inq'[i].id # id
  BY <1>1, <1>2 DEF OneAtATime, GoQueued
<1>5. Thinking' => Thinking /\ srch'.id = srch.id /\ srch'.id # id
  BY <1>1, <1>2 DEF OneAtATime, Thinking
<1>6. \A i \in BestMoveLines' \cup InfoLines' :
        /\ i \in Nat \ {0} /\ outq'[i] = outq[i + 1]
        /\ i \in BestMoveLines' => i + 1 \in BestMoveLines
        /\ i \in InfoLines' => i + 1 \in InfoLines
  BY <1>1, TailFacts DEF BestMoveLines, InfoLines
<1>7. ASSUME NEW i \in BestMoveLines' \cup InfoLines' PROVE outq'[i].id # id
  <2>1. CASE i \in BestMoveLines'
    <3>1. i + 1 \in BestMoveLines /\ i + 1 # 1
      BY <1>6, <2>1
    <3> QED BY <1>2, <1>6, <3>1 DEF OneAtATime
  <2>2. CASE i \in InfoLines'
    <3>1. i + 1 \in InfoLines /\ ~(i + 1 < 1)
      BY <1>6, <2>2
    <3> QED BY <1>2, <1>6, <3>1 DEF OneAtATime
  <2> QED BY <2>1, <2>2
<1> QED BY <1>2, <1>3, <1>4, <1>5, <1>6, <1>7 DEF id

\* What the handler reads is its own or leaked.
LEMMA ReadsOwnOrLeaked ==
  ASSUME TypeOK, Ownership, pc \in {"read", "emit"}
  PROVE  Within(leaked \cup {mutex})
<1>1. leaked \cup Holder = leaked \cup {mutex}
  BY DEF Holder, InSearch
<1> QED BY <1>1 DEF Ownership

\* Ownership is inductive, given the other parts of the invariant.
LEMMA StepOwnership ==
  ASSUME TypeOK, OpenMeansUp, Ownership, OneAtATime, [Next]_vars
  PROVE  Ownership'
<1>1. leaked \subseteq leaked'
  BY LeakedGrows
<1>2. CASE closed /\ pc \in {"idle", "begin"} /\ \E t \in Tasks : Within(leaked \cup {t})
  <2>1. PICK t \in Tasks : Within(leaked \cup {t})
    BY <1>2
  <2>2. closed' /\ pc' \in {"idle", "begin"}
    BY <1>2, EngineOnly, EngineMoves
  <2>3. NoNewWork \/ LoopGo \/ SearchInfo \/ SearchBestMove
    BY <1>2, Kinds DEF SendGo
  <2>4. /\ \A i \in GoQueued' : inq'[i].id \in leaked \cup {t}
        /\ Thinking' => srch'.id \in leaked \cup {t}
        /\ \A i \in BestMoveLines' \cup InfoLines' : outq'[i].id \in leaked \cup {t}
    BY <2>1, <2>3, KeptWork, NativeKeeps
  <2>5. Within(leaked \cup {t})'
    BY <1>1, <2>4 DEF Within
  <2> QED BY <2>2, <2>5 DEF Ownership
<1>3. CASE Within(leaked \cup Holder)
  <2>1. CASE NoNewWork
    <3>1. CASE InSearch => InSearch' /\ mutex' = mutex
      <4>1. leaked \cup Holder \subseteq (leaked \cup Holder)'
        BY <1>1, <3>1 DEF Holder
      <4>2. /\ \A i \in GoQueued' : inq'[i].id \in leaked \cup Holder
            /\ Thinking' => srch'.id \in leaked \cup Holder
            /\ \A i \in BestMoveLines' \cup InfoLines' : outq'[i].id \in leaked \cup Holder
        BY <1>3, <2>1, KeptWork
      <4>3. Within(leaked \cup Holder)'
        BY <4>1, <4>2 DEF Within
      <4> QED BY <4>3 DEF Ownership
    <3>2. CASE ReadBestMove
      <4>1. Within(leaked \cup {mutex})
        BY <3>2, ReadsOwnOrLeaked DEF ReadBestMove
      <4>2. Head(outq).id \in leaked \cup {mutex}
        BY <3>2, <4>1, BestMoveEndsWork DEF Within
      <4>3. CASE Head(outq).id \in leaked
        <5>1. leaked' = leaked \cup {mutex}
          BY <3>2, <4>3 DEF ReadBestMove
        <5>2. Within(leaked)'
          BY <3>2, <4>1, <5>1, BestMoveEndsWork DEF Within
        <5> QED BY <5>2 DEF Ownership, Within
      <4>4. CASE Head(outq).id = mutex
        <5>1. Within(leaked)'
          BY <1>1, <3>2, <4>1, <4>4, BestMoveEndsWork DEF Within
        <5> QED BY <5>1 DEF Ownership, Within
      <4> QED BY <4>2, <4>3, <4>4
    <3>3. CASE ReadNothing /\ InSearch /\ ~running /\ pc' = "idle" /\ closed' = closed
      <4>1. closed /\ closed' /\ pc = "read" /\ mutex \in Tasks
        BY <3>3 DEF OpenMeansUp, InSearch, ReadNothing, TypeOK
      <4>2. Within(leaked \cup {mutex})
        BY <4>1, ReadsOwnOrLeaked
      <4>3. leaked' = leaked
        BY <3>3, LeakedGrows DEF ReadNothing, ReadBestMove, Await, EmitThrows
      <4>4. /\ \A i \in GoQueued' : inq'[i].id \in leaked' \cup {mutex}
            /\ Thinking' => srch'.id \in leaked' \cup {mutex}
            /\ \A i \in BestMoveLines' \cup InfoLines' : outq'[i].id \in leaked' \cup {mutex}
        BY <2>1, <4>2, <4>3, KeptWork
      <4>5. \E t \in Tasks : Within(leaked \cup {t})'
        BY <4>1, <4>4 DEF Within
      <4> QED BY <3>3, <4>1, <4>5 DEF Ownership
    <3>4. CASE EmitThrows
      <4>1. Within(leaked \cup {mutex})
        BY <3>4, ReadsOwnOrLeaked DEF EmitThrows
      <4>2. leaked' = leaked \cup {mutex}
        BY <3>4 DEF EmitThrows
      <4>3. /\ \A i \in GoQueued' : inq'[i].id \in leaked \cup {mutex}
            /\ Thinking' => srch'.id \in leaked \cup {mutex}
            /\ \A i \in BestMoveLines' \cup InfoLines' : outq'[i].id \in leaked \cup {mutex}
        BY <2>1, <4>1, KeptWork
      <4>4. Within(leaked)'
        BY <4>2, <4>3 DEF Within
      <4> QED BY <4>4 DEF Ownership, Within
    <3> QED BY <3>1, <3>2, <3>3, <3>4, EngineOnly, EngineMoves DEF InSearch
  <2>2. CASE SendGo
    <3>1. Within(leaked)
      BY <2>2, NoWorkBeforeSearch DEF SendGo, InSearch
    <3>2. /\ Thinking' = Thinking /\ srch' = srch /\ outq' = outq
          /\ BestMoveLines' = BestMoveLines /\ InfoLines' = InfoLines
          /\ InSearch' /\ mutex' = mutex
      BY <2>2 DEF SendGo, Thinking, BestMoveLines, InfoLines, Jump, InSearch
    <3>3. Within(leaked \cup Holder)'
      BY <1>1, <2>2, <3>1, <3>2, SendGoEffect DEF Within, Holder
    <3> QED BY <3>3 DEF Ownership
  <2>3. CASE Native /\ (LoopGo \/ SearchInfo \/ SearchBestMove)
    <3>1. (leaked \cup Holder)' = leaked \cup Holder
      BY <2>3 DEF Native, appVars, InSearch, Holder
    <3>2. /\ \A i \in GoQueued' : inq'[i].id \in leaked \cup Holder
          /\ Thinking' => srch'.id \in leaked \cup Holder
          /\ \A i \in BestMoveLines' \cup InfoLines' : outq'[i].id \in leaked \cup Holder
      BY <1>3, <2>3, NativeKeeps
    <3>3. Within(leaked \cup Holder)'
      BY <3>1, <3>2 DEF Within
    <3> QED BY <3>3 DEF Ownership
  <2> QED BY <2>1, <2>2, <2>3, Kinds
<1> QED BY <1>2, <1>3 DEF Ownership

\* Queuing a command other than quit queues no quit.
LEMMA QuitPush ==
  ASSUME TypeOK, NoQuit, NEW c \in Commands, c.cmd # "quit", inq' = Append(inq, c)
  PROVE  NoQuit'
  BY AppendFacts DEF NoQuit, TypeOK, CoreTypeOK

\* ... also when it is sent through EngineHost::send().
LEMMA QuitSend ==
  ASSUME TypeOK, NoQuit, NEW c \in Commands, c.cmd # "quit", Send(c)
  PROVE  NoQuit'
  BY QuitPush DEF Send, NoQuit

\* ... nor do two of them.
LEMMA QuitPush2 ==
  ASSUME TypeOK, NoQuit, NEW c \in Commands, c.cmd # "quit", NEW d \in Commands, d.cmd # "quit",
         inq' = inq \o <<c, d>>
  PROVE  NoQuit'
<1>1. inq \in Seq(Commands) /\ DOMAIN inq' = 1 .. Len(inq) + 2
  BY DEF TypeOK, CoreTypeOK
<1>2. \A i \in DOMAIN inq' : inq'[i] = IF i <= Len(inq) THEN inq[i]
                                       ELSE IF i = Len(inq) + 1 THEN c ELSE d
  BY DEF TypeOK, CoreTypeOK
<1> QED BY <1>1, <1>2 DEF NoQuit

\* Reading a command queues no quit.
LEMMA QuitPop == TypeOK /\ NoQuit /\ inq # << >> /\ inq' = Tail(inq) => NoQuit'
  BY TailFacts DEF NoQuit, TypeOK, CoreTypeOK

\* OpenMeansUp is inductive: nobody but close() tells the loop to quit.
LEMMA StepOpen ==
  ASSUME TypeOK, OpenMeansUp, [Next]_vars
  PROVE  OpenMeansUp'
<1> SUFFICES ASSUME ~closed'
             PROVE  /\ NoQuit'
                    /\ loop' = (IF running' THEN "reading" ELSE "ended")
                    /\ pc' \notin {"idle", "begin", "start"} => running'
  BY DEF OpenMeansUp
<1>0. ~closed
  BY EngineOnly, EngineMoves
<1>1. /\ NoQuit
      /\ loop = (IF running THEN "reading" ELSE "ended")
      /\ pc \notin {"idle", "begin", "start"} => running
  BY <1>0 DEF OpenMeansUp
<1> HIDE DEF NoQuit
<1> USE CommandFacts DEF Plain, SetOption, PositionOf, coreVars
<1>2. CASE UNCHANGED vars
  BY <1>1, <1>2 DEF vars, appVars, NoQuit
<1>3. CASE Native
  <2>1. CASE LoopThread
    <3>1. inq # << >> /\ inq' = Tail(inq) /\ Head(inq).cmd # "quit"
      BY <1>1, <2>1, TailFacts
      DEF LoopThread, LoopStop, LoopQuit, LoopUci, LoopIsReady, LoopSetOption, LoopPosition,
          LoopNewGame, LoopGo, Reads, NoQuit, TypeOK, CoreTypeOK
    <3>2. loop' = loop
      BY <2>1, <3>1
      DEF LoopThread, LoopStop, LoopQuit, LoopUci, LoopIsReady, LoopSetOption, LoopPosition,
          LoopNewGame, LoopGo, Reads
    <3> QED BY <1>1, <1>3, <3>1, <3>2, QuitPop DEF Native, appVars
  <2>2. CASE SearchThread
    BY <1>1, <1>3, <2>2 DEF Native, appVars, SearchThread, SearchInfo, SearchBestMove, SearchParks, NoQuit
  <2> QED BY <1>3, <2>1, <2>2 DEF Native
<1>4. ~NativeEnds
  BY <1>1 DEF NativeEnds, LoopEnds
<1>5. CASE StopCheck \/ \E t \in Tasks : Request(t) \/ Cancel(t)
  BY <1>1, <1>5 DEF StopCheck, Request, Cancel, NoQuit
<1>6. CASE StopSend \/ StopPush
  BY <1>1, <1>6, QuitPush DEF StopSend, StopPush, NoQuit
<1>7. ~Closing
  BY <1>0 DEF Closing, CloseBegin, CloseQuit, CloseEnd, closed
<1>8. CASE EngineThread
  <2> USE DEF SyncPoints
  <2>0. CASE Fail
    BY <1>1, <2>0 DEF Fail, Release, NoQuit
  <2>1. CASE Acquire \/ Begin \/ Mark \/ ReadNothing \/ EmitSnapshot \/ EmitThrows
    BY <1>1, <2>0, <2>1 DEF Acquire, Begin, Mark, ReadNothing, EmitSnapshot, EmitThrows, Jump, Release, NoQuit
  <2>2. CASE StartFails \/ AwaitFails
    BY <2>0, <2>2 DEF StartFails, AwaitFails
  <2>3. CASE Start
    BY <1>1, <2>3, QuitPush DEF Start, NoQuit
  <2>4. CASE AwaitUciOk
    BY <1>1, <2>4, QuitSend DEF AwaitUciOk, Jump
  <2>5. CASE AwaitReadyOk \/ AwaitSkips \/ ReadInfo \/ ReadOther \/ ReadBestMove
    BY <1>1, <2>5 DEF AwaitReadyOk, AwaitSkips, ReadInfo, ReadOther, ReadBestMove, Release, Jump, NoQuit, appVars
  <2>6. CASE NewGame \/ SendPosition
    BY <1>1, <2>6, QuitPush2 DEF NewGame, SendPosition, Jump, TypeOK, NoQuit
  <2>7. ASSUME NEW o \in Options, ApplyOption(o) \/ ModeOption(o)
        PROVE  NoQuit' /\ UNCHANGED <<loop, running, pc>>
    BY <1>1, <2>7, QuitSend, WantAssumption DEF ApplyOption, ModeOption, SendOption, Differs, TypeOK
  <2>8. CASE ApplyDone
    BY <1>1, <2>8, QuitSend DEF ApplyDone, NoQuit
  <2>9. CASE Drain
    BY <1>1, <2>9 DEF Drain, Jump, NoQuit
  <2>10. CASE SendGo
    BY <1>1, <2>10, QuitSend DEF SendGo, Jump, Go, TypeOK
  <2>11. CASE Check
    BY <1>1, <2>11, QuitSend DEF Check, SendStop, NoQuit
  <2> QED BY <1>1, <1>8, <2>1, <2>2, <2>3, <2>4, <2>5, <2>6, <2>7, <2>8, <2>9, <2>10, <2>11 DEF EngineThread
<1> QED BY <1>2, <1>3, <1>4, <1>5, <1>6, <1>7, <1>8 DEF Next

\* OwnAnswer is inductive, given Ownership: the handler only reads lines of
\* its own search and of leaked ones.
LEMMA StepAnswer ==
  ASSUME TypeOK, Ownership, OwnAnswer, [Next]_vars
  PROVE  OwnAnswer'
<1>0. leaked \subseteq leaked'
  BY LeakedGrows
<1>1. CASE ReadBestMove
  <2>1. 1 \in BestMoveLines /\ Head(outq) = outq[1]
    BY <1>1, TailFacts DEF ReadBestMove, Await, BestMoveLines, TypeOK, CoreTypeOK
  <2>2. outq[1].id \in leaked \cup {mutex}
    BY <1>1, <2>1, ReadsOwnOrLeaked DEF Within, ReadBestMove
  <2> QED BY <1>0, <1>1, <2>1, <2>2 DEF ReadBestMove, OwnAnswer, TypeOK
<1>2. CASE ReadInfo
  <2>1. 1 \in InfoLines /\ Head(outq) = outq[1]
    BY <1>2, TailFacts DEF ReadInfo, Await, InfoLines, TypeOK, CoreTypeOK
  <2>2. outq[1].id \in leaked \cup {mutex}
    BY <1>2, <2>1, ReadsOwnOrLeaked DEF Within, ReadInfo
  <2> QED BY <1>0, <1>2, <2>1, <2>2 DEF ReadInfo, OwnAnswer, TypeOK
<1>3. CASE ~ReadBestMove /\ ~ReadInfo
  <2>1. answer' = answer /\ seen' = seen
    <3>1. CASE EngineThread
      <4> USE DEF Jump, Fail, appVars
      <4>1. CASE Acquire \/ Begin \/ Start \/ StartFails \/ AwaitUciOk \/ AwaitReadyOk \/ AwaitSkips
                 \/ AwaitFails \/ NewGame
        BY <4>1 DEF Acquire, Begin, Start, StartFails, AwaitUciOk, AwaitReadyOk, AwaitSkips,
                    AwaitFails, NewGame
      <4>2. CASE ApplyDone \/ Drain \/ SendPosition \/ SendGo \/ Mark
                 \/ \E o \in Options : ApplyOption(o) \/ ModeOption(o)
        BY <4>2 DEF ApplyDone, Drain, SendPosition, SendGo, Mark, ApplyOption, ModeOption
      <4>3. CASE Check \/ ReadNothing \/ ReadOther \/ EmitSnapshot \/ EmitThrows
        BY <4>3 DEF Check, ReadNothing, ReadOther, EmitSnapshot, EmitThrows
      <4> QED BY <1>3, <3>1, <4>1, <4>2, <4>3 DEF EngineThread
    <3>2. CASE ~EngineThread
      BY <3>2
      DEF Next, Native, NativeEnds, StopCheck, StopSend, StopPush, Closing, CloseBegin, CloseQuit, CloseEnd,
          Request, Cancel, vars, appVars
    <3> QED BY <3>1, <3>2
  <2> QED BY <1>0, <2>1 DEF OwnAnswer
<1> QED BY <1>1, <1>2, <1>3

\* The inductive invariant holds initially.
LEMMA InitInv == Init => IInv
<1> SUFFICES ASSUME Init PROVE IInv
  OBVIOUS
<1>1. inq = << >> /\ outq = << >> /\ ~Thinking /\ loop = "ended" /\ ~running /\ pc = "idle"
  BY DEF Init, CoreInit, Parked, Thinking
<1>2. GoQueued = {} /\ BestMoveLines = {} /\ InfoLines = {} /\ NoQuit
  BY <1>1 DEF GoQueued, BestMoveLines, InfoLines, NoQuit
<1>3. OwnAnswer /\ TurnOnce
  BY DEF Init, OwnAnswer, TurnOnce
<1> QED BY TypeInit, <1>1, <1>2, <1>3
        DEF IInv, OpenMeansUp, Ownership, Within, OneAtATime

\* The inductive invariant is inductive.
LEMMA NextInv == ASSUME IInv, [Next]_vars PROVE IInv'
<1>1. TypeOK'
  BY TypeNext DEF IInv
<1> QED BY <1>1, StepOpen, StepTurn, StepOwnership, StepOne, StepAnswer DEF IInv

\* The inductive invariant holds in every reachable state: what is under way is
\* leaked or belongs to the holder of searchMutex, wherever cancellations, timeouts,
\* stop() and close() fall.
THEOREM InvCorrect == Spec => []IInv
<1>1. Init => IInv
  BY InitInv
<1>2. IInv /\ [Next]_vars => IInv'
  BY NextInv
<1> QED BY <1>1, <1>2, PTL DEF Spec

\* "Race safety" of FairyStockfishEngine, as far as the code goes: when searchMutex
\* is free nothing but leaked searches is left, in the queue, in the engine or in
\* its output.
THEOREM QuietUnlessLeakedCorrect == Spec => []QuietUnlessLeaked
<1>1. IInv => QuietUnlessLeaked
  <2> SUFFICES ASSUME IInv, mutex = NoTask, ~closed PROVE Work \subseteq leaked
    BY DEF QuietUnlessLeaked
  <2>1. Holder = {} /\ leaked \cup Holder = leaked
    BY DEF Holder, InSearch, IInv, TypeOK
  <2> QED BY <2>1 DEF IInv, Ownership, Within, Work
<1> QED BY <1>1, InvCorrect, PTL

\* But for leaked searches never are two under way, whatever the callers, the
\* timeouts, stop() and close() do.
THEOREM OneSearchCorrect == Spec => []OneSearch
<1>1. IInv => OneSearch
  <2> SUFFICES ASSUME IInv PROVE OneSearch
    OBVIOUS
  <2>1. \E t : Within(leaked \cup {t})
    <3>1. CASE Within(leaked \cup Holder)
      BY <3>1 DEF Holder, Within
    <3> QED BY <3>1 DEF IInv, Ownership
  <2>2. PICK t : Within(leaked \cup {t})
    BY <2>1
  <2>3. Work \ leaked \subseteq {t}
    BY <2>2 DEF Within, Work
  <2> QED BY <2>3 DEF IInv, OneAtATime, OneSearch
<1> QED BY <1>1, InvCorrect, PTL

\* A request gets the bestmove of its own search and records only its own
\* info lines, or those of a leaked search that came in between.
THEOREM OwnAnswerCorrect == Spec => []OwnAnswer
<1>1. IInv => OwnAnswer
  BY DEF IInv
<1> QED BY <1>1, InvCorrect, PTL

-----------------------------------------------------------------------------
(* The setup of a search: the invariant behind RightSetup *)

\* A running engine will have the options that the caches record once it has
\* executed what is queued.
CacheSettles ==
  running => \A o \in Options :
               cache[o] # Unset => OptionAfter(opts, inq, Len(inq), o, cache[o])

\* What task t wants is set once the first n queued commands are executed.
OptionsWanted(t, n) ==
  \A o \in Options : Want[t][o] = Keep \/ OptionAfter(opts, inq, n, o, Want[t][o])
RootWanted(t, n) == RootAfter(opts, root, inq, n, t, Want[t][Variant])

\* What the handler has seen to so far: applyCommon(), then the other options
\* and the position.
CommonSent == {"applySync", "drain", "mode", "posSync", "go"}
Posed      == {"posSync", "go"}
HandlerSettles ==
  /\ pc \in CommonSent => \A o \in CommonOptions : ~Differs(o)
  /\ pc \in Posed => \A o \in ModeOptions : ~Differs(o)
  /\ pc \in Posed /\ running => RootWanted(mutex, Len(inq))

\* Every queued go finds what its task wants.
GoSettles == \A i \in GoQueued : OptionsWanted(inq[i].id, i - 1) /\ RootWanted(inq[i].id, i - 1)

SetupInv == CacheSettles /\ HandlerSettles /\ GoSettles /\ RightSetup

-----------------------------------------------------------------------------
(* Steps that change nothing of what the queue will have set *)

EndKept ==
  /\ \A o \in Options, v \in Values :
       OptionAfter(opts, inq, Len(inq), o, v) => OptionAfter(opts', inq', Len(inq'), o, v)
  /\ \A t \in Tasks, v \in Values :
       RootAfter(opts, root, inq, Len(inq), t, v) => RootAfter(opts', root', inq', Len(inq'), t, v)

QueueKeeps == EndKept /\ (GoSettles => GoSettles')

\* The queue only grows, by commands other than go: every queued go stays settled.
LEMMA GoStays ==
  ASSUME TypeOK, GoSettles, opts' = opts, root' = root, inq' \in Seq(Commands), InqKept(0),
         \A i \in 1 .. Len(inq) : inq'[i] = inq[i]
  PROVE  GoSettles'
<1> SUFFICES ASSUME NEW i \in GoQueued'
             PROVE  (OptionsWanted(inq[i].id, i - 1) /\ RootWanted(inq[i].id, i - 1))'
  BY DEF GoSettles
<1>1. i \in GoQueued /\ inq'[i] = inq[i] /\ i \in 1 .. Len(inq)
  BY DEF InqKept, GoQueued, TypeOK, CoreTypeOK
<1>2. i - 1 \in Nat /\ \A j \in 1 .. i - 1 : inq'[j] = inq[j]
  BY <1>1
<1>3. OptionsWanted(inq[i].id, i - 1) /\ RootWanted(inq[i].id, i - 1)
  BY <1>1 DEF GoSettles
<1> QED BY <1>1, <1>2, <1>3, AfterPrefix DEF OptionsWanted, RootWanted

\* A step that leaves the queue, the options and the position alone.
LEMMA SameKeeps == TypeOK /\ UNCHANGED <<inq, opts, root>> => QueueKeeps
<1> SUFFICES ASSUME TypeOK, UNCHANGED <<inq, opts, root>> PROVE QueueKeeps
  OBVIOUS
<1>1. EndKept
  BY DEF EndKept
<1>2. GoSettles => GoSettles'
  BY InqSame, GoStays DEF TypeOK, CoreTypeOK
<1> QED BY <1>1, <1>2 DEF QueueKeeps

\* Commands without an effect on options and position.
Inert == {Plain(c) : c \in {"isready", "stop", "quit", "ucinewgame"}}

\* ... such a command is no go, sets no option and no position.
LEMMA InertFacts ==
  ASSUME NEW c \in Inert
  PROVE  c \in Commands /\ c.cmd # "go" /\ ~SetsRoot(c) /\ \A o : ~Assigns(c, o)
  BY CommandFacts DEF Inert, Plain, SetsRoot, Assigns

\* Queueing such a command.
LEMMA PushKeeps ==
  ASSUME TypeOK, NEW c \in Inert, inq' = Append(inq, c), UNCHANGED <<opts, root>>
  PROVE  QueueKeeps
<1>1. /\ inq \in Seq(Commands) /\ inq' \in Seq(Commands) /\ Len(inq') = Len(inq) + 1
      /\ \A i \in 1 .. Len(inq) : inq'[i] = inq[i]
  BY InertFacts, AppendFacts DEF TypeOK, CoreTypeOK
<1>2. EndKept
  BY <1>1, InertFacts, AfterPush DEF EndKept
<1>3. GoSettles => GoSettles'
  BY <1>1, InertFacts, InqPush, GoStays
<1> QED BY <1>2, <1>3 DEF QueueKeeps

\* ... also through EngineHost::send().
LEMMA SendKeeps ==
  ASSUME TypeOK, NEW c \in Inert, Send(c), UNCHANGED <<opts, root>>
  PROVE  QueueKeeps
  BY SameKeeps, PushKeeps DEF Send

\* Two commands are queued one after the other.
LEMMA TwoPushes ==
  ASSUME NEW q \in Seq(Commands), NEW c \in Commands, NEW d \in Commands
  PROVE  q \o <<c, d>> = Append(Append(q, c), d) /\ Append(q, c) \in Seq(Commands)
  OBVIOUS

\* The two commands of newGame().
LEMMA NewGameKeeps ==
  ASSUME TypeOK, inq' = inq \o <<Plain("ucinewgame"), Plain("isready")>>, UNCHANGED <<opts, root>>
  PROVE  QueueKeeps
<1> DEFINE c == Plain("ucinewgame")
           d == Plain("isready")
           q == Append(inq, c)
<1>1. c \in Inert /\ d \in Inert
  BY DEF Inert
<1>2. /\ inq \in Seq(Commands) /\ q \in Seq(Commands) /\ inq' = Append(q, d)
      /\ Len(q) = Len(inq) + 1 /\ Len(inq') = Len(q) + 1
  BY <1>1, InertFacts, TwoPushes, AppendFacts DEF TypeOK, CoreTypeOK
<1>3. \A i \in 1 .. Len(inq) : inq'[i] = inq[i]
  BY DEF TypeOK, CoreTypeOK
<1>4. InqKept(0) /\ inq' \in Seq(Commands)
  BY <1>1, <1>2, InertFacts, InqPush2, AppendFacts
<1> HIDE DEF c, d, q
<1>5. EndKept
  <2>1. ASSUME NEW o \in Options, NEW v \in Values, OptionAfter(opts, inq, Len(inq), o, v)
        PROVE  OptionAfter(opts, inq', Len(inq'), o, v)
    <3>1. OptionAfter(opts, q, Len(q), o, v)
      BY <1>1, <1>2, <2>1, InertFacts, AfterPush DEF q
    <3> QED BY <1>1, <1>2, <3>1, InertFacts, AfterPush
  <2>2. ASSUME NEW t \in Tasks, NEW v \in Values, RootAfter(opts, root, inq, Len(inq), t, v)
        PROVE  RootAfter(opts, root, inq', Len(inq'), t, v)
    <3>1. RootAfter(opts, root, q, Len(q), t, v)
      BY <1>1, <1>2, <2>2, InertFacts, AfterPush DEF q
    <3> QED BY <1>1, <1>2, <3>1, InertFacts, AfterPush
  <2> QED BY <2>1, <2>2 DEF EndKept
<1> QED BY <1>3, <1>4, <1>5, GoStays DEF QueueKeeps

\* The loop executes what the queue had it execute.
LEMMA LoopKeeps == ASSUME TypeOK, LoopThread PROVE QueueKeeps
<1>1. CoreTypeOK /\ inq \in Seq(Commands) /\ inq # << >> /\ inq' = Tail(inq)
  BY LoopThreadReads DEF TypeOK, CoreTypeOK
<1>2. ASSUME NEW n \in Nat, n + 1 <= Len(inq), NEW o \in Options, NEW t, NEW v
      PROVE  /\ OptionAfter(opts, inq, n + 1, o, v) => OptionAfter(opts', inq', n, o, v)
             /\ RootAfter(opts, root, inq, n + 1, t, v) => RootAfter(opts', root', inq', n, t, v)
  BY <1>1, <1>2, LoopEffect, AfterPop, OptionsAssumption
<1>3. Len(inq') \in Nat /\ Len(inq') + 1 = Len(inq)
  BY <1>1
<1>4. EndKept
  <2>1. ASSUME NEW o \in Options, NEW t, NEW v
        PROVE  /\ OptionAfter(opts, inq, Len(inq), o, v) => OptionAfter(opts', inq', Len(inq'), o, v)
               /\ RootAfter(opts, root, inq, Len(inq), t, v)
                    => RootAfter(opts', root', inq', Len(inq'), t, v)
    <3> DEFINE n == Len(inq')
    <3>1. n \in Nat /\ n + 1 <= Len(inq) /\ Len(inq) = n + 1
      BY <1>1, <1>3
    <3> HIDE DEF n
    <3>2. /\ OptionAfter(opts, inq, n + 1, o, v) => OptionAfter(opts', inq', n, o, v)
          /\ RootAfter(opts, root, inq, n + 1, t, v) => RootAfter(opts', root', inq', n, t, v)
      BY <1>2, <3>1
    <3> QED BY <3>1, <3>2 DEF n
  <2> QED BY <2>1, OptionsAssumption DEF EndKept
<1>5. ASSUME GoSettles PROVE GoSettles'
  <2> SUFFICES ASSUME NEW i \in GoQueued'
               PROVE  (OptionsWanted(inq[i].id, i - 1) /\ RootWanted(inq[i].id, i - 1))'
    BY DEF GoSettles
  <2>1. i + 1 \in GoQueued /\ inq'[i] = inq[i + 1]
    BY <1>1, InqPop DEF InqKept
  <2>2. i - 1 \in Nat /\ (i - 1) + 1 = i /\ (i + 1) - 1 = i /\ i <= Len(inq)
    BY <1>1 DEF GoQueued
  <2>3. OptionsWanted(inq[i + 1].id, i) /\ RootWanted(inq[i + 1].id, i)
    BY <1>5, <2>1, <2>2 DEF GoSettles
  <2>4. ASSUME NEW o \in Options, NEW t, NEW v
        PROVE  /\ OptionAfter(opts, inq, i, o, v) => OptionAfter(opts', inq', i - 1, o, v)
               /\ RootAfter(opts, root, inq, i, t, v) => RootAfter(opts', root', inq', i - 1, t, v)
    BY <1>2, <2>2
  <2> QED BY <2>1, <2>3, <2>4, OptionsAssumption DEF OptionsWanted, RootWanted
<1> QED BY <1>4, <1>5 DEF QueueKeeps
-----------------------------------------------------------------------------
(* Each step keeps the setup *)

\* The engine thread works for a task, and knows each option the task needs.
LEMMA TaskWants ==
  ASSUME TypeOK, pc # "idle"
  PROVE  /\ mutex \in Tasks
         /\ \A o \in Options : Want[mutex][o] # Keep => Want[mutex][o] \in Values \ {Unset}
         /\ \A o \in CommonOptions : o \in Options /\ Want[mutex][o] \in Values \ {Unset, Keep}
         /\ Variant \in CommonOptions
  BY WantAssumption, OptionsAssumption DEF TypeOK, CommonOptions

\* A step of the queue, or of a handler that stays behind what it has sent.
LEMMA KeptSetup ==
  ASSUME TypeOK, SetupInv, QueueKeeps, RightSetup', cache' = cache, running' => running,
         pc' \in CommonSent => pc \in CommonSent /\ mutex' = mutex,
         pc' \in Posed => pc \in Posed
  PROVE  SetupInv'
<1>1. CacheSettles'
  <2>1. \A o \in Options : cache[o] # Unset => cache[o] \in Values
    BY DEF TypeOK
  <2> QED BY <2>1 DEF SetupInv, CacheSettles, QueueKeeps, EndKept
<1>2. HandlerSettles'
  <2>1. ASSUME pc' \in CommonSent PROVE (\A o \in CommonOptions : ~Differs(o))'
    BY <2>1 DEF SetupInv, HandlerSettles, Differs
  <2>2. ASSUME pc' \in Posed
        PROVE  (\A o \in ModeOptions : ~Differs(o))' /\ (running' => RootWanted(mutex, Len(inq))')
    <3>1. pc \in Posed /\ mutex' = mutex
      BY <2>2 DEF Posed, CommonSent
    <3>2. mutex \in Tasks /\ Want[mutex][Variant] \in Values
      BY <3>1, TaskWants DEF Posed
    <3> QED BY <3>1, <3>2 DEF SetupInv, HandlerSettles, Differs, QueueKeeps, EndKept, RootWanted
  <2> QED BY <2>1, <2>2 DEF HandlerSettles
<1>3. GoSettles'
  BY DEF SetupInv, QueueKeeps
<1> QED BY <1>1, <1>2, <1>3 DEF SetupInv

\* An option that differs is sent and its cache set.
LEMMA OptionSetup ==
  ASSUME TypeOK, SetupInv, NEW o \in Options, ApplyOption(o) \/ ModeOption(o)
  PROVE  SetupInv'
<1> DEFINE w == Want[mutex][o]
           c == SetOption(o, w)
<1>1. /\ w \in Values \ {Unset} /\ cache' = [cache EXCEPT ![o] = w] /\ Send(c)
      /\ UNCHANGED <<opts, root, srch, running, mutex, pc>>
      /\ pc = "apply" \/ (pc = "mode" /\ o \notin CommonOptions)
  BY TaskWants DEF ApplyOption, ModeOption, SendOption, Differs, ModeOptions
<1>2. /\ c \in Commands /\ c.cmd = "setoption" /\ c.name = o /\ c.value = w
      /\ inq \in Seq(Commands) /\ cache \in [Options -> Values \cup {Unset}]
  BY <1>1, CommandFacts DEF SetOption, TypeOK, CoreTypeOK
<1> HIDE DEF w, c
<1>3. Assigns(c, o) /\ Assigned(c) = w /\ \A x \in Options \ {o} : ~Assigns(c, x)
  BY <1>2 DEF Assigns, Assigned
<1>4. CacheSettles'
  <2> SUFFICES ASSUME running, NEW x \in Options, cache'[x] # Unset
               PROVE  OptionAfter(opts, inq', Len(inq'), x, cache'[x])
    BY <1>1 DEF CacheSettles
  <2>1. inq' = Append(inq, c) /\ Len(inq') = Len(inq) + 1
    BY <1>1, <1>2 DEF Send
  <2>2. CASE x = o
    <3>1. cache'[x] = w
      BY <1>1, <1>2, <2>2
    <3>2. OptionAfter(opts, Append(inq, c), Len(inq) + 1, o, w)
      BY <1>2, <1>3, AfterPush
    <3> QED BY <2>1, <2>2, <3>1, <3>2
  <2>3. CASE x # o
    <3>1. cache'[x] = cache[x]
      BY <1>1, <1>2, <2>3
    <3>2. OptionAfter(opts, inq, Len(inq), x, cache[x])
      BY <3>1 DEF SetupInv, CacheSettles
    <3> QED BY <1>2, <1>3, <2>1, <2>3, <3>1, <3>2, AfterPush
  <2> QED BY <2>2, <2>3
<1>5. HandlerSettles'
  BY <1>1, <1>2 DEF SetupInv, HandlerSettles, CommonSent, Posed, Differs, CommonOptions
<1>6. GoSettles'
  <2>1. CASE running
    <3>1. /\ inq' = Append(inq, c) /\ inq' \in Seq(Commands)
          /\ \A i \in 1 .. Len(inq) : inq'[i] = inq[i]
      BY <1>1, <1>2, <2>1, AppendFacts DEF Send
    <3> QED BY <1>1, <1>2, <3>1, InqPush, GoStays DEF SetupInv
  <2>2. CASE ~running
    BY <1>1, <2>2, SameKeeps DEF Send, QueueKeeps, SetupInv
  <2> QED BY <2>1, <2>2
<1>7. RightSetup'
  BY <1>1 DEF SetupInv, RightSetup, Thinking
<1> QED BY <1>4, <1>5, <1>6, <1>7 DEF SetupInv

\* applyCommon() is through: no common option differs any more.
LEMMA ApplyDoneSetup == ASSUME TypeOK, SetupInv, ApplyDone PROVE SetupInv'
<1>1. UNCHANGED <<opts, root, srch, running, mutex, cache>> /\ pc' \in CommonSent \ Posed
  BY DEF ApplyDone, CommonSent, Posed
<1>2. QueueKeeps
  BY SameKeeps, SendKeeps DEF ApplyDone, Inert
<1>3. CacheSettles'
  <2>1. \A o \in Options : cache[o] # Unset => cache[o] \in Values
    BY DEF TypeOK
  <2> QED BY <1>1, <1>2, <2>1 DEF SetupInv, CacheSettles, QueueKeeps, EndKept
<1>4. HandlerSettles'
  BY <1>1 DEF ApplyDone, HandlerSettles, Differs
<1> QED BY <1>1, <1>2, <1>3, <1>4 DEF SetupInv, QueueKeeps, RightSetup, Thinking

\* The position is sent when every option is: it is set up under the variant
\* that the task wants.
LEMMA SendPositionSetup == ASSUME TypeOK, SetupInv, SendPosition PROVE SetupInv'
<1> DEFINE c == PositionOf(mutex)
           d == Plain("isready")
           q == Append(inq, c)
           w == Want[mutex][Variant]
<1>1. /\ UNCHANGED <<opts, root, srch, running, mutex, cache>> /\ pc = "mode" /\ pc' = "posSync"
      /\ inq' = IF running THEN inq \o <<c, d>> ELSE inq
      /\ \A o \in ModeOptions : ~Differs(o)
  BY DEF SendPosition, Jump
<1>2. \A o \in CommonOptions : ~Differs(o)
  BY <1>1 DEF SetupInv, HandlerSettles, CommonSent
<1>3. mutex \in Tasks /\ w \in Values \ {Unset} /\ cache[Variant] = w /\ Variant \in Options
  BY <1>1, <1>2, TaskWants DEF Differs
<1>4. /\ c \in Commands /\ c.cmd = "position" /\ \A o : ~Assigns(c, o)
      /\ d \in Commands /\ d.cmd # "go" /\ ~SetsRoot(d) /\ \A o : ~Assigns(d, o)
  BY <1>3, CommandFacts, InertFacts DEF PositionOf, Assigns, Inert
<1>5. /\ inq \in Seq(Commands) /\ q \in Seq(Commands)
      /\ inq \o <<c, d>> = Append(q, d)
      /\ Len(q) = Len(inq) + 1 /\ Len(Append(q, d)) = Len(q) + 1
  BY <1>4, TwoPushes, AppendFacts DEF TypeOK, CoreTypeOK
<1> HIDE DEF d, w
<1>6. CASE ~running
  <2>1. QueueKeeps
    BY <1>1, <1>6, SameKeeps
  <2>2. CacheSettles'
    BY <1>1, <1>6 DEF CacheSettles
  <2>3. HandlerSettles'
    BY <1>1, <1>2, <1>6 DEF HandlerSettles, Differs
  <2> QED BY <1>1, <2>1, <2>2, <2>3 DEF SetupInv, QueueKeeps, RightSetup, Thinking
<1>7. CASE running
  <2>1. inq' = Append(q, d) /\ Len(inq') = Len(q) + 1
    BY <1>1, <1>5, <1>7
  <2>2. ASSUME NEW o \in Options, NEW v \in Values, OptionAfter(opts, inq, Len(inq), o, v)
        PROVE  OptionAfter(opts, inq', Len(inq'), o, v)
    <3>1. OptionAfter(opts, q, Len(q), o, v)
      BY <1>4, <1>5, <2>2, AfterPush
    <3> QED BY <1>4, <1>5, <2>1, <3>1, AfterPush
  <2>3. CacheSettles'
    <3>1. \A o \in Options : cache[o] # Unset => cache[o] \in Values
      BY DEF TypeOK
    <3> QED BY <1>1, <2>2, <3>1 DEF SetupInv, CacheSettles
  <2>4. RootAfter(opts, root, inq', Len(inq'), mutex, w)
    <3>1. OptionAfter(opts, inq, Len(inq), Variant, w)
      BY <1>3, <1>7 DEF SetupInv, CacheSettles
    <3>2. RootAfter(opts, root, q, Len(q), mutex, w)
      BY <1>4, <1>5, <3>1, AfterPush
    <3> QED BY <1>4, <1>5, <2>1, <3>2, AfterPush
  <2>5. HandlerSettles'
    BY <1>1, <1>2, <2>4 DEF HandlerSettles, Differs, RootWanted, w
  <2>6. GoSettles'
    <3>1. inq' \in Seq(Commands)
      BY <1>4, <1>5, <2>1, AppendFacts
    <3>2. InqKept(0)
      BY <1>1, <1>4, <1>7, InqPush2
    <3>3. \A i \in 1 .. Len(inq) : inq'[i] = inq[i]
      BY <1>4, <1>5, <2>1, AppendFacts
    <3> QED BY <1>1, <3>1, <3>2, <3>3, GoStays DEF SetupInv
  <2> QED BY <1>1, <2>3, <2>5, <2>6 DEF SetupInv, RightSetup, Thinking
<1> QED BY <1>6, <1>7

\* The go command finds the options and the position that were sent before it.
LEMMA SendGoSetup == ASSUME TypeOK, SetupInv, SendGo PROVE SetupInv'
<1> DEFINE c == Go(mutex)
           n == Len(inq)
<1>1. /\ UNCHANGED <<opts, root, srch, running, mutex, cache>> /\ pc = "go" /\ pc' = "mark"
      /\ inq' = IF running THEN Append(inq, c) ELSE inq
  BY DEF SendGo, Jump, Send
<1>2. HandlerSettles'
  BY <1>1 DEF HandlerSettles, CommonSent, Posed
<1>3. CASE ~running
  <2>1. QueueKeeps
    BY <1>1, <1>3, SameKeeps
  <2> QED BY <1>1, <1>2, <1>3, <2>1 DEF SetupInv, QueueKeeps, CacheSettles, RightSetup, Thinking
<1>4. CASE running
  <2>1. /\ mutex \in Tasks /\ c \in Commands /\ c.cmd = "go" /\ c.id = mutex
        /\ inq \in Seq(Commands) /\ inq' = Append(inq, c)
        /\ \A o : ~Assigns(c, o)
    BY <1>1, <1>4, TaskWants, CommandFacts DEF Go, Assigns, TypeOK, CoreTypeOK
  <2>2. /\ n \in Nat /\ Len(inq') = n + 1 /\ DOMAIN inq' = 1 .. n + 1
        /\ inq'[n + 1] = c /\ \A i \in 1 .. n : inq'[i] = inq[i]
    BY <2>1, AppendFacts
  <2> HIDE DEF c, n
  <2>3. CacheSettles'
    <3>1. ASSUME NEW o \in Options, cache[o] # Unset
          PROVE  OptionAfter(opts, inq', Len(inq'), o, cache[o])
      <4>1. OptionAfter(opts, inq, Len(inq), o, cache[o])
        BY <1>4, <3>1 DEF SetupInv, CacheSettles
      <4> QED BY <2>1, <2>2, <4>1, AfterPush DEF n
    <3> QED BY <1>1, <3>1 DEF CacheSettles
  <2>4. \A o \in Options : ~Differs(o)
    BY <1>1 DEF SetupInv, HandlerSettles, CommonSent, Posed, ModeOptions
  <2>5. OptionsWanted(mutex, n) /\ RootWanted(mutex, n)
    <3>1. RootWanted(mutex, n)
      BY <1>1, <1>4 DEF SetupInv, HandlerSettles, Posed, n
    <3>2. ASSUME NEW o \in Options, Want[mutex][o] # Keep
          PROVE  OptionAfter(opts, inq, n, o, Want[mutex][o])
      <4>1. cache[o] = Want[mutex][o] /\ cache[o] # Unset
        BY <1>1, <2>4, <3>2, TaskWants DEF Differs
      <4> QED BY <1>4, <4>1 DEF SetupInv, CacheSettles, n
    <3> QED BY <3>1, <3>2 DEF OptionsWanted
  <2>6. GoSettles'
    <3> SUFFICES ASSUME NEW i \in GoQueued'
                 PROVE  (OptionsWanted(inq[i].id, i - 1) /\ RootWanted(inq[i].id, i - 1))'
      BY DEF GoSettles
    <3>1. i \in 1 .. n + 1 /\ inq'[i].cmd = "go" /\ i - 1 \in Nat /\ i - 1 <= n
      BY <2>2 DEF GoQueued
    <3>2. OptionsWanted(inq'[i].id, i - 1) /\ RootWanted(inq'[i].id, i - 1)
      <4>1. CASE i = n + 1
        <5>1. i - 1 = n /\ inq'[i].id = mutex
          BY <2>1, <2>2, <4>1
        <5> QED BY <2>5, <5>1
      <4>2. CASE i # n + 1
        <5>1. i \in 1 .. n /\ inq'[i] = inq[i]
          BY <2>2, <3>1, <4>2
        <5>2. i \in GoQueued
          BY <2>1, <3>1, <5>1 DEF GoQueued, n
        <5> QED BY <5>1, <5>2 DEF SetupInv, GoSettles
      <4> QED BY <4>1, <4>2
    <3>3. \A j \in 1 .. i - 1 : inq'[j] = inq[j]
      BY <2>2, <3>1
    <3> QED BY <1>1, <3>1, <3>2, <3>3, AfterPrefix DEF OptionsWanted, RootWanted
  <2> QED BY <1>1, <1>2, <2>3, <2>6 DEF SetupInv, RightSetup, Thinking
<1> QED BY <1>3, <1>4

\* A new session: nothing is cached, and of the old queue at most what a
\* running engine still has to read is left.
LEMMA StartSetup == ASSUME TypeOK, SetupInv, Start PROVE SetupInv'
<1> DEFINE c == Plain("uci")
<1>1. /\ cache' = [o \in Options |-> Unset] /\ pc' = "uciWait"
      /\ UNCHANGED <<opts, root, srch>>
      /\ inq' = Append(IF running THEN inq ELSE << >>, c)
      /\ c \in Commands /\ c.cmd # "go" /\ inq \in Seq(Commands)
  BY CommandFacts DEF Start, Plain, TypeOK, CoreTypeOK
<1>2. CacheSettles'
  BY <1>1 DEF CacheSettles
<1>3. HandlerSettles'
  BY <1>1 DEF HandlerSettles, CommonSent, Posed
<1>4. GoSettles'
  <2>1. CASE running
    <3>1. /\ inq' = Append(inq, c) /\ inq' \in Seq(Commands)
          /\ \A i \in 1 .. Len(inq) : inq'[i] = inq[i]
      BY <1>1, <2>1, AppendFacts
    <3> QED BY <1>1, <3>1, InqPush, GoStays DEF SetupInv
  <2>2. CASE ~running
    <3>1. inq' = <<c>>
      BY <1>1, <2>2
    <3>2. GoQueued' = {}
      BY <1>1, <3>1 DEF GoQueued
    <3> QED BY <3>2 DEF GoSettles
  <2> QED BY <2>1, <2>2
<1> QED BY <1>1, <1>2, <1>3, <1>4 DEF SetupInv, RightSetup, Thinking

\* The search that start_thinking() begins has the setup its task wants.
LEMMA LoopGoSetup == ASSUME TypeOK, SetupInv, LoopGo PROVE RightSetup'
<1> DEFINE t == Head(inq).id
<1>1. /\ inq # << >> /\ Head(inq) = inq[1] /\ inq[1] \in Commands
      /\ inq[1].cmd = "go" /\ 1 \in DOMAIN inq
      /\ srch' = [phase |-> "thinking", id |-> t, on |-> root.of,
                  variant |-> root.variant, opts |-> opts, infos |-> 0]
  BY TailFacts DEF LoopGo, Reads, TypeOK, CoreTypeOK
<1>2. t \in Tasks
  BY <1>1, CommandFields
<1>3. OptionsWanted(t, 0) /\ RootWanted(t, 0)
  BY <1>1 DEF SetupInv, GoSettles, GoQueued
<1> HIDE DEF t
<1>4. \A o \in Options : Want[t][o] \in {Keep, opts[o]}
  BY <1>3 DEF OptionsWanted, OptionAfter
<1>5. root.of = t /\ root.variant = Want[t][Variant]
  BY <1>3 DEF RootWanted, RootAfter
<1> QED BY <1>1, <1>4, <1>5 DEF RightSetup

\* Every step keeps the setup.
LEMMA NextSetup == ASSUME TypeOK, SetupInv, [Next]_vars PROVE SetupInv'
<1>1. srch' = srch => RightSetup'
  BY DEF SetupInv, RightSetup, Thinking
<1> USE DEF CommonSent, Posed
<1>2. CASE LoopThread /\ UNCHANGED appVars
  <2>1. RightSetup'
    <3>1. LoopGo \/ srch' = srch
      BY <1>2 DEF LoopThread, LoopStop, LoopQuit, LoopUci, LoopIsReady, LoopSetOption,
                  LoopPosition, LoopNewGame
    <3> QED BY <1>1, <3>1, LoopGoSetup
  <2> QED BY <1>2, <2>1, LoopKeeps, KeptSetup DEF appVars
<1>3. CASE SearchThread /\ UNCHANGED appVars
  <2>1. RightSetup'
    <3>1. srch \in SearchThreads
      BY DEF TypeOK, CoreTypeOK
    <3> QED BY <1>3, <3>1 DEF SearchThread, SearchInfo, SearchBestMove, SearchParks, Parked,
                 SearchThreads, SetupInv, RightSetup, Thinking
  <2>2. UNCHANGED <<inq, opts, root>>
    BY <1>3 DEF SearchThread, SearchInfo, SearchBestMove, SearchParks
  <2> QED BY <1>3, <2>1, <2>2, SameKeeps, KeptSetup DEF appVars
<1>4. CASE UNCHANGED vars
  BY <1>1, <1>4, SameKeeps, KeptSetup DEF vars, coreVars, appVars
<1>5. ASSUME SendStop PROVE \E c \in Inert : Send(c)
  BY <1>5 DEF SendStop, Inert
<1>6. CASE NativeEnds \/ StopCheck \/ \E t \in Tasks : Request(t) \/ Cancel(t)
  BY <1>1, <1>6, SameKeeps, KeptSetup DEF NativeEnds, LoopEnds, StopCheck, Request, Cancel, coreVars
<1>7. CASE StopSend \/ StopPush
  BY <1>1, <1>7, SameKeeps, PushKeeps, KeptSetup DEF StopSend, StopPush, Inert
<1>8. CASE Closing
  <2>1. UNCHANGED <<opts, root, srch, cache, pc, mutex>> /\ (running' => running)
    BY <1>8 DEF Closing, CloseBegin, CloseQuit, CloseEnd, coreVars
  <2>2. QueueKeeps
    <3>1. CASE CloseBegin
      BY <1>5, <2>1, <3>1, SameKeeps, SendKeeps DEF CloseBegin
    <3>2. CASE CloseQuit
      BY <2>1, <3>2, SameKeeps, PushKeeps DEF CloseQuit, Inert
    <3>3. CASE CloseEnd
      BY <2>1, <3>3, SameKeeps DEF CloseEnd, coreVars
    <3> QED BY <1>8, <3>1, <3>2, <3>3 DEF Closing
  <2> QED BY <1>1, <2>1, <2>2, KeptSetup
<1>9. Fail => SetupInv'
  BY <1>1, SameKeeps, KeptSetup DEF Fail, Release, coreVars
<1>10. CASE EngineThread
  <2>1. CASE Acquire \/ Begin \/ StartFails \/ AwaitFails
    BY <1>1, <1>9, <2>1, SameKeeps, KeptSetup
    DEF Acquire, Begin, StartFails, AwaitFails, Release, Jump, AfterStart, coreVars
  <2>2. CASE Mark \/ ReadNothing \/ EmitSnapshot \/ EmitThrows
    BY <1>1, <1>9, <2>2, SameKeeps, KeptSetup
    DEF Mark, ReadNothing, EmitSnapshot, EmitThrows, Release, Jump, coreVars
  <2>3. CASE Start
    BY <2>3, StartSetup
  <2>4. CASE AwaitUciOk
    BY <1>1, <2>4, SendKeeps, KeptSetup DEF AwaitUciOk, Jump, Inert
  <2>5. CASE AwaitReadyOk
    BY <1>1, <2>5, SameKeeps, KeptSetup DEF AwaitReadyOk, Release, AfterStart, SyncPoints
  <2>6. CASE AwaitSkips \/ ReadInfo \/ ReadOther \/ ReadBestMove
    BY <1>1, <2>6, SameKeeps, KeptSetup
    DEF AwaitSkips, ReadInfo, ReadOther, ReadBestMove, Release, Jump, appVars
  <2>7. CASE NewGame
    BY <1>1, <2>7, SameKeeps, NewGameKeeps, KeptSetup DEF NewGame, Jump
  <2>8. CASE ApplyDone \/ SendPosition \/ SendGo \/ \E o \in Options : ApplyOption(o) \/ ModeOption(o)
    BY <2>8, ApplyDoneSetup, SendPositionSetup, SendGoSetup, OptionSetup
  <2>9. CASE Drain
    BY <1>1, <2>9, SameKeeps, KeptSetup DEF Drain, Jump
  <2>10. CASE Check
    BY <1>1, <1>5, <2>10, SameKeeps, SendKeeps, KeptSetup DEF Check
  <2> QED BY <1>10, <2>1, <2>2, <2>3, <2>4, <2>5, <2>6, <2>7, <2>8, <2>9, <2>10 DEF EngineThread
<1> QED BY <1>2, <1>3, <1>4, <1>6, <1>7, <1>8, <1>10 DEF Next, Native

\* Every search runs on the position and under the options that its request
\* asked for: the caches never claim more than what the engine will have set
\* by the time it reads the go command, and that across timeouts, restarts of
\* the session, stop() and close().
THEOREM RightSetupCorrect == Spec => []RightSetup
<1>1. Init => TypeOK /\ SetupInv
  <2> SUFFICES ASSUME Init PROVE SetupInv
    BY TypeInit
  <2>1. CacheSettles /\ HandlerSettles /\ RightSetup
    BY DEF Init, CoreInit, Parked, CacheSettles, HandlerSettles, CommonSent, Posed, RightSetup, Thinking
  <2>2. GoSettles
    BY DEF Init, CoreInit, GoSettles, GoQueued
  <2> QED BY <2>1, <2>2 DEF SetupInv
<1>2. (TypeOK /\ SetupInv) /\ [Next]_vars => (TypeOK /\ SetupInv)'
  BY TypeNext, NextSetup
<1>3. SetupInv => RightSetup
  BY DEF SetupInv
<1> QED BY <1>1, <1>2, <1>3, PTL DEF Spec

-----------------------------------------------------------------------------
\* The work in the queue and in the output.
GoIds   == {inq[i].id : i \in GoQueued}
BestIds == {outq[i].id : i \in BestMoveLines}

\* The work under way is the same if each of its three places is.
LEMMA WorkSame ==
  ASSUME GoIds' = GoIds, BestIds' = BestIds, Thinking' = Thinking, Thinking => srch'.id = srch.id
  PROVE  Work' = Work
  BY DEF Work, GoIds, BestIds

\* A command other than go asks for no search.
LEMMA GoIdsPush ==
  ASSUME TypeOK, NEW c \in Commands, c.cmd # "go", inq' = Append(inq, c)
  PROVE  GoIds' = GoIds
<1>1. inq \in Seq(Commands) /\ DOMAIN inq = 1 .. Len(inq) /\ Len(inq) \in Nat
  BY DEF TypeOK, CoreTypeOK
<1>2. /\ DOMAIN inq' = 1 .. Len(inq) + 1
      /\ \A i \in DOMAIN inq : inq'[i] = inq[i]
      /\ inq'[Len(inq) + 1] = c
  BY <1>1, AppendFacts
<1>3. GoQueued' = GoQueued
  BY <1>1, <1>2 DEF GoQueued
<1>4. \A i \in GoQueued : inq'[i] = inq[i]
  BY <1>2 DEF GoQueued
<1> QED BY <1>3, <1>4 DEF GoIds

\* ... also when it is sent through EngineHost::send().
LEMMA GoIdsSend ==
  ASSUME TypeOK, NEW c \in Commands, c.cmd # "go", Send(c)
  PROVE  GoIds' = GoIds
  BY GoIdsPush DEF Send, GoIds, GoQueued

\* Reading another command loses no go.
LEMMA GoIdsPop ==
  ASSUME TypeOK, inq # << >>, Head(inq).cmd # "go", inq' = Tail(inq)
  PROVE  GoIds' = GoIds
<1>1. inq \in Seq(Commands) /\ DOMAIN inq = 1 .. Len(inq) /\ Len(inq) \in Nat
  BY DEF TypeOK, CoreTypeOK
<1>2. /\ DOMAIN inq' = 1 .. Len(inq) - 1 /\ inq[1].cmd # "go"
      /\ \A i \in DOMAIN inq' : inq'[i] = inq[i + 1]
  BY <1>1, TailFacts
<1>3. \A i \in GoQueued' : i + 1 \in GoQueued /\ inq'[i] = inq[i + 1]
  BY <1>1, <1>2 DEF GoQueued
<1>4. \A i \in GoQueued : i - 1 \in GoQueued' /\ inq'[i - 1] = inq[i]
  BY <1>1, <1>2 DEF GoQueued
<1>5. GoIds' \subseteq GoIds
  BY <1>3 DEF GoIds
<1>6. GoIds \subseteq GoIds'
  <2> SUFFICES ASSUME NEW i \in GoQueued PROVE inq[i].id \in GoIds'
    BY DEF GoIds
  <2> QED BY <1>4 DEF GoIds
<1> QED BY <1>5, <1>6

\* A line other than bestmove answers no search.
LEMMA BestIdsPush ==
  ASSUME TypeOK, NEW l \in Lines, l.kind # "bestmove", outq' = Append(outq, l)
  PROVE  BestIds' = BestIds
<1>1. outq \in Seq(Lines) /\ DOMAIN outq = 1 .. Len(outq) /\ Len(outq) \in Nat
  BY DEF TypeOK, CoreTypeOK
<1>2. /\ DOMAIN outq' = 1 .. Len(outq) + 1
      /\ \A i \in DOMAIN outq : outq'[i] = outq[i]
      /\ outq'[Len(outq) + 1] = l
  BY <1>1, AppendFacts
<1>3. BestMoveLines' = BestMoveLines
  BY <1>1, <1>2 DEF BestMoveLines
<1>4. \A i \in BestMoveLines : outq'[i] = outq[i]
  BY <1>2 DEF BestMoveLines
<1> QED BY <1>3, <1>4 DEF BestIds

\* Reading another line loses no bestmove.
LEMMA BestIdsPop ==
  ASSUME TypeOK, outq # << >>, Head(outq).kind # "bestmove", outq' = Tail(outq)
  PROVE  BestIds' = BestIds
<1>1. outq \in Seq(Lines) /\ DOMAIN outq = 1 .. Len(outq) /\ Len(outq) \in Nat
  BY DEF TypeOK, CoreTypeOK
<1>2. /\ DOMAIN outq' = 1 .. Len(outq) - 1 /\ outq[1].kind # "bestmove"
      /\ \A i \in DOMAIN outq' : outq'[i] = outq[i + 1]
  BY <1>1, TailFacts
<1>3. \A i \in BestMoveLines' : i + 1 \in BestMoveLines /\ outq'[i] = outq[i + 1]
  BY <1>1, <1>2 DEF BestMoveLines
<1>4. \A i \in BestMoveLines : i - 1 \in BestMoveLines' /\ outq'[i - 1] = outq[i]
  BY <1>1, <1>2 DEF BestMoveLines
<1>5. BestIds' \subseteq BestIds
  BY <1>3 DEF BestIds
<1>6. BestIds \subseteq BestIds'
  <2> SUFFICES ASSUME NEW i \in BestMoveLines PROVE outq[i].id \in BestIds'
    BY DEF BestIds
  <2> QED BY <1>4 DEF BestIds
<1> QED BY <1>5, <1>6

\* Steps that leave the native side alone leave the work alone.
LEMMA CoreSame == UNCHANGED coreVars => Work' = Work
  BY DEF coreVars, Work, GoQueued, BestMoveLines, Thinking

\* The native side moves work from the queue to the thread to the output and
\* loses none: every go command is answered by exactly one bestmove.
LEMMA NativeWork ==
  ASSUME TypeOK, LoopThread \/ SearchThread
  PROVE  Work' = Work
<1> USE CommandFacts
<1>1. CASE LoopUci \/ LoopIsReady
  <2>1. GoIds' = GoIds
    BY <1>1, GoIdsPop DEF LoopUci, LoopIsReady, Reads
  <2>2. BestIds' = BestIds
    BY <1>1, BestIdsPush DEF LoopUci, LoopIsReady, Emit, UciOk, ReadyOk
  <2> QED BY <1>1, <2>1, <2>2, WorkSame DEF LoopUci, LoopIsReady, Thinking
<1>2. CASE LoopStop \/ LoopQuit \/ LoopSetOption \/ LoopPosition \/ LoopNewGame
  <2>1. GoIds' = GoIds
    BY <1>2, GoIdsPop DEF LoopStop, LoopQuit, LoopSetOption, LoopPosition, LoopNewGame, Reads
  <2>2. outq' = outq /\ srch' = srch
    BY <1>2 DEF LoopStop, LoopQuit, LoopSetOption, LoopPosition, LoopNewGame
  <2> QED BY <2>1, <2>2, WorkSame DEF BestIds, BestMoveLines, Thinking
<1>3. CASE LoopGo
  <2>1. ~Thinking /\ Thinking' /\ srch'.id = inq[1].id /\ BestIds' = BestIds
    BY <1>3, LoopGoEffect DEF BestIds
  <2>2. /\ inq \in Seq(Commands) /\ DOMAIN inq = 1 .. Len(inq) /\ Len(inq) \in Nat
        /\ DOMAIN inq' = 1 .. Len(inq) - 1
        /\ \A i \in DOMAIN inq' : inq'[i] = inq[i + 1]
    BY <1>3, TailFacts DEF LoopGo, Reads, TypeOK, CoreTypeOK
  <2>3. \A i \in GoQueued : i = 1 \/ (i - 1 \in GoQueued' /\ inq'[i - 1] = inq[i])
    BY <2>2 DEF GoQueued
  <2>4. GoIds \subseteq GoIds' \cup {inq[1].id}
    <3> SUFFICES ASSUME NEW i \in GoQueued PROVE inq[i].id \in GoIds' \cup {inq[1].id}
      BY DEF GoIds
    <3> QED BY <2>3 DEF GoIds
  <2>5. GoIds' \cup {inq[1].id} \subseteq GoIds
    BY <1>3, LoopGoEffect DEF GoIds
  <2> QED BY <2>1, <2>4, <2>5 DEF Work, GoIds, BestIds
<1>4. CASE SearchInfo
  <2>1. srch.id \in Tasks
    BY <1>4 DEF SearchInfo, TypeOK, CoreTypeOK
  <2>2. BestIds' = BestIds
    BY <1>4, <2>1, BestIdsPush DEF SearchInfo, Emit, Info
  <2> QED BY <1>4, <2>2, SearchInfoEffect, WorkSame DEF GoIds
<1>5. CASE SearchBestMove
  <2>1. Thinking /\ ~Thinking' /\ GoIds' = GoIds
    BY <1>5, SearchBestMoveEffect DEF GoIds
  <2>2. outq' = Append(outq, BestMove(srch.id)) /\ srch.id \in Tasks /\ outq \in Seq(Lines)
    BY <1>5 DEF SearchBestMove, Emit, TypeOK, CoreTypeOK
  <2>3. /\ DOMAIN outq' = 1 .. Len(outq) + 1 /\ outq'[Len(outq) + 1] = BestMove(srch.id)
        /\ \A i \in DOMAIN outq : outq'[i] = outq[i]
    BY <2>2, AppendFacts
  <2>4. Len(outq) + 1 \in BestMoveLines' /\ outq'[Len(outq) + 1].id = srch.id
    BY <2>2, <2>3 DEF BestMoveLines, BestMove
  <2>5. \A i \in BestMoveLines : i \in BestMoveLines' /\ outq'[i] = outq[i]
    BY <2>2, <2>3 DEF BestMoveLines
  <2>6. BestIds \cup {srch.id} \subseteq BestIds'
    BY <2>4, <2>5 DEF BestIds
  <2>7. BestIds' \subseteq BestIds \cup {srch.id}
    BY <1>5, SearchBestMoveEffect DEF BestIds
  <2> QED BY <2>1, <2>6, <2>7 DEF Work, GoIds, BestIds
<1>6. CASE SearchParks
  BY <1>6 DEF SearchParks, Parked, Work, GoQueued, BestMoveLines, Thinking
<1> QED BY <1>1, <1>2, <1>3, <1>4, <1>5, <1>6 DEF LoopThread, SearchThread

\* Queuing a command other than go leaves the work alone.
LEMMA PushWork ==
  ASSUME TypeOK, NEW c \in Commands, c.cmd # "go", inq' = Append(inq, c), UNCHANGED <<outq, srch>>
  PROVE  Work' = Work
  BY GoIdsPush, WorkSame DEF BestIds, BestMoveLines, Thinking

\* ... also when it is sent through EngineHost::send().
LEMMA SendWork ==
  ASSUME TypeOK, NEW c \in Commands, c.cmd # "go", Send(c), UNCHANGED <<outq, srch>>
  PROVE  Work' = Work
  BY GoIdsSend, WorkSame DEF BestIds, BestMoveLines, Thinking

\* Work that is not new was there before.
LEMMA WorkKept ==
  ASSUME TypeOK, NoNewWork
  PROVE  Work' \subseteq Work
<1>1. PICK k \in {0, 1} : InqKept(k)
  BY DEF NoNewWork
<1>2. PICK m \in {0, 1} : OutqKept(m)
  BY DEF NoNewWork
<1>3. \A i \in GoQueued' : inq'[i].id \in Work
  BY <1>1 DEF InqKept, Work
<1>4. \A i \in BestMoveLines' : outq'[i].id \in Work
  BY <1>2 DEF OutqKept, Work
<1>5. Thinking' => srch'.id \in Work
  BY DEF NoNewWork, Work
<1> QED BY <1>3, <1>4, <1>5 DEF Work

\* Every step of the engine thread but go, bestmove and a leak leaves the work
\* alone, except that drain() and readUntil() may throw leaked bestmoves away.
LEMMA EngineWork ==
  ASSUME TypeOK, Ownership, EngineThread, ~SendGo, ~ReadBestMove, ~EmitThrows
  PROVE  /\ Work' \subseteq Work /\ Work \ Work' \subseteq leaked
         /\ answer' = answer /\ leaked' = leaked
<1> USE CommandFacts DEF Plain
<1>1. answer' = answer
  <2> USE DEF Jump, Fail, appVars
  <2>1. CASE Acquire \/ Begin \/ Start \/ StartFails \/ AwaitUciOk \/ AwaitReadyOk \/ AwaitSkips
             \/ AwaitFails \/ NewGame
    BY <2>1 DEF Acquire, Begin, Start, StartFails, AwaitUciOk, AwaitReadyOk, AwaitSkips,
                AwaitFails, NewGame
  <2>2. CASE ApplyDone \/ Drain \/ SendPosition \/ Mark
             \/ \E o \in Options : ApplyOption(o) \/ ModeOption(o)
    BY <2>2 DEF ApplyDone, Drain, SendPosition, Mark, ApplyOption, ModeOption
  <2>3. CASE Check \/ ReadNothing \/ ReadInfo \/ ReadOther \/ EmitSnapshot
    BY <2>3 DEF Check, ReadNothing, ReadInfo, ReadOther, EmitSnapshot
  <2> QED BY <2>1, <2>2, <2>3 DEF EngineThread
<1>0. [Next]_vars
  BY DEF Next
<1>7. leaked' = leaked
  BY <1>0, LeakedGrows
<1>2. CASE pc \notin {"idle", "begin"} /\ ~InSearch
  <2>1. Within(leaked)
    BY <1>2, NoWorkBeforeSearch
  <2>2. Work \subseteq leaked
    BY <2>1 DEF Within, Work
  <2>3. CASE NoNewWork
    BY <1>1, <1>7, <2>2, <2>3, WorkKept
  <2>4. CASE Native
    <3>1. Work' = Work
      BY <2>4, NativeWork DEF Native
    <3> QED BY <1>1, <1>7, <3>1
  <2> QED BY <1>0, <2>3, <2>4, Kinds
<1>3. CASE Acquire \/ Begin \/ Mark \/ ReadNothing \/ EmitSnapshot
  BY <1>1, <1>3, <1>7, CoreSame DEF Acquire, Begin, Mark, ReadNothing, EmitSnapshot, Fail, Jump
<1>4. CASE Check
  BY <1>1, <1>4, <1>7, SendWork, CoreSame DEF Check, SendStop, coreVars
<1>5. CASE ReadInfo \/ ReadOther
  <2>1. BestIds' = BestIds
    BY <1>5, BestIdsPop DEF ReadInfo, ReadOther, Await
  <2>2. Work' = Work
    BY <1>5, <2>1, WorkSame DEF ReadInfo, ReadOther, GoIds, GoQueued, Thinking
  <2> QED BY <1>1, <1>7, <2>2
<1>6. Acquire => pc = "idle"
  BY DEF Acquire, TypeOK
<1> QED BY <1>2, <1>3, <1>4, <1>5, <1>6
    DEF EngineThread, InSearch, SyncPoints, Start, StartFails, AwaitUciOk, AwaitReadyOk, AwaitSkips,
        AwaitFails, NewGame, ApplyDone, Drain, SendPosition, ApplyOption, ModeOption

\* So do the steps of all other threads, which at most close the engine.
LEMMA OthersWork ==
  ASSUME TypeOK, [Next]_vars, ~EngineThread
  PROVE  /\ Work' = Work /\ answer' = answer /\ leaked' = leaked
         /\ closed' = closed \/ (~closed /\ closed')
<1> USE CommandFacts DEF Plain
<1>0. leaked' = leaked
  BY LeakedGrows DEF EngineThread
<1>1. CASE Native
  BY <1>0, <1>1, NativeWork DEF Native, appVars, closed
<1>2. CASE NativeEnds \/ StopCheck \/ StopSend \/ CloseEnd \/ UNCHANGED vars
           \/ \E t \in Tasks : Request(t) \/ Cancel(t)
  BY <1>0, <1>2, CoreSame
  DEF NativeEnds, LoopEnds, StopCheck, StopSend, CloseEnd, Request, Cancel, vars, appVars, coreVars, Work,
      GoQueued, BestMoveLines, Thinking, closed
<1>3. CASE StopPush
  BY <1>0, <1>3, PushWork DEF StopPush, closed
<1>4. CASE CloseBegin
  BY <1>0, <1>4, SendWork, CoreSame DEF CloseBegin, SendStop, closed, coreVars
<1>5. CASE CloseQuit
  <2>1. CASE running
    BY <1>0, <1>5, <2>1, PushWork DEF CloseQuit, closed
  <2>2. CASE ~running
    BY <1>0, <1>5, <2>2, CoreSame DEF CloseQuit, coreVars, closed
  <2> QED BY <2>1, <2>2
<1> QED BY <1>1, <1>2, <1>3, <1>4, <1>5 DEF Next, Closing

\* The task that holds the mutex has no answer and is not leaked.
LEMMA HolderWaits ==
  ASSUME TypeOK, TurnOnce, pc # "idle"
  PROVE  mutex \in Tasks /\ answer[mutex] = NoTask /\ mutex \notin leaked
  BY DEF TypeOK, TurnOnce

\* Sending go is a Begin of the contract, or nothing once the engine is gone.
LEMMA SearchBegins ==
  ASSUME TypeOK, Ownership, TurnOnce, SendGo
  PROVE  Contract!Begin(mutex) \/ UNCHANGED <<Work, answer, leaked, closed>>
<1>1. Within(leaked)
  BY NoWorkBeforeSearch DEF SendGo, InSearch
<1>2. /\ Thinking' = Thinking /\ srch' = srch /\ outq' = outq /\ BestMoveLines' = BestMoveLines
      /\ UNCHANGED <<answer, leaked, closed>>
  BY DEF SendGo, Thinking, BestMoveLines, Jump, closed
<1>3. mutex \in Tasks /\ answer[mutex] = NoTask /\ mutex \notin leaked
  BY HolderWaits DEF SendGo
<1>4. Work \subseteq leaked
  BY <1>1 DEF Within, Work
<1>5. Work \subseteq Work' /\ Work' \subseteq Work \cup {mutex}
  BY <1>2, SendGoEffect DEF Work
<1>6. CASE mutex \in Work'
  <2>1. Work' = Work \cup {mutex} /\ mutex \notin Work /\ Work \subseteq leaked \cup {mutex}
    BY <1>3, <1>4, <1>5, <1>6
  <2> QED BY <1>2, <1>3, <2>1 DEF Contract!Begin, Contract!Alone
<1>7. CASE mutex \notin Work'
  BY <1>2, <1>5, <1>7
<1> QED BY <1>6, <1>7

\* Reading bestmove is an Answer of the contract, or a Mistake after a leak.
LEMMA SearchAnswered ==
  ASSUME TypeOK, TurnOnce, Ownership, OneAtATime, ReadBestMove
  PROVE  /\ mutex \in Tasks
         /\ Contract!Answer(mutex) \/ \E s \in Tasks : Contract!Mistake(mutex, s)
<1> DEFINE id == Head(outq).id
<1>1. Within(leaked \cup {mutex})
  BY ReadsOwnOrLeaked DEF ReadBestMove
<1>2. mutex \in Tasks /\ answer[mutex] = NoTask /\ mutex \notin leaked
  BY HolderWaits DEF ReadBestMove
<1>3. Work \subseteq leaked \cup {mutex}
  BY <1>1 DEF Within, Work
<1>4. id \in Tasks /\ 1 \in BestMoveLines /\ id = outq[1].id
  BY BestMoveEndsWork
<1>5. id \in Work
  BY <1>4 DEF Work
<1>6. Work' \subseteq Work \ {id}
  <2>1. NoNewWork
    BY InqSame, OutqPop DEF NoNewWork, ReadBestMove, Await, Thinking
  <2>2. Work' \subseteq Work
    BY <2>1, WorkKept
  <2>3. id \notin Work'
    BY BestMoveEndsWork DEF Work
  <2> QED BY <2>2, <2>3
<1>7. Work \ {id} \subseteq Work'
  <2>1. inq' = inq /\ srch' = srch /\ outq' = Tail(outq) /\ outq # << >>
    BY DEF ReadBestMove, Await
  <2>2. GoQueued' = GoQueued /\ Thinking' = Thinking
    BY <2>1 DEF GoQueued, Thinking
  <2>3. /\ outq \in Seq(Lines) /\ DOMAIN outq = 1 .. Len(outq) /\ Len(outq) \in Nat
        /\ DOMAIN outq' = 1 .. Len(outq) - 1 /\ \A i \in DOMAIN outq' : outq'[i] = outq[i + 1]
    BY <2>1, TailFacts DEF TypeOK, CoreTypeOK
  <2>4. \A i \in BestMoveLines : i = 1 \/ (i - 1 \in BestMoveLines' /\ outq'[i - 1] = outq[i])
    BY <2>3 DEF BestMoveLines
  <2>5. \A i \in BestMoveLines : outq[i].id = id \/ outq[i].id \in BestIds'
    <3> HIDE DEF id
    <3> SUFFICES ASSUME NEW i \in BestMoveLines, i # 1 PROVE outq[i].id \in BestIds'
      BY <1>4
    <3> QED BY <2>4 DEF BestIds
  <2> HIDE DEF id
  <2> QED BY <2>1, <2>2, <2>5 DEF Work, BestIds
<1>8. Work' = Work \ {id}
  BY <1>6, <1>7
<1>9. /\ answer' = [answer EXCEPT ![mutex] = id] /\ closed' = closed
      /\ leaked' = IF id \in leaked THEN leaked \cup {mutex} ELSE leaked
  BY DEF ReadBestMove, closed
<1> HIDE DEF id
<1>10. CASE id \in leaked
  <2>1. Contract!Mistake(mutex, id)
    BY <1>2, <1>3, <1>5, <1>8, <1>9, <1>10 DEF Contract!Mistake, Contract!Alone
  <2> QED BY <1>2, <1>4, <2>1
<1>11. CASE id \notin leaked
  <2>1. id = mutex
    BY <1>3, <1>5, <1>11
  <2>2. Contract!Answer(mutex)
    BY <1>2, <1>3, <1>5, <1>8, <1>9, <1>11, <2>1 DEF Contract!Answer, Contract!Alone
  <2> QED BY <1>2, <2>2
<1> QED BY <1>10, <1>11

\* Leaving by an exception at the emit is a Leak of the contract.
LEMMA SearchLeaked ==
  ASSUME TypeOK, TurnOnce, Ownership, EmitThrows
  PROVE  mutex \in Tasks /\ Contract!Leak(mutex)
<1>1. mutex \in Tasks /\ answer[mutex] = NoTask /\ mutex \notin leaked
  BY HolderWaits DEF EmitThrows
<1>2. Work \subseteq leaked \cup {mutex}
  BY ReadsOwnOrLeaked DEF EmitThrows, Within, Work
<1>3. Work' = Work /\ leaked' = leaked \cup {mutex} /\ UNCHANGED <<answer, closed>>
  BY CoreSame DEF EmitThrows, closed
<1> QED BY <1>1, <1>2, <1>3 DEF Contract!Leak, Contract!Alone

\* FairyStockfishEngine implements EngineContract: every search starts on an engine
\* that is quiet but for leaked searches, is answered once, to the request it was
\* started for, and is never lost.
THEOREM ImplementsContractCorrect == Spec => ImplementsContract
<1>1. Init => IInv /\ Contract!Init
  <2> SUFFICES ASSUME Init PROVE Contract!Init
    BY InitInv
  <2>1. Work = {} /\ ~closed
    BY DEF Init, CoreInit, Parked, Work, GoQueued, BestMoveLines, Thinking, closed
  <2> QED BY <2>1 DEF Init, Contract!Init
<1>2. IInv /\ [Next]_vars => IInv'
  BY NextInv
<1>3. IInv /\ [Next]_vars => [Contract!Next]_(Contract!contractVars)
  <2> SUFFICES ASSUME IInv, [Next]_vars PROVE [Contract!Next]_(Contract!contractVars)
    OBVIOUS
  <2> USE DEF IInv, Contract!Next, Contract!contractVars
  <2>1. CASE SendGo
    BY <2>1, SearchBegins DEF SendGo, TypeOK
  <2>2. CASE ReadBestMove
    BY <2>2, SearchAnswered
  <2>3. CASE EmitThrows
    BY <2>3, SearchLeaked
  <2>4. CASE EngineThread /\ ~SendGo /\ ~ReadBestMove /\ ~EmitThrows
    <3>1. Contract!Forget
      BY <2>4, EngineWork, EngineMoves DEF Contract!Forget
    <3> QED BY <3>1
  <2>5. CASE ~EngineThread
    BY <2>5, OthersWork DEF Contract!Shut, closed
  <2> QED BY <2>1, <2>2, <2>3, <2>4, <2>5
<1> QED BY <1>1, <1>2, <1>3, PTL DEF Spec, ImplementsContract, Contract!Spec
=============================================================================
