------------------------ MODULE AnalysisServerProofs ------------------------
(*****************************************************************************)
(* The safety of AnalysisServer: type correctness with its two record        *)
(* keepers (ACTIVE_JOBS and the engine's lock), one thread per session, no   *)
(* thread that ends in silence, and the order of what a client is sent.  And *)
(* what it sends: the mate scores of Search are mates in every game, as what *)
(* a search returns is Sound and what it remembers is real (RealTables).     *)
(*****************************************************************************)
EXTENDS AnalysisServer, Search, FiniteSetTheorems, TLAPS

-----------------------------------------------------------------------------
(* The inductive invariant *)

\* A REST call that searches holds the engine's lock.
RestHolds == \A r \in Requests : rest[r] = "searching" <=> lock = r

\* Jobs are made in the order of their numbers, and a job that is made has a
\* task and a thread.
MadeInOrder ==
  /\ \A i, j \in Jobs : i < j /\ owner[j] # Nobody => owner[i] # Nobody
  /\ \A j \in Jobs : (owner[j] = Nobody <=> task[j] = "none") /\ (owner[j] = Nobody <=> thread[j] = "none")

\* A session has one job that is not over yet at most: its current one.
CurrentIsLast ==
  /\ \A c \in Clients : current[c] # 0 => owner[current[c]] = c
  /\ \A c \in Clients, j \in Jobs :
       owner[j] = c => j <= current[c] /\ (j < current[c] => TaskDone(j))

\* The final message is the last that a thread posts, and it posts one.
FinalIsLast ==
  \A j \in Jobs :
    /\ \A i \in DOMAIN inbox[j] :
         inbox[j][i] = "final" => i = Len(inbox[j]) /\ thread[j] \in {"leaving", "done"}
    /\ thread[j] \in {"leaving", "done"} /\ task[j] = "run" => "final" \in ToSet(inbox[j])

\* A client is sent messages of its own jobs, and a final ends the job's task.
OwnMessages ==
  \A c \in Clients : \A m \in DOMAIN log[c] :
    /\ owner[log[c][m].job] = c
    /\ log[c][m].what = "final" => task[log[c][m].job] = "over"

IInv ==
  TypeOK /\ RestHolds /\ MadeInOrder /\ CurrentIsLast /\ FinalIsLast /\ OwnMessages /\ InOrder

-----------------------------------------------------------------------------
(* Queues and logs *)

\* What Append does to a sequence, index by index.
LEMMA AppendFacts ==
  ASSUME NEW S, NEW s \in Seq(S), NEW e \in S
  PROVE  /\ Append(s, e) \in Seq(S)
         /\ Len(Append(s, e)) = Len(s) + 1
         /\ DOMAIN Append(s, e) = 1 .. Len(s) + 1
         /\ \A i \in 1 .. Len(s) : Append(s, e)[i] = s[i]
         /\ Append(s, e)[Len(s) + 1] = e
  OBVIOUS

\* What Head and Tail do to a non-empty sequence, index by index.
LEMMA TailFacts ==
  ASSUME NEW S, NEW s \in Seq(S), s # << >>
  PROVE  /\ Tail(s) \in Seq(S)
         /\ Head(s) \in S /\ Head(s) = s[1]
         /\ Len(Tail(s)) = Len(s) - 1 /\ Len(s) > 0 /\ Len(s) \in Nat
         /\ DOMAIN Tail(s) = 1 .. Len(s) - 1
         /\ \A i \in 1 .. Len(s) - 1 : Tail(s)[i] = s[i + 1]
  OBVIOUS

\* The messages in a queue are its elements.
LEMMA InSeq ==
  ASSUME NEW S, NEW s \in Seq(S), NEW e
  PROVE  e \in ToSet(s) <=> \E i \in 1 .. Len(s) : s[i] = e
  BY DEF ToSet

\* Jobs are numbers, and a session without a job has the number 0.
LEMMA JobNumbers ==
  /\ \A j \in Jobs : j \in Nat /\ j > 0
  /\ TypeOK => \A c \in Clients : current[c] \in Nat /\ (current[c] # 0 => current[c] \in Jobs)
<1>1. \A j \in Jobs : j \in Nat /\ j > 0
  BY BoundsAssumption DEF Jobs
<1> QED BY <1>1 DEF TypeOK

\* What a client is sent are messages of jobs.
LEMMA LogTypes ==
  ASSUME TypeOK, NEW c \in Clients, NEW n \in DOMAIN log[c]
  PROVE  log[c][n].job \in Jobs /\ log[c][n].what \in {"update", "final"}
<1> DEFINE M == [job : Jobs, what : {"update", "final"}]
<1>1. log[c] \in Seq(M)
  BY DEF TypeOK
<1> HIDE DEF M
<1>2. log[c][n] \in M
  BY <1>1
<1> QED BY <1>2 DEF M

-----------------------------------------------------------------------------
(* What the thread of a job may do *)

\* A step of work(): the thread of a job goes on, and may post to run_job.
ThreadMoves(j) ==
  /\ thread[j] \notin {"none", "done"}
  /\ \E to \in {"waiting", "locking", "searching", "leaving", "done"} :
       thread' = [thread EXCEPT ![j] = to]
  /\ UNCHANGED <<session, owner, task, stop, wrapped, rest, log>>

\* What it posts on the way to `leaving` is the final message, and what it
\* posts before is an update.
Posts(j) ==
  \/ UNCHANGED inbox /\ (thread[j] = "leaving" <=> thread'[j] = "done") /\ thread'[j] # "leaving"
  \/ Post(j, "final") /\ thread[j] # "leaving" /\ thread'[j] = "leaving"
  \/ Post(j, "update") /\ thread[j] = "searching" /\ thread'[j] = "searching"

\* Every step of work() is one of these.
LEMMA WorkMoves == ASSUME TypeOK, NEW j \in Jobs, WorkStep(j) PROVE ThreadMoves(j) /\ Posts(j)
<1> USE DEF TypeOK, ThreadMoves, Posts, Goes, session
<1>1. CASE Register(j) BY <1>1 DEF Register
<1>2. CASE SkipEngine(j) BY <1>2 DEF SkipEngine
<1>3. CASE NoEngine(j) BY <1>3 DEF NoEngine
<1>4. CASE PassEngineCheck(j) BY <1>4 DEF PassEngineCheck
<1>5. CASE TakeEngine(j) BY <1>5 DEF TakeEngine
<1>6. CASE Update(j)
  <2>1. thread' = [thread EXCEPT ![j] = "searching"]
    BY <1>6 DEF Update
  <2> QED BY <1>6, <2>1 DEF Update
<1>7. CASE SearchEnds(j) BY <1>7 DEF SearchEnds
<1>8. CASE SearchFails(j) BY <1>8 DEF SearchFails
<1>9. CASE Leave(j) BY <1>9 DEF Leave
<1> QED BY <1>1, <1>2, <1>3, <1>4, <1>5, <1>6, <1>7, <1>8, <1>9 DEF WorkStep

-----------------------------------------------------------------------------
(* Type correctness, ACTIVE_JOBS and the lock *)

InHand == {"waiting", "locking", "searching", "leaving"}

\* The initial state is well typed.
LEMMA TypeInit == Init => TypeOK
<1> SUFFICES ASSUME Init PROVE TypeOK
  OBVIOUS
<1>1. << >> \in Seq({"update", "final"}) /\ << >> \in Seq([job : Jobs, what : {"update", "final"}])
  OBVIOUS
<1>2. active = {j \in Jobs : thread[j] \in InHand}
  BY DEF Init, InHand
<1>3. \A j \in Jobs : lock = j <=> thread[j] = "searching"
  BY NobodyAssumption DEF Init
<1> QED BY <1>1, <1>2, <1>3 DEF Init, TypeOK, InHand, Jobs

\* A job that is made starts its thread outside ACTIVE_JOBS and the lock.
LEMMA CreateType ==
  ASSUME TypeOK, NEW c \in Clients, Create(c), UNCHANGED <<open, wrapped, lock, rest, log, late>>,
         loop' \in [Clients -> {"receive", "supersede", "closed"}], MadeInOrder
  PROVE  TypeOK'
<1>1. PICK k \in Jobs : /\ k \notin Made
                        /\ owner' = [owner EXCEPT ![k] = c] /\ current' = [current EXCEPT ![c] = k]
                        /\ task' = [task EXCEPT ![k] = "run"] /\ thread' = [thread EXCEPT ![k] = "spawned"]
                        /\ UNCHANGED <<stop, active, inbox>>
  BY DEF Create
<1>2. thread[k] = "none"
  BY <1>1 DEF Made, MadeInOrder
<1>3. active = {j \in Jobs : thread'[j] \in InHand}
  BY <1>1, <1>2 DEF TypeOK, InHand
<1>4. \A j \in Jobs : lock = j <=> thread'[j] = "searching"
  BY <1>1, <1>2 DEF TypeOK
<1> QED BY <1>1, <1>3, <1>4 DEF TypeOK, InHand

\* A step of work() keeps ACTIVE_JOBS and the lock in step with the threads.
LEMMA WorkType == ASSUME TypeOK, NEW j \in Jobs, WorkStep(j) PROVE TypeOK'
<1>1. ThreadMoves(j) /\ Posts(j)
  BY WorkMoves
<1>2. thread' \in [Jobs -> {"none", "spawned", "waiting", "locking", "searching", "leaving", "done"}]
  BY <1>1 DEF ThreadMoves, TypeOK
<1>3. inbox' \in [Jobs -> Seq({"update", "final"})]
  <2>1. CASE UNCHANGED inbox
    BY <2>1 DEF TypeOK
  <2>2. ASSUME NEW w \in {"update", "final"}, Post(j, w)
        PROVE  inbox' \in [Jobs -> Seq({"update", "final"})]
    <3>1. Append(inbox[j], w) \in Seq({"update", "final"})
      BY AppendFacts DEF TypeOK
    <3> QED BY <2>2, <3>1 DEF Post, TypeOK
  <2> QED BY <1>1, <2>1, <2>2 DEF Posts
<1>4. active' = {i \in Jobs : thread'[i] \in InHand} /\ late' \subseteq Requests
  <2> USE DEF TypeOK, InHand, Goes
  <2>1. CASE Register(j) BY <2>1 DEF Register
  <2>2. CASE Leave(j) BY <2>2 DEF Leave
  <2>3. CASE SkipEngine(j) \/ NoEngine(j) \/ PassEngineCheck(j)
    BY <2>3 DEF SkipEngine, NoEngine, PassEngineCheck
  <2>4. CASE TakeEngine(j) \/ Update(j)
    BY <2>4 DEF TakeEngine, Update
  <2>5. CASE SearchEnds(j) \/ SearchFails(j)
    BY <2>5 DEF SearchEnds, SearchFails
  <2> QED BY <2>1, <2>2, <2>3, <2>4, <2>5 DEF WorkStep
<1>5. /\ lock' \in Jobs \cup Requests \cup {Nobody}
      /\ \A i \in Jobs : lock' = i <=> thread'[i] = "searching"
  <2> USE NobodyAssumption DEF TypeOK, Goes
  <2>1. CASE Register(j) \/ Leave(j) BY <2>1 DEF Register, Leave
  <2>2. CASE SkipEngine(j) \/ NoEngine(j) \/ PassEngineCheck(j)
    BY <2>2 DEF SkipEngine, NoEngine, PassEngineCheck
  <2>3. CASE TakeEngine(j)
    BY <2>3 DEF TakeEngine
  <2>4. CASE Update(j)
    BY <2>4 DEF Update
  <2>5. CASE SearchEnds(j) \/ SearchFails(j)
    <3>1. lock' = Nobody /\ thread' = [thread EXCEPT ![j] = "leaving"] /\ thread[j] = "searching"
      BY <2>5 DEF SearchEnds, SearchFails
    <3>2. \A i \in Jobs : thread[i] = "searching" => i = j
      BY <3>1
    <3> QED BY <3>1, <3>2
  <2> QED BY <2>1, <2>2, <2>3, <2>4, <2>5 DEF WorkStep
<1> QED BY <1>1, <1>2, <1>3, <1>4, <1>5 DEF ThreadMoves, TypeOK, InHand, session

\* Forwarding a message keeps every variable in its type.
LEMMA TaskType == ASSUME TypeOK, MadeInOrder, NEW j \in Jobs, TaskStep(j) PROVE TypeOK'
<1>1. CASE HeartbeatFails(j)
  BY <1>1 DEF HeartbeatFails, TypeOK, session
<1>2. CASE Deliver(j)
  <2> DEFINE m == [job |-> j, what |-> Head(inbox[j])]
  <2>1. /\ inbox[j] \in Seq({"update", "final"}) /\ inbox[j] # << >> /\ owner[j] \in Clients
        /\ log[owner[j]] \in Seq([job : Jobs, what : {"update", "final"}])
    BY <1>2 DEF Deliver, TypeOK, MadeInOrder
  <2>2. Tail(inbox[j]) \in Seq({"update", "final"}) /\ m \in [job : Jobs, what : {"update", "final"}]
    BY <2>1, TailFacts
  <2>3. Append(log[owner[j]], m) \in Seq([job : Jobs, what : {"update", "final"}])
    BY <2>1, <2>2, AppendFacts
  <2>4. inbox' \in [Jobs -> Seq({"update", "final"})]
    BY <1>2, <2>2 DEF Deliver, TypeOK
  <2>5. log' \in [Clients -> Seq([job : Jobs, what : {"update", "final"}])]
    BY <1>2, <2>3 DEF Deliver, TypeOK
  <2>6. task' \in [Jobs -> {"none", "run", "over"}]
    BY <1>2 DEF Deliver, TypeOK
  <2> QED BY <1>2, <2>4, <2>5, <2>6 DEF Deliver, TypeOK, session
<1> QED BY <1>1, <1>2 DEF TaskStep

\* A REST call takes the lock when it is free and gives back its own.
LEMMA RestType ==
  ASSUME TypeOK, RestHolds, NEW r \in Requests, RestStep(r)
  PROVE  TypeOK' /\ RestHolds'
<1> USE NobodyAssumption DEF TypeOK, RestHolds, RestGoes, session, jobs
<1>1. CASE Preempt(r)
  BY <1>1 DEF Preempt
<1>2. CASE RestTakes(r)
  BY <1>2 DEF RestTakes
<1>3. CASE RestFails(r)
  BY <1>3 DEF RestFails
<1>4. CASE RestEnds(r)
  BY <1>4 DEF RestEnds
<1> QED BY <1>1, <1>2, <1>3, <1>4 DEF RestStep

\* A message of a client keeps every variable in its type.
LEMMA SessionType ==
  ASSUME TypeOK, MadeInOrder, NEW c \in Clients, SessionStep(c)
  PROVE  TypeOK'
<1>1. \A d \in Clients : StopCurrent(d) \in [Jobs -> BOOLEAN]
  BY DEF StopCurrent, TypeOK, Jobs
<1>2. CASE StopMessage(c) \/ Disconnect(c) \/ Close(c)
  BY <1>1, <1>2, ZenonT(30) DEF StopMessage, Disconnect, Close, TypeOK, session, jobs
<1>3. CASE Supersede(c)
  BY <1>3, CreateType DEF Supersede, TypeOK
<1>4. CASE Analyze(c)
  <2>1. CASE Busy(c)
    BY <1>1, <1>4, <2>1 DEF Analyze, TypeOK
  <2>2. CASE ~Busy(c)
    BY <1>4, <2>2, CreateType DEF Analyze, TypeOK
  <2> QED BY <2>1, <2>2
<1> QED BY <1>2, <1>3, <1>4 DEF SessionStep
-----------------------------------------------------------------------------
(* The rest of the invariant, step by step *)

\* Only REST calls and worker threads move the lock.
LEMMA WorkRest ==
  ASSUME TypeOK, RestHolds, NEW j \in Jobs, WorkStep(j)
  PROVE  RestHolds'
<1> USE NobodyAssumption DEF TypeOK, RestHolds, Goes
<1>1. CASE Register(j) \/ SkipEngine(j) \/ NoEngine(j) \/ PassEngineCheck(j) \/ Update(j) \/ Leave(j)
  BY <1>1 DEF Register, SkipEngine, NoEngine, PassEngineCheck, Update, Leave
<1>2. CASE TakeEngine(j)
  BY <1>2 DEF TakeEngine
<1>3. CASE SearchEnds(j) \/ SearchFails(j)
  BY <1>3 DEF SearchEnds, SearchFails
<1> QED BY <1>1, <1>2, <1>3 DEF WorkStep

\* A session makes its next job, with a number above all others, when its
\* current one is over.
LEMMA CreateKeeps ==
  ASSUME TypeOK, MadeInOrder, CurrentIsLast, FinalIsLast, OwnMessages,
         NEW c \in Clients, Create(c), ~Busy(c), log' = log
  PROVE  MadeInOrder' /\ CurrentIsLast' /\ FinalIsLast' /\ OwnMessages'
<1>1. PICK k \in Jobs : /\ k \notin Made /\ \A i \in Jobs : i < k => i \in Made
                        /\ owner' = [owner EXCEPT ![k] = c] /\ current' = [current EXCEPT ![c] = k]
                        /\ task' = [task EXCEPT ![k] = "run"] /\ thread' = [thread EXCEPT ![k] = "spawned"]
                        /\ inbox' = inbox
  BY DEF Create
<1>2. owner[k] = Nobody /\ thread[k] = "none" /\ task[k] = "none" /\ c # Nobody
  BY <1>1, NobodyAssumption DEF Made, MadeInOrder
<1>3. \A j \in Jobs : owner[j] # Nobody => j < k
  BY <1>1, <1>2 DEF MadeInOrder, Jobs
<1>4. MadeInOrder'
  <2>1. \A i \in Jobs : i < k => owner[i] # Nobody
    BY <1>1 DEF Made
  <2> QED BY <1>1, <1>2, <1>3, <2>1 DEF MadeInOrder, TypeOK, Jobs
<1>5. CurrentIsLast'
  <2>1. ASSUME NEW d \in Clients, current'[d] # 0 PROVE owner'[current'[d]] = d
    <3>1. CASE d = c
      BY <1>1, <3>1 DEF TypeOK
    <3>2. CASE d # c
      <4>1. current'[d] = current[d] /\ current[d] \in Jobs /\ owner[current[d]] = d
        BY <1>1, <2>1, <3>2, JobNumbers DEF CurrentIsLast, TypeOK
      <4> QED BY <1>1, <1>2, <4>1, NobodyAssumption DEF TypeOK
    <3> QED BY <3>1, <3>2
  <2>2. ASSUME NEW d \in Clients, NEW j \in Jobs, owner'[j] = d
        PROVE  j <= current'[d] /\ (j < current'[d] => TaskDone(j)')
    <3>1. CASE j = k
      BY <1>1, <2>2, <3>1 DEF TypeOK, Jobs
    <3>2. CASE j # k /\ d # c
      BY <1>1, <2>2, <3>2 DEF CurrentIsLast, TypeOK, TaskDone
    <3>3. CASE j # k /\ d = c
      <4>1. owner[j] = c /\ j < k /\ j <= current[c]
        BY <1>1, <1>2, <1>3, <2>2, <3>3 DEF CurrentIsLast, TypeOK
      <4>2. TaskDone(j)
        <5>1. CASE j = current[c]
          BY <4>1, <5>1, JobNumbers DEF Busy
        <5>2. CASE j # current[c]
          BY <4>1, <5>2, JobNumbers DEF CurrentIsLast
        <5> QED BY <5>1, <5>2
      <4> QED BY <1>1, <3>3, <4>1, <4>2 DEF TypeOK, TaskDone, Jobs
    <3> QED BY <3>1, <3>2, <3>3
  <2> QED BY <2>1, <2>2 DEF CurrentIsLast
<1>6. FinalIsLast'
  BY <1>1, <1>2 DEF FinalIsLast, TypeOK
<1>7. OwnMessages'
  <2>1. ASSUME NEW d \in Clients, NEW m \in DOMAIN log[d]
        PROVE  log[d][m].job \in Jobs /\ log[d][m].job # k
    BY <1>2, LogTypes, NobodyAssumption DEF OwnMessages
  <2> QED BY <1>1, <2>1 DEF OwnMessages, TypeOK
<1> QED BY <1>4, <1>5, <1>6, <1>7

\* A thread that goes on keeps them.
LEMMA WorkKeeps ==
  ASSUME TypeOK, MadeInOrder, CurrentIsLast, FinalIsLast, OwnMessages, NEW j \in Jobs, WorkStep(j)
  PROVE  MadeInOrder' /\ CurrentIsLast' /\ FinalIsLast' /\ OwnMessages'
<1>1. ThreadMoves(j) /\ Posts(j)
  BY WorkMoves
<1>2. MadeInOrder' /\ CurrentIsLast' /\ OwnMessages'
  BY <1>1 DEF ThreadMoves, MadeInOrder, CurrentIsLast, OwnMessages, TaskDone, TypeOK, session
<1>3. FinalIsLast'
  <2> SUFFICES ASSUME NEW i \in Jobs
               PROVE  /\ \A n \in DOMAIN inbox'[i] :
                           inbox'[i][n] = "final" => n = Len(inbox'[i]) /\ thread'[i] \in {"leaving", "done"}
                      /\ thread'[i] \in {"leaving", "done"} /\ task'[i] = "run"
                           => "final" \in ToSet(inbox'[i])
    BY DEF FinalIsLast
  <2>1. CASE i # j
    BY <1>1, <2>1 DEF ThreadMoves, Posts, Post, FinalIsLast, TypeOK
  <2>2. CASE i = j /\ UNCHANGED inbox
    BY <1>1, <2>2 DEF ThreadMoves, Posts, Post, FinalIsLast, TypeOK
  <2>3. ASSUME i = j, NEW w \in {"update", "final"}, Post(j, w), thread[j] \notin {"leaving", "done"},
               w = "final" <=> thread'[j] \in {"leaving", "done"}
        PROVE  /\ \A n \in DOMAIN inbox'[i] :
                    inbox'[i][n] = "final" => n = Len(inbox'[i]) /\ thread'[i] \in {"leaving", "done"}
               /\ thread'[i] \in {"leaving", "done"} => "final" \in ToSet(inbox'[i])
    <3>1. inbox[j] \in Seq({"update", "final"}) /\ inbox'[j] = Append(inbox[j], w)
      BY <2>3 DEF Post, TypeOK
    <3>2. \A n \in 1 .. Len(inbox[j]) : inbox[j][n] # "final"
      BY <2>3, <3>1 DEF FinalIsLast
    <3>3. \A n \in DOMAIN inbox'[j] : n \in 1 .. Len(inbox[j]) \/ n = Len(inbox[j]) + 1
      BY <3>1, AppendFacts
    <3>4. Len(inbox'[j]) = Len(inbox[j]) + 1 /\ inbox'[j][Len(inbox[j]) + 1] = w
          /\ \A n \in 1 .. Len(inbox[j]) : inbox'[j][n] = inbox[j][n]
      BY <3>1, AppendFacts
    <3>5. thread'[i] \in {"leaving", "done"} => "final" \in ToSet(inbox'[i])
      <4>1. Len(inbox[j]) + 1 \in DOMAIN inbox'[j]
        BY <3>1, AppendFacts
      <4> QED BY <2>3, <3>4, <4>1 DEF ToSet
    <3> QED BY <2>3, <3>2, <3>3, <3>4, <3>5
  <2>4. CASE i = j /\ Post(j, "final") /\ thread[j] # "leaving" /\ thread'[j] = "leaving"
    BY <1>1, <2>3, <2>4 DEF ThreadMoves
  <2>5. CASE i = j /\ Post(j, "update") /\ thread[j] = "searching" /\ thread'[j] = "searching"
    BY <2>3, <2>5
  <2> QED BY <1>1, <2>1, <2>2, <2>4, <2>5 DEF Posts
<1> QED BY <1>2, <1>3

\* run_job forwards a message of the session's current job to its client, the
\* final one last.
LEMMA DeliverKeeps ==
  ASSUME TypeOK, MadeInOrder, CurrentIsLast, FinalIsLast, OwnMessages, InOrder,
         NEW j \in Jobs, Deliver(j)
  PROVE  FinalIsLast' /\ OwnMessages' /\ InOrder'
<1> DEFINE c == owner[j]
           w == Head(inbox[j])
           m == [job |-> j, what |-> w]
<1>1. /\ c \in Clients /\ task[j] = "run" /\ inbox[j] \in Seq({"update", "final"}) /\ inbox[j] # << >>
      /\ w \in {"update", "final"} /\ log[c] \in Seq([job : Jobs, what : {"update", "final"}])
      /\ m \in [job : Jobs, what : {"update", "final"}]
  <2>1. c \in Clients /\ task[j] = "run" /\ inbox[j] \in Seq({"update", "final"}) /\ inbox[j] # << >>
    BY DEF Deliver, TypeOK, MadeInOrder
  <2> QED BY <2>1, TailFacts DEF TypeOK
<1>2. /\ UNCHANGED <<owner, thread>> /\ inbox' = [inbox EXCEPT ![j] = Tail(inbox[j])]
      /\ log' = IF open[c] THEN [log EXCEPT ![c] = Append(log[c], m)] ELSE log
      /\ task' = IF w = "final" \/ ~open[c] THEN [task EXCEPT ![j] = "over"] ELSE task
  BY DEF Deliver
<1>3. FinalIsLast'
  <2> SUFFICES ASSUME NEW i \in Jobs
               PROVE  /\ \A n \in DOMAIN inbox'[i] :
                           inbox'[i][n] = "final" => n = Len(inbox'[i]) /\ thread[i] \in {"leaving", "done"}
                      /\ thread[i] \in {"leaving", "done"} /\ task'[i] = "run"
                           => "final" \in ToSet(inbox'[i])
    BY <1>2 DEF FinalIsLast
  <2>1. CASE i # j
    BY <1>2, <2>1 DEF FinalIsLast, TypeOK
  <2>2. CASE i = j
    <3>1. inbox'[j] = Tail(inbox[j])
      BY <1>2 DEF TypeOK
    <3>2. ASSUME NEW n \in DOMAIN inbox'[j], inbox'[j][n] = "final"
          PROVE  n = Len(inbox'[j]) /\ thread[j] \in {"leaving", "done"}
      <4>1. n \in 1 .. Len(inbox[j]) - 1 /\ inbox[j][n + 1] = "final" /\ Len(inbox'[j]) = Len(inbox[j]) - 1
        BY <1>1, <3>1, <3>2, TailFacts
      <4>2. n + 1 \in DOMAIN inbox[j] /\ n \in Nat /\ Len(inbox[j]) \in Nat
        BY <1>1, <4>1
      <4>3. n + 1 = Len(inbox[j]) /\ thread[j] \in {"leaving", "done"}
        BY <4>1, <4>2 DEF FinalIsLast
      <4> QED BY <4>1, <4>2, <4>3
    <3>3. ASSUME thread[j] \in {"leaving", "done"}, task'[j] = "run"
          PROVE  "final" \in ToSet(inbox'[j])
      <4>1. w # "final"
        BY <1>2, <3>3 DEF TypeOK
      <4>2. PICK n \in 1 .. Len(inbox[j]) : inbox[j][n] = "final"
        BY <1>1, <3>3, InSeq DEF FinalIsLast
      <4>3. n # 1
        BY <1>1, <4>1, <4>2, TailFacts
      <4>4. n - 1 \in 1 .. Len(inbox[j]) - 1 /\ (n - 1) + 1 = n
        BY <1>1, <4>2, <4>3
      <4>5. n - 1 \in DOMAIN inbox'[j] /\ inbox'[j][n - 1] = "final"
        BY <1>1, <3>1, <4>2, <4>4, TailFacts
      <4> QED BY <4>5 DEF ToSet
    <3> QED BY <2>2, <3>2, <3>3
  <2> QED BY <2>1, <2>2
<1>4. CASE ~open[c]
  <2>1. log' = log /\ task' = [task EXCEPT ![j] = "over"]
    BY <1>2, <1>4
  <2>2. OwnMessages'
    <3>1. \A d \in Clients : \A n \in DOMAIN log[d] : log[d][n].job \in Jobs
      BY LogTypes
    <3> QED BY <1>2, <2>1, <3>1 DEF OwnMessages, TypeOK
  <2> QED BY <1>3, <2>1, <2>2 DEF InOrder
<1>5. CASE open[c]
  <2> DEFINE l == log[c]
  <2>1. log' = [log EXCEPT ![c] = Append(l, m)] /\ (w = "final" => task'[j] = "over")
        /\ \A i \in Jobs : task[i] = "over" => task'[i] = "over"
    BY <1>2, <1>5 DEF TypeOK
  <2>2. /\ log'[c] = Append(l, m) /\ \A d \in Clients \ {c} : log'[d] = log[d]
    BY <1>1, <2>1 DEF TypeOK
  <2>3. /\ DOMAIN log'[c] = 1 .. Len(l) + 1 /\ log'[c][Len(l) + 1] = m
        /\ \A n \in 1 .. Len(l) : log'[c][n] = l[n]
        /\ DOMAIN l = 1 .. Len(l) /\ Len(l) \in Nat
    BY <1>1, <2>2, AppendFacts
  <2>4. \A d \in Clients : \A n \in DOMAIN log[d] : log[d][n].job \in Jobs /\ log[d][n].what \in {"update", "final"}
    BY LogTypes
  <2>5. OwnMessages'
    <3>1. ASSUME NEW n \in DOMAIN log'[c]
          PROVE  owner[log'[c][n].job] = c /\ (log'[c][n].what = "final" => task'[log'[c][n].job] = "over")
      <4>1. CASE n = Len(l) + 1
        BY <2>1, <2>3, <4>1
      <4>2. CASE n \in 1 .. Len(l)
        BY <1>1, <2>1, <2>3, <2>4, <4>2, SMTT(30) DEF OwnMessages
      <4> QED BY <2>3, <4>1, <4>2
    <3>2. ASSUME NEW d \in Clients \ {c}, NEW n \in DOMAIN log'[d]
          PROVE  owner[log'[d][n].job] = d /\ (log'[d][n].what = "final" => task'[log'[d][n].job] = "over")
      BY <2>1, <2>2, <2>4 DEF OwnMessages
    <3> QED BY <1>2, <3>1, <3>2, SMTT(60) DEF OwnMessages
  <2>6. \A n \in 1 .. Len(l) : l[n].job < j \/ (l[n].job = j /\ l[n].what = "update")
    <3> SUFFICES ASSUME NEW n \in 1 .. Len(l)
                 PROVE  l[n].job < j \/ (l[n].job = j /\ l[n].what = "update")
      OBVIOUS
    <3>1. owner[l[n].job] = c /\ l[n].job \in Jobs /\ (l[n].what = "final" => task[l[n].job] = "over")
      BY <1>1, <2>3, <2>4 DEF OwnMessages
    <3>2. j = current[c] /\ l[n].job <= current[c]
      <4>1. current[c] \in Nat /\ j \in Nat /\ l[n].job <= current[c] /\ j <= current[c]
        BY <1>1, <3>1, JobNumbers DEF CurrentIsLast
      <4>2. ~(j < current[c])
        BY <1>1 DEF CurrentIsLast, TaskDone
      <4> QED BY <4>1, <4>2
    <3>3. l[n].job \in Nat /\ l[n].what \in {"update", "final"}
      BY <1>1, <2>3, <2>4, <3>1, JobNumbers
    <3>4. l[n].job = j => l[n].what # "final"
      BY <1>1, <3>1
    <3>5. l[n].job < j \/ l[n].job = j
      BY <3>2, <3>3, JobNumbers
    <3> QED BY <3>3, <3>4, <3>5
  <2>7. InOrder'
    <3>1. ASSUME NEW a \in DOMAIN log'[c], NEW b \in DOMAIN log'[c], a < b
          PROVE  \/ log'[c][a].job < log'[c][b].job
                 \/ log'[c][a].job = log'[c][b].job /\ log'[c][a].what = "update"
      <4>1. a \in 1 .. Len(l) /\ log'[c][a] = l[a]
        BY <2>3, <3>1
      <4>2. CASE b = Len(l) + 1
        BY <2>3, <2>6, <4>1, <4>2
      <4>3. CASE b \in 1 .. Len(l)
        BY <1>1, <2>3, <3>1, <4>1, <4>3, SMTT(30) DEF InOrder
      <4> QED BY <2>3, <4>2, <4>3
    <3>2. ASSUME NEW d \in Clients \ {c}, NEW a \in DOMAIN log'[d], NEW b \in DOMAIN log'[d], a < b
          PROVE  \/ log'[d][a].job < log'[d][b].job
                 \/ log'[d][a].job = log'[d][b].job /\ log'[d][a].what = "update"
      BY <2>2, <3>2 DEF InOrder
    <3> QED BY <3>1, <3>2 DEF InOrder
  <2> QED BY <1>3, <2>5, <2>7
<1> QED BY <1>4, <1>5

\* ... and its end is no end of a thread.
LEMMA TaskKeeps ==
  ASSUME TypeOK, MadeInOrder, CurrentIsLast, FinalIsLast, OwnMessages, InOrder,
         NEW j \in Jobs, TaskStep(j)
  PROVE  MadeInOrder' /\ CurrentIsLast' /\ FinalIsLast' /\ OwnMessages' /\ InOrder'
<1>1. /\ UNCHANGED <<session, owner, thread>> /\ task[j] = "run"
      /\ \/ UNCHANGED task
         \/ task' = [task EXCEPT ![j] = "over"]
  BY DEF TaskStep, Deliver, HeartbeatFails
<1>2. MadeInOrder' /\ CurrentIsLast'
  BY <1>1 DEF MadeInOrder, CurrentIsLast, TaskDone, TypeOK, session
<1>3. CASE HeartbeatFails(j)
  <2>1. \A d \in Clients : \A n \in DOMAIN log[d] : log[d][n].job \in Jobs
    BY LogTypes
  <2> QED BY <1>2, <1>3, <2>1 DEF HeartbeatFails, FinalIsLast, OwnMessages, InOrder, TypeOK
<1> QED BY <1>2, <1>3, DeliverKeeps DEF TaskStep

-----------------------------------------------------------------------------
(* The theorems *)

\* The invariant holds before the first session.
LEMMA InitInv == Init => IInv
<1> SUFFICES ASSUME Init PROVE IInv
  OBVIOUS
<1>1. RestHolds /\ MadeInOrder /\ CurrentIsLast
  BY NobodyAssumption DEF Init, RestHolds, MadeInOrder, CurrentIsLast
<1>2. FinalIsLast /\ OwnMessages /\ InOrder
  BY DEF Init, FinalIsLast, OwnMessages, InOrder
<1> QED BY <1>1, <1>2, TypeInit DEF IInv

\* Every step keeps it.
LEMMA NextInv == IInv /\ [Next]_vars => IInv'
<1> SUFFICES ASSUME IInv, [Next]_vars PROVE IInv'
  OBVIOUS
<1> USE DEF IInv
<1>1. CASE UNCHANGED vars
  <2>1. TypeOK' /\ RestHolds' /\ MadeInOrder'
    BY <1>1 DEF vars, session, jobs, TypeOK, RestHolds, MadeInOrder
  <2>2. CurrentIsLast' /\ FinalIsLast'
    BY <1>1 DEF vars, session, jobs, CurrentIsLast, TaskDone, FinalIsLast
  <2>3. OwnMessages' /\ InOrder'
    BY <1>1 DEF vars, session, jobs, OwnMessages, InOrder
  <2> QED BY <2>1, <2>2, <2>3
<1>2. ASSUME NEW c \in Clients, SessionStep(c) PROVE IInv'
  <2>1. TypeOK' /\ RestHolds' /\ log' = log
    BY <1>2, SessionType
    DEF SessionStep, Analyze, Supersede, StopMessage, Disconnect, Close, RestHolds, jobs
  <2>2. (Create(c) /\ ~Busy(c)) \/ UNCHANGED <<current, owner, task, thread, inbox>>
    BY <1>2 DEF SessionStep, Analyze, Supersede, StopMessage, Disconnect, Close, jobs, session
  <2>3. MadeInOrder' /\ CurrentIsLast' /\ FinalIsLast' /\ OwnMessages'
    BY <2>1, <2>2, CreateKeeps DEF MadeInOrder, CurrentIsLast, TaskDone, FinalIsLast, OwnMessages
  <2> QED BY <2>1, <2>3 DEF InOrder
<1>3. ASSUME NEW j \in Jobs, WorkStep(j) PROVE IInv'
  <2>1. log' = log
    BY <1>3, WorkMoves DEF ThreadMoves
  <2> QED BY <1>3, <2>1, WorkType, WorkRest, WorkKeeps DEF InOrder
<1>4. ASSUME NEW j \in Jobs, TaskStep(j) PROVE IInv'
  <2>1. RestHolds'
    BY <1>4 DEF TaskStep, Deliver, HeartbeatFails, RestHolds
  <2> QED BY <1>4, <2>1, TaskType, TaskKeeps
<1>5. ASSUME NEW r \in Requests, RestStep(r) PROVE IInv'
  <2>1. UNCHANGED <<current, owner, task, thread, inbox, log>>
    BY <1>5 DEF RestStep, Preempt, RestTakes, RestFails, RestEnds, session, jobs
  <2> QED BY <1>5, <2>1, RestType DEF MadeInOrder, CurrentIsLast, TaskDone, FinalIsLast, OwnMessages, InOrder
<1> QED BY <1>1, <1>2, <1>3, <1>4, <1>5 DEF Next

\* The inductive invariant of the analysis server.
THEOREM ServerInvCorrect == Spec => []IInv
  BY InitInv, NextInv, PTL DEF Spec

\* A session has one thread at work at most: that of its current job.
LEMMA OneAtWork == IInv => OneThread
<1> SUFFICES ASSUME IInv, NEW c \in Clients
             PROVE  Cardinality({j \in Jobs : owner[j] = c /\ thread[j] \notin {"none", "done"}}) <= 1
  BY DEF OneThread
<1> DEFINE S == {j \in Jobs : owner[j] = c /\ thread[j] \notin {"none", "done"}}
<1>1. S \subseteq {current[c]}
  BY JobNumbers DEF IInv, CurrentIsLast, TaskDone
<1> HIDE DEF S
<1>2. IsFiniteSet({current[c]}) /\ Cardinality({current[c]}) = 1
  BY FS_Singleton
<1>3. Cardinality(S) <= Cardinality({current[c]})
  BY <1>1, <1>2, FS_Subset
<1> QED BY <1>2, <1>3 DEF S

\* However sessions supersede, stop and leave, and REST calls pre-empt them:
\* ACTIVE_JOBS and the lock follow the threads, no Analyzer is in the hands of
\* two threads, and no thread ends without its final message.
THEOREM SessionsAgreeCorrect == Spec => []SessionsAgree
<1>1. IInv => NeverSilent
  BY DEF IInv, FinalIsLast, NeverSilent
<1>2. IInv => SessionsAgree
  BY <1>1, OneAtWork DEF IInv, SessionsAgree
<1> QED BY <1>2, ServerInvCorrect, PTL

\* A client is sent its jobs one after the other, and nothing of a job after
\* its final message.
THEOREM InOrderCorrect == Spec => []InOrder
<1>1. IInv => InOrder
  BY DEF IInv
<1> QED BY <1>1, ServerInvCorrect, PTL

-----------------------------------------------------------------------------
(* The search: induction *)

\* A set of naturals has a least one.
LEMMA LeastNumber ==
  ASSUME NEW T, T \subseteq Nat, T # {}
  PROVE  \E n \in T : \A m \in T : n <= m
PROOF
<1>1. IsWellFoundedOn(OpToRel(<, Nat), Nat) BY NatLessThanWellFounded
<1>2. PICK n \in T : \A m \in T : <<m, n>> \notin OpToRel(<, Nat) BY <1>1, WFMin
<1>3. \A m \in T : ~(m < n) BY <1>2, Zenon DEF OpToRel
<1>4. QED BY <1>3

\* Zero and the successor of each: all naturals.
LEMMA NumbersByInduction ==
  ASSUME NEW T, 0 \in T, \A n \in Nat : n \in T => n + 1 \in T
  PROVE  \A n \in Nat : n \in T
PROOF
<1> DEFINE U == {n \in Nat : n \notin T}
<1>1. U = {}
  <2> SUFFICES ASSUME U # {} PROVE FALSE OBVIOUS
  <2>1. U \subseteq Nat OBVIOUS
  <2> HIDE DEF U
  <2>2. PICK n \in U : \A m \in U : n <= m BY <2>1, LeastNumber
  <2>3. n \in Nat /\ n \notin T BY <2>2 DEF U
  <2>4. n # 0 BY <2>3
  <2>5. n - 1 \in Nat /\ n = (n - 1) + 1 BY <2>3, <2>4
  <2>6. n - 1 \in T
    <3>1. ~(n <= n - 1) BY <2>3
    <3>2. n - 1 \notin U BY <2>2, <3>1
    <3>3. QED BY <2>5, <3>2 DEF U
  <2>7. QED BY <2>3, <2>5, <2>6
<1>2. QED BY <1>1

\* The empty set and one element more: all subsets of a finite set.
LEMMA SubsetsByInduction ==
  ASSUME NEW S, IsFiniteSet(S), NEW T,
         {} \in T, \A s \in SUBSET S : \A x \in S \ s : s \in T => s \union {x} \in T
  PROVE  \A s \in SUBSET S : s \in T
PROOF
<1> DEFINE N == {n \in Nat : \A s \in SUBSET S : Cardinality(s) = n => s \in T}
<1>1. \A s \in SUBSET S : IsFiniteSet(s) /\ Cardinality(s) \in Nat BY FS_Subset, FS_CardinalityType
<1>2. 0 \in N
  <2>1. \A s \in SUBSET S : Cardinality(s) = 0 => s = {} BY <1>1, FS_EmptySet
  <2>2. QED BY <2>1
<1>3. ASSUME NEW n \in Nat, n \in N
      PROVE  n + 1 \in N
  <2> SUFFICES ASSUME NEW s \in SUBSET S, Cardinality(s) = n + 1 PROVE s \in T
    OBVIOUS
  <2>1. s # {} BY <1>1, FS_EmptySet
  <2>2. PICK x \in s : TRUE BY <2>1
  <2> DEFINE u == s \ {x}
  <2>3. Cardinality(u) = n
    <3>1. IsFiniteSet(s) BY <1>1
    <3>2. Cardinality(u) = Cardinality(s) - 1 BY <3>1, FS_RemoveElement
    <3>3. QED BY <3>2
  <2>4. u \in SUBSET S /\ x \in S \ u /\ u \union {x} = s OBVIOUS
  <2>5. u \in T BY <1>3, <2>3, <2>4
  <2> HIDE DEF u
  <2>6. QED BY <2>4, <2>5
<1> HIDE DEF N
<1>4. \A n \in Nat : n \in N BY <1>2, <1>3, NumbersByInduction
<1>5. QED BY <1>1, <1>4 DEF N

-----------------------------------------------------------------------------
(* The search.  Its loops and searches are recursive functions: a value first, *)
(* and each from the one before it.                                          *)

\* A start in the first of some sets, and steps from each set to the next.
Steps(N, S, a, F) ==
  /\ a \in S[0]
  /\ \A i \in 1 .. N : \A s \in S[i - 1] : F[<<i, s>>] \in S[i]
Runs(h, N, S, a, F) ==
  /\ h = [i \in 0 .. N |-> h[i]] /\ h[0] = a
  /\ \A i \in 1 .. N : h[i] = F[<<i, h[i - 1]>>]
  /\ \A i \in 0 .. N : h[i] \in S[i]

\* A function takes them.
LEMMA LoopRuns ==
  ASSUME NEW N \in Nat, NEW S, NEW a, NEW F, Steps(N, S, a, F)
  PROVE  \E h : Runs(h, N, S, a, F)
PROOF
<1>0. a \in S[0] /\ \A i \in 1 .. N : \A s \in S[i - 1] : F[<<i, s>>] \in S[i] BY DEF Steps
<1> DEFINE P(h, k) == /\ DOMAIN h = 0 .. k /\ h = [i \in 0 .. k |-> h[i]]
                      /\ \A i \in 0 .. k : /\ h[i] = IF i = 0 THEN a ELSE F[<<i, h[i - 1]>>]
                                           /\ h[i] \in S[i]
           K == {k \in Nat : k <= N => \E h : P(h, k)}
<1>1. 0 \in K
  <2> DEFINE h == [i \in 0 .. 0 |-> a]
  <2>1. P(h, 0) BY <1>0
  <2>2. QED BY <2>1
<1>2. ASSUME NEW k \in Nat, k \in K PROVE k + 1 \in K
  <2> SUFFICES ASSUME k + 1 <= N PROVE \E h : P(h, k + 1) OBVIOUS
  <2>1. PICK h : P(h, k) BY <1>2
  <2> DEFINE w == F[<<k + 1, h[k]>>]
             e == [i \in 0 .. k + 1 |-> IF i = k + 1 THEN w ELSE h[i]]
  <2>2. w \in S[k + 1]
    <3>1. k \in 0 .. k /\ (k + 1) - 1 = k /\ k + 1 \in 1 .. N OBVIOUS
    <3>2. h[k] \in S[k] BY <2>1, <3>1
    <3>3. QED BY <1>0, <3>1, <3>2
  <2>3. \A i \in 0 .. k : e[i] = h[i] OBVIOUS
  <2>4. e[k + 1] = w OBVIOUS
  <2>5. DOMAIN e = 0 .. k + 1 /\ e = [i \in 0 .. k + 1 |-> e[i]] OBVIOUS
  <2> HIDE DEF e, w
  <2>6. ASSUME NEW i \in 0 .. k + 1
        PROVE  e[i] = (IF i = 0 THEN a ELSE F[<<i, e[i - 1]>>]) /\ e[i] \in S[i]
    <3>1. CASE i = k + 1
      <4>1. i - 1 = k /\ e[i - 1] = h[k] /\ i # 0 BY <2>3, <3>1
      <4>2. QED BY <4>1, <3>1, <2>2, <2>4 DEF w
    <3>2. CASE i = 0
      <4>1. 0 \in 0 .. k OBVIOUS
      <4>2. e[0] = h[0] /\ h[0] = a BY <4>1, <2>1, <2>3
      <4>3. QED BY <1>0, <3>2, <4>2
    <3>3. CASE i # 0 /\ i # k + 1
      <4>1. i \in 0 .. k /\ i - 1 \in 0 .. k /\ e[i] = h[i] /\ e[i - 1] = h[i - 1] BY <2>3, <3>3
      <4>2. QED BY <4>1, <3>3, <2>1
    <3>4. QED BY <3>1, <3>2, <3>3
  <2>7. P(e, k + 1) BY <2>5, <2>6
  <2>8. QED BY <2>7
<1>3. \A k \in Nat : k \in K
  <2> HIDE DEF K
  <2>1. QED BY <1>1, <1>2, NumbersByInduction
<1>4. PICK h : P(h, N) BY <1>3
<1>5. h[0] = a
  <2>1. 0 \in 0 .. N OBVIOUS
  <2>2. QED BY <1>4, <2>1
<1>6. \A i \in 1 .. N : h[i] = F[<<i, h[i - 1]>>] BY <1>4
<1>7. QED BY <1>4, <1>5, <1>6 DEF Runs

\* Such a function keeps to the sets.
LEMMA LoopKeeps ==
  ASSUME NEW N \in Nat, NEW S, NEW f, f[0] \in S[0],
         \A i \in 1 .. N : f[i - 1] \in S[i - 1] => f[i] \in S[i]
  PROVE  \A i \in 0 .. N : f[i] \in S[i]
PROOF
<1> DEFINE K == {k \in Nat : k <= N => f[k] \in S[k]}
<1>1. 0 \in K OBVIOUS
<1>2. ASSUME NEW k \in Nat, k \in K PROVE k + 1 \in K
  <2> SUFFICES ASSUME k + 1 <= N PROVE f[k + 1] \in S[k + 1] OBVIOUS
  <2>1. k + 1 \in 1 .. N /\ (k + 1) - 1 = k /\ f[k] \in S[k] BY <1>2
  <2>2. QED BY <2>1
<1> HIDE DEF K
<1>3. \A k \in Nat : k \in K BY <1>1, <1>2, NumbersByInduction
<1>4. QED BY <1>3 DEF K

-----------------------------------------------------------------------------
(* Mates on the board: what is decided after so many plies.                  *)

Mated(g) == {p \in Playing(g) : g.check[p] /\ Replies(g, p) = {}}
Loses(g, won) == Mated(g) \union {p \in Playing(g) : Replies(g, p) # {} /\ Replies(g, p) \subseteq won}
Wins(g, lost) == {p \in Playing(g) : Replies(g, p) \intersect lost # {}}

\* The recursive function of what is decided.
LEMMA DecidedIs ==
  ASSUME NEW g
  PROVE  /\ Decided(g)[0] = [lost |-> Mated(g), won |-> {}]
         /\ \A n \in 1 .. Furthest :
              Decided(g)[n] = [lost |-> Loses(g, Decided(g)[n - 1].won),
                               won  |-> Wins(g, Decided(g)[n - 1].lost)]
PROOF
<1> DEFINE N == Furthest
           a == [lost |-> Mated(g), won |-> {}]
           Pairs == [lost : SUBSET Playing(g), won : SUBSET Playing(g)]
           Next1(s) == [lost |-> Loses(g, s.won), won |-> Wins(g, s.lost)]
           F == [z \in (1 .. N) \X Pairs |-> Next1(z[2])]
           S == [n \in 0 .. N |-> Pairs]
           P(h) == h = [n \in 0 .. N |-> IF n = 0 THEN a ELSE Next1(h[n - 1])]
<1>1. N \in Nat BY DEF Furthest, MATE, MATE_BOUND
<1> HIDE DEF N
<1>2. a \in Pairs /\ \A s \in Pairs : Next1(s) \in Pairs BY DEF Mated, Loses, Wins
<1>3. \A i \in 1 .. N : \A s \in Pairs : F[<<i, s>>] = Next1(s) OBVIOUS
<1>4. \E h : P(h)
  <2> HIDE DEF F, Pairs, a, Next1
  <2>0. \A i \in 0 .. N : S[i] = Pairs OBVIOUS
  <2> HIDE DEF S
  <2>1. a \in S[0] BY <1>1, <1>2, <2>0
  <2>2. \A i \in 1 .. N : \A s \in S[i - 1] : F[<<i, s>>] \in S[i]
    <3> SUFFICES ASSUME NEW i \in 1 .. N, NEW s \in S[i - 1] PROVE F[<<i, s>>] \in S[i]
      OBVIOUS
    <3>1. i \in 0 .. N /\ i - 1 \in 0 .. N BY <1>1
    <3>2. s \in Pairs /\ S[i] = Pairs BY <2>0, <3>1
    <3>3. QED BY <1>2, <1>3, <3>2
  <2>3. Steps(N, S, a, F) BY <2>1, <2>2, Zenon DEF Steps
  <2>8. PICK h : Runs(h, N, S, a, F) BY <1>1, <2>3, LoopRuns, Zenon
  <2>9. /\ h = [i \in 0 .. N |-> h[i]] /\ h[0] = a
        /\ \A i \in 1 .. N : h[i] = F[<<i, h[i - 1]>>]
        /\ \A i \in 0 .. N : h[i] \in S[i]
    BY <2>8, Zenon DEF Runs
  <2>4. \A i \in 1 .. N : h[i] = Next1(h[i - 1])
    <3> SUFFICES ASSUME NEW i \in 1 .. N PROVE h[i] = Next1(h[i - 1])
      OBVIOUS
    <3>1. i - 1 \in 0 .. N BY <1>1
    <3>2. h[i - 1] \in Pairs BY <2>0, <2>9, <3>1
    <3>3. QED BY <1>3, <2>9, <3>2
  <2>5. \A i \in 0 .. N : h[i] = IF i = 0 THEN a ELSE Next1(h[i - 1]) BY <1>1, <2>9, <2>4
  <2>6. P(h) BY <2>9, <2>5, Zenon
  <2>7. QED BY <2>6
<1> DEFINE d == CHOOSE h : P(h)
<1>5. P(d) BY <1>4, Zenon
<1>6. Decided(g) = d BY Zenon DEF Decided, Mated, Loses, Wins, N
<1> HIDE DEF d
<1>7. \A n \in 0 .. N : d[n] = IF n = 0 THEN a ELSE Next1(d[n - 1]) BY <1>5, Zenon
<1>8. d[0] = a /\ \A n \in 1 .. N : d[n] = Next1(d[n - 1])
  <2> HIDE DEF a, Next1, P
  <2>1. QED BY <1>1, <1>7
<1>9. QED BY <1>6, <1>8 DEF N

\* How the bounds of the search lie: a mate score tells mates that are further away
\* than any search looks, and is far from zero.
LEMMA Limits ==
  /\ MATE \in Nat /\ MATE_BOUND \in Nat /\ Furthest \in Nat /\ MAX_PLY \in Nat
  /\ Furthest = MATE - MATE_BOUND /\ MAX_PLY < Furthest /\ 2 * Furthest < MATE_BOUND
  /\ INF \in Nat /\ MATE < INF
PROOF BY DEF Furthest, MATE, MATE_BOUND, MAX_PLY, INF

\* What is mated is lost at once; a move to a lost position wins and moves to won
\* positions alone lose, one ply later.
LEMMA MateSteps ==
  ASSUME NEW g
  PROVE  /\ \A n \in 0 .. Furthest : Mated(g) \subseteq LostIn(g, n)
         /\ \A n \in 0 .. Furthest - 1 : /\ LostIn(g, n + 1) = Loses(g, WonIn(g, n))
                                         /\ WonIn(g, n + 1) = Wins(g, LostIn(g, n))
         /\ LostIn(g, 0) = Mated(g) /\ WonIn(g, 0) = {}
PROOF
<1> DEFINE d == Decided(g)
<1>0. /\ d[0] = [lost |-> Mated(g), won |-> {}]
      /\ \A n \in 1 .. Furthest : d[n] = [lost |-> Loses(g, d[n - 1].won),
                                          won  |-> Wins(g, d[n - 1].lost)]
  BY DecidedIs, Zenon
<1>2. \A n \in 0 .. Furthest : LostIn(g, n) = d[n].lost /\ WonIn(g, n) = d[n].won
  BY DEF LostIn, WonIn
<1> HIDE DEF d
<1>1. /\ Furthest \in Nat /\ d[0].lost = Mated(g) /\ d[0].won = {}
      /\ \A n \in 1 .. Furthest : d[n].lost = Loses(g, d[n - 1].won) /\ d[n].won = Wins(g, d[n - 1].lost)
  <2>1. Furthest \in Nat BY Limits
  <2>2. d[0].lost = Mated(g) /\ d[0].won = {} BY <1>0
  <2>3. ASSUME NEW n \in 1 .. Furthest
        PROVE  d[n].lost = Loses(g, d[n - 1].won) /\ d[n].won = Wins(g, d[n - 1].lost)
    <3> DEFINE l == Loses(g, d[n - 1].won)
               w == Wins(g, d[n - 1].lost)
    <3>1. d[n] = [lost |-> l, won |-> w] BY <1>0, Zenon
    <3> HIDE DEF l, w
    <3>2. d[n].lost = l /\ d[n].won = w BY <3>1
    <3>3. QED BY <3>2 DEF l, w
  <2>4. QED BY <2>1, <2>2, <2>3
<1>3. LostIn(g, 0) = Mated(g) /\ WonIn(g, 0) = {} BY <1>1, <1>2
<1>4. ASSUME NEW n \in 0 .. Furthest - 1
      PROVE  LostIn(g, n + 1) = Loses(g, WonIn(g, n)) /\ WonIn(g, n + 1) = Wins(g, LostIn(g, n))
  <2>1. n + 1 \in 1 .. Furthest /\ n + 1 \in 0 .. Furthest /\ n \in 0 .. Furthest
        /\ (n + 1) - 1 = n
    BY <1>1
  <2>2. QED BY <1>1, <1>2, <2>1
<1>5. ASSUME NEW n \in 0 .. Furthest PROVE Mated(g) \subseteq LostIn(g, n)
  <2>1. CASE n = 0 BY <1>3, <2>1
  <2>2. CASE n # 0
    <3>1. n - 1 \in 0 .. Furthest - 1 /\ (n - 1) + 1 = n BY <1>1, <2>2
    <3>2. LostIn(g, n) = Loses(g, WonIn(g, n - 1)) BY <1>4, <3>1
    <3>3. QED BY <3>2 DEF Loses
  <2>3. QED BY <2>1, <2>2
<1>6. QED BY <1>3, <1>4, <1>5

\* What is decided in fewer plies is decided in more.
LEMMA MatesStay ==
  ASSUME NEW g, NEW m \in Int, NEW n \in 0 .. Furthest, m <= n
  PROVE  LostIn(g, m) \subseteq LostIn(g, n) /\ WonIn(g, m) \subseteq WonIn(g, n)
PROOF
<1> DEFINE Grows(k) == LostIn(g, k) \subseteq LostIn(g, k + 1) /\ WonIn(g, k) \subseteq WonIn(g, k + 1)
           K == {k \in Nat : k < Furthest => Grows(k)}
           J == {k \in Nat : m + k <= Furthest =>
                               LostIn(g, m) \subseteq LostIn(g, m + k) /\ WonIn(g, m) \subseteq WonIn(g, m + k)}
<1>1. Furthest \in Nat BY Limits
<1>2. /\ \A i \in 0 .. Furthest : Mated(g) \subseteq LostIn(g, i)
      /\ \A i \in 0 .. Furthest - 1 : /\ LostIn(g, i + 1) = Loses(g, WonIn(g, i))
                                      /\ WonIn(g, i + 1) = Wins(g, LostIn(g, i))
      /\ LostIn(g, 0) = Mated(g) /\ WonIn(g, 0) = {}
  BY MateSteps
<1>3. \A k \in Nat : k \in K
  <2>1. 0 \in K
    <3>1. 0 < Furthest => 0 + 1 \in 0 .. Furthest BY <1>1
    <3>2. QED BY <1>2, <3>1
  <2>2. ASSUME NEW k \in Nat, k \in K PROVE k + 1 \in K
    <3> SUFFICES ASSUME k + 1 < Furthest PROVE Grows(k + 1) OBVIOUS
    <3>1. k \in 0 .. Furthest - 1 /\ k + 1 \in 0 .. Furthest - 1 BY <1>1
    <3>2. LostIn(g, k) \subseteq LostIn(g, k + 1) /\ WonIn(g, k) \subseteq WonIn(g, k + 1)
      BY <1>1, <2>2, <3>1
    <3>3. LostIn(g, k + 1) = Loses(g, WonIn(g, k)) /\ WonIn(g, k + 1) = Wins(g, LostIn(g, k))
      BY <1>2, <3>1
    <3>4. /\ LostIn(g, (k + 1) + 1) = Loses(g, WonIn(g, k + 1))
          /\ WonIn(g, (k + 1) + 1) = Wins(g, LostIn(g, k + 1))
      BY <1>2, <3>1
    <3>5. Loses(g, WonIn(g, k)) \subseteq Loses(g, WonIn(g, k + 1)) BY <3>2 DEF Loses
    <3>6. Wins(g, LostIn(g, k)) \subseteq Wins(g, LostIn(g, k + 1)) BY <3>2 DEF Wins
    <3>7. QED BY <3>3, <3>4, <3>5, <3>6
  <2> HIDE DEF K
  <2>3. QED BY <2>1, <2>2, NumbersByInduction
<1>4. \A i \in Int : i < Furthest => Grows(i)
  <2> SUFFICES ASSUME NEW i \in Int, i < Furthest PROVE Grows(i) OBVIOUS
  <2>1. CASE i < 0 BY <2>1 DEF LostIn, WonIn
  <2>2. CASE i >= 0
    <3>1. i \in Nat BY <2>2
    <3>2. i \in K BY <1>3, <3>1
    <3>3. QED BY <3>2
  <2>3. QED BY <2>1, <2>2
<1>5. \A k \in Nat : k \in J
  <2>1. 0 \in J
    <3>1. m + 0 = m OBVIOUS
    <3>2. QED BY <3>1
  <2>2. ASSUME NEW k \in Nat, k \in J PROVE k + 1 \in J
    <3> SUFFICES ASSUME m + (k + 1) <= Furthest
                 PROVE  /\ LostIn(g, m) \subseteq LostIn(g, m + (k + 1))
                        /\ WonIn(g, m) \subseteq WonIn(g, m + (k + 1))
      OBVIOUS
    <3>1. m + k < Furthest /\ m + k <= Furthest /\ m + k \in Int /\ m + (k + 1) = (m + k) + 1 BY <1>1
    <3>2. LostIn(g, m) \subseteq LostIn(g, m + k) /\ WonIn(g, m) \subseteq WonIn(g, m + k)
      BY <2>2, <3>1
    <3>3. Grows(m + k) BY <1>4, <3>1
    <3>4. QED BY <3>1, <3>2, <3>3
  <2> HIDE DEF J
  <2>3. QED BY <2>1, <2>2, NumbersByInduction
<1>6. n - m \in Nat /\ m + (n - m) = n /\ n <= Furthest BY <1>1
<1>7. n - m \in J BY <1>5, <1>6
<1>8. QED BY <1>6, <1>7

\* A move to a position lost in n plies wins in one more.
LEMMA WinsByMove ==
  ASSUME NEW g, NEW p \in Playing(g), NEW q \in Replies(g, p), NEW n \in Int, n < Furthest,
         q \in LostIn(g, n)
  PROVE  p \in WonIn(g, n + 1)
PROOF
<1>1. n >= 0 BY DEF LostIn
<1>2. n \in 0 .. Furthest - 1 BY <1>1, Limits
<1>3. WonIn(g, n + 1) = Wins(g, LostIn(g, n)) BY <1>2, MateSteps
<1>4. QED BY <1>3 DEF Wins

\* Who has only moves to positions won in n plies is lost in one more.
LEMMA LosesByAll ==
  ASSUME NEW g, NEW p \in Playing(g), Replies(g, p) # {}, NEW n \in Int, n < Furthest,
         Replies(g, p) \subseteq WonIn(g, n)
  PROVE  p \in LostIn(g, n + 1)
PROOF
<1>1. n >= 0 BY DEF WonIn
<1>2. n \in 0 .. Furthest - 1 BY <1>1, Limits
<1>3. LostIn(g, n + 1) = Loses(g, WonIn(g, n)) BY <1>2, MateSteps
<1>4. QED BY <1>3 DEF Loses

-----------------------------------------------------------------------------
(* What a score says, and what the best move so far of a node says.          *)

\* Inside its window a mate score of p, counted from the root of the search, is true.
Sound(g, p, ply, alpha, beta, score) ==
  /\ score \in -MATE .. MATE
  /\ score > alpha /\ score > MATE_BOUND => p \in WonIn(g, MATE - score - ply)
  /\ score < beta /\ score < -MATE_BOUND => p \in LostIn(g, MATE + score - ply)

\* After the moves to `tried`, in a window that began with `from`.
Best(g, p, ply, from, beta, tried, best, alpha) ==
  /\ best \in -MATE .. MATE
  /\ best <= alpha /\ from <= alpha /\ alpha \in {from, best}
  /\ best > from /\ best > MATE_BOUND => p \in WonIn(g, MATE - best - ply)
  /\ best < beta /\ best < -MATE_BOUND => tried \subseteq WonIn(g, MATE + best - ply - 1)

\* A move that mates wins for the mover; what loses in n plies for the other side wins.
LEMMA MoveWins ==
  ASSUME NEW g, NEW p \in Playing(g), NEW q \in Replies(g, p), NEW ply \in 0 .. MAX_PLY,
         NEW r \in -MATE .. MATE, -r > MATE_BOUND, q \in LostIn(g, MATE + r - (ply + 1))
  PROVE  p \in WonIn(g, MATE - (-r) - ply)
PROOF
<1>1. /\ MATE \in Nat /\ MATE_BOUND \in Nat /\ Furthest \in Nat /\ MAX_PLY \in Nat
      /\ Furthest = MATE - MATE_BOUND /\ MAX_PLY < Furthest /\ 2 * Furthest < MATE_BOUND
  BY Limits
<1> DEFINE n == MATE + r - (ply + 1)
<1>2. n \in Int /\ n < Furthest /\ n + 1 = MATE - (-r) - ply BY <1>1
<1> HIDE DEF n
<1>3. q \in LostIn(g, n) BY DEF n
<1>4. p \in WonIn(g, n + 1) BY <1>2, <1>3, WinsByMove
<1>5. QED BY <1>2, <1>4

\* The first move of a node.
LEMMA FirstMove ==
  ASSUME NEW g, NEW p \in Playing(g), NEW q \in Replies(g, p), NEW ply \in 0 .. MAX_PLY,
         NEW from \in Int, NEW beta \in Int, from < beta,
         NEW r, Sound(g, q, ply + 1, -beta, -from, r)
  PROVE  Best(g, p, ply, from, beta, {q}, -r, Larger(-r, from))
PROOF
<1>1. /\ MATE \in Nat /\ MATE_BOUND \in Nat /\ Furthest \in Nat /\ MAX_PLY \in Nat
      /\ Furthest = MATE - MATE_BOUND /\ MAX_PLY < Furthest /\ 2 * Furthest < MATE_BOUND
  BY Limits
<1>2. /\ r \in -MATE .. MATE
      /\ r > -beta /\ r > MATE_BOUND => q \in WonIn(g, MATE - r - (ply + 1))
      /\ r < -from /\ r < -MATE_BOUND => q \in LostIn(g, MATE + r - (ply + 1))
  BY DEF Sound
<1>3. -r \in -MATE .. MATE BY <1>1, <1>2
<1>4. -r <= Larger(-r, from) /\ from <= Larger(-r, from) /\ Larger(-r, from) \in {from, -r}
  BY <1>1, <1>2 DEF Larger
<1>5. ASSUME -r > from, -r > MATE_BOUND PROVE p \in WonIn(g, MATE - (-r) - ply)
  <2>1. r < -from /\ r < -MATE_BOUND BY <1>1, <1>2, <1>5
  <2>2. QED BY <1>2, <1>5, <2>1, MoveWins
<1>6. ASSUME -r < beta, -r < -MATE_BOUND PROVE {q} \subseteq WonIn(g, MATE + (-r) - ply - 1)
  <2>1. r > -beta /\ r > MATE_BOUND /\ MATE + (-r) - ply - 1 = MATE - r - (ply + 1)
    BY <1>1, <1>2, <1>6
  <2>2. q \in WonIn(g, MATE - r - (ply + 1)) BY <1>2, <2>1
  <2>3. QED BY <2>1, <2>2
<1>7. QED BY <1>3, <1>4, <1>5, <1>6 DEF Best

\* One more move, searched in the window that is left.
LEMMA NextMove ==
  ASSUME NEW g, NEW p \in Playing(g), NEW q \in Replies(g, p), NEW ply \in 0 .. MAX_PLY,
         NEW from \in Int, NEW beta \in Int, NEW tried, NEW best, NEW alpha,
         Best(g, p, ply, from, beta, tried, best, alpha), alpha < beta,
         NEW r, Sound(g, q, ply + 1, -beta, -alpha, r)
  PROVE  Best(g, p, ply, from, beta, tried \union {q}, Larger(-r, best), Larger(-r, alpha))
PROOF
<1> DEFINE new == Larger(-r, best)
<1>1. /\ MATE \in Nat /\ MATE_BOUND \in Nat /\ Furthest \in Nat /\ MAX_PLY \in Nat
      /\ Furthest = MATE - MATE_BOUND /\ MAX_PLY < Furthest /\ 2 * Furthest < MATE_BOUND
  BY Limits
<1>2. /\ r \in -MATE .. MATE
      /\ r > -beta /\ r > MATE_BOUND => q \in WonIn(g, MATE - r - (ply + 1))
      /\ r < -alpha /\ r < -MATE_BOUND => q \in LostIn(g, MATE + r - (ply + 1))
  BY DEF Sound
<1>3. /\ best \in -MATE .. MATE
      /\ best <= alpha /\ from <= alpha /\ alpha \in {from, best}
      /\ best > from /\ best > MATE_BOUND => p \in WonIn(g, MATE - best - ply)
      /\ best < beta /\ best < -MATE_BOUND => tried \subseteq WonIn(g, MATE + best - ply - 1)
  BY DEF Best
<1>4. r \in Int /\ best \in Int /\ alpha \in Int /\ new = (IF -r < best THEN best ELSE -r)
      /\ Larger(-r, alpha) = (IF -r < alpha THEN alpha ELSE -r)
  BY <1>1, <1>2, <1>3 DEF Larger
<1> HIDE DEF new
<1>5. new \in -MATE .. MATE BY <1>1, <1>2, <1>3, <1>4
<1>6. new <= Larger(-r, alpha) /\ from <= Larger(-r, alpha) /\ Larger(-r, alpha) \in {from, new}
  BY <1>3, <1>4
<1>7. ASSUME new > from, new > MATE_BOUND PROVE p \in WonIn(g, MATE - new - ply)
  <2>1. CASE new = best BY <1>3, <1>7, <2>1
  <2>2. CASE new # best
    <3>1. new = -r /\ -r > best BY <1>4, <2>2
    <3>2. -r > alpha BY <1>3, <1>4, <1>7, <3>1
    <3>3. r < -alpha /\ r < -MATE_BOUND /\ -r > MATE_BOUND BY <1>1, <1>4, <1>7, <3>1, <3>2
    <3>4. q \in LostIn(g, MATE + r - (ply + 1)) BY <1>2, <3>3
    <3>5. p \in WonIn(g, MATE - (-r) - ply) BY <1>2, <3>3, <3>4, MoveWins
    <3>6. QED BY <3>1, <3>5
  <2>3. QED BY <2>1, <2>2
<1>8. ASSUME new < beta, new < -MATE_BOUND
      PROVE  tried \union {q} \subseteq WonIn(g, MATE + new - ply - 1)
  <2> DEFINE n == MATE + new - ply - 1
             m == MATE + best - ply - 1
             k == MATE - r - (ply + 1)
  <2>1. /\ best < beta /\ best < -MATE_BOUND /\ r > -beta /\ r > MATE_BOUND
        /\ m \in Int /\ k \in Int /\ n \in Int /\ m <= n /\ k <= n /\ n <= Furthest
    BY <1>1, <1>4, <1>5, <1>8
  <2>2. tried \subseteq WonIn(g, m) /\ q \in WonIn(g, k) BY <1>2, <1>3, <2>1
  <2> HIDE DEF n, m, k
  <2>3. n >= 0
    <3>1. k >= 0 BY <2>1, <2>2 DEF WonIn
    <3>2. QED BY <2>1, <3>1
  <2>4. n \in 0 .. Furthest BY <1>1, <2>1, <2>3
  <2>5. WonIn(g, m) \subseteq WonIn(g, n) /\ WonIn(g, k) \subseteq WonIn(g, n)
    BY <2>1, <2>4, MatesStay
  <2>6. QED BY <2>2, <2>5 DEF n
<1>9. QED BY <1>5, <1>6, <1>7, <1>8 DEF Best, new

\* After a cutoff, or with no mate to fear, the other moves do not matter.
LEMMA OthersDoNotMatter ==
  ASSUME NEW g, NEW p, NEW ply, NEW from \in Int, NEW beta \in Int, from < beta,
         NEW tried, NEW best, NEW alpha, Best(g, p, ply, from, beta, tried, best, alpha),
         alpha >= beta \/ best >= -MATE_BOUND, NEW others
  PROVE  Best(g, p, ply, from, beta, others, best, alpha)
PROOF
<1>1. /\ best \in -MATE .. MATE
      /\ best <= alpha /\ from <= alpha /\ alpha \in {from, best}
      /\ best > from /\ best > MATE_BOUND => p \in WonIn(g, MATE - best - ply)
  BY DEF Best
<1>2. /\ MATE \in Nat /\ MATE_BOUND \in Nat /\ Furthest \in Nat /\ MAX_PLY \in Nat
      /\ Furthest = MATE - MATE_BOUND /\ MAX_PLY < Furthest /\ 2 * Furthest < MATE_BOUND
  BY Limits
<1>3. ~(best < beta /\ best < -MATE_BOUND) BY <1>1, <1>2
<1>4. QED BY <1>1, <1>3 DEF Best

\* With all moves tried the best one is the score of the node.
LEMMA BestIsSound ==
  ASSUME NEW g, NEW p \in Playing(g), NEW ply \in 0 .. MAX_PLY, NEW from \in Int, NEW beta \in Int,
         NEW tried, NEW best, NEW alpha, Best(g, p, ply, from, beta, tried, best, alpha),
         best >= -MATE_BOUND \/ (Replies(g, p) # {} /\ Replies(g, p) \subseteq tried)
  PROVE  Sound(g, p, ply, from, beta, best)
PROOF
<1>1. /\ MATE \in Nat /\ MATE_BOUND \in Nat /\ Furthest \in Nat /\ MAX_PLY \in Nat
      /\ Furthest = MATE - MATE_BOUND /\ MAX_PLY < Furthest /\ 2 * Furthest < MATE_BOUND
  BY Limits
<1>2. /\ best \in -MATE .. MATE
      /\ best > from /\ best > MATE_BOUND => p \in WonIn(g, MATE - best - ply)
      /\ best < beta /\ best < -MATE_BOUND => tried \subseteq WonIn(g, MATE + best - ply - 1)
  BY DEF Best
<1>3. ASSUME best < beta, best < -MATE_BOUND PROVE p \in LostIn(g, MATE + best - ply)
  <2> DEFINE n == MATE + best - ply - 1
  <2>1. best \in Int /\ n \in Int /\ n < Furthest /\ n + 1 = MATE + best - ply BY <1>1, <1>2, <1>3
  <2>2. ~(best >= -MATE_BOUND) BY <1>1, <1>3, <2>1
  <2>3. Replies(g, p) # {} /\ Replies(g, p) \subseteq WonIn(g, n) BY <1>2, <1>3, <2>2
  <2> HIDE DEF n
  <2>4. p \in LostIn(g, n + 1) BY <2>1, <2>3, LosesByAll
  <2>5. QED BY <2>1, <2>4
<1>4. QED BY <1>2, <1>3 DEF Sound

-----------------------------------------------------------------------------
(* The moves of a position, in any order.                                    *)

SomeMove(g) == [to : Positions(g), quiet : BOOLEAN]
Reached(moves, i) == {moves[j].to : j \in 1 .. i}
MovesOf(g, p, moves) ==
  /\ moves \in Seq(SomeMove(g)) /\ Len(moves) \in Nat
  /\ Reached(moves, 0) = {} /\ Reached(moves, Len(moves)) = Replies(g, p)
  /\ \A i \in 1 .. Len(moves) :
       /\ moves[i] \in SomeMove(g) /\ moves[i].to \in Replies(g, p)
       /\ Reached(moves, i) = Reached(moves, i - 1) \union {moves[i].to}
  /\ moves = <<>> <=> Len(moves) = 0
  /\ moves = <<>> <=> Replies(g, p) = {}

\* A sequence of moves that reaches what can be reached.
LEMMA MovesFrom ==
  ASSUME NEW g, NEW p, NEW moves \in Seq(SomeMove(g)),
         {moves[j].to : j \in DOMAIN moves} = Replies(g, p)
  PROVE  MovesOf(g, p, moves)
PROOF
<1>1. Len(moves) \in Nat /\ DOMAIN moves = 1 .. Len(moves) OBVIOUS
<1>2. \A i \in 1 .. Len(moves) : moves[i] \in SomeMove(g) OBVIOUS
<1>3. Reached(moves, 0) = {} /\ Reached(moves, Len(moves)) = Replies(g, p) BY <1>1 DEF Reached
<1>4. ASSUME NEW i \in 1 .. Len(moves)
      PROVE  /\ moves[i].to \in Replies(g, p)
             /\ Reached(moves, i) = Reached(moves, i - 1) \union {moves[i].to}
  <2>1. \A j \in 1 .. i : j \in 1 .. i - 1 \/ j = i BY <1>1
  <2>2. i \in 1 .. i /\ \A j \in 1 .. i - 1 : j \in 1 .. i BY <1>1
  <2>3. QED BY <1>1, <2>1, <2>2 DEF Reached
<1>5. moves = <<>> <=> Len(moves) = 0 OBVIOUS
<1>6. moves = <<>> <=> Replies(g, p) = {}
  <2>1. CASE Len(moves) = 0 BY <1>3, <1>5, <2>1
  <2>2. CASE Len(moves) # 0
    <3>1. 1 \in 1 .. Len(moves) BY <1>1, <2>2
    <3>2. moves[1].to \in Replies(g, p) BY <1>4, <3>1
    <3>3. QED BY <1>5, <2>2, <3>2
  <2>3. QED BY <2>1, <2>2
<1>7. QED BY <1>1, <1>2, <1>3, <1>4, <1>5, <1>6 DEF MovesOf

\* What a game has for each position.
LEMMA GameFacts ==
  ASSUME NEW g, IsGame(g), NEW p \in Positions(g)
  PROVE  /\ MovesOf(g, p, g.next[p])
         /\ p \in Nat /\ p # NO_MOVE
         /\ Replies(g, p) \subseteq Positions(g)
         /\ g.pass[p] # NO_MOVE => g.pass[p] \in Positions(g)
         /\ g.check[p] \in BOOLEAN /\ g.ended[p] \in BOOLEAN
         /\ g.value[p] \in -MATE_BOUND .. MATE_BOUND
         /\ g.points[p] \in {DRAW_SCORE, POINTS_WIN, -POINTS_WIN}
         /\ ~g.ended[p] => p \in Playing(g)
PROOF
<1>1. g.next[p] \in Seq(SomeMove(g)) BY DEF IsGame, SomeMove
<1>2. {g.next[p][j].to : j \in DOMAIN g.next[p]} = Replies(g, p) BY DEF Replies
<1>3. MovesOf(g, p, g.next[p]) BY <1>1, <1>2, MovesFrom
<1>4. Replies(g, p) \subseteq Positions(g)
  <2>1. \A i \in DOMAIN g.next[p] : g.next[p][i] \in SomeMove(g) BY <1>1
  <2>2. QED BY <1>2, <2>1 DEF SomeMove
<1>5. /\ p \in Nat /\ p # NO_MOVE /\ g.check[p] \in BOOLEAN /\ g.ended[p] \in BOOLEAN
      /\ g.pass[p] # NO_MOVE => g.pass[p] \in Positions(g)
      /\ g.points[p] \in {DRAW_SCORE, POINTS_WIN, -POINTS_WIN}
  <2>1. [ended |-> g.ended, points |-> g.points] \in Rules(g) BY DEF IsGame
  <2>2. /\ g.ended \in [Positions(g) -> BOOLEAN]
        /\ g.points \in [Positions(g) -> {DRAW_SCORE, POINTS_WIN, -POINTS_WIN}]
    BY <2>1 DEF Rules
  <2>3. g.ended[p] \in BOOLEAN /\ g.points[p] \in {DRAW_SCORE, POINTS_WIN, -POINTS_WIN}
    BY <2>2
  <2>4. p \in Nat /\ p # NO_MOVE BY DEF IsGame
  <2>5. g.check[p] \in BOOLEAN BY DEF IsGame
  <2>6. g.pass[p] # NO_MOVE => g.pass[p] \in Positions(g) BY DEF IsGame
  <2>7. QED BY <2>3, <2>4, <2>5, <2>6
<1>6. g.value[p] \in -MATE_BOUND .. MATE_BOUND BY DEF IsGame
<1>7. QED BY <1>3, <1>4, <1>5, <1>6 DEF Playing

\* The move of the table goes first: the same moves.
LEMMA OrderedMoves ==
  ASSUME NEW g, IsGame(g), NEW p \in Positions(g), NEW first
  PROVE  MovesOf(g, p, Ordered(g.next[p], first))
PROOF
<1> DEFINE moves == g.next[p]
           n == Len(moves)
           k == CHOOSE j \in DOMAIN moves : moves[j].to = first
           from(i) == IF i = 1 THEN k ELSE IF i <= k THEN i - 1 ELSE i
           o == [i \in DOMAIN moves |-> moves[from(i)]]
<1>1. /\ moves \in Seq(SomeMove(g)) /\ n \in Nat /\ DOMAIN moves = 1 .. n
      /\ {moves[j].to : j \in DOMAIN moves} = Replies(g, p) /\ MovesOf(g, p, moves)
  <2>1. moves \in Seq(SomeMove(g)) BY DEF IsGame, SomeMove
  <2>2. QED BY <2>1, GameFacts DEF Replies
<1>2. Ordered(moves, first) = IF \A j \in DOMAIN moves : moves[j].to # first THEN moves ELSE o
  BY DEF Ordered
<1> HIDE DEF moves, n
<1>3. CASE \A j \in DOMAIN moves : moves[j].to # first BY <1>1, <1>2, <1>3 DEF moves
<1>4. CASE ~(\A j \in DOMAIN moves : moves[j].to # first)
  <2>1. k \in 1 .. n BY <1>1, <1>4
  <2> HIDE DEF k
  <2>2. \A i \in 1 .. n : from(i) \in 1 .. n BY <1>1, <2>1
  <2>3. ASSUME NEW j \in 1 .. n PROVE \E i \in 1 .. n : from(i) = j
    <3>1. CASE j = k
      <4>1. 1 \in 1 .. n /\ from(1) = j BY <1>1, <3>1
      <4>2. QED BY <4>1
    <3>2. CASE j < k
      <4>1. j + 1 \in 1 .. n /\ from(j + 1) = j BY <1>1, <2>1, <3>2
      <4>2. QED BY <4>1
    <3>3. CASE j > k
      <4>1. j \in 1 .. n /\ from(j) = j BY <1>1, <2>1, <3>3
      <4>2. QED BY <4>1
    <3>4. QED BY <1>1, <2>1, <3>1, <3>2, <3>3
  <2> HIDE DEF from
  <2>4. \A i \in 1 .. n : moves[i] \in SomeMove(g) BY <1>1 DEF n
  <2>5. o = [i \in 1 .. n |-> moves[from(i)]] BY <1>1
  <2>6. o \in Seq(SomeMove(g)) /\ DOMAIN o = 1 .. n BY <1>1, <2>2, <2>4, <2>5
  <2>7. {o[i].to : i \in DOMAIN o} = {moves[j].to : j \in DOMAIN moves}
    BY <1>1, <2>2, <2>3, <2>5, <2>6
  <2> HIDE DEF o
  <2>8. MovesOf(g, p, o) BY <1>1, <2>6, <2>7, MovesFrom
  <2>9. QED BY <1>2, <1>4, <2>8 DEF moves
<1>5. QED BY <1>3, <1>4

-----------------------------------------------------------------------------
(* qsearch(): its loop and its nodes.                                        *)

\* Every call with a window is answered soundly.
QuietSound(g, below) ==
  \A y \in QuietCalls(g) : y.alpha < y.beta /\ y.ply \in 0 .. MAX_PLY =>
                             Sound(g, y.here, y.ply, y.alpha, y.beta, below[y])

QuietState == [best : Int, alpha : Int]
QuietStart(g, x) ==
  IF g.check[x.here] THEN [best |-> -INF, alpha |-> x.alpha]
  ELSE [best |-> g.value[x.here], alpha |-> Larger(g.value[x.here], x.alpha)]
\* The loop after i moves.
QuietAt(g, x, moves, i, st) ==
  IF i = 0 /\ g.check[x.here] THEN st.alpha = x.alpha /\ st.best = -INF
  ELSE /\ Best(g, x.here, x.ply, x.alpha, x.beta, Reached(moves, i), st.best, st.alpha)
       /\ g.check[x.here] \/ st.best >= -MATE_BOUND

\* One move more.
LEMMA QuietStep ==
  ASSUME NEW g, IsGame(g), NEW x \in QuietCalls(g), x.alpha < x.beta,
         x.ply \in 0 .. MAX_PLY - 1, x.here \in Playing(g),
         NEW below, QuietSound(g, below),
         NEW moves, MovesOf(g, x.here, moves), NEW i \in 1 .. Len(moves),
         NEW st \in QuietState, QuietAt(g, x, moves, i - 1, st)
  PROVE  LET new == QuietTry(g, below, x, st, moves[i])
         IN  new \in QuietState /\ QuietAt(g, x, moves, i, new)
PROOF
<1> DEFINE p == x.here
           m == moves[i]
           old == Reached(moves, i - 1)
           y == [here |-> m.to, ply |-> x.ply + 1, alpha |-> -x.beta, beta |-> -st.alpha]
           r == below[y]
           new == QuietTry(g, below, x, st, m)
<1>1. /\ MATE \in Nat /\ MATE_BOUND \in Nat /\ Furthest \in Nat /\ MAX_PLY \in Nat
      /\ Furthest = MATE - MATE_BOUND /\ MAX_PLY < Furthest /\ 2 * Furthest < MATE_BOUND
  BY Limits
<1>2. /\ x.ply \in Int /\ x.alpha \in Int /\ x.beta \in Int /\ p \in Positions(g)
      /\ st.best \in Int /\ st.alpha \in Int
  BY DEF QuietCalls, QuietState
<1>3. /\ Len(moves) \in Nat /\ m \in SomeMove(g) /\ m.to \in Replies(g, p)
      /\ Reached(moves, i) = old \union {m.to} /\ i # 0
  BY DEF MovesOf
<1>4. m.to \in Positions(g) BY <1>3 DEF SomeMove
<1>5. CASE st.alpha >= x.beta \/ (m.quiet /\ ~g.check[p])
  <2>1. new = st BY <1>5 DEF QuietTry
  <2>2. ~(i - 1 = 0 /\ g.check[p]) BY <1>2, <1>5 DEF QuietAt
  <2>3. /\ Best(g, p, x.ply, x.alpha, x.beta, old, st.best, st.alpha)
        /\ g.check[p] \/ st.best >= -MATE_BOUND
    BY <2>2 DEF QuietAt
  <2>4. st.alpha >= x.beta \/ st.best >= -MATE_BOUND BY <1>5, <2>3
  <2> HIDE DEF old, p
  <2>5. Best(g, p, x.ply, x.alpha, x.beta, Reached(moves, i), st.best, st.alpha)
    BY <1>2, <2>3, <2>4, OthersDoNotMatter
  <2>6. QED BY <1>3, <2>1, <2>3, <2>5 DEF QuietAt, p
<1>6. CASE ~(st.alpha >= x.beta \/ (m.quiet /\ ~g.check[p]))
  <2>1. st.alpha < x.beta BY <1>2, <1>6
  <2>2. y \in QuietCalls(g) /\ y.alpha < y.beta /\ y.ply \in 0 .. MAX_PLY
    BY <1>1, <1>2, <1>4, <2>1 DEF QuietCalls
  <2>3. Sound(g, m.to, x.ply + 1, -x.beta, -st.alpha, r)
    <3>1. Sound(g, y.here, y.ply, y.alpha, y.beta, r) BY <2>2 DEF QuietSound
    <3>2. QED BY <3>1
  <2>4. new = [best |-> Larger(-r, st.best), alpha |-> Larger(-r, st.alpha)] BY <1>6 DEF QuietTry
  <2>5. x.ply \in 0 .. MAX_PLY /\ r \in -MATE .. MATE /\ r \in Int BY <1>1, <2>3 DEF Sound
  <2> HIDE DEF r, y, new, m
  <2>6. new \in QuietState BY <1>2, <2>4, <2>5 DEF QuietState, Larger
  <2>7. CASE i - 1 = 0 /\ g.check[p]
    <3>1. st.alpha = x.alpha /\ st.best = -INF /\ old = {} BY <2>7 DEF QuietAt, MovesOf
    <3> HIDE DEF old, p
    <3>2. Best(g, p, x.ply, x.alpha, x.beta, {m.to}, -r, Larger(-r, x.alpha))
      BY <1>2, <1>3, <2>3, <2>5, <3>1, FirstMove DEF p
    <3>3. Larger(-r, st.best) = -r
      <4>1. INF \in Nat /\ MATE < INF BY Limits
      <4>2. QED BY <1>1, <2>5, <3>1, <4>1 DEF Larger
    <3>4. Reached(moves, i) = {m.to} BY <1>3, <3>1
    <3>5. QED BY <1>3, <2>4, <2>6, <2>7, <3>1, <3>2, <3>3, <3>4 DEF QuietAt, p, new, m
  <2>8. CASE ~(i - 1 = 0 /\ g.check[p])
    <3>1. /\ Best(g, p, x.ply, x.alpha, x.beta, old, st.best, st.alpha)
          /\ g.check[p] \/ st.best >= -MATE_BOUND
      BY <2>8 DEF QuietAt
    <3> HIDE DEF old, p
    <3>2. Best(g, p, x.ply, x.alpha, x.beta, old \union {m.to}, Larger(-r, st.best), Larger(-r, st.alpha))
      BY <1>2, <1>3, <2>1, <2>3, <2>5, <3>1, NextMove DEF p
    <3>3. Larger(-r, st.best) >= -MATE_BOUND \/ g.check[p] BY <1>1, <1>2, <2>5, <3>1 DEF Larger
    <3>4. QED BY <1>3, <2>4, <2>6, <3>2, <3>3 DEF QuietAt, p, new, m
  <2>9. QED BY <2>7, <2>8
<1>7. QED BY <1>5, <1>6

\* All moves of a node.
LEMMA QuietLoop ==
  ASSUME NEW g, IsGame(g), NEW x \in QuietCalls(g), x.alpha < x.beta,
         x.ply \in 0 .. MAX_PLY - 1, x.here \in Playing(g),
         ~g.check[x.here] \/ g.next[x.here] # <<>>,
         NEW below, QuietSound(g, below)
  PROVE  Sound(g, x.here, x.ply, x.alpha, x.beta, QuietMoves(g, below, x))
PROOF
<1> DEFINE p == x.here
           moves == g.next[p]
           N == Len(moves)
           a == QuietStart(g, x)
           Step(i, s) == QuietTry(g, below, x, s, moves[i])
           F == [z \in (1 .. N) \X QuietState |-> Step(z[1], z[2])]
           S == [i \in 0 .. N |-> {st \in QuietState : QuietAt(g, x, moves, i, st)}]
           P(h) == h = [i \in 0 .. N |-> IF i > 0 THEN Step(i, h[i - 1]) ELSE a]
<1>1. /\ MATE \in Nat /\ MATE_BOUND \in Nat /\ Furthest \in Nat /\ MAX_PLY \in Nat
      /\ Furthest = MATE - MATE_BOUND /\ MAX_PLY < Furthest /\ 2 * Furthest < MATE_BOUND
      /\ INF \in Nat
  BY Limits
<1>2. x.ply \in Int /\ x.alpha \in Int /\ x.beta \in Int /\ p \in Positions(g) BY DEF QuietCalls
<1>3. MovesOf(g, p, moves) /\ g.check[p] \in BOOLEAN /\ g.value[p] \in -MATE_BOUND .. MATE_BOUND
  BY <1>2, GameFacts
<1>4. N \in Nat /\ Reached(moves, 0) = {} /\ Reached(moves, N) = Replies(g, p)
  BY <1>3 DEF MovesOf
<1>5. a \in QuietState /\ QuietAt(g, x, moves, 0, a)
  <2>1. CASE g.check[p]
    <3>1. a = [best |-> -INF, alpha |-> x.alpha] BY <2>1 DEF QuietStart
    <3>2. QED BY <1>1, <1>2, <2>1, <3>1 DEF QuietState, QuietAt
  <2>2. CASE ~g.check[p]
    <3> DEFINE v == g.value[p]
    <3>1. a = [best |-> v, alpha |-> Larger(v, x.alpha)] BY <2>2 DEF QuietStart
    <3>2. v \in Int /\ v >= -MATE_BOUND /\ v <= MATE_BOUND BY <1>1, <1>3
    <3> HIDE DEF v, a, moves
    <3>3. Larger(v, x.alpha) = IF v < x.alpha THEN x.alpha ELSE v BY DEF Larger
    <3>4. Best(g, p, x.ply, x.alpha, x.beta, Reached(moves, 0), v, Larger(v, x.alpha))
      BY <1>1, <1>2, <3>2, <3>3 DEF Best
    <3>5. a \in QuietState BY <1>2, <3>1, <3>2, <3>3 DEF QuietState
    <3>6. QED BY <2>2, <3>1, <3>2, <3>4, <3>5 DEF QuietAt
  <2>3. QED BY <1>3, <2>1, <2>2
<1> HIDE DEF a
<1>6. ASSUME NEW i \in 1 .. N, NEW s \in QuietState, QuietAt(g, x, moves, i - 1, s)
      PROVE  Step(i, s) \in QuietState /\ QuietAt(g, x, moves, i, Step(i, s))
  BY <1>3, <1>6, QuietStep, Zenon
<1>7. \A i \in 1 .. N : \A s \in QuietState : F[<<i, s>>] = Step(i, s) OBVIOUS
<1>8. QuietMoves(g, below, x) = (CHOOSE h : P(h))[N].best BY Zenon DEF QuietMoves, QuietStart, a
<1> HIDE DEF N, moves, Step, F
<1>9. \A i \in 0 .. N : S[i] = {st \in QuietState : QuietAt(g, x, moves, i, st)} OBVIOUS
<1> HIDE DEF S
<1>10. Steps(N, S, a, F)
  <2>1. 0 \in 0 .. N BY <1>4
  <2>2. a \in S[0] BY <1>5, <1>9, <2>1
  <2>3. ASSUME NEW i \in 1 .. N, NEW s \in S[i - 1] PROVE F[<<i, s>>] \in S[i]
    <3>1. i - 1 \in 0 .. N /\ i \in 0 .. N BY <1>4
    <3>2. s \in QuietState /\ QuietAt(g, x, moves, i - 1, s) BY <1>9, <3>1
    <3>3. Step(i, s) \in S[i] BY <1>6, <1>9, <3>1, <3>2
    <3>4. QED BY <1>7, <3>2, <3>3
  <2>4. QED BY <2>2, <2>3 DEF Steps
<1>11. \E h : P(h)
  <2>1. PICK h : Runs(h, N, S, a, F) BY <1>4, <1>10, LoopRuns, Zenon
  <2>2. /\ h = [i \in 0 .. N |-> h[i]] /\ h[0] = a
        /\ \A i \in 1 .. N : h[i] = F[<<i, h[i - 1]>>]
        /\ \A i \in 0 .. N : h[i] \in S[i]
    BY <2>1, Zenon DEF Runs
  <2>3. ASSUME NEW i \in 1 .. N PROVE h[i] = Step(i, h[i - 1])
    <3>1. i - 1 \in 0 .. N BY <1>4
    <3>2. h[i - 1] \in QuietState BY <1>9, <2>2, <3>1
    <3>3. QED BY <1>7, <2>2, <3>2
  <2>4. ASSUME NEW i \in 0 .. N PROVE h[i] = IF i > 0 THEN Step(i, h[i - 1]) ELSE a
    <3>1. i = 0 \/ i \in 1 .. N BY <1>4
    <3>2. i \in 1 .. N => i > 0 /\ h[i] = Step(i, h[i - 1]) BY <1>4, <2>3
    <3>3. QED BY <2>2, <3>1, <3>2
  <2>5. P(h) BY <2>2, <2>4, Zenon
  <2>6. QED BY <2>5
<1> DEFINE f == CHOOSE h : P(h)
<1>12. P(f) BY <1>11, Zenon
<1> HIDE DEF f
<1>13. \A i \in 0 .. N : f[i] = IF i > 0 THEN Step(i, f[i - 1]) ELSE a BY <1>12, Zenon
<1> HIDE DEF P
<1>14. \A i \in 0 .. N : f[i] \in S[i]
  <2>1. f[0] = a /\ 0 \in 0 .. N BY <1>4, <1>13
  <2>2. f[0] \in S[0] BY <1>5, <1>9, <2>1
  <2>3. ASSUME NEW i \in 1 .. N, f[i - 1] \in S[i - 1] PROVE f[i] \in S[i]
    <3>1. i - 1 \in 0 .. N /\ i \in 0 .. N /\ i > 0 BY <1>4
    <3>2. f[i] = Step(i, f[i - 1]) BY <1>13, <3>1
    <3>3. f[i - 1] \in QuietState /\ QuietAt(g, x, moves, i - 1, f[i - 1]) BY <1>9, <2>3, <3>1
    <3>4. QED BY <1>6, <1>9, <3>1, <3>2, <3>3
  <2>4. QED BY <1>4, <2>2, <2>3, LoopKeeps, Zenon
<1> DEFINE st == f[N]
<1>15. st \in QuietState /\ QuietAt(g, x, moves, N, st)
  <2>1. N \in 0 .. N BY <1>4
  <2>2. QED BY <1>9, <1>14, <2>1
<1>16. QuietMoves(g, below, x) = st.best BY <1>8 DEF f
<1> HIDE DEF st
<1>17. N = 0 => ~g.check[p] BY <1>3 DEF MovesOf, N, moves
<1>18. /\ Best(g, p, x.ply, x.alpha, x.beta, Reached(moves, N), st.best, st.alpha)
       /\ g.check[p] \/ st.best >= -MATE_BOUND
  BY <1>15, <1>17 DEF QuietAt
<1>19. g.check[p] => Replies(g, p) # {} BY <1>3 DEF MovesOf, moves
<1>20. st.best >= -MATE_BOUND \/ (Replies(g, p) # {} /\ Replies(g, p) \subseteq Reached(moves, N))
  BY <1>4, <1>18, <1>19
<1>21. x.ply \in 0 .. MAX_PLY BY <1>1
<1> HIDE DEF p
<1>22. Sound(g, p, x.ply, x.alpha, x.beta, st.best)
  BY <1>2, <1>18, <1>20, <1>21, BestIsSound DEF p
<1>23. QED BY <1>16, <1>22 DEF p

\* A score that is no mate score is sound.
LEMMA Modest ==
  ASSUME NEW g, NEW p, NEW ply, NEW alpha, NEW beta, NEW score \in -MATE_BOUND .. MATE_BOUND
  PROVE  Sound(g, p, ply, alpha, beta, score)
PROOF
<1>1. MATE \in Nat /\ MATE_BOUND \in Nat /\ Furthest \in Nat /\ Furthest = MATE - MATE_BOUND
  BY Limits
<1>2. score \in -MATE .. MATE /\ ~(score > MATE_BOUND) /\ ~(score < -MATE_BOUND) BY <1>1
<1>3. QED BY <1>2 DEF Sound

\* Nor is what a game is worth that ended by rule.
LEMMA PointsAreModest ==
  /\ DRAW_SCORE \in -MATE_BOUND .. MATE_BOUND
  /\ POINTS_WIN \in -MATE_BOUND .. MATE_BOUND /\ -POINTS_WIN \in -MATE_BOUND .. MATE_BOUND
PROOF BY DEF DRAW_SCORE, POINTS_WIN, MATE_BOUND, MATE

\* Mated here and now.
LEMMA MatedIsSound ==
  ASSUME NEW g, NEW p \in Playing(g), g.check[p], Replies(g, p) = {},
         NEW ply \in 0 .. MAX_PLY, NEW alpha, NEW beta
  PROVE  Sound(g, p, ply, alpha, beta, -MATE + ply)
PROOF
<1>1. /\ MATE \in Nat /\ MATE_BOUND \in Nat /\ Furthest \in Nat /\ MAX_PLY \in Nat
      /\ Furthest = MATE - MATE_BOUND /\ MAX_PLY < Furthest /\ 2 * Furthest < MATE_BOUND
  BY Limits
<1>2. p \in LostIn(g, 0)
  <2>1. 0 \in 0 .. Furthest BY <1>1
  <2>2. QED BY <2>1, MateSteps DEF Mated
<1>3. /\ -MATE + ply \in -MATE .. MATE /\ ~(-MATE + ply > MATE_BOUND)
      /\ MATE + (-MATE + ply) - ply = 0
  BY <1>1
<1>4. QED BY <1>2, <1>3 DEF Sound

\* A node of qsearch().
LEMMA QuietNodeIsSound ==
  ASSUME NEW g, IsGame(g), NEW x \in QuietCalls(g), x.alpha < x.beta, x.ply \in 0 .. MAX_PLY,
         NEW below, NEW last \in BOOLEAN, last \/ QuietSound(g, below)
  PROVE  Sound(g, x.here, x.ply, x.alpha, x.beta, QuietNode(g, below, x, last))
PROOF
<1> DEFINE p == x.here
           s == QuietNode(g, below, x, last)
<1>1. x.ply \in Int /\ x.alpha \in Int /\ x.beta \in Int /\ p \in Positions(g) BY DEF QuietCalls
<1>2. /\ MovesOf(g, p, g.next[p]) /\ g.check[p] \in BOOLEAN
      /\ g.value[p] \in -MATE_BOUND .. MATE_BOUND
      /\ g.points[p] \in {DRAW_SCORE, POINTS_WIN, -POINTS_WIN} /\ (~g.ended[p] => p \in Playing(g))
  BY <1>1, GameFacts
<1>3. CASE x.ply >= MAX_PLY
  <2>1. s = g.value[p] BY <1>3 DEF QuietNode
  <2>2. QED BY <1>2, <2>1, Modest
<1>4. CASE ~(x.ply >= MAX_PLY) /\ g.ended[p]
  <2>1. s = g.points[p] BY <1>4 DEF QuietNode
  <2>2. g.points[p] \in -MATE_BOUND .. MATE_BOUND BY <1>2, PointsAreModest
  <2>3. QED BY <2>1, <2>2, Modest
<1>5. CASE ~(x.ply >= MAX_PLY) /\ ~g.ended[p] /\ (last \/ (~g.check[p] /\ g.value[p] >= x.beta))
  <2>1. s = g.value[p] BY <1>5 DEF QuietNode
  <2>2. QED BY <1>2, <2>1, Modest
<1>6. CASE /\ ~(x.ply >= MAX_PLY) /\ ~g.ended[p] /\ ~(last \/ (~g.check[p] /\ g.value[p] >= x.beta))
           /\ g.check[p] /\ g.next[p] = <<>>
  <2>1. s = -MATE + x.ply BY <1>6 DEF QuietNode
  <2>2. Replies(g, p) = {} BY <1>2, <1>6 DEF MovesOf
  <2>3. QED BY <1>2, <1>6, <2>1, <2>2, MatedIsSound
<1>7. CASE /\ ~(x.ply >= MAX_PLY) /\ ~g.ended[p] /\ ~(last \/ (~g.check[p] /\ g.value[p] >= x.beta))
           /\ ~(g.check[p] /\ g.next[p] = <<>>)
  <2>1. s = QuietMoves(g, below, x) BY <1>7 DEF QuietNode
  <2>2. x.ply \in 0 .. MAX_PLY - 1 BY <1>1, <1>7, Limits
  <2>3. QED BY <1>2, <1>7, <2>1, <2>2, QuietLoop
<1>8. QED BY <1>3, <1>4, <1>5, <1>6, <1>7

\* The recursive function of qsearch().
LEMMA QSearchIs ==
  ASSUME NEW g
  PROVE  \A left \in 0 .. qsearch_max_depth :
           QSearch(g)[left] =
             [x \in QuietCalls(g) |-> QuietNode(g, QSearch(g)[left - 1], x, left = 0)]
PROOF
<1> DEFINE N == qsearch_max_depth
           Deep(b) == [x \in QuietCalls(g) |-> QuietNode(g, b, x, FALSE)]
           a == [x \in QuietCalls(g) |-> QuietNode(g, 0, x, TRUE)]
           Level(i, b) == [x \in QuietCalls(g) |-> QuietNode(g, b, x, i = 0)]
           P(h, k) == h = [i \in 0 .. k |-> Level(i, h[i - 1])]
           Q(h, k) == /\ DOMAIN h = 0 .. k /\ h = [i \in 0 .. k |-> h[i]] /\ h[0] = a
                      /\ \A i \in 1 .. k : h[i] = Deep(h[i - 1])
           K == {k \in Nat : \E h : Q(h, k)}
<1>1. ASSUME NEW b PROVE Level(0, b) = a BY Zenon DEF QuietNode
<1>2. ASSUME NEW b, NEW i \in Nat, i # 0 PROVE Level(i, b) = Deep(b)
  <2>1. (i = 0) = FALSE BY <1>2
  <2>2. QED BY <2>1, Zenon
<1> HIDE DEF Level, Deep, a
<1>3. 0 \in K
  <2> DEFINE h == [i \in 0 .. 0 |-> a]
  <2>1. Q(h, 0) OBVIOUS
  <2>2. QED BY <2>1
<1>4. ASSUME NEW k \in Nat, k \in K PROVE k + 1 \in K
  <2>1. PICK h : Q(h, k) BY <1>4
  <2> DEFINE w == Deep(h[k])
             e == [i \in 0 .. k + 1 |-> IF i = k + 1 THEN w ELSE h[i]]
  <2>2. \A i \in 0 .. k : e[i] = h[i] OBVIOUS
  <2>3. e[k + 1] = w OBVIOUS
  <2>4. DOMAIN e = 0 .. k + 1 /\ e = [i \in 0 .. k + 1 |-> e[i]] OBVIOUS
  <2> HIDE DEF e
  <2>5. e[0] = a
    <3>1. 0 \in 0 .. k OBVIOUS
    <3>2. QED BY <2>1, <2>2, <3>1
  <2>6. ASSUME NEW i \in 1 .. k + 1 PROVE e[i] = Deep(e[i - 1])
    <3>1. CASE i = k + 1
      <4>1. k \in 0 .. k /\ i - 1 = k BY <3>1
      <4>2. e[i - 1] = h[k] BY <2>2, <4>1
      <4>3. QED BY <2>3, <3>1, <4>2
    <3>2. CASE i # k + 1
      <4>1. i \in 1 .. k /\ i \in 0 .. k /\ i - 1 \in 0 .. k BY <3>2
      <4>2. e[i] = h[i] /\ e[i - 1] = h[i - 1] BY <2>2, <4>1
      <4>3. QED BY <2>1, <4>1, <4>2
    <3>3. QED BY <3>1, <3>2
  <2>7. Q(e, k + 1) BY <2>4, <2>5, <2>6
  <2> HIDE DEF Q
  <2>8. \E d : Q(d, k + 1) BY <2>7
  <2>9. k + 1 \in Nat OBVIOUS
  <2>10. QED BY <2>8, <2>9
<1>5. N \in Nat BY DEF qsearch_max_depth
<1> HIDE DEF N
<1>6. \E h : P(h, N)
  <2>1. \A k \in Nat : k \in K
    <3> HIDE DEF K
    <3>1. QED BY <1>3, <1>4, NumbersByInduction
  <2>2. PICK h : Q(h, N) BY <1>5, <2>1
  <2>3. ASSUME NEW i \in 0 .. N PROVE h[i] = Level(i, h[i - 1])
    <3>1. CASE i = 0 BY <1>1, <2>2, <3>1
    <3>2. CASE i # 0
      <4>1. i \in 1 .. N /\ i \in Nat BY <1>5, <3>2
      <4>2. QED BY <1>2, <2>2, <3>2, <4>1
    <3>3. QED BY <3>1, <3>2
  <2>4. h = [i \in 0 .. N |-> Level(i, h[i - 1])] BY <2>2, <2>3, Zenon
  <2>5. QED BY <2>4
<1> DEFINE f == CHOOSE h : P(h, N)
<1>7. P(f, N) BY <1>6, Zenon
<1>8. QSearch(g) = f BY Zenon DEF QSearch, Level, N
<1> HIDE DEF f
<1>9. \A i \in 0 .. N : f[i] = Level(i, f[i - 1]) BY <1>7, Zenon
<1>10. QED BY <1>8, <1>9 DEF Level, N

\* qsearch() at every depth.
LEMMA QSearchIsSound ==
  ASSUME NEW g, IsGame(g)
  PROVE  QuietSound(g, QSearch(g)[qsearch_max_depth])
PROOF
<1> DEFINE N == qsearch_max_depth
           f == QSearch(g)
           K == {k \in Nat : k <= N => QuietSound(g, f[k])}
<1>1. N \in Nat BY DEF qsearch_max_depth
<1>2. \A i \in 0 .. N : f[i] = [x \in QuietCalls(g) |-> QuietNode(g, f[i - 1], x, i = 0)]
  BY QSearchIs, Zenon
<1> HIDE DEF N, f
<1>3. ASSUME NEW i \in 0 .. N, i = 0 \/ QuietSound(g, f[i - 1]) PROVE QuietSound(g, f[i])
  <2> SUFFICES ASSUME NEW y \in QuietCalls(g), y.alpha < y.beta, y.ply \in 0 .. MAX_PLY
               PROVE  Sound(g, y.here, y.ply, y.alpha, y.beta, f[i][y])
    BY DEF QuietSound
  <2> DEFINE last == (i = 0)
  <2>1. f[i][y] = QuietNode(g, f[i - 1], y, last) BY <1>2, Zenon
  <2>2. last \in BOOLEAN /\ (last \/ QuietSound(g, f[i - 1])) BY <1>3
  <2> HIDE DEF last
  <2>3. Sound(g, y.here, y.ply, y.alpha, y.beta, QuietNode(g, f[i - 1], y, last))
    BY <2>2, QuietNodeIsSound
  <2>4. QED BY <2>1, <2>3
<1>4. 0 \in K
  <2>1. 0 \in 0 .. N BY <1>1
  <2>2. QED BY <1>3, <2>1
<1>5. ASSUME NEW k \in Nat, k \in K PROVE k + 1 \in K
  <2> SUFFICES ASSUME k + 1 <= N PROVE QuietSound(g, f[k + 1]) OBVIOUS
  <2>1. k + 1 \in 0 .. N /\ (k + 1) - 1 = k /\ k <= N BY <1>1
  <2>2. QuietSound(g, f[(k + 1) - 1]) BY <1>5, <2>1
  <2>3. QED BY <1>3, <2>1, <2>2
<1> HIDE DEF K
<1>6. \A k \in Nat : k \in K BY <1>4, <1>5, NumbersByInduction
<1>7. QED BY <1>1, <1>6 DEF K, N, f

-----------------------------------------------------------------------------
(* negamax(): the table and the loop over the moves.                         *)

\* What an entry says of its position, counted from there, is so.
EntryIsReal(g, p, e) ==
  /\ e.flag \in {"exact", "lower"} /\ e.score > MATE_BOUND => p \in WonIn(g, MATE - e.score)
  /\ e.flag \in {"exact", "upper"} /\ e.score < -MATE_BOUND => p \in LostIn(g, MATE + e.score)
RealTables(g) == {tt \in Tables(g) : \A p \in Positions(g) : EntryIsReal(g, p, tt[p])}

\* A window that a score can lie in, or above, or below.
Window(alpha, beta) ==
  alpha \in Int /\ beta \in Int /\ alpha < beta /\ alpha <= MATE /\ -MATE <= beta

\* An answer to a call: a sound score and a real table.
Answer(g, p, ply, alpha, beta, r) == r.tt \in RealTables(g) /\ Sound(g, p, ply, alpha, beta, r.score)

\* The loop after i moves.
LoopState(g) == [legal : Nat, tt : RealTables(g), best : Int, move : Nat, alpha : Int, cut : BOOLEAN]
LoopAt(g, p, ply, from, beta, moves, i, st) ==
  IF i = 0 THEN st.legal = 0 /\ st.best = -INF /\ st.alpha = from /\ st.cut = FALSE
  ELSE /\ st.legal > 0
       /\ st.cut => st.alpha >= beta
       /\ ~st.cut => st.alpha < beta
       /\ Best(g, p, ply, from, beta, Reached(moves, i), st.best, st.alpha)

\* The loop begins.
LEMMA LoopBegins ==
  ASSUME NEW g, NEW p, NEW ply, NEW from \in Int, NEW beta, NEW moves, NEW move \in Nat,
         NEW tt \in RealTables(g)
  PROVE  /\ NoMoveYet(from, move, tt) \in LoopState(g)
         /\ LoopAt(g, p, ply, from, beta, moves, 0, NoMoveYet(from, move, tt))
PROOF
<1>1. INF \in Nat BY Limits
<1> DEFINE st == NoMoveYet(from, move, tt)
<1>2. /\ st = [legal |-> 0, tt |-> tt, best |-> -INF, move |-> move, alpha |-> from, cut |-> FALSE]
  BY DEF NoMoveYet
<1>3. st \in LoopState(g) BY <1>1, <1>2 DEF LoopState
<1>4. st.legal = 0 /\ st.best = -INF /\ st.alpha = from /\ st.cut = FALSE BY <1>2
<1>5. QED BY <1>3, <1>4 DEF LoopAt

\* After a cutoff no move is searched.
LEMMA LoopIsCut ==
  ASSUME NEW g, NEW p, NEW ply, NEW from \in Int, NEW beta \in Int, from < beta,
         NEW moves, NEW i \in Nat \ {0}, NEW st \in LoopState(g),
         LoopAt(g, p, ply, from, beta, moves, i - 1, st), st.cut
  PROVE  LoopAt(g, p, ply, from, beta, moves, i, st)
PROOF
<1>1. i - 1 # 0 BY DEF LoopAt
<1>2. /\ st.legal > 0
      /\ st.cut => st.alpha >= beta
      /\ ~st.cut => st.alpha < beta
      /\ Best(g, p, ply, from, beta, Reached(moves, i - 1), st.best, st.alpha)
  BY <1>1 DEF LoopAt
<1>3. st.alpha >= beta BY <1>2
<1>4. Best(g, p, ply, from, beta, Reached(moves, i), st.best, st.alpha)
  BY <1>2, <1>3, OthersDoNotMatter
<1>5. QED BY <1>2, <1>4 DEF LoopAt

\* A move is searched in the window that is left.
LEMMA LoopGoesOn ==
  ASSUME NEW g, IsGame(g), NEW p \in Playing(g), NEW ply \in 0 .. MAX_PLY,
         NEW from \in Int, NEW beta \in Int, from < beta,
         NEW moves, MovesOf(g, p, moves), NEW i \in 1 .. Len(moves), NEW st \in LoopState(g),
         LoopAt(g, p, ply, from, beta, moves, i - 1, st), ~st.cut,
         NEW r, Answer(g, moves[i].to, ply + 1, -beta, -st.alpha, r)
  PROVE  /\ Searched(st, moves[i], beta, r) \in LoopState(g)
         /\ LoopAt(g, p, ply, from, beta, moves, i, Searched(st, moves[i], beta, r))
PROOF
<1> DEFINE m == moves[i]
           s == -r.score
           new == Searched(st, m, beta, r)
<1>1. MATE \in Nat /\ INF \in Nat /\ MATE < INF BY Limits
<1>2. /\ Len(moves) \in Nat /\ m \in SomeMove(g) /\ m.to \in Replies(g, p) /\ m.to \in Nat
      /\ Reached(moves, i) = Reached(moves, i - 1) \union {m.to}
      /\ (i - 1 = 0 => Reached(moves, i - 1) = {}) /\ i # 0
  <2>1. m \in SomeMove(g) /\ Len(moves) \in Nat BY DEF MovesOf
  <2>2. m.to \in Positions(g) BY <2>1 DEF SomeMove
  <2>3. m.to \in Nat BY <2>2, GameFacts
  <2>4. QED BY <2>1, <2>3 DEF MovesOf
<1>3. r.tt \in RealTables(g) /\ Sound(g, m.to, ply + 1, -beta, -st.alpha, r.score) BY DEF Answer
<1>4. r.score \in -MATE .. MATE /\ r.score \in Int BY <1>1, <1>3 DEF Sound
<1>5. st.best \in Int /\ st.alpha \in Int /\ st.legal \in Nat /\ st.move \in Nat BY DEF LoopState
<1>6. new = [legal |-> st.legal + 1, tt |-> r.tt, best |-> Larger(s, st.best),
             move |-> IF s > st.best THEN m.to ELSE st.move,
             alpha |-> Larger(s, st.alpha), cut |-> Larger(s, st.alpha) >= beta]
  BY DEF Searched
<1> HIDE DEF m, new
<1>7. Larger(s, st.best) \in Int /\ Larger(s, st.alpha) \in Int BY <1>4, <1>5 DEF Larger
<1>8. new \in LoopState(g)
  <2>1. (IF s > st.best THEN m.to ELSE st.move) \in Nat BY <1>2, <1>5
  <2>2. (Larger(s, st.alpha) >= beta) \in BOOLEAN /\ st.legal + 1 \in Nat BY <1>5
  <2> HIDE DEF s
  <2>3. QED BY <1>3, <1>6, <1>7, <2>1, <2>2 DEF LoopState
<1>9. Best(g, p, ply, from, beta, Reached(moves, i), Larger(s, st.best), Larger(s, st.alpha))
  <2>1. CASE i - 1 = 0
    <3>1. st.best = -INF /\ st.alpha = from BY <2>1 DEF LoopAt
    <3>2. Larger(s, st.best) = s BY <1>1, <1>4, <3>1 DEF Larger
    <3>3. Best(g, p, ply, from, beta, {m.to}, s, Larger(s, from))
      BY <1>2, <1>3, <3>1, FirstMove
    <3>4. Reached(moves, i) = {m.to} BY <1>2, <2>1
    <3>5. QED BY <3>1, <3>2, <3>3, <3>4
  <2>2. CASE i - 1 # 0
    <3>1. /\ ~st.cut => st.alpha < beta
          /\ Best(g, p, ply, from, beta, Reached(moves, i - 1), st.best, st.alpha)
      BY <2>2 DEF LoopAt
    <3>2. st.alpha < beta BY <1>5, <3>1
    <3>3. Best(g, p, ply, from, beta, Reached(moves, i - 1) \union {m.to}, Larger(s, st.best),
               Larger(s, st.alpha))
      BY <1>2, <1>3, <3>1, <3>2, NextMove
    <3>4. QED BY <1>2, <3>3
  <2>3. QED BY <2>1, <2>2
<1>10. /\ new.legal = st.legal + 1 /\ new.best = Larger(s, st.best) /\ new.alpha = Larger(s, st.alpha)
  BY <1>6
<1>11. new.legal > 0 BY <1>5, <1>10
<1>12. (new.cut => new.alpha >= beta) /\ (~new.cut => new.alpha < beta)
  <2>1. new.cut = (new.alpha >= beta) BY <1>6, <1>10
  <2>2. new.alpha \in Int BY <1>7, <1>10
  <2>3. new.cut => new.alpha >= beta BY <2>1
  <2>4. ~new.cut => ~(new.alpha >= beta) BY <2>1
  <2>5. QED BY <2>2, <2>3, <2>4
<1>13. QED BY <1>2, <1>8, <1>9, <1>10, <1>11, <1>12 DEF LoopAt, new, m

\* The answer of a null window stands if it is not inside the one it stands for.
LEMMA NarrowStands ==
  ASSUME NEW g, NEW q, NEW ply, NEW alpha \in Int, NEW beta \in Int, alpha < beta,
         NEW r, Sound(g, q, ply, -alpha - 1, -alpha, r), ~(-r > alpha /\ -r < beta)
  PROVE  Sound(g, q, ply, -beta, -alpha, r)
PROOF
<1>1. MATE \in Nat /\ MATE_BOUND \in Nat BY Limits
<1>2. /\ r \in -MATE .. MATE
      /\ r > -alpha - 1 /\ r > MATE_BOUND => q \in WonIn(g, MATE - r - ply)
      /\ r < -alpha /\ r < -MATE_BOUND => q \in LostIn(g, MATE + r - ply)
  BY DEF Sound
<1>3. r > -beta => r > -alpha - 1 BY <1>1, <1>2
<1>4. QED BY <1>2, <1>3 DEF Sound

-----------------------------------------------------------------------------
(* negamax(): its calls, moves and nodes.                                    *)

Paths(g) == Seq(Positions(g)) \ {<<>>}

\* A line of play has a last position, and goes on.
LEMMA PathFacts ==
  ASSUME NEW g, NEW path \in Paths(g)
  PROVE  /\ Ply(path) \in Nat /\ Tip(path) \in Positions(g)
         /\ \A q \in Positions(g) : /\ Append(path, q) \in Paths(g)
                                    /\ Tip(Append(path, q)) = q
                                    /\ Ply(Append(path, q)) = Ply(path) + 1
PROOF
<1>1. path \in Seq(Positions(g)) /\ path # <<>> BY DEF Paths
<1>2. Len(path) \in Nat /\ Len(path) # 0 BY <1>1
<1>3. Ply(path) \in Nat /\ Tip(path) \in Positions(g) BY <1>1, <1>2 DEF Ply, Tip
<1>4. ASSUME NEW q \in Positions(g)
      PROVE  /\ Append(path, q) \in Paths(g) /\ Tip(Append(path, q)) = q
             /\ Ply(Append(path, q)) = Ply(path) + 1
  <2>1. /\ Append(path, q) \in Seq(Positions(g)) /\ Len(Append(path, q)) = Len(path) + 1
        /\ Append(path, q)[Len(path) + 1] = q
    BY <1>1
  <2>2. Append(path, q) # <<>> BY <1>2, <2>1
  <2>3. QED BY <1>2, <2>1, <2>2 DEF Paths, Tip, Ply
<1>5. QED BY <1>3, <1>4

\* A call below the root, with a window and a real table; with the plies that are
\* left it is sound.
Fair(g, left, x) == /\ x \in Calls(g) /\ Window(x.alpha, x.beta) /\ x.tt \in RealTables(g)
                    /\ Ply(x.path) > 0 /\ left + Ply(x.path) = MAX_PLY
Answered(g, x, r) == Answer(g, Tip(x.path), Ply(x.path), x.alpha, x.beta, r)
NodesSound(g, left, below) == \A x \in Calls(g) : Fair(g, left, x) => Answered(g, x, below[x])

\* A call of the level below.
LEMMA CallIsSound ==
  ASSUME NEW g, NEW left \in Nat, NEW below, NodesSound(g, left, below),
         NEW path \in Paths(g), NEW q \in Positions(g), left + Ply(path) + 1 = MAX_PLY,
         NEW depth \in Int, NEW alpha, NEW beta, Window(alpha, beta), NEW tt \in RealTables(g)
  PROVE  Answer(g, q, Ply(path) + 1, alpha, beta,
                below[Call(Append(path, q), depth, alpha, beta, tt)])
PROOF
<1> DEFINE x == Call(Append(path, q), depth, alpha, beta, tt)
<1>1. /\ Ply(path) \in Nat /\ Append(path, q) \in Paths(g) /\ Tip(Append(path, q)) = q
      /\ Ply(Append(path, q)) = Ply(path) + 1
  BY PathFacts
<1>2. alpha \in Int /\ beta \in Int BY DEF Window
<1>3. tt \in Tables(g) BY DEF RealTables
<1>4. /\ x = [path |-> Append(path, q), depth |-> depth, alpha |-> alpha, beta |-> beta, tt |-> tt]
  BY DEF Call
<1> HIDE DEF x
<1>5. x \in Calls(g) BY <1>1, <1>2, <1>3, <1>4 DEF Calls, Paths
<1>6. x.path = Append(path, q) /\ x.alpha = alpha /\ x.beta = beta /\ x.tt = tt BY <1>4
<1>7. Ply(x.path) > 0 /\ left + Ply(x.path) = MAX_PLY BY <1>1, <1>6
<1>8. Fair(g, left, x) BY <1>5, <1>6, <1>7 DEF Fair
<1>9. Answered(g, x, below[x]) BY <1>5, <1>8 DEF NodesSound
<1>10. QED BY <1>1, <1>6, <1>9 DEF Answered, x

\* The windows of a loop.
LEMMA LoopWindows ==
  ASSUME NEW g, NEW p, NEW ply, NEW from, NEW beta, Window(from, beta), NEW moves, NEW i \in Nat,
         NEW st \in LoopState(g), LoopAt(g, p, ply, from, beta, moves, i, st), ~st.cut
  PROVE  /\ Window(-beta, -st.alpha)
         /\ st.legal # 0 => Window(-st.alpha - 1, -st.alpha)
PROOF
<1>1. MATE \in Nat BY Limits
<1>2. from \in Int /\ beta \in Int /\ from < beta /\ from <= MATE /\ -MATE <= beta BY DEF Window
<1>3. st.alpha \in Int BY DEF LoopState
<1>4. CASE i = 0
  <2>1. st.alpha = from /\ st.legal = 0 BY <1>4 DEF LoopAt
  <2>2. QED BY <1>1, <1>2, <2>1 DEF Window
<1>5. CASE i # 0
  <2>1. st.alpha < beta /\ Best(g, p, ply, from, beta, Reached(moves, i), st.best, st.alpha)
    BY <1>5 DEF LoopAt
  <2>2. st.best \in -MATE .. MATE /\ st.best <= st.alpha /\ st.alpha \in {from, st.best}
    BY <2>1 DEF Best
  <2>3. st.alpha <= MATE /\ -MATE <= st.alpha BY <1>1, <1>2, <1>3, <2>2
  <2>4. QED BY <1>1, <1>2, <1>3, <2>1, <2>3 DEF Window
<1>6. QED BY <1>4, <1>5

\* Whatever windows and reductions a move is searched with.
LEMMA TryKeeps ==
  ASSUME NEW g, IsGame(g), NEW left \in Nat, NEW below, NodesSound(g, left, below),
         NEW x, Fair(g, left + 1, x), Tip(x.path) \in Playing(g), NEW depth \in Int,
         NEW moves, MovesOf(g, Tip(x.path), moves), NEW i \in 1 .. Len(moves),
         NEW st \in LoopState(g),
         LoopAt(g, Tip(x.path), Ply(x.path), x.alpha, x.beta, moves, i - 1, st)
  PROVE  LET new == Try(g, below, x, depth, st, moves[i])
         IN  /\ new \in LoopState(g)
             /\ LoopAt(g, Tip(x.path), Ply(x.path), x.alpha, x.beta, moves, i, new)
PROOF
<1> DEFINE p == Tip(x.path)
           ply == Ply(x.path)
           m == moves[i]
           path == Append(x.path, m.to)
           reduced == /\ depth >= 3 /\ ~g.check[p] /\ st.legal >= 3 /\ m.quiet /\ ~g.check[m.to]
           less == IF reduced THEN depth - 2 ELSE depth - 1
           narrow == below[Call(path, less, -st.alpha - 1, -st.alpha, st.tt)]
           r == IF st.legal = 0 THEN below[Call(path, depth - 1, -x.beta, -st.alpha, st.tt)]
                ELSE Confirmed(below, path, depth, x.beta, st.alpha, reduced, narrow)
           new == Try(g, below, x, depth, st, m)
<1>1. /\ x.path \in Paths(g) /\ Window(x.alpha, x.beta) /\ left + 1 + ply = MAX_PLY
      /\ x.alpha \in Int /\ x.beta \in Int /\ x.alpha < x.beta
  BY DEF Fair, Calls, Paths, Window
<1>2. ply \in Nat /\ ply \in 0 .. MAX_PLY /\ left + ply + 1 = MAX_PLY
  <2>1. ply \in Nat BY <1>1, PathFacts
  <2> HIDE DEF ply
  <2>2. QED BY <1>1, <2>1
<1>3. m \in SomeMove(g) /\ m.to \in Positions(g) /\ i \in Nat \ {0} /\ i - 1 \in Nat
  <2>1. m \in SomeMove(g) BY DEF MovesOf
  <2>2. Len(moves) \in Nat BY DEF MovesOf
  <2>3. QED BY <2>1, <2>2 DEF SomeMove
<1>4. new = IF st.cut THEN st ELSE Searched(st, m, x.beta, r) BY Zenon DEF Try
<1>5. CASE st.cut
  <2> HIDE DEF new, p, ply
  <2>1. LoopAt(g, p, ply, x.alpha, x.beta, moves, i, st)
    BY <1>1, <1>3, <1>5, LoopIsCut DEF p, ply
  <2>2. QED BY <1>4, <1>5, <2>1 DEF new, p, ply, m
<1>6. CASE ~st.cut
  <2>1. /\ Window(-x.beta, -st.alpha)
        /\ st.legal # 0 => Window(-st.alpha - 1, -st.alpha)
    BY <1>1, <1>3, <1>6, LoopWindows
  <2>2. st.alpha \in Int /\ st.tt \in RealTables(g) BY DEF LoopState
  <2>3. less \in Int /\ depth - 1 \in Int OBVIOUS
  <2>4. Answer(g, m.to, ply + 1, -x.beta, -st.alpha, r)
    <3>1. CASE st.legal = 0
      <4>1. Answer(g, m.to, ply + 1, -x.beta, -st.alpha,
                   below[Call(path, depth - 1, -x.beta, -st.alpha, st.tt)])
        <5> HIDE DEF m, ply
        <5>1. QED BY <1>1, <1>2, <1>3, <2>1, <2>2, <2>3, CallIsSound DEF ply
      <4>2. r = below[Call(path, depth - 1, -x.beta, -st.alpha, st.tt)] BY <3>1
      <4>3. QED BY <4>1, <4>2
    <3>2. CASE st.legal # 0
      <4> DEFINE full == below[Call(path, depth - 1, -x.beta, -st.alpha, narrow.tt)]
      <4> HIDE DEF reduced, less, m, ply
      <4>1. Answer(g, m.to, ply + 1, -st.alpha - 1, -st.alpha, narrow)
        BY <1>1, <1>2, <1>3, <2>1, <2>2, <2>3, <3>2, CallIsSound DEF ply
      <4> HIDE DEF narrow
      <4>2. narrow.tt \in RealTables(g) /\ Sound(g, m.to, ply + 1, -st.alpha - 1, -st.alpha, narrow.score)
        BY <4>1 DEF Answer
      <4>3. Answer(g, m.to, ply + 1, -x.beta, -st.alpha, full)
        BY <1>1, <1>2, <1>3, <2>1, <2>3, <4>2, CallIsSound DEF ply
      <4> HIDE DEF full
      <4>4. r = IF -narrow.score > st.alpha /\ (reduced \/ -narrow.score < x.beta) THEN full ELSE narrow
        BY <3>2, Zenon DEF Confirmed, full
      <4> HIDE DEF r
      <4>5. CASE -narrow.score > st.alpha /\ (reduced \/ -narrow.score < x.beta) BY <4>3, <4>4, <4>5
      <4>6. CASE ~(-narrow.score > st.alpha /\ (reduced \/ -narrow.score < x.beta))
        <5>1. st.alpha < x.beta BY <1>1, <2>1, <2>2 DEF Window
        <5>2. ~(-narrow.score > st.alpha /\ -narrow.score < x.beta) BY <4>6
        <5>3. Sound(g, m.to, ply + 1, -x.beta, -st.alpha, narrow.score)
          BY <1>1, <2>2, <4>2, <5>1, <5>2, NarrowStands
        <5>4. QED BY <4>2, <4>4, <4>6, <5>3 DEF Answer
      <4>7. QED BY <4>5, <4>6
    <3>3. QED BY <3>1, <3>2
  <2> HIDE DEF r, new, p, ply
  <2>5. /\ Searched(st, m, x.beta, r) \in LoopState(g)
        /\ LoopAt(g, p, ply, x.alpha, x.beta, moves, i, Searched(st, m, x.beta, r))
    BY <1>1, <1>2, <1>6, <2>4, LoopGoesOn DEF p, ply
  <2>6. QED BY <1>4, <1>6, <2>5 DEF new, p, ply, m
<1>7. QED BY <1>5, <1>6

\* An entry made of a sound score is real.
LEMMA EntryOfSound ==
  ASSUME NEW g, NEW p, NEW ply \in 0 .. MAX_PLY, NEW alpha \in Int, NEW beta \in Int, alpha < beta,
         NEW best, Sound(g, p, ply, alpha, beta, best), NEW depth, NEW move
  PROVE  /\ EntryIsReal(g, p, [depth |-> depth, flag |-> Flag(best, alpha, beta),
                               score |-> Stored(best, ply), move |-> move])
         /\ Stored(best, ply) \in Int /\ Flag(best, alpha, beta) \in {"exact", "lower", "upper"}
PROOF
<1> DEFINE flag == Flag(best, alpha, beta)
           s == Stored(best, ply)
           e == [depth |-> depth, flag |-> flag, score |-> s, move |-> move]
<1>1. MATE \in Nat /\ MATE_BOUND \in Nat /\ MAX_PLY \in Nat BY Limits
<1>2. /\ best \in -MATE .. MATE
      /\ best > alpha /\ best > MATE_BOUND => p \in WonIn(g, MATE - best - ply)
      /\ best < beta /\ best < -MATE_BOUND => p \in LostIn(g, MATE + best - ply)
  BY DEF Sound
<1>3. best \in Int /\ ply \in Nat BY <1>1, <1>2
<1>4. flag = IF best <= alpha THEN "upper" ELSE IF best >= beta THEN "lower" ELSE "exact" BY DEF Flag
<1>5. s = IF best > MATE_BOUND THEN best + ply ELSE IF best < -MATE_BOUND THEN best - ply ELSE best
  BY DEF Stored
<1>6. e.flag = flag /\ e.score = s OBVIOUS
<1> HIDE DEF flag, s, e
<1>7. s \in Int /\ flag \in {"exact", "lower", "upper"} BY <1>3, <1>4, <1>5
<1>8. ASSUME flag \in {"exact", "lower"}, s > MATE_BOUND PROVE p \in WonIn(g, MATE - s)
  <2>1. best > alpha BY <1>3, <1>4, <1>8
  <2>2. best > MATE_BOUND /\ MATE - best - ply = MATE - s BY <1>1, <1>3, <1>5, <1>8
  <2>3. QED BY <1>2, <2>1, <2>2
<1>9. ASSUME flag \in {"exact", "upper"}, s < -MATE_BOUND PROVE p \in LostIn(g, MATE + s)
  <2>1. best < beta BY <1>3, <1>4, <1>9
  <2>2. best < -MATE_BOUND /\ MATE + best - ply = MATE + s BY <1>1, <1>3, <1>5, <1>9
  <2>3. QED BY <1>2, <2>1, <2>2
<1>10. EntryIsReal(g, p, e) BY <1>6, <1>8, <1>9 DEF EntryIsReal
<1>11. QED BY <1>7, <1>10 DEF flag, s, e

\* A table stays real with a real entry.
LEMMA TableWith ==
  ASSUME NEW g, NEW tt \in RealTables(g), NEW p, NEW e \in Entry, EntryIsReal(g, p, e)
  PROVE  [tt EXCEPT ![p] = e] \in RealTables(g)
PROOF
<1>1. tt \in [Positions(g) -> Entry] /\ \A q \in Positions(g) : EntryIsReal(g, q, tt[q])
  BY DEF RealTables, Tables
<1> DEFINE new == [tt EXCEPT ![p] = e]
<1>2. new \in [Positions(g) -> Entry] BY <1>1
<1>3. \A q \in Positions(g) : new[q] = IF q = p THEN e ELSE tt[q] BY <1>1
<1> HIDE DEF new
<1>4. \A q \in Positions(g) : EntryIsReal(g, q, new[q]) BY <1>1, <1>3
<1>5. new \in RealTables(g) BY <1>2, <1>4 DEF RealTables, Tables
<1>6. QED BY <1>5 DEF new

\* What the loop leaves is an answer.
LEMMA FinishedIsAnswered ==
  ASSUME NEW g, IsGame(g), NEW left \in Nat, NEW x, Fair(g, left, x), Tip(x.path) \in Playing(g),
         NEW depth \in Int, NEW moves, MovesOf(g, Tip(x.path), moves), NEW st \in LoopState(g),
         LoopAt(g, Tip(x.path), Ply(x.path), x.alpha, x.beta, moves, Len(moves), st)
  PROVE  Answered(g, x, Finished(g, x, depth, st))
PROOF
<1> DEFINE p == Tip(x.path)
           ply == Ply(x.path)
           r == Finished(g, x, depth, st)
<1>1. /\ x.path \in Paths(g) /\ left + ply = MAX_PLY
      /\ x.alpha \in Int /\ x.beta \in Int /\ x.alpha < x.beta
  BY DEF Fair, Calls, Paths, Window
<1>2. ply \in 0 .. MAX_PLY
  <2>1. ply \in Nat BY <1>1, PathFacts
  <2> HIDE DEF ply
  <2>2. QED BY <1>1, <2>1
<1>3. st.tt \in RealTables(g) /\ st.move \in Nat /\ st.legal \in Nat BY DEF LoopState
<1>4. /\ Len(moves) \in Nat /\ Reached(moves, Len(moves)) = Replies(g, p)
      /\ Len(moves) = 0 <=> Replies(g, p) = {}
  BY DEF MovesOf
<1>5. p \in Positions(g) /\ g.check[p] \in BOOLEAN
  <2>1. p \in Positions(g) BY DEF Playing
  <2>2. QED BY <2>1, GameFacts
<1>6. CASE Len(moves) = 0
  <2>1. st.legal = 0 /\ Replies(g, p) = {} BY <1>4, <1>6 DEF LoopAt, MovesOf
  <2> DEFINE s == IF g.check[p] THEN -MATE + ply ELSE DRAW_SCORE
  <2>2. r = [score |-> s, tt |-> st.tt] BY <2>1, Zenon DEF Finished
  <2>3. Sound(g, p, ply, x.alpha, x.beta, s)
    <3>1. CASE g.check[p] 
      <4>1. s = -MATE + ply BY <3>1
      <4> HIDE DEF s, p, ply
      <4>2. QED BY <1>2, <2>1, <3>1, <4>1, MatedIsSound DEF p, ply
    <3>2. CASE ~g.check[p]
      <4>1. s = DRAW_SCORE BY <3>2
      <4> HIDE DEF s, p, ply
      <4>2. QED BY <4>1, Modest, PointsAreModest
    <3>3. QED BY <1>5, <3>1, <3>2
  <2> HIDE DEF s, r, p, ply
  <2>4. r.score = s /\ r.tt = st.tt BY <2>2
  <2>5. QED BY <1>3, <2>3, <2>4 DEF Answered, Answer, r, p, ply
<1>7. CASE Len(moves) # 0
  <2>1. st.legal > 0 /\ Best(g, p, ply, x.alpha, x.beta, Reached(moves, Len(moves)), st.best, st.alpha)
    BY <1>7 DEF LoopAt
  <2>2. Replies(g, p) # {} BY <1>4, <1>7 DEF MovesOf
  <2> DEFINE e == [depth |-> depth, flag |-> Flag(st.best, x.alpha, x.beta),
                   score |-> Stored(st.best, ply), move |-> st.move]
  <2>3. st.legal # 0 BY <1>3, <2>1
  <2>4. r = [score |-> st.best, tt |-> [st.tt EXCEPT ![p] = e]] BY <2>3, Zenon DEF Finished
  <2> HIDE DEF p, ply, r
  <2>5. Sound(g, p, ply, x.alpha, x.beta, st.best)
    BY <1>1, <1>2, <1>4, <2>1, <2>2, BestIsSound DEF p
  <2>6. EntryIsReal(g, p, e) /\ e \in Entry
    <3>1. /\ EntryIsReal(g, p, e) /\ Stored(st.best, ply) \in Int
          /\ Flag(st.best, x.alpha, x.beta) \in {"exact", "lower", "upper"}
      BY <1>1, <1>2, <2>5, EntryOfSound
    <3>2. QED BY <1>3, <3>1 DEF Entry
  <2> HIDE DEF e
  <2>7. [st.tt EXCEPT ![p] = e] \in RealTables(g) BY <1>3, <2>6, TableWith
  <2>8. r.score = st.best /\ r.tt = [st.tt EXCEPT ![p] = e] BY <2>4
  <2>9. QED BY <2>5, <2>7, <2>8 DEF Answered, Answer, r, p, ply
<1>8. QED BY <1>6, <1>7

\* The loop over the moves, which ends with all of them tried, or cut.
LEMMA MovesAreAnswered ==
  ASSUME NEW g, IsGame(g), NEW left \in Nat, NEW below, NodesSound(g, left, below),
         NEW x, Fair(g, left + 1, x), Tip(x.path) \in Playing(g), NEW depth \in Int,
         NEW first, NEW tt \in RealTables(g)
  PROVE  Answered(g, x, MoveLoop(g, below, x, depth, first, tt))
PROOF
<1> DEFINE p == Tip(x.path)
           moves == Ordered(g.next[p], first)
           N == Len(moves)
           a == NoMoveYet(x.alpha, NO_MOVE, tt)
           Step(i, s) == Try(g, below, x, depth, s, moves[i])
           At(i, s) == LoopAt(g, p, Ply(x.path), x.alpha, x.beta, moves, i, s)
           F == [z \in (1 .. N) \X LoopState(g) |-> Step(z[1], z[2])]
           S == [i \in 0 .. N |-> {s \in LoopState(g) : At(i, s)}]
           P(h) == h = [i \in 0 .. N |-> IF i = 0 THEN a ELSE Step(i, h[i - 1])]
<1>1. x.alpha \in Int /\ x.beta \in Int /\ p \in Positions(g) BY DEF Fair, Window, Playing
<1>2. MovesOf(g, p, moves) BY <1>1, OrderedMoves
<1>3. N \in Nat BY <1>2 DEF MovesOf
<1>4. a \in LoopState(g) /\ At(0, a)
  <2>1. NO_MOVE \in Nat BY DEF NO_MOVE
  <2>2. QED BY <1>1, <2>1, LoopBegins
<1>5. ASSUME NEW i \in 1 .. N, NEW s \in LoopState(g), At(i - 1, s)
      PROVE  Step(i, s) \in LoopState(g) /\ At(i, Step(i, s))
  BY <1>2, <1>5, TryKeeps, Zenon
<1>6. \A i \in 1 .. N : \A s \in LoopState(g) : F[<<i, s>>] = Step(i, s) OBVIOUS
<1>7. MoveLoop(g, below, x, depth, first, tt) = Finished(g, x, depth, (CHOOSE h : P(h))[N])
  BY Zenon DEF MoveLoop
<1> HIDE DEF a, Step, F, At, N, moves
<1>8. \A i \in 0 .. N : S[i] = {s \in LoopState(g) : At(i, s)} OBVIOUS
<1> HIDE DEF S
<1>9. Steps(N, S, a, F)
  <2>1. 0 \in 0 .. N BY <1>3
  <2>2. a \in S[0] BY <1>4, <1>8, <2>1
  <2>3. ASSUME NEW i \in 1 .. N, NEW s \in S[i - 1] PROVE F[<<i, s>>] \in S[i]
    <3>1. i - 1 \in 0 .. N /\ i \in 0 .. N BY <1>3
    <3>2. s \in LoopState(g) /\ At(i - 1, s) BY <1>8, <3>1
    <3>3. Step(i, s) \in S[i] BY <1>5, <1>8, <3>1, <3>2
    <3>4. QED BY <1>6, <3>2, <3>3
  <2>4. QED BY <2>2, <2>3 DEF Steps
<1>10. \E h : P(h)
  <2>1. PICK h : Runs(h, N, S, a, F) BY <1>3, <1>9, LoopRuns, Zenon
  <2>2. /\ h = [i \in 0 .. N |-> h[i]] /\ h[0] = a
        /\ \A i \in 1 .. N : h[i] = F[<<i, h[i - 1]>>]
        /\ \A i \in 0 .. N : h[i] \in S[i]
    BY <2>1, Zenon DEF Runs
  <2>3. ASSUME NEW i \in 1 .. N PROVE h[i] = Step(i, h[i - 1])
    <3>1. i - 1 \in 0 .. N BY <1>3
    <3>2. h[i - 1] \in LoopState(g) BY <1>8, <2>2, <3>1
    <3>3. QED BY <1>6, <2>2, <3>2
  <2>4. ASSUME NEW i \in 0 .. N PROVE h[i] = IF i = 0 THEN a ELSE Step(i, h[i - 1])
    <3>1. i = 0 \/ i \in 1 .. N BY <1>3
    <3>2. QED BY <2>2, <2>3, <3>1
  <2>5. P(h) BY <2>2, <2>4, Zenon
  <2>6. QED BY <2>5
<1> DEFINE f == CHOOSE h : P(h)
<1>11. P(f) BY <1>10, Zenon
<1> HIDE DEF f
<1>12. \A i \in 0 .. N : f[i] = IF i = 0 THEN a ELSE Step(i, f[i - 1]) BY <1>11, Zenon
<1> HIDE DEF P
<1>13. \A i \in 0 .. N : f[i] \in S[i]
  <2>1. f[0] = a /\ 0 \in 0 .. N BY <1>3, <1>12
  <2>2. f[0] \in S[0] BY <1>4, <1>8, <2>1
  <2>3. ASSUME NEW i \in 1 .. N, f[i - 1] \in S[i - 1] PROVE f[i] \in S[i]
    <3>1. i - 1 \in 0 .. N /\ i \in 0 .. N /\ i # 0 BY <1>3
    <3>2. f[i] = Step(i, f[i - 1]) BY <1>12, <3>1
    <3>3. f[i - 1] \in LoopState(g) /\ At(i - 1, f[i - 1]) BY <1>8, <2>3, <3>1
    <3>4. QED BY <1>5, <1>8, <3>1, <3>2, <3>3
  <2>4. QED BY <1>3, <2>2, <2>3, LoopKeeps, Zenon
<1>14. f[N] \in LoopState(g) /\ At(N, f[N])
  <2>1. N \in 0 .. N BY <1>3
  <2>2. QED BY <1>8, <1>13, <2>1
<1>15. MoveLoop(g, below, x, depth, first, tt) = Finished(g, x, depth, f[N]) BY <1>7 DEF f
<1>16. Answered(g, x, Finished(g, x, depth, f[N]))
  <2>1. left + 1 \in Nat /\ LoopAt(g, p, Ply(x.path), x.alpha, x.beta, moves, Len(moves), f[N])
    BY <1>14 DEF At, N
  <2>2. QED BY <1>2, <1>14, <2>1, FinishedIsAnswered
<1>17. QED BY <1>15, <1>16

\* A score of the table that answers a call is sound, whatever search it comes from.
LEMMA KnownIsSound ==
  ASSUME NEW g, NEW p, NEW e \in Entry, EntryIsReal(g, p, e), NEW ply \in 0 .. MAX_PLY,
         NEW depth, NEW alpha, NEW beta, Window(alpha, beta),
         Answers(e, depth, Probed(e.score, ply), alpha, beta)
  PROVE  Sound(g, p, ply, alpha, beta, Probed(e.score, ply))
PROOF
<1> DEFINE s == e.score
           known == Probed(s, ply)
<1>1. /\ MATE \in Nat /\ MATE_BOUND \in Nat /\ Furthest \in Nat /\ MAX_PLY \in Nat
      /\ Furthest = MATE - MATE_BOUND /\ MAX_PLY < Furthest /\ 2 * Furthest < MATE_BOUND
  BY Limits
<1>2. alpha \in Int /\ beta \in Int /\ alpha < beta /\ alpha <= MATE /\ -MATE <= beta BY DEF Window
<1>3. s \in Int BY DEF Entry
<1>4. known = IF s > MATE_BOUND THEN s - ply ELSE IF s < -MATE_BOUND THEN s + ply ELSE s
  BY DEF Probed
<1>5. \/ e.flag = "exact"
      \/ e.flag = "lower" /\ known >= beta
      \/ e.flag = "upper" /\ known <= alpha
  BY DEF Answers
<1>6. /\ e.flag \in {"exact", "lower"} /\ s > MATE_BOUND => p \in WonIn(g, MATE - s)
      /\ e.flag \in {"exact", "upper"} /\ s < -MATE_BOUND => p \in LostIn(g, MATE + s)
  BY DEF EntryIsReal
<1> HIDE DEF s, known
<1>7. known \in Int BY <1>1, <1>3, <1>4
<1>8. e.flag \in {"exact", "lower"} /\ s > MATE_BOUND => MATE - s >= 0
  <2>1. e.flag \in {"exact", "lower"} /\ s > MATE_BOUND => ~(MATE - s < 0) BY <1>6 DEF WonIn
  <2>2. QED BY <1>1, <1>3, <2>1
<1>9. e.flag \in {"exact", "upper"} /\ s < -MATE_BOUND => MATE + s >= 0
  <2>1. e.flag \in {"exact", "upper"} /\ s < -MATE_BOUND => ~(MATE + s < 0) BY <1>6 DEF LostIn
  <2>2. QED BY <1>1, <1>3, <2>1
<1>10. known > MATE_BOUND => s > MATE_BOUND /\ known = s - ply BY <1>1, <1>3, <1>4
<1>11. known < -MATE_BOUND => s < -MATE_BOUND /\ known = s + ply BY <1>1, <1>3, <1>4
<1>12. known <= MATE
  <2>1. CASE e.flag \in {"exact", "lower"}
    <3>1. s > MATE_BOUND => s <= MATE BY <1>1, <1>3, <1>8, <2>1
    <3>2. QED BY <1>1, <1>3, <1>7, <1>10, <3>1
  <2>2. CASE e.flag = "upper"
    <3>1. known <= alpha BY <1>5, <2>2
    <3>2. QED BY <1>1, <1>2, <1>7, <3>1
  <2>3. QED BY <1>5, <2>1, <2>2
<1>13. -MATE <= known
  <2>1. CASE e.flag \in {"exact", "upper"}
    <3>1. s < -MATE_BOUND => -MATE <= s BY <1>1, <1>3, <1>9, <2>1
    <3>2. QED BY <1>1, <1>3, <1>7, <1>11, <3>1
  <2>2. CASE e.flag = "lower"
    <3>1. known >= beta BY <1>5, <2>2
    <3>2. QED BY <1>1, <1>2, <1>7, <3>1
  <2>3. QED BY <1>5, <2>1, <2>2
<1>14. ASSUME known > alpha, known > MATE_BOUND PROVE p \in WonIn(g, MATE - known - ply)
  <2>1. ~(known <= alpha) BY <1>2, <1>7, <1>14
  <2>2. e.flag \in {"exact", "lower"} BY <1>5, <2>1
  <2>3. MATE - known - ply = MATE - s BY <1>1, <1>3, <1>10, <1>14
  <2>4. QED BY <1>6, <1>10, <1>14, <2>2, <2>3
<1>15. ASSUME known < beta, known < -MATE_BOUND PROVE p \in LostIn(g, MATE + known - ply)
  <2>1. ~(known >= beta) BY <1>2, <1>7, <1>15
  <2>2. e.flag \in {"exact", "upper"} BY <1>5, <2>1
  <2>3. MATE + known - ply = MATE + s BY <1>1, <1>3, <1>11, <1>15
  <2>4. QED BY <1>6, <1>11, <1>15, <2>2, <2>3
<1>16. known \in -MATE .. MATE BY <1>1, <1>7, <1>12, <1>13
<1>17. Sound(g, p, ply, alpha, beta, known) BY <1>14, <1>15, <1>16 DEF Sound
<1>18. QED BY <1>17 DEF known, s

\* After a pass, and with it: its score is only that the node is beta or better.
LEMMA PassIsAnswered ==
  ASSUME NEW g, IsGame(g), NEW left \in Nat, NEW below, NodesSound(g, left, below),
         NEW x, Fair(g, left + 1, x), Tip(x.path) \in Playing(g), NEW depth \in Int,
         TriesPass(g, x, depth), NEW less \in Int, NEW first
  PROVE  Answered(g, x,
           AfterPass(g, below, x, depth, first,
             below[Call(Append(x.path, g.pass[Tip(x.path)]), less, -x.beta, -x.beta + 1, x.tt)]))
PROOF
<1> DEFINE p == Tip(x.path)
           q == g.pass[p]
           ply == Ply(x.path)
           passed == below[Call(Append(x.path, q), less, -x.beta, -x.beta + 1, x.tt)]
           r == AfterPass(g, below, x, depth, first, passed)
<1>1. MATE \in Nat /\ MATE_BOUND \in Nat /\ Furthest \in Nat /\ Furthest = MATE - MATE_BOUND BY Limits
<1>2. /\ x.path \in Paths(g) /\ left + 1 + ply = MAX_PLY /\ x.tt \in RealTables(g)
      /\ x.alpha \in Int /\ x.beta \in Int /\ x.alpha < x.beta /\ -MATE <= x.beta
  BY DEF Fair, Calls, Paths, Window
<1>3. p \in Positions(g) BY DEF Playing
<1>4. q # NO_MOVE /\ g.value[p] >= x.beta BY DEF TriesPass
<1>5. q \in Positions(g) /\ g.value[p] \in -MATE_BOUND .. MATE_BOUND BY <1>3, <1>4, GameFacts
<1>6. x.beta <= MATE_BOUND /\ x.beta <= MATE
  <2> DEFINE v == g.value[p]
  <2>1. v \in Int /\ v <= MATE_BOUND /\ v >= x.beta BY <1>1, <1>4, <1>5
  <2> HIDE DEF v
  <2>2. QED BY <1>1, <1>2, <2>1
<1>7. Window(-x.beta, -x.beta + 1) BY <1>1, <1>2, <1>6 DEF Window
<1>8. left + ply + 1 = MAX_PLY /\ ply \in Nat
  <2>1. ply \in Nat BY <1>2, PathFacts
  <2> HIDE DEF ply
  <2>2. QED BY <1>2, <2>1
<1> HIDE DEF q
<1>9. Answer(g, q, ply + 1, -x.beta, -x.beta + 1, passed)
  BY <1>2, <1>5, <1>7, <1>8, CallIsSound
<1> HIDE DEF passed
<1>10. passed.tt \in RealTables(g) BY <1>9 DEF Answer
<1>11. CASE -passed.score >= x.beta /\ Magnitude(passed.score) < POINTS_WIN - 1000
  <2>1. r = [score |-> x.beta, tt |-> passed.tt] BY <1>11, Zenon DEF AfterPass
  <2>2. r.score = x.beta /\ r.tt = passed.tt BY <2>1
  <2>3. x.beta \in -MATE .. MATE /\ ~(x.beta < x.beta) /\ ~(x.beta > MATE_BOUND) BY <1>1, <1>2, <1>6
  <2>4. Sound(g, p, ply, x.alpha, x.beta, x.beta) BY <2>3 DEF Sound
  <2> HIDE DEF r
  <2>5. QED BY <1>10, <2>2, <2>4 DEF Answered, Answer, r, q, passed
<1>12. CASE ~(-passed.score >= x.beta /\ Magnitude(passed.score) < POINTS_WIN - 1000)
  <2>1. r = MoveLoop(g, below, x, depth, first, passed.tt) BY <1>12, Zenon DEF AfterPass
  <2>2. Answered(g, x, MoveLoop(g, below, x, depth, first, passed.tt)) BY <1>10, MovesAreAnswered
  <2>3. QED BY <2>1, <2>2 DEF q, passed
<1>13. QED BY <1>11, <1>12

\* A node that is not over by rule.
LEMMA DeepenedIsAnswered ==
  ASSUME NEW g, IsGame(g), NEW left \in Nat, NEW below, NodesSound(g, left, below),
         NEW x, Fair(g, left + 1, x), Tip(x.path) \in Playing(g), NEW depth \in Int
  PROVE  Answered(g, x, Deepened(g, below, x, depth))
PROOF
<1> DEFINE p == Tip(x.path)
           ply == Ply(x.path)
           e == x.tt[p]
           known == Probed(e.score, ply)
           less == depth - 3 - (IF depth >= 6 THEN 1 ELSE 0)
           y == [here |-> p, ply |-> ply, alpha |-> x.alpha, beta |-> x.beta]
           s == QSearch(g)[qsearch_max_depth][y]
           r == Deepened(g, below, x, depth)
<1>1. MAX_PLY \in Nat BY Limits
<1>2. /\ x.path \in Paths(g) /\ left + 1 + ply = MAX_PLY /\ x.tt \in RealTables(g)
      /\ x.alpha \in Int /\ x.beta \in Int /\ x.alpha < x.beta /\ Window(x.alpha, x.beta)
  BY DEF Fair, Calls, Paths, Window
<1>3. ply \in 0 .. MAX_PLY /\ ply \in Int
  <2>1. ply \in Nat BY <1>2, PathFacts
  <2> HIDE DEF ply
  <2>2. QED BY <1>1, <1>2, <2>1
<1>4. p \in Positions(g) BY DEF Playing
<1>5. e \in Entry /\ EntryIsReal(g, p, e) BY <1>2, <1>4 DEF RealTables, Tables
<1>6. CASE depth <= 0
  <2>1. r = [score |-> s, tt |-> x.tt] BY <1>6, Zenon DEF Deepened
  <2>2. y \in QuietCalls(g) /\ y.alpha < y.beta /\ y.ply \in 0 .. MAX_PLY
    <3> HIDE DEF p, ply
    <3>1. QED BY <1>2, <1>3, <1>4 DEF QuietCalls
  <2>3. Sound(g, y.here, y.ply, y.alpha, y.beta, s) BY <2>2, QSearchIsSound, Zenon DEF QuietSound
  <2> HIDE DEF s, r
  <2>4. Sound(g, p, ply, x.alpha, x.beta, s) BY <2>3
  <2>5. r.score = s /\ r.tt = x.tt BY <2>1
  <2>6. QED BY <1>2, <2>4, <2>5 DEF Answered, Answer, r
<1>7. CASE ~(depth <= 0) /\ ply > 0 /\ Answers(e, depth, known, x.alpha, x.beta)
  <2>1. r = [score |-> known, tt |-> x.tt] BY <1>7, Zenon DEF Deepened
  <2> HIDE DEF r, p, ply, e
  <2>2. Sound(g, p, ply, x.alpha, x.beta, known) BY <1>2, <1>3, <1>5, <1>7, KnownIsSound
  <2> HIDE DEF known
  <2>3. r.score = known /\ r.tt = x.tt BY <2>1
  <2>4. QED BY <1>2, <2>2, <2>3 DEF Answered, Answer, r, p, ply, e, known
<1>8. CASE /\ ~(depth <= 0) /\ ~(ply > 0 /\ Answers(e, depth, known, x.alpha, x.beta))
           /\ TriesPass(g, x, depth)
  <2> DEFINE passed == below[Call(Append(x.path, g.pass[p]), less, -x.beta, -x.beta + 1, x.tt)]
  <2>1. r = AfterPass(g, below, x, depth, e.move, passed) BY <1>8, Zenon DEF Deepened
  <2>2. less \in Int OBVIOUS
  <2> HIDE DEF less
  <2>3. Answered(g, x, AfterPass(g, below, x, depth, e.move, passed)) BY <1>8, <2>2, PassIsAnswered
  <2>4. QED BY <2>1, <2>3 DEF less
<1>9. CASE /\ ~(depth <= 0) /\ ~(ply > 0 /\ Answers(e, depth, known, x.alpha, x.beta))
           /\ ~TriesPass(g, x, depth)
  <2>1. r = MoveLoop(g, below, x, depth, e.move, x.tt) BY <1>9, Zenon DEF Deepened
  <2>2. Answered(g, x, MoveLoop(g, below, x, depth, e.move, x.tt)) BY <1>2, MovesAreAnswered
  <2>3. QED BY <2>1, <2>2
<1>10. QED BY <1>6, <1>7, <1>8, <1>9

\* A node of negamax().
LEMMA NodeIsAnswered ==
  ASSUME NEW g, IsGame(g), NEW left \in Nat, NEW below, NEW last \in BOOLEAN,
         last \/ (left # 0 /\ NodesSound(g, left - 1, below)), NEW x, Fair(g, left, x)
  PROVE  Answered(g, x, Node(g, below, x, last))
PROOF
<1> DEFINE p == Tip(x.path)
           repeats == \E i \in 1 .. Ply(x.path) : x.path[i] = p
           depth == IF g.check[p] THEN x.depth + 1 ELSE x.depth
           r == Node(g, below, x, last)
<1>1. /\ x.path \in Paths(g) /\ x.tt \in RealTables(g) /\ x.depth \in Int /\ Ply(x.path) > 0
  BY DEF Fair, Calls, Paths
<1>2. p \in Positions(g) BY <1>1, PathFacts
<1>3. /\ g.value[p] \in -MATE_BOUND .. MATE_BOUND
      /\ g.points[p] \in {DRAW_SCORE, POINTS_WIN, -POINTS_WIN} /\ (~g.ended[p] => p \in Playing(g))
  BY <1>2, GameFacts
<1>4. ASSUME NEW s \in -MATE_BOUND .. MATE_BOUND, r = [score |-> s, tt |-> x.tt]
      PROVE  Answered(g, x, r)
  <2>1. r.score = s /\ r.tt = x.tt BY <1>4
  <2>2. Sound(g, p, Ply(x.path), x.alpha, x.beta, s) BY Modest
  <2> HIDE DEF r
  <2>3. QED BY <1>1, <2>1, <2>2 DEF Answered, Answer
<1>5. CASE g.ended[p]
  <2>1. r = [score |-> g.points[p], tt |-> x.tt] BY <1>1, <1>5, Zenon DEF Node
  <2>2. g.points[p] \in -MATE_BOUND .. MATE_BOUND BY <1>3, PointsAreModest
  <2>3. QED BY <1>4, <2>1, <2>2
<1>6. CASE ~g.ended[p] /\ repeats
  <2>1. r = [score |-> DRAW_SCORE, tt |-> x.tt] BY <1>6, Zenon DEF Node
  <2>2. QED BY <1>4, <2>1, PointsAreModest
<1>7. CASE ~g.ended[p] /\ ~repeats /\ last
  <2>1. r = [score |-> g.value[p], tt |-> x.tt] BY <1>7, Zenon DEF Node
  <2>2. QED BY <1>3, <1>4, <2>1
<1>8. CASE ~g.ended[p] /\ ~repeats /\ ~last
  <2>1. r = Deepened(g, below, x, depth) BY <1>8, Zenon DEF Node
  <2>2. left - 1 \in Nat /\ (left - 1) + 1 = left /\ NodesSound(g, left - 1, below) BY <1>8
  <2>3. Fair(g, (left - 1) + 1, x) BY <2>2
  <2>4. depth \in Int BY <1>1
  <2>5. p \in Playing(g) BY <1>3, <1>8
  <2> HIDE DEF depth
  <2>6. Answered(g, x, Deepened(g, below, x, depth)) BY <2>2, <2>3, <2>4, <2>5, DeepenedIsAnswered
  <2>7. QED BY <2>1, <2>6
<1>9. QED BY <1>5, <1>6, <1>7, <1>8

\* The recursive function of negamax().
LEMMA NegamaxIs ==
  ASSUME NEW g
  PROVE  \A left \in 0 .. MAX_PLY :
           Negamax(g)[left] =
             [x \in Calls(g) |-> Node(g, Negamax(g)[left - 1], x, left = 0)]
PROOF
<1> DEFINE N == MAX_PLY
           Deep(b) == [x \in Calls(g) |-> Node(g, b, x, FALSE)]
           a == [x \in Calls(g) |-> Node(g, 0, x, TRUE)]
           Level(i, b) == [x \in Calls(g) |-> Node(g, b, x, i = 0)]
           P(h, k) == h = [i \in 0 .. k |-> Level(i, h[i - 1])]
           Q(h, k) == /\ DOMAIN h = 0 .. k /\ h = [i \in 0 .. k |-> h[i]] /\ h[0] = a
                      /\ \A i \in 1 .. k : h[i] = Deep(h[i - 1])
           K == {k \in Nat : \E h : Q(h, k)}
<1>1. ASSUME NEW b PROVE Level(0, b) = a BY Zenon DEF Node
<1>2. ASSUME NEW b, NEW i \in Nat, i # 0 PROVE Level(i, b) = Deep(b)
  <2>1. (i = 0) = FALSE BY <1>2
  <2>2. QED BY <2>1, Zenon
<1> HIDE DEF Level, Deep, a
<1>3. 0 \in K
  <2> DEFINE h == [i \in 0 .. 0 |-> a]
  <2>1. Q(h, 0) OBVIOUS
  <2>2. QED BY <2>1
<1>4. ASSUME NEW k \in Nat, k \in K PROVE k + 1 \in K
  <2>1. PICK h : Q(h, k) BY <1>4
  <2> DEFINE w == Deep(h[k])
             e == [i \in 0 .. k + 1 |-> IF i = k + 1 THEN w ELSE h[i]]
  <2>2. \A i \in 0 .. k : e[i] = h[i] OBVIOUS
  <2>3. e[k + 1] = w OBVIOUS
  <2>4. DOMAIN e = 0 .. k + 1 /\ e = [i \in 0 .. k + 1 |-> e[i]] OBVIOUS
  <2> HIDE DEF e
  <2>5. e[0] = a
    <3>1. 0 \in 0 .. k OBVIOUS
    <3>2. QED BY <2>1, <2>2, <3>1
  <2>6. ASSUME NEW i \in 1 .. k + 1 PROVE e[i] = Deep(e[i - 1])
    <3>1. CASE i = k + 1
      <4>1. k \in 0 .. k /\ i - 1 = k BY <3>1
      <4>2. e[i - 1] = h[k] BY <2>2, <4>1
      <4>3. QED BY <2>3, <3>1, <4>2
    <3>2. CASE i # k + 1
      <4>1. i \in 1 .. k /\ i \in 0 .. k /\ i - 1 \in 0 .. k BY <3>2
      <4>2. e[i] = h[i] /\ e[i - 1] = h[i - 1] BY <2>2, <4>1
      <4>3. QED BY <2>1, <4>1, <4>2
    <3>3. QED BY <3>1, <3>2
  <2>7. Q(e, k + 1) BY <2>4, <2>5, <2>6
  <2> HIDE DEF Q
  <2>8. \E d : Q(d, k + 1) BY <2>7
  <2>9. k + 1 \in Nat OBVIOUS
  <2>10. QED BY <2>8, <2>9
<1>5. N \in Nat BY Limits
<1> HIDE DEF N
<1>6. \E h : P(h, N)
  <2>1. \A k \in Nat : k \in K
    <3> HIDE DEF K
    <3>1. QED BY <1>3, <1>4, NumbersByInduction
  <2>2. PICK h : Q(h, N) BY <1>5, <2>1
  <2>3. ASSUME NEW i \in 0 .. N PROVE h[i] = Level(i, h[i - 1])
    <3>1. CASE i = 0 BY <1>1, <2>2, <3>1
    <3>2. CASE i # 0
      <4>1. i \in 1 .. N /\ i \in Nat BY <1>5, <3>2
      <4>2. QED BY <1>2, <2>2, <3>2, <4>1
    <3>3. QED BY <3>1, <3>2
  <2>4. h = [i \in 0 .. N |-> Level(i, h[i - 1])] BY <2>2, <2>3, Zenon
  <2>5. QED BY <2>4
<1> DEFINE f == CHOOSE h : P(h, N)
<1>7. P(f, N) BY <1>6, Zenon
<1>8. Negamax(g) = f BY Zenon DEF Negamax, Level, N
<1> HIDE DEF f
<1>9. \A i \in 0 .. N : f[i] = Level(i, f[i - 1]) BY <1>7, Zenon
<1>10. QED BY <1>8, <1>9 DEF Level, N

\* negamax() with every number of plies left.
LEMMA NegamaxIsSound ==
  ASSUME NEW g, IsGame(g), NEW left \in 0 .. MAX_PLY
  PROVE  NodesSound(g, left, Negamax(g)[left])
PROOF
<1> DEFINE N == MAX_PLY
           f == Negamax(g)
           K == {k \in Nat : k <= N => NodesSound(g, k, f[k])}
<1>1. N \in Nat BY Limits
<1>2. \A i \in 0 .. N : f[i] = [x \in Calls(g) |-> Node(g, f[i - 1], x, i = 0)]
  BY NegamaxIs, Zenon
<1> HIDE DEF N, f
<1>3. ASSUME NEW i \in 0 .. N, i = 0 \/ NodesSound(g, i - 1, f[i - 1]) PROVE NodesSound(g, i, f[i])
  <2> SUFFICES ASSUME NEW x \in Calls(g), Fair(g, i, x) PROVE Answered(g, x, f[i][x])
    BY DEF NodesSound
  <2> DEFINE last == (i = 0)
  <2>1. f[i][x] = Node(g, f[i - 1], x, last) BY <1>2, Zenon
  <2>2. last \in BOOLEAN /\ (last \/ (i # 0 /\ NodesSound(g, i - 1, f[i - 1]))) /\ i \in Nat
    BY <1>1, <1>3
  <2> HIDE DEF last
  <2>3. Answered(g, x, Node(g, f[i - 1], x, last)) BY <2>2, NodeIsAnswered
  <2>4. QED BY <2>1, <2>3
<1>4. 0 \in K
  <2>1. 0 \in 0 .. N BY <1>1
  <2>2. QED BY <1>3, <2>1
<1>5. ASSUME NEW k \in Nat, k \in K PROVE k + 1 \in K
  <2> SUFFICES ASSUME k + 1 <= N PROVE NodesSound(g, k + 1, f[k + 1]) OBVIOUS
  <2>1. k + 1 \in 0 .. N /\ (k + 1) - 1 = k /\ k <= N BY <1>1
  <2>2. NodesSound(g, (k + 1) - 1, f[(k + 1) - 1]) BY <1>5, <2>1
  <2>3. QED BY <1>3, <2>1, <2>2
<1> HIDE DEF K
<1>6. \A k \in Nat : k \in K BY <1>4, <1>5, NumbersByInduction
<1>7. QED BY <1>1, <1>6 DEF K, N, f

\* The search of the position after a move of the root.
LEMMA ReplyIsSound ==
  ASSUME NEW g, IsGame(g), NEW p \in Positions(g), NEW q \in Positions(g), NEW depth \in Int,
         NEW alpha, NEW beta, Window(alpha, beta), NEW tt \in RealTables(g)
  PROVE  Answer(g, q, 1, alpha, beta, Reply(g, p, q, depth, alpha, beta, tt))
PROOF
<1> DEFINE left == MAX_PLY - 1
           below == Negamax(g)[left]
           path == <<p>>
<1>1. left \in 0 .. MAX_PLY /\ left \in Nat BY DEF MAX_PLY
<1>2. path \in Seq(Positions(g)) /\ Len(path) = 1 /\ path # <<>> /\ Append(path, q) = <<p, q>>
  <2>1. path \in Seq(Positions(g)) OBVIOUS
  <2>2. Len(path) = 1 OBVIOUS
  <2>3. path # <<>> BY <2>2
  <2>4. Append(path, q) = <<p, q>>
    <3> DEFINE s == Append(path, q)
               t == <<p, q>>
    <3>1. s \in Seq(Positions(g)) /\ Len(s) = 2 /\ s[1] = p /\ s[2] = q OBVIOUS
    <3>2. t \in Seq(Positions(g)) /\ Len(t) = 2 /\ t[1] = p /\ t[2] = q OBVIOUS
    <3> HIDE DEF s, t
    <3>3. \A i \in 1 .. 2 : s[i] = t[i]
      <4>1. \A i \in 1 .. 2 : i = 1 \/ i = 2 OBVIOUS
      <4>2. QED BY <3>1, <3>2, <4>1
    <3>4. s = [i \in 1 .. 2 |-> s[i]] /\ t = [i \in 1 .. 2 |-> t[i]] BY <3>1, <3>2
    <3>5. s = t BY <3>3, <3>4
    <3>6. QED BY <3>5 DEF s, t
  <2>5. QED BY <2>1, <2>2, <2>3, <2>4
<1>3. path \in Paths(g) /\ Ply(path) = 0 BY <1>2 DEF Paths, Ply
<1>4. left + Ply(path) + 1 = MAX_PLY /\ Ply(path) + 1 = 1 BY <1>3, Limits
<1>5. Reply(g, p, q, depth, alpha, beta, tt) = below[Call(Append(path, q), depth, alpha, beta, tt)]
  BY <1>2, Zenon DEF Reply
<1> HIDE DEF left
<1>6. NodesSound(g, left, below) BY <1>1, NegamaxIsSound
<1> HIDE DEF below, path
<1>7. Answer(g, q, Ply(path) + 1, alpha, beta, below[Call(Append(path, q), depth, alpha, beta, tt)])
  BY <1>1, <1>3, <1>4, <1>6, CallIsSound
<1>8. QED BY <1>4, <1>5, <1>7

-----------------------------------------------------------------------------
(* search(): the root, its windows and its iterations.                       *)

\* A move of the root.
LEMMA RootTryKeeps ==
  ASSUME NEW g, IsGame(g), NEW p \in Playing(g), NEW depth \in Int,
         NEW alpha, NEW beta, Window(alpha, beta),
         NEW moves, MovesOf(g, p, moves), NEW i \in 1 .. Len(moves), NEW st \in LoopState(g),
         LoopAt(g, p, 0, alpha, beta, moves, i - 1, st)
  PROVE  LET new == RootTry(g, p, depth, beta, st, moves[i])
         IN  new \in LoopState(g) /\ LoopAt(g, p, 0, alpha, beta, moves, i, new)
PROOF
<1> DEFINE m == moves[i]
           narrow == Reply(g, p, m.to, depth - 1, -st.alpha - 1, -st.alpha, st.tt)
           r == IF st.legal = 0 THEN Reply(g, p, m.to, depth - 1, -beta, -st.alpha, st.tt)
                ELSE RootConfirmed(g, p, m.to, depth, beta, st.alpha, narrow)
           new == RootTry(g, p, depth, beta, st, m)
<1>1. alpha \in Int /\ beta \in Int /\ alpha < beta BY DEF Window
<1>2. 0 \in 0 .. MAX_PLY /\ p \in Positions(g) BY Limits DEF Playing
<1>3. m \in SomeMove(g) /\ m.to \in Positions(g) /\ i \in Nat \ {0} /\ i - 1 \in Nat
  <2>1. m \in SomeMove(g) BY DEF MovesOf
  <2>2. Len(moves) \in Nat BY DEF MovesOf
  <2>3. QED BY <2>1, <2>2 DEF SomeMove
<1>4. new = IF st.cut THEN st ELSE Searched(st, m, beta, r) BY Zenon DEF RootTry
<1>5. CASE st.cut
  <2> HIDE DEF new
  <2>1. LoopAt(g, p, 0, alpha, beta, moves, i, st) BY <1>1, <1>3, <1>5, LoopIsCut
  <2>2. QED BY <1>4, <1>5, <2>1 DEF new, m
<1>6. CASE ~st.cut
  <2>1. /\ Window(-beta, -st.alpha)
        /\ st.legal # 0 => Window(-st.alpha - 1, -st.alpha)
    BY <1>1, <1>3, <1>6, LoopWindows
  <2>2. st.alpha \in Int /\ st.tt \in RealTables(g) BY DEF LoopState
  <2>3. depth - 1 \in Int OBVIOUS
  <2>4. Answer(g, m.to, 1, -beta, -st.alpha, r)
    <3>1. CASE st.legal = 0
      <4>1. Answer(g, m.to, 1, -beta, -st.alpha, Reply(g, p, m.to, depth - 1, -beta, -st.alpha, st.tt))
        <5> HIDE DEF m
        <5>1. QED BY <1>2, <1>3, <2>1, <2>2, <2>3, ReplyIsSound
      <4>2. r = Reply(g, p, m.to, depth - 1, -beta, -st.alpha, st.tt) BY <3>1
      <4>3. QED BY <4>1, <4>2
    <3>2. CASE st.legal # 0
      <4> DEFINE full == Reply(g, p, m.to, depth - 1, -beta, -st.alpha, narrow.tt)
      <4> HIDE DEF m
      <4>1. Answer(g, m.to, 1, -st.alpha - 1, -st.alpha, narrow)
        BY <1>2, <1>3, <2>1, <2>2, <2>3, <3>2, ReplyIsSound
      <4> HIDE DEF narrow
      <4>2. narrow.tt \in RealTables(g) /\ Sound(g, m.to, 1, -st.alpha - 1, -st.alpha, narrow.score)
        BY <4>1 DEF Answer
      <4>3. Answer(g, m.to, 1, -beta, -st.alpha, full)
        BY <1>2, <1>3, <2>1, <2>3, <4>2, ReplyIsSound
      <4>4. r = IF st.alpha < -narrow.score /\ -narrow.score < beta THEN full ELSE narrow
        BY <3>2, Zenon DEF RootConfirmed, full
      <4> HIDE DEF full, r
      <4>5. CASE st.alpha < -narrow.score /\ -narrow.score < beta BY <4>3, <4>4, <4>5
      <4>6. CASE ~(st.alpha < -narrow.score /\ -narrow.score < beta)
        <5>1. st.alpha < beta BY <1>1, <2>1, <2>2 DEF Window
        <5>2. narrow.score \in Int
          <6>1. MATE \in Nat BY Limits
          <6>2. narrow.score \in -MATE .. MATE BY <4>2 DEF Sound
          <6>3. QED BY <6>1, <6>2
        <5>3. ~(-narrow.score > st.alpha /\ -narrow.score < beta) BY <2>2, <4>6, <5>2
        <5>4. Sound(g, m.to, 1, -beta, -st.alpha, narrow.score)
          BY <1>1, <2>2, <4>2, <5>1, <5>3, NarrowStands
        <5>5. QED BY <4>2, <4>4, <4>6, <5>4 DEF Answer
      <4>7. QED BY <4>5, <4>6
    <3>3. QED BY <3>1, <3>2
  <2> HIDE DEF r, new
  <2>5. /\ Searched(st, m, beta, r) \in LoopState(g)
        /\ LoopAt(g, p, 0, alpha, beta, moves, i, Searched(st, m, beta, r))
    <3>1. Answer(g, m.to, 0 + 1, -beta, -st.alpha, r) BY <2>4
    <3>2. QED BY <1>1, <1>2, <1>6, <3>1, LoopGoesOn
  <2>6. QED BY <1>4, <1>6, <2>5 DEF new, m
<1>7. QED BY <1>5, <1>6

\* What a search of the root is: a sound score, a move and a real table.
Result(g, p, alpha, beta, r) ==
  r \in LoopState(g) /\ Sound(g, p, 0, alpha, beta, r.best)

\* A search of the root.
LEMMA RootIsSound ==
  ASSUME NEW g, IsGame(g), NEW p \in Playing(g), g.next[p] # <<>>, NEW depth \in Int,
         NEW alpha, NEW beta, Window(alpha, beta), NEW first \in Nat, NEW tt \in RealTables(g)
  PROVE  Result(g, p, alpha, beta, Root(g, p, depth, alpha, beta, first, tt))
PROOF
<1> DEFINE moves == Ordered(g.next[p], first)
           N == Len(moves)
           a == NoMoveYet(alpha, first, tt)
           Step(i, s) == RootTry(g, p, depth, beta, s, moves[i])
           At(i, s) == LoopAt(g, p, 0, alpha, beta, moves, i, s)
           F == [z \in (1 .. N) \X LoopState(g) |-> Step(z[1], z[2])]
           S == [i \in 0 .. N |-> {s \in LoopState(g) : At(i, s)}]
           P(h) == h = [i \in 0 .. N |-> IF i = 0 THEN a ELSE Step(i, h[i - 1])]
<1>1. alpha \in Int /\ beta \in Int /\ alpha < beta /\ p \in Positions(g) BY DEF Window, Playing
<1>2. MovesOf(g, p, moves) BY <1>1, OrderedMoves
<1>3. N \in Nat BY <1>2 DEF MovesOf
<1>4. a \in LoopState(g) /\ At(0, a)
  BY <1>1, LoopBegins
<1>5. ASSUME NEW i \in 1 .. N, NEW s \in LoopState(g), At(i - 1, s)
      PROVE  Step(i, s) \in LoopState(g) /\ At(i, Step(i, s))
  BY <1>2, <1>5, RootTryKeeps, Zenon
<1>6. \A i \in 1 .. N : \A s \in LoopState(g) : F[<<i, s>>] = Step(i, s) OBVIOUS
<1>7. Root(g, p, depth, alpha, beta, first, tt) = (CHOOSE h : P(h))[N]
  BY Zenon DEF Root
<1> HIDE DEF a, Step, F, At, N, moves
<1>8. \A i \in 0 .. N : S[i] = {s \in LoopState(g) : At(i, s)} OBVIOUS
<1> HIDE DEF S
<1>9. Steps(N, S, a, F)
  <2>1. 0 \in 0 .. N BY <1>3
  <2>2. a \in S[0] BY <1>4, <1>8, <2>1
  <2>3. ASSUME NEW i \in 1 .. N, NEW s \in S[i - 1] PROVE F[<<i, s>>] \in S[i]
    <3>1. i - 1 \in 0 .. N /\ i \in 0 .. N BY <1>3
    <3>2. s \in LoopState(g) /\ At(i - 1, s) BY <1>8, <3>1
    <3>3. Step(i, s) \in S[i] BY <1>5, <1>8, <3>1, <3>2
    <3>4. QED BY <1>6, <3>2, <3>3
  <2>4. QED BY <2>2, <2>3 DEF Steps
<1>10. \E h : P(h)
  <2>1. PICK h : Runs(h, N, S, a, F) BY <1>3, <1>9, LoopRuns, Zenon
  <2>2. /\ h = [i \in 0 .. N |-> h[i]] /\ h[0] = a
        /\ \A i \in 1 .. N : h[i] = F[<<i, h[i - 1]>>]
        /\ \A i \in 0 .. N : h[i] \in S[i]
    BY <2>1, Zenon DEF Runs
  <2>3. ASSUME NEW i \in 1 .. N PROVE h[i] = Step(i, h[i - 1])
    <3>1. i - 1 \in 0 .. N BY <1>3
    <3>2. h[i - 1] \in LoopState(g) BY <1>8, <2>2, <3>1
    <3>3. QED BY <1>6, <2>2, <3>2
  <2>4. ASSUME NEW i \in 0 .. N PROVE h[i] = IF i = 0 THEN a ELSE Step(i, h[i - 1])
    <3>1. i = 0 \/ i \in 1 .. N BY <1>3
    <3>2. QED BY <2>2, <2>3, <3>1
  <2>5. P(h) BY <2>2, <2>4, Zenon
  <2>6. QED BY <2>5
<1> DEFINE f == CHOOSE h : P(h)
<1>11. P(f) BY <1>10, Zenon
<1> HIDE DEF f
<1>12. \A i \in 0 .. N : f[i] = IF i = 0 THEN a ELSE Step(i, f[i - 1]) BY <1>11, Zenon
<1> HIDE DEF P
<1>13. \A i \in 0 .. N : f[i] \in S[i]
  <2>1. f[0] = a /\ 0 \in 0 .. N BY <1>3, <1>12
  <2>2. f[0] \in S[0] BY <1>4, <1>8, <2>1
  <2>3. ASSUME NEW i \in 1 .. N, f[i - 1] \in S[i - 1] PROVE f[i] \in S[i]
    <3>1. i - 1 \in 0 .. N /\ i \in 0 .. N /\ i # 0 BY <1>3
    <3>2. f[i] = Step(i, f[i - 1]) BY <1>12, <3>1
    <3>3. f[i - 1] \in LoopState(g) /\ At(i - 1, f[i - 1]) BY <1>8, <2>3, <3>1
    <3>4. QED BY <1>5, <1>8, <3>1, <3>2, <3>3
  <2>4. QED BY <1>3, <2>2, <2>3, LoopKeeps, Zenon
<1>14. f[N] \in LoopState(g) /\ At(N, f[N])
  <2>1. N \in 0 .. N BY <1>3
  <2>2. QED BY <1>8, <1>13, <2>1
<1> DEFINE st == f[N]
<1>15. Root(g, p, depth, alpha, beta, first, tt) = st BY <1>7 DEF f
<1> HIDE DEF st
<1>16. st \in LoopState(g) /\ At(N, st) BY <1>14 DEF st
<1>17. N # 0 /\ Reached(moves, N) = Replies(g, p) /\ Replies(g, p) # {}
  <2>1. MovesOf(g, p, g.next[p]) BY <1>1, GameFacts
  <2>2. Replies(g, p) # {} BY <2>1 DEF MovesOf
  <2>3. QED BY <1>2, <2>2 DEF MovesOf, N
<1>18. Best(g, p, 0, alpha, beta, Reached(moves, N), st.best, st.alpha)
  BY <1>16, <1>17 DEF At, LoopAt
<1>19. 0 \in 0 .. MAX_PLY BY Limits
<1>20. Sound(g, p, 0, alpha, beta, st.best) BY <1>1, <1>17, <1>18, <1>19, BestIsSound
<1>21. QED BY <1>15, <1>16, <1>20 DEF Result

\* How windows grow: from the eighth time on they are wider than all scores.
LEMMA WindowSizes ==
  \E size : /\ size[0] = aspiration_window
            /\ \A i \in 0 .. Widenings : size[i] \in Nat
            /\ \A i \in 1 .. Widenings : size[i] = 4 * size[i - 1]
            /\ \A i \in 8 .. Widenings : size[i] >= MATE + INF
PROOF
<1> DEFINE a == aspiration_window
           b == 4 * a
           c == 4 * b
           d == 4 * c
           e == 4 * d
           f == 4 * e
           h == 4 * f
           k == 4 * h
           l == 4 * k
           m == 4 * l
           s == [i \in 0 .. 9 |-> IF i = 0 THEN a ELSE IF i = 1 THEN b ELSE IF i = 2 THEN c
                                  ELSE IF i = 3 THEN d ELSE IF i = 4 THEN e ELSE IF i = 5 THEN f
                                  ELSE IF i = 6 THEN h ELSE IF i = 7 THEN k ELSE IF i = 8 THEN l ELSE m]
<1>1. Widenings = 9 BY DEF Widenings
<1>2. a = 40 /\ MATE + INF = 1100000 BY DEF aspiration_window, MATE, INF
<1>3. a \in Nat /\ l >= MATE + INF BY <1>2
<1> HIDE DEF a
<1>4. b \in Nat /\ c \in Nat /\ d \in Nat /\ e \in Nat /\ f \in Nat BY <1>3
<1>5. h \in Nat /\ k \in Nat /\ l \in Nat /\ m \in Nat /\ m >= l BY <1>3
<1>6. b = 4 * a /\ c = 4 * b /\ d = 4 * c /\ e = 4 * d /\ f = 4 * e /\ h = 4 * f /\ k = 4 * h
      /\ l = 4 * k /\ m = 4 * l
  OBVIOUS
<1> HIDE DEF b, c, d, e, f, h, k, l, m
<1>7. /\ s[0] = a /\ s[1] = b /\ s[2] = c /\ s[3] = d /\ s[4] = e /\ s[5] = f /\ s[6] = h
      /\ s[7] = k /\ s[8] = l /\ s[9] = m
  OBVIOUS
<1> HIDE DEF s
<1>8. \A i \in 0 .. 9 : i \in {0, 1, 2, 3, 4, 5, 6, 7, 8, 9} OBVIOUS
<1>9. \A i \in 0 .. 9 : s[i] \in Nat BY <1>3, <1>4, <1>5, <1>7, <1>8
<1>10. ASSUME NEW i \in 1 .. 9 PROVE s[i] = 4 * s[i - 1]
  <2>1. i \in {1, 2, 3, 4, 5, 6, 7, 8, 9} OBVIOUS
  <2>2. QED BY <1>6, <1>7, <2>1
<1>11. ASSUME NEW i \in 8 .. 9 PROVE s[i] >= MATE + INF
  <2>1. i = 8 \/ i = 9 OBVIOUS
  <2>2. MATE + INF \in Nat BY Limits
  <2>3. QED BY <1>3, <1>5, <1>7, <2>1, <2>2
<1>12. QED BY <1>1, <1>7, <1>9, <1>10, <1>11 DEF a

\* A window that a score falls out of is one for scores when it is made wider; the
\* first very wide one has one side behind which no score lies, the next one both.
LEMMA WiderWindow ==
  ASSUME NEW low, NEW high, Window(low, high), NEW window \in Nat, NEW score \in -MATE .. MATE,
         ~(low < score /\ score < high), NEW l, NEW h,
         l = IF score <= low THEN Larger(-INF, low - 4 * window) ELSE low,
         h = IF score <= low THEN high ELSE Smaller(INF, high + 4 * window)
  PROVE  /\ Window(l, h)
         /\ 4 * window >= MATE + INF => l < -MATE \/ MATE < h
         /\ 4 * window >= MATE + INF /\ (low < -MATE \/ MATE < high) => l < -MATE /\ MATE < h
PROOF
<1>1. MATE \in Nat /\ INF \in Nat /\ MATE < INF BY Limits
<1>2. low \in Int /\ high \in Int /\ low < high /\ low <= MATE /\ -MATE <= high BY DEF Window
<1>3. score \in Int /\ -MATE <= score /\ score <= MATE BY <1>1
<1>4. CASE score <= low
  <2>1. h = high /\ l = Larger(-INF, low - 4 * window) BY <1>4
  <2>2. l = IF -INF < low - 4 * window THEN low - 4 * window ELSE -INF BY <2>1 DEF Larger
  <2>3. l \in Int /\ l <= low BY <1>1, <1>2, <1>3, <1>4, <2>2
  <2>4. 4 * window >= MATE + INF => l < -MATE BY <1>1, <1>2, <2>2
  <2>5. low >= -MATE BY <1>1, <1>2, <1>3, <1>4
  <2>6. QED BY <1>1, <1>2, <2>1, <2>3, <2>4, <2>5 DEF Window
<1>5. CASE ~(score <= low)
  <2>1. l = low /\ h = Smaller(INF, high + 4 * window) BY <1>5
  <2>2. h = IF INF < high + 4 * window THEN INF ELSE high + 4 * window BY <2>1 DEF Smaller
  <2>3. score >= high BY <1>2, <1>3, <1>5
  <2>4. h \in Int /\ high <= h BY <1>1, <1>2, <1>3, <2>2, <2>3
  <2>5. 4 * window >= MATE + INF => MATE < h BY <1>1, <1>2, <2>2
  <2>6. high <= MATE BY <1>1, <1>2, <1>3, <2>3
  <2>7. QED BY <1>1, <1>2, <2>1, <2>4, <2>5, <2>6 DEF Window
<1>6. QED BY <1>4, <1>5

\* A sound score inside its window is real.
LEMMA InsideIsReal ==
  ASSUME NEW g, NEW p, NEW alpha, NEW beta, NEW score, Sound(g, p, 0, alpha, beta, score),
         alpha < score, score < beta
  PROVE  score \in -MATE .. MATE /\ IsReal(g, p, score)
PROOF
<1>1. MATE \in Nat BY Limits
<1>2. /\ score \in -MATE .. MATE
      /\ score > alpha /\ score > MATE_BOUND => p \in WonIn(g, MATE - score - 0)
      /\ score < beta /\ score < -MATE_BOUND => p \in LostIn(g, MATE + score - 0)
  BY DEF Sound
<1>3. MATE - score - 0 = MATE - score /\ MATE + score - 0 = MATE + score BY <1>1, <1>2
<1>4. QED BY <1>2, <1>3 DEF IsReal

Sizes(size) == /\ size[0] = aspiration_window
               /\ \A i \in 0 .. Widenings : size[i] \in Nat
               /\ \A i \in 1 .. Widenings : size[i] = 4 * size[i - 1]
               /\ \A i \in 8 .. Widenings : size[i] >= MATE + INF
\* The window and the score after it was made wider i times.
Widened(size, i, low, high, window, score) ==
  /\ Window(low, high)
  /\ ~(low < score /\ score < high) =>
       window = size[i] /\ i # Widenings /\ (i >= 8 => low < -MATE \/ MATE < high)

\* Once more.
LEMMA WidensOnce ==
  ASSUME NEW size, Sizes(size), NEW i \in 1 .. Widenings, NEW low, NEW high, NEW window,
         NEW score \in -MATE .. MATE, Widened(size, i - 1, low, high, window, score),
         ~(low < score /\ score < high), NEW l, NEW h,
         l = IF score <= low THEN Larger(-INF, low - 4 * window) ELSE low,
         h = IF score <= low THEN high ELSE Smaller(INF, high + 4 * window)
  PROVE  /\ Window(l, h) /\ 4 * window \in Nat
         /\ \A s \in -MATE .. MATE : Widened(size, i, l, h, 4 * window, s)
PROOF
<1>1. Widenings = 9 /\ i \in 1 .. 9 BY DEF Widenings
<1>2. MATE \in Nat /\ INF \in Nat BY Limits
<1>3. Window(low, high) /\ window = size[i - 1] /\ (i - 1 >= 8 => low < -MATE \/ MATE < high)
  BY DEF Widened
<1>4. window \in Nat /\ 4 * window = size[i]
  <2>1. i - 1 \in 0 .. Widenings BY <1>1
  <2>2. QED BY <1>3, <2>1 DEF Sizes
<1>5. i >= 8 => 4 * window >= MATE + INF
  <2>1. i >= 8 => i \in 8 .. Widenings BY <1>1
  <2>2. QED BY <1>4, <2>1 DEF Sizes
<1>6. /\ Window(l, h)
      /\ 4 * window >= MATE + INF => l < -MATE \/ MATE < h
      /\ 4 * window >= MATE + INF /\ (low < -MATE \/ MATE < high) => l < -MATE /\ MATE < h
  BY <1>3, <1>4, WiderWindow
<1>7. i >= 8 => l < -MATE \/ MATE < h BY <1>5, <1>6
<1>8. i = Widenings => l < -MATE /\ MATE < h
  <2>1. i = Widenings => i >= 8 /\ i - 1 >= 8 BY <1>1
  <2>2. QED BY <1>3, <1>5, <1>6, <2>1
<1>9. ASSUME NEW s \in -MATE .. MATE PROVE Widened(size, i, l, h, 4 * window, s)
  <2>1. l \in Int /\ h \in Int /\ s \in Int /\ -MATE <= s /\ s <= MATE BY <1>2, <1>6 DEF Window
  <2>2. i = Widenings => l < s /\ s < h BY <1>2, <1>8, <2>1
  <2>3. QED BY <1>4, <1>6, <1>7, <2>2 DEF Widened
<1>10. QED BY <1>4, <1>6, <1>9

\* The search of the root in windows that are made wider: the score is real.
LEMMA WidenIsReal ==
  ASSUME NEW g, IsGame(g), NEW p \in Playing(g), g.next[p] # <<>>, NEW depth \in Int,
         NEW alpha, NEW beta, Window(alpha, beta), NEW first \in Nat, NEW tt \in RealTables(g)
  PROVE  LET r == Widen(g, p, depth, alpha, beta, first, tt)
         IN  r \in LoopState(g) /\ r.best \in -MATE .. MATE /\ IsReal(g, p, r.best)
PROOF
<1>0. PICK size : Sizes(size) BY WindowSizes, Zenon DEF Sizes
<1> DEFINE N == Widenings
           State == [low : Int, high : Int, window : Nat, r : LoopState(g)]
           At(i, w) == /\ Widened(size, i, w.low, w.high, w.window, w.r.best)
                       /\ Result(g, p, w.low, w.high, w.r)
           a == [low |-> alpha, high |-> beta, window |-> aspiration_window,
                 r |-> Root(g, p, depth, alpha, beta, first, tt)]
           Step(w) == Wider(g, p, depth, first, w)
           F == [z \in (1 .. N) \X State |-> Step(z[2])]
           S == [i \in 0 .. N |-> {w \in State : At(i, w)}]
           P(h) == h = [i \in 0 .. N |-> IF i > 0 THEN Step(h[i - 1]) ELSE a]
<1>1. MATE \in Nat /\ alpha \in Int /\ beta \in Int BY Limits DEF Window
<1>2. N \in Nat /\ N # 0 /\ aspiration_window \in Nat BY DEF Widenings, aspiration_window
<1>3. ASSUME NEW l, NEW h, Window(l, h), NEW t \in RealTables(g)
      PROVE  LET r == Root(g, p, depth, l, h, first, t)
             IN  r \in LoopState(g) /\ r.best \in -MATE .. MATE /\ Result(g, p, l, h, r)
  <2> DEFINE r == Root(g, p, depth, l, h, first, t)
  <2>1. Result(g, p, l, h, r) BY <1>3, RootIsSound
  <2> HIDE DEF r
  <2>2. r \in LoopState(g) /\ r.best \in -MATE .. MATE BY <2>1 DEF Result, Sound
  <2>3. QED BY <2>1, <2>2 DEF r
<1>4. a \in State /\ At(0, a)
  <2> DEFINE r == Root(g, p, depth, alpha, beta, first, tt)
  <2>1. r \in LoopState(g) /\ r.best \in -MATE .. MATE /\ Result(g, p, alpha, beta, r) BY <1>3
  <2>2. a = [low |-> alpha, high |-> beta, window |-> aspiration_window, r |-> r] OBVIOUS
  <2> HIDE DEF r, a
  <2>3. a \in State BY <1>1, <1>2, <2>1, <2>2
  <2>4. a.low = alpha /\ a.high = beta /\ a.window = aspiration_window /\ a.r = r BY <2>2
  <2>5. Widened(size, 0, alpha, beta, aspiration_window, r.best) BY <1>0, <1>2 DEF Widened, Sizes
  <2>6. QED BY <2>1, <2>3, <2>4, <2>5
<1>5. ASSUME NEW i \in 1 .. N, NEW w \in State, At(i - 1, w)
      PROVE  Step(w) \in State /\ At(i, Step(w))
  <2>1. /\ Widened(size, i - 1, w.low, w.high, w.window, w.r.best)
        /\ Result(g, p, w.low, w.high, w.r)
    BY <1>5
  <2>2. w.r \in LoopState(g) /\ w.r.tt \in RealTables(g) BY DEF LoopState
  <2>3. w.r.best \in -MATE .. MATE BY <2>1 DEF Result, Sound
  <2>4. CASE w.low < w.r.best /\ w.r.best < w.high
    <3>1. Step(w) = w BY <2>4, Zenon DEF Wider
    <3>2. Widened(size, i, w.low, w.high, w.window, w.r.best) BY <2>1, <2>4 DEF Widened
    <3>3. QED BY <2>1, <3>1, <3>2
  <2>5. CASE ~(w.low < w.r.best /\ w.r.best < w.high)
    <3> DEFINE l == IF w.r.best <= w.low THEN Larger(-INF, w.low - 4 * w.window) ELSE w.low
               h == IF w.r.best <= w.low THEN w.high ELSE Smaller(INF, w.high + 4 * w.window)
               r == Root(g, p, depth, l, h, first, w.r.tt)
    <3>1. Step(w) = [low |-> l, high |-> h, window |-> 4 * w.window, r |-> r]
      BY <2>5, Zenon DEF Wider
    <3> HIDE DEF Step
    <3>2. /\ Window(l, h) /\ 4 * w.window \in Nat
          /\ \A s \in -MATE .. MATE : Widened(size, i, l, h, 4 * w.window, s)
      BY <1>0, <2>1, <2>3, <2>5, WidensOnce
    <3> HIDE DEF l, h
    <3>3. r \in LoopState(g) /\ r.best \in -MATE .. MATE /\ Result(g, p, l, h, r) BY <1>3, <2>2, <3>2
    <3> HIDE DEF r
    <3>4. l \in Int /\ h \in Int BY <3>2 DEF Window
    <3> DEFINE v == Step(w)
    <3> HIDE DEF v
    <3>5. v = [low |-> l, high |-> h, window |-> 4 * w.window, r |-> r] BY <3>1 DEF v
    <3>6. v \in State BY <3>2, <3>3, <3>4, <3>5
    <3>7. v.low = l /\ v.high = h /\ v.window = 4 * w.window /\ v.r = r BY <3>5
    <3>8. At(i, v) BY <3>2, <3>3, <3>7
    <3>9. QED BY <3>6, <3>8 DEF v
  <2>6. QED BY <2>4, <2>5
<1>6. \A i \in 1 .. N : \A w \in State : F[<<i, w>>] = Step(w) OBVIOUS
<1>7. Widen(g, p, depth, alpha, beta, first, tt) = (CHOOSE h : P(h))[N].r BY Zenon DEF Widen
<1> HIDE DEF a, Step, F, At, N, State
<1>8. \A i \in 0 .. N : S[i] = {w \in State : At(i, w)} OBVIOUS
<1> HIDE DEF S
<1>9. Steps(N, S, a, F)
  <2>1. 0 \in 0 .. N BY <1>2
  <2>2. a \in S[0] BY <1>4, <1>8, <2>1
  <2>3. ASSUME NEW i \in 1 .. N, NEW s \in S[i - 1] PROVE F[<<i, s>>] \in S[i]
    <3>1. i - 1 \in 0 .. N /\ i \in 0 .. N BY <1>2
    <3>2. s \in State /\ At(i - 1, s) BY <1>8, <3>1
    <3>3. Step(s) \in S[i] BY <1>5, <1>8, <3>1, <3>2
    <3>4. QED BY <1>6, <3>2, <3>3
  <2>4. QED BY <2>2, <2>3 DEF Steps
<1>10. \E h : P(h)
  <2>1. PICK h : Runs(h, N, S, a, F) BY <1>2, <1>9, LoopRuns, Zenon
  <2>2. /\ h = [i \in 0 .. N |-> h[i]] /\ h[0] = a
        /\ \A i \in 1 .. N : h[i] = F[<<i, h[i - 1]>>]
        /\ \A i \in 0 .. N : h[i] \in S[i]
    BY <2>1, Zenon DEF Runs
  <2>3. ASSUME NEW i \in 1 .. N PROVE h[i] = Step(h[i - 1])
    <3>1. i - 1 \in 0 .. N BY <1>2
    <3>2. h[i - 1] \in State BY <1>8, <2>2, <3>1
    <3>3. QED BY <1>6, <2>2, <3>2
  <2>4. ASSUME NEW i \in 0 .. N PROVE h[i] = IF i > 0 THEN Step(h[i - 1]) ELSE a
    <3>1. i = 0 \/ i \in 1 .. N BY <1>2
    <3>2. i \in 1 .. N => i > 0 /\ h[i] = Step(h[i - 1]) BY <1>2, <2>3
    <3>3. QED BY <2>2, <3>1, <3>2
  <2>5. P(h) BY <2>2, <2>4, Zenon
  <2>6. QED BY <2>5
<1> DEFINE f == CHOOSE h : P(h)
<1>11. P(f) BY <1>10, Zenon
<1> HIDE DEF f
<1>12. \A i \in 0 .. N : f[i] = IF i > 0 THEN Step(f[i - 1]) ELSE a BY <1>11, Zenon
<1> HIDE DEF P
<1>13. \A i \in 0 .. N : f[i] \in S[i]
  <2>1. f[0] = a /\ 0 \in 0 .. N BY <1>2, <1>12
  <2>2. f[0] \in S[0] BY <1>4, <1>8, <2>1
  <2>3. ASSUME NEW i \in 1 .. N, f[i - 1] \in S[i - 1] PROVE f[i] \in S[i]
    <3>1. i - 1 \in 0 .. N /\ i \in 0 .. N /\ i > 0 BY <1>2
    <3>2. f[i] = Step(f[i - 1]) BY <1>12, <3>1
    <3>3. f[i - 1] \in State /\ At(i - 1, f[i - 1]) BY <1>8, <2>3, <3>1
    <3>4. QED BY <1>5, <1>8, <3>1, <3>2, <3>3
  <2>4. QED BY <1>2, <2>2, <2>3, LoopKeeps, Zenon
<1> DEFINE w == f[N]
<1>14. w \in State /\ At(N, w)
  <2>1. N \in 0 .. N BY <1>2
  <2>2. QED BY <1>8, <1>13, <2>1
<1>15. Widen(g, p, depth, alpha, beta, first, tt) = w.r BY <1>7 DEF f
<1> HIDE DEF w
<1>16. /\ Widened(size, N, w.low, w.high, w.window, w.r.best) /\ Result(g, p, w.low, w.high, w.r)
  BY <1>14 DEF At
<1>17. w.low < w.r.best /\ w.r.best < w.high BY <1>16 DEF Widened, N
<1>18. w.r.best \in -MATE .. MATE /\ IsReal(g, p, w.r.best)
  BY <1>16, <1>17, InsideIsReal DEF Result
<1>19. w.r \in LoopState(g) BY <1>14 DEF State
<1>20. QED BY <1>15, <1>18, <1>19

\* What search() has found: a real score, a move and a real table.
Found(g, p) == {r \in [score : Int, move : Nat, tt : RealTables(g)] :
                  r.score \in -MATE .. MATE /\ IsReal(g, p, r.score)}

\* The windows of an iteration.
LEMMA AroundIsWindow ==
  /\ Window(-INF, INF)
  /\ \A s \in Int : Magnitude(s) < MATE_BOUND => Window(s - aspiration_window, s + aspiration_window)
PROOF
<1>1. MATE \in Nat /\ MATE_BOUND \in Nat /\ INF \in Nat /\ MATE < INF /\ MATE_BOUND <= MATE
  BY Limits
<1>2. Window(-INF, INF) BY <1>1 DEF Window
<1>3. ASSUME NEW s \in Int, Magnitude(s) < MATE_BOUND
      PROVE  Window(s - aspiration_window, s + aspiration_window)
  <2>1. aspiration_window \in Nat /\ aspiration_window # 0 BY DEF aspiration_window
  <2>2. -MATE_BOUND < s /\ s < MATE_BOUND BY <1>1, <1>3 DEF Magnitude
  <2>3. QED BY <1>1, <2>1, <2>2 DEF Window
<1>4. QED BY <1>2, <1>3

\* One iteration.
LEMMA IterateFinds ==
  ASSUME NEW g, IsGame(g), NEW p \in Playing(g), g.next[p] # <<>>, NEW depth \in Int,
         NEW r \in Found(g, p)
  PROVE  Iterate(g, p, r, depth) \in Found(g, p)
PROOF
<1> DEFINE around == depth > 1 /\ Magnitude(r.score) < MATE_BOUND
           low == IF around THEN r.score - aspiration_window ELSE -INF
           high == IF around THEN r.score + aspiration_window ELSE INF
           best == Widen(g, p, depth, low, high, r.move, r.tt)
           new == [score |-> best.best, move |-> best.move, tt |-> best.tt]
<1>1. Iterate(g, p, r, depth) = IF Magnitude(r.score) > MATE_BOUND THEN r ELSE new
  BY Zenon DEF Iterate, ResultOf
<1>2. r.score \in Int /\ r.move \in Nat /\ r.tt \in RealTables(g) BY DEF Found
<1>3. Window(low, high) BY <1>2, AroundIsWindow
<1> HIDE DEF low, high
<1>4. best \in LoopState(g) /\ best.best \in -MATE .. MATE /\ IsReal(g, p, best.best)
  BY <1>2, <1>3, WidenIsReal
<1> HIDE DEF best
<1>5. best.best \in Int /\ best.move \in Nat /\ best.tt \in RealTables(g) BY <1>4 DEF LoopState
<1>6. new \in [score : Int, move : Nat, tt : RealTables(g)] /\ new.score = best.best BY <1>5
<1> HIDE DEF new
<1>7. new \in Found(g, p) BY <1>4, <1>6 DEF Found
<1>8. QED BY <1>1, <1>7

\* All iterations.
LEMMA SearchFinds ==
  ASSUME NEW g, IsGame(g), NEW p \in Playing(g), NEW max_depth \in Nat, NEW tt \in RealTables(g)
  PROVE  SearchFor(g, p, max_depth, tt) \in Found(g, p)
PROOF
<1> DEFINE N == max_depth
           a == [score |-> 0, move |-> g.next[p][1].to, tt |-> tt]
           State == Found(g, p)
           Step(i, s) == Iterate(g, p, s, i)
           F == [z \in (1 .. N) \X State |-> Step(z[1], z[2])]
           S == [i \in 0 .. N |-> State]
           P(h) == h = [i \in 0 .. N |-> IF i = 0 THEN a ELSE Step(i, h[i - 1])]
           mated == [score |-> IF g.check[p] THEN -MATE ELSE DRAW_SCORE, move |-> NO_MOVE, tt |-> tt]
<1>1. /\ MATE \in Nat /\ MATE_BOUND \in Nat /\ Furthest \in Nat /\ Furthest = MATE - MATE_BOUND
      /\ N \in Nat /\ p \in Positions(g)
  BY Limits DEF Playing
<1>2. MovesOf(g, p, g.next[p]) /\ g.check[p] \in BOOLEAN BY <1>1, GameFacts
<1>3. SearchFor(g, p, max_depth, tt) = IF g.next[p] # <<>> THEN (CHOOSE h : P(h))[N] ELSE mated
  BY Zenon DEF SearchFor
<1>4. CASE g.next[p] = <<>>
  <2>1. Replies(g, p) = {} BY <1>2, <1>4 DEF MovesOf
  <2> DEFINE s == IF g.check[p] THEN -MATE ELSE DRAW_SCORE
  <2>2. s \in -MATE .. MATE /\ s \in Int /\ IsReal(g, p, s)
    <3>1. CASE g.check[p]
      <4>1. s = -MATE BY <3>1
      <4> HIDE DEF s
      <4>2. p \in LostIn(g, 0) BY <2>1, <3>1, MateSteps DEF Mated
      <4>3. MATE + s = 0 /\ ~(s > MATE_BOUND) /\ s \in -MATE .. MATE /\ s \in Int BY <1>1, <4>1
      <4>4. QED BY <4>2, <4>3 DEF IsReal
    <3>2. CASE ~g.check[p]
      <4>1. s = DRAW_SCORE BY <3>2
      <4> HIDE DEF s
      <4>2. s \in -MATE_BOUND .. MATE_BOUND BY <4>1, PointsAreModest
      <4>3. s \in -MATE .. MATE /\ s \in Int /\ ~(s > MATE_BOUND) /\ ~(s < -MATE_BOUND)
        BY <1>1, <4>2
      <4>4. QED BY <4>3 DEF IsReal
    <3>3. QED BY <1>2, <3>1, <3>2
  <2>3. mated = [score |-> s, move |-> NO_MOVE, tt |-> tt] OBVIOUS
  <2> HIDE DEF s, mated
  <2>4. NO_MOVE \in Nat BY DEF NO_MOVE
  <2>5. mated \in [score : Int, move : Nat, tt : RealTables(g)] /\ mated.score = s BY <2>2, <2>3, <2>4
  <2>6. mated \in Found(g, p) BY <2>2, <2>5 DEF Found
  <2>7. QED BY <1>3, <1>4, <2>6
<1>5. CASE g.next[p] # <<>>
  <2>1. a \in State
    <3>1. 1 \in 1 .. Len(g.next[p]) BY <1>2, <1>5 DEF MovesOf
    <3>2. g.next[p][1].to \in Replies(g, p) BY <1>2, <3>1 DEF MovesOf
    <3>3. g.next[p][1].to \in Positions(g) BY <1>1, <3>2, GameFacts
    <3> DEFINE m == g.next[p][1].to
    <3>4. m \in Nat BY <3>3, GameFacts
    <3> HIDE DEF m
    <3>5. a = [score |-> 0, move |-> m, tt |-> tt] BY DEF m
    <3> HIDE DEF a
    <3>6. a \in [score : Int, move : Nat, tt : RealTables(g)] /\ a.score = 0 BY <3>4, <3>5
    <3>7. 0 \in -MATE .. MATE /\ IsReal(g, p, 0) BY <1>1 DEF IsReal
    <3>8. QED BY <3>6, <3>7 DEF Found
  <2>2. ASSUME NEW i \in 1 .. N, NEW s \in State PROVE Step(i, s) \in State
    BY <1>5, IterateFinds
  <2>3. \A i \in 1 .. N : \A s \in State : F[<<i, s>>] = Step(i, s) OBVIOUS
  <2> HIDE DEF a, Step, F, State
  <2>4. \A i \in 0 .. N : S[i] = State OBVIOUS
  <2> HIDE DEF S
  <2>5. Steps(N, S, a, F)
    <3>1. 0 \in 0 .. N BY <1>1
    <3>2. a \in S[0] BY <2>1, <2>4, <3>1
    <3>3. ASSUME NEW i \in 1 .. N, NEW s \in S[i - 1] PROVE F[<<i, s>>] \in S[i]
      <4>1. i - 1 \in 0 .. N /\ i \in 0 .. N BY <1>1
      <4>2. s \in State BY <2>4, <4>1
      <4>3. Step(i, s) \in S[i] BY <2>2, <2>4, <4>1, <4>2
      <4>4. QED BY <2>3, <4>2, <4>3
    <3>4. QED BY <3>2, <3>3 DEF Steps
  <2>6. \E h : P(h)
    <3>1. PICK h : Runs(h, N, S, a, F) BY <1>1, <2>5, LoopRuns, Zenon
    <3>2. /\ h = [i \in 0 .. N |-> h[i]] /\ h[0] = a
          /\ \A i \in 1 .. N : h[i] = F[<<i, h[i - 1]>>]
          /\ \A i \in 0 .. N : h[i] \in S[i]
      BY <3>1, Zenon DEF Runs
    <3>3. ASSUME NEW i \in 1 .. N PROVE h[i] = Step(i, h[i - 1])
      <4>1. i - 1 \in 0 .. N BY <1>1
      <4>2. h[i - 1] \in State BY <2>4, <3>2, <4>1
      <4>3. QED BY <2>3, <3>2, <4>2
    <3>4. ASSUME NEW i \in 0 .. N PROVE h[i] = IF i = 0 THEN a ELSE Step(i, h[i - 1])
      <4>1. i = 0 \/ i \in 1 .. N BY <1>1
      <4>2. QED BY <3>2, <3>3, <4>1
    <3>5. P(h) BY <3>2, <3>4, Zenon
    <3>6. QED BY <3>5
  <2> DEFINE f == CHOOSE h : P(h)
  <2>7. P(f) BY <2>6, Zenon
  <2> HIDE DEF f
  <2>8. \A i \in 0 .. N : f[i] = IF i = 0 THEN a ELSE Step(i, f[i - 1]) BY <2>7, Zenon
  <2> HIDE DEF P
  <2>9. \A i \in 0 .. N : f[i] \in S[i]
    <3>1. f[0] = a /\ 0 \in 0 .. N BY <1>1, <2>8
    <3>2. f[0] \in S[0] BY <2>1, <2>4, <3>1
    <3>3. ASSUME NEW i \in 1 .. N, f[i - 1] \in S[i - 1] PROVE f[i] \in S[i]
      <4>1. i - 1 \in 0 .. N /\ i \in 0 .. N /\ i # 0 BY <1>1
      <4>2. f[i] = Step(i, f[i - 1]) BY <2>8, <4>1
      <4>3. f[i - 1] \in State BY <2>4, <3>3, <4>1
      <4>4. QED BY <2>2, <2>4, <4>1, <4>2, <4>3
    <3>4. QED BY <1>1, <3>2, <3>3, LoopKeeps, Zenon
  <2>10. f[N] \in State
    <3>1. N \in 0 .. N BY <1>1
    <3>2. QED BY <2>4, <2>9, <3>1
  <2>11. SearchFor(g, p, max_depth, tt) = f[N] BY <1>3, <1>5 DEF f
  <2>12. QED BY <2>10, <2>11 DEF State
<1>6. QED BY <1>4, <1>5

\* An empty table is real.
LEMMA NoEntriesAreReal == ASSUME NEW g PROVE NoEntries(g) \in RealTables(g)
PROOF
<1> DEFINE e == [depth |-> -1, flag |-> "none", score |-> 0, move |-> NO_MOVE]
<1>1. NoEntries(g) = [p \in Positions(g) |-> e] BY DEF NoEntries
<1>2. NO_MOVE \in Nat BY DEF NO_MOVE
<1>3. e \in Entry /\ e.flag = "none" BY <1>2 DEF Entry
<1> HIDE DEF e
<1>4. \A p \in Positions(g) : EntryIsReal(g, p, e) BY <1>3 DEF EntryIsReal
<1>5. QED BY <1>1, <1>3, <1>4 DEF RealTables, Tables

-----------------------------------------------------------------------------
(* analyze(): every move of the root with a search of its own.               *)

\* The search of a move in windows that are made wider: its score is real.
LEMMA WidenMoveIsReal ==
  ASSUME NEW g, IsGame(g), NEW p \in Positions(g), NEW q \in Positions(g), NEW depth \in Int,
         NEW alpha, NEW beta, Window(alpha, beta), NEW tt \in RealTables(g)
  PROVE  LET r == WidenMove(g, p, q, depth, alpha, beta, tt)
         IN  /\ r.tt \in RealTables(g) /\ -r.score \in -MATE .. MATE
             /\ -r.score > MATE_BOUND  => q \in LostIn(g, MATE - (-r.score) - 1)
             /\ -r.score < -MATE_BOUND => q \in WonIn(g, MATE + (-r.score) - 1)
PROOF
<1>0. PICK size : Sizes(size) BY WindowSizes, Zenon DEF Sizes
<1> DEFINE N == Widenings
           Replied == {Reply(g, p, q, depth - 1, l, h, t) : l \in Int, h \in Int, t \in RealTables(g)}
           State == [low : Int, high : Int, window : Nat, r : Replied]
           At(i, w) == /\ Widened(size, i, w.low, w.high, w.window, -w.r.score)
                       /\ Answer(g, q, 1, -w.high, -w.low, w.r)
           a == [low |-> alpha, high |-> beta, window |-> aspiration_window,
                 r |-> Reply(g, p, q, depth - 1, -beta, -alpha, tt)]
           Step(w) == WiderMove(g, p, q, depth, w)
           F == [z \in (1 .. N) \X State |-> Step(z[2])]
           S == [i \in 0 .. N |-> {w \in State : At(i, w)}]
           P(h) == h = [i \in 0 .. N |-> IF i > 0 THEN Step(h[i - 1]) ELSE a]
<1>1. /\ MATE \in Nat /\ INF \in Nat /\ MATE < INF
      /\ alpha \in Int /\ beta \in Int /\ depth - 1 \in Int
  BY Limits DEF Window
<1>2. N \in Nat /\ N # 0 /\ aspiration_window \in Nat BY DEF Widenings, aspiration_window
<1>3. ASSUME NEW l, NEW h, Window(l, h), NEW t \in RealTables(g)
      PROVE  LET r == Reply(g, p, q, depth - 1, -h, -l, t)
             IN  r \in Replied /\ -r.score \in -MATE .. MATE /\ Answer(g, q, 1, -h, -l, r)
  <2> DEFINE r == Reply(g, p, q, depth - 1, -h, -l, t)
  <2>1. l \in Int /\ h \in Int /\ -l \in Int /\ -h \in Int /\ Window(-h, -l) BY <1>1, <1>3 DEF Window
  <2>2. r \in Replied BY <2>1
  <2>3. Answer(g, q, 1, -h, -l, r) BY <1>1, <2>1, ReplyIsSound
  <2> HIDE DEF r, Replied
  <2>4. r.score \in -MATE .. MATE BY <2>3 DEF Answer, Sound
  <2>5. -r.score \in -MATE .. MATE BY <1>1, <2>4
  <2>6. QED BY <2>2, <2>3, <2>5 DEF r
<1> HIDE DEF Replied
<1>4. a \in State /\ At(0, a)
  <2> DEFINE r == Reply(g, p, q, depth - 1, -beta, -alpha, tt)
  <2>1. r \in Replied /\ -r.score \in -MATE .. MATE /\ Answer(g, q, 1, -beta, -alpha, r) BY <1>3
  <2>2. a = [low |-> alpha, high |-> beta, window |-> aspiration_window, r |-> r] OBVIOUS
  <2> HIDE DEF r, a
  <2>3. a \in State BY <1>1, <1>2, <2>1, <2>2
  <2>4. a.low = alpha /\ a.high = beta /\ a.window = aspiration_window /\ a.r = r BY <2>2
  <2>5. Widened(size, 0, alpha, beta, aspiration_window, -r.score) BY <1>0, <1>2 DEF Widened, Sizes
  <2>6. QED BY <2>1, <2>3, <2>4, <2>5
<1>5. ASSUME NEW i \in 1 .. N, NEW w \in State, At(i - 1, w)
      PROVE  Step(w) \in State /\ At(i, Step(w))
  <2> DEFINE s == -w.r.score
             fails == s <= w.low /\ w.low > -INF
             l == IF fails THEN Larger(-INF, w.low - 4 * w.window) ELSE w.low
             h == IF fails THEN w.high ELSE Smaller(INF, w.high + 4 * w.window)
             r == Reply(g, p, q, depth - 1, -h, -l, w.r.tt)
  <2>1. Widened(size, i - 1, w.low, w.high, w.window, s) /\ Answer(g, q, 1, -w.high, -w.low, w.r)
    BY <1>5
  <2>2. w.r.tt \in RealTables(g) /\ w.r.score \in -MATE .. MATE BY <2>1 DEF Answer, Sound
  <2>3. s \in -MATE .. MATE /\ s \in Int /\ -MATE <= s /\ s <= MATE BY <1>1, <2>2
  <2>4. w.low \in Int /\ w.high \in Int /\ w.low < w.high BY <2>1 DEF Widened, Window
  <2>5. Step(w) = IF ~fails /\ ~(s >= w.high /\ w.high < INF) THEN w
                  ELSE [low |-> l, high |-> h, window |-> 4 * w.window, r |-> r]
    BY Zenon DEF WiderMove
  <2> HIDE DEF Step, s, fails
  <2>6. fails <=> s <= w.low BY <1>1, <2>3, <2>4 DEF fails
  <2>7. (~fails /\ ~(s >= w.high /\ w.high < INF)) <=> (w.low < s /\ s < w.high)
    BY <1>1, <2>3, <2>4, <2>6
  <2>8. CASE w.low < s /\ s < w.high
    <3>1. Step(w) = w BY <2>5, <2>7, <2>8
    <3>2. Widened(size, i, w.low, w.high, w.window, s) BY <2>1, <2>8 DEF Widened
    <3>3. QED BY <2>1, <3>1, <3>2 DEF s
  <2>9. CASE ~(w.low < s /\ s < w.high)
    <3>1. Step(w) = [low |-> l, high |-> h, window |-> 4 * w.window, r |-> r] BY <2>5, <2>7, <2>9
    <3>2. /\ l = IF s <= w.low THEN Larger(-INF, w.low - 4 * w.window) ELSE w.low
          /\ h = IF s <= w.low THEN w.high ELSE Smaller(INF, w.high + 4 * w.window)
      BY <2>6
    <3> HIDE DEF l, h
    <3>3. /\ Window(l, h) /\ 4 * w.window \in Nat
          /\ \A v \in -MATE .. MATE : Widened(size, i, l, h, 4 * w.window, v)
      BY <1>0, <2>1, <2>3, <2>9, <3>2, WidensOnce
    <3>4. r \in Replied /\ -r.score \in -MATE .. MATE /\ Answer(g, q, 1, -h, -l, r)
      BY <1>3, <2>2, <3>3
    <3> HIDE DEF r
    <3>5. l \in Int /\ h \in Int BY <3>3 DEF Window
    <3> DEFINE v == Step(w)
    <3> HIDE DEF v
    <3>6. v = [low |-> l, high |-> h, window |-> 4 * w.window, r |-> r] BY <3>1 DEF v
    <3>7. v \in State BY <3>3, <3>4, <3>5, <3>6
    <3>8. v.low = l /\ v.high = h /\ v.window = 4 * w.window /\ v.r = r BY <3>6
    <3>9. At(i, v) BY <3>3, <3>4, <3>8
    <3>10. QED BY <3>7, <3>9 DEF v
  <2>10. QED BY <2>8, <2>9
<1>6. \A i \in 1 .. N : \A w \in State : F[<<i, w>>] = Step(w) OBVIOUS
<1>7. WidenMove(g, p, q, depth, alpha, beta, tt) = (CHOOSE h : P(h))[N].r BY Zenon DEF WidenMove
<1> HIDE DEF a, Step, F, At, N, State
<1>8. \A i \in 0 .. N : S[i] = {w \in State : At(i, w)} OBVIOUS
<1> HIDE DEF S
<1>9. Steps(N, S, a, F)
  <2>1. 0 \in 0 .. N BY <1>2
  <2>2. a \in S[0] BY <1>4, <1>8, <2>1
  <2>3. ASSUME NEW i \in 1 .. N, NEW s \in S[i - 1] PROVE F[<<i, s>>] \in S[i]
    <3>1. i - 1 \in 0 .. N /\ i \in 0 .. N BY <1>2
    <3>2. s \in State /\ At(i - 1, s) BY <1>8, <3>1
    <3>3. Step(s) \in S[i] BY <1>5, <1>8, <3>1, <3>2
    <3>4. QED BY <1>6, <3>2, <3>3
  <2>4. QED BY <2>2, <2>3 DEF Steps
<1>10. \E h : P(h)
  <2>1. PICK h : Runs(h, N, S, a, F) BY <1>2, <1>9, LoopRuns, Zenon
  <2>2. /\ h = [i \in 0 .. N |-> h[i]] /\ h[0] = a
        /\ \A i \in 1 .. N : h[i] = F[<<i, h[i - 1]>>]
        /\ \A i \in 0 .. N : h[i] \in S[i]
    BY <2>1, Zenon DEF Runs
  <2>3. ASSUME NEW i \in 1 .. N PROVE h[i] = Step(h[i - 1])
    <3>1. i - 1 \in 0 .. N BY <1>2
    <3>2. h[i - 1] \in State BY <1>8, <2>2, <3>1
    <3>3. QED BY <1>6, <2>2, <3>2
  <2>4. ASSUME NEW i \in 0 .. N PROVE h[i] = IF i > 0 THEN Step(h[i - 1]) ELSE a
    <3>1. i = 0 \/ i \in 1 .. N BY <1>2
    <3>2. i \in 1 .. N => i > 0 /\ h[i] = Step(h[i - 1]) BY <1>2, <2>3
    <3>3. QED BY <2>2, <3>1, <3>2
  <2>5. P(h) BY <2>2, <2>4, Zenon
  <2>6. QED BY <2>5
<1> DEFINE f == CHOOSE h : P(h)
<1>11. P(f) BY <1>10, Zenon
<1> HIDE DEF f
<1>12. \A i \in 0 .. N : f[i] = IF i > 0 THEN Step(f[i - 1]) ELSE a BY <1>11, Zenon
<1> HIDE DEF P
<1>13. \A i \in 0 .. N : f[i] \in S[i]
  <2>1. f[0] = a /\ 0 \in 0 .. N BY <1>2, <1>12
  <2>2. f[0] \in S[0] BY <1>4, <1>8, <2>1
  <2>3. ASSUME NEW i \in 1 .. N, f[i - 1] \in S[i - 1] PROVE f[i] \in S[i]
    <3>1. i - 1 \in 0 .. N /\ i \in 0 .. N /\ i > 0 BY <1>2
    <3>2. f[i] = Step(f[i - 1]) BY <1>12, <3>1
    <3>3. f[i - 1] \in State /\ At(i - 1, f[i - 1]) BY <1>8, <2>3, <3>1
    <3>4. QED BY <1>5, <1>8, <3>1, <3>2, <3>3
  <2>4. QED BY <1>2, <2>2, <2>3, LoopKeeps, Zenon
<1> DEFINE w == f[N]
<1>14. w \in State /\ At(N, w)
  <2>1. N \in 0 .. N BY <1>2
  <2>2. QED BY <1>8, <1>13, <2>1
<1>15. WidenMove(g, p, q, depth, alpha, beta, tt) = w.r BY <1>7 DEF f
<1> HIDE DEF w
<1> DEFINE r == w.r
<1>16. /\ Widened(size, N, w.low, w.high, w.window, -r.score) /\ Answer(g, q, 1, -w.high, -w.low, r)
  BY <1>14 DEF At
<1>17. /\ r.tt \in RealTables(g) /\ r.score \in -MATE .. MATE
       /\ r.score > -w.high /\ r.score > MATE_BOUND => q \in WonIn(g, MATE - r.score - 1)
       /\ r.score < -w.low /\ r.score < -MATE_BOUND => q \in LostIn(g, MATE + r.score - 1)
  BY <1>16 DEF Answer, Sound
<1>18. w.low \in Int /\ w.high \in Int /\ w.low < -r.score /\ -r.score < w.high
  BY <1>16 DEF Widened, Window, N
<1>19. MATE_BOUND \in Nat BY Limits
<1> HIDE DEF r
<1>20. /\ r.score > -w.high /\ r.score < -w.low /\ -r.score \in -MATE .. MATE
       /\ MATE + r.score - 1 = MATE - (-r.score) - 1 /\ MATE - r.score - 1 = MATE + (-r.score) - 1
       /\ -r.score > MATE_BOUND => r.score < -MATE_BOUND
       /\ -r.score < -MATE_BOUND => r.score > MATE_BOUND
  BY <1>1, <1>17, <1>18, <1>19
<1>21. /\ -r.score > MATE_BOUND => q \in LostIn(g, MATE - (-r.score) - 1)
       /\ -r.score < -MATE_BOUND => q \in WonIn(g, MATE + (-r.score) - 1)
  BY <1>17, <1>20
<1>22. QED BY <1>15, <1>17, <1>20, <1>21 DEF r

\* An analysis so far: the scores of the moves, what it has shown, and the table.
RealMoves(g) == {x \in [move : Positions(g), score : Int] : MoveIsReal(g, x)}
Analysed(g, p) == [score : [Replies(g, p) -> Int], shown : SUBSET RealMoves(g), tt : RealTables(g)]

\* One move.
LEMMA MoveIsAnalysed ==
  ASSUME NEW g, IsGame(g), NEW p \in Positions(g), NEW depth \in Int,
         NEW st \in Analysed(g, p), NEW q \in Replies(g, p)
  PROVE  AnalyseMove(g, p, depth, st, q) \in Analysed(g, p)
PROOF
<1> DEFINE prev == st.score[q]
           around == prev # NOT_SCORED /\ depth > 2 /\ Magnitude(prev) < MATE_BOUND
           low == IF around THEN prev - aspiration_window ELSE -INF
           high == IF around THEN prev + aspiration_window ELSE INF
           r == WidenMove(g, p, q, depth, low, high, st.tt)
           s == -r.score
           x == [move |-> q, score |-> s]
           scores == [st.score EXCEPT ![q] = s]
           seen == st.shown \union {x}
           new == AnalyseMove(g, p, depth, st, q)
<1>1. new = [score |-> scores, shown |-> seen, tt |-> r.tt]
  BY Zenon DEF AnalyseMove, Noted
<1>2. /\ st.score \in [Replies(g, p) -> Int] /\ st.shown \subseteq RealMoves(g)
      /\ st.tt \in RealTables(g) /\ q \in Positions(g) /\ MATE \in Nat
  BY GameFacts, Limits DEF Analysed
<1>3. Window(low, high) BY <1>2, AroundIsWindow
<1> HIDE DEF low, high
<1>4. /\ r.tt \in RealTables(g) /\ s \in -MATE .. MATE
      /\ s > MATE_BOUND  => q \in LostIn(g, MATE - s - 1)
      /\ s < -MATE_BOUND => q \in WonIn(g, MATE + s - 1)
  BY <1>2, <1>3, WidenMoveIsReal
<1> HIDE DEF r, s
<1>5. s \in Int BY <1>2, <1>4
<1>6. x.move = q /\ x.score = s /\ x \in [move : Positions(g), score : Int] BY <1>2, <1>5
<1> HIDE DEF x
<1>7. x \in RealMoves(g) BY <1>4, <1>6 DEF RealMoves, MoveIsReal
<1>8. scores \in [Replies(g, p) -> Int] /\ seen \subseteq RealMoves(g) BY <1>2, <1>5, <1>7
<1> HIDE DEF scores, seen, new
<1>9. new \in Analysed(g, p) BY <1>1, <1>4, <1>8 DEF Analysed
<1>10. QED BY <1>9 DEF new

\* A position has finitely many moves.
LEMMA RepliesAreFinite ==
  ASSUME NEW g, IsGame(g), NEW p \in Positions(g)
  PROVE  IsFiniteSet(Replies(g, p)) /\ Cardinality(Replies(g, p)) \in Nat /\ Replies(g, p) \subseteq Nat
PROOF
<1> DEFINE moves == g.next[p]
           K == {k \in Nat : k <= Len(moves) => IsFiniteSet(Reached(moves, k))}
<1>1. MovesOf(g, p, moves) /\ Replies(g, p) \subseteq Positions(g) BY GameFacts
<1> HIDE DEF moves
<1>2. /\ Len(moves) \in Nat /\ Reached(moves, 0) = {} /\ Reached(moves, Len(moves)) = Replies(g, p)
      /\ \A i \in 1 .. Len(moves) : Reached(moves, i) = Reached(moves, i - 1) \union {moves[i].to}
  BY <1>1 DEF MovesOf
<1>3. 0 \in K BY <1>2, FS_EmptySet
<1>4. ASSUME NEW k \in Nat, k \in K PROVE k + 1 \in K
  <2> SUFFICES ASSUME k + 1 <= Len(moves) PROVE IsFiniteSet(Reached(moves, k + 1)) OBVIOUS
  <2>1. k + 1 \in 1 .. Len(moves) /\ (k + 1) - 1 = k /\ k <= Len(moves) BY <1>2
  <2>2. IsFiniteSet(Reached(moves, k)) BY <1>4, <2>1
  <2>3. Reached(moves, k + 1) = Reached(moves, k) \union {moves[k + 1].to} BY <1>2, <2>1
  <2>4. QED BY <2>2, <2>3, FS_AddElement
<1> HIDE DEF K
<1>5. \A k \in Nat : k \in K BY <1>3, <1>4, NumbersByInduction
<1>6. IsFiniteSet(Replies(g, p)) BY <1>2, <1>5 DEF K
<1>7. \A q \in Replies(g, p) : q \in Nat BY <1>1, GameFacts
<1>8. QED BY <1>6, <1>7, FS_CardinalityType

\* Some move that is left is foremost.
LEMMA ForemostIsLeft ==
  ASSUME NEW R, R \subseteq Nat, NEW score \in [R -> Int], IsFiniteSet(R),
         NEW left \in SUBSET R, left # {}
  PROVE  Foremost(score, left) \in left
PROOF
<1> DEFINE Before(q, r) == score[q] > score[r] \/ (score[q] = score[r] /\ q <= r)
           T == {s \in SUBSET R : s # {} => \E q \in s : \A r \in s : Before(q, r)}
<1>1. {} \in T OBVIOUS
<1>2. \A q, r \in R : Before(q, r) \/ Before(r, q) OBVIOUS
<1>3. \A q, r, t \in R : Before(q, r) /\ Before(r, t) => Before(q, t) OBVIOUS
<1>4. ASSUME NEW s \in SUBSET R, NEW x \in R \ s, s \in T PROVE s \union {x} \in T
  <2>1. s \union {x} \subseteq R /\ Before(x, x) BY <1>2
  <2>2. CASE s = {}
    <3>1. \A r \in s \union {x} : r = x BY <2>2
    <3>2. \A r \in s \union {x} : Before(x, r) BY <2>1, <3>1
    <3>3. QED BY <2>1, <3>2
  <2>3. CASE s # {}
    <3>1. PICK q \in s : \A r \in s : Before(q, r) BY <1>4, <2>3
    <3> HIDE DEF Before
    <3>2. CASE Before(q, x)
      <4>1. \A r \in s \union {x} : Before(q, r) BY <3>1, <3>2
      <4>2. QED BY <2>1, <4>1
    <3>3. CASE Before(x, q)
      <4>1. \A r \in s : Before(x, r) BY <1>3, <3>1, <3>3
      <4>2. \A r \in s \union {x} : Before(x, r) BY <2>1, <4>1
      <4>3. QED BY <2>1, <4>2
    <3>4. QED BY <1>2, <3>2, <3>3
  <2>4. QED BY <2>2, <2>3
<1>5. left \in T
  <2> HIDE DEF T
  <2>1. \A s \in SUBSET R : s \in T BY <1>1, <1>4, SubsetsByInduction
  <2>2. QED BY <2>1
<1>6. \E q \in left : \A r \in left : Before(q, r) BY <1>5
<1>7. Foremost(score, left) = CHOOSE q \in left : \A r \in left : Before(q, r) BY Zenon DEF Foremost
<1> HIDE DEF Before
<1>8. QED BY <1>6, <1>7

\* One depth.
LEMMA DepthIsAnalysed ==
  ASSUME NEW g, IsGame(g), NEW p \in Positions(g), NEW depth \in Int, NEW st \in Analysed(g, p)
  PROVE  AnalyseDepth(g, p, depth, st) \in Analysed(g, p)
PROOF
<1> DEFINE R == Replies(g, p)
           N == Cardinality(R)
           State == [st : Analysed(g, p), left : SUBSET R]
           At(i, w) == Cardinality(w.left) = N - i
           a == [st |-> st, left |-> R]
           Step(w) == LET q == Foremost(st.score, w.left)
                      IN  [st |-> AnalyseMove(g, p, depth, w.st, q), left |-> w.left \ {q}]
           F == [z \in (1 .. N) \X State |-> Step(z[2])]
           S == [i \in 0 .. N |-> {w \in State : At(i, w)}]
           P(h) == h = [i \in 0 .. N |-> IF i = 0 THEN a ELSE Step(h[i - 1])]
           decided == \A q \in R : st.score[q] # NOT_SCORED /\ Decisive(st.score[q])
<1>1. IsFiniteSet(R) /\ N \in Nat /\ R \subseteq Nat BY RepliesAreFinite
<1>2. a \in State /\ At(0, a) BY <1>1
<1>3. ASSUME NEW i \in 1 .. N, NEW w \in State, At(i - 1, w)
      PROVE  Step(w) \in State /\ At(i, Step(w))
  <2> DEFINE q == Foremost(st.score, w.left)
             v == [st |-> AnalyseMove(g, p, depth, w.st, q), left |-> w.left \ {q}]
  <2>1. w.left \subseteq R /\ w.st \in Analysed(g, p) /\ st.score \in [R -> Int]
    <3>1. w.left \subseteq R /\ w.st \in Analysed(g, p) OBVIOUS
    <3>2. QED BY <3>1 DEF Analysed
  <2>2. IsFiniteSet(w.left) /\ Cardinality(w.left) = N - (i - 1) BY <1>1, <1>3, <2>1, FS_Subset
  <2>3. w.left # {}
    <3>1. N - (i - 1) # 0 BY <1>1
    <3>2. QED BY <2>2, <3>1, FS_EmptySet
  <2>4. Step(w) = v OBVIOUS
  <2> HIDE DEF Step
  <2>5. q \in w.left /\ q \in R
    <3> HIDE DEF R
    <3>1. Foremost(st.score, w.left) \in w.left BY <1>1, <2>1, <2>3, ForemostIsLeft, Zenon
    <3>2. QED BY <2>1, <3>1
  <2> HIDE DEF q
  <2>6. AnalyseMove(g, p, depth, w.st, q) \in Analysed(g, p) BY <2>1, <2>5, MoveIsAnalysed
  <2>7. v \in State /\ v.left = w.left \ {q} BY <2>1, <2>6
  <2>8. Cardinality(w.left \ {q}) = N - i
    <3>1. Cardinality(w.left \ {q}) = Cardinality(w.left) - 1 BY <2>2, <2>5, FS_RemoveElement
    <3>2. QED BY <1>1, <2>2, <3>1
  <2> HIDE DEF v, State, N
  <2>9. QED BY <2>4, <2>7, <2>8
<1>4. \A i \in 1 .. N : \A w \in State : F[<<i, w>>] = Step(w) OBVIOUS
<1>5. AnalyseDepth(g, p, depth, st) = IF decided THEN st ELSE (CHOOSE h : P(h))[N].st
  BY Zenon DEF AnalyseDepth
<1> HIDE DEF a, Step, F, At, N, decided
<1>6. \A w \in State : w.st \in Analysed(g, p) OBVIOUS
<1> HIDE DEF State
<1>7. \A i \in 0 .. N : S[i] = {w \in State : At(i, w)} OBVIOUS
<1> HIDE DEF S
<1>8. Steps(N, S, a, F)
  <2>1. 0 \in 0 .. N BY <1>1
  <2>2. a \in S[0] BY <1>2, <1>7, <2>1
  <2>3. ASSUME NEW i \in 1 .. N, NEW s \in S[i - 1] PROVE F[<<i, s>>] \in S[i]
    <3>1. i - 1 \in 0 .. N /\ i \in 0 .. N BY <1>1
    <3>2. s \in State /\ At(i - 1, s) BY <1>7, <3>1
    <3>3. Step(s) \in S[i] BY <1>3, <1>7, <3>1, <3>2
    <3>4. QED BY <1>4, <3>2, <3>3
  <2>4. QED BY <2>2, <2>3 DEF Steps
<1>9. \E h : P(h)
  <2>1. PICK h : Runs(h, N, S, a, F) BY <1>1, <1>8, LoopRuns, Zenon
  <2>2. /\ h = [i \in 0 .. N |-> h[i]] /\ h[0] = a
        /\ \A i \in 1 .. N : h[i] = F[<<i, h[i - 1]>>]
        /\ \A i \in 0 .. N : h[i] \in S[i]
    BY <2>1, Zenon DEF Runs
  <2>3. ASSUME NEW i \in 1 .. N PROVE h[i] = Step(h[i - 1])
    <3>1. i - 1 \in 0 .. N BY <1>1
    <3>2. h[i - 1] \in State BY <1>7, <2>2, <3>1
    <3>3. QED BY <1>4, <2>2, <3>2
  <2>4. ASSUME NEW i \in 0 .. N PROVE h[i] = IF i = 0 THEN a ELSE Step(h[i - 1])
    <3>1. i = 0 \/ i \in 1 .. N BY <1>1
    <3>2. QED BY <2>2, <2>3, <3>1
  <2>5. P(h) BY <2>2, <2>4, Zenon
  <2>6. QED BY <2>5
<1> DEFINE f == CHOOSE h : P(h)
<1>10. P(f) BY <1>9, Zenon
<1> HIDE DEF f
<1>11. \A i \in 0 .. N : f[i] = IF i = 0 THEN a ELSE Step(f[i - 1]) BY <1>10, Zenon
<1> HIDE DEF P
<1>12. \A i \in 0 .. N : f[i] \in S[i]
  <2>1. f[0] = a /\ 0 \in 0 .. N BY <1>1, <1>11
  <2>2. f[0] \in S[0] BY <1>2, <1>7, <2>1
  <2>3. ASSUME NEW i \in 1 .. N, f[i - 1] \in S[i - 1] PROVE f[i] \in S[i]
    <3>1. i - 1 \in 0 .. N /\ i \in 0 .. N /\ i # 0 BY <1>1
    <3>2. f[i] = Step(f[i - 1]) BY <1>11, <3>1
    <3>3. f[i - 1] \in State /\ At(i - 1, f[i - 1]) BY <1>7, <2>3, <3>1
    <3>4. QED BY <1>3, <1>7, <3>1, <3>2, <3>3
  <2>4. QED BY <1>1, <2>2, <2>3, LoopKeeps, Zenon
<1>13. f[N] \in State
  <2>1. N \in 0 .. N BY <1>1
  <2>2. QED BY <1>7, <1>12, <2>1
<1>14. AnalyseDepth(g, p, depth, st) = IF decided THEN st ELSE f[N].st BY <1>5 DEF f
<1>15. QED BY <1>6, <1>13, <1>14

\* All depths.
LEMMA AnalysisIsAnalysed ==
  ASSUME NEW g, IsGame(g), NEW p \in Positions(g), NEW max_depth \in Nat, NEW tt \in RealTables(g)
  PROVE  Analyse(g, p, max_depth, tt) \in Analysed(g, p)
PROOF
<1> DEFINE N == max_depth
           State == Analysed(g, p)
           a == [score |-> [q \in Replies(g, p) |-> NOT_SCORED], shown |-> {}, tt |-> tt]
           Step(i, s) == AnalyseDepth(g, p, i, s)
           F == [z \in (1 .. N) \X State |-> Step(z[1], z[2])]
           S == [i \in 0 .. N |-> State]
           P(h) == h = [i \in 0 .. N |-> IF i > 0 THEN Step(i, h[i - 1]) ELSE a]
<1>1. N \in Nat OBVIOUS
<1>2. a \in State
  <2>1. NOT_SCORED \in Int BY Limits DEF NOT_SCORED
  <2> DEFINE e == [q \in Replies(g, p) |-> NOT_SCORED]
  <2>2. e \in [Replies(g, p) -> Int] BY <2>1
  <2>3. a = [score |-> e, shown |-> {}, tt |-> tt] OBVIOUS
  <2> HIDE DEF e, a
  <2>4. QED BY <2>2, <2>3 DEF Analysed
<1>3. ASSUME NEW i \in 1 .. N, NEW s \in State PROVE Step(i, s) \in State BY DepthIsAnalysed
<1>4. \A i \in 1 .. N : \A s \in State : F[<<i, s>>] = Step(i, s) OBVIOUS
<1>5. Analyse(g, p, max_depth, tt) =
        IF g.ended[p] THEN (CHOOSE h : P(h))[0] ELSE (CHOOSE h : P(h))[N]
  BY Zenon DEF Analyse
<1> HIDE DEF a, Step, F, State
<1>6. \A i \in 0 .. N : S[i] = State OBVIOUS
<1> HIDE DEF S
<1>7. Steps(N, S, a, F)
  <2>1. 0 \in 0 .. N BY <1>1
  <2>2. a \in S[0] BY <1>2, <1>6, <2>1
  <2>3. ASSUME NEW i \in 1 .. N, NEW s \in S[i - 1] PROVE F[<<i, s>>] \in S[i]
    <3>1. i - 1 \in 0 .. N /\ i \in 0 .. N BY <1>1
    <3>2. s \in State BY <1>6, <3>1
    <3>3. Step(i, s) \in S[i] BY <1>3, <1>6, <3>1, <3>2
    <3>4. QED BY <1>4, <3>2, <3>3
  <2>4. QED BY <2>2, <2>3 DEF Steps
<1>8. \E h : P(h)
  <2>1. PICK h : Runs(h, N, S, a, F) BY <1>1, <1>7, LoopRuns, Zenon
  <2>2. /\ h = [i \in 0 .. N |-> h[i]] /\ h[0] = a
        /\ \A i \in 1 .. N : h[i] = F[<<i, h[i - 1]>>]
        /\ \A i \in 0 .. N : h[i] \in S[i]
    BY <2>1, Zenon DEF Runs
  <2>3. ASSUME NEW i \in 1 .. N PROVE h[i] = Step(i, h[i - 1])
    <3>1. i - 1 \in 0 .. N BY <1>1
    <3>2. h[i - 1] \in State BY <1>6, <2>2, <3>1
    <3>3. QED BY <1>4, <2>2, <3>2
  <2>4. ASSUME NEW i \in 0 .. N PROVE h[i] = IF i > 0 THEN Step(i, h[i - 1]) ELSE a
    <3>1. i = 0 \/ i \in 1 .. N BY <1>1
    <3>2. i \in 1 .. N => i > 0 /\ h[i] = Step(i, h[i - 1]) BY <1>1, <2>3
    <3>3. QED BY <2>2, <3>1, <3>2
  <2>5. P(h) BY <2>2, <2>4, Zenon
  <2>6. QED BY <2>5
<1> DEFINE f == CHOOSE h : P(h)
<1>9. P(f) BY <1>8, Zenon
<1> HIDE DEF f
<1>10. \A i \in 0 .. N : f[i] = IF i > 0 THEN Step(i, f[i - 1]) ELSE a BY <1>9, Zenon
<1> HIDE DEF P
<1>11. \A i \in 0 .. N : f[i] \in S[i]
  <2>1. f[0] = a /\ 0 \in 0 .. N BY <1>1, <1>10
  <2>2. f[0] \in S[0] BY <1>2, <1>6, <2>1
  <2>3. ASSUME NEW i \in 1 .. N, f[i - 1] \in S[i - 1] PROVE f[i] \in S[i]
    <3>1. i - 1 \in 0 .. N /\ i \in 0 .. N /\ i > 0 BY <1>1
    <3>2. f[i] = Step(i, f[i - 1]) BY <1>10, <3>1
    <3>3. f[i - 1] \in State BY <1>6, <2>3, <3>1
    <3>4. QED BY <1>3, <1>6, <3>1, <3>2, <3>3
  <2>4. QED BY <1>1, <2>2, <2>3, LoopKeeps, Zenon
<1>12. f[0] \in State /\ f[N] \in State
  <2>1. N \in 0 .. N /\ 0 \in 0 .. N BY <1>1
  <2>2. QED BY <1>6, <1>11, <2>1
<1>13. Analyse(g, p, max_depth, tt) = IF g.ended[p] THEN f[0] ELSE f[N] BY <1>5 DEF f
<1>14. QED BY <1>12, <1>13 DEF State

-----------------------------------------------------------------------------
(* The life of a Searcher *)

\* Its table is real whatever came before, under the rules at hand; a session shows
\* nothing that search() found, under rules that may be others by now.
SearchInv ==
  /\ IsGame(game) /\ table \in RealTables(game) /\ MatesAreReal
  /\ user = "session" => found = {}

\* A game under other rules is a game, with the same positions and requests.
LEMMA UnderRules ==
  ASSUME NEW g, IsGame(g), NEW r \in g.rules
  PROVE  IsGame(Under(g, r)) /\ Positions(Under(g, r)) = Positions(g)
PROOF
<1> DEFINE u == Under(g, r)
           Fields == {"next", "pass", "check", "value", "ended", "points", "rules", "asked"}
<1>1. DOMAIN g = Fields /\ r \in Rules(g) BY DEF IsGame
<1>2. u = [g EXCEPT !.ended = r.ended, !.points = r.points] BY DEF Under
<1>3. /\ DOMAIN u = Fields /\ u.next = g.next /\ u.pass = g.pass /\ u.check = g.check
      /\ u.value = g.value /\ u.rules = g.rules /\ u.asked = g.asked
      /\ u.ended = r.ended /\ u.points = r.points
  BY <1>1, <1>2
<1> HIDE DEF u
<1>4. Positions(u) = Positions(g) BY <1>3 DEF Positions
<1>5. Rules(u) = Rules(g) BY <1>4 DEF Rules
<1>6. [ended |-> u.ended, points |-> u.points] \in Rules(u) BY <1>1, <1>3, <1>5 DEF Rules
<1>7. IsGame(u) BY <1>3, <1>4, <1>5, <1>6 DEF IsGame
<1>8. QED BY <1>4, <1>7 DEF u

\* It starts with an empty table and nothing shown.
LEMMA SearchInitInv == SearchInit => SearchInv
PROOF
<1> SUFFICES ASSUME SearchInit PROVE SearchInv OBVIOUS
<1>1. IsGame(game)
  <2>1. PICK g \in Games : \E r \in g.rules : game = Under(g, r) BY DEF SearchInit
  <2>2. PICK r \in g.rules : game = Under(g, r) BY <2>1
  <2>3. QED BY <2>2, UnderRules, GamesAssumption
<1>2. table \in RealTables(game) BY NoEntriesAreReal DEF SearchInit
<1>3. found = {} /\ shown = {} BY DEF SearchInit
<1>4. QED BY <1>1, <1>2, <1>3 DEF SearchInv, MatesAreReal

\* A move of a game that is played goes on with the table of the searches before.
LEMMA PlayKeeps ==
  ASSUME SearchInv, NEW begun \in Nat, NEW finished \in Nat, PlayMove(begun, finished)
  PROVE  SearchInv'
PROOF
<1>1. IsGame(game) /\ table \in RealTables(game) /\ MatesAreReal BY DEF SearchInv
<1>2. /\ root \in Playing(game) /\ user = "play"
      /\ game' = game /\ shown' = shown /\ user' = user
  BY DEF PlayMove
<1>3. PICK r \in {[n \in {begun, finished} |-> SearchFor(game, root, n, table)]} :
        found' = {[position |-> root, score |-> r[finished].score]} /\ table' = r[begun].tt
  BY DEF PlayMove
<1>4. r[begun] \in Found(game, root) /\ r[finished] \in Found(game, root)
  <2>1. r[begun] = SearchFor(game, root, begun, table) BY <1>3
  <2>2. r[finished] = SearchFor(game, root, finished, table) BY <1>3
  <2>3. QED BY <1>1, <1>2, <2>1, <2>2, SearchFinds
<1>5. IsReal(game, root, r[finished].score) /\ r[begun].tt \in RealTables(game)
  BY <1>4 DEF Found
<1>6. table' \in RealTables(game') BY <1>2, <1>3, <1>5
<1>7. \A x \in found' : IsReal(game', x.position, x.score)
  <2>1. SUFFICES ASSUME NEW x \in found' PROVE IsReal(game, x.position, x.score) BY <1>2
  <2>2. x = [position |-> root, score |-> r[finished].score] BY <1>3
  <2>3. x.position = root /\ x.score = r[finished].score BY <2>2
  <2>4. QED BY <1>5, <2>3
<1>8. \A x \in shown' : MoveIsReal(game', x) BY <1>1, <1>2 DEF MatesAreReal
<1>9. IsGame(game') BY <1>1, <1>2
<1>10. user' # "session" BY <1>2
<1>11. QED BY <1>6, <1>7, <1>8, <1>9, <1>10 DEF SearchInv, MatesAreReal

\* An analysis goes on with the table of the one before, or with an empty one if its
\* rules are others.
LEMMA AnalyseKeeps ==
  ASSUME SearchInv, NEW p \in game.asked, NEW r \in game.rules, NEW depth \in Nat,
         AnalyseJob(p, r, depth)
  PROVE  SearchInv'
PROOF
<1> DEFINE g == Under(game, r)
           tt == IF g = game THEN table ELSE NoEntries(game)
<1>1. IsGame(game) /\ table \in RealTables(game) /\ user = "session" /\ found = {}
  BY DEF SearchInv, AnalyseJob
<1>2. game' = g /\ user' = user /\ found' = found BY DEF AnalyseJob
<1>3. PICK st \in {Analyse(g, p, depth, tt)} : table' = st.tt /\ shown' = st.shown BY DEF AnalyseJob
<1>4. IsGame(g) /\ Positions(g) = Positions(game) BY <1>1, UnderRules
<1>5. p \in Positions(g) BY <1>1, <1>4 DEF IsGame
<1>6. tt \in RealTables(g)
  <2>1. CASE g = game BY <1>1, <2>1
  <2>2. CASE g # game
    <3>1. NoEntries(game) = NoEntries(g) BY <1>4 DEF NoEntries
    <3>2. QED BY <2>2, <3>1, NoEntriesAreReal
  <2>3. QED BY <2>1, <2>2
<1> HIDE DEF g, tt
<1>7. st \in Analysed(g, p) BY <1>3, <1>4, <1>5, <1>6, AnalysisIsAnalysed
<1>8. st.shown \subseteq RealMoves(g) /\ st.tt \in RealTables(g) BY <1>7 DEF Analysed
<1>9. table' \in RealTables(game') /\ IsGame(game') BY <1>2, <1>3, <1>4, <1>8
<1>10. \A x \in shown' : MoveIsReal(game', x) BY <1>2, <1>3, <1>8 DEF RealMoves
<1>11. found' = {} BY <1>1, <1>2
<1>12. QED BY <1>9, <1>10, <1>11 DEF SearchInv, MatesAreReal

\* Every step keeps it.
LEMMA SearchNextInv == SearchInv /\ [SearchNext]_searcher => SearchInv'
PROOF
<1> SUFFICES ASSUME SearchInv, [SearchNext]_searcher PROVE SearchInv' OBVIOUS
<1>1. Depths \subseteq Nat BY GamesAssumption
<1>2. ASSUME NEW depth \in Depths, NEW begun \in 0 .. depth, NEW finished \in 0 .. depth,
             PlayMove(begun, finished)
      PROVE  SearchInv'
  <2>1. begun \in Nat /\ finished \in Nat BY <1>1
  <2>2. QED BY <1>2, <2>1, PlayKeeps
<1>3. ASSUME NEW p \in game.asked, NEW r \in game.rules, NEW depth \in Depths, AnalyseJob(p, r, depth)
      PROVE  SearchInv'
  BY <1>1, <1>3, AnalyseKeeps
<1>4. CASE UNCHANGED searcher
  BY <1>4 DEF searcher, SearchInv, MatesAreReal
<1>5. QED BY <1>2, <1>3, <1>4 DEF SearchNext

\* Whatever graph a game is, however often and deep it is searched or analysed on one
\* table, and under whichever rules: a mate score is a mate on the board, in as many
\* plies at most as it says.
THEOREM MateScoresAreMates == SearchSpec => []MatesAreReal
PROOF
<1>1. SearchInit => SearchInv BY SearchInitInv
<1>2. SearchInv /\ [SearchNext]_searcher => SearchInv' BY SearchNextInv
<1>3. SearchInv => MatesAreReal BY DEF SearchInv
<1>4. QED BY <1>1, <1>2, <1>3, PTL DEF SearchSpec
=============================================================================
