-------------------------- MODULE UciProcessProofs --------------------------
(*****************************************************************************)
(* Calls get their own answers (AnswersOwnCall) under their own settings     *)
(* (RunsAsAsked), for any number of callers, processes, crashes and passed   *)
(* deadlines.                                                                *)
(*****************************************************************************)
EXTENDS UciProcess, SequenceTheorems, TLAPS

-----------------------------------------------------------------------------
(* Types *)

\* The places of close() and the constructor, of start(), and of a search.
Replacing == {"close", "closeSent", "closeKill", "closeWait", "new"}
Starting  == {"spawn", "uciok", "startReady"}
Searching == {"variant", "variantReady", "prepare", "positionReady", "read"}
Places    == Replacing \cup Starting \cup Searching \cup {"out", "got", "lock", "done", "failed"}

Kinds    == {"uci", "variant", "multipv", "isready", "position", "go", "stop", "quit"}
Args     == Callers \cup Variants \cup Nat \cup {Nobody}
Commands == {x \in [cmd : Kinds, arg : Args] : x.cmd = "go" => x.arg \in Callers}
Texts    == {"uciok", "readyok", "bestmove", "None"}
LinesOut == [kind : Texts, id : Callers \cup {Nobody}]
Settings == [variant : Args, pv : Args]

Objects == [proc : Nat, lines : Seq(LinesOut), active : Args, multipv : Nat,
            lock : Callers \cup {Nobody}]
Processes == [alive : BOOLEAN, inq : Seq(Commands), setting : Settings,
              search : Callers \cup {Nobody}, halted : BOOLEAN, of : Nat, eof : BOOLEAN]

TypeOK ==
  /\ object \in Seq(Objects) /\ process \in Seq(Processes)
  /\ shared \in 0 .. Len(object) /\ uciLock \in Callers \cup {Nobody} /\ closing \in 0 .. Len(process)
  /\ pc \in [Callers -> Places] /\ eng \in [Callers -> 0 .. Len(object)]
  /\ stopSet \subseteq Callers /\ told \subseteq Callers
  /\ crashes \in Nat /\ timeouts \in Nat
  /\ cut \subseteq DOMAIN object /\ mixed \subseteq DOMAIN object /\ late \subseteq DOMAIN object
  /\ answer \in [Callers -> Callers \cup {Nobody}] /\ ran \in [Callers -> Settings]

-----------------------------------------------------------------------------
(* Who has which object and which process *)

\* A caller has an object once it is past get_uci_engine(), or closes the old one.
HasObject == \A c \in Callers : pc[c] \notin {"out", "new"} => eng[c] # 0

\* _UCI_LOCK is held by the caller that replaces the object.
ReplacerLocks ==
  \A c \in Callers :
    /\ pc[c] \in Replacing => uciLock = c
    /\ uciLock = c => pc[c] \in Replacing \cup Starting

\* The object it makes is not known to anyone else until it is started.
FreshObject ==
  \A c \in Callers :
    uciLock = c /\ pc[c] \in Starting
      => eng[c] # shared /\ \A d \in Callers \ {c} : eng[d] # eng[c]

\* Otherwise start() and the searches are under the lock of the object.
HoldsLock ==
  \A c \in Callers :
    pc[c] \in Starting \cup Searching /\ uciLock # c => object[eng[c]].lock = c

\* The process of an object is the last one started for it.
LastProcess ==
  /\ \A p \in DOMAIN process : process[p].of \in DOMAIN object
  /\ \A e \in DOMAIN object :
       object[e].proc # 0
         => /\ object[e].proc \in DOMAIN process /\ process[object[e].proc].of = e
            /\ \A p \in DOMAIN process : process[p].of = e => p <= object[e].proc

\* The reader ends after its process.
EndMarkLast == \A p \in DOMAIN process : process[p].eof => ~process[p].alive

Ownership == HasObject /\ ReplacerLocks /\ FreshObject /\ HoldsLock /\ LastProcess /\ EndMarkLast

-----------------------------------------------------------------------------
(* Whose lines are in which queue *)

\* Only the last process of an object still writes to its queue.
OneWriter ==
  \A p, q \in DOMAIN process :
    process[p].of = process[q].of /\ process[p].of \notin mixed /\ p < q => process[p].eof

\* There is no end mark in the queue of an object whose process runs.
NoEarlyEnd ==
  \A e \in DOMAIN object :
    e \notin mixed /\ Alive(object[e].proc)
      => \A i \in DOMAIN object[e].lines : object[e].lines[i].kind # "None"

\* The searches that an object still has to do, does, or has done without anybody
\* having read their bestmove.
Asked(e, p)   == {i \in DOMAIN process[p].inq : process[p].inq[i].cmd = "go"}
Done(e)       == {i \in DOMAIN object[e].lines : object[e].lines[i].kind = "bestmove"}
Runner(e, p)  == p \in DOMAIN process /\ process[p].of = e /\ process[p].alive
Quiet(e) ==
  /\ Done(e) = {}
  /\ \A p \in DOMAIN process : Runner(e, p) => process[p].search = Nobody /\ Asked(e, p) = {}

\* There is one at most, that of c.
OnlyFor(e, c) ==
  /\ \A i \in Done(e) : object[e].lines[i].id = c
  /\ \A i, j \in Done(e) : i = j
  /\ \A p \in DOMAIN process :
       Runner(e, p) =>
         /\ process[p].search \in {c, Nobody}
         /\ \A i \in Asked(e, p) : process[p].inq[i].arg = c
         /\ \A i, j \in Asked(e, p) : i = j
         /\ process[p].search = c => Asked(e, p) = {}
         /\ Done(e) # {} => process[p].search = Nobody /\ Asked(e, p) = {}

\* Until a caller that starts or prepares a search has sent its go, there is none ...
QuietBefore ==
  \A c \in Callers :
    pc[c] \in (Starting \cup Searching) \ {"spawn", "read"} /\ eng[c] \notin mixed \cup late => Quiet(eng[c])

\* ... while it reads, there is its own ...
OwnWhileReading ==
  \A c \in Callers : pc[c] = "read" /\ eng[c] \notin mixed \cup late => OnlyFor(eng[c], c)

\* ... and it leaves none behind with a process that runs, unless it gives up.
QuietAfter ==
  \A e \in DOMAIN object \ (mixed \cup late) :
    Alive(object[e].proc) /\ (\A c \in Callers : eng[c] = e => pc[c] # "read") => Quiet(e)

\* A caller is answered at the end of its call.
AnsweredOnce == \A c \in Callers : answer[c] # Nobody => pc[c] = "done"

Answers == OneWriter /\ NoEarlyEnd /\ QuietBefore /\ OwnWhileReading /\ QuietAfter
           /\ AnsweredOnce

-----------------------------------------------------------------------------
(* What the commands in a queue will have set *)

\* The first n commands of q leave a setting that was s, and that command k sets, at v.
Leaves(s, q, n, k, v) ==
  \/ s = v /\ \A i \in 1 .. n : q[i].cmd # k
  \/ \E i \in 1 .. n : q[i].cmd = k /\ q[i].arg = v /\ \A j \in i + 1 .. n : q[j].cmd # k

VariantAfter(p, n, v) == Leaves(process[p].setting.variant, process[p].inq, n, "variant", v)
PvAfter(p, n, v)      == Leaves(process[p].setting.pv, process[p].inq, n, "multipv", v)

Unspoiled(e) == e \notin cut \cup mixed

\* A go names a caller of the object that is at its search or past it.
GoIsOfCaller ==
  \A p \in DOMAIN process : \A i \in DOMAIN process[p].inq :
    process[p].inq[i].cmd = "go" =>
      LET c == process[p].inq[i].arg
      IN c \in Callers /\ eng[c] = process[p].of /\ pc[c] \in {"read", "done", "failed"}

\* A go comes after the settings that its call wants.
GoAsAsked ==
  \A p \in DOMAIN process : \A i \in DOMAIN process[p].inq :
    process[p].inq[i].cmd = "go" /\ Unspoiled(process[p].of) =>
      LET c == process[p].inq[i].arg
      IN VariantAfter(p, i - 1, WantVariant[c]) /\ PvAfter(p, i - 1, WantPv[c])

\* What an object has on record is what its process has, or will have, set.
Recorded(e) ==
  LET p == object[e].proc
      n == Len(process[p].inq)
  IN /\ VariantAfter(p, n, object[e].active)
     /\ object[e].multipv # 0 => PvAfter(p, n, object[e].multipv)

\* That is so for a process that runs, after its handshake.
OnRecord ==
  \A e \in DOMAIN object :
    /\ Unspoiled(e) /\ Alive(object[e].proc)
    /\ \A c \in Callers : eng[c] = e => pc[c] # "uciok"
    => Recorded(e)

\* What a caller has seen to is on record.
RecordAsAsked ==
  \A c \in Callers :
    /\ pc[c] \in {"variantReady", "prepare", "positionReady"} => object[eng[c]].active = WantVariant[c]
    /\ pc[c] = "positionReady" => object[eng[c]].multipv = WantPv[c]

\* Only a caller that searched, or searches, has run with anything.
RanOnce == \A c \in Callers : ran[c] # NoSetting => pc[c] \in {"read", "done", "failed"}

SettingsKept == GoIsOfCaller /\ GoAsAsked /\ OnRecord /\ RecordAsAsked /\ RanOnce /\ RunsAsAsked

IInv == TypeOK /\ Ownership /\ Answers /\ SettingsKept

-----------------------------------------------------------------------------
(* Sequences *)

\* What it means to replace an element of a sequence.
LEMMA SetFacts ==
  ASSUME NEW S, NEW s \in Seq(S), NEW i \in DOMAIN s, NEW x \in S
  PROVE  LET t == [s EXCEPT ![i] = x]
         IN /\ t \in Seq(S) /\ Len(t) = Len(s) /\ DOMAIN t = DOMAIN s /\ t[i] = x
            /\ \A j \in DOMAIN s \ {i} : t[j] = s[j]
  OBVIOUS

\* What Append does to a sequence, index by index.
LEMMA AppendFacts ==
  ASSUME NEW S, NEW s \in Seq(S), NEW e \in S
  PROVE  /\ Append(s, e) \in Seq(S)
         /\ Len(Append(s, e)) = Len(s) + 1
         /\ DOMAIN Append(s, e) = 1 .. Len(s) + 1
         /\ \A i \in 1 .. Len(s) : Append(s, e)[i] = s[i]
         /\ Append(s, e)[Len(s) + 1] = e
  OBVIOUS

\* What a sequence after a sequence is, index by index.
LEMMA ConcatFacts ==
  ASSUME NEW S, NEW s \in Seq(S), NEW t \in Seq(S)
  PROVE  /\ s \o t \in Seq(S) /\ Len(s \o t) = Len(s) + Len(t)
         /\ DOMAIN (s \o t) = 1 .. Len(s) + Len(t)
         /\ \A i \in 1 .. Len(s) : (s \o t)[i] = s[i]
         /\ \A i \in 1 .. Len(t) : (s \o t)[Len(s) + i] = t[i]
  BY ConcatProperties

\* What is left of a queue after some of it was read.
Left(s, t) == \E k \in 0 .. Len(s) :
                Len(t) = Len(s) - k /\ \A i \in 1 .. Len(t) : t[i] = s[i + k]

\* Reading nothing, one line or all of them leaves such a rest.
LEMMA LeftFacts ==
  ASSUME NEW S, NEW s \in Seq(S)
  PROVE  /\ Left(s, s) /\ Left(s, << >>) /\ << >> \in Seq(S)
         /\ s # << >> => /\ Left(s, Tail(s)) /\ Tail(s) \in Seq(S) /\ Head(s) \in S /\ Head(s) = s[1]
                         /\ Len(s) > 0
<1>1. Left(s, s)
  <2>1. 0 \in 0 .. Len(s) /\ Len(s) = Len(s) - 0 /\ \A i \in 1 .. Len(s) : s[i] = s[i + 0]
    OBVIOUS
  <2> QED BY <2>1 DEF Left
<1>2. Left(s, << >>)
  <2>1. Len(s) \in 0 .. Len(s) /\ Len(<< >>) = Len(s) - Len(s) /\ 1 .. Len(<< >>) = {}
    OBVIOUS
  <2> QED BY <2>1 DEF Left
<1>3. ASSUME s # << >>
      PROVE  /\ Left(s, Tail(s)) /\ Tail(s) \in Seq(S) /\ Head(s) \in S /\ Head(s) = s[1] /\ Len(s) > 0
  <2>1. 1 \in 0 .. Len(s) /\ Len(Tail(s)) = Len(s) - 1 /\ \A i \in 1 .. Len(Tail(s)) : Tail(s)[i] = s[i + 1]
    BY <1>3
  <2> QED BY <1>3, <2>1 DEF Left
<1> QED BY <1>1, <1>2, <1>3

\* Every line of such a rest was there before.
LEMMA LeftIn ==
  ASSUME NEW S, NEW s \in Seq(S), NEW t \in Seq(S), Left(s, t)
  PROVE  \A i \in DOMAIN t : \E j \in DOMAIN s : t[i] = s[j]
<1>1. PICK k \in 0 .. Len(s) : Len(t) = Len(s) - k /\ \A i \in 1 .. Len(t) : t[i] = s[i + k]
  BY DEF Left
<1>2. DOMAIN s = 1 .. Len(s) /\ DOMAIN t = 1 .. Len(t) /\ Len(s) \in Nat /\ Len(t) \in Nat
  OBVIOUS
<1>3. \A i \in DOMAIN t : i + k \in DOMAIN s
  BY <1>1, <1>2
<1> QED BY <1>1, <1>2, <1>3

-----------------------------------------------------------------------------
(* What a caller with an object may do to it *)

Holding == Starting \cup Searching

\* It gives back no lock, takes the object's, gives back _UCI_LOCK, or the object's.
LockMoves(c, o, to) ==
  \/ /\ uciLock' = uciLock /\ shared' = shared /\ (to \in Replacing <=> pc[c] \in Replacing)
     /\ o.lock = Mine(c).lock
     /\ to \in Holding => pc[c] \in Holding
     /\ to \in Starting => pc[c] \in Starting
     /\ uciLock = c \/ pc[c] \notin Holding \/ to \in Holding
     /\ uciLock = c => to \in Replacing \cup Starting
  \/ /\ uciLock' = uciLock /\ shared' = shared /\ pc[c] = "lock" /\ to \in {"spawn", "variant"}
     /\ Mine(c).lock = Nobody /\ o.lock = c
  \/ /\ uciLock = c /\ uciLock' = Nobody /\ to \in {"got", "done", "failed"} /\ o.lock = Mine(c).lock
     /\ shared' \in {shared, eng[c]}
  \/ /\ uciLock # c /\ uciLock' = uciLock /\ shared' = shared /\ pc[c] \in Holding
     /\ to \in {"done", "failed"} /\ o.lock = Nobody

\* Its call ends with a bestmove, or is not answered by the step.
AnswerMoves(c, o, to) ==
  \/ answer' = answer
  \/ /\ pc[c] = "read" /\ to = "done" /\ Gets(c, "bestmove") /\ o.lines = Rest(c)
     /\ answer' = [answer EXCEPT ![c] = Head(Mine(c).lines).id]

\* It gives up reading, or its go finds the process idle.
LateMoves(c) ==
  \/ late' = late /\ ~GivesUp(c)
  \/ GivesUp(c) /\ late' = late \cup {eng[c]}
  \/ Go(c) /\ Idle(c) /\ late' = late \ {eng[c]}

\* The step of c leaves its object as o and c at the place `to`.
Moves(c, o, to) ==
  /\ pc' = [pc EXCEPT ![c] = to] /\ eng' = eng
  /\ object' = [object EXCEPT ![eng[c]] = o]
  /\ Left(Mine(c).lines, o.lines) /\ o.proc \in {0, Mine(c).proc}
  /\ pc[c] \notin {"out", "new", "done", "failed"} /\ (to \notin {"out", "uciok"} \/ to = pc[c])
  /\ LockMoves(c, o, to) /\ AnswerMoves(c, o, to)
  /\ mixed' = mixed /\ cut' \in {cut, cut \cup {eng[c]}} /\ LateMoves(c) /\ ran' = ran

\* What the caller's steps have in common before they differ.
LEMMA MineType ==
  ASSUME TypeOK, HasObject, NEW c \in Callers, pc[c] \notin {"out", "new"}
  PROVE  /\ eng[c] \in DOMAIN object /\ Mine(c) \in Objects
         /\ object = [object EXCEPT ![eng[c]] = Mine(c)]
         /\ pc = [pc EXCEPT ![c] = pc[c]]
         /\ Left(Mine(c).lines, Mine(c).lines) /\ Mine(c).lines \in Seq(LinesOut)
<1>1. eng[c] \in 1 .. Len(object) /\ object \in Seq(Objects)
  BY DEF TypeOK, HasObject
<1>2. eng[c] \in DOMAIN object /\ Mine(c) \in Objects /\ object = [object EXCEPT ![eng[c]] = Mine(c)]
  BY <1>1 DEF Mine
<1>3. Mine(c).lines \in Seq(LinesOut)
  BY <1>2 DEF Objects
<1> QED BY <1>2, <1>3, LeftFacts DEF TypeOK

\* A caller that leaves.
LEMMA LeaveMoves ==
  ASSUME TypeOK, HasObject, ReplacerLocks, NEW c \in Callers, pc[c] \in Holding,
         NEW o \in Objects, o.lock = Mine(c).lock, o.proc = Mine(c).proc,
         Left(Mine(c).lines, o.lines), NEW to \in {"done", "failed"}, Leave(c, o, to),
         eng' = eng, AnswerMoves(c, o, to), mixed' = mixed, cut' \in {cut, cut \cup {eng[c]}},
         LateMoves(c), ran' = ran
  PROVE  \E x \in Objects, y \in Places : Moves(c, x, y)
<1> USE DEF Holding, Starting, Searching, Replacing, Places
<1>1. eng[c] \in DOMAIN object /\ pc[c] \notin {"out", "new", "done", "failed"}
  BY MineType
<1>2. CASE uciLock = c
  <2>1. Moves(c, o, to)
    BY <1>1, <1>2 DEF Leave, At, Set, Moves, LockMoves
  <2> QED BY <2>1
<1>3. CASE uciLock # c
  <2> DEFINE x == [o EXCEPT !.lock = Nobody]
  <2>1. x \in Objects /\ x.lock = Nobody /\ x.lines = o.lines /\ x.proc = o.proc
    BY DEF Objects
  <2>2. object' = [object EXCEPT ![eng[c]] = x]
    BY <1>3 DEF Leave, Set
  <2> HIDE DEF x
  <2>3. Moves(c, x, to)
    BY <1>1, <1>3, <2>1, <2>2 DEF Leave, At, Moves, LockMoves, AnswerMoves
  <2> QED BY <2>1, <2>3
<1> QED BY <1>2, <1>3

\* A caller that sends, or leaves on a broken pipe.
LEMMA SendMoves ==
  ASSUME TypeOK, HasObject, ReplacerLocks, NEW c \in Callers, pc[c] \in Holding, NEW cmds,
         NEW o \in Objects, o.lock = Mine(c).lock, o.proc = Mine(c).proc, Left(Mine(c).lines, o.lines),
         NEW x \in Objects, x.lock = Mine(c).lock, x.proc = Mine(c).proc, Left(Mine(c).lines, x.lines),
         NEW to \in Holding \ {"uciok", "spawn"}, pc[c] \in Starting \/ to \in Searching,
         pc[c] \in Searching => to \in Searching, pc[c] \in Starting => to \in Starting,
         SendOrLeave(c, cmds, o, to, x),
         eng' = eng, answer' = answer, mixed' = mixed, cut' = cut, LateMoves(c), ran' = ran
  PROVE  \E y \in Objects, z \in Places : Moves(c, y, z)
<1> USE DEF Holding, Starting, Searching, Replacing, Places
<1>1. CASE Serves(c)
  <2>1. Moves(c, o, to)
    BY <1>1 DEF SendOrLeave, At, Set, uci, Moves, LockMoves, AnswerMoves, ReplacerLocks
  <2> QED BY <2>1
<1>2. CASE ~Serves(c)
  <2>1. Leave(c, x, "failed")
    BY <1>2 DEF SendOrLeave
  <2> QED BY <2>1, LeaveMoves DEF AnswerMoves
<1> QED BY <1>1, <1>2

\* The steps of a caller that leave the objects alone.
LooksOnly(c) == CloseQuit(c) \/ CloseWaits(c) \/ CloseExpires(c) \/ CloseKill(c) \/ UseEngine(c)

\* The other steps of a caller with an object, but for Spawn.
WorksOn(c) == \/ CloseEnds(c) \/ TakeLock(c) \/ Handshake(c) \/ StartEnds(c) \/ Searches(c)
              \/ Waits(c) \/ TimedOut(c) \/ GivesUp(c)

\* All of them are such moves.
LEMMA CallerMoves ==
  ASSUME TypeOK, HasObject, ReplacerLocks, NEW c \in Callers, LooksOnly(c) \/ WorksOn(c)
  PROVE  \E o \in Objects, to \in Places : Moves(c, o, to)
<1> DEFINE Goal == \E o \in Objects, to \in Places : Moves(c, o, to)
<1> USE DEF Holding, Starting, Searching, Replacing
<1>0. pc[c] \in Places /\ (pc[c] \in Replacing => uciLock = c) /\ (uciLock = c => pc[c] \in Replacing \cup Starting)
  BY DEF TypeOK, ReplacerLocks
<1>l. pc[c] \notin {"read", "positionReady"} => ~GivesUp(c) /\ ~Go(c)
  BY DEF GivesUp, Go
<1>1. CASE LooksOnly(c)
  <2>1. pc[c] \in Places \ {"out", "new", "done", "failed", "lock"} /\ UNCHANGED <<object, eng, shared, uciLock, answer, mixed, cut, late, ran>>
        /\ ~GivesUp(c)
    BY <1>1, <1>0, <1>l DEF LooksOnly, CloseQuit, CloseWaits, CloseExpires, CloseKill, UseEngine, uci, locals, faults
  <2>2. \E to \in Places \ {"out", "uciok"} :
          /\ pc' = [pc EXCEPT ![c] = to] /\ to \notin Holding /\ pc[c] \notin Holding
          /\ (to \in Replacing <=> pc[c] \in Replacing)
    BY <1>1 DEF LooksOnly, CloseQuit, CloseWaits, CloseExpires, CloseKill, UseEngine, At, Places
  <2>3. PICK to \in Places \ {"out", "uciok"} :
          /\ pc' = [pc EXCEPT ![c] = to] /\ to \notin Holding /\ pc[c] \notin Holding
          /\ (to \in Replacing <=> pc[c] \in Replacing)
    BY <2>2
  <2>4. Moves(c, Mine(c), to)
    BY <1>0, <2>1, <2>3, MineType DEF Moves, LockMoves, AnswerMoves, LateMoves
  <2>5. Mine(c) \in Objects
    BY <2>1, MineType
  <2> QED BY <2>3, <2>4, <2>5
<1>2. CASE CloseEnds(c)
  <2> DEFINE o == [Mine(c) EXCEPT !.proc = 0]
  <2>1. pc[c] = "closeWait" /\ "new" \in Places
    BY <1>2 DEF CloseEnds, Places
  <2>2. o \in Objects /\ o.lines = Mine(c).lines /\ o.lock = Mine(c).lock /\ o.proc = 0
    BY <2>1, MineType DEF Objects
  <2>3. object' = [object EXCEPT ![eng[c]] = o] /\ pc' = [pc EXCEPT ![c] = "new"]
    BY <1>2 DEF CloseEnds, Set, At
  <2> HIDE DEF o
  <2>4. Moves(c, o, "new")
    BY <1>0, <1>l, <1>2, <2>1, <2>2, <2>3, MineType DEF CloseEnds, Moves, LockMoves, AnswerMoves, LateMoves, locals, faults
  <2> QED BY <2>1, <2>2, <2>4
<1>3. CASE TakeLock(c)
  <2> DEFINE o  == [Mine(c) EXCEPT !.lock = c]
             to == IF Serves(c) THEN "variant" ELSE "spawn"
  <2>1. pc[c] = "lock" /\ to \in {"variant", "spawn"} /\ to \in Places /\ Mine(c).lock = Nobody
    BY <1>3 DEF TakeLock, Places
  <2>2. o \in Objects /\ o.lines = Mine(c).lines /\ o.lock = c /\ o.proc = Mine(c).proc
    BY <2>1, MineType DEF Objects
  <2>3. object' = [object EXCEPT ![eng[c]] = o] /\ pc' = [pc EXCEPT ![c] = to]
    BY <1>3 DEF TakeLock, Set, At
  <2> HIDE DEF o, to
  <2>4. Moves(c, o, to)
    BY <1>l, <1>3, <2>1, <2>2, <2>3, MineType DEF TakeLock, Moves, LockMoves, AnswerMoves, LateMoves, uci, locals, faults
  <2> QED BY <2>1, <2>2, <2>4
<1> DEFINE rest == [Mine(c) EXCEPT !.lines = Rest(c)]
<1>r. ASSUME pc[c] \notin {"out", "new"}, Mine(c).lines # << >>
      PROVE  /\ rest \in Objects /\ rest.lines = Rest(c) /\ rest.lock = Mine(c).lock /\ rest.proc = Mine(c).proc
             /\ Left(Mine(c).lines, Rest(c))
  <2>1. Mine(c) \in Objects /\ Mine(c).lines \in Seq(LinesOut)
    BY <1>r, MineType
  <2>2. Left(Mine(c).lines, Rest(c)) /\ Rest(c) \in Seq(LinesOut)
    BY <1>r, <2>1, LeftFacts DEF Rest
  <2> QED BY <2>1, <2>2 DEF Objects
<1>4. CASE Handshake(c)
  <2> DEFINE o == [Mine(c) EXCEPT !.lines = Rest(c), !.multipv = 0]
             x == [o EXCEPT !.active = Own]
  <2>1. pc[c] = "uciok" /\ Mine(c).lines # << >> /\ Mine(c) \in Objects
    BY <1>4, MineType DEF Handshake, Gets
  <2>2. o \in Objects /\ o.lines = Rest(c) /\ o.lock = Mine(c).lock /\ o.proc = Mine(c).proc
    BY <1>r, <2>1 DEF Objects
  <2>3. x \in Objects /\ x.lines = Rest(c) /\ x.lock = Mine(c).lock /\ x.proc = Mine(c).proc
    BY <2>2, WantAssumption DEF Objects, Args
  <2>4. SendOrLeave(c, <<With("variant", Own), Cmd("isready")>>, x, "startReady", o)
    BY <1>4 DEF Handshake
  <2> HIDE DEF o, x
  <2>5. UNCHANGED <<eng, answer, mixed, cut, ran>> /\ LateMoves(c)
    BY <1>l, <1>4, <2>1 DEF Handshake, LateMoves, locals, faults
  <2> QED BY <1>r, <2>1, <2>2, <2>3, <2>4, <2>5, SendMoves
<1>5. CASE StartEnds(c)
  <2> DEFINE to == IF uciLock = c THEN "got" ELSE "variant"
  <2>1. pc[c] = "startReady" /\ Mine(c).lines # << >> /\ to \in Places
    BY <1>5 DEF StartEnds, Gets, Places
  <2>2. object' = [object EXCEPT ![eng[c]] = rest] /\ pc' = [pc EXCEPT ![c] = to]
    BY <1>5 DEF StartEnds, Set, At
  <2>3. rest \in Objects /\ rest.lines = Rest(c) /\ rest.lock = Mine(c).lock /\ rest.proc = Mine(c).proc
        /\ Left(Mine(c).lines, Rest(c))
    BY <1>r, <2>1
  <2> HIDE DEF rest
  <2>4. Moves(c, rest, to)
    BY <1>l, <1>5, <2>1, <2>2, <2>3 DEF StartEnds, Moves, LockMoves, AnswerMoves, LateMoves, locals, faults
  <2> QED BY <2>1, <2>3, <2>4
<1>6. CASE SetVariant(c)
  <2> DEFINE x == [Mine(c) EXCEPT !.active = WantVariant[c]]
  <2>1. pc[c] = "variant" /\ Mine(c) \in Objects
    BY <1>6, MineType DEF SetVariant
  <2>2. x \in Objects /\ x.lines = Mine(c).lines /\ x.lock = Mine(c).lock /\ x.proc = Mine(c).proc
    BY <2>1, WantAssumption DEF Objects, Args
  <2>3. SendOrLeave(c, <<With("variant", WantVariant[c]), Cmd("isready")>>, x, "variantReady", Mine(c))
    BY <1>6 DEF SetVariant
  <2> HIDE DEF x
  <2>4. UNCHANGED <<eng, answer, mixed, cut, ran>> /\ LateMoves(c)
    BY <1>l, <1>6, <2>1 DEF SetVariant, LateMoves, locals, faults
  <2> QED BY <2>1, <2>2, <2>3, <2>4, SendMoves, MineType
<1>7. CASE VariantSet(c)
  <2>1. pc[c] \in {"variant", "variantReady"} /\ "prepare" \in Places /\ pc' = [pc EXCEPT ![c] = "prepare"]
    BY <1>7 DEF VariantSet, At, Places
  <2>2. PICK o \in Objects : /\ object' = [object EXCEPT ![eng[c]] = o] /\ o.lock = Mine(c).lock
                             /\ o.proc = Mine(c).proc /\ Left(Mine(c).lines, o.lines)
    <3>1. CASE object' = object BY <2>1, <3>1, MineType
    <3>2. CASE object' # object
      <4>1. Mine(c).lines # << >> /\ object' = [object EXCEPT ![eng[c]] = rest]
        BY <1>7, <3>2 DEF VariantSet, Gets, Set
      <4>2. rest \in Objects /\ rest.lines = Rest(c) /\ rest.lock = Mine(c).lock /\ rest.proc = Mine(c).proc
            /\ Left(Mine(c).lines, Rest(c))
        BY <1>r, <2>1, <4>1
      <4> HIDE DEF rest
      <4> QED BY <4>1, <4>2
    <3> QED BY <3>1, <3>2
  <2>3. Moves(c, o, "prepare")
    BY <1>7, <1>0, <1>l, <2>1, <2>2 DEF VariantSet, Moves, LockMoves, AnswerMoves, LateMoves, uci, locals, faults
  <2> QED BY <2>1, <2>2, <2>3
<1>8. CASE GameOver(c)
  <2>1. pc[c] \in Holding /\ Mine(c) \in Objects /\ Left(Mine(c).lines, Mine(c).lines)
    BY <1>8, MineType DEF GameOver
  <2>2. LateMoves(c)
    BY <1>l, <1>8 DEF GameOver, LateMoves, faults
  <2> QED BY <1>8, <2>1, <2>2, LeaveMoves DEF GameOver, AnswerMoves, locals, faults
<1>9. CASE Prepare(c)
  <2> DEFINE o  == [Mine(c) EXCEPT !.lines = << >>]
             x  == [o EXCEPT !.multipv = WantPv[c]]
             pv == IF o.multipv # WantPv[c] THEN <<With("multipv", WantPv[c])>> ELSE << >>
  <2>1. pc[c] = "prepare" /\ Mine(c) \in Objects /\ Mine(c).lines \in Seq(LinesOut)
    BY <1>9, MineType DEF Prepare
  <2>2. Left(Mine(c).lines, << >>) /\ << >> \in Seq(LinesOut)
    BY <2>1, LeftFacts
  <2>3. o \in Objects /\ o.lines = << >> /\ o.lock = Mine(c).lock /\ o.proc = Mine(c).proc
    BY <2>1, <2>2 DEF Objects
  <2>4. x \in Objects /\ x.lines = << >> /\ x.lock = Mine(c).lock /\ x.proc = Mine(c).proc
    BY <2>3, WantAssumption DEF Objects
  <2>5. SendOrLeave(c, pv \o <<Cmd("position"), Cmd("isready")>>, x, "positionReady", o)
    BY <1>9 DEF Prepare
  <2> HIDE DEF o, x, pv
  <2>6. UNCHANGED <<eng, answer, mixed, cut, ran>> /\ LateMoves(c)
    BY <1>l, <1>9, <2>1 DEF Prepare, LateMoves, locals, faults
  <2> QED BY <2>1, <2>2, <2>3, <2>4, <2>5, <2>6, SendMoves
<1>10. CASE Go(c)
  <2>1. pc[c] = "positionReady" /\ Mine(c).lines # << >>
    BY <1>10 DEF Go, Gets
  <2>2. rest \in Objects /\ rest.lines = Rest(c) /\ rest.lock = Mine(c).lock /\ rest.proc = Mine(c).proc
        /\ Left(Mine(c).lines, Rest(c))
    BY <1>r, <2>1
  <2>3. SendOrLeave(c, <<With("go", c)>>, rest, "read", rest)
    BY <1>10 DEF Go
  <2> HIDE DEF rest
  <2>4. UNCHANGED <<eng, answer, mixed, cut, ran>> /\ LateMoves(c)
    <3>1. UNCHANGED <<eng, answer, mixed, cut, ran>> /\ late' = IF Idle(c) THEN late \ {eng[c]} ELSE late
      BY <1>10 DEF Go, locals
    <3>2. ~GivesUp(c)
      BY <2>1 DEF GivesUp
    <3> QED BY <1>10, <3>1, <3>2 DEF LateMoves
  <2> QED BY <2>1, <2>2, <2>3, <2>4, SendMoves
<1>11. CASE SendStop(c)
  <2>1. pc[c] = "read" /\ Mine(c) \in Objects /\ Left(Mine(c).lines, Mine(c).lines)
    BY <1>11, MineType DEF SendStop
  <2>2. UNCHANGED <<eng, answer, mixed, cut, late, ran>> /\ SendOrLeave(c, <<Cmd("stop")>>, Mine(c), "read", Mine(c))
    BY <1>11 DEF SendStop, faults
  <2>3. LateMoves(c)
    <3>1. ~GivesUp(c)
      BY <1>11 DEF SendStop, GivesUp, faults, TypeOK
    <3> QED BY <2>2, <3>1 DEF LateMoves
  <2> QED BY <2>1, <2>2, <2>3, SendMoves
<1>12. CASE ReadBestMove(c)
  <2>1. pc[c] = "read" /\ Mine(c).lines # << >>
    BY <1>12 DEF ReadBestMove, Gets
  <2>2. rest \in Objects /\ rest.lines = Rest(c) /\ rest.lock = Mine(c).lock /\ rest.proc = Mine(c).proc
        /\ Left(Mine(c).lines, Rest(c))
    BY <1>r, <2>1
  <2>3. Leave(c, rest, "done")
    BY <1>12 DEF ReadBestMove
  <2> HIDE DEF rest
  <2>4. UNCHANGED <<eng, mixed, cut, late, ran>> /\ AnswerMoves(c, rest, "done")
    BY <1>12, <2>2 DEF ReadBestMove, AnswerMoves, locals, faults
  <2>5. LateMoves(c)
    BY <2>1, <2>4 DEF LateMoves, GivesUp
  <2> QED BY <2>1, <2>2, <2>3, <2>4, <2>5, LeaveMoves
<1>13. CASE ReadOther(c)
  <2>1. pc[c] \in {"uciok", "startReady", "variantReady", "positionReady", "read"} /\ Mine(c).lines # << >>
    BY <1>13 DEF ReadOther, Awaited
  <2>2. rest \in Objects /\ rest.lines = Rest(c) /\ rest.lock = Mine(c).lock /\ rest.proc = Mine(c).proc
        /\ Left(Mine(c).lines, Rest(c))
    BY <1>r, <2>1
  <2>3. object' = [object EXCEPT ![eng[c]] = rest] /\ pc' = [pc EXCEPT ![c] = pc[c]]
    BY <1>13, <2>1, MineType DEF ReadOther, Set
  <2> HIDE DEF rest
  <2>4. Moves(c, rest, pc[c])
    <3>1. LateMoves(c)
      BY <1>13, <2>1 DEF ReadOther, LateMoves, GivesUp, faults
    <3> QED BY <1>0, <1>13, <2>1, <2>2, <2>3, <3>1 DEF ReadOther, Moves, LockMoves, AnswerMoves, uci, locals, faults
  <2> QED BY <1>0, <2>2, <2>4
<1>14. CASE ProcessExited(c)
  <2>1. pc[c] \in {"uciok", "startReady", "variantReady", "positionReady", "read"} /\ Mine(c).lines # << >>
    BY <1>14 DEF ProcessExited, Gets, Awaited
  <2>2. rest \in Objects /\ rest.lines = Rest(c) /\ rest.lock = Mine(c).lock /\ rest.proc = Mine(c).proc
        /\ Left(Mine(c).lines, Rest(c))
    BY <1>r, <2>1
  <2>3. Leave(c, rest, "failed")
    BY <1>14 DEF ProcessExited
  <2> HIDE DEF rest
  <2>4. LateMoves(c)
    BY <1>14, <2>1 DEF ProcessExited, LateMoves, GivesUp, faults
  <2> QED BY <1>14, <2>1, <2>2, <2>3, <2>4, LeaveMoves DEF ProcessExited, AnswerMoves, locals, faults
<1>15. CASE TimedOut(c)
  <2>1. pc[c] \in {"uciok", "startReady", "variantReady", "positionReady"}
    BY <1>15 DEF TimedOut, Awaited
  <2>2. Mine(c) \in Objects /\ Left(Mine(c).lines, Mine(c).lines)
    BY <2>1, MineType
  <2>3. Leave(c, Mine(c), "failed") /\ UNCHANGED <<eng, answer, mixed, ran>> /\ cut' \in {cut, cut \cup {eng[c]}}
    BY <1>15 DEF TimedOut, locals
  <2>4. LateMoves(c)
    BY <1>15, <2>1 DEF TimedOut, LateMoves, GivesUp
  <2> QED BY <2>1, <2>2, <2>3, <2>4, LeaveMoves DEF AnswerMoves
<1>16. CASE GivesUp(c)
  <2>1. pc[c] = "read"
    BY <1>16 DEF GivesUp
  <2>2. Mine(c) \in Objects /\ Left(Mine(c).lines, Mine(c).lines)
    BY <2>1, MineType
  <2>3. Leave(c, Mine(c), "failed") /\ UNCHANGED <<eng, answer, mixed, cut, ran>> /\ LateMoves(c)
    BY <1>16 DEF GivesUp, LateMoves, locals
  <2> QED BY <2>1, <2>2, <2>3, LeaveMoves DEF AnswerMoves
<1> QED BY <1>1, <1>2, <1>3, <1>4, <1>5, <1>6, <1>7, <1>8, <1>9, <1>10, <1>11, <1>12, <1>13, <1>14, <1>15, <1>16
        DEF WorksOn, Searches, Waits

-----------------------------------------------------------------------------
(* What it may do to the process of its object *)

\* Its step sends m, or kills the process, or leaves the processes alone.
Feeds(c, m) ==
  /\ process' \in Seq(Processes) /\ Len(process') = Len(process)
  /\ \A p \in DOMAIN process :
       \/ process'[p] = process[p]
       \/ /\ p = Mine(c).proc /\ process[p].alive
          /\ process'[p] = [process[p] EXCEPT !.inq = @ \o m]
       \/ p = Mine(c).proc /\ process'[p] = Gone(process[p])
  /\ (Go(c) /\ m = <<With("go", c)>>) \/ \A i \in DOMAIN m : m[i].cmd # "go"
  /\ Handshake(c) \/ SetVariant(c) \/ Prepare(c) \/ \A i \in DOMAIN m : m[i].cmd \notin {"variant", "multipv"}

\* One process changes.
LEMMA ProcessSet ==
  ASSUME TypeOK, NEW p \in DOMAIN process, NEW x \in Processes, process' = [process EXCEPT ![p] = x]
  PROVE  /\ process' \in Seq(Processes) /\ Len(process') = Len(process) /\ DOMAIN process' = DOMAIN process
         /\ process'[p] = x /\ \A q \in DOMAIN process \ {p} : process'[q] = process[q]
BY SetFacts DEF TypeOK

\* Commands after commands are commands.
LEMMA FeedType ==
  ASSUME NEW x \in Processes, NEW m \in Seq(Commands)
  PROVE  [x EXCEPT !.inq = @ \o m] \in Processes
<1>1. x.inq \o m \in Seq(Commands)
  BY DEF Processes
<1> QED BY <1>1 DEF Processes

\* What is left of a process that has ended.
LEMMA GoneFacts ==
  ASSUME NEW w \in Processes
  PROVE  /\ Gone(w) \in Processes /\ Gone(w).of = w.of /\ Gone(w).eof = w.eof
         /\ ~Gone(w).alive /\ Gone(w).inq = << >> /\ Gone(w).search = Nobody
<1>1. Default \in Settings
  BY DEF Default, Settings, Args
<1>2. << >> \in Seq(Commands)
  OBVIOUS
<1> QED BY <1>1, <1>2 DEF Gone, Processes

\* A caller that sends sends to the process of its object.
LEMMA SendFeeds ==
  ASSUME TypeOK, LastProcess, NEW c \in Callers, eng[c] \in DOMAIN object, NEW m \in Seq(Commands),
         \/ Serves(c) /\ Send(c, m)
         \/ process' = process
         \/ process' = [process EXCEPT ![Mine(c).proc] = Gone(@)]
  PROVE  /\ process' \in Seq(Processes) /\ Len(process') = Len(process)
         /\ \A p \in DOMAIN process :
              \/ process'[p] = process[p]
              \/ /\ p = Mine(c).proc /\ process[p].alive
                 /\ process'[p] = [process[p] EXCEPT !.inq = @ \o m]
              \/ p = Mine(c).proc /\ process'[p] = Gone(process[p])
<1>0. process \in Seq(Processes)
  BY DEF TypeOK
<1>1. CASE Serves(c) /\ Send(c, m)
  <2>1. Mine(c).proc # 0 /\ Mine(c).proc \in DOMAIN process /\ process[Mine(c).proc].alive
    BY <1>1 DEF Serves, Alive, LastProcess, Mine
  <2> DEFINE p == Mine(c).proc
             x == [process[p] EXCEPT !.inq = @ \o m]
  <2>2. process[p] \in Processes
    BY <1>0, <2>1
  <2>3. x \in Processes
    BY <2>2, FeedType
  <2>4. process' = [process EXCEPT ![p] = x]
    BY <1>1 DEF Send
  <2> QED BY <2>1, <2>3, <2>4, ProcessSet
<1>2. CASE process' = process BY <1>0, <1>2
<1>3. CASE process' = [process EXCEPT ![Mine(c).proc] = Gone(@)]
  <2> DEFINE p == Mine(c).proc
             x == Gone(process[p])
  <2>1. CASE p \in DOMAIN process
    <3>1. process[p] \in Processes
      BY <1>0, <2>1
    <3>2. x \in Processes
      BY <3>1, GoneFacts
    <3>3. process' = [process EXCEPT ![p] = x]
      BY <1>3
    <3> QED BY <2>1, <3>2, <3>3, ProcessSet
  <2>2. CASE p \notin DOMAIN process
    <3>1. process' = process
      BY <1>0, <1>3, <2>2
    <3> QED BY <1>0, <3>1
  <2> QED BY <2>1, <2>2
<1> QED BY <1>1, <1>2, <1>3

\* The commands a caller sends.
LEMMA CommandTypes ==
  /\ \A k \in Kinds \ {"go"} : Cmd(k) \in Commands /\ Cmd(k).cmd = k
  /\ \A k \in Kinds \ {"go"}, a \in Args : With(k, a) \in Commands /\ With(k, a).cmd = k /\ With(k, a).arg = a
  /\ \A c \in Callers : With("go", c) \in Commands /\ With("go", c).cmd = "go" /\ With("go", c).arg = c
  /\ Own \in Args /\ \A c \in Callers : WantVariant[c] \in Args /\ WantPv[c] \in Args
  BY WantAssumption DEF Cmd, With, Commands, Args, Kinds

\* All their steps are such.
LEMMA CallerFeeds ==
  ASSUME TypeOK, HasObject, LastProcess, NEW c \in Callers, LooksOnly(c) \/ WorksOn(c)
  PROVE  \E m \in Seq(Commands) : Feeds(c, m)
<1> USE DEF Kinds
<1>1. pc[c] \notin {"out", "new"}
  BY DEF LooksOnly, WorksOn, CloseQuit, CloseWaits, CloseExpires, CloseKill, UseEngine, CloseEnds, TakeLock,
         Handshake, StartEnds, Searches, Waits, SetVariant, VariantSet, GameOver, Prepare, Go, SendStop,
         ReadBestMove, ReadOther, ProcessExited, TimedOut, GivesUp, Awaited
<1>2. eng[c] \in DOMAIN object
  BY <1>1, MineType
<1> DEFINE none == << >>
<1>n. none \in Seq(Commands) /\ DOMAIN none = {}
  OBVIOUS
<1> HIDE DEF none
<1>3. CASE UNCHANGED process
  <2>1. Feeds(c, none)
    BY <1>n, <1>2, <1>3, SendFeeds DEF Feeds
  <2> QED BY <1>n, <2>1
<1>4. CASE CloseKill(c)
  <2>1. Feeds(c, none)
    BY <1>n, <1>2, <1>4, SendFeeds DEF Feeds, CloseKill
  <2> QED BY <1>n, <2>1
<1>5. ASSUME CloseQuit(c), process' # process PROVE \E m \in Seq(Commands) : Feeds(c, m)
  <2> DEFINE m == <<Cmd("quit")>>
  <2>1. m \in Seq(Commands) /\ \A i \in DOMAIN m : m[i].cmd = "quit"
    BY CommandTypes
  <2>2. Serves(c) /\ Send(c, m)
    BY <1>5 DEF CloseQuit
  <2> HIDE DEF m
  <2>3. Feeds(c, m)
    BY <1>2, <2>1, <2>2, SendFeeds DEF Feeds
  <2> QED BY <2>1, <2>3
<1>6. ASSUME Handshake(c), process' # process PROVE \E m \in Seq(Commands) : Feeds(c, m)
  <2> DEFINE m == <<With("variant", Own), Cmd("isready")>>
  <2>1. m \in Seq(Commands) /\ \A i \in DOMAIN m : m[i].cmd # "go"
    BY CommandTypes
  <2>2. Serves(c) /\ Send(c, m)
    BY <1>6 DEF Handshake, SendOrLeave
  <2> HIDE DEF m
  <2>3. Feeds(c, m)
    BY <1>2, <1>6, <2>1, <2>2, SendFeeds DEF Feeds
  <2> QED BY <2>1, <2>3
<1>7. ASSUME SetVariant(c), process' # process PROVE \E m \in Seq(Commands) : Feeds(c, m)
  <2> DEFINE m == <<With("variant", WantVariant[c]), Cmd("isready")>>
  <2>1. m \in Seq(Commands) /\ \A i \in DOMAIN m : m[i].cmd # "go"
    BY CommandTypes
  <2>2. Serves(c) /\ Send(c, m)
    BY <1>7 DEF SetVariant, SendOrLeave
  <2> HIDE DEF m
  <2>3. Feeds(c, m)
    BY <1>2, <1>7, <2>1, <2>2, SendFeeds DEF Feeds
  <2> QED BY <2>1, <2>3
<1>8. ASSUME Prepare(c), process' # process PROVE \E m \in Seq(Commands) : Feeds(c, m)
  <2> DEFINE pv(n) == IF n # WantPv[c] THEN <<With("multipv", WantPv[c])>> ELSE << >>
             m == pv(Mine(c).multipv) \o <<Cmd("position"), Cmd("isready")>>
  <2>1. m \in Seq(Commands) /\ \A i \in DOMAIN m : m[i].cmd # "go"
    <3> DEFINE x == <<With("multipv", WantPv[c])>>
               y == <<Cmd("position"), Cmd("isready")>>
    <3>1. CASE m = x \o y
      <4>1. x \in Seq(Commands) /\ Len(x) = 1 /\ x[1].cmd = "multipv"
        BY CommandTypes
      <4>2. y \in Seq(Commands) /\ Len(y) = 2 /\ y[1].cmd = "position" /\ y[2].cmd = "isready"
        BY CommandTypes
      <4> HIDE DEF m, x, y
      <4>3. /\ x \o y \in Seq(Commands) /\ DOMAIN (x \o y) = 1 .. Len(x) + Len(y)
            /\ \A i \in 1 .. Len(x) : (x \o y)[i] = x[i]
            /\ \A i \in 1 .. Len(y) : (x \o y)[Len(x) + i] = y[i]
        <5>1. x \in Seq(Commands) /\ y \in Seq(Commands)
          BY <4>1, <4>2
        <5> QED BY <5>1, ConcatFacts
      <4>4. m \in Seq(Commands) /\ DOMAIN m = 1 .. 3 /\ m[1] = x[1] /\ m[2] = y[1] /\ m[3] = y[2]
        BY <3>1, <4>1, <4>2, <4>3
      <4> QED BY <4>1, <4>2, <4>4
    <3>2. CASE m = << >> \o <<Cmd("position"), Cmd("isready")>>
      <4>1. m = <<Cmd("position"), Cmd("isready")>>
        BY <3>2
      <4> HIDE DEF m
      <4> QED BY <4>1, CommandTypes
    <3> QED BY <3>1, <3>2
  <2>2. Serves(c) /\ Send(c, m)
    <3>1. Mine(c) \in Objects
      BY <1>1, MineType
    <3>2. [Mine(c) EXCEPT !.lines = << >>].multipv = Mine(c).multipv
      BY <3>1 DEF Objects
    <3> QED BY <1>8, <3>2 DEF Prepare, SendOrLeave
  <2> HIDE DEF m
  <2>3. Feeds(c, m)
    BY <1>2, <1>8, <2>1, <2>2, SendFeeds DEF Feeds
  <2> QED BY <2>1, <2>3
<1>9. ASSUME Go(c), process' # process PROVE \E m \in Seq(Commands) : Feeds(c, m)
  <2> DEFINE m == <<With("go", c)>>
  <2>1. m \in Seq(Commands) /\ \A i \in DOMAIN m : m[i].cmd \notin {"variant", "multipv"}
    BY CommandTypes
  <2>2. Serves(c) /\ Send(c, m)
    BY <1>9 DEF Go, SendOrLeave
  <2>3. Feeds(c, m)
    BY <1>2, <1>9, <2>1, <2>2, SendFeeds DEF Feeds
  <2> QED BY <2>1, <2>3
<1>10. ASSUME SendStop(c), process' # process PROVE \E m \in Seq(Commands) : Feeds(c, m)
  <2> DEFINE m == <<Cmd("stop")>>
  <2>1. m \in Seq(Commands) /\ \A i \in DOMAIN m : m[i].cmd = "stop"
    BY CommandTypes
  <2>2. Serves(c) /\ Send(c, m)
    BY <1>10 DEF SendStop, SendOrLeave
  <2> HIDE DEF m
  <2>3. Feeds(c, m)
    BY <1>2, <2>1, <2>2, SendFeeds DEF Feeds
  <2> QED BY <2>1, <2>3
<1>11. ASSUME process' # process
       PROVE  CloseKill(c) \/ CloseQuit(c) \/ Handshake(c) \/ SetVariant(c) \/ Prepare(c) \/ Go(c) \/ SendStop(c)
  BY <1>11 DEF LooksOnly, WorksOn, CloseWaits, CloseExpires, UseEngine, CloseEnds, TakeLock, StartEnds, Searches,
         Waits, VariantSet, GameOver, ReadBestMove, ReadOther, ProcessExited, TimedOut, GivesUp
<1> QED BY <1>3, <1>4, <1>5, <1>6, <1>7, <1>8, <1>9, <1>10, <1>11

-----------------------------------------------------------------------------
(* Type correctness and ownership, step by step *)

\* What Feeds leaves of a process.
LEMMA FedProcess ==
  ASSUME TypeOK, NEW c \in Callers, NEW m \in Seq(Commands), Feeds(c, m), NEW p \in DOMAIN process
  PROVE  /\ process'[p].of = process[p].of /\ process'[p].eof = process[p].eof
         /\ process'[p].alive => process[p].alive
         /\ \/ /\ process'[p].search = process[p].search /\ process'[p].setting = process[p].setting
               /\ \/ process'[p].inq = process[p].inq
                  \/ p = Mine(c).proc /\ process[p].alive /\ process'[p].inq = process[p].inq \o m
            \/ ~process'[p].alive /\ process'[p].inq = << >>
<1>1. process[p] \in Processes
  BY DEF TypeOK
<1> QED BY <1>1, GoneFacts DEF Feeds, Processes

\* The steps of a caller that works on its object keep the types.
LEMMA MovesType ==
  ASSUME TypeOK, HasObject, LastProcess, NEW c \in Callers, LooksOnly(c) \/ WorksOn(c),
         NEW o \in Objects, NEW to \in Places, Moves(c, o, to), NEW m \in Seq(Commands), Feeds(c, m)
  PROVE  /\ TypeOK' /\ DOMAIN object' = DOMAIN object /\ DOMAIN process' = DOMAIN process
         /\ eng[c] \in DOMAIN object /\ object'[eng[c]] = o
         /\ \A e \in DOMAIN object \ {eng[c]} : object'[e] = object[e]
<1>1. eng[c] \in DOMAIN object /\ object \in Seq(Objects) /\ Mine(c) \in Objects
  BY MineType DEF Moves, TypeOK
<1>2. /\ object' \in Seq(Objects) /\ Len(object') = Len(object) /\ DOMAIN object' = DOMAIN object
      /\ object'[eng[c]] = o /\ \A e \in DOMAIN object \ {eng[c]} : object'[e] = object[e]
  BY <1>1, SetFacts DEF Moves
<1>3. process' \in Seq(Processes) /\ Len(process') = Len(process) /\ DOMAIN process' = DOMAIN process
  BY DEF Feeds, TypeOK
<1>4. closing' \in 0 .. Len(process')
  <2>1. closing' \in {closing, 0, Mine(c).proc}
    BY DEF LooksOnly, WorksOn, CloseQuit, CloseWaits, CloseExpires, CloseKill, UseEngine, CloseEnds, TakeLock,
         Handshake, StartEnds, Searches, Waits, SetVariant, VariantSet, GameOver, Prepare, Go, SendStop,
         ReadBestMove, ReadOther, ProcessExited, TimedOut, GivesUp, SendOrLeave, Leave, uci
  <2>2. Mine(c).proc \in 0 .. Len(process)
    <3>1. DOMAIN process = 1 .. Len(process) /\ Len(process) \in Nat
      BY DEF TypeOK
    <3>2. Mine(c).proc # 0 => Mine(c).proc \in DOMAIN process
      BY <1>1 DEF Mine, LastProcess
    <3> QED BY <3>1, <3>2
  <2> QED BY <1>3, <2>1, <2>2 DEF TypeOK
<1>5. stopSet' \subseteq Callers /\ told' \subseteq Callers /\ crashes' \in Nat /\ timeouts' \in Nat
  BY DEF TypeOK, LooksOnly, WorksOn, CloseQuit, CloseWaits, CloseExpires, CloseKill, UseEngine, CloseEnds, TakeLock,
         Handshake, StartEnds, Searches, Waits, SetVariant, VariantSet, GameOver, Prepare, Go, SendStop,
         ReadBestMove, ReadOther, ProcessExited, TimedOut, GivesUp, locals, faults
<1>6. uciLock' \in Callers \cup {Nobody} /\ shared' \in 0 .. Len(object')
  BY <1>1, <1>2 DEF TypeOK, Moves, LockMoves
<1>7. answer' \in [Callers -> Callers \cup {Nobody}]
  <2>1. CASE answer' = answer BY <2>1 DEF TypeOK
  <2>2. CASE Gets(c, "bestmove") /\ answer' = [answer EXCEPT ![c] = Head(Mine(c).lines).id]
    <3>1. Head(Mine(c).lines) \in LinesOut
      BY <1>1, <2>2, LeftFacts DEF Objects, Gets
    <3> QED BY <2>2, <3>1 DEF TypeOK, LinesOut
  <2> QED BY <2>1, <2>2 DEF Moves, AnswerMoves
<1>8. /\ pc' \in [Callers -> Places] /\ eng' \in [Callers -> 0 .. Len(object')]
      /\ cut' \subseteq DOMAIN object' /\ mixed' \subseteq DOMAIN object' /\ late' \subseteq DOMAIN object'
      /\ ran' \in [Callers -> Settings]
  BY <1>1, <1>2 DEF TypeOK, Moves, LateMoves
<1> QED BY <1>1, <1>2, <1>3, <1>4, <1>5, <1>6, <1>7, <1>8 DEF TypeOK

\* They keep the objects and the locks in hand.
LEMMA MovesOwnership ==
  ASSUME TypeOK, Ownership, NEW c \in Callers, LooksOnly(c) \/ WorksOn(c),
         NEW o \in Objects, NEW to \in Places, Moves(c, o, to), NEW m \in Seq(Commands), Feeds(c, m)
  PROVE  Ownership'
<1> USE DEF Ownership
<1>1. /\ DOMAIN object' = DOMAIN object /\ DOMAIN process' = DOMAIN process
      /\ eng[c] \in DOMAIN object /\ object'[eng[c]] = o /\ Mine(c) = object[eng[c]]
      /\ \A e \in DOMAIN object \ {eng[c]} : object'[e] = object[e]
  BY MovesType DEF Mine
<1>2. pc \in [Callers -> Places] /\ pc' = [pc EXCEPT ![c] = to] /\ eng' = eng /\ eng[c] # 0
  BY <1>1 DEF TypeOK, Moves
<1>3. LockMoves(c, o, to) /\ (to \notin {"out", "uciok"} \/ to = pc[c]) /\ pc[c] \notin {"out", "new", "done", "failed"}
  BY DEF Moves
<1>4. HasObject'
  BY <1>2 DEF HasObject
<1>5. ReplacerLocks'
  BY <1>2, <1>3, CallersAssumption DEF LockMoves, ReplacerLocks, Replacing, Starting, Holding
<1>6. FreshObject'
  <2> SUFFICES ASSUME NEW d \in Callers, uciLock' = d, pc'[d] \in Starting
               PROVE  eng[d] # shared' /\ \A x \in Callers \ {d} : eng[x] # eng[d]
    BY <1>2 DEF FreshObject
  <2>1. uciLock = d /\ uciLock' = uciLock /\ shared' = shared
    BY <1>3, CallersAssumption DEF LockMoves
  <2>2. pc[d] \in Starting
    BY <1>2, <1>3, <2>1 DEF LockMoves, ReplacerLocks, Replacing, Starting, Holding
  <2> QED BY <2>1, <2>2 DEF FreshObject
<1>7. HoldsLock'
  <2> SUFFICES ASSUME NEW d \in Callers, pc'[d] \in Starting \cup Searching, uciLock' # d
               PROVE  object'[eng[d]].lock = d
    BY <1>2 DEF HoldsLock
  <2>1. CASE d = c
    <3>1. pc'[d] = to
      BY <1>2, <2>1
    <3> QED BY <1>1, <1>2, <1>3, <2>1, <3>1 DEF LockMoves, HoldsLock, ReplacerLocks, Replacing, Starting, Searching, Holding
  <2>2. CASE d # c
    <3>1. pc[d] \in Starting \cup Searching
      BY <1>2, <2>2
    <3>2. uciLock # d
      BY <1>3, <2>2 DEF LockMoves
    <3>3. object[eng[d]].lock = d
      BY <3>1, <3>2 DEF HoldsLock
    <3>4. eng[d] \in DOMAIN object
      BY <3>1, MineType DEF Starting, Searching
    <3>5. CASE eng[d] # eng[c]
      BY <1>1, <3>3, <3>4, <3>5
    <3>6. CASE eng[d] = eng[c]
      <4>1. Mine(c).lock = d /\ Mine(c).lock # Nobody
        BY <1>1, <3>3, <3>6, CallersAssumption
      <4>2. pc[c] \in Holding => uciLock = c
        BY <1>1, <2>2, <4>1 DEF HoldsLock, Holding
      <4>3. o.lock = d
        BY <1>3, <4>1, <4>2 DEF LockMoves
      <4> QED BY <1>1, <3>6, <4>3
    <3> QED BY <3>5, <3>6
  <2> QED BY <2>1, <2>2
<1>8. /\ \A p \in DOMAIN process : process'[p].of = process[p].of /\ process'[p].eof = process[p].eof
      /\ \A p \in DOMAIN process : process'[p].alive => process[p].alive
  BY FedProcess
<1>9. \A e \in DOMAIN object : object'[e].proc \in {object[e].proc, 0}
  BY <1>1 DEF Moves
<1>10. LastProcess'
  <2>1. \A p \in DOMAIN process' : process'[p].of \in DOMAIN object'
    BY <1>1, <1>8 DEF LastProcess
  <2>2. ASSUME NEW e \in DOMAIN object', object'[e].proc # 0
        PROVE  /\ object'[e].proc \in DOMAIN process' /\ process'[object'[e].proc].of = e
               /\ \A p \in DOMAIN process' : process'[p].of = e => p <= object'[e].proc
    <3>1. e \in DOMAIN object /\ object'[e].proc = object[e].proc
      BY <1>1, <1>9, <2>2
    <3>2. /\ object[e].proc \in DOMAIN process /\ process[object[e].proc].of = e
          /\ \A p \in DOMAIN process : process[p].of = e => p <= object[e].proc
      BY <2>2, <3>1 DEF LastProcess
    <3> QED BY <1>1, <1>8, <3>1, <3>2
  <2> QED BY <2>1, <2>2 DEF LastProcess
<1>11. EndMarkLast'
  BY <1>1, <1>8 DEF EndMarkLast
<1> QED BY <1>4, <1>5, <1>6, <1>7, <1>10, <1>11

\* What a line put into a queue changes.
LEMMA PutsFacts ==
  ASSUME TypeOK, LastProcess, NEW p \in DOMAIN process, NEW line \in LinesOut, Puts(p, line)
  PROVE  LET e == process[p].of
         IN /\ e \in DOMAIN object /\ object' \in Seq(Objects) /\ Len(object') = Len(object)
            /\ DOMAIN object' = DOMAIN object
            /\ object'[e].lines = Append(object[e].lines, line)
            /\ \A d \in DOMAIN object :
                 /\ object'[d].proc = object[d].proc /\ object'[d].lock = object[d].lock
                 /\ object'[d].active = object[d].active /\ object'[d].multipv = object[d].multipv
                 /\ d # e => object'[d] = object[d]
<1> DEFINE e == process[p].of
           x == [object[e] EXCEPT !.lines = Append(object[e].lines, line)]
<1>1. e \in DOMAIN object /\ object \in Seq(Objects)
  BY DEF LastProcess, TypeOK
<1>2. object[e] \in Objects
  BY <1>1
<1>3. Append(object[e].lines, line) \in Seq(LinesOut)
  BY <1>2 DEF Objects
<1>4. /\ x \in Objects /\ x.lines = Append(object[e].lines, line) /\ x.proc = object[e].proc
      /\ x.lock = object[e].lock /\ x.active = object[e].active /\ x.multipv = object[e].multipv
  BY <1>2, <1>3 DEF Objects
<1>5. object' = [object EXCEPT ![e] = x]
  BY DEF Puts
<1> HIDE DEF x, e
<1>6. /\ object' \in Seq(Objects) /\ Len(object') = Len(object) /\ DOMAIN object' = DOMAIN object
      /\ object'[e] = x /\ \A d \in DOMAIN object \ {e} : object'[d] = object[d]
  BY <1>1, <1>4, <1>5, SetFacts
<1> QED BY <1>1, <1>4, <1>6 DEF e

\* What the execution of a command makes of a process.
LEMMA ObeyFacts ==
  ASSUME NEW p \in DOMAIN process, process[p] \in Processes, process[p].inq # << >>,
         process[p].alive, ~process[p].eof
  PROVE  LET x == Head(process[p].inq)
             w == Obey(p, x)
         IN /\ x \in Commands /\ w \in Processes /\ w.of = process[p].of /\ ~w.eof
            /\ x.cmd = "quit" => ~w.alive /\ w.inq = << >>
            /\ x.cmd # "quit" => w.inq = Tail(process[p].inq)
            /\ x.cmd # "quit" => w.setting.variant = IF x.cmd = "variant" THEN x.arg ELSE process[p].setting.variant
            /\ x.cmd # "quit" => w.setting.pv = IF x.cmd = "multipv" THEN x.arg ELSE process[p].setting.pv
            /\ x.cmd # "quit" => w.search = IF x.cmd = "go" THEN x.arg ELSE process[p].search
<1> DEFINE x == Head(process[p].inq)
           w == [process[p] EXCEPT !.inq = Tail(@)]
<1>1. process[p].inq \in Seq(Commands)
  BY DEF Processes
<1>2. x \in Commands /\ Tail(process[p].inq) \in Seq(Commands)
  BY <1>1
<1>3. /\ w \in Processes /\ w.of = process[p].of /\ ~w.eof /\ w.inq = Tail(process[p].inq)
      /\ w.setting = process[p].setting /\ w.search = process[p].search
  BY <1>2 DEF Processes
<1>4. Obey(p, x) = CASE x.cmd = "variant" -> [w EXCEPT !.setting.variant = x.arg]
                     [] x.cmd = "multipv" -> [w EXCEPT !.setting.pv = x.arg]
                     [] x.cmd = "go"      -> [w EXCEPT !.search = x.arg]
                     [] x.cmd = "stop"    -> [w EXCEPT !.halted = w.search # Nobody]
                     [] x.cmd = "quit"    -> Gone(w)
                     [] OTHER -> w
  BY DEF Obey
<1> HIDE DEF x, w
<1>5. x.arg \in Args /\ x.cmd \in Kinds /\ (x.cmd = "go" => x.arg \in Callers)
  BY <1>2 DEF Commands
<1>6. w.setting \in Settings
  BY <1>3 DEF Processes
<1>7. CASE x.cmd = "variant"
  <2> DEFINE y == [w EXCEPT !.setting.variant = x.arg]
  <2>1. Obey(p, x) = y
    BY <1>4, <1>7
  <2>2. y \in Processes /\ y.of = w.of /\ y.eof = w.eof /\ y.inq = w.inq /\ y.search = w.search
        /\ y.setting.variant = x.arg /\ y.setting.pv = w.setting.pv
    BY <1>3, <1>5, <1>6 DEF Processes, Settings
  <2> QED BY <1>2, <1>3, <1>7, <2>1, <2>2 DEF x
<1>8. CASE x.cmd = "multipv"
  <2> DEFINE y == [w EXCEPT !.setting.pv = x.arg]
  <2>1. Obey(p, x) = y
    BY <1>4, <1>8
  <2>2. y \in Processes /\ y.of = w.of /\ y.eof = w.eof /\ y.inq = w.inq /\ y.search = w.search
        /\ y.setting.pv = x.arg /\ y.setting.variant = w.setting.variant
    BY <1>3, <1>5, <1>6 DEF Processes, Settings
  <2> QED BY <1>2, <1>3, <1>8, <2>1, <2>2 DEF x
<1>9. CASE x.cmd = "go"
  <2> DEFINE y == [w EXCEPT !.search = x.arg]
  <2>1. Obey(p, x) = y
    BY <1>4, <1>9
  <2>2. y \in Processes /\ y.of = w.of /\ y.eof = w.eof /\ y.inq = w.inq /\ y.search = x.arg
        /\ y.setting = w.setting
    BY <1>3, <1>5, <1>9 DEF Processes
  <2> QED BY <1>2, <1>3, <1>9, <2>1, <2>2 DEF x
<1>10. CASE x.cmd = "stop"
  <2> DEFINE y == [w EXCEPT !.halted = w.search # Nobody]
  <2>1. Obey(p, x) = y
    BY <1>4, <1>10
  <2>2. y \in Processes /\ y.of = w.of /\ y.eof = w.eof /\ y.inq = w.inq /\ y.search = w.search
        /\ y.setting = w.setting
    BY <1>3 DEF Processes
  <2> QED BY <1>2, <1>3, <1>10, <2>1, <2>2 DEF x
<1>11. CASE x.cmd = "quit"
  <2>1. Obey(p, x) = Gone(w)
    BY <1>4, <1>11
  <2> QED BY <1>2, <1>3, <1>11, <2>1, GoneFacts DEF x
<1>12. CASE x.cmd \notin {"variant", "multipv", "go", "stop", "quit"}
  <2>1. Obey(p, x) = w
    BY <1>4, <1>12
  <2> QED BY <1>2, <1>3, <1>12, <2>1 DEF x
<1> QED BY <1>7, <1>8, <1>9, <1>10, <1>11, <1>12

ProcessStep(p) == Command(p) \/ SearchEnds(p) \/ Crash(p) \/ ReaderEnds(p)
Quits(p) == Command(p) /\ Head(process[p].inq).cmd = "quit"

\* A process that is told to quit ends.
LEMMA QuitFacts ==
  ASSUME TypeOK, EndMarkLast, NEW p \in DOMAIN process, Quits(p)
  PROVE  /\ ~process'[p].alive /\ process'[p].inq = << >>
         /\ process[p].alive /\ UNCHANGED <<object, ran>>
<1>1. process[p] \in Processes /\ process \in Seq(Processes) /\ p # 0
  BY DEF TypeOK
<1>2. /\ process[p].alive /\ process[p].inq # << >> /\ Head(process[p].inq).cmd = "quit"
      /\ process' = [process EXCEPT ![p] = Obey(p, Head(process[p].inq))] /\ UNCHANGED <<object, ran>>
  BY <1>1 DEF Quits, Command, Alive
<1>3. ~process[p].eof
  BY <1>2 DEF EndMarkLast
<1>4. process'[p] = Obey(p, Head(process[p].inq))
  BY <1>1, <1>2
<1> QED BY <1>1, <1>2, <1>3, <1>4, ObeyFacts

\* What a step of a process or its reader leaves alone.
LEMMA ProcessFrame ==
  ASSUME TypeOK, LastProcess, EndMarkLast, NEW p \in DOMAIN process, ProcessStep(p)
  PROVE  /\ TypeOK' /\ UNCHANGED <<uci, pc, locals, mixed, cut, late, answer>>
         /\ DOMAIN object' = DOMAIN object /\ DOMAIN process' = DOMAIN process
         /\ \A q \in DOMAIN process \ {p} : process'[q] = process[q]
         /\ process'[p].of = process[p].of /\ (process'[p].alive => process[p].alive)
         /\ process[p].eof => process'[p].eof
         /\ process'[p].eof => ~process'[p].alive
         /\ \A d \in DOMAIN object :
              /\ object'[d].proc = object[d].proc /\ object'[d].lock = object[d].lock
              /\ object'[d].active = object[d].active /\ object'[d].multipv = object[d].multipv
              /\ d # process[p].of => object'[d] = object[d]
<1> DEFINE x == process[p]
<1>1. x \in Processes /\ process \in Seq(Processes) /\ p # 0 /\ object \in Seq(Objects)
  BY DEF TypeOK
<1>2. UNCHANGED <<uci, pc, locals, mixed, cut, late, answer, timeouts>>
  BY DEF ProcessStep, Command, SearchEnds, Crash, ReaderEnds, faults
<1>3. PICK y \in Processes : /\ process' = [process EXCEPT ![p] = y] /\ y.of = x.of
                             /\ (y.alive => x.alive) /\ (x.eof => y.eof) /\ (y.eof => ~y.alive)
  <2>1. CASE Command(p)
    <3>1. x.alive /\ x.inq # << >> /\ process' = [process EXCEPT ![p] = Obey(p, Head(x.inq))]
      BY <1>1, <2>1 DEF Command, Alive
    <3>2. ~x.eof
      BY <3>1 DEF EndMarkLast
    <3> QED BY <1>1, <3>1, <3>2, ObeyFacts
  <2>2. CASE SearchEnds(p)
    <3> DEFINE y == [x EXCEPT !.search = Nobody, !.halted = FALSE]
    <3>1. x.alive /\ process' = [process EXCEPT ![p] = y]
      BY <1>1, <2>2 DEF SearchEnds, Alive
    <3>2. ~x.eof
      BY <3>1 DEF EndMarkLast
    <3>3. y \in Processes /\ y.of = x.of /\ y.alive = x.alive /\ y.eof = x.eof
      BY <1>1 DEF Processes
    <3> QED BY <3>1, <3>2, <3>3
  <2>3. CASE Crash(p)
    <3> DEFINE y == Gone(x)
    <3>1. process' = [process EXCEPT ![p] = y] /\ x.alive
      BY <1>1, <2>3 DEF Crash, Alive
    <3>2. y \in Processes /\ y.of = x.of /\ ~y.alive /\ y.eof = x.eof
      BY <1>1, GoneFacts
    <3> QED BY <3>1, <3>2
  <2>4. CASE ReaderEnds(p)
    <3> DEFINE y == [x EXCEPT !.eof = TRUE]
    <3>1. process' = [process EXCEPT ![p] = y] /\ ~x.alive
      BY <1>1, <2>4 DEF ReaderEnds, Alive
    <3>2. y \in Processes /\ y.of = x.of /\ y.alive = x.alive /\ y.eof = TRUE
      BY <1>1 DEF Processes
    <3> QED BY <3>1, <3>2
  <2> QED BY <2>1, <2>2, <2>3, <2>4 DEF ProcessStep
<1>4. /\ process' \in Seq(Processes) /\ Len(process') = Len(process) /\ DOMAIN process' = DOMAIN process
      /\ process'[p] = y /\ \A q \in DOMAIN process \ {p} : process'[q] = process[q]
  BY <1>3, ProcessSet
<1> DEFINE Kept ==
      /\ object' \in Seq(Objects) /\ Len(object') = Len(object) /\ DOMAIN object' = DOMAIN object
      /\ \A d \in DOMAIN object :
           /\ object'[d].proc = object[d].proc /\ object'[d].lock = object[d].lock
           /\ object'[d].active = object[d].active /\ object'[d].multipv = object[d].multipv
           /\ d # process[p].of => object'[d] = object[d]
<1>5. Kept
  <2>1. CASE UNCHANGED object BY <1>1, <2>1
  <2>2. ASSUME NEW line \in LinesOut, Puts(p, line) PROVE Kept
    BY <2>2, PutsFacts
  <2>3. \A k \in Texts : Line(k) \in LinesOut
    BY DEF Line, LinesOut
  <2>4. [kind |-> "bestmove", id |-> process[p].search] \in LinesOut
    BY <1>1 DEF Processes, LinesOut, Texts
  <2>5. UNCHANGED object \/ \E line \in LinesOut : Puts(p, line)
    <3>1. "uciok" \in Texts /\ "readyok" \in Texts /\ "None" \in Texts
      BY DEF Texts
    <3>2. CASE Command(p) BY <2>3, <3>1, <3>2 DEF Command
    <3>3. CASE SearchEnds(p) BY <2>4, <3>3 DEF SearchEnds
    <3>4. CASE Crash(p) BY <3>4 DEF Crash
    <3>5. CASE ReaderEnds(p) BY <2>3, <3>1, <3>5 DEF ReaderEnds
    <3> QED BY <3>2, <3>3, <3>4, <3>5 DEF ProcessStep
  <2> QED BY <2>1, <2>2, <2>5
<1>6. ran' \in [Callers -> Settings] /\ crashes' \in Nat
  <2>1. process[p].setting \in Settings
    BY <1>1 DEF Processes
  <2>2. ran' = ran \/ \E c : ran' = [ran EXCEPT ![c] = process[p].setting]
    BY DEF ProcessStep, Command, SearchEnds, Crash, ReaderEnds
  <2>3. ran' \in [Callers -> Settings]
    BY <2>1, <2>2 DEF TypeOK
  <2>4. crashes' \in {crashes, crashes + 1}
    BY DEF ProcessStep, Command, SearchEnds, Crash, ReaderEnds, faults
  <2> QED BY <2>3, <2>4 DEF TypeOK
<1>7. TypeOK'
  BY <1>2, <1>4, <1>5, <1>6 DEF TypeOK, uci, locals
<1> QED BY <1>2, <1>3, <1>4, <1>5, <1>7

\* It leaves the ownership alone.
LEMMA ProcessOwnership ==
  ASSUME TypeOK, Ownership, NEW p \in DOMAIN process, ProcessStep(p)
  PROVE  Ownership'
<1> USE DEF Ownership
<1>1. UNCHANGED <<uci, pc, locals, mixed, cut, answer>> /\ DOMAIN object' = DOMAIN object /\ DOMAIN process' = DOMAIN process
  BY ProcessFrame
<1>2. \A q \in DOMAIN process : process'[q].of = process[q].of /\ (process'[q].eof => ~process'[q].alive)
  BY ProcessFrame DEF EndMarkLast
<1>3. \A d \in DOMAIN object : object'[d].proc = object[d].proc /\ object'[d].lock = object[d].lock
  BY ProcessFrame
<1>4. HasObject' /\ ReplacerLocks' /\ FreshObject'
  BY <1>1 DEF HasObject, ReplacerLocks, FreshObject, uci, locals
<1>5. HoldsLock'
  <2> SUFFICES ASSUME NEW d \in Callers, pc[d] \in Starting \cup Searching, uciLock # d
               PROVE  object'[eng[d]].lock = d
    BY <1>1 DEF HoldsLock, uci, locals
  <2>1. eng[d] \in DOMAIN object
    BY DEF HasObject, TypeOK, Starting, Searching
  <2> QED BY <1>3, <2>1 DEF HoldsLock
<1>6. LastProcess'
  BY <1>1, <1>2, <1>3 DEF LastProcess
<1>7. EndMarkLast'
  BY <1>1, <1>2 DEF EndMarkLast
<1> QED BY <1>4, <1>5, <1>6, <1>7

\* A caller that comes, or is told to stop, changes nothing of the objects.
Comes(c) == GetShared(c) \/ GetOther(c) \/ StopEvent(c)

\* It keeps the types and the ownership.
LEMMA ComesOwnership ==
  ASSUME TypeOK, Ownership, NEW c \in Callers, Comes(c)
  PROVE  TypeOK' /\ Ownership'
<1> USE DEF Ownership
<1>0. Nobody \notin Callers /\ Streams \subseteq Callers
  BY CallersAssumption
<1>1. UNCHANGED <<shared, closing, object, process, faults, answer, ran, told>>
  BY DEF Comes, GetShared, GetOther, StopEvent, uci
<1>2. LastProcess' /\ EndMarkLast'
  BY <1>1 DEF LastProcess, EndMarkLast
<1>3. CASE StopEvent(c)
  <2>1. UNCHANGED <<uciLock, pc, eng>> /\ stopSet' \subseteq Callers
    BY <1>0, <1>3 DEF StopEvent, uci, TypeOK
  <2>2. TypeOK'
    BY <1>1, <2>1 DEF TypeOK, faults
  <2>3. HasObject' /\ ReplacerLocks' /\ FreshObject' /\ HoldsLock'
    BY <1>1, <2>1 DEF HasObject, ReplacerLocks, FreshObject, HoldsLock
  <2> QED BY <1>2, <2>2, <2>3
<1>4. ASSUME GetShared(c) \/ GetOther(c) PROVE TypeOK' /\ Ownership'
  <2>1. /\ pc[c] = "out" /\ uciLock = Nobody /\ eng' = [eng EXCEPT ![c] = shared] /\ stopSet' = stopSet
        /\ \/ uciLock' = Nobody /\ shared # 0 /\ pc' = [pc EXCEPT ![c] = "got"]
           \/ uciLock' = c /\ shared = 0 /\ pc' = [pc EXCEPT ![c] = "new"]
           \/ uciLock' = c /\ shared # 0 /\ pc' = [pc EXCEPT ![c] = "close"]
    BY <1>4 DEF GetShared, GetOther, At, uci
  <2>2. TypeOK'
    BY <1>1, <2>1 DEF TypeOK, faults, Places, Replacing
  <2>3. HasObject'
    BY <2>1 DEF HasObject, TypeOK
  <2>4. ReplacerLocks'
    BY <1>0, <2>1 DEF ReplacerLocks, TypeOK, Replacing, Starting
  <2>5. FreshObject'
    BY <1>0, <2>1 DEF FreshObject, TypeOK, Starting
  <2>6. HoldsLock'
    BY <1>0, <1>1, <2>1 DEF HoldsLock, TypeOK, Starting, Searching
  <2> QED BY <1>2, <2>2, <2>3, <2>4, <2>5, <2>6
<1> QED BY <1>3, <1>4 DEF Comes

\* A new object keeps them.
LEMMA NewEngineOwnership ==
  ASSUME TypeOK, Ownership, NEW c \in Callers, NewEngine(c)
  PROVE  /\ TypeOK' /\ Ownership'
         /\ DOMAIN object' = DOMAIN object \cup {Len(object) + 1} /\ Len(object) + 1 \notin DOMAIN object
         /\ object'[Len(object) + 1] = NewObject /\ \A e \in DOMAIN object : object'[e] = object[e]
<1> USE DEF Ownership
<1> DEFINE n == Len(object) + 1
<1>1. object \in Seq(Objects) /\ NewObject \in Objects /\ Len(object) \in Nat /\ uciLock = c
  BY DEF TypeOK, NewObject, Objects, Args, NewEngine, ReplacerLocks, Replacing
<1>2. /\ object' \in Seq(Objects) /\ Len(object') = n /\ DOMAIN object' = 1 .. n
      /\ object'[n] = NewObject /\ \A e \in 1 .. Len(object) : object'[e] = object[e]
  BY <1>1, AppendFacts DEF NewEngine
<1>3. DOMAIN object = 1 .. Len(object)
  BY <1>1
<1>4. DOMAIN object' = DOMAIN object \cup {n} /\ n \notin DOMAIN object /\ \A e \in DOMAIN object : object'[e] = object[e]
  BY <1>1, <1>2, <1>3
<1>5. /\ UNCHANGED <<uci, stopSet, told, process, faults, answer, ran>>
      /\ pc[c] = "new" /\ pc' = [pc EXCEPT ![c] = "spawn"] /\ eng' = [eng EXCEPT ![c] = n]
  BY DEF NewEngine, At
<1> HIDE DEF n
<1>6. n \in Nat /\ n # 0 /\ 0 .. Len(object) \subseteq 0 .. n /\ n \in 0 .. n
  BY <1>1 DEF n
<1>7. TypeOK'
  BY <1>2, <1>4, <1>5, <1>6 DEF TypeOK, uci, faults, Places, Starting
<1>8. HasObject' /\ ReplacerLocks'
  BY <1>1, <1>5, <1>6 DEF HasObject, ReplacerLocks, uci, TypeOK, Replacing, Starting
<1>9. FreshObject'
  <2>1. n \notin 0 .. Len(object)
    BY <1>1 DEF n
  <2>2. shared # n /\ \A d \in Callers : eng[d] # n
    BY <2>1 DEF TypeOK
  <2> QED BY <1>1, <1>5, <2>2 DEF FreshObject, TypeOK, uci, Starting
<1>10. HoldsLock'
  <2> SUFFICES ASSUME NEW d \in Callers, pc'[d] \in Starting \cup Searching, uciLock # d
               PROVE  object'[eng'[d]].lock = d
    BY <1>5 DEF HoldsLock, uci
  <2>1. d # c /\ pc[d] \in Starting \cup Searching /\ eng'[d] = eng[d]
    BY <1>1, <1>5 DEF TypeOK
  <2>2. eng[d] \in DOMAIN object
    BY <2>1 DEF HasObject, TypeOK, Starting, Searching
  <2> QED BY <1>4, <2>1, <2>2 DEF HoldsLock
<1>11. LastProcess'
  <2>1. NewObject.proc = 0
    BY DEF NewObject
  <2> QED BY <1>2, <1>4, <1>5, <2>1 DEF LastProcess
<1>12. EndMarkLast'
  BY <1>5 DEF EndMarkLast
<1> QED BY <1>2, <1>4, <1>7, <1>8, <1>9, <1>10, <1>11, <1>12 DEF n

\* What a new process changes.
LEMMA SpawnFacts ==
  ASSUME TypeOK, Ownership, NEW c \in Callers, Spawn(c)
  PROVE  LET e == eng[c]
             n == Len(process) + 1
         IN /\ e \in DOMAIN object /\ n \notin DOMAIN process /\ n # 0 /\ \A p \in DOMAIN process : p < n
            /\ process' \in Seq(Processes) /\ DOMAIN process' = DOMAIN process \cup {n}
            /\ process'[n] = NewProcess(e) /\ \A p \in DOMAIN process : process'[p] = process[p]
            /\ object' \in Seq(Objects) /\ DOMAIN object' = DOMAIN object /\ Len(object') = Len(object)
            /\ Len(process') = n
            /\ \A d \in DOMAIN object \ {e} : object'[d] = object[d]
            /\ object'[e].proc = n /\ object'[e].lines = << >> /\ object'[e].lock = object[e].lock
            /\ pc[c] = "spawn" /\ pc' = [pc EXCEPT ![c] = "uciok"]
<1> DEFINE e == eng[c]
           n == Len(process) + 1
           x == [object[e] EXCEPT !.proc = n, !.lines = << >>]
<1>1. pc[c] = "spawn" /\ pc' = [pc EXCEPT ![c] = "uciok"] /\ process' = Append(process, NewProcess(e))
  BY DEF Spawn, At
<1>2. e \in DOMAIN object /\ object[e] \in Objects /\ object \in Seq(Objects)
  BY <1>1, MineType DEF Ownership, Mine, TypeOK
<1>3. process \in Seq(Processes) /\ Len(process) \in Nat /\ DOMAIN process = 1 .. Len(process)
  BY DEF TypeOK
<1>4. NewProcess(e) \in Processes
  <2>1. <<Cmd("uci")>> \in Seq(Commands) /\ e \in Nat
    BY <1>2, CommandTypes DEF Kinds
  <2>2. Default \in Settings
    BY DEF Default, Settings, Args
  <2> QED BY <2>1, <2>2 DEF NewProcess, Processes
<1>5. /\ process' \in Seq(Processes) /\ Len(process') = n /\ DOMAIN process' = 1 .. n
      /\ process'[n] = NewProcess(e) /\ \A p \in 1 .. Len(process) : process'[p] = process[p]
  BY <1>1, <1>3, <1>4, AppendFacts
<1>6. << >> \in Seq(LinesOut) /\ n \in Nat
  BY <1>3
<1>7. x \in Objects /\ x.proc = n /\ x.lines = << >> /\ x.lock = object[e].lock
  BY <1>2, <1>6 DEF Objects
<1>8. object' = [object EXCEPT ![e] = x]
  BY DEF Spawn, Set, Mine
<1> HIDE DEF x
<1>9. /\ object' \in Seq(Objects) /\ Len(object') = Len(object) /\ DOMAIN object' = DOMAIN object
      /\ object'[e] = x /\ \A d \in DOMAIN object \ {e} : object'[d] = object[d]
  BY <1>2, <1>7, <1>8, SetFacts
<1>10. DOMAIN process' = DOMAIN process \cup {n} /\ n \notin DOMAIN process /\ n # 0 /\ \A p \in DOMAIN process : p < n
  BY <1>3, <1>5
<1> QED BY <1>1, <1>2, <1>3, <1>5, <1>7, <1>9, <1>10

\* It keeps the types and the ownership.
LEMMA SpawnOwnership ==
  ASSUME TypeOK, Ownership, NEW c \in Callers, Spawn(c)
  PROVE  TypeOK' /\ Ownership'
<1> USE DEF Ownership
<1> DEFINE e == eng[c]
           n == Len(process) + 1
<1>1. /\ e \in DOMAIN object /\ n \notin DOMAIN process /\ n # 0 /\ \A p \in DOMAIN process : p < n
      /\ process' \in Seq(Processes) /\ DOMAIN process' = DOMAIN process \cup {n}
      /\ process'[n] = NewProcess(e) /\ \A p \in DOMAIN process : process'[p] = process[p]
      /\ object' \in Seq(Objects) /\ DOMAIN object' = DOMAIN object /\ Len(object') = Len(object)
      /\ Len(process') = n
      /\ \A d \in DOMAIN object \ {e} : object'[d] = object[d]
      /\ object'[e].proc = n /\ object'[e].lock = object[e].lock
      /\ pc[c] = "spawn" /\ pc' = [pc EXCEPT ![c] = "uciok"]
  BY SpawnFacts
<1>2. UNCHANGED <<uci, locals, crashes, timeouts, cut, answer, ran>> /\ mixed' \in {mixed, mixed \cup {e}} /\ late' = late \ {e}
  BY DEF Spawn
<1>3. closing' \in 0 .. n
  BY <1>2 DEF TypeOK, uci
<1> HIDE DEF n
<1>4. TypeOK'
  BY <1>1, <1>2, <1>3 DEF TypeOK, uci, locals, Places, Starting
<1>5. HasObject' /\ ReplacerLocks' /\ FreshObject'
  BY <1>1, <1>2 DEF HasObject, ReplacerLocks, FreshObject, uci, locals, TypeOK, Starting, Replacing
<1>6. HoldsLock'
  <2> SUFFICES ASSUME NEW d \in Callers, pc'[d] \in Starting \cup Searching, uciLock # d
               PROVE  object'[eng[d]].lock = d
    BY <1>2 DEF HoldsLock, uci, locals
  <2>1. pc[d] \in Starting \cup Searching
    BY <1>1 DEF TypeOK, Starting, Searching
  <2>2. eng[d] \in DOMAIN object
    BY <2>1 DEF HasObject, TypeOK, Starting, Searching
  <2> QED BY <1>1, <2>1, <2>2 DEF HoldsLock
<1>7. NewProcess(e).of = e /\ ~NewProcess(e).eof
  BY DEF NewProcess
<1>8. LastProcess'
  <2>1. \A p \in DOMAIN process' : process'[p].of \in DOMAIN object'
    BY <1>1, <1>7 DEF LastProcess
  <2>2. ASSUME NEW d \in DOMAIN object', object'[d].proc # 0
        PROVE  /\ object'[d].proc \in DOMAIN process' /\ process'[object'[d].proc].of = d
               /\ \A p \in DOMAIN process' : process'[p].of = d => p <= object'[d].proc
    <3>1. CASE d = e
      <4>1. \A p \in DOMAIN process' : p <= n
        <5>1. n \in Nat
          BY <1>1 DEF TypeOK, n
        <5> QED BY <1>1, <5>1 DEF TypeOK
      <4> QED BY <1>1, <1>7, <3>1, <4>1
    <3>2. CASE d # e
      <4>1. object'[d] = object[d] /\ d \in DOMAIN object
        BY <1>1, <3>2
      <4>2. /\ object[d].proc \in DOMAIN process /\ process[object[d].proc].of = d
            /\ \A p \in DOMAIN process : process[p].of = d => p <= object[d].proc
        BY <2>2, <4>1 DEF LastProcess
      <4> QED BY <1>1, <1>7, <3>2, <4>1, <4>2
    <3> QED BY <3>1, <3>2
  <2> QED BY <2>1, <2>2 DEF LastProcess
<1>9. EndMarkLast'
  BY <1>1, <1>7 DEF EndMarkLast
<1> QED BY <1>4, <1>5, <1>6, <1>8, <1>9

-----------------------------------------------------------------------------
(* Whose bestmoves there are: steps that leave an object calm *)

\* The step reads lines of e at most; no go reaches a process of e, none is
\* executed and no search ends.
Calm(e) ==
  /\ Left(object[e].lines, object'[e].lines)
  /\ \A p \in DOMAIN process' :
       Runner(e, p)' =>
         /\ Runner(e, p) /\ process'[p].search = process[p].search
         /\ Asked(e, p)' = Asked(e, p)
         /\ \A i \in Asked(e, p) : process'[p].inq[i] = process[p].inq[i]

\* The lines that are left were there before, in the same order.
LEMMA LeftDone ==
  ASSUME NEW e, NEW k \in Nat, object[e].lines \in Seq(LinesOut), object'[e].lines \in Seq(LinesOut),
         Len(object'[e].lines) = Len(object[e].lines) - k,
         \A i \in 1 .. Len(object'[e].lines) : object'[e].lines[i] = object[e].lines[i + k]
  PROVE  \A i \in Done(e)' : i \in Nat /\ i + k \in Done(e) /\ object'[e].lines[i] = object[e].lines[i + k]
<1> DEFINE s == object[e].lines
           t == object'[e].lines
<1>1. \A i \in DOMAIN t : i \in Nat /\ i \in 1 .. Len(t) /\ i + k \in DOMAIN s
  <2> HIDE DEF s, t
  <2>1. s \in Seq(LinesOut) /\ t \in Seq(LinesOut) /\ Len(t) = Len(s) - k
    BY DEF s, t
  <2> QED BY <2>1
<1> QED BY <1>1 DEF Done

\* A calm step adds no search and no bestmove.
LEMMA CalmKeeps ==
  ASSUME TypeOK, TypeOK', NEW e \in DOMAIN object, e \in DOMAIN object', Calm(e)
  PROVE  /\ Quiet(e) => Quiet(e)'
         /\ \A c \in Callers : OnlyFor(e, c) => OnlyFor(e, c)'
<1>1. object[e].lines \in Seq(LinesOut) /\ object'[e].lines \in Seq(LinesOut)
  <2>1. object[e] \in Objects /\ object'[e] \in Objects
    BY DEF TypeOK
  <2> QED BY <2>1 DEF Objects
<1>2. PICK k \in 0 .. Len(object[e].lines) :
        /\ Len(object'[e].lines) = Len(object[e].lines) - k
        /\ \A i \in 1 .. Len(object'[e].lines) : object'[e].lines[i] = object[e].lines[i + k]
  BY DEF Calm, Left
<1>3. k \in Nat
  BY <1>1, <1>2
<1>4. \A i \in Done(e)' : i \in Nat /\ i + k \in Done(e) /\ object'[e].lines[i] = object[e].lines[i + k]
  BY <1>1, <1>2, <1>3, LeftDone
<1>5. \A p \in DOMAIN process' :
        Runner(e, p)' =>
          /\ p \in DOMAIN process /\ Runner(e, p) /\ process'[p].search = process[p].search
          /\ Asked(e, p)' = Asked(e, p)
          /\ \A i \in Asked(e, p) : process'[p].inq[i] = process[p].inq[i]
  BY DEF Calm, Runner
<1>6. ASSUME Quiet(e) PROVE Quiet(e)'
  <2>1. Done(e)' = {}
    BY <1>4, <1>6 DEF Quiet
  <2> QED BY <1>5, <1>6, <2>1 DEF Quiet
<1>7. ASSUME NEW c \in Callers, OnlyFor(e, c) PROVE OnlyFor(e, c)'
  <2>1. \A i \in Done(e)' : object'[e].lines[i].id = c
    BY <1>4, <1>7 DEF OnlyFor
  <2>2. ASSUME NEW i \in Done(e)', NEW j \in Done(e)' PROVE i = j
    <3>1. i + k = j + k /\ i \in Nat /\ j \in Nat
      BY <1>4, <1>7 DEF OnlyFor
    <3> QED BY <1>3, <3>1
  <2>3. Done(e)' # {} => Done(e) # {}
    BY <1>4
  <2> QED BY <1>5, <1>7, <2>1, <2>2, <2>3 DEF OnlyFor
<1> QED BY <1>6, <1>7

\* Two callers do not work on the same object.
LEMMA Exclusive ==
  ASSUME Ownership, NEW c \in Callers, NEW d \in Callers, c # d,
         pc[c] \in Holding, pc[d] \in Holding
  PROVE  eng[c] # eng[d]
<1> USE DEF Ownership
<1>1. CASE uciLock = c
  BY <1>1 DEF FreshObject, ReplacerLocks, Holding, Replacing, Starting, Searching
<1>2. CASE uciLock = d
  BY <1>2 DEF FreshObject, ReplacerLocks, Holding, Replacing, Starting, Searching
<1>3. CASE uciLock \notin {c, d}
  BY <1>3 DEF HoldsLock, Holding
<1> QED BY <1>1, <1>2, <1>3

\* No go reaches the process of an object but from the caller's Go.
LEMMA FedAsked ==
  ASSUME TypeOK, NEW c \in Callers, NEW m \in Seq(Commands), Feeds(c, m), NEW e,
         NEW p \in DOMAIN process, process'[p].alive,
         \/ p # Mine(c).proc
         \/ \A i \in DOMAIN m : m[i].cmd # "go"
  PROVE  Asked(e, p)' = Asked(e, p) /\ \A i \in Asked(e, p) : process'[p].inq[i] = process[p].inq[i]
<1>1. CASE process'[p].inq = process[p].inq
  BY <1>1 DEF Asked
<1>2. CASE p = Mine(c).proc /\ process'[p].inq = process[p].inq \o m
  <2>1. process[p].inq \in Seq(Commands)
    <3>1. process[p] \in Processes
      BY DEF TypeOK
    <3> QED BY <3>1 DEF Processes
  <2> DEFINE q == process[p].inq
             r == process'[p].inq
  <2> HIDE DEF q
  <2>2. /\ DOMAIN r = 1 .. Len(q) + Len(m) /\ \A i \in 1 .. Len(q) : r[i] = q[i]
        /\ \A i \in 1 .. Len(m) : r[Len(q) + i] = m[i]
    BY <1>2, <2>1, ConcatFacts DEF q
  <2>3. DOMAIN q = 1 .. Len(q) /\ Len(q) \in Nat /\ DOMAIN m = 1 .. Len(m) /\ Len(m) \in Nat
    BY <2>1 DEF q
  <2> HIDE DEF r
  <2>4. \A i \in DOMAIN r : i \in DOMAIN q \/ r[i].cmd # "go"
    <3> SUFFICES ASSUME NEW i \in 1 .. Len(q) + Len(m), i \notin 1 .. Len(q) PROVE r[i].cmd # "go"
      BY <2>2, <2>3
    <3>1. i - Len(q) \in 1 .. Len(m) /\ i = Len(q) + (i - Len(q))
      BY <2>3
    <3> QED BY <1>2, <2>2, <2>3, <3>1
  <2>5. \A i \in DOMAIN q : i \in DOMAIN r /\ r[i] = q[i]
    BY <2>2, <2>3
  <2>6. {i \in DOMAIN r : r[i].cmd = "go"} = {i \in DOMAIN q : q[i].cmd = "go"}
    BY <2>4, <2>5
  <2> QED BY <2>5, <2>6 DEF Asked, q, r
<1> QED BY <1>1, <1>2, FedProcess

\* The steps of a caller leave every object calm, but for its go.
LEMMA CallerCalm ==
  ASSUME TypeOK, Ownership, NEW c \in Callers, LooksOnly(c) \/ WorksOn(c),
         NEW o \in Objects, NEW to \in Places, Moves(c, o, to), NEW m \in Seq(Commands), Feeds(c, m),
         NEW e \in DOMAIN object, ~Go(c) \/ eng[c] # e
  PROVE  Calm(e)
<1> USE DEF Ownership
<1>1. /\ DOMAIN process' = DOMAIN process /\ eng[c] \in DOMAIN object /\ object'[eng[c]] = o
      /\ \A d \in DOMAIN object \ {eng[c]} : object'[d] = object[d]
  BY MovesType
<1>2. Left(object[e].lines, object'[e].lines)
  <2>1. CASE e = eng[c]
    BY <1>1, <2>1 DEF Moves, Mine
  <2>2. CASE e # eng[c]
    <3>1. object[e] \in Objects
      BY DEF TypeOK
    <3>2. object[e].lines \in Seq(LinesOut)
      BY <3>1 DEF Objects
    <3> QED BY <1>1, <2>2, <3>2, LeftFacts
  <2> QED BY <2>1, <2>2
<1>3. ASSUME NEW p \in DOMAIN process', Runner(e, p)'
      PROVE  /\ Runner(e, p) /\ process'[p].search = process[p].search
             /\ Asked(e, p)' = Asked(e, p)
             /\ \A i \in Asked(e, p) : process'[p].inq[i] = process[p].inq[i]
  <2>1. Runner(e, p) /\ process'[p].search = process[p].search
    BY <1>1, <1>3, FedProcess DEF Runner
  <2>2. p # Mine(c).proc \/ \A i \in DOMAIN m : m[i].cmd # "go"
    <3> SUFFICES ASSUME Go(c), p = Mine(c).proc PROVE FALSE
      BY DEF Feeds
    <3>1. p # 0
      BY <1>1, <1>3 DEF TypeOK
    <3>2. process[p].of = eng[c]
      BY <1>1, <3>1 DEF LastProcess, Mine
    <3> QED BY <2>1, <3>2 DEF Runner
  <2> QED BY <1>1, <1>3, <2>1, <2>2, FedAsked DEF Runner
<1> QED BY <1>2, <1>3 DEF Calm

-----------------------------------------------------------------------------
(* Answers, step by step *)

\* The places between a process that is started and a go.
Preparing == (Starting \cup Searching) \ {"spawn", "read"}

\* How a caller comes to prepare a search, to wait for its bestmove, and on.
LEMMA Progress ==
  ASSUME TypeOK, NEW c \in Callers, LooksOnly(c) \/ WorksOn(c)
  PROVE  /\ pc[c] # "spawn"
         /\ pc'[c] \in Preparing => pc[c] \in Preparing \/ (TakeLock(c) /\ Serves(c))
         /\ pc'[c] = "read" => pc[c] = "read" \/ (Go(c) /\ Serves(c))
         /\ pc[c] = "read" /\ pc'[c] # "read" =>
              \/ ~Serves(c)
              \/ ProcessExited(c) \/ ReadBestMove(c) \/ GivesUp(c)
         /\ pc[c] = "read" => pc'[c] \in {"read", "done", "failed"}
         /\ Go(c) => /\ pc[c] = "positionReady" /\ pc'[c] \in {"read", "failed"}
                     /\ Serves(c) => pc'[c] = "read"
<1> USE DEF Preparing, Starting, Searching, At
<1>0. pc \in [Callers -> Places]
  BY DEF TypeOK
<1>1. CASE LooksOnly(c)
  BY <1>0, <1>1 DEF LooksOnly, CloseQuit, CloseWaits, CloseExpires, CloseKill, UseEngine, Go
<1>2. CASE CloseEnds(c) BY <1>0, <1>2 DEF CloseEnds, Go
<1>3. CASE TakeLock(c) BY <1>0, <1>3 DEF TakeLock, Go
<1>4. CASE Handshake(c) BY <1>0, <1>4 DEF Handshake, Go, SendOrLeave, Leave
<1>5. CASE StartEnds(c) BY <1>0, <1>5 DEF StartEnds, Go
<1>6. CASE SetVariant(c) BY <1>0, <1>6 DEF SetVariant, Go, SendOrLeave, Leave
<1>7. CASE VariantSet(c) BY <1>0, <1>7 DEF VariantSet, Go
<1>8. CASE GameOver(c) BY <1>0, <1>8 DEF GameOver, Go, Leave
<1>9. CASE Prepare(c) BY <1>0, <1>9 DEF Prepare, Go, SendOrLeave, Leave
<1>10. CASE Go(c)
  <2>1. pc[c] = "positionReady" /\ pc' = [pc EXCEPT ![c] = IF Serves(c) THEN "read" ELSE "failed"]
    BY <1>10 DEF Go, SendOrLeave, Leave
  <2> QED BY <1>0, <1>10, <2>1
<1>11. CASE SendStop(c)
  <2>1. pc[c] = "read" /\ pc' = [pc EXCEPT ![c] = IF Serves(c) THEN "read" ELSE "failed"]
    BY <1>11 DEF SendStop, SendOrLeave, Leave
  <2> QED BY <1>0, <2>1 DEF Go
<1>12. CASE ReadBestMove(c)
  <2>1. pc[c] = "read" /\ pc' = [pc EXCEPT ![c] = "done"]
    BY <1>12 DEF ReadBestMove, Leave
  <2> QED BY <1>0, <1>12, <2>1 DEF Go
<1>13. CASE ReadOther(c)
  <2>1. pc[c] \in {"uciok", "startReady", "variantReady", "positionReady", "read"} /\ pc' = pc
    BY <1>13 DEF ReadOther, Awaited
  <2>2. Go(c) => pc[c] = "positionReady" /\ pc' = [pc EXCEPT ![c] = IF Serves(c) THEN "read" ELSE "failed"]
    BY DEF Go, SendOrLeave, Leave
  <2> QED BY <1>0, <2>1, <2>2
<1>14. CASE ProcessExited(c)
  <2>1. pc[c] \in {"uciok", "startReady", "variantReady", "positionReady", "read"} /\ pc' = [pc EXCEPT ![c] = "failed"]
    BY <1>14 DEF ProcessExited, Leave, Awaited
  <2>2. Go(c) => pc[c] = "positionReady" /\ pc' = [pc EXCEPT ![c] = IF Serves(c) THEN "read" ELSE "failed"]
    BY DEF Go, SendOrLeave, Leave
  <2> QED BY <1>0, <1>14, <2>1, <2>2
<1>15. CASE TimedOut(c)
  <2>1. pc[c] \in {"uciok", "startReady", "variantReady", "positionReady"} /\ pc' = [pc EXCEPT ![c] = "failed"]
    BY <1>15 DEF TimedOut, Leave, Awaited
  <2>2. Go(c) => pc[c] = "positionReady" /\ pc' = [pc EXCEPT ![c] = IF Serves(c) THEN "read" ELSE "failed"]
    BY DEF Go, SendOrLeave, Leave
  <2> QED BY <1>0, <2>1, <2>2
<1>16. CASE GivesUp(c)
  <2>1. pc[c] = "read" /\ pc' = [pc EXCEPT ![c] = "failed"]
    BY <1>16 DEF GivesUp, Leave
  <2> QED BY <1>0, <1>16, <2>1 DEF Go
<1> QED BY <1>1, <1>2, <1>3, <1>4, <1>5, <1>6, <1>7, <1>8, <1>9, <1>10, <1>11, <1>12, <1>13, <1>14, <1>15, <1>16
        DEF WorksOn, Searches, Waits

\* The line that a caller gets is the first of its queue.
LEMMA GetsFirst ==
  ASSUME TypeOK, HasObject, NEW c \in Callers, pc[c] \notin {"out", "new"}, NEW kind, Gets(c, kind)
  PROVE  LET s == object[eng[c]].lines
         IN /\ s \in Seq(LinesOut) /\ Len(s) \in Nat /\ 1 \in DOMAIN s /\ s[1].kind = kind
            /\ s[1] = Head(s) /\ Len(Rest(c)) = Len(s) - 1
            /\ \A i \in DOMAIN Rest(c) : i \in Nat /\ i + 1 \in DOMAIN s /\ Rest(c)[i] = s[i + 1]
<1> DEFINE s == object[eng[c]].lines
<1>1. s \in Seq(LinesOut)
  BY MineType DEF Mine
<1>2. s # << >> /\ Head(s).kind = kind /\ Rest(c) = Tail(s)
  BY DEF Gets, Mine, Rest
<1> HIDE DEF s
<1>3. 1 \in DOMAIN s /\ s[1] = Head(s) /\ Len(Tail(s)) = Len(s) - 1
      /\ \A i \in DOMAIN Tail(s) : i \in Nat /\ i + 1 \in DOMAIN s /\ Tail(s)[i] = s[i + 1]
  BY <1>1, <1>2
<1> QED BY <1>1, <1>2, <1>3 DEF s

\* The go of a caller is the only one on its quiet object.
LEMMA GoIsOnly ==
  ASSUME TypeOK, TypeOK', Ownership, NEW c \in Callers, Go(c), NEW o \in Objects, NEW to \in Places, Moves(c, o, to),
         NEW m \in Seq(Commands), Feeds(c, m), eng[c] \in DOMAIN object, Quiet(eng[c]),
         DOMAIN process' = DOMAIN process, object'[eng[c]] = o, DOMAIN object' = DOMAIN object
  PROVE  OnlyFor(eng[c], c)'
<1> DEFINE e == eng[c]
<1>0. c # Nobody /\ eng' = eng
  BY CallersAssumption DEF Moves
<1>1. Done(e)' = {}
  <2>1. object[e] \in Objects /\ object'[e] \in Objects
    BY DEF TypeOK
  <2>2. object[e].lines \in Seq(LinesOut) /\ object'[e].lines \in Seq(LinesOut)
    BY <2>1 DEF Objects
  <2>3. PICK k \in 0 .. Len(object[e].lines) :
          /\ Len(object'[e].lines) = Len(object[e].lines) - k
          /\ \A i \in 1 .. Len(object'[e].lines) : object'[e].lines[i] = object[e].lines[i + k]
    BY DEF Moves, Mine, Left
  <2>4. k \in Nat
    BY <2>2, <2>3
  <2>5. \A i \in Done(e)' : i + k \in Done(e)
    BY <2>2, <2>3, <2>4, LeftDone, <1>0
  <2> QED BY <2>5 DEF Quiet
<1>2. ASSUME NEW p \in DOMAIN process', Runner(e, p)'
      PROVE  /\ process'[p].search = Nobody
             /\ \A i \in Asked(e, p)' : process'[p].inq[i].arg = c
             /\ \A i, j \in Asked(e, p)' : i = j
  <2>1. p \in DOMAIN process /\ Runner(e, p) /\ process'[p].search = process[p].search
    BY <1>0, <1>2, FedProcess DEF Runner
  <2>2. process[p].search = Nobody /\ Asked(e, p) = {}
    BY <2>1 DEF Quiet
  <2>3. CASE process'[p].inq = process[p].inq
    BY <1>0, <2>1, <2>2, <2>3 DEF Asked
  <2>4. CASE process'[p].inq = process[p].inq \o m
    <3> DEFINE q == process[p].inq
               r == process'[p].inq
    <3>1. q \in Seq(Commands)
      <4>1. process[p] \in Processes
        BY <2>1 DEF TypeOK
      <4> QED BY <4>1 DEF Processes
    <3>2. CASE m = <<With("go", c)>>
      <4>1. DOMAIN r = 1 .. Len(q) + 1 /\ r[Len(q) + 1] = With("go", c) /\ \A i \in 1 .. Len(q) : r[i] = q[i]
        <5>1. r = Append(q, With("go", c)) /\ With("go", c) \in Commands
          BY <2>4, <3>1, <3>2, CommandTypes
        <5> HIDE DEF q, r
        <5> QED BY <3>1, <5>1, AppendFacts
      <4>2. DOMAIN q = 1 .. Len(q) /\ Len(q) \in Nat
        BY <3>1
      <4>3. \A i \in DOMAIN r : r[i].cmd = "go" => i = Len(q) + 1
        <5>1. \A i \in DOMAIN q : q[i].cmd # "go"
          BY <2>2 DEF Asked
        <5> HIDE DEF q, r
        <5> QED BY <4>1, <4>2, <5>1
      <4>4. With("go", c).arg = c
        BY DEF With
      <4> QED BY <1>0, <2>1, <2>2, <4>1, <4>3, <4>4 DEF Asked
    <3>3. CASE \A i \in DOMAIN m : m[i].cmd # "go"
      <4>1. Asked(e, p)' = Asked(e, p)
        BY <1>2, <2>1, <3>3, FedAsked, <1>0 DEF Runner
      <4> QED BY <1>0, <2>1, <2>2, <4>1
    <3> QED BY <3>2, <3>3 DEF Feeds
  <2> QED BY <1>2, <2>1, <2>3, <2>4, FedProcess DEF Runner
<1> HIDE DEF e
<1>3. \A p \in DOMAIN process' : Runner(e, p)' =>
         /\ process'[p].search \in {c, Nobody}
         /\ \A i \in Asked(e, p)' : process'[p].inq[i].arg = c
         /\ \A i, j \in Asked(e, p)' : i = j
         /\ process'[p].search # c
  BY <1>0, <1>2
<1>4. OnlyFor(e, c)'
  BY <1>1, <1>3 DEF OnlyFor
<1> QED BY <1>0, <1>4 DEF e

\* A process that a go finds idle has nothing left over from another call.
LEMMA IdleIsQuiet ==
  ASSUME TypeOK, Ownership, OneWriter, NEW c \in Callers, eng[c] \in DOMAIN object, eng[c] \notin mixed, Idle(c)
  PROVE  Quiet(eng[c])
<1> DEFINE e == eng[c]
           n == Mine(c).proc
<1>1. n # 0 /\ process[n].search = Nobody /\ Mine(c) = object[e]
      /\ (\A i \in DOMAIN process[n].inq : process[n].inq[i].cmd # "go")
      /\ \A i \in DOMAIN object[e].lines : object[e].lines[i].kind # "bestmove"
  BY DEF Idle, Serves, Alive, Mine
<1>2. n \in DOMAIN process /\ process[n].of = e /\ \A p \in DOMAIN process : process[p].of = e => p <= n
  BY <1>1 DEF Ownership, LastProcess
<1>3. \A p \in DOMAIN process : p \in Nat
  BY DEF TypeOK
<1> HIDE DEF n
<1>4. ASSUME NEW p \in DOMAIN process, Runner(e, p) PROVE p = n
  <2>1. p <= n /\ ~process[p].eof /\ process[p].of = e
    BY <1>2, <1>4 DEF Runner, Ownership, EndMarkLast
  <2>2. ~(p < n)
    BY <1>2, <2>1 DEF OneWriter
  <2> QED BY <1>2, <1>3, <2>1, <2>2
<1>5. Done(e) = {} /\ Asked(e, n) = {}
  BY <1>1 DEF Done, Asked
<1> QED BY <1>1, <1>4, <1>5 DEF Quiet

\* They keep the answers apart.
LEMMA MovesAnswers ==
  ASSUME TypeOK, Ownership, Answers, NEW c \in Callers, LooksOnly(c) \/ WorksOn(c),
         NEW o \in Objects, NEW to \in Places, Moves(c, o, to), NEW m \in Seq(Commands), Feeds(c, m)
  PROVE  Answers'
<1> USE DEF Ownership, Answers
<1>1. /\ TypeOK' /\ DOMAIN object' = DOMAIN object /\ DOMAIN process' = DOMAIN process
      /\ eng[c] \in DOMAIN object /\ object'[eng[c]] = o
      /\ \A e \in DOMAIN object \ {eng[c]} : object'[e] = object[e]
  BY MovesType
<1>2. pc \in [Callers -> Places] /\ pc' = [pc EXCEPT ![c] = to] /\ eng' = eng /\ mixed' = mixed
      /\ c # Nobody /\ Nobody \notin Callers
  BY CallersAssumption DEF TypeOK, Moves
<1>3. \A p \in DOMAIN process :
        /\ process'[p].of = process[p].of /\ process'[p].eof = process[p].eof
        /\ process'[p].alive => process[p].alive
  BY FedProcess
<1>4. \A e \in DOMAIN object : Left(object[e].lines, object'[e].lines) /\ object'[e].proc \in {0, object[e].proc}
  <2> SUFFICES ASSUME NEW e \in DOMAIN object, e # eng[c]
               PROVE  Left(object[e].lines, object'[e].lines)
    BY <1>1 DEF Moves, Mine
  <2>1. object[e] \in Objects
    BY DEF TypeOK
  <2>2. object[e].lines \in Seq(LinesOut)
    BY <2>1 DEF Objects
  <2> QED BY <1>1, <2>2, LeftFacts
<1>5. \A e \in DOMAIN object : Alive(object[e].proc)' => Alive(object[e].proc)
  <2> SUFFICES ASSUME NEW e \in DOMAIN object, Alive(object[e].proc)' PROVE Alive(object[e].proc)
    OBVIOUS
  <2>1. object'[e].proc # 0 /\ object'[e].proc = object[e].proc /\ process'[object[e].proc].alive
    BY <1>4 DEF Alive
  <2>2. object[e].proc \in DOMAIN process
    BY <2>1 DEF LastProcess
  <2> QED BY <1>3, <2>1, <2>2 DEF Alive
<1>6. \A e \in DOMAIN object : (~Go(c) \/ eng[c] # e) =>
        /\ Quiet(e) => Quiet(e)'
        /\ \A d \in Callers : OnlyFor(e, d) => OnlyFor(e, d)'
  BY <1>1, CallerCalm, CalmKeeps
<1>7. /\ pc[c] # "spawn"
      /\ pc'[c] \in Preparing => pc[c] \in Preparing \/ (TakeLock(c) /\ Serves(c))
      /\ pc'[c] = "read" => pc[c] = "read" \/ (Go(c) /\ Serves(c))
      /\ pc[c] = "read" /\ pc'[c] # "read" => ~Serves(c) \/ ProcessExited(c) \/ ReadBestMove(c) \/ GivesUp(c)
      /\ Go(c) => /\ pc[c] = "positionReady" /\ pc'[c] \in {"read", "failed"}
                  /\ Serves(c) => pc'[c] = "read"
  BY Progress
<1>8. \A d \in Callers \ {c} : pc[d] \in Holding /\ Go(c) => eng[d] # eng[c]
  BY <1>7, Exclusive DEF Holding, Searching
<1>9. \A d \in Callers : pc[d] \notin {"out", "new"} => eng[d] \in DOMAIN object
  BY MineType
<1>16. /\ GivesUp(c) => eng[c] \in late'
       /\ \A e : e \notin mixed \cup late' => e \notin mixed \cup late \/ (e = eng[c] /\ Go(c) /\ Idle(c))
  <2>1. LateMoves(c) /\ (Go(c) => ~GivesUp(c))
    BY <1>7 DEF Moves, GivesUp
  <2>2. CASE late' = late /\ ~GivesUp(c) BY <2>2
  <2>3. CASE GivesUp(c) /\ late' = late \cup {eng[c]} BY <2>3
  <2>4. CASE Go(c) /\ Idle(c) /\ late' = late \ {eng[c]} BY <2>1, <2>4
  <2> QED BY <2>1, <2>2, <2>3, <2>4 DEF LateMoves
<1>17. Go(c) /\ eng[c] \notin mixed \cup late' => Quiet(eng[c])
  BY <1>1, <1>7, <1>16, IdleIsQuiet DEF QuietBefore, Searching
<1>10. OneWriter'
  BY <1>1, <1>2, <1>3 DEF OneWriter
<1>11. NoEarlyEnd'
  <2> SUFFICES ASSUME NEW e \in DOMAIN object, e \notin mixed, Alive(object[e].proc)',
                      NEW i \in DOMAIN object'[e].lines
               PROVE  object'[e].lines[i].kind # "None"
    BY <1>1, <1>2 DEF NoEarlyEnd
  <2>1. object[e] \in Objects /\ object'[e] \in Objects
    BY <1>1 DEF TypeOK
  <2>2. object[e].lines \in Seq(LinesOut) /\ object'[e].lines \in Seq(LinesOut)
    BY <2>1 DEF Objects
  <2>3. \E j \in DOMAIN object[e].lines : object'[e].lines[i] = object[e].lines[j]
    BY <1>4, <2>2, LeftIn
  <2> QED BY <1>5, <2>3 DEF NoEarlyEnd
<1>12. QuietBefore'
  <2> SUFFICES ASSUME NEW d \in Callers, pc'[d] \in Preparing, eng[d] \notin mixed \cup late'
               PROVE  Quiet(eng[d])'
    BY <1>2 DEF QuietBefore, Preparing
  <2>1. CASE d # c
    <3>1. pc[d] \in Preparing /\ Quiet(eng[d]) /\ pc[d] \in Holding /\ eng[d] \in DOMAIN object
      <4>1. pc[d] \in Preparing /\ pc[d] \in Holding /\ eng[d] \in DOMAIN object
        BY <1>2, <1>9, <2>1 DEF Preparing, Holding, Starting, Searching
      <4>2. eng[d] \notin mixed \cup late
        BY <1>8, <1>16, <2>1, <4>1
      <4> QED BY <4>1, <4>2 DEF QuietBefore, Preparing
    <3>2. Quiet(eng[d])'
      BY <1>2, <1>6, <1>8, <2>1, <3>1
    <3> QED BY <3>2
  <2>2. CASE d = c /\ pc[c] \in Preparing
    <3>1. Quiet(eng[c]) /\ ~Go(c)
      BY <1>7, <1>16, <2>2 DEF QuietBefore, Preparing, Starting, Searching
    <3> QED BY <1>1, <1>2, <1>6, <2>2, <3>1
  <2>3. CASE d = c /\ TakeLock(c) /\ Serves(c)
    <3>1. Mine(c).lock = Nobody /\ ~Go(c) /\ Alive(object[eng[c]].proc)
      BY <2>3 DEF TakeLock, Go, Serves, Mine
    <3>2. ASSUME NEW x \in Callers, eng[x] = eng[c], pc[x] = "read" PROVE FALSE
      <4>1. uciLock # x
        BY <3>2 DEF ReplacerLocks, Replacing, Starting
      <4> QED BY <1>2, <3>1, <3>2, <4>1 DEF HoldsLock, Mine, Searching
    <3>3. Quiet(eng[c])
      BY <1>1, <1>16, <2>3, <3>1, <3>2 DEF QuietAfter
    <3> QED BY <1>1, <1>2, <1>6, <2>3, <3>1, <3>3
  <2> QED BY <1>7, <2>1, <2>2, <2>3
<1>13. OwnWhileReading'
  <2> SUFFICES ASSUME NEW d \in Callers, pc'[d] = "read", eng[d] \notin mixed \cup late'
               PROVE  OnlyFor(eng[d], d)'
    BY <1>2 DEF OwnWhileReading
  <2>1. CASE d # c
    <3>1. pc[d] = "read" /\ OnlyFor(eng[d], d) /\ pc[d] \in Holding /\ eng[d] \in DOMAIN object
      <4>1. pc[d] = "read" /\ pc[d] \in Holding /\ eng[d] \in DOMAIN object
        BY <1>2, <1>9, <2>1 DEF Holding, Searching
      <4>2. eng[d] \notin mixed \cup late
        BY <1>8, <1>16, <2>1, <4>1
      <4> QED BY <4>1, <4>2 DEF OwnWhileReading
    <3> QED BY <1>2, <1>6, <1>8, <2>1, <3>1
  <2>2. CASE d = c /\ pc[c] = "read"
    <3>1. OnlyFor(eng[c], c) /\ ~Go(c)
      BY <1>7, <1>16, <2>2 DEF OwnWhileReading
    <3> QED BY <1>1, <1>2, <1>6, <2>2, <3>1
  <2>3. CASE d = c /\ Go(c) /\ Serves(c)
    <3>1. Quiet(eng[c])
      BY <1>17, <2>3
    <3>2. OnlyFor(eng[c], c)'
      BY <1>1, <2>3, <3>1, GoIsOnly
    <3> QED BY <2>3, <3>2
  <2> QED BY <1>7, <2>1, <2>2, <2>3
<1>14. QuietAfter'
  <2> SUFFICES ASSUME NEW e \in DOMAIN object \ (mixed \cup late'), Alive(object[e].proc)',
                      \A d \in Callers : eng[d] = e => pc'[d] # "read"
               PROVE  Quiet(e)'
    BY <1>1, <1>2 DEF QuietAfter
  <2>1. Alive(object[e].proc)
    BY <1>5
  <2>2. CASE \A d \in Callers : eng[d] = e => pc[d] # "read"
    <3>2. ~Go(c) \/ eng[c] # e
      BY <1>7, <2>1 DEF Serves, Mine
    <3>1. Quiet(e)
      BY <1>16, <2>1, <2>2, <3>2 DEF QuietAfter
    <3> QED BY <1>6, <3>1, <3>2
  <2>3. CASE \E d \in Callers : eng[d] = e /\ pc[d] = "read"
    <3>1. eng[c] = e /\ pc[c] = "read" /\ pc'[c] # "read"
      BY <1>2, <2>3
    <3>2. ~Go(c) /\ Serves(c)
      BY <1>7, <2>1, <3>1 DEF Serves, Mine
    <3>3. ~ProcessExited(c)
      <4> SUFFICES ASSUME Gets(c, "None") PROVE FALSE
        BY DEF ProcessExited
      <4>1. 1 \in DOMAIN object[e].lines /\ object[e].lines[1].kind = "None"
        BY <3>1, GetsFirst
      <4> QED BY <2>1, <4>1 DEF NoEarlyEnd
    <3>4. ReadBestMove(c)
      BY <1>7, <1>16, <3>1, <3>2, <3>3
    <3>5. /\ 1 \in Done(e)
          /\ \A i \in DOMAIN Rest(c) : i \in Nat /\ i + 1 \in DOMAIN object[e].lines /\ Rest(c)[i] = object[e].lines[i + 1]
      BY <3>1, <3>4, GetsFirst DEF ReadBestMove, Done
    <3>6. OnlyFor(e, c)
      BY <1>16, <3>1, <3>2 DEF OwnWhileReading
    <3>7. object'[e].lines = Rest(c)
      <4> DEFINE x == [Mine(c) EXCEPT !.lines = Rest(c)]
                 y == [x EXCEPT !.lock = Nobody]
      <4>1. Mine(c) \in Objects
        BY <1>1 DEF TypeOK, Mine
      <4>2. x.lines = Rest(c) /\ y.lines = Rest(c)
        BY <4>1 DEF Objects
      <4>3. Leave(c, x, "done")
        BY <3>4 DEF ReadBestMove
      <4> HIDE DEF x
      <4>4. object' = [object EXCEPT ![e] = x] \/ object' = [object EXCEPT ![e] = y]
        BY <3>1, <4>3 DEF Leave, Set
      <4> QED BY <1>1, <3>1, <4>2, <4>4
    <3>8. Done(e)' = {}
      <4> SUFFICES ASSUME NEW i \in DOMAIN Rest(c), Rest(c)[i].kind = "bestmove" PROVE FALSE
        BY <3>7 DEF Done
      <4>1. i \in Nat /\ i + 1 \in Done(e)
        BY <3>5 DEF Done
      <4>2. i + 1 = 1 /\ i \in Nat
        BY <3>5, <3>6, <4>1 DEF OnlyFor
      <4>3. i \in 1 .. Len(Rest(c))
        <5>1. Mine(c).lines \in Seq(LinesOut) /\ Mine(c).lines # << >>
          BY <3>1, <3>4, MineType DEF ReadBestMove, Gets
        <5>2. Rest(c) \in Seq(LinesOut)
          BY <5>1 DEF Rest
        <5> QED BY <5>2
      <4> QED BY <4>2, <4>3
    <3>9. Calm(e)
      BY <3>2, CallerCalm
    <3>10. ASSUME NEW p \in DOMAIN process', Runner(e, p)'
           PROVE  process'[p].search = Nobody /\ Asked(e, p)' = {}
      <4>1. p \in DOMAIN process /\ Runner(e, p) /\ process'[p].search = process[p].search /\ Asked(e, p)' = Asked(e, p)
        BY <3>9, <3>10 DEF Calm, Runner
      <4> QED BY <3>5, <3>6, <4>1 DEF OnlyFor
    <3> QED BY <3>8, <3>10 DEF Quiet
  <2> QED BY <2>2, <2>3
<1>15. AnsweredOnce'
  <2>1. answer \in [Callers -> Callers \cup {Nobody}] /\ pc[c] # "done" /\ answer[c] = Nobody
    BY DEF TypeOK, Moves, AnsweredOnce
  <2>2. CASE answer' = answer
    BY <1>2, <2>1, <2>2 DEF AnsweredOnce
  <2>3. CASE /\ pc[c] = "read" /\ to = "done" /\ Gets(c, "bestmove")
             /\ answer' = [answer EXCEPT ![c] = Head(Mine(c).lines).id]
    BY <1>2, <2>1, <2>3 DEF AnsweredOnce
  <2> QED BY <2>2, <2>3 DEF Moves, AnswerMoves
<1> QED BY <1>10, <1>11, <1>12, <1>13, <1>14, <1>15

\* A step that leaves an object and its processes as they are leaves it calm.
LEMMA SameIsCalm ==
  ASSUME TypeOK, NEW e \in DOMAIN object, object'[e] = object[e],
         \A p \in DOMAIN process' : process'[p].of = e => p \in DOMAIN process /\ process'[p] = process[p]
  PROVE  Calm(e)
<1>1. object[e] \in Objects
  BY DEF TypeOK
<1>2. object[e].lines \in Seq(LinesOut)
  BY <1>1 DEF Objects
<1>3. Left(object[e].lines, object'[e].lines)
  BY <1>2, LeftFacts
<1>4. ASSUME NEW p \in DOMAIN process', Runner(e, p)'
      PROVE  /\ Runner(e, p) /\ process'[p].search = process[p].search
             /\ Asked(e, p)' = Asked(e, p)
             /\ \A i \in Asked(e, p) : process'[p].inq[i] = process[p].inq[i]
  BY <1>4 DEF Runner, Asked
<1> QED BY <1>3, <1>4 DEF Calm

\* The same for the answers, of a caller that comes or is told to stop.
LEMMA ComesAnswers ==
  ASSUME TypeOK, TypeOK', Ownership, Answers, NEW c \in Callers, Comes(c)
  PROVE  Answers'
<1> USE DEF Ownership, Answers
<1>1. UNCHANGED <<object, process, mixed, late, answer>>
  BY DEF Comes, GetShared, GetOther, StopEvent, faults
<1>2. \/ pc' = pc /\ eng' = eng
      \/ /\ pc[c] = "out" /\ eng' = [eng EXCEPT ![c] = shared]
         /\ pc' = [pc EXCEPT ![c] = "got"] \/ pc' = [pc EXCEPT ![c] = "new"] \/ pc' = [pc EXCEPT ![c] = "close"]
  BY DEF Comes, GetShared, GetOther, StopEvent, At
<1>3. \A d \in Callers : \/ pc'[d] = pc[d] /\ eng'[d] = eng[d]
                         \/ pc[d] = "out" /\ pc'[d] \in {"got", "new", "close"}
  BY <1>2 DEF TypeOK
<1>4. \A e \in DOMAIN object : /\ Quiet(e) => Quiet(e)'
                               /\ \A d \in Callers : OnlyFor(e, d) => OnlyFor(e, d)'
  BY <1>1, SameIsCalm, CalmKeeps
<1>5. \A d \in Callers : pc[d] \notin {"out", "new"} => eng[d] \in DOMAIN object
  BY MineType
<1>6. OneWriter' /\ NoEarlyEnd'
  BY <1>1 DEF OneWriter, NoEarlyEnd, Alive
<1>7. QuietBefore'
  <2> SUFFICES ASSUME NEW d \in Callers, pc'[d] \in Preparing, eng'[d] \notin mixed \cup late
               PROVE  Quiet(eng[d])'
    BY <1>1 DEF QuietBefore, Preparing
  <2>1. pc'[d] = pc[d] /\ eng'[d] = eng[d] /\ eng[d] \in DOMAIN object
    BY <1>3, <1>5 DEF Preparing, Starting, Searching
  <2>2. Quiet(eng[d])
    BY <2>1 DEF QuietBefore, Preparing
  <2>3. PICK e \in DOMAIN object : e = eng[d]
    BY <2>1
  <2>4. Quiet(e)'
    BY <1>4, <2>2, <2>3
  <2> QED BY <2>1, <2>3, <2>4
<1>8. OwnWhileReading'
  <2> SUFFICES ASSUME NEW d \in Callers, pc'[d] = "read", eng'[d] \notin mixed \cup late
               PROVE  OnlyFor(eng[d], d)'
    BY <1>1 DEF OwnWhileReading
  <2>1. pc'[d] = pc[d] /\ eng'[d] = eng[d] /\ eng[d] \in DOMAIN object
    BY <1>3, <1>5
  <2>2. OnlyFor(eng[d], d)
    BY <2>1 DEF OwnWhileReading
  <2>3. PICK e \in DOMAIN object : e = eng[d]
    BY <2>1
  <2>4. OnlyFor(e, d)'
    BY <1>4, <2>2, <2>3
  <2> QED BY <2>1, <2>3, <2>4
<1>9. QuietAfter'
  <2> SUFFICES ASSUME NEW e \in DOMAIN object \ (mixed \cup late), Alive(object[e].proc)',
                      \A d \in Callers : eng'[d] = e => pc'[d] # "read"
               PROVE  Quiet(e)'
    BY <1>1 DEF QuietAfter
  <2>1. Alive(object[e].proc) /\ \A d \in Callers : eng[d] = e => pc[d] # "read"
    BY <1>1, <1>3 DEF Alive
  <2> QED BY <1>4, <2>1 DEF QuietAfter
<1>10. AnsweredOnce'
  BY <1>1, <1>3 DEF AnsweredOnce
<1> QED BY <1>6, <1>7, <1>8, <1>9, <1>10

\* Of a caller that makes an object.
LEMMA NewEngineAnswers ==
  ASSUME TypeOK, Ownership, Answers, NEW c \in Callers, NewEngine(c)
  PROVE  Answers'
<1> USE DEF Ownership, Answers
<1> DEFINE n == Len(object) + 1
<1>1. /\ TypeOK' /\ DOMAIN object' = DOMAIN object \cup {n} /\ n \notin DOMAIN object
      /\ object'[n] = NewObject /\ \A e \in DOMAIN object : object'[e] = object[e]
  BY NewEngineOwnership
<1>2. /\ UNCHANGED <<process, mixed, late, answer>> /\ pc[c] = "new"
      /\ pc' = [pc EXCEPT ![c] = "spawn"] /\ eng' = [eng EXCEPT ![c] = n]
  BY DEF NewEngine, At, faults
<1> HIDE DEF n
<1>3. \A d \in Callers \ {c} : pc'[d] = pc[d] /\ eng'[d] = eng[d]
  BY <1>2 DEF TypeOK
<1>4. pc'[c] = "spawn" /\ NewObject.proc = 0 /\ answer[c] = Nobody
  BY <1>2 DEF TypeOK, NewObject, AnsweredOnce
<1>5. \A e \in DOMAIN object : /\ Quiet(e) => Quiet(e)'
                               /\ \A d \in Callers : OnlyFor(e, d) => OnlyFor(e, d)'
  BY <1>1, <1>2, SameIsCalm, CalmKeeps
<1>6. \A d \in Callers : pc[d] \notin {"out", "new"} => eng[d] \in DOMAIN object
  BY MineType
<1>7. OneWriter' /\ NoEarlyEnd'
  BY <1>1, <1>2, <1>4 DEF OneWriter, NoEarlyEnd, Alive
<1>8. QuietBefore'
  <2> SUFFICES ASSUME NEW d \in Callers, pc'[d] \in Preparing, eng'[d] \notin mixed \cup late
               PROVE  Quiet(eng[d])'
    BY <1>2 DEF QuietBefore, Preparing
  <2>1. pc'[d] = pc[d] /\ eng'[d] = eng[d] /\ eng[d] \in DOMAIN object
    BY <1>3, <1>4, <1>6 DEF Preparing, Starting, Searching
  <2>2. Quiet(eng[d])
    BY <2>1 DEF QuietBefore, Preparing
  <2>3. PICK e \in DOMAIN object : e = eng[d]
    BY <2>1
  <2>4. Quiet(e)'
    BY <1>5, <2>2, <2>3
  <2> QED BY <2>1, <2>3, <2>4
<1>9. OwnWhileReading'
  <2> SUFFICES ASSUME NEW d \in Callers, pc'[d] = "read", eng'[d] \notin mixed \cup late
               PROVE  OnlyFor(eng[d], d)'
    BY <1>2 DEF OwnWhileReading
  <2>1. pc'[d] = pc[d] /\ eng'[d] = eng[d] /\ eng[d] \in DOMAIN object
    BY <1>3, <1>4, <1>6
  <2>2. OnlyFor(eng[d], d)
    BY <2>1 DEF OwnWhileReading
  <2>3. PICK e \in DOMAIN object : e = eng[d]
    BY <2>1
  <2>4. OnlyFor(e, d)'
    BY <1>5, <2>2, <2>3
  <2> QED BY <2>1, <2>3, <2>4
<1>10. QuietAfter'
  <2> SUFFICES ASSUME NEW e \in DOMAIN object' \ (mixed \cup late), Alive(object[e].proc)',
                      \A d \in Callers : eng'[d] = e => pc'[d] # "read"
               PROVE  Quiet(e)'
    BY <1>2 DEF QuietAfter
  <2>1. e \in DOMAIN object /\ Alive(object[e].proc)
    BY <1>1, <1>2, <1>4 DEF Alive
  <2>2. \A d \in Callers : eng[d] = e => pc[d] # "read"
    BY <1>2, <1>3
  <2> QED BY <1>5, <2>1, <2>2 DEF QuietAfter
<1>11. AnsweredOnce'
  BY <1>2, <1>3, <1>4 DEF AnsweredOnce
<1> QED BY <1>7, <1>8, <1>9, <1>10, <1>11

\* Of a caller that starts a process.
LEMMA SpawnAnswers ==
  ASSUME TypeOK, Ownership, Answers, NEW c \in Callers, Spawn(c)
  PROVE  Answers'
<1> USE DEF Ownership, Answers
<1> DEFINE n == Len(process) + 1
<1>0. PICK e \in DOMAIN object : e = eng[c]
  BY SpawnFacts
<1>1. /\ TypeOK' /\ n \notin DOMAIN process /\ n # 0 /\ \A p \in DOMAIN process : p < n
      /\ DOMAIN process' = DOMAIN process \cup {n}
      /\ process'[n] = NewProcess(e) /\ \A p \in DOMAIN process : process'[p] = process[p]
      /\ DOMAIN object' = DOMAIN object
      /\ \A d \in DOMAIN object \ {e} : object'[d] = object[d]
      /\ object'[e].proc = n /\ object'[e].lines = << >>
      /\ pc[c] = "spawn" /\ pc' = [pc EXCEPT ![c] = "uciok"]
  BY <1>0, SpawnFacts, SpawnOwnership
<1>2. UNCHANGED <<eng, answer>> /\ mixed \subseteq mixed' /\ late' = late \ {e}
      /\ (e \notin mixed' => \A p \in DOMAIN process : process[p].of = e => process[p].eof)
  BY <1>0 DEF Spawn, locals
<1>3. n \in Nat /\ \A p \in DOMAIN process : p \in Nat
  BY DEF TypeOK
<1> HIDE DEF n
<1>4. NewProcess(e).of = e /\ NewProcess(e).search = Nobody /\ NewProcess(e).inq = <<Cmd("uci")>>
  BY DEF NewProcess
<1>5. \A d \in DOMAIN object \ {e} : /\ Quiet(d) => Quiet(d)'
                                     /\ \A x \in Callers : OnlyFor(d, x) => OnlyFor(d, x)'
  BY <1>1, <1>4, SameIsCalm, CalmKeeps
<1>6. \A d \in Callers : pc[d] \notin {"out", "new"} => eng[d] \in DOMAIN object
  BY MineType
<1>7. \A d \in Callers \ {c} : pc'[d] = pc[d] /\ (pc[d] \in Holding => eng[d] # e)
  BY <1>0, <1>1, Exclusive DEF TypeOK, Holding, Starting
<1>8. pc'[c] = "uciok" /\ answer[c] = Nobody
  BY <1>1 DEF TypeOK, AnsweredOnce
<1>9. e \notin mixed' => Quiet(e)'
  <2> SUFFICES ASSUME e \notin mixed' PROVE Quiet(e)'
    OBVIOUS
  <2>1. Done(e)' = {}
    <3> DEFINE none == << >>
    <3>1. DOMAIN none = {}
      OBVIOUS
    <3> HIDE DEF none
    <3>2. object'[e].lines = none
      BY <1>1 DEF none
    <3> QED BY <3>1, <3>2 DEF Done
  <2>2. ASSUME NEW p \in DOMAIN process', Runner(e, p)'
        PROVE  process'[p].search = Nobody /\ Asked(e, p)' = {}
    <3>1. p = n
      BY <1>1, <1>2, <2>2 DEF Runner, EndMarkLast
    <3>2. process'[p].search = Nobody /\ process'[p].inq = <<Cmd("uci")>>
      BY <1>1, <1>4, <3>1
    <3>3. Cmd("uci").cmd # "go"
      BY DEF Cmd
    <3> QED BY <3>2, <3>3 DEF Asked
  <2> QED BY <2>1, <2>2 DEF Quiet
<1>10. OneWriter'
  <2> SUFFICES ASSUME NEW p \in DOMAIN process', NEW q \in DOMAIN process', p < q,
                      process'[p].of = process'[q].of, process'[p].of \notin mixed'
               PROVE  process'[p].eof
    BY DEF OneWriter
  <2>1. p \in DOMAIN process
    BY <1>1, <1>3
  <2>2. CASE q = n BY <1>1, <1>2, <1>4, <2>1, <2>2
  <2>3. CASE q \in DOMAIN process BY <1>1, <1>2, <2>1, <2>3 DEF OneWriter
  <2> QED BY <1>1, <2>2, <2>3
<1>11. NoEarlyEnd'
  <2> SUFFICES ASSUME NEW d \in DOMAIN object, d \notin mixed', Alive(object[d].proc)',
                      NEW i \in DOMAIN object'[d].lines
               PROVE  object'[d].lines[i].kind # "None"
    BY <1>1 DEF NoEarlyEnd
  <2>1. d # e
    <3> DEFINE none == << >>
    <3>1. DOMAIN none = {}
      OBVIOUS
    <3> HIDE DEF none
    <3> QED BY <1>1, <3>1 DEF none
  <2>2. object'[d] = object[d] /\ object[d].proc # 0
    BY <1>1, <2>1 DEF Alive
  <2>3. Alive(object[d].proc)
    BY <1>1, <2>2 DEF Alive, LastProcess
  <2> QED BY <1>2, <2>2, <2>3 DEF NoEarlyEnd
<1>12. QuietBefore'
  <2> SUFFICES ASSUME NEW d \in Callers, pc'[d] \in Preparing, eng[d] \notin mixed' \cup late'
               PROVE  Quiet(eng[d])'
    BY <1>2 DEF QuietBefore, Preparing
  <2>1. CASE d = c BY <1>0, <1>2, <1>9, <2>1
  <2>2. CASE d # c
    <3>1. pc[d] \in Preparing /\ pc[d] \in Holding /\ eng[d] # e /\ eng[d] \in DOMAIN object
      BY <1>6, <1>7, <2>2 DEF Preparing, Holding, Starting, Searching
    <3>2. Quiet(eng[d])
      BY <1>2, <3>1 DEF QuietBefore, Preparing
    <3> QED BY <1>2, <1>5, <3>1, <3>2
  <2> QED BY <2>1, <2>2
<1>13. OwnWhileReading'
  <2> SUFFICES ASSUME NEW d \in Callers, pc'[d] = "read", eng[d] \notin mixed' \cup late'
               PROVE  OnlyFor(eng[d], d)'
    BY <1>2 DEF OwnWhileReading
  <2>1. d # c /\ pc[d] = "read" /\ pc[d] \in Holding
    BY <1>7, <1>8 DEF Holding, Searching
  <2>2. eng[d] # e /\ eng[d] \in DOMAIN object /\ OnlyFor(eng[d], d)
    BY <1>2, <1>6, <1>7, <2>1 DEF OwnWhileReading
  <2> QED BY <1>2, <1>5, <2>2
<1>14. QuietAfter'
  <2> SUFFICES ASSUME NEW d \in DOMAIN object \ (mixed' \cup late'), Alive(object[d].proc)', d # e,
                      \A x \in Callers : eng[x] = d => pc'[x] # "read"
               PROVE  Quiet(d)'
    BY <1>1, <1>2, <1>9 DEF QuietAfter
  <2>1. object'[d] = object[d] /\ object[d].proc # 0
    BY <1>1 DEF Alive
  <2>2. Alive(object[d].proc)
    BY <1>1, <2>1 DEF Alive, LastProcess
  <2>3. \A x \in Callers : eng[x] = d => pc[x] # "read"
    BY <1>0, <1>7
  <2> QED BY <1>2, <1>5, <2>2, <2>3 DEF QuietAfter
<1>15. AnsweredOnce'
  BY <1>2, <1>7, <1>8 DEF AnsweredOnce
<1> QED BY <1>10, <1>11, <1>12, <1>13, <1>14, <1>15

-----------------------------------------------------------------------------
(* Whose bestmoves there are: steps of the processes *)

\* A line that is no bestmove adds none.
LEMMA PutsDone ==
  ASSUME TypeOK, LastProcess, NEW p \in DOMAIN process, NEW line \in LinesOut, Puts(p, line),
         NEW e, e = process[p].of
  PROVE  /\ line.kind # "bestmove" => Done(e)' = Done(e)
         /\ line.kind = "bestmove" =>
              \E n : Done(e)' = Done(e) \cup {n} /\ object'[e].lines[n] = line /\ n \notin Done(e)
         /\ \A i \in Done(e) : object'[e].lines[i] = object[e].lines[i]
<1> DEFINE s == object[e].lines
           t == object'[e].lines
<1>1. e \in DOMAIN object /\ t = Append(s, line)
  BY PutsFacts
<1>2. s \in Seq(LinesOut)
  <2>1. object[e] \in Objects
    BY <1>1 DEF TypeOK
  <2> QED BY <2>1 DEF Objects
<1>3. Done(e)' = {i \in DOMAIN t : t[i].kind = "bestmove"} /\ Done(e) = {i \in DOMAIN s : s[i].kind = "bestmove"}
  BY DEF Done
<1> HIDE DEF s, t
<1>4. /\ DOMAIN t = 1 .. Len(s) + 1 /\ DOMAIN s = 1 .. Len(s) /\ Len(s) \in Nat
      /\ \A i \in 1 .. Len(s) : t[i] = s[i]
      /\ t[Len(s) + 1] = line
  BY <1>1, <1>2, AppendFacts
<1>5. DOMAIN t = DOMAIN s \cup {Len(s) + 1} /\ Len(s) + 1 \notin DOMAIN s /\ \A i \in DOMAIN s : t[i] = s[i]
  BY <1>4
<1>6. line.kind # "bestmove" => Done(e)' = Done(e)
  BY <1>3, <1>4, <1>5
<1>7. line.kind = "bestmove" => Done(e)' = Done(e) \cup {Len(s) + 1} /\ t[Len(s) + 1] = line /\ Len(s) + 1 \notin Done(e)
  BY <1>3, <1>4, <1>5
<1>8. \A k \in Done(e) : t[k] = s[k]
  BY <1>3, <1>5
<1> QED BY <1>6, <1>7, <1>8 DEF s, t

\* What is asked of a process after it has taken a command.
LEMMA PopAsked ==
  ASSUME TypeOK, NEW p \in DOMAIN process, process[p].inq # << >>, process'[p].inq = Tail(process[p].inq), NEW e
  PROVE  /\ \A i \in Asked(e, p)' : /\ i \in Nat /\ i # 0 /\ i + 1 \in Asked(e, p)
                                    /\ process'[p].inq[i] = process[p].inq[i + 1]
         /\ Head(process[p].inq).cmd = "go" => 1 \in Asked(e, p) /\ process[p].inq[1] = Head(process[p].inq)
<1> DEFINE q == process[p].inq
           r == process'[p].inq
<1>1. q \in Seq(Commands)
  <2>1. process[p] \in Processes
    BY DEF TypeOK
  <2> QED BY <2>1 DEF Processes
<1>2. q # << >> /\ r = Tail(q)
  OBVIOUS
<1>3. Asked(e, p)' = {i \in DOMAIN r : r[i].cmd = "go"} /\ Asked(e, p) = {i \in DOMAIN q : q[i].cmd = "go"}
  BY DEF Asked
<1> HIDE DEF q, r
<1>4. /\ 1 \in DOMAIN q /\ q[1] = Head(q)
      /\ \A i \in DOMAIN r : i \in Nat /\ i # 0 /\ i + 1 \in DOMAIN q /\ r[i] = q[i + 1]
  BY <1>1, <1>2
<1> QED BY <1>3, <1>4 DEF q, r

\* What a process does on its own keeps its object quiet, or to one caller.
LEMMA ProcessTokens ==
  ASSUME TypeOK, TypeOK', Ownership, OneWriter, NEW p \in DOMAIN process, ProcessStep(p),
         NEW e \in DOMAIN object, e = process[p].of, e \notin mixed
  PROVE  /\ Quiet(e) => Quiet(e)'
         /\ \A c \in Callers : OnlyFor(e, c) => OnlyFor(e, c)'
<1> USE DEF Ownership
<1>1. /\ DOMAIN process' = DOMAIN process /\ \A q \in DOMAIN process \ {p} : process'[q] = process[q]
      /\ process'[p].of = process[p].of /\ (process'[p].alive => process[p].alive)
  BY ProcessFrame
<1>2. process[p] \in Processes /\ p # 0 /\ Nobody \notin Callers /\ p \in Nat /\ process \in Seq(Processes)
  BY CallersAssumption, SMTT(30) DEF TypeOK
<1>3. ASSUME NEW q \in DOMAIN process, Runner(e, q)' PROVE Runner(e, q)
  <2>1. process'[q].of = e /\ process'[q].alive
    BY <1>3 DEF Runner
  <2>2. process[q].of = e /\ process[q].alive
    BY <1>1, <2>1
  <2> QED BY <2>2 DEF Runner
<1>4. \A q \in DOMAIN process \ {p} : Runner(e, q)' =>
        process'[q].search = process[q].search /\ Asked(e, q)' = Asked(e, q) /\ process'[q] = process[q]
  BY <1>1 DEF Asked
<1>5. CASE Crash(p) \/ ReaderEnds(p) \/ Quits(p)
  <2>1. Done(e)' = Done(e) /\ \A i \in Done(e) : object'[e].lines[i] = object[e].lines[i]
    <3>1. CASE Crash(p) BY <3>1 DEF Crash, Done
    <3>3. CASE Quits(p) BY <3>3 DEF Quits, Command, Done
    <3>2. CASE ReaderEnds(p)
      <4>1. Line("None") \in LinesOut /\ Line("None").kind # "bestmove" /\ Puts(p, Line("None"))
        BY <3>2 DEF ReaderEnds, Line, LinesOut, Texts
      <4> QED BY <4>1, PutsDone
    <3> QED BY <1>5, <3>1, <3>2, <3>3
  <2>2. ~process'[p].alive
    <3>1. CASE Crash(p)
      <4>1. process' = [process EXCEPT ![p] = Gone(process[p])]
        BY <3>1 DEF Crash
      <4> QED BY <1>2, <4>1, GoneFacts
    <3>2. CASE ReaderEnds(p)
      <4>1. ~process[p].alive
        BY <1>2, <3>2 DEF ReaderEnds, Alive
      <4> QED BY <1>1, <4>1
    <3>3. CASE Quits(p) BY <3>3, QuitFacts
    <3> QED BY <1>5, <3>1, <3>2, <3>3
  <2>3. \A q \in DOMAIN process : Runner(e, q)' =>
          /\ process'[q].search = process[q].search /\ Asked(e, q)' = Asked(e, q)
          /\ process'[q].inq = process[q].inq
    BY <1>4, <2>2 DEF Asked, Runner
  <2>4. Quiet(e) => Quiet(e)'
    BY <1>1, <1>3, <2>1, <2>3 DEF Quiet
  <2>5. \A c \in Callers : OnlyFor(e, c) => OnlyFor(e, c)'
    BY <1>1, <1>3, <2>1, <2>3 DEF OnlyFor
  <2> QED BY <2>4, <2>5
<1>6. CASE SearchEnds(p)
  <2> DEFINE line == [kind |-> "bestmove", id |-> process[p].search]
             x == [process[p] EXCEPT !.search = Nobody, !.halted = FALSE]
  <2>1. process[p].alive /\ process[p].search # Nobody /\ Puts(p, line) /\ process' = [process EXCEPT ![p] = x]
    BY <1>2, <1>6 DEF SearchEnds, Alive
  <2>2. x.search = Nobody /\ x.inq = process[p].inq
    BY <1>2 DEF Processes
  <2>3. process'[p].search = Nobody /\ process'[p].inq = process[p].inq
    BY <1>2, <2>1, <2>2
  <2>4. ~Quiet(e)
    BY <2>1 DEF Quiet, Runner
  <2>5. ASSUME NEW c \in Callers, OnlyFor(e, c) PROVE OnlyFor(e, c)'
    <3>1. process[p].search = c /\ Asked(e, p) = {} /\ Done(e) = {}
      BY <2>1, <2>5 DEF OnlyFor, Runner
    <3>2. line \in LinesOut /\ line.kind = "bestmove" /\ line.id = c
      BY <3>1 DEF LinesOut, Texts
    <3> HIDE DEF line
    <3>3. PICK n : Done(e)' = {n} /\ object'[e].lines[n] = line
      BY <2>1, <3>1, <3>2, PutsDone
    <3>4. ASSUME NEW q \in DOMAIN process', Runner(e, q)'
          PROVE  process'[q].search = Nobody /\ Asked(e, q)' = {}
      <4>1. q \in DOMAIN process /\ q \in Nat /\ process[q].of = e /\ process[q].alive
        BY <1>1, <1>2, <1>3, <3>4 DEF Runner
      <4>2. ~(q < p) /\ ~(p < q)
        BY <2>1, <4>1 DEF OneWriter, EndMarkLast
      <4>3. q = p
        BY <1>2, <4>1, <4>2
      <4> QED BY <2>3, <3>1, <4>3 DEF Asked
    <3> QED BY <3>2, <3>3, <3>4 DEF OnlyFor
  <2> QED BY <2>4, <2>5
<1>7. CASE Command(p) /\ ~Quits(p)
  <2> DEFINE x == Head(process[p].inq)
             w == Obey(p, x)
  <2>0. x.cmd # "quit"
    BY <1>7 DEF Quits
  <2>1. /\ process[p].alive /\ process[p].inq # << >> /\ process' = [process EXCEPT ![p] = w]
        /\ x.cmd = "go" => process[p].search = Nobody
    BY <1>2, <1>7 DEF Command, Alive
  <2>2. ~process[p].eof
    BY <2>1 DEF EndMarkLast
  <2>3. process'[p] = w
    BY <1>2, <2>1
  <2>4. /\ process'[p].inq = Tail(process[p].inq)
        /\ process'[p].search = IF x.cmd = "go" THEN x.arg ELSE process[p].search
    BY <1>2, <2>0, <2>1, <2>2, <2>3, ObeyFacts
  <2>5. /\ \A i \in Asked(e, p)' : /\ i \in Nat /\ i # 0 /\ i + 1 \in Asked(e, p)
                                   /\ process'[p].inq[i] = process[p].inq[i + 1]
        /\ x.cmd = "go" => 1 \in Asked(e, p) /\ process[p].inq[1] = x
    BY <2>1, <2>4, PopAsked
  <2>6. Done(e)' = Done(e) /\ \A i \in Done(e) : object'[e].lines[i] = object[e].lines[i]
    <3>1. CASE UNCHANGED object BY <3>1 DEF Done
    <3>2. ASSUME NEW k \in {"uciok", "readyok"}, Puts(p, Line(k))
          PROVE  Done(e)' = Done(e) /\ \A i \in Done(e) : object'[e].lines[i] = object[e].lines[i]
      <4>1. Line(k) \in LinesOut /\ Line(k).kind # "bestmove"
        BY DEF Line, LinesOut, Texts
      <4> QED BY <3>2, <4>1, PutsDone
    <3> QED BY <1>7, <3>1, <3>2 DEF Command
  <2> HIDE DEF x, w
  <2>7. Runner(e, p)
    BY <2>1 DEF Runner
  <2>8. ASSUME Quiet(e) PROVE Quiet(e)'
    <3>1. process[p].search = Nobody /\ Asked(e, p) = {} /\ Done(e) = {}
      BY <2>7, <2>8 DEF Quiet
    <3>2. process'[p].search = Nobody /\ Asked(e, p)' = {}
      BY <2>4, <2>5, <3>1
    <3>3. \A q \in DOMAIN process' : Runner(e, q)' => process'[q].search = Nobody /\ Asked(e, q)' = {}
      BY <1>1, <1>3, <1>4, <2>8, <3>2 DEF Quiet
    <3> QED BY <2>6, <3>1, <3>3 DEF Quiet
  <2>9. ASSUME NEW c \in Callers, OnlyFor(e, c) PROVE OnlyFor(e, c)'
    <3>1. /\ process[p].search \in {c, Nobody}
          /\ \A i \in Asked(e, p) : process[p].inq[i].arg = c
          /\ \A i, j \in Asked(e, p) : i = j
          /\ process[p].search = c => Asked(e, p) = {}
          /\ Done(e) # {} => process[p].search = Nobody /\ Asked(e, p) = {}
      BY <2>7, <2>9 DEF OnlyFor
    <3>2. x.cmd = "go" => Asked(e, p)' = {} /\ x.arg = c /\ Done(e) = {}
      <4> SUFFICES ASSUME x.cmd = "go" PROVE Asked(e, p)' = {} /\ x.arg = c /\ Done(e) = {}
        OBVIOUS
      <4>1. 1 \in Asked(e, p) /\ x.arg = c /\ Done(e) = {}
        BY <2>5, <3>1
      <4>2. ASSUME NEW i \in Asked(e, p)' PROVE FALSE
        <5>1. i \in Nat /\ i # 0 /\ i + 1 = 1
          BY <2>5, <3>1, <4>1
        <5> QED BY <5>1
      <4> QED BY <4>1, <4>2
    <3>3. /\ process'[p].search \in {c, Nobody}
          /\ \A i \in Asked(e, p)' : process'[p].inq[i].arg = c
          /\ process'[p].search = c => Asked(e, p)' = {}
          /\ Done(e) # {} => process'[p].search = Nobody /\ Asked(e, p)' = {}
      <4>1. CASE x.cmd = "go" BY <1>2, <2>4, <3>2, <4>1
      <4>2. CASE x.cmd # "go"
        <5>1. process'[p].search = process[p].search
          BY <2>4, <4>2
        <5>2. Asked(e, p) = {} => Asked(e, p)' = {}
          BY <2>5
        <5>3. \A i \in Asked(e, p)' : process'[p].inq[i].arg = c
          BY <2>5, <3>1
        <5> QED BY <3>1, <5>1, <5>2, <5>3
      <4> QED BY <4>1, <4>2
    <3>4. \A i, j \in Asked(e, p)' : i = j
      <4> SUFFICES ASSUME NEW i \in Asked(e, p)', NEW j \in Asked(e, p)' PROVE i = j
        OBVIOUS
      <4>1. i \in Nat /\ j \in Nat /\ i + 1 = j + 1
        BY <2>5, <3>1
      <4> QED BY <4>1
    <3>5. ASSUME NEW q \in DOMAIN process', Runner(e, q)'
          PROVE  /\ process'[q].search \in {c, Nobody}
                 /\ \A i \in Asked(e, q)' : process'[q].inq[i].arg = c
                 /\ \A i, j \in Asked(e, q)' : i = j
                 /\ process'[q].search = c => Asked(e, q)' = {}
                 /\ Done(e) # {} => process'[q].search = Nobody /\ Asked(e, q)' = {}
      <4>1. CASE q = p BY <3>3, <3>4, <4>1
      <4>2. CASE q # p
        <5>1. q \in DOMAIN process \ {p} /\ Runner(e, q) /\ process'[q].search = process[q].search
              /\ Asked(e, q)' = Asked(e, q) /\ process'[q] = process[q]
          BY <1>1, <1>3, <1>4, <3>5, <4>2
        <5> QED BY <2>9, <5>1 DEF OnlyFor
      <4> QED BY <4>1, <4>2
    <3>6. \A i \in Done(e)' : object'[e].lines[i].id = c
      BY <2>6, <2>9 DEF OnlyFor
    <3>7. \A i, j \in Done(e)' : i = j
      BY <2>6, <2>9 DEF OnlyFor
    <3> QED BY <2>6, <3>5, <3>6, <3>7 DEF OnlyFor
  <2> QED BY <2>8, <2>9
<1> QED BY <1>5, <1>6, <1>7 DEF ProcessStep

\* It keeps the answers apart.
LEMMA ProcessAnswers ==
  ASSUME TypeOK, Ownership, Answers, NEW p \in DOMAIN process, ProcessStep(p)
  PROVE  Answers'
<1> USE DEF Ownership, Answers
<1>0. PICK f \in DOMAIN object : f = process[p].of
  BY DEF LastProcess
<1>1. /\ TypeOK' /\ UNCHANGED <<pc, eng, mixed, late, answer>>
      /\ DOMAIN object' = DOMAIN object /\ DOMAIN process' = DOMAIN process
      /\ \A q \in DOMAIN process \ {p} : process'[q] = process[q]
      /\ process'[p].of = process[p].of /\ (process'[p].alive => process[p].alive)
      /\ process[p].eof => process'[p].eof
      /\ \A d \in DOMAIN object : object'[d].proc = object[d].proc /\ (d # f => object'[d] = object[d])
  BY <1>0, ProcessFrame DEF locals
<1>2. \A e \in DOMAIN object \ mixed :
        /\ Quiet(e) => Quiet(e)'
        /\ \A d \in Callers : OnlyFor(e, d) => OnlyFor(e, d)'
  <2> SUFFICES ASSUME NEW e \in DOMAIN object \ mixed
               PROVE  /\ Quiet(e) => Quiet(e)'
                      /\ \A d \in Callers : OnlyFor(e, d) => OnlyFor(e, d)'
    OBVIOUS
  <2>1. CASE e = f BY <1>0, <1>1, <2>1, ProcessTokens
  <2>2. CASE e # f
    <3>1. \A q \in DOMAIN process' : process'[q].of = e => q \in DOMAIN process /\ process'[q] = process[q]
      BY <1>0, <1>1, <2>2
    <3> QED BY <1>1, <2>2, <3>1, SameIsCalm, CalmKeeps
  <2> QED BY <2>1, <2>2
<1>3. \A e \in DOMAIN object : Alive(object[e].proc)' => Alive(object[e].proc)
  BY <1>1 DEF Alive, LastProcess
<1>4. \A d \in Callers : pc[d] \notin {"out", "new"} => eng[d] \in DOMAIN object
  BY MineType
<1>5. OneWriter'
  BY <1>1 DEF OneWriter
<1>6. NoEarlyEnd'
  <2> SUFFICES ASSUME NEW e \in DOMAIN object, e \notin mixed, Alive(object[e].proc)',
                      NEW i \in DOMAIN object'[e].lines
               PROVE  object'[e].lines[i].kind # "None"
    BY <1>1 DEF NoEarlyEnd
  <2>1. Alive(object[e].proc)
    BY <1>3
  <2>2. CASE object'[e] = object[e] BY <2>1, <2>2 DEF NoEarlyEnd
  <2>3. ASSUME NEW line \in LinesOut, Puts(p, line), line.kind # "None", e = f
        PROVE  object'[e].lines[i].kind # "None"
    <3> DEFINE s == object[e].lines
               t == object'[e].lines
    <3>1. t = Append(s, line)
      BY <1>0, <2>3, PutsFacts
    <3>2. s \in Seq(LinesOut)
      <4>1. object[e] \in Objects
        BY DEF TypeOK
      <4> QED BY <4>1 DEF Objects
    <3> HIDE DEF s, t
    <3>3. \A j \in DOMAIN t : (j \in DOMAIN s /\ t[j] = s[j]) \/ t[j] = line
      BY <3>1, <3>2, AppendFacts
    <3> QED BY <2>1, <2>3, <3>3 DEF NoEarlyEnd, s, t
  <2>4. CASE e = f /\ ReaderEnds(p)
    <3>1. ~process[p].alive /\ ~process[p].eof /\ p \in Nat
      BY <2>4 DEF ReaderEnds, Alive, TypeOK
    <3>2. object[e].proc \in DOMAIN process /\ process[object[e].proc].alive
          /\ process[object[e].proc].of = e /\ p <= object[e].proc
      BY <1>0, <2>1, <2>4 DEF Alive, LastProcess
    <3>3. p < object[e].proc
      BY <3>1, <3>2 DEF TypeOK
    <3> QED BY <1>0, <2>4, <3>1, <3>2, <3>3 DEF OneWriter
  <2>5. CASE e = f /\ ~ReaderEnds(p)
    <3>1. \/ object'[e] = object[e]
          \/ \E line \in LinesOut : Puts(p, line) /\ line.kind # "None"
      <4>1. \A k \in {"uciok", "readyok"} : Line(k) \in LinesOut /\ Line(k).kind # "None"
        BY DEF Line, LinesOut, Texts
      <4>2. process[p].search \in Callers \cup {Nobody}
        <5>1. process[p] \in Processes
          BY DEF TypeOK
        <5> QED BY <5>1 DEF Processes
      <4>3. [kind |-> "bestmove", id |-> process[p].search] \in LinesOut
        BY <4>2 DEF LinesOut, Texts
      <4>4. CASE Command(p) BY <4>1, <4>4 DEF Command
      <4>5. CASE SearchEnds(p) BY <4>3, <4>5 DEF SearchEnds
      <4>6. CASE Crash(p) BY <4>6 DEF Crash
      <4> QED BY <2>5, <4>4, <4>5, <4>6 DEF ProcessStep
    <3> QED BY <2>2, <2>3, <2>5, <3>1
  <2> QED BY <1>1, <2>2, <2>4, <2>5
<1>7. QuietBefore' /\ OwnWhileReading'
  BY <1>1, <1>2, <1>4 DEF QuietBefore, OwnWhileReading, Starting, Searching
<1>8. QuietAfter'
  BY <1>1, <1>2, <1>3 DEF QuietAfter
<1>9. AnsweredOnce'
  BY <1>1 DEF AnsweredOnce
<1> QED BY <1>5, <1>6, <1>7, <1>8, <1>9

-----------------------------------------------------------------------------
(* Settings: what a queue of commands will have set *)

\* Commands that come later do not change what earlier ones leave, unless they set it.
LEMMA LeavesConcat ==
  ASSUME NEW q \in Seq(Commands), NEW m \in Seq(Commands), NEW s, NEW k, NEW v, NEW r, r = q \o m
  PROVE  /\ \A n \in 0 .. Len(q) : Leaves(s, q, n, k, v) => Leaves(s, r, n, k, v)
         /\ (\A i \in DOMAIN m : m[i].cmd # k) /\ Leaves(s, q, Len(q), k, v) => Leaves(s, r, Len(r), k, v)
         /\ \A i \in DOMAIN m :
              m[i].cmd = k /\ m[i].arg = v /\ (\A j \in i + 1 .. Len(m) : m[j].cmd # k)
                => Leaves(s, r, Len(r), k, v)
<1>1. /\ Len(r) = Len(q) + Len(m) /\ Len(q) \in Nat /\ Len(m) \in Nat /\ DOMAIN m = 1 .. Len(m)
      /\ \A i \in 1 .. Len(q) : r[i] = q[i]
      /\ \A i \in 1 .. Len(m) : r[Len(q) + i] = m[i]
  BY ConcatFacts
<1>2. \A i \in 1 .. Len(r) : i \notin 1 .. Len(q) => i - Len(q) \in 1 .. Len(m) /\ r[i] = m[i - Len(q)]
  <2> SUFFICES ASSUME NEW i \in 1 .. Len(r), i \notin 1 .. Len(q)
               PROVE  i - Len(q) \in 1 .. Len(m) /\ r[i] = m[i - Len(q)]
    OBVIOUS
  <2>1. i - Len(q) \in 1 .. Len(m) /\ Len(q) + (i - Len(q)) = i
    BY <1>1
  <2> QED BY <1>1, <2>1
<1>3. ASSUME NEW n \in 0 .. Len(q), Leaves(s, q, n, k, v) PROVE Leaves(s, r, n, k, v)
  <2>1. \A i \in 1 .. n : r[i] = q[i]
    BY <1>1
  <2>2. \A i \in 1 .. n : \A j \in i + 1 .. n : j \in 1 .. n
    BY <1>1
  <2>3. CASE s = v /\ \A i \in 1 .. n : q[i].cmd # k
    BY <2>1, <2>3 DEF Leaves
  <2>4. CASE \E i \in 1 .. n : q[i].cmd = k /\ q[i].arg = v /\ \A j \in i + 1 .. n : q[j].cmd # k
    <3>1. PICK i \in 1 .. n : q[i].cmd = k /\ q[i].arg = v /\ \A j \in i + 1 .. n : q[j].cmd # k
      BY <2>4
    <3>2. r[i].cmd = k /\ r[i].arg = v /\ \A j \in i + 1 .. n : r[j].cmd # k
      BY <2>1, <2>2, <3>1
    <3> QED BY <3>2 DEF Leaves
  <2> QED BY <1>3, <2>3, <2>4 DEF Leaves
<1>4. ASSUME \A i \in DOMAIN m : m[i].cmd # k, Leaves(s, q, Len(q), k, v) PROVE Leaves(s, r, Len(r), k, v)
  <2>1. \A i \in 1 .. Len(r) : i \notin 1 .. Len(q) => r[i].cmd # k
    BY <1>1, <1>2, <1>4
  <2>2. CASE s = v /\ \A i \in 1 .. Len(q) : q[i].cmd # k
    <3>1. \A i \in 1 .. Len(r) : r[i].cmd # k
      BY <1>1, <2>1, <2>2
    <3> QED BY <2>2, <3>1 DEF Leaves
  <2>3. ASSUME NEW i \in 1 .. Len(q), q[i].cmd = k, q[i].arg = v, \A j \in i + 1 .. Len(q) : q[j].cmd # k
        PROVE  Leaves(s, r, Len(r), k, v)
    <3>1. i \in 1 .. Len(r) /\ r[i].cmd = k /\ r[i].arg = v
      BY <1>1, <2>3
    <3>2. ASSUME NEW j \in i + 1 .. Len(r) PROVE r[j].cmd # k
      <4>1. j \in 1 .. Len(r)
        BY <1>1
      <4>2. CASE j \in 1 .. Len(q)
        <5>1. j \in i + 1 .. Len(q)
          BY <1>1, <4>2
        <5> QED BY <1>1, <2>3, <4>2, <5>1
      <4> QED BY <2>1, <4>1, <4>2
    <3> QED BY <3>1, <3>2 DEF Leaves
  <2> QED BY <1>4, <2>2, <2>3 DEF Leaves
<1>5. ASSUME NEW i \in DOMAIN m, m[i].cmd = k, m[i].arg = v, \A j \in i + 1 .. Len(m) : m[j].cmd # k
      PROVE  Leaves(s, r, Len(r), k, v)
  <2>1. Len(q) + i \in 1 .. Len(r) /\ r[Len(q) + i].cmd = k /\ r[Len(q) + i].arg = v
    BY <1>1, <1>5
  <2>2. ASSUME NEW j \in (Len(q) + i) + 1 .. Len(r) PROVE r[j].cmd # k
    <3>1. j \in 1 .. Len(r) /\ j \notin 1 .. Len(q) /\ j - Len(q) \in i + 1 .. Len(m)
      BY <1>1
    <3> QED BY <1>2, <1>5, <3>1
  <2> QED BY <2>1, <2>2 DEF Leaves
<1> QED BY <1>3, <1>4, <1>5

\* The same, for commands that do not set what k sets, and for those of which the first does.
LEMMA LeavesKept ==
  ASSUME NEW q \in Seq(Commands), NEW m \in Seq(Commands), NEW s, NEW k, NEW v,
         \A i \in DOMAIN m : m[i].cmd # k, Leaves(s, q, Len(q), k, v)
  PROVE  Leaves(s, q \o m, Len(q \o m), k, v)
<1> DEFINE r == q \o m
<1>1. r = q \o m
  OBVIOUS
<1> HIDE DEF r
<1>2. Leaves(s, r, Len(r), k, v)
  BY <1>1, LeavesConcat
<1> QED BY <1>1, <1>2

\* (Its first command sets it, and no later one does.)
LEMMA LeavesSet ==
  ASSUME NEW q \in Seq(Commands), NEW m \in Seq(Commands), NEW s, NEW k, NEW v,
         1 \in DOMAIN m, m[1].cmd = k, m[1].arg = v, \A j \in 2 .. Len(m) : m[j].cmd # k
  PROVE  Leaves(s, q \o m, Len(q \o m), k, v)
<1> DEFINE r == q \o m
<1>1. r = q \o m /\ 1 + 1 = 2
  OBVIOUS
<1> HIDE DEF r
<1>2. Leaves(s, r, Len(r), k, v)
  BY <1>1, LeavesConcat
<1> QED BY <1>1, <1>2

\* The first command is carried out and the rest leaves the same.
LEMMA LeavesPop ==
  ASSUME NEW q \in Seq(Commands), q # << >>, NEW n \in 1 .. Len(q), NEW s, NEW k, NEW v, NEW r, r = Tail(q),
         Leaves(s, q, n, k, v)
  PROVE  Leaves(IF Head(q).cmd = k THEN Head(q).arg ELSE s, r, n - 1, k, v)
<1> DEFINE t == IF Head(q).cmd = k THEN Head(q).arg ELSE s
<1>1. q[1] = Head(q) /\ 1 \in 1 .. n /\ n \in Nat /\ \A i \in 1 .. n - 1 : i \in Nat /\ r[i] = q[i + 1] /\ i + 1 \in 1 .. n
  OBVIOUS
<1>2. CASE s = v /\ \A i \in 1 .. n : q[i].cmd # k
  <2>1. t = v /\ \A i \in 1 .. n - 1 : r[i].cmd # k
    BY <1>1, <1>2
  <2> QED BY <2>1 DEF Leaves
<1>3. ASSUME NEW i \in 1 .. n, q[i].cmd = k, q[i].arg = v, \A j \in i + 1 .. n : q[j].cmd # k
      PROVE  Leaves(t, r, n - 1, k, v)
  <2>1. CASE i = 1
    <3>1. t = v
      BY <1>1, <1>3, <2>1
    <3>2. \A j \in 1 .. n - 1 : r[j].cmd # k
      <4> SUFFICES ASSUME NEW j \in 1 .. n - 1 PROVE r[j].cmd # k
        OBVIOUS
      <4>1. j + 1 \in i + 1 .. n
        BY <1>1, <2>1
      <4> QED BY <1>1, <1>3, <4>1
    <3> QED BY <3>1, <3>2 DEF Leaves
  <2>2. CASE i # 1
    <3>1. i - 1 \in 1 .. n - 1 /\ r[i - 1] = q[i]
      <4>1. i - 1 \in 1 .. n - 1 /\ (i - 1) + 1 = i
        BY <1>1, <2>2
      <4> QED BY <1>1, <4>1
    <3>2. ASSUME NEW j \in (i - 1) + 1 .. n - 1 PROVE r[j].cmd # k
      <4>1. j \in 1 .. n - 1 /\ j + 1 \in i + 1 .. n
        BY <1>1, <2>2
      <4> QED BY <1>1, <1>3, <4>1
    <3> QED BY <1>3, <3>1, <3>2 DEF Leaves
  <2> QED BY <2>1, <2>2
<1> QED BY <1>2, <1>3 DEF Leaves

-----------------------------------------------------------------------------
(* Settings: the steps of a caller *)

\* Only a handshake, setting the variant and preparing change the record.
LEMMA RecordKept ==
  ASSUME TypeOK, HasObject, NEW c \in Callers, LooksOnly(c) \/ WorksOn(c), eng[c] \in DOMAIN object,
         ~Handshake(c), ~SetVariant(c), ~Prepare(c)
  PROVE  object'[eng[c]].active = object[eng[c]].active /\ object'[eng[c]].multipv = object[eng[c]].multipv
<1> DEFINE e == eng[c]
           x == Mine(c)
           y == [x EXCEPT !.lines = Rest(c)]
           Is(o) == object' = [object EXCEPT ![e] = o]
<1>1. x \in Objects /\ object \in Seq(Objects) /\ x = object[e]
  BY DEF TypeOK, Mine
<1>2. /\ [x EXCEPT !.proc = 0].active = x.active /\ [x EXCEPT !.proc = 0].multipv = x.multipv
      /\ [x EXCEPT !.lock = c].active = x.active /\ [x EXCEPT !.lock = c].multipv = x.multipv
      /\ [x EXCEPT !.lock = Nobody].active = x.active /\ [x EXCEPT !.lock = Nobody].multipv = x.multipv
      /\ y.active = x.active /\ y.multipv = x.multipv
      /\ [y EXCEPT !.lock = Nobody].active = x.active /\ [y EXCEPT !.lock = Nobody].multipv = x.multipv
  BY <1>1 DEF Objects
<1>3. ASSUME NEW o, o.active = x.active, o.multipv = x.multipv, Is(o)
      PROVE  object'[e].active = x.active /\ object'[e].multipv = x.multipv
  BY <1>1, <1>3
<1>4. \/ object' = object \/ Is([x EXCEPT !.proc = 0]) \/ Is([x EXCEPT !.lock = c]) \/ Is(x)
      \/ Is([x EXCEPT !.lock = Nobody]) \/ Is(y) \/ Is([y EXCEPT !.lock = Nobody])
  <2>1. ASSUME NEW o, NEW result, Leave(c, o, result) PROVE Is(o) \/ Is([o EXCEPT !.lock = Nobody])
    BY <2>1 DEF Leave, Set
  <2>2. CASE LooksOnly(c)
    BY <2>2 DEF LooksOnly, CloseQuit, CloseWaits, CloseExpires, CloseKill, UseEngine
  <2>3. CASE CloseEnds(c) BY <2>3 DEF CloseEnds, Set
  <2>4. CASE TakeLock(c) BY <2>4 DEF TakeLock, Set
  <2>5. CASE StartEnds(c) \/ VariantSet(c) \/ ReadOther(c) BY <2>5 DEF StartEnds, VariantSet, ReadOther, Set
  <2>6. CASE GameOver(c) \/ TimedOut(c) \/ GivesUp(c) BY <2>1, <2>6 DEF GameOver, TimedOut, GivesUp
  <2>7. CASE Go(c)
    <3>1. Is(y) \/ Leave(c, y, "failed")
      BY <2>7 DEF Go, SendOrLeave, Set
    <3> QED BY <2>1, <3>1
  <2>8. CASE SendStop(c)
    <3>1. Is(x) \/ Leave(c, x, "failed")
      BY <2>8 DEF SendStop, SendOrLeave, Set
    <3> QED BY <2>1, <3>1
  <2>9. CASE ReadBestMove(c) \/ ProcessExited(c) BY <2>1, <2>9 DEF ReadBestMove, ProcessExited
  <2> QED BY <2>2, <2>3, <2>4, <2>5, <2>6, <2>7, <2>8, <2>9 DEF WorksOn, Searches, Waits
<1> HIDE DEF x, y, Is
<1> QED BY <1>1, <1>2, <1>3, <1>4

\* How a caller comes to a place where something is on record, and leaves its handshake.
LEMMA RecordProgress ==
  ASSUME TypeOK, NEW c \in Callers, LooksOnly(c) \/ WorksOn(c)
  PROVE  /\ pc'[c] \in {"variantReady", "prepare", "positionReady"} =>
              \/ SetVariant(c) /\ Serves(c) /\ pc'[c] = "variantReady"
              \/ Prepare(c) /\ Serves(c) /\ pc[c] = "prepare" /\ pc'[c] = "positionReady"
              \/ /\ VariantSet(c) /\ pc'[c] = "prepare"
                 /\ pc[c] = "variantReady" \/ WantVariant[c] = Mine(c).active
              \/ ReadOther(c) /\ pc'[c] = pc[c]
         /\ pc[c] = "uciok" /\ pc'[c] # "uciok" =>
              Handshake(c) \/ ProcessExited(c) \/ eng[c] \in cut'
<1>0. pc \in [Callers -> Places]
  BY DEF TypeOK
<1> USE DEF At
<1>1. CASE LooksOnly(c)
  BY <1>0, <1>1 DEF LooksOnly, CloseQuit, CloseWaits, CloseExpires, CloseKill, UseEngine
<1>2. CASE CloseEnds(c) BY <1>0, <1>2 DEF CloseEnds
<1>3. CASE TakeLock(c) BY <1>0, <1>3 DEF TakeLock
<1>4. CASE Handshake(c)
  <2>1. pc' = [pc EXCEPT ![c] = IF Serves(c) THEN "startReady" ELSE "failed"]
    BY <1>4 DEF Handshake, SendOrLeave, Leave
  <2> QED BY <1>0, <1>4, <2>1
<1>5. CASE StartEnds(c) BY <1>0, <1>5 DEF StartEnds
<1>6. CASE SetVariant(c)
  <2>1. pc[c] = "variant" /\ pc' = [pc EXCEPT ![c] = IF Serves(c) THEN "variantReady" ELSE "failed"]
    BY <1>6 DEF SetVariant, SendOrLeave, Leave
  <2> QED BY <1>0, <1>6, <2>1
<1>7. CASE VariantSet(c) BY <1>0, <1>7 DEF VariantSet
<1>8. CASE GameOver(c) BY <1>0, <1>8 DEF GameOver, Leave
<1>9. CASE Prepare(c)
  <2>1. pc[c] = "prepare" /\ pc' = [pc EXCEPT ![c] = IF Serves(c) THEN "positionReady" ELSE "failed"]
    BY <1>9 DEF Prepare, SendOrLeave, Leave
  <2> QED BY <1>0, <1>9, <2>1
<1>10. CASE Go(c)
  <2>1. pc[c] = "positionReady" /\ pc' = [pc EXCEPT ![c] = IF Serves(c) THEN "read" ELSE "failed"]
    BY <1>10 DEF Go, SendOrLeave, Leave
  <2> QED BY <1>0, <2>1
<1>11. CASE SendStop(c)
  <2>1. pc[c] = "read" /\ pc' = [pc EXCEPT ![c] = IF Serves(c) THEN "read" ELSE "failed"]
    BY <1>11 DEF SendStop, SendOrLeave, Leave
  <2> QED BY <1>0, <2>1
<1>12. CASE ReadBestMove(c)
  <2>1. pc[c] = "read" /\ pc' = [pc EXCEPT ![c] = "done"]
    BY <1>12 DEF ReadBestMove, Leave
  <2> QED BY <1>0, <2>1
<1>13. CASE ReadOther(c)
  <2>1. pc' = pc
    BY <1>13 DEF ReadOther
  <2> QED BY <1>13, <2>1
<1>14. CASE ProcessExited(c)
  <2>1. pc' = [pc EXCEPT ![c] = "failed"]
    BY <1>14 DEF ProcessExited, Leave
  <2> QED BY <1>0, <1>14, <2>1
<1>15. CASE TimedOut(c)
  <2>1. pc' = [pc EXCEPT ![c] = "failed"] /\ (pc[c] = "uciok" => eng[c] \in cut')
    BY <1>15 DEF TimedOut, Leave
  <2> QED BY <1>0, <2>1
<1>16. CASE GivesUp(c)
  <2>1. pc[c] = "read" /\ pc' = [pc EXCEPT ![c] = "failed"]
    BY <1>16 DEF GivesUp, Leave
  <2> QED BY <1>0, <2>1
<1> QED BY <1>1, <1>2, <1>3, <1>4, <1>5, <1>6, <1>7, <1>8, <1>9, <1>10, <1>11, <1>12, <1>13, <1>14, <1>15, <1>16
        DEF WorksOn, Searches, Waits

\* What is sent reaches the end of the queue of the caller's process.
LEMMA Sent ==
  ASSUME TypeOK, LastProcess, NEW c \in Callers, NEW e \in DOMAIN object, e = eng[c], Serves(c),
         NEW m \in Seq(Commands), Send(c, m), NEW o \in Objects, Set(c, o), o.proc = object[e].proc
  PROVE  LET p == object[e].proc
         IN /\ p \in DOMAIN process /\ process[p].inq \in Seq(Commands)
            /\ object'[e] = o /\ object'[e].proc = p
            /\ process'[p].inq = process[p].inq \o m /\ process'[p].setting = process[p].setting
<1> DEFINE p == object[e].proc
           x == [process[p] EXCEPT !.inq = @ \o m]
<1>1. p \in DOMAIN process /\ process \in Seq(Processes) /\ object \in Seq(Objects) /\ Mine(c) = object[e]
  BY DEF Serves, Alive, LastProcess, TypeOK, Mine
<1>2. process[p] \in Processes
  BY <1>1
<1>3. process[p].inq \in Seq(Commands) /\ x.inq = process[p].inq \o m /\ x.setting = process[p].setting
  BY <1>2 DEF Processes
<1>4. process' = [process EXCEPT ![p] = x]
  BY <1>1 DEF Send
<1>5. object' = [object EXCEPT ![e] = o]
  BY DEF Set
<1> HIDE DEF x
<1>6. process'[p] = x /\ object'[e] = o
  BY <1>1, <1>4, <1>5
<1> QED BY <1>1, <1>3, <1>6

\* The handshake puts the own variant of the engine on record, and no MultiPV.
LEMMA HandshakeRecords ==
  ASSUME TypeOK, LastProcess, NEW c \in Callers, NEW e \in DOMAIN object, e = eng[c], Handshake(c), Serves(c)
  PROVE  Recorded(e)'
<1> DEFINE p == object[e].proc
           m == <<With("variant", Own), Cmd("isready")>>
           o == [Mine(c) EXCEPT !.lines = Rest(c), !.multipv = 0]
           x == [o EXCEPT !.active = Own]
<1>1. Mine(c) \in Objects /\ Mine(c).lines \in Seq(LinesOut) /\ Mine(c).lines # << >> /\ Mine(c) = object[e]
  <2>1. Mine(c) \in Objects /\ Mine(c) = object[e]
    BY DEF TypeOK, Mine
  <2> QED BY <2>1 DEF Objects, Handshake, Gets
<1>2. Rest(c) \in Seq(LinesOut)
  BY <1>1, LeftFacts DEF Rest
<1>3. o \in Objects /\ o.proc = p /\ o.multipv = 0
  BY <1>1, <1>2 DEF Objects
<1>4. x \in Objects /\ x.proc = p /\ x.active = Own /\ x.multipv = 0
  BY <1>3, CommandTypes DEF Objects
<1>5. m \in Seq(Commands) /\ m[1].cmd = "variant" /\ m[1].arg = Own /\ m[2].cmd # "variant" /\ Len(m) = 2
  BY CommandTypes DEF Kinds
<1>6. Send(c, m) /\ Set(c, x)
  BY DEF Handshake, SendOrLeave
<1> HIDE DEF m, o, x
<1>7. /\ p \in DOMAIN process /\ process[p].inq \in Seq(Commands)
      /\ object'[e] = x /\ object'[e].proc = p
      /\ process'[p].inq = process[p].inq \o m /\ process'[p].setting = process[p].setting
  BY <1>4, <1>5, <1>6, Sent
<1>8. 1 \in DOMAIN m /\ \A j \in 2 .. Len(m) : j = 2
  BY <1>5
<1>9. Leaves(process[p].setting.variant, process[p].inq \o m, Len(process[p].inq \o m), "variant", Own)
  BY <1>5, <1>7, <1>8, LeavesSet
<1> QED BY <1>4, <1>7, <1>9 DEF Recorded, VariantAfter

\* SetVariant puts the variant that it sends on record.
LEMMA SetVariantRecords ==
  ASSUME TypeOK, LastProcess, NEW c \in Callers, NEW e \in DOMAIN object, e = eng[c], SetVariant(c), Serves(c)
  PROVE  /\ object'[e].active = WantVariant[c] /\ object'[e].multipv = object[e].multipv
         /\ Recorded(e) => Recorded(e)'
<1> DEFINE p == object[e].proc
           m == <<With("variant", WantVariant[c]), Cmd("isready")>>
           x == [Mine(c) EXCEPT !.active = WantVariant[c]]
<1>1. Mine(c) \in Objects /\ Mine(c) = object[e]
  BY DEF TypeOK, Mine
<1>2. x \in Objects /\ x.proc = p /\ x.active = WantVariant[c] /\ x.multipv = object[e].multipv
  BY <1>1, CommandTypes DEF Objects
<1>3. /\ m \in Seq(Commands) /\ m[1].cmd = "variant" /\ m[1].arg = WantVariant[c] /\ m[2].cmd = "isready"
      /\ Len(m) = 2
  BY CommandTypes DEF Kinds
<1>4. Send(c, m) /\ Set(c, x)
  BY DEF SetVariant, SendOrLeave
<1> HIDE DEF m, x
<1>5. /\ p \in DOMAIN process /\ process[p].inq \in Seq(Commands)
      /\ object'[e] = x /\ object'[e].proc = p
      /\ process'[p].inq = process[p].inq \o m /\ process'[p].setting = process[p].setting
  BY <1>2, <1>3, <1>4, Sent
<1>6. 1 \in DOMAIN m /\ (\A j \in 2 .. Len(m) : j = 2) /\ \A i \in DOMAIN m : i = 1 \/ i = 2
  BY <1>3
<1>7. Leaves(process[p].setting.variant, process[p].inq \o m, Len(process[p].inq \o m), "variant", WantVariant[c])
  BY <1>3, <1>5, <1>6, LeavesSet
<1>8. ASSUME Recorded(e), object[e].multipv # 0
      PROVE  Leaves(process[p].setting.pv, process[p].inq \o m, Len(process[p].inq \o m), "multipv", object[e].multipv)
  <2>1. Leaves(process[p].setting.pv, process[p].inq, Len(process[p].inq), "multipv", object[e].multipv)
    BY <1>8 DEF Recorded, PvAfter
  <2>2. \A i \in DOMAIN m : m[i].cmd # "multipv"
    BY <1>3, <1>6
  <2> QED BY <1>3, <1>5, <2>1, <2>2, LeavesKept
<1> QED BY <1>2, <1>5, <1>7, <1>8 DEF Recorded, VariantAfter, PvAfter

\* Prepare puts the MultiPV on record, which it sends if it was another.
LEMMA PrepareRecords ==
  ASSUME TypeOK, LastProcess, NEW c \in Callers, NEW e \in DOMAIN object, e = eng[c], Prepare(c), Serves(c)
  PROVE  /\ object'[e].active = object[e].active /\ object'[e].multipv = WantPv[c]
         /\ Recorded(e) => Recorded(e)'
<1> DEFINE p  == object[e].proc
           o  == [Mine(c) EXCEPT !.lines = << >>]
           x  == [o EXCEPT !.multipv = WantPv[c]]
           sets == <<With("multipv", WantPv[c])>>
           asks == <<Cmd("position"), Cmd("isready")>>
           m  == (IF o.multipv # WantPv[c] THEN sets ELSE << >>) \o asks
<1>1. Mine(c) \in Objects /\ Mine(c) = object[e] /\ WantPv[c] \in Nat \ {0}
  BY WantAssumption DEF TypeOK, Mine
<1>0. << >> \in Seq(LinesOut)
  OBVIOUS
<1>2. o \in Objects /\ o.proc = Mine(c).proc /\ o.active = Mine(c).active /\ o.multipv = Mine(c).multipv
  BY <1>0, <1>1 DEF Objects
<1>3. x \in Objects /\ x.proc = o.proc /\ x.active = o.active /\ x.multipv = WantPv[c]
  BY <1>1, <1>2 DEF Objects
<1>4. Send(c, m) /\ Set(c, x)
  BY DEF Prepare, SendOrLeave
<1>5. sets \in Seq(Commands) /\ sets[1].cmd = "multipv" /\ sets[1].arg = WantPv[c] /\ Len(sets) = 1
  BY CommandTypes DEF Kinds
<1>6. asks \in Seq(Commands) /\ asks[1].cmd = "position" /\ asks[2].cmd = "isready" /\ Len(asks) = 2
  BY CommandTypes DEF Kinds
<1>7. << >> \o asks = asks
  OBVIOUS
<1> HIDE DEF o, x, sets, asks
<1>m. m = IF object[e].multipv # WantPv[c] THEN sets \o asks ELSE asks
  BY <1>1, <1>2, <1>7
<1> HIDE DEF m
<1>8. /\ m \in Seq(Commands) /\ \A i \in DOMAIN m : m[i].cmd # "variant"
      /\ object[e].multipv = WantPv[c] => \A i \in DOMAIN m : m[i].cmd # "multipv"
      /\ object[e].multipv # WantPv[c] =>
           1 \in DOMAIN m /\ m[1].cmd = "multipv" /\ m[1].arg = WantPv[c]
           /\ \A j \in 2 .. Len(m) : m[j].cmd # "multipv"
  <2>0. /\ sets \o asks \in Seq(Commands) /\ Len(sets \o asks) = Len(sets) + Len(asks)
        /\ \A i \in 1 .. Len(sets) : (sets \o asks)[i] = sets[i]
        /\ \A i \in 1 .. Len(asks) : (sets \o asks)[Len(sets) + i] = asks[i]
    <3>1. sets \in Seq(Commands) /\ asks \in Seq(Commands)
      BY <1>5, <1>6
    <3> QED BY <3>1, ConcatFacts
  <2>1. /\ sets \o asks \in Seq(Commands) /\ Len(sets \o asks) = 3
        /\ (sets \o asks)[1] = sets[1] /\ (sets \o asks)[2] = asks[1] /\ (sets \o asks)[3] = asks[2]
    BY <1>5, <1>6, <2>0
  <2>2. CASE object[e].multipv # WantPv[c]
    <3>1. /\ m \in Seq(Commands) /\ Len(m) = 3 /\ m[1].cmd = "multipv" /\ m[1].arg = WantPv[c]
          /\ m[2].cmd = "position" /\ m[3].cmd = "isready"
      BY <1>5, <1>6, <1>m, <2>1, <2>2
    <3>2. 1 \in DOMAIN m /\ DOMAIN m = 1 .. 3 /\ \A j \in 2 .. 3 : j = 2 \/ j = 3
      BY <3>1
    <3> QED BY <2>2, <3>1, <3>2
  <2>3. CASE object[e].multipv = WantPv[c]
    <3>1. m \in Seq(Commands) /\ Len(m) = 2 /\ m[1].cmd = "position" /\ m[2].cmd = "isready"
      BY <1>6, <1>m, <2>3
    <3>2. DOMAIN m = 1 .. 2
      BY <3>1
    <3> QED BY <2>3, <3>1, <3>2
  <2> QED BY <2>2, <2>3
<1>9. /\ p \in DOMAIN process /\ process[p].inq \in Seq(Commands)
      /\ object'[e] = x /\ object'[e].proc = p
      /\ process'[p].inq = process[p].inq \o m /\ process'[p].setting = process[p].setting
  <2>1. x.proc = object[e].proc /\ x \in Objects /\ m \in Seq(Commands)
    BY <1>1, <1>2, <1>3, <1>8
  <2> QED BY <1>4, <2>1, Sent
<1>10. ASSUME Recorded(e)
       PROVE  Leaves(process[p].setting.variant, process[p].inq \o m, Len(process[p].inq \o m), "variant", object[e].active)
  <2>1. Leaves(process[p].setting.variant, process[p].inq, Len(process[p].inq), "variant", object[e].active)
    BY <1>10 DEF Recorded, VariantAfter
  <2> QED BY <1>8, <1>9, <2>1, LeavesKept
<1>11. ASSUME Recorded(e)
       PROVE  Leaves(process[p].setting.pv, process[p].inq \o m, Len(process[p].inq \o m), "multipv", WantPv[c])
  <2>1. CASE object[e].multipv = WantPv[c]
    <3>1. Leaves(process[p].setting.pv, process[p].inq, Len(process[p].inq), "multipv", WantPv[c])
      BY <1>1, <1>11, <2>1 DEF Recorded, PvAfter
    <3> QED BY <1>8, <1>9, <2>1, <3>1, LeavesKept
  <2>2. CASE object[e].multipv # WantPv[c]
    BY <1>8, <1>9, <2>2, LeavesSet
  <2> QED BY <2>1, <2>2
<1> QED BY <1>1, <1>2, <1>3, <1>9, <1>10, <1>11 DEF Recorded, VariantAfter, PvAfter

\* A go in a queue was there before, or the caller has just sent it.
LEMMA FedGo ==
  ASSUME TypeOK, LastProcess, NEW c \in Callers, eng[c] \in DOMAIN object, NEW m \in Seq(Commands), Feeds(c, m),
         NEW p \in DOMAIN process, NEW i \in DOMAIN process'[p].inq, process'[p].inq[i].cmd = "go"
  PROVE  \/ i \in DOMAIN process[p].inq /\ process'[p].inq[i] = process[p].inq[i]
         \/ /\ Go(c) /\ Serves(c) /\ p = object[eng[c]].proc /\ process[p].of = eng[c]
            /\ i - 1 = Len(process[p].inq) /\ process'[p].inq[i].arg = c
<1>1. CASE process'[p].inq = process[p].inq
  BY <1>1
<1>2. CASE p = Mine(c).proc /\ process[p].alive /\ process'[p].inq = process[p].inq \o m
  <2> DEFINE q == process[p].inq
             r == process'[p].inq
  <2>1. q \in Seq(Commands)
    <3>1. process[p] \in Processes
      BY DEF TypeOK
    <3> QED BY <3>1 DEF Processes
  <2>2. r = q \o m
    BY <1>2
  <2> HIDE DEF q, r
  <2>3. /\ DOMAIN r = 1 .. Len(q) + Len(m) /\ \A j \in 1 .. Len(q) : r[j] = q[j]
        /\ \A j \in 1 .. Len(m) : r[Len(q) + j] = m[j]
    BY <2>1, <2>2, ConcatFacts
  <2>4. DOMAIN q = 1 .. Len(q) /\ Len(q) \in Nat /\ DOMAIN m = 1 .. Len(m) /\ Len(m) \in Nat /\ i \in DOMAIN r
    BY <2>1 DEF r
  <2>5. CASE i \in 1 .. Len(q)
    BY <2>3, <2>4, <2>5 DEF q, r
  <2>6. CASE i \notin 1 .. Len(q)
    <3>1. i - Len(q) \in DOMAIN m /\ Len(q) + (i - Len(q)) = i
      BY <2>3, <2>4, <2>6
    <3>2. r[i] = m[i - Len(q)] /\ r[i].cmd = "go"
      BY <2>3, <2>4, <3>1 DEF r
    <3>3. Go(c) /\ m = <<With("go", c)>>
      BY <3>1, <3>2 DEF Feeds
    <3>4. Len(m) = 1 /\ m[1].arg = c
      BY <3>3, CommandTypes
    <3>5. i - 1 = Len(q) /\ r[i].arg = c
      BY <2>4, <3>1, <3>2, <3>4
    <3>6. p # 0 /\ p = object[eng[c]].proc
      BY <1>2 DEF Mine, TypeOK
    <3>7. Serves(c)
      BY <1>2, <3>6 DEF Serves, Alive
    <3>8. process[p].of = eng[c]
      BY <3>6 DEF LastProcess
    <3> QED BY <3>3, <3>5, <3>6, <3>7, <3>8 DEF q, r
  <2> QED BY <2>5, <2>6
<1>3. process'[p].inq # << >>
  OBVIOUS
<1> QED BY <1>1, <1>2, <1>3, FedProcess

\* What was in a queue leaves what it left.
LEMMA FedLeaves ==
  ASSUME TypeOK, NEW c \in Callers, NEW m \in Seq(Commands), Feeds(c, m), NEW p \in DOMAIN process,
         process'[p].inq # << >>, NEW n \in 0 .. Len(process[p].inq), NEW v
  PROVE  /\ VariantAfter(p, n, v) => VariantAfter(p, n, v)'
         /\ PvAfter(p, n, v) => PvAfter(p, n, v)'
<1> DEFINE q == process[p].inq
           r == process'[p].inq
<1>1. q \in Seq(Commands)
  <2>1. process[p] \in Processes
    BY DEF TypeOK
  <2> QED BY <2>1 DEF Processes
<1>2. process'[p].setting = process[p].setting /\ (r = q \/ r = q \o m)
  BY FedProcess
<1> HIDE DEF q, r
<1>3. \A s, k : Leaves(s, q, n, k, v) => Leaves(s, r, n, k, v)
  <2> SUFFICES ASSUME NEW s, NEW k, Leaves(s, q, n, k, v), r = q \o m PROVE Leaves(s, r, n, k, v)
    BY <1>2
  <2>1. n \in 0 .. Len(q)
    BY DEF q
  <2> QED BY <1>1, <2>1, LeavesConcat
<1> QED BY <1>2, <1>3 DEF VariantAfter, PvAfter, q, r

\* A record that the step leaves alone stays right, unless it sends other settings.
LEMMA FedRecord ==
  ASSUME TypeOK, NEW c \in Callers, NEW m \in Seq(Commands), Feeds(c, m), NEW e,
         object[e].proc \in DOMAIN process, object'[e].proc = object[e].proc,
         process'[object[e].proc].alive,
         object'[e].active = object[e].active, object'[e].multipv = object[e].multipv,
         \/ object[e].proc # Mine(c).proc
         \/ \A i \in DOMAIN m : m[i].cmd \notin {"variant", "multipv"},
         Recorded(e)
  PROVE  Recorded(e)'
<1> DEFINE p == object[e].proc
           q == process[p].inq
           r == process'[p].inq
<1>1. q \in Seq(Commands)
  <2>1. process[p] \in Processes
    BY DEF TypeOK
  <2> QED BY <2>1 DEF Processes
<1>2. process'[p].setting = process[p].setting /\ (r = q \/ (p = Mine(c).proc /\ r = q \o m))
  BY FedProcess
<1> HIDE DEF q, r
<1>3. ASSUME NEW s, NEW k \in {"variant", "multipv"}, NEW v, Leaves(s, q, Len(q), k, v)
      PROVE  Leaves(s, r, Len(r), k, v)
  <2>1. CASE r = q BY <1>3, <2>1
  <2>2. CASE p = Mine(c).proc /\ r = q \o m
    <3>1. \A i \in DOMAIN m : m[i].cmd # k
      BY <2>2
    <3>2. Leaves(s, q \o m, Len(q \o m), k, v)
      BY <1>1, <1>3, <3>1, LeavesKept
    <3> QED BY <2>2, <3>2
  <2> QED BY <1>2, <2>1, <2>2
<1>4. /\ Leaves(process[p].setting.variant, q, Len(q), "variant", object[e].active)
      /\ object[e].multipv # 0 => Leaves(process[p].setting.pv, q, Len(q), "multipv", object[e].multipv)
  BY DEF Recorded, VariantAfter, PvAfter, q
<1>5. /\ Leaves(process'[p].setting.variant, r, Len(r), "variant", object'[e].active)
      /\ object'[e].multipv # 0 => Leaves(process'[p].setting.pv, r, Len(r), "multipv", object'[e].multipv)
  BY <1>2, <1>3, <1>4
<1> QED BY <1>5 DEF Recorded, VariantAfter, PvAfter, r

\* The steps of a caller keep the settings.
LEMMA MovesSettings ==
  ASSUME TypeOK, Ownership, Answers, SettingsKept, NEW c \in Callers, LooksOnly(c) \/ WorksOn(c),
         NEW o \in Objects, NEW to \in Places, Moves(c, o, to), NEW m \in Seq(Commands), Feeds(c, m)
  PROVE  SettingsKept'
<1> USE DEF Ownership, SettingsKept
<1>1. /\ TypeOK' /\ DOMAIN object' = DOMAIN object /\ DOMAIN process' = DOMAIN process
      /\ eng[c] \in DOMAIN object /\ object'[eng[c]] = o
      /\ \A e \in DOMAIN object \ {eng[c]} : object'[e] = object[e]
  BY MovesType
<1>2. /\ pc \in [Callers -> Places] /\ pc' = [pc EXCEPT ![c] = to] /\ eng' = eng /\ mixed' = mixed
      /\ cut \subseteq cut' /\ ran' = ran /\ o.proc \in {0, Mine(c).proc}
      /\ pc[c] \notin {"out", "new", "done", "failed"}
  BY DEF TypeOK, Moves
<1>3. \A p \in DOMAIN process : process'[p].of = process[p].of /\ (process'[p].alive => process[p].alive)
  BY FedProcess
<1>4. /\ pc'[c] = "read" => pc[c] = "read" \/ (Go(c) /\ Serves(c))
      /\ pc[c] = "read" => pc'[c] \in {"read", "done", "failed"}
      /\ Go(c) => pc[c] = "positionReady"
      /\ Go(c) /\ Serves(c) => pc'[c] = "read"
  BY Progress
<1>5. \A d \in Callers : pc[d] \in {"read", "done", "failed"} => pc'[d] \in {"read", "done", "failed"}
  BY <1>2, <1>4
<1>6. \A e : Unspoiled(e)' => Unspoiled(e)
  BY <1>2 DEF Unspoiled
<1>7. GoIsOfCaller'
  <2> SUFFICES ASSUME NEW p \in DOMAIN process, NEW i \in DOMAIN process'[p].inq, process'[p].inq[i].cmd = "go"
               PROVE  LET d == process'[p].inq[i].arg
                      IN d \in Callers /\ eng[d] = process'[p].of /\ pc'[d] \in {"read", "done", "failed"}
    BY <1>1, <1>2 DEF GoIsOfCaller
  <2>1. CASE i \in DOMAIN process[p].inq /\ process'[p].inq[i] = process[p].inq[i]
    BY <1>3, <1>5, <2>1 DEF GoIsOfCaller
  <2>2. CASE Go(c) /\ Serves(c) /\ process[p].of = eng[c] /\ process'[p].inq[i].arg = c
    BY <1>3, <1>4, <2>2
  <2> QED BY <1>1, <2>1, <2>2, FedGo
<1>8. GoAsAsked'
  <2> SUFFICES ASSUME NEW p \in DOMAIN process, NEW i \in DOMAIN process'[p].inq, process'[p].inq[i].cmd = "go",
                      Unspoiled(process[p].of), NEW d, d = process'[p].inq[i].arg
               PROVE  VariantAfter(p, i - 1, WantVariant[d])' /\ PvAfter(p, i - 1, WantPv[d])'
    BY <1>1, <1>3, <1>6 DEF GoAsAsked
  <2>1. process[p].inq \in Seq(Commands)
    <3>1. process[p] \in Processes
      BY DEF TypeOK
    <3> QED BY <3>1 DEF Processes
  <2>2. CASE i \in DOMAIN process[p].inq /\ process'[p].inq[i] = process[p].inq[i]
    <3>1. VariantAfter(p, i - 1, WantVariant[d]) /\ PvAfter(p, i - 1, WantPv[d])
      BY <2>2 DEF GoAsAsked
    <3>2. i - 1 \in 0 .. Len(process[p].inq)
      BY <2>1, <2>2
    <3> QED BY <3>1, <3>2, FedLeaves
  <2>3. CASE /\ Go(c) /\ Serves(c) /\ p = object[eng[c]].proc /\ process[p].of = eng[c]
             /\ i - 1 = Len(process[p].inq) /\ process'[p].inq[i].arg = c
    <3>1. d = c /\ pc[c] = "positionReady"
      BY <1>4, <2>3
    <3>2. object[eng[c]].active = WantVariant[c] /\ object[eng[c]].multipv = WantPv[c] /\ WantPv[c] # 0
      BY <3>1, WantAssumption DEF RecordAsAsked
    <3>3. \A x \in Callers : eng[x] = eng[c] => pc[x] # "uciok"
      BY <3>1, Exclusive DEF Holding, Starting, Searching
    <3>4. Recorded(eng[c])
      BY <1>1, <2>3, <3>3 DEF OnRecord, Serves, Mine
    <3>5. VariantAfter(p, i - 1, WantVariant[d]) /\ PvAfter(p, i - 1, WantPv[d])
      BY <2>3, <3>1, <3>2, <3>4 DEF Recorded
    <3>6. i - 1 \in 0 .. Len(process[p].inq)
      BY <2>1, <2>3
    <3> QED BY <3>5, <3>6, FedLeaves
  <2> QED BY <1>1, <2>2, <2>3, FedGo
<1>9. OnRecord'
  <2> SUFFICES ASSUME NEW e \in DOMAIN object, Unspoiled(e)', Alive(object[e].proc)',
                      \A d \in Callers : eng[d] = e => pc'[d] # "uciok"
               PROVE  Recorded(e)'
    BY <1>1, <1>2 DEF OnRecord
  <2>1. object'[e].proc = object[e].proc /\ object[e].proc # 0
    BY <1>1, <1>2 DEF Alive, Mine
  <2>2. object[e].proc \in DOMAIN process /\ process[object[e].proc].of = e
    BY <2>1 DEF LastProcess
  <2>3. Alive(object[e].proc) /\ Unspoiled(e) /\ process'[object[e].proc].alive
    BY <1>3, <1>6, <2>1, <2>2 DEF Alive
  <2>4. CASE e # eng[c]
    <3>1. object'[e] = object[e] /\ \A d \in Callers : eng[d] = e => pc[d] # "uciok"
      BY <1>1, <1>2, <2>4
    <3>2. Recorded(e)
      BY <2>3, <3>1 DEF OnRecord
    <3>3. object[e].proc # Mine(c).proc
      BY <1>1, <2>1, <2>2, <2>4 DEF LastProcess, Mine
    <3> QED BY <2>2, <2>3, <3>1, <3>2, <3>3, FedRecord
  <2>5. CASE e = eng[c]
    <3>1. Serves(c)
      BY <2>3, <2>5 DEF Serves, Mine
    <3>2. pc[c] = "uciok" => Handshake(c)
      <4>1. pc'[c] # "uciok"
        BY <2>5
      <4>2. ~ProcessExited(c) \/ pc[c] # "uciok"
        <5> SUFFICES ASSUME Gets(c, "None"), pc[c] = "uciok" PROVE FALSE
          BY DEF ProcessExited
        <5>1. 1 \in DOMAIN object[e].lines /\ object[e].lines[1].kind = "None"
          BY <2>5, GetsFirst
        <5> QED BY <2>3, <5>1 DEF Answers, NoEarlyEnd, Unspoiled
      <4>3. e \notin cut'
        BY DEF Unspoiled
      <4> QED BY <2>5, <4>1, <4>2, <4>3, RecordProgress
    <3>3. pc[c] # "uciok" => Recorded(e)
      <4> SUFFICES ASSUME pc[c] # "uciok" PROVE Recorded(e)
        OBVIOUS
      <4>1. \A d \in Callers : eng[d] = e => pc[d] # "uciok"
        BY <1>2
      <4> QED BY <2>3, <4>1 DEF OnRecord
    <3>4. CASE Handshake(c) BY <2>5, <3>1, <3>4, HandshakeRecords
    <3>5. CASE SetVariant(c)
      <4>1. pc[c] # "uciok"
        BY <3>5 DEF SetVariant
      <4> QED BY <2>5, <3>1, <3>3, <3>5, <4>1, SetVariantRecords
    <3>6. CASE Prepare(c)
      <4>1. pc[c] # "uciok"
        BY <3>6 DEF Prepare
      <4> QED BY <2>5, <3>1, <3>3, <3>6, <4>1, PrepareRecords
    <3>7. CASE ~Handshake(c) /\ ~SetVariant(c) /\ ~Prepare(c)
      <4>1. Recorded(e)
        BY <3>2, <3>3, <3>7
      <4>2. \A i \in DOMAIN m : m[i].cmd \notin {"variant", "multipv"}
        BY <3>7 DEF Feeds
      <4>3. object'[e].active = object[e].active /\ object'[e].multipv = object[e].multipv
        BY <2>5, <3>7, RecordKept
      <4> QED BY <2>1, <2>2, <2>3, <4>1, <4>2, <4>3, FedRecord
    <3> QED BY <3>4, <3>5, <3>6, <3>7
  <2> QED BY <2>4, <2>5
<1>10. RecordAsAsked'
  <2> SUFFICES ASSUME NEW d \in Callers, pc'[d] \in {"variantReady", "prepare", "positionReady"}
               PROVE  /\ object'[eng[d]].active = WantVariant[d]
                      /\ pc'[d] = "positionReady" => object'[eng[d]].multipv = WantPv[d]
    BY <1>2 DEF RecordAsAsked
  <2>1. CASE d # c
    <3>1. pc[d] = pc'[d] /\ pc[d] \in Holding
      BY <1>2, <2>1 DEF Holding, Searching
    <3>2. /\ object[eng[d]].active = WantVariant[d]
          /\ pc[d] = "positionReady" => object[eng[d]].multipv = WantPv[d]
      BY <3>1 DEF RecordAsAsked
    <3>3. eng[d] \in DOMAIN object
      BY <3>1, MineType DEF Holding, Starting, Searching
    <3>4. CASE eng[d] # eng[c] BY <1>1, <3>1, <3>2, <3>3, <3>4
    <3>5. CASE eng[d] = eng[c]
      <4>1. ~Handshake(c) /\ ~SetVariant(c) /\ ~Prepare(c)
        BY <2>1, <3>1, <3>5, Exclusive DEF Handshake, SetVariant, Prepare, Holding, Starting, Searching
      <4> QED BY <1>1, <3>1, <3>2, <3>5, <4>1, RecordKept
    <3> QED BY <3>4, <3>5
  <2>2. CASE d = c
    <3>1. CASE SetVariant(c) /\ Serves(c) /\ pc'[c] = "variantReady"
      BY <1>1, <2>2, <3>1, SetVariantRecords
    <3>2. CASE Prepare(c) /\ Serves(c) /\ pc[c] = "prepare" /\ pc'[c] = "positionReady"
      BY <1>1, <2>2, <3>2, PrepareRecords DEF RecordAsAsked
    <3>3. CASE /\ VariantSet(c) /\ pc'[c] = "prepare"
               /\ pc[c] = "variantReady" \/ WantVariant[c] = Mine(c).active
      <4>1. object[eng[c]].active = WantVariant[c]
        BY <3>3 DEF RecordAsAsked, Mine
      <4>2. ~Handshake(c) /\ ~SetVariant(c) /\ ~Prepare(c)
        <5>1. SetVariant(c) => pc' # [pc EXCEPT ![c] = "prepare"]
          <6>1. SetVariant(c) => \E x \in {"variantReady", "failed"} : pc' = [pc EXCEPT ![c] = x]
            BY DEF SetVariant, SendOrLeave, Leave, At
          <6> QED BY <1>2, <6>1
        <5> QED BY <3>3, <5>1 DEF VariantSet, Handshake, Prepare, At
      <4> QED BY <1>1, <2>2, <3>3, <4>1, <4>2, RecordKept
    <3>4. CASE ReadOther(c) /\ pc'[c] = pc[c]
      <4>1. pc[c] # "prepare" /\ pc'[c] = pc[c]
        BY <3>4 DEF ReadOther, Awaited
      <4>2. ~Handshake(c) /\ ~SetVariant(c) /\ ~Prepare(c)
        BY <2>2, <4>1 DEF Handshake, SetVariant, Prepare
      <4> QED BY <1>1, <2>2, <4>1, <4>2, RecordKept DEF RecordAsAsked
    <3> QED BY <2>2, <3>1, <3>2, <3>3, <3>4, RecordProgress
  <2> QED BY <2>1, <2>2
<1>11. RanOnce'
  BY <1>2, <1>5 DEF RanOnce
<1>12. RunsAsAsked'
  BY <1>2 DEF RunsAsAsked
<1> QED BY <1>7, <1>8, <1>9, <1>10, <1>11, <1>12

-----------------------------------------------------------------------------
(* Settings: the other steps *)

\* A caller that comes, or is told to stop, has no part in them yet.
LEMMA ComesSettings ==
  ASSUME TypeOK, Ownership, SettingsKept, NEW c \in Callers, Comes(c)
  PROVE  SettingsKept'
<1> USE DEF SettingsKept
<1>1. UNCHANGED <<object, process, mixed, cut, ran>>
  BY DEF Comes, GetShared, GetOther, StopEvent, faults
<1>2. \A d \in Callers : \/ pc'[d] = pc[d] /\ eng'[d] = eng[d]
                         \/ pc[d] = "out" /\ pc'[d] \in {"got", "new", "close"}
  BY DEF TypeOK, Comes, GetShared, GetOther, StopEvent, At
<1>3. GoIsOfCaller'
  BY <1>1, <1>2 DEF GoIsOfCaller
<1>4. GoAsAsked'
  BY <1>1 DEF GoAsAsked, Unspoiled, VariantAfter, PvAfter
<1>5. \A e \in DOMAIN object :
        (\A d \in Callers : eng'[d] = e => pc'[d] # "uciok") => \A d \in Callers : eng[d] = e => pc[d] # "uciok"
  BY <1>2
<1>6. OnRecord'
  BY <1>1, <1>5 DEF OnRecord, Unspoiled, Recorded, VariantAfter, PvAfter, Alive
<1>7. RecordAsAsked' /\ RanOnce' /\ RunsAsAsked'
  BY <1>1, <1>2 DEF RecordAsAsked, RanOnce, RunsAsAsked
<1> QED BY <1>3, <1>4, <1>6, <1>7

\* A new object has no process.
LEMMA NewEngineSettings ==
  ASSUME TypeOK, Ownership, SettingsKept, NEW c \in Callers, NewEngine(c)
  PROVE  SettingsKept'
<1> USE DEF SettingsKept
<1> DEFINE n == Len(object) + 1
<1>1. /\ DOMAIN object' = DOMAIN object \cup {n} /\ n \notin DOMAIN object
      /\ object'[n] = NewObject /\ \A e \in DOMAIN object : object'[e] = object[e]
  BY NewEngineOwnership
<1>2. /\ UNCHANGED <<process, mixed, cut, ran>> /\ pc[c] = "new"
      /\ pc' = [pc EXCEPT ![c] = "spawn"] /\ eng' = [eng EXCEPT ![c] = n]
  BY DEF NewEngine, At, faults
<1> HIDE DEF n
<1>3. \A d \in Callers \ {c} : pc'[d] = pc[d] /\ eng'[d] = eng[d]
  BY <1>2 DEF TypeOK
<1>4. pc'[c] = "spawn" /\ NewObject.proc = 0
  BY <1>2 DEF TypeOK, NewObject
<1>5. GoIsOfCaller'
  <2> SUFFICES ASSUME NEW p \in DOMAIN process, NEW i \in DOMAIN process[p].inq, process[p].inq[i].cmd = "go"
               PROVE  LET d == process[p].inq[i].arg
                      IN d \in Callers /\ eng'[d] = process[p].of /\ pc'[d] \in {"read", "done", "failed"}
    BY <1>2 DEF GoIsOfCaller
  <2> DEFINE d == process[p].inq[i].arg
  <2>1. d \in Callers /\ eng[d] = process[p].of /\ pc[d] \in {"read", "done", "failed"}
    BY DEF GoIsOfCaller
  <2>2. d # c
    BY <1>2, <2>1
  <2> QED BY <1>3, <2>1, <2>2
<1>6. GoAsAsked'
  BY <1>2 DEF GoAsAsked, Unspoiled, VariantAfter, PvAfter
<1>7. OnRecord'
  <2> SUFFICES ASSUME NEW e \in DOMAIN object', Unspoiled(e), Alive(object[e].proc)',
                      \A d \in Callers : eng'[d] = e => pc'[d] # "uciok"
               PROVE  Recorded(e)'
    BY <1>2 DEF OnRecord, Unspoiled
  <2>1. e \in DOMAIN object /\ Alive(object[e].proc)
    BY <1>1, <1>2, <1>4 DEF Alive
  <2>2. \A d \in Callers : eng[d] = e => pc[d] # "uciok"
    BY <1>2, <1>3
  <2>3. Recorded(e)
    BY <2>1, <2>2 DEF OnRecord
  <2> QED BY <1>1, <1>2, <2>1, <2>3 DEF Recorded, VariantAfter, PvAfter
<1>8. RecordAsAsked'
  <2> SUFFICES ASSUME NEW d \in Callers, pc'[d] \in {"variantReady", "prepare", "positionReady"}
               PROVE  /\ object'[eng'[d]].active = WantVariant[d]
                      /\ pc'[d] = "positionReady" => object'[eng'[d]].multipv = WantPv[d]
    BY DEF RecordAsAsked
  <2>1. pc'[d] = pc[d] /\ eng'[d] = eng[d]
    BY <1>3, <1>4
  <2>2. eng[d] \in DOMAIN object
    BY <2>1, MineType DEF Ownership
  <2> QED BY <1>1, <2>1, <2>2 DEF RecordAsAsked
<1>9. RanOnce' /\ RunsAsAsked'
  BY <1>2, <1>3, <1>4 DEF RanOnce, RunsAsAsked
<1> QED BY <1>5, <1>6, <1>7, <1>8, <1>9

\* A new process has nothing to do, and is at its handshake.
LEMMA SpawnSettings ==
  ASSUME TypeOK, Ownership, SettingsKept, NEW c \in Callers, Spawn(c)
  PROVE  SettingsKept'
<1> USE DEF SettingsKept
<1> DEFINE n == Len(process) + 1
<1>0. PICK e \in DOMAIN object : e = eng[c]
  BY SpawnFacts
<1>1. /\ n \notin DOMAIN process /\ DOMAIN process' = DOMAIN process \cup {n}
      /\ process'[n] = NewProcess(e) /\ \A p \in DOMAIN process : process'[p] = process[p]
      /\ DOMAIN object' = DOMAIN object
      /\ \A d \in DOMAIN object \ {e} : object'[d] = object[d]
      /\ object'[e].proc = n
      /\ pc[c] = "spawn" /\ pc' = [pc EXCEPT ![c] = "uciok"]
  BY <1>0, SpawnFacts
<1>2. UNCHANGED <<eng, cut, ran>> /\ mixed \subseteq mixed'
  BY DEF Spawn, locals
<1> HIDE DEF n
<1>3. \A d \in Callers \ {c} : pc'[d] = pc[d] /\ (pc[d] \in Holding => eng[d] # e)
  BY <1>0, <1>1, Exclusive DEF TypeOK, Holding, Starting
<1>4. pc'[c] = "uciok" /\ \A x : Unspoiled(x)' => Unspoiled(x)
  BY <1>1, <1>2 DEF TypeOK, Unspoiled
<1>5. \A i \in DOMAIN process'[n].inq : process'[n].inq[i].cmd # "go"
  <2>1. process'[n].inq = <<Cmd("uci")>> /\ Cmd("uci").cmd # "go"
    BY <1>1 DEF NewProcess, Cmd
  <2> QED BY <2>1
<1>6. GoIsOfCaller'
  <2> SUFFICES ASSUME NEW p \in DOMAIN process, NEW i \in DOMAIN process[p].inq, process[p].inq[i].cmd = "go"
               PROVE  LET d == process[p].inq[i].arg
                      IN d \in Callers /\ eng[d] = process[p].of /\ pc'[d] \in {"read", "done", "failed"}
    BY <1>1, <1>2, <1>5 DEF GoIsOfCaller
  <2> DEFINE d == process[p].inq[i].arg
  <2>1. d \in Callers /\ eng[d] = process[p].of /\ pc[d] \in {"read", "done", "failed"}
    BY DEF GoIsOfCaller
  <2>2. d # c
    BY <1>1, <2>1
  <2> QED BY <1>3, <2>1, <2>2
<1>7. GoAsAsked'
  <2> SUFFICES ASSUME NEW p \in DOMAIN process', NEW i \in DOMAIN process'[p].inq, process'[p].inq[i].cmd = "go",
                      Unspoiled(process'[p].of), NEW d, d = process'[p].inq[i].arg
               PROVE  VariantAfter(p, i - 1, WantVariant[d])' /\ PvAfter(p, i - 1, WantPv[d])'
    BY <1>2 DEF GoAsAsked, Unspoiled
  <2>1. p \in DOMAIN process /\ process'[p] = process[p]
    BY <1>1, <1>5
  <2>2. VariantAfter(p, i - 1, WantVariant[d]) /\ PvAfter(p, i - 1, WantPv[d])
    BY <2>1 DEF GoAsAsked
  <2> QED BY <2>1, <2>2 DEF VariantAfter, PvAfter
<1>8. OnRecord'
  <2> SUFFICES ASSUME NEW d \in DOMAIN object, Unspoiled(d)', Alive(object[d].proc)',
                      \A x \in Callers : eng[x] = d => pc'[x] # "uciok"
               PROVE  Recorded(d)'
    BY <1>1, <1>2 DEF OnRecord
  <2>1. d # e /\ object'[d] = object[d]
    BY <1>0, <1>1, <1>4
  <2>2. object[d].proc \in DOMAIN process /\ process'[object[d].proc] = process[object[d].proc]
    BY <1>1, <2>1 DEF Alive, Ownership, LastProcess
  <2>3. Alive(object[d].proc) /\ \A x \in Callers : eng[x] = d => pc[x] # "uciok"
    BY <1>0, <1>3, <2>1, <2>2 DEF Alive
  <2>4. Recorded(d)
    BY <1>4, <2>3 DEF OnRecord
  <2> QED BY <2>1, <2>2, <2>4 DEF Recorded, VariantAfter, PvAfter
<1>9. RecordAsAsked'
  <2> SUFFICES ASSUME NEW d \in Callers, pc'[d] \in {"variantReady", "prepare", "positionReady"}
               PROVE  /\ object'[eng[d]].active = WantVariant[d]
                      /\ pc'[d] = "positionReady" => object'[eng[d]].multipv = WantPv[d]
    BY <1>2 DEF RecordAsAsked
  <2>1. pc'[d] = pc[d] /\ eng[d] # e
    BY <1>3, <1>4 DEF Holding, Searching
  <2>2. eng[d] \in DOMAIN object
    BY <2>1, MineType DEF Ownership
  <2> QED BY <1>1, <2>1, <2>2 DEF RecordAsAsked
<1>10. RanOnce'
  BY <1>1, <1>2, <1>3 DEF RanOnce
<1>11. RunsAsAsked'
  BY <1>2 DEF RunsAsAsked
<1> QED BY <1>6, <1>7, <1>8, <1>9, <1>10, <1>11

\* What is left after a process has taken a command.
LEMMA TakenLeaves ==
  ASSUME TypeOK, NEW p \in DOMAIN process, process[p].alive, ~process[p].eof, process[p].inq # << >>,
         Head(process[p].inq).cmd # "quit", process'[p] = Obey(p, Head(process[p].inq)), NEW n \in 1 .. Len(process[p].inq), NEW v
  PROVE  /\ VariantAfter(p, n, v) => VariantAfter(p, n - 1, v)'
         /\ PvAfter(p, n, v) => PvAfter(p, n - 1, v)'
<1> DEFINE q == process[p].inq
           r == process'[p].inq
           x == Head(q)
<1>1. process[p] \in Processes
  BY DEF TypeOK
<1>2. q \in Seq(Commands)
  BY <1>1 DEF Processes
<1>3. /\ r = Tail(q)
      /\ process'[p].setting.variant = IF x.cmd = "variant" THEN x.arg ELSE process[p].setting.variant
      /\ process'[p].setting.pv = IF x.cmd = "multipv" THEN x.arg ELSE process[p].setting.pv
  BY <1>1, ObeyFacts
<1>4. q # << >> /\ n \in 1 .. Len(q)
  OBVIOUS
<1> HIDE DEF q, r
<1>5. ASSUME NEW s, NEW k, Leaves(s, q, n, k, v)
      PROVE  Leaves(IF x.cmd = k THEN x.arg ELSE s, r, n - 1, k, v)
  BY <1>2, <1>3, <1>4, <1>5, LeavesPop
<1>6. ASSUME VariantAfter(p, n, v) PROVE VariantAfter(p, n - 1, v)'
  <2>1. Leaves(process[p].setting.variant, q, n, "variant", v)
    BY <1>6 DEF VariantAfter, q
  <2>2. Leaves(process'[p].setting.variant, r, n - 1, "variant", v)
    BY <1>3, <1>5, <2>1
  <2> QED BY <2>2 DEF VariantAfter, r
<1>7. ASSUME PvAfter(p, n, v) PROVE PvAfter(p, n - 1, v)'
  <2>1. Leaves(process[p].setting.pv, q, n, "multipv", v)
    BY <1>7 DEF PvAfter, q
  <2>2. Leaves(process'[p].setting.pv, r, n - 1, "multipv", v)
    BY <1>3, <1>5, <2>1
  <2> QED BY <2>2 DEF PvAfter, r
<1> QED BY <1>6, <1>7

\* The steps of a process keep the settings.
LEMMA ProcessSettings ==
  ASSUME TypeOK, Ownership, SettingsKept, NEW p \in DOMAIN process, ProcessStep(p)
  PROVE  SettingsKept'
<1> USE DEF SettingsKept
<1>1. /\ UNCHANGED <<pc, eng, mixed, cut>>
      /\ DOMAIN object' = DOMAIN object /\ DOMAIN process' = DOMAIN process
      /\ \A q \in DOMAIN process \ {p} : process'[q] = process[q]
      /\ process'[p].of = process[p].of /\ (process'[p].alive => process[p].alive)
      /\ \A d \in DOMAIN object :
           /\ object'[d].proc = object[d].proc
           /\ object'[d].active = object[d].active /\ object'[d].multipv = object[d].multipv
  BY ProcessFrame DEF locals, Ownership
<1>2. process[p] \in Processes /\ process \in Seq(Processes) /\ p # 0
  BY DEF TypeOK
<1>3. process[p].inq \in Seq(Commands) /\ process[p].setting \in Settings
  BY <1>2 DEF Processes
<1>4. \A e \in DOMAIN object : Alive(object[e].proc)' => Alive(object[e].proc) /\ object[e].proc \in DOMAIN process
  BY <1>1 DEF Alive, Ownership, LastProcess
<1>5. \A d \in Callers : pc[d] \in {"variantReady", "prepare", "positionReady"} => eng[d] \in DOMAIN object
  BY MineType DEF Ownership
<1>6. RecordAsAsked'
  BY <1>1, <1>5 DEF RecordAsAsked
<1>q. CASE Crash(p) \/ Quits(p)
  <2>1. ran' = ran /\ process'[p].inq = << >> /\ ~process'[p].alive
    <3>1. CASE Crash(p)
      <4>1. ran' = ran /\ process' = [process EXCEPT ![p] = Gone(process[p])]
        BY <3>1 DEF Crash
      <4> QED BY <1>2, <4>1, GoneFacts
    <3>2. CASE Quits(p) BY <3>2, QuitFacts DEF Ownership
    <3> QED BY <1>q, <3>1, <3>2
  <2>2. DOMAIN process'[p].inq = {}
    BY <2>1
  <2>3. GoIsOfCaller'
    <3> SUFFICES ASSUME NEW q \in DOMAIN process \ {p}, NEW i \in DOMAIN process[q].inq, process[q].inq[i].cmd = "go"
                 PROVE  LET d == process[q].inq[i].arg
                        IN d \in Callers /\ eng[d] = process[q].of /\ pc[d] \in {"read", "done", "failed"}
      BY <1>1, <2>2 DEF GoIsOfCaller
    <3> QED BY DEF GoIsOfCaller
  <2>4. \A q \in DOMAIN process \ {p} : \A n, v : /\ VariantAfter(q, n, v) => VariantAfter(q, n, v)'
                                                  /\ PvAfter(q, n, v) => PvAfter(q, n, v)'
    BY <1>1 DEF VariantAfter, PvAfter
  <2>5. GoAsAsked'
    <3> SUFFICES ASSUME NEW q \in DOMAIN process \ {p}, NEW i \in DOMAIN process[q].inq,
                        process[q].inq[i].cmd = "go", Unspoiled(process[q].of), NEW d, d = process[q].inq[i].arg
                 PROVE  VariantAfter(q, i - 1, WantVariant[d])' /\ PvAfter(q, i - 1, WantPv[d])'
      BY <1>1, <2>2 DEF GoAsAsked, Unspoiled
    <3>1. VariantAfter(q, i - 1, WantVariant[d]) /\ PvAfter(q, i - 1, WantPv[d])
      BY DEF GoAsAsked
    <3> QED BY <2>4, <3>1
  <2>6. OnRecord'
    <3> SUFFICES ASSUME NEW e \in DOMAIN object, Unspoiled(e), Alive(object[e].proc)',
                        \A d \in Callers : eng[d] = e => pc[d] # "uciok"
                 PROVE  Recorded(e)'
      BY <1>1 DEF OnRecord, Unspoiled
    <3>1. Recorded(e)
      BY <1>4 DEF OnRecord
    <3>2. object[e].proc \in DOMAIN process \ {p}
      BY <1>1, <1>4, <2>1 DEF Alive
    <3> QED BY <1>1, <3>1, <3>2 DEF Recorded, VariantAfter, PvAfter
  <2>7. RanOnce' /\ RunsAsAsked'
    BY <1>1, <2>1 DEF RanOnce, RunsAsAsked
  <2> QED BY <1>6, <2>3, <2>5, <2>6, <2>7
<1>7. CASE SearchEnds(p) \/ ReaderEnds(p)
  <2>1. ran' = ran /\ process'[p].inq = process[p].inq /\ process'[p].setting = process[p].setting
    <3>1. /\ ran' = ran
          /\ \/ process' = [process EXCEPT ![p] = [process[p] EXCEPT !.eof = TRUE]]
             \/ process' = [process EXCEPT ![p] = [process[p] EXCEPT !.search = Nobody, !.halted = FALSE]]
      BY <1>7 DEF SearchEnds, ReaderEnds
    <3>2. /\ [process[p] EXCEPT !.eof = TRUE].inq = process[p].inq
          /\ [process[p] EXCEPT !.eof = TRUE].setting = process[p].setting
          /\ [process[p] EXCEPT !.search = Nobody, !.halted = FALSE].inq = process[p].inq
          /\ [process[p] EXCEPT !.search = Nobody, !.halted = FALSE].setting = process[p].setting
      BY <1>2 DEF Processes
    <3> QED BY <1>2, <3>1, <3>2
  <2>2. \A q \in DOMAIN process : /\ process'[q].inq = process[q].inq /\ process'[q].setting = process[q].setting
                                  /\ process'[q].of = process[q].of
    BY <1>1, <2>1
  <2>3. GoIsOfCaller'
    <3> SUFFICES ASSUME NEW q \in DOMAIN process, NEW i \in DOMAIN process[q].inq, process[q].inq[i].cmd = "go"
                 PROVE  LET d == process[q].inq[i].arg
                        IN d \in Callers /\ eng[d] = process[q].of /\ pc[d] \in {"read", "done", "failed"}
      BY <1>1, <2>2 DEF GoIsOfCaller
    <3> QED BY DEF GoIsOfCaller
  <2>r. RanOnce' /\ RunsAsAsked'
    BY <1>1, <2>1 DEF RanOnce, RunsAsAsked
  <2>4. \A q \in DOMAIN process : \A n, v : /\ VariantAfter(q, n, v) => VariantAfter(q, n, v)'
                                            /\ PvAfter(q, n, v) => PvAfter(q, n, v)'
    BY <2>2 DEF VariantAfter, PvAfter
  <2>5. GoAsAsked'
    <3> SUFFICES ASSUME NEW q \in DOMAIN process, NEW i \in DOMAIN process[q].inq, process[q].inq[i].cmd = "go",
                        Unspoiled(process[q].of), NEW d, d = process[q].inq[i].arg
                 PROVE  VariantAfter(q, i - 1, WantVariant[d])' /\ PvAfter(q, i - 1, WantPv[d])'
      BY <1>1, <2>2 DEF GoAsAsked, Unspoiled
    <3>1. VariantAfter(q, i - 1, WantVariant[d]) /\ PvAfter(q, i - 1, WantPv[d])
      BY DEF GoAsAsked
    <3> QED BY <2>4, <3>1
  <2>6. OnRecord'
    <3> SUFFICES ASSUME NEW e \in DOMAIN object, Unspoiled(e), Alive(object[e].proc)',
                        \A d \in Callers : eng[d] = e => pc[d] # "uciok"
                 PROVE  Recorded(e)'
      BY <1>1 DEF OnRecord, Unspoiled
    <3>1. Recorded(e)
      BY <1>4 DEF OnRecord
    <3> QED BY <1>1, <1>4, <2>2, <3>1 DEF Recorded, VariantAfter, PvAfter
  <2> QED BY <1>6, <2>3, <2>r, <2>5, <2>6
<1>8. CASE Command(p) /\ ~Quits(p)
  <2> DEFINE x == Head(process[p].inq)
  <2>0. x.cmd # "quit"
    BY <1>8 DEF Quits
  <2>1. /\ process[p].alive /\ process[p].inq # << >> /\ process' = [process EXCEPT ![p] = Obey(p, x)]
        /\ ran' = IF x.cmd = "go" THEN [ran EXCEPT ![x.arg] = process[p].setting] ELSE ran
    BY <1>2, <1>8 DEF Command, Alive
  <2>2. ~process[p].eof
    BY <2>1 DEF Ownership, EndMarkLast
  <2>3. process'[p] = Obey(p, x)
    BY <1>2, <2>1
  <2>4. process'[p].inq = Tail(process[p].inq)
    BY <1>2, <2>0, <2>1, <2>2, <2>3, ObeyFacts
  <2>5. /\ 1 \in DOMAIN process[p].inq /\ process[p].inq[1] = x
        /\ Len(process'[p].inq) = Len(process[p].inq) - 1
        /\ Len(process[p].inq) \in 1 .. Len(process[p].inq)
        /\ \A i \in DOMAIN process'[p].inq :
             /\ i + 1 \in DOMAIN process[p].inq /\ process'[p].inq[i] = process[p].inq[i + 1]
             /\ i \in 1 .. Len(process[p].inq) /\ (i + 1) - 1 = i
    <3> DEFINE q == process[p].inq
               r == process'[p].inq
    <3>1. q \in Seq(Commands) /\ q # << >> /\ r = Tail(q) /\ x = Head(q)
      BY <1>3, <2>1, <2>4
    <3> HIDE DEF q, r, x
    <3>2. /\ 1 \in DOMAIN q /\ q[1] = x /\ Len(r) = Len(q) - 1 /\ Len(q) \in 1 .. Len(q)
          /\ \A i \in DOMAIN r : /\ i + 1 \in DOMAIN q /\ r[i] = q[i + 1]
                                /\ i \in 1 .. Len(q) /\ (i + 1) - 1 = i
      BY <3>1
    <3> QED BY <3>2 DEF q, r
  <2> HIDE DEF x
  <2>6. \A n \in 1 .. Len(process[p].inq) : \A v :
          /\ VariantAfter(p, n, v) => VariantAfter(p, n - 1, v)'
          /\ PvAfter(p, n, v) => PvAfter(p, n - 1, v)'
    BY <2>0, <2>1, <2>2, <2>3, TakenLeaves DEF x
  <2>7. \A q \in DOMAIN process \ {p} : \A n, v : /\ VariantAfter(q, n, v) => VariantAfter(q, n, v)'
                                                  /\ PvAfter(q, n, v) => PvAfter(q, n, v)'
    BY <1>1 DEF VariantAfter, PvAfter
  <2>8. GoIsOfCaller'
    <3> SUFFICES ASSUME NEW q \in DOMAIN process, NEW i \in DOMAIN process'[q].inq, process'[q].inq[i].cmd = "go"
                 PROVE  LET d == process'[q].inq[i].arg
                        IN d \in Callers /\ eng[d] = process'[q].of /\ pc[d] \in {"read", "done", "failed"}
      BY <1>1 DEF GoIsOfCaller
    <3>1. CASE q = p BY <1>1, <2>5, <3>1 DEF GoIsOfCaller
    <3>2. CASE q # p BY <1>1, <3>2 DEF GoIsOfCaller
    <3> QED BY <3>1, <3>2
  <2>9. GoAsAsked'
    <3> SUFFICES ASSUME NEW q \in DOMAIN process, NEW i \in DOMAIN process'[q].inq, process'[q].inq[i].cmd = "go",
                        Unspoiled(process[q].of), NEW d, d = process'[q].inq[i].arg
                 PROVE  VariantAfter(q, i - 1, WantVariant[d])' /\ PvAfter(q, i - 1, WantPv[d])'
      BY <1>1 DEF GoAsAsked, Unspoiled
    <3>1. CASE q = p
      <4>1. VariantAfter(p, (i + 1) - 1, WantVariant[d]) /\ PvAfter(p, (i + 1) - 1, WantPv[d])
        BY <2>5, <3>1 DEF GoAsAsked
      <4>2. VariantAfter(p, i, WantVariant[d]) /\ PvAfter(p, i, WantPv[d])
        BY <2>5, <3>1, <4>1
      <4>3. i \in 1 .. Len(process[p].inq)
        BY <2>5, <3>1
      <4> QED BY <2>6, <3>1, <4>2, <4>3
    <3>2. CASE q # p
      <4>1. process'[q] = process[q]
        BY <1>1, <3>2
      <4>2. VariantAfter(q, i - 1, WantVariant[d]) /\ PvAfter(q, i - 1, WantPv[d])
        BY <4>1 DEF GoAsAsked
      <4> QED BY <2>7, <3>2, <4>2
    <3> QED BY <3>1, <3>2
  <2>10. OnRecord'
    <3> SUFFICES ASSUME NEW e \in DOMAIN object, Unspoiled(e), Alive(object[e].proc)',
                        \A d \in Callers : eng[d] = e => pc[d] # "uciok"
                 PROVE  Recorded(e)'
      BY <1>1 DEF OnRecord, Unspoiled
    <3>1. Recorded(e)
      BY <1>4 DEF OnRecord
    <3>2. CASE object[e].proc = p
      <4>0. PICK n \in 1 .. Len(process[p].inq) : n = Len(process[p].inq)
        BY <2>5
      <4>1. VariantAfter(p, n, object[e].active) /\ (object[e].multipv # 0 => PvAfter(p, n, object[e].multipv))
        BY <3>1, <3>2, <4>0 DEF Recorded
      <4>2. \A v : /\ VariantAfter(p, n, v) => VariantAfter(p, n - 1, v)'
                   /\ PvAfter(p, n, v) => PvAfter(p, n - 1, v)'
        BY <2>6
      <4>3. /\ Leaves(process'[p].setting.variant, process'[p].inq, n - 1, "variant", object[e].active)
            /\ object[e].multipv # 0 =>
                 Leaves(process'[p].setting.pv, process'[p].inq, n - 1, "multipv", object[e].multipv)
        BY <4>1, <4>2 DEF VariantAfter, PvAfter
      <4> QED BY <1>1, <2>5, <3>2, <4>0, <4>3 DEF Recorded, VariantAfter, PvAfter
    <3>3. CASE object[e].proc # p
      <4>1. process'[object[e].proc] = process[object[e].proc]
        BY <1>1, <1>4, <3>3
      <4> QED BY <1>1, <3>1, <4>1 DEF Recorded, VariantAfter, PvAfter
    <3> QED BY <3>2, <3>3
  <2>11. CASE x.cmd # "go"
    <3>1. RanOnce' /\ RunsAsAsked'
      BY <1>1, <2>1, <2>11 DEF RanOnce, RunsAsAsked
    <3> QED BY <1>6, <2>8, <2>9, <2>10, <3>1
  <2>12. CASE x.cmd = "go"
    <3>1. x.arg \in Callers /\ eng[x.arg] = process[p].of /\ pc[x.arg] \in {"read", "done", "failed"}
      BY <2>5, <2>12 DEF GoIsOfCaller
    <3>2. ran' = [ran EXCEPT ![x.arg] = process[p].setting] /\ ran \in [Callers -> Settings]
      BY <2>1, <2>12 DEF TypeOK
    <3>3. RanOnce'
      BY <1>1, <3>1, <3>2 DEF RanOnce
    <3>4. Unspoiled(process[p].of)
            => process[p].setting = [variant |-> WantVariant[x.arg], pv |-> WantPv[x.arg]]
      <4> SUFFICES ASSUME Unspoiled(process[p].of)
                   PROVE  process[p].setting = [variant |-> WantVariant[x.arg], pv |-> WantPv[x.arg]]
        OBVIOUS
      <4>1. VariantAfter(p, 1 - 1, WantVariant[x.arg]) /\ PvAfter(p, 1 - 1, WantPv[x.arg])
        BY <2>5, <2>12 DEF GoAsAsked
      <4>2. 1 .. 1 - 1 = {}
        OBVIOUS
      <4>3. process[p].setting.variant = WantVariant[x.arg] /\ process[p].setting.pv = WantPv[x.arg]
        BY <4>1, <4>2 DEF VariantAfter, PvAfter, Leaves
      <4> QED BY <1>3, <4>3 DEF Settings
    <3>5. RunsAsAsked'
      BY <1>1, <3>1, <3>2, <3>4 DEF RunsAsAsked, Unspoiled
    <3> QED BY <1>6, <2>8, <2>9, <2>10, <3>3, <3>5
  <2> QED BY <2>11, <2>12
<1> QED BY <1>7, <1>8, <1>q DEF ProcessStep

-----------------------------------------------------------------------------
(* The invariant and what it implies *)

\* It holds before the first call.
LEMMA InitInv == Init => IInv
<1> SUFFICES ASSUME Init PROVE IInv
  OBVIOUS
<1> USE DEF Init
<1> DEFINE none == << >>
<1>1. none \in Seq(Objects) /\ none \in Seq(Processes) /\ DOMAIN none = {} /\ Len(none) = 0 /\ Nobody \notin Callers
  BY CallersAssumption
<1>2. object = none /\ process = none
  OBVIOUS
<1> HIDE DEF none
<1>3. NoSetting \in Settings /\ "out" \in Places
  BY DEF NoSetting, Settings, Args, Places
<1>4. 0 \in 0 .. 0
  OBVIOUS
<1>5. TypeOK
  BY <1>1, <1>2, <1>3, <1>4 DEF TypeOK
<1>6. Ownership
  BY <1>1, <1>2 DEF Ownership, HasObject, ReplacerLocks, FreshObject, HoldsLock, LastProcess, EndMarkLast,
         Replacing, Starting, Searching
<1>7. Answers
  BY <1>1, <1>2 DEF Answers, OneWriter, NoEarlyEnd, QuietBefore, OwnWhileReading, QuietAfter, AnsweredOnce,
         Starting, Searching
<1>8. SettingsKept
  BY <1>1, <1>2 DEF SettingsKept, GoIsOfCaller, GoAsAsked, OnRecord, RecordAsAsked, RanOnce, RunsAsAsked
<1> QED BY <1>5, <1>6, <1>7, <1>8 DEF IInv

\* What a step may be.
LEMMA NextCases ==
  ASSUME [Next]_vars
  PROVE  \/ \E c \in Callers : LooksOnly(c) \/ WorksOn(c) \/ Comes(c) \/ NewEngine(c) \/ Spawn(c)
         \/ \E p \in DOMAIN process : ProcessStep(p)
         \/ UNCHANGED vars
<1>1. ASSUME NEW c \in Callers,
             GetsEngine(c) \/ Starts(c) \/ Searches(c) \/ Waits(c) \/ TimedOut(c) \/ GivesUp(c) \/ StopEvent(c)
      PROVE  LooksOnly(c) \/ WorksOn(c) \/ Comes(c) \/ NewEngine(c) \/ Spawn(c)
  BY <1>1 DEF GetsEngine, Starts, LooksOnly, WorksOn, Comes
<1>2. ASSUME NEW p \in DOMAIN process, Command(p) \/ SearchEnds(p) \/ ReaderEnds(p) \/ Crash(p)
      PROVE  ProcessStep(p)
  BY <1>2 DEF ProcessStep
<1> QED BY <1>1, <1>2 DEF Next, Runs

\* Every step keeps it.
LEMMA NextInv == IInv /\ [Next]_vars => IInv'
<1> SUFFICES ASSUME IInv, [Next]_vars PROVE IInv'
  OBVIOUS
<1>0. TypeOK /\ Ownership /\ Answers /\ SettingsKept
  BY DEF IInv
<1>1. ASSUME NEW c \in Callers, LooksOnly(c) \/ WorksOn(c) PROVE IInv'
  <2>1. PICK o \in Objects, to \in Places : Moves(c, o, to)
    BY <1>0, <1>1, CallerMoves DEF Ownership
  <2>2. PICK m \in Seq(Commands) : Feeds(c, m)
    BY <1>0, <1>1, CallerFeeds DEF Ownership
  <2>3. TypeOK'
    BY <1>0, <1>1, <2>1, <2>2, MovesType DEF Ownership
  <2> QED BY <1>0, <1>1, <2>1, <2>2, <2>3, MovesOwnership, MovesAnswers, MovesSettings DEF IInv
<1>2. ASSUME NEW c \in Callers, Comes(c) PROVE IInv'
  BY <1>0, <1>2, ComesOwnership, ComesAnswers, ComesSettings DEF IInv
<1>3. ASSUME NEW c \in Callers, NewEngine(c) PROVE IInv'
  BY <1>0, <1>3, NewEngineOwnership, NewEngineAnswers, NewEngineSettings DEF IInv
<1>4. ASSUME NEW c \in Callers, Spawn(c) PROVE IInv'
  BY <1>0, <1>4, SpawnOwnership, SpawnAnswers, SpawnSettings DEF IInv
<1>5. ASSUME NEW p \in DOMAIN process, ProcessStep(p) PROVE IInv'
  <2>1. TypeOK'
    BY <1>0, <1>5, ProcessFrame DEF Ownership
  <2> QED BY <1>0, <1>5, <2>1, ProcessOwnership, ProcessAnswers, ProcessSettings DEF IInv
<1>6. CASE UNCHANGED vars
  <2>1. UNCHANGED <<uci, pc, locals, object, process, faults, answer, ran>>
    BY <1>6 DEF vars
  <2>2. TypeOK'
    BY <1>0, <2>1 DEF TypeOK, uci, locals, faults
  <2>3. Ownership'
    BY <1>0, <2>1 DEF Ownership, HasObject, ReplacerLocks, FreshObject, HoldsLock, LastProcess, EndMarkLast, uci, locals
  <2>4. Answers'
    <3>1. UNCHANGED <<eng, mixed, late>>
      BY <2>1 DEF locals, faults
    <3>2. OneWriter' /\ NoEarlyEnd' /\ AnsweredOnce'
      BY <1>0, <2>1, <3>1 DEF Answers, OneWriter, NoEarlyEnd, AnsweredOnce, Alive
    <3>3. \A e : Quiet(e)' <=> Quiet(e)
      BY <2>1 DEF Quiet, Done, Asked, Runner
    <3>4. \A e, c : OnlyFor(e, c)' <=> OnlyFor(e, c)
      BY <2>1 DEF OnlyFor, Done, Asked, Runner
    <3>5. QuietBefore' /\ OwnWhileReading' /\ QuietAfter'
      BY <1>0, <2>1, <3>1, <3>3, <3>4 DEF Answers, QuietBefore, OwnWhileReading, QuietAfter, Alive
    <3> QED BY <3>2, <3>5 DEF Answers
  <2>5. SettingsKept'
    BY <1>0, <2>1 DEF SettingsKept, GoIsOfCaller, GoAsAsked, OnRecord, RecordAsAsked, RanOnce, RunsAsAsked,
         Recorded, VariantAfter, PvAfter, Unspoiled, Alive, locals, faults
  <2> QED BY <2>2, <2>3, <2>4, <2>5 DEF IInv
<1> QED BY <1>1, <1>2, <1>3, <1>4, <1>5, <1>6, NextCases

\* Types, ownership, the searches each object has to do and the settings each
\* process runs with, whatever callers, processes and deadlines do.
THEOREM ProcessInv == Spec => []IInv
BY InitInv, NextInv, PTL DEF Spec

\* The bestmove that ends a call is that of its own search.
LEMMA OwnAnswer ==
  ASSUME IInv, [Next]_vars, NEW d \in Callers, answer'[d] # answer[d], eng[d] \notin mixed \cup late
  PROVE  answer'[d] = d
<1> USE DEF IInv, Ownership, Answers
<1>1. ASSUME NEW c \in Callers, LooksOnly(c) \/ WorksOn(c) PROVE answer'[d] = d
  <2>1. PICK o \in Objects, to \in Places : Moves(c, o, to)
    BY <1>1, CallerMoves
  <2>2. /\ pc[c] = "read" /\ Gets(c, "bestmove")
        /\ answer' = [answer EXCEPT ![c] = Head(Mine(c).lines).id]
    BY <2>1 DEF Moves, AnswerMoves
  <2>3. d = c /\ answer'[d] = Head(Mine(c).lines).id
    BY <2>2 DEF TypeOK
  <2>4. OnlyFor(eng[c], c)
    BY <2>2, <2>3 DEF OwnWhileReading
  <2>5. 1 \in Done(eng[c]) /\ object[eng[c]].lines[1] = Head(Mine(c).lines)
    BY <2>2, GetsFirst DEF Done, Mine
  <2> QED BY <2>3, <2>4, <2>5 DEF OnlyFor
<1>2. ASSUME NEW c \in Callers, Comes(c) \/ NewEngine(c) \/ Spawn(c) PROVE FALSE
  BY <1>2 DEF Comes, GetShared, GetOther, StopEvent, NewEngine, Spawn
<1>3. ASSUME NEW p \in DOMAIN process, ProcessStep(p) PROVE FALSE
  BY <1>3, ProcessFrame
<1>4. ~UNCHANGED vars
  BY DEF vars
<1> QED BY <1>1, <1>2, <1>3, <1>4, NextCases

\* A call is answered by the search it asked for, however many callers share the
\* engine, replace it, restart it, lose it or give up waiting for it, but for the calls
\* that find the search of one that gave up in the process.
THEOREM OwnAnswers == Spec => AnswersOwnCall
<1>1. IInv /\ [Next]_vars =>
        [\A c \in Callers : answer'[c] # answer[c]
                            => answer'[c] = c \/ eng[c] \in mixed \cup late]_vars
  BY OwnAnswer
<1> QED BY <1>1, ProcessInv, PTL DEF Spec, AnswersOwnCall

\* A search runs with the variant and the MultiPV its call wants.
THEOREM OwnSettings == Spec => []RunsAsAsked
<1>1. IInv => RunsAsAsked
  BY DEF IInv, SettingsKept
<1> QED BY <1>1, ProcessInv, PTL

=============================================================================
