----------------------------- MODULE UciProcess -----------------------------
(***************************************************************************)
(* UciEngine (engine/uci_engine.py) and get_uci_engine() (server/app.py):  *)
(* worker threads share one object that runs Fairy-Stockfish as a process  *)
(* of its own.  The process may die at any moment; the thread that notices *)
(* replaces the object while others still wait for the old one's lock and  *)
(* restart its process.  A reader thread per process carries its lines,    *)
(* as they come, and an end mark, some time after the process has died,    *)
(* into the queue its object has by then.                                  *)
(***************************************************************************)
EXTENDS Naturals, Sequences, FiniteSets

CONSTANTS
  Callers,        \* worker threads, each with one analyze() or bestmove()
  Streams,        \* those of a websocket job: they have a stop event
  Infinite,       \* those of them without any limit
  Timed,          \* the calls with a time limit: their read loop has a deadline
  MayBeOver,      \* those whose position may be over
  Variants, Own,  \* variants; the one an engine is made for
  WantVariant,    \* the variant of a caller's rules
  WantPv,         \* the MultiPV of a caller: its legal moves, or 1
  Nobody,
  ReaderKeepsUp,  \* TRUE: the end mark of a dead process is put before the next start
  MaxTimeOuts,    \* bound: deadlines that pass (TLC only)
  MaxCrashes      \* bound: processes that die unasked (TLC only)

ASSUME CallersAssumption ==
  /\ IsFiniteSet(Callers) /\ Nobody \notin Callers
  /\ Infinite \subseteq Streams /\ Streams \subseteq Callers /\ MayBeOver \subseteq Callers
  /\ Timed \subseteq Callers \ Infinite

ASSUME WantAssumption ==
  /\ Own \in Variants /\ WantVariant \in [Callers -> Variants] /\ WantPv \in [Callers -> Nat \ {0}]
  /\ ReaderKeepsUp \in BOOLEAN /\ MaxTimeOuts \in Nat /\ MaxCrashes \in Nat

Cmd(k)       == [cmd |-> k, arg |-> Nobody]
With(k, arg) == [cmd |-> k, arg |-> arg]
Line(k)      == [kind |-> k, id |-> Nobody]

VARIABLES
  shared,     \* _UCI["engine"], 0 before the first
  uciLock,    \* who holds _UCI_LOCK
  closing,    \* the process that close() waits for, 0
  pc, eng,    \* where a caller is; the object it was given
  stopSet,    \* the callers whose stop event is set
  told,       \* the callers that sent stop (`stopped`)
  object,     \* the UciEngine objects, in the order they are made
  process,    \* the processes with their reader threads, in the order they start
  crashes, timeouts,
  answer,     \* whose bestmove ended a call (history)
  ran,        \* what a caller's search ran with (history)
  cut,        \* objects with a handshake that timed out before uciok (history)
  mixed,      \* objects whose queue gets the lines of two processes (history)
  late        \* objects whose process searches for a call that gave up (history)

uci    == <<shared, uciLock, closing>>
locals == <<eng, stopSet, told>>
faults == <<crashes, timeouts, cut, mixed, late>>
vars   == <<uci, pc, locals, object, process, faults, answer, ran>>

NoSetting == [variant |-> Nobody, pv |-> 0]
Default   == [variant |-> Nobody, pv |-> 1]      \* before any setoption

\* proc, lines, _active_variant, _multipv and _lock of an object.
NewObject == [proc |-> 0, lines |-> << >>, active |-> Nobody, multipv |-> 0, lock |-> Nobody]

\* Its life, its stdin, what it runs with, its search and whether that was
\* told to stop; its reader's object and whether the reader put its end mark.
NewProcess(e) == [alive |-> TRUE, inq |-> <<Cmd("uci")>>, setting |-> Default,
                  search |-> Nobody, halted |-> FALSE, of |-> e, eof |-> FALSE]

\* What is left of a process that has ended: its reader.
Gone(w) == [w EXCEPT !.alive = FALSE, !.inq = << >>, !.setting = Default, !.search = Nobody,
                     !.halted = FALSE]

Init ==
  /\ shared = 0 /\ uciLock = Nobody /\ closing = 0
  /\ crashes = 0 /\ timeouts = 0 /\ cut = {} /\ mixed = {} /\ late = {}
  /\ pc = [c \in Callers |-> "out"] /\ eng = [c \in Callers |-> 0]
  /\ stopSet = {} /\ told = {}
  /\ object = << >> /\ process = << >>
  /\ answer = [c \in Callers |-> Nobody] /\ ran = [c \in Callers |-> NoSetting]

-----------------------------------------------------------------------------
(* Writing to the process, reading its lines, leaving a call *)

Alive(p) == IF p = 0 THEN FALSE ELSE process[p].alive
Mine(c)  == object[eng[c]]
Serves(c) == Alive(Mine(c).proc)

\* _send() of commands that follow one another: on a broken pipe, or without a
\* process, the first of them raises.
Send(c, cmds) == process' = [process EXCEPT ![Mine(c).proc].inq = @ \o cmds]

At(c, to) == pc' = [pc EXCEPT ![c] = to]

\* The next line of the object's queue, and the rest.
Gets(c, kind) == Mine(c).lines # << >> /\ Head(Mine(c).lines).kind = kind
Rest(c)       == Tail(Mine(c).lines)
Set(c, o)     == object' = [object EXCEPT ![eng[c]] = o]

\* The call ends, by return or by exception, and gives back the lock it is
\* under; o is its object by then.
Leave(c, o, result) ==
  /\ At(c, result)
  /\ IF uciLock = c THEN uciLock' = Nobody /\ Set(c, o)
     ELSE UNCHANGED uciLock /\ Set(c, [o EXCEPT !.lock = Nobody])
  /\ UNCHANGED <<shared, closing>>

\* The commands are sent, the object becomes o and the caller goes on; or the
\* pipe is broken and the object stays as it was.
SendOrLeave(c, cmds, o, to, otherwise) ==
  IF Serves(c) THEN Send(c, cmds) /\ Set(c, o) /\ At(c, to) /\ UNCHANGED uci
  ELSE Leave(c, otherwise, "failed") /\ UNCHANGED process

-----------------------------------------------------------------------------
(* get_uci_engine(), under _UCI_LOCK *)

\* A closed object is as good as a running one: start() will see to it.
Dead(e) == object[e].proc # 0 /\ ~Alive(object[e].proc)

GetShared(c) ==
  /\ pc[c] = "out" /\ uciLock = Nobody
  /\ shared # 0 /\ ~Dead(shared)
  /\ eng' = [eng EXCEPT ![c] = shared] /\ At(c, "got")
  /\ UNCHANGED <<uci, stopSet, told, object, process, faults, answer, ran>>

GetOther(c) ==
  /\ pc[c] = "out" /\ uciLock = Nobody
  /\ shared # 0 => Dead(shared)
  /\ uciLock' = c /\ At(c, IF shared = 0 THEN "new" ELSE "close")
  /\ eng' = [eng EXCEPT ![c] = shared]
  /\ UNCHANGED <<shared, closing, stopSet, told, object, process, faults, answer, ran>>

\* close(): other threads may have started the object's process again by now,
\* and may do so between any two of these steps.
CloseQuit(c) ==
  /\ pc[c] = "close"
  /\ IF Serves(c) THEN Send(c, <<Cmd("quit")>>) /\ At(c, "closeSent")
     ELSE At(c, "closeKill") /\ UNCHANGED process
  /\ UNCHANGED <<uci, locals, object, faults, answer, ran>>

CloseWaits(c) ==
  /\ pc[c] = "closeSent" /\ closing' = Mine(c).proc /\ At(c, "closeWait")
  /\ UNCHANGED <<shared, uciLock, locals, object, process, faults, answer, ran>>

CloseExpires(c) ==
  /\ pc[c] = "closeWait" /\ Alive(closing) /\ closing' = 0 /\ At(c, "closeKill")
  /\ UNCHANGED <<shared, uciLock, locals, object, process, faults, answer, ran>>

CloseKill(c) ==
  /\ pc[c] = "closeKill" /\ closing' = Mine(c).proc /\ At(c, "closeWait")
  /\ process' = [process EXCEPT ![Mine(c).proc] = Gone(@)]
  /\ UNCHANGED <<shared, uciLock, locals, object, faults, answer, ran>>

\* proc = None, whatever process that is by now.
CloseEnds(c) ==
  /\ pc[c] = "closeWait" /\ ~Alive(closing) /\ closing' = 0 /\ At(c, "new")
  /\ Set(c, [Mine(c) EXCEPT !.proc = 0])
  /\ UNCHANGED <<shared, uciLock, locals, process, faults, answer, ran>>

\* The constructor; its start() follows.
NewEngine(c) ==
  /\ pc[c] = "new" /\ object' = Append(object, NewObject)
  /\ eng' = [eng EXCEPT ![c] = Len(object) + 1] /\ At(c, "spawn")
  /\ UNCHANGED <<uci, stopSet, told, process, faults, answer, ran>>

\* A job that was stopped meanwhile does not use the object.
UseEngine(c) ==
  /\ pc[c] = "got" /\ At(c, IF c \in Streams \cap stopSet THEN "done" ELSE "lock")
  /\ UNCHANGED <<uci, locals, object, process, faults, answer, ran>>

-----------------------------------------------------------------------------
(* start(), in get_uci_engine() or in a search *)

TakeLock(c) ==
  /\ pc[c] = "lock" /\ Mine(c).lock = Nobody
  /\ Set(c, [Mine(c) EXCEPT !.lock = c]) /\ At(c, IF Serves(c) THEN "variant" ELSE "spawn")
  /\ UNCHANGED <<uci, locals, process, faults, answer, ran>>

\* A new process and a new queue, into which the readers of the object's earlier
\* processes go on: those that come late with an end mark, and that of a process
\* that close() left running without an owner.
Spawn(c) ==
  /\ pc[c] = "spawn"
  /\ LET earlier == {p \in DOMAIN process : process[p].of = eng[c] /\ ~process[p].eof}
     IN /\ ReaderKeepsUp => \A p \in earlier : Alive(p)
        /\ mixed' = IF earlier = {} THEN mixed ELSE mixed \cup {eng[c]}
  /\ process' = Append(process, NewProcess(eng[c]))
  /\ Set(c, [Mine(c) EXCEPT !.proc = Len(process) + 1, !.lines = << >>]) /\ At(c, "uciok")
  /\ late' = late \ {eng[c]}
  /\ UNCHANGED <<uci, locals, crashes, timeouts, cut, answer, ran>>

\* Wrong on purpose: start() leaves the MultiPV of the last process on record.
HandshakeKeeps(c) ==
  /\ pc[c] = "uciok" /\ Gets(c, "uciok")
  /\ LET o == [Mine(c) EXCEPT !.lines = Rest(c)]
     IN SendOrLeave(c, <<With("variant", Own), Cmd("isready")>>, [o EXCEPT !.active = Own],
                    "startReady", o)
  /\ UNCHANGED <<locals, faults, answer, ran>>

Handshake(c) ==
  /\ pc[c] = "uciok" /\ Gets(c, "uciok")
  /\ LET o == [Mine(c) EXCEPT !.lines = Rest(c), !.multipv = 0]
     IN SendOrLeave(c, <<With("variant", Own), Cmd("isready")>>, [o EXCEPT !.active = Own],
                    "startReady", o)
  /\ UNCHANGED <<locals, faults, answer, ran>>

\* start() returns: the new object is published, or the search goes on.
StartEnds(c) ==
  /\ pc[c] = "startReady" /\ Gets(c, "readyok") /\ Set(c, [Mine(c) EXCEPT !.lines = Rest(c)])
  /\ IF uciLock = c
     THEN shared' = eng[c] /\ uciLock' = Nobody /\ At(c, "got")
     ELSE At(c, "variant") /\ UNCHANGED <<shared, uciLock>>
  /\ UNCHANGED <<closing, locals, process, faults, answer, ran>>

-----------------------------------------------------------------------------
(* analyze() and bestmove(), under the object's lock *)

SetVariant(c) ==
  /\ pc[c] = "variant" /\ WantVariant[c] # Mine(c).active
  /\ SendOrLeave(c, <<With("variant", WantVariant[c]), Cmd("isready")>>,
                 [Mine(c) EXCEPT !.active = WantVariant[c]], "variantReady", Mine(c))
  /\ UNCHANGED <<locals, faults, answer, ran>>

VariantSet(c) ==
  /\ \/ pc[c] = "variant" /\ WantVariant[c] = Mine(c).active /\ UNCHANGED object
     \/ pc[c] = "variantReady" /\ Gets(c, "readyok") /\ Set(c, [Mine(c) EXCEPT !.lines = Rest(c)])
  /\ At(c, "prepare")
  /\ UNCHANGED <<uci, locals, process, faults, answer, ran>>

GameOver(c) ==
  /\ pc[c] = "prepare" /\ c \in MayBeOver /\ Leave(c, Mine(c), "done")
  /\ UNCHANGED <<locals, process, faults, answer, ran>>

\* _drain(), MultiPV if it changes, the position, isready.
Prepare(c) ==
  /\ pc[c] = "prepare"
  /\ LET o  == [Mine(c) EXCEPT !.lines = << >>]
         pv == IF o.multipv # WantPv[c] THEN <<With("multipv", WantPv[c])>> ELSE << >>
     IN SendOrLeave(c, pv \o <<Cmd("position"), Cmd("isready")>>,
                    [o EXCEPT !.multipv = WantPv[c]], "positionReady", o)
  /\ UNCHANGED <<locals, faults, answer, ran>>

\* The object's process runs, with nothing left over from a call before.
Idle(c) ==
  LET w == process[Mine(c).proc]
  IN /\ Serves(c) /\ w.search = Nobody
     /\ \A i \in DOMAIN w.inq : w.inq[i].cmd # "go"
     /\ \A i \in DOMAIN Mine(c).lines : Mine(c).lines[i].kind # "bestmove"

Go(c) ==
  /\ pc[c] = "positionReady" /\ Gets(c, "readyok")
  /\ LET o == [Mine(c) EXCEPT !.lines = Rest(c)]
     IN SendOrLeave(c, <<With("go", c)>>, o, "read", o)
  /\ late' = IF Idle(c) THEN late \ {eng[c]} ELSE late
  /\ UNCHANGED <<locals, crashes, timeouts, cut, mixed, answer, ran>>

\* Wrong on purpose: a stopped call returns without waiting for its bestmove.
StopAndLeave(c) ==
  /\ pc[c] = "read" /\ c \in stopSet \ told
  /\ IF Serves(c) THEN Send(c, <<Cmd("stop")>>) /\ Leave(c, Mine(c), "done")
     ELSE Leave(c, Mine(c), "failed") /\ UNCHANGED process
  /\ UNCHANGED <<locals, faults, answer, ran>>

\* The loop sees the stop event between two lines, or within 50 ms.
SendStop(c) ==
  /\ pc[c] = "read" /\ c \in stopSet \ told
  /\ SendOrLeave(c, <<Cmd("stop")>>, Mine(c), "read", Mine(c))
  /\ told' = told \cup {c}
  /\ UNCHANGED <<eng, stopSet, faults, answer, ran>>

ReadBestMove(c) ==
  /\ pc[c] = "read" /\ Gets(c, "bestmove")
  /\ answer' = [answer EXCEPT ![c] = Head(Mine(c).lines).id]
  /\ Leave(c, [Mine(c) EXCEPT !.lines = Rest(c)], "done")
  /\ UNCHANGED <<locals, process, faults, ran>>

-----------------------------------------------------------------------------
(* Lines a caller waits past, the end mark, and the deadlines *)

Awaited == [uciok |-> "uciok", startReady |-> "readyok", variantReady |-> "readyok",
            positionReady |-> "readyok", read |-> "bestmove"]

ReadOther(c) ==
  /\ pc[c] \in DOMAIN Awaited /\ Mine(c).lines # << >>
  /\ Head(Mine(c).lines).kind \notin {"None", Awaited[pc[c]]}
  /\ Set(c, [Mine(c) EXCEPT !.lines = Rest(c)])
  /\ UNCHANGED <<uci, pc, locals, process, faults, answer, ran>>

ProcessExited(c) ==
  /\ pc[c] \in DOMAIN Awaited /\ Gets(c, "None")
  /\ Leave(c, [Mine(c) EXCEPT !.lines = Rest(c)], "failed")
  /\ UNCHANGED <<locals, process, faults, answer, ran>>

TimedOut(c) ==
  /\ timeouts < MaxTimeOuts /\ timeouts' = timeouts + 1
  /\ pc[c] \in DOMAIN Awaited \ {"read"} /\ Mine(c).lines = << >>
  /\ cut' = IF pc[c] = "uciok" THEN cut \cup {eng[c]} ELSE cut
  /\ Leave(c, Mine(c), "failed")
  /\ UNCHANGED <<locals, process, crashes, mixed, late, answer, ran>>

\* The read loop has waited 35 s past its time limit: the call raises, while its
\* search, which nobody stops, goes on in the process.
GivesUp(c) ==
  /\ timeouts < MaxTimeOuts /\ timeouts' = timeouts + 1
  /\ pc[c] = "read" /\ c \in Timed /\ Mine(c).lines = << >>
  /\ late' = late \cup {eng[c]}
  /\ Leave(c, Mine(c), "failed")
  /\ UNCHANGED <<locals, process, crashes, cut, mixed, answer, ran>>

\* The client stops its analysis, or a REST call stops it.
StopEvent(c) ==
  /\ c \in Streams \ stopSet /\ pc[c] \notin {"done", "failed"} /\ stopSet' = stopSet \cup {c}
  /\ UNCHANGED <<uci, pc, eng, told, object, process, faults, answer, ran>>

-----------------------------------------------------------------------------
(* The process and its reader thread *)

Puts(p, line) == object' = [object EXCEPT ![process[p].of].lines = Append(@, line)]

\* The command loop runs on during a search; only go waits for the last one.
Obey(p, x) ==
  LET w == [process[p] EXCEPT !.inq = Tail(@)]
  IN CASE x.cmd = "variant" -> [w EXCEPT !.setting.variant = x.arg]
       [] x.cmd = "multipv" -> [w EXCEPT !.setting.pv = x.arg]
       [] x.cmd = "go"      -> [w EXCEPT !.search = x.arg]
       [] x.cmd = "stop"    -> [w EXCEPT !.halted = w.search # Nobody]
       [] x.cmd = "quit"    -> Gone(w)
       [] OTHER -> w

Command(p) ==
  /\ Alive(p) /\ process[p].inq # << >>
  /\ LET x == Head(process[p].inq) IN
     /\ x.cmd = "go" => process[p].search = Nobody
     /\ process' = [process EXCEPT ![p] = Obey(p, x)]
     /\ CASE x.cmd = "uci"     -> Puts(p, Line("uciok"))
          [] x.cmd = "isready" -> Puts(p, Line("readyok"))
          [] OTHER -> UNCHANGED object
     /\ ran' = IF x.cmd = "go" THEN [ran EXCEPT ![x.arg] = process[p].setting] ELSE ran
  /\ UNCHANGED <<uci, pc, locals, faults, answer>>

SearchEnds(p) ==
  /\ Alive(p) /\ process[p].search # Nobody
  /\ process[p].halted \/ process[p].search \notin Infinite
  /\ Puts(p, [kind |-> "bestmove", id |-> process[p].search])
  /\ process' = [process EXCEPT ![p].search = Nobody, ![p].halted = FALSE]
  /\ UNCHANGED <<uci, pc, locals, faults, answer, ran>>

Crash(p) ==
  /\ Alive(p) /\ crashes < MaxCrashes /\ crashes' = crashes + 1
  /\ process' = [process EXCEPT ![p] = Gone(@)]
  /\ UNCHANGED <<uci, pc, locals, object, timeouts, cut, mixed, late, answer, ran>>

\* Wrong on purpose: the reader ends without its end mark.
ReaderQuiet(p) ==
  /\ ~Alive(p) /\ ~process[p].eof /\ process' = [process EXCEPT ![p].eof = TRUE]
  /\ UNCHANGED <<uci, pc, locals, object, faults, answer, ran>>

ReaderEnds(p) ==
  /\ ~Alive(p) /\ ~process[p].eof /\ process' = [process EXCEPT ![p].eof = TRUE]
  /\ Puts(p, Line("None"))
  /\ UNCHANGED <<uci, pc, locals, faults, answer, ran>>

-----------------------------------------------------------------------------
(* Specification *)

GetsEngine(c) == \/ GetShared(c) \/ GetOther(c) \/ CloseQuit(c) \/ CloseWaits(c)
                 \/ CloseExpires(c) \/ CloseKill(c) \/ CloseEnds(c) \/ NewEngine(c) \/ UseEngine(c)
Starts(c)     == TakeLock(c) \/ Spawn(c) \/ Handshake(c) \/ StartEnds(c)
Searches(c)   == \/ SetVariant(c) \/ VariantSet(c) \/ GameOver(c) \/ Prepare(c) \/ Go(c)
                 \/ SendStop(c) \/ ReadBestMove(c)
Waits(c)      == ReadOther(c) \/ ProcessExited(c)

\* What happens without a client, a crash or a deadline.
Runs == \/ \E c \in Callers : GetsEngine(c) \/ Starts(c) \/ Searches(c) \/ Waits(c)
        \/ \E p \in DOMAIN process : Command(p) \/ SearchEnds(p) \/ ReaderEnds(p)

Next == \/ Runs
        \/ \E c \in Callers : TimedOut(c) \/ GivesUp(c) \/ StopEvent(c)
        \/ \E p \in DOMAIN process : Crash(p)

Spec == Init /\ [][Next]_vars

-----------------------------------------------------------------------------
(* Properties *)

\* A call is answered by the search it asked for: crashes, restarts and late
\* readyok lines do not pass another call's bestmove off as its own, whose
\* analysis would then describe a different position.  (Except on an object whose
\* queue gets the lines of two processes, see Spawn, and after a call that gave up
\* reading: its bestmove answers the next call, whose own the one after that, until
\* a call finds the process idle or starts another.)
AnswersOwnCall ==
  [][\A c \in Callers : answer'[c] # answer[c]
                         => answer'[c] = c \/ eng[c] \in mixed \cup late]_vars

\* A search runs with the variant and the MultiPV its call wants, also on a
\* restarted process, whatever `_active_variant` and `_multipv` were before: else
\* it plays by other rules, or scores one move of many.  (Except on those objects,
\* and after a handshake cut off before uciok: the end mark of another process, or
\* the deadline, may leave a running process that nobody set up.)
RunsAsAsked ==
  \A c \in Callers :
    ran[c] # NoSetting /\ eng[c] \notin cut \cup mixed
      => ran[c] = [variant |-> WantVariant[c], pv |-> WantPv[c]]

\* When nothing moves by itself any more, every call has returned or raised,
\* or waits for an unlimited analysis that goes on: no lock is left held, and the
\* end mark of a process that died reached whoever waits for its lines.  (Or for one
\* that goes on after the answers were shifted: its call returned with another's.)
Analysing ==
  \E p \in DOMAIN process :
    /\ Alive(p) /\ process[p].search \in Infinite
    /\ \/ pc[process[p].search] = "read" /\ process[p].search \notin stopSet
       \/ process[p].of \in late
CallsEnd ==
  ~ENABLED Runs /\ ~Analysing => \A c \in Callers : pc[c] \in {"done", "failed"}
=============================================================================
