------------------------------- MODULE UciCore -------------------------------
(***************************************************************************)
(* The native side of a UCI session: the command loop of the engine        *)
(* (UCI::loop and the handlers it calls) and the main search thread that   *)
(* start_thinking() wakes up.  The loop thread and the search thread are   *)
(* two actors; they share the flag Threads.stop and the output stream.     *)
(*                                                                         *)
(* A search is named by the request it was started for, an element of      *)
(* Tasks.  Commands and output lines are records; text is abstracted.      *)
(***************************************************************************)
EXTENDS Naturals, Sequences

CONSTANTS
  Tasks,     \* names of the searches that may be requested
  NoTask,    \* "no search"
  Infinite,  \* the tasks whose go command is `go infinite`
  Options,   \* UCI options the client sets
  Values,    \* values of options
  Default,   \* value of an option before the client sets it
  Awaiting,  \* options whose on_change handler waits for the search thread
  Variant,   \* the option `UCI_Variant`, which the command `uci` resets
  MaxInfo    \* bound: info lines one search prints (TLC only)

ASSUME TasksAssumption ==
  /\ NoTask \notin Tasks
  /\ Infinite \subseteq Tasks

ASSUME OptionsAssumption ==
  /\ Awaiting \subseteq Options
  /\ Variant \in Options
  /\ Default \in Values

ASSUME MaxInfoAssumption == MaxInfo \in Nat

VARIABLES
  inq,   \* commands pushed by the client and not yet read by the loop
  outq,  \* lines printed and not yet read by the client
  stop,  \* Threads.stop
  loop,  \* where the loop thread is: "reading", "quitting" or "ended"
  srch,  \* the main search thread
  root,  \* the position the loop has set up: its task and its variant
  opts   \* the option table

coreVars == <<inq, outq, stop, loop, srch, root, opts>>

-----------------------------------------------------------------------------
(* Commands, lines and the search thread *)

Plain(c)       == [cmd |-> c]
Go(t)          == [cmd |-> "go", id |-> t]
PositionOf(t)  == [cmd |-> "position", id |-> t]
SetOption(o, v) == [cmd |-> "setoption", name |-> o, value |-> v]

Commands ==
  {Plain(c) : c \in {"uci", "isready", "stop", "quit", "ucinewgame"}}
    \cup {Go(t) : t \in Tasks}
    \cup {PositionOf(t) : t \in Tasks}
    \cup {SetOption(o, v) : o \in Options, v \in Values}

UciOk        == [kind |-> "uciok"]
ReadyOk      == [kind |-> "readyok"]
Info(t)      == [kind |-> "info", id |-> t]
BestMove(t)  == [kind |-> "bestmove", id |-> t]

Lines == {UciOk, ReadyOk} \cup {Info(t) : t \in Tasks} \cup {BestMove(t) : t \in Tasks}

\* A search thread is parked in idle_loop ("idle"), in search() before its
\* bestmove is printed ("thinking"), or after that and before it is back in
\* idle_loop ("answered").
Parked == [phase |-> "idle", id |-> NoTask, on |-> NoTask,
           variant |-> Default, opts |-> [o \in Options |-> Default], infos |-> 0]

SearchThreads ==
  [phase : {"idle", "thinking", "answered"}, id : Tasks \cup {NoTask},
   on : Tasks \cup {NoTask}, variant : Values, opts : [Options -> Values], infos : Nat]

CoreTypeOK ==
  /\ inq \in Seq(Commands)
  /\ outq \in Seq(Lines)
  /\ stop \in BOOLEAN
  /\ loop \in {"reading", "quitting", "ended"}
  /\ srch \in SearchThreads
  /\ srch.phase = "thinking" => srch.id \in Tasks
  /\ root \in [of : Tasks \cup {NoTask}, variant : Values]
  /\ opts \in [Options -> Values]

CoreInit ==
  /\ inq = << >>
  /\ outq = << >>
  /\ stop = FALSE
  /\ loop = "ended"
  /\ srch = Parked
  /\ root = [of |-> NoTask, variant |-> Default]
  /\ opts = [o \in Options |-> Default]

\* wait_for_search_finished() returns.
SearchFinished == srch.phase = "idle"

Emit(line) == outq' = Append(outq, line)

-----------------------------------------------------------------------------
(* The loop thread: one command of the input stream per step *)

\* The loop reads the next command and it is of the given kind.
Reads(kind) ==
  /\ loop = "reading"
  /\ inq # << >>
  /\ Head(inq).cmd = kind
  /\ inq' = Tail(inq)

LoopStop ==
  /\ Reads("stop")
  /\ stop' = TRUE
  /\ UNCHANGED <<outq, loop, srch, root, opts>>

LoopQuit ==
  /\ Reads("quit")
  /\ stop' = TRUE
  /\ loop' = "quitting"
  /\ UNCHANGED <<outq, srch, root, opts>>

\* `uci` selects the default variant again and sets up its start position.
LoopUci ==
  /\ Reads("uci")
  /\ opts' = [opts EXCEPT ![Variant] = Default]
  /\ root' = [of |-> NoTask, variant |-> Default]
  /\ Emit(UciOk)
  /\ UNCHANGED <<stop, loop, srch>>

\* `isready` is answered at once, also while a search runs.
LoopIsReady ==
  /\ Reads("isready")
  /\ Emit(ReadyOk)
  /\ UNCHANGED <<stop, loop, srch, root, opts>>

LoopSetOption ==
  /\ Reads("setoption")
  /\ Head(inq).name \in Awaiting => SearchFinished
  /\ opts' = [opts EXCEPT ![Head(inq).name] = Head(inq).value]
  /\ UNCHANGED <<outq, stop, loop, srch, root>>

LoopPosition ==
  /\ Reads("position")
  /\ root' = [of |-> Head(inq).id, variant |-> opts[Variant]]
  /\ UNCHANGED <<outq, stop, loop, srch, opts>>

LoopNewGame ==
  /\ Reads("ucinewgame")
  /\ SearchFinished
  /\ UNCHANGED <<outq, stop, loop, srch, root, opts>>

\* start_thinking(): wait for the previous search, lower the stop flag, hand
\* the position and the options over and wake the search thread up.
LoopGo ==
  /\ Reads("go")
  /\ SearchFinished
  /\ stop' = FALSE
  /\ srch' = [phase |-> "thinking", id |-> Head(inq).id, on |-> root.of,
              variant |-> root.variant, opts |-> opts, infos |-> 0]
  /\ UNCHANGED <<outq, loop, root, opts>>

\* Threads.set(0) at the end of the loop joins the search thread.
LoopEnds ==
  /\ loop = "quitting"
  /\ SearchFinished
  /\ loop' = "ended"
  /\ UNCHANGED <<inq, outq, stop, srch, root, opts>>

LoopThread ==
  \/ LoopStop \/ LoopQuit \/ LoopUci \/ LoopIsReady
  \/ LoopSetOption \/ LoopPosition \/ LoopNewGame \/ LoopGo

-----------------------------------------------------------------------------
(* The search thread *)

SearchInfo ==
  /\ srch.phase = "thinking"
  /\ srch.infos < MaxInfo
  /\ srch' = [srch EXCEPT !.infos = @ + 1]
  /\ Emit(Info(srch.id))
  /\ UNCHANGED <<inq, stop, loop, root, opts>>

\* A limited search may end at any time; `go infinite` busy-waits for the flag.
SearchBestMove ==
  /\ srch.phase = "thinking"
  /\ stop \/ srch.id \notin Infinite
  /\ stop' = TRUE
  /\ srch' = [srch EXCEPT !.phase = "answered"]
  /\ Emit(BestMove(srch.id))
  /\ UNCHANGED <<inq, loop, root, opts>>

SearchParks ==
  /\ srch.phase = "answered"
  /\ srch' = Parked
  /\ UNCHANGED <<inq, outq, stop, loop, root, opts>>

SearchThread == SearchInfo \/ SearchBestMove \/ SearchParks
=============================================================================
