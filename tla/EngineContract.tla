--------------------------- MODULE EngineContract ---------------------------
(***************************************************************************)
(* What the engine gives its callers, with no UCI in it: it works for one  *)
(* request at a time, starts only when it is quiet, and the answer a       *)
(* request gets is the one computed for it.  Work does not vanish: what    *)
(* nobody answers keeps the engine busy.  The exception is a search that   *)
(* is leaked: it may run beside the next ones, answer one of them, whose   *)
(* own search is then left behind in turn, or be thrown away.              *)
(***************************************************************************)
CONSTANTS Tasks, NoTask

VARIABLES
  work,   \* the searches the engine still owes an answer for
  reply,  \* the search whose answer each request got
  leaked, \* the searches nobody waits for any more
  shut    \* the engine is closed

contractVars == <<work, reply, leaked, shut>>

Init ==
  /\ work = {}
  /\ reply = [t \in Tasks |-> NoTask]
  /\ leaked = {}
  /\ shut = FALSE

\* t waits for an answer, and nobody else does.
Alone(t) == t \notin leaked /\ reply[t] = NoTask /\ work \subseteq leaked \cup {t}

Begin(t) ==
  /\ Alone(t) /\ t \notin work
  /\ work' = work \cup {t}
  /\ UNCHANGED <<reply, leaked, shut>>

Answer(t) ==
  /\ Alone(t) /\ t \in work
  /\ work' = work \ {t}
  /\ reply' = [reply EXCEPT ![t] = t]
  /\ UNCHANGED <<leaked, shut>>

Leak(t) ==
  /\ Alone(t)
  /\ leaked' = leaked \cup {t}
  /\ UNCHANGED <<work, reply, shut>>

\* The answer of a leaked search is taken for that of t.
Mistake(t, s) ==
  /\ Alone(t) /\ s \in work \cap leaked
  /\ work' = work \ {s}
  /\ reply' = [reply EXCEPT ![t] = s]
  /\ leaked' = leaked \cup {t}
  /\ UNCHANGED shut

\* What was leaked may be thrown away, and nothing else.
Forget == work' \subseteq work /\ work \ work' \subseteq leaked /\ UNCHANGED <<reply, leaked, shut>>

Shut == ~shut /\ shut' = TRUE /\ UNCHANGED <<work, reply, leaked>>

Next ==
  \/ Shut \/ Forget
  \/ \E t \in Tasks : \/ Begin(t) \/ Answer(t) \/ Leak(t)
                      \/ \E s \in Tasks : Mistake(t, s)

Spec == Init /\ [][Next]_contractVars
=============================================================================
