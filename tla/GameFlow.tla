------------------------------ MODULE GameFlow ------------------------------
(***************************************************************************)
(* A game screen: GameViewModel and its CoachController, which share one   *)
(* engine.  Everything here runs on the main thread, one callback or       *)
(* coroutine segment at a time, except the engine, which executes the      *)
(* searches it is handed one after the other (EngineContract) and posts    *)
(* their results back to the main thread.                                  *)
(*                                                                         *)
(* One step of the main thread calls many functions of the two classes;    *)
(* each is an operator from the screen's state to the state it leaves.     *)
(***************************************************************************)
EXTENDS Naturals, Sequences, FiniteSets, Functions

CONSTANTS
  Moves,        \* moves on the board
  Mating,       \* those that end the game
  NoMove,
  Human,        \* the side the human plays
  MayFail,      \* TRUE: a search may end without a usable result
  MayDie,       \* TRUE: the process may be killed in the background
  MaxPly,       \* the move limit of the rules
  MayLeave,     \* TRUE: the user may send the app to the background
  MaxActs       \* bound: user actions (TLC only)

ASSUME MovesAssumption == Mating \subseteq Moves /\ NoMove \notin Moves
ASSUME SidesAssumption == Human \in {"cho", "han"}
ASSUME BoundsAssumption ==
  MaxPly \in Nat \ {0, 1} /\ MaxActs \in Nat
    /\ MayLeave \in BOOLEAN /\ MayFail \in BOOLEAN /\ MayDie \in BOOLEAN

VARIABLES
  s,       \* the screen: fields of GameViewModel and CoachController
  posts,   \* results of searches posted to the main thread
  alive,   \* FALSE after onCleared()
  acts     \* user actions so far

vars == <<s, posts, alive, acts>>

-----------------------------------------------------------------------------
(* Sessions, requests and searches *)

Sessions == UNION {[1 .. n -> Moves] : n \in 0 .. MaxPly}

Over(g) == Len(g) >= 2 /\ (g[Len(g)] \in Mating \/ Len(g) = MaxPly)
Side(g) == IF Len(g) % 2 = 0 THEN "cho" ELSE "han"

\* A CoachRequest: the session before the human's move, and the move.
NoRequest == [pre |-> << >>, move |-> NoMove]
Ply(req)  == Len(req.pre)

\* CoachRequest.stillValidIn()
StillValidIn(req, g) ==
  /\ Len(g) > Ply(req)
  /\ g[Ply(req) + 1] = req.move
  /\ SubSeq(g, 1, Ply(req)) = req.pre

\* A search handed to the engine; `gen` and `on` belong to an AI turn, `req`
\* to a coach analysis.
Search(id, kind, gen, on, req) ==
  [id |-> id, kind |-> kind, gen |-> gen, on |-> on, req |-> req]
NoSearch == Search(0, "none", 0, << >>, NoRequest)

NoPly == MaxPly + 1

\* What a screen remembers across a process death: session, mode, pause,
\* coach verdicts.  All the rest starts anew.
Fresh(session, mode, paused, comments) ==
  [session |-> session, mode |-> mode, paused |-> paused, comments |-> comments,
   fg |-> FALSE, generation |-> 0, thinking |-> FALSE,
   aiJob |-> 0, aiSearching |-> FALSE, delayed |-> NoSearch,
   pendingCoach |-> NoRequest, lastCoachRequest |-> NoRequest,
   coachJob |-> 0, analyzing |-> NoPly, failed |-> NoPly,
   queue |-> << >>, cancelled |-> {}, truncated |-> {}, ids |-> 0]

LastHumanPly(t) ==
  LET plies == {p \in 0 .. Len(t.session) - 1 : (IF p % 2 = 0 THEN "cho" ELSE "han") = Human}
  IN  IF plies = {} THEN NoPly ELSE CHOOSE p \in plies : \A q \in plies : q <= p

HumanTurn(t) == t.mode = "hva" /\ Side(t.session) = Human /\ ~Over(t.session)

-----------------------------------------------------------------------------
(* The engine as the screen calls it *)

Hand(t, search) == [t EXCEPT !.queue = Append(@, search), !.ids = search.id]

\* engine.stop() cuts the search short that the engine executes or, when it
\* lands late, one that waits behind it (StopSend of FairyEngine): from here
\* on, none of them can be relied on.
Stop(t) == [t EXCEPT !.truncated = @ \cup {search.id : search \in Range(t.queue)}]

-----------------------------------------------------------------------------
(* CoachController *)

\* cancel(): a new currentId, so that the running analysis is stale.
CoachCancel(t) ==
  [t EXCEPT !.cancelled = @ \cup ({t.coachJob} \ {0}), !.coachJob = 0, !.analyzing = NoPly]

\* Wrong on purpose: verdicts of moves that are gone are kept.
CoachSyncKeeps(t, session) ==
  IF t.analyzing # NoPly /\ t.analyzing >= Len(session) THEN CoachCancel(t) ELSE t

\* sync(): verdicts and analyses of moves that are gone go too.
CoachSync(t, session) ==
  LET a == IF t.analyzing # NoPly /\ t.analyzing >= Len(session) THEN CoachCancel(t) ELSE t
  IN  [a EXCEPT !.comments = {c \in @ : Ply(c) < Len(session)},
                !.failed = IF @ < Len(session) THEN @ ELSE NoPly]

\* evaluate()
CoachEvaluate(t, req) ==
  LET a == CoachCancel(t)
      id == a.ids + 1
  IN  Hand([a EXCEPT !.coachJob = id, !.analyzing = Ply(req), !.failed = NoPly],
           Search(id, "coach", 0, << >>, req))

\* finish(): a usable result of a move that is still played becomes a verdict.
CoachFinish(t, req, usable) ==
  LET valid == StillValidIn(req, t.session)
      a == [t EXCEPT !.coachJob = 0, !.analyzing = NoPly]
  IN  IF usable /\ valid
        THEN [a EXCEPT !.comments = {c \in @ : Ply(c) # Ply(req)} \cup {req}, !.failed = NoPly]
        ELSE [a EXCEPT !.failed = IF valid THEN Ply(req) ELSE @]

-----------------------------------------------------------------------------
(* GameViewModel *)

StartCoach(t, req) ==
  IF StillValidIn(req, t.session)
    THEN CoachEvaluate([t EXCEPT !.lastCoachRequest = req], req)
    ELSE t

\* Wrong on purpose: the AI's reply is not waited for.
StartPendingCoachEarly(t) ==
  IF t.pendingCoach = NoRequest \/ ~t.fg THEN t
    ELSE StartCoach([t EXCEPT !.pendingCoach = NoRequest], t.pendingCoach)

\* Wrong on purpose: asks for the AI's job, which is still active when it
\* calls this at its end, instead of for its search.
StartPendingCoachByJob(t) ==
  IF t.pendingCoach = NoRequest \/ ~t.fg \/ t.aiJob # 0 THEN t
    ELSE StartCoach([t EXCEPT !.pendingCoach = NoRequest], t.pendingCoach)

StartPendingCoach(t) ==
  IF t.pendingCoach = NoRequest \/ ~t.fg \/ t.aiSearching THEN t
    ELSE StartCoach([t EXCEPT !.pendingCoach = NoRequest], t.pendingCoach)

\* An AI turn: the launched coroutine runs up to its first suspension, which
\* is the delay of a game between two AIs or the engine.
AiTurnStarts(t) ==
  LET search == Search(t.ids + 1, "ai", t.generation, t.session, NoRequest)
      a == [t EXCEPT !.aiSearching = TRUE, !.aiJob = search.id, !.thinking = TRUE]
  IN  IF t.mode = "ava" THEN [a EXCEPT !.delayed = search, !.ids = search.id]
                        ELSE Hand(a, search)

\* maybeStartAi()
MaybeStartAi(t) ==
  IF \/ ~t.fg \/ Over(t.session) \/ t.aiJob # 0
     \/ t.mode = "hva" /\ Side(t.session) = Human
     \/ t.mode = "ava" /\ t.paused
    THEN t
    ELSE AiTurnStarts(t)

\* Wrong on purpose: the running AI turn is neither cancelled nor outdated.
KeepAi(t) == [t EXCEPT !.aiJob = 0]

\* aiJob?.cancel(): a turn that is still delayed ends at once, one that waits
\* for the engine when the engine is done with it.
CancelAi(t) ==
  [t EXCEPT !.cancelled = @ \cup
              (IF t.delayed = NoSearch THEN {t.aiJob} \ {0} ELSE {}),
            !.aiJob = 0, !.delayed = NoSearch,
            !.aiSearching = IF t.delayed = NoSearch THEN @ ELSE FALSE]

SetSession(t, session) ==
  LET a == CancelAi([t EXCEPT !.generation = @ + 1])
  IN  [CoachSync(Stop(a), session) EXCEPT !.session = session, !.thinking = FALSE]

PauseEngine(t) == [Stop(CoachCancel(CancelAi(t))) EXCEPT !.thinking = FALSE]

\* playHuman()
PlayHumanMove(t, m) ==
  LET next == Append(t.session, m)
      a == SetSession(CoachCancel(t), next)
      b == [a EXCEPT !.pendingCoach = [pre |-> t.session, move |-> m]]
  IN  IF Over(next) THEN StartPendingCoach(b) ELSE MaybeStartAi(b)

\* The human takes back the AI's reply with the own move.
TakeBack(t) ==
  LET one == SubSeq(t.session, 1, Len(t.session) - 1)
      to  == IF t.mode = "hva" /\ Side(one) # Human /\ one # << >>
               THEN SubSeq(one, 1, Len(one) - 1) ELSE one
  IN  MaybeStartAi(SetSession(CoachCancel([t EXCEPT !.pendingCoach = NoRequest]), to))

\* Wrong on purpose: engine.stop() comes after the AI has been started.
StartNewGameStopsLast(t, mode) ==
  LET a == CoachCancel(CancelAi([t EXCEPT !.generation = @ + 1]))
      b == [a EXCEPT !.pendingCoach = NoRequest, !.lastCoachRequest = NoRequest,
                     !.comments = {}, !.failed = NoPly,
                     !.session = << >>, !.mode = mode, !.paused = FALSE, !.thinking = FALSE]
  IN  Stop(MaybeStartAi(b))

\* startNewGame(): newGame() is queued before the first AI turn.
StartNewGame(t, mode) ==
  LET a == Stop(CancelAi([t EXCEPT !.generation = @ + 1]))
      b == CoachCancel([a EXCEPT !.pendingCoach = NoRequest, !.lastCoachRequest = NoRequest])
      c == Hand(b, Search(b.ids + 1, "newGame", 0, << >>, NoRequest))
  IN  MaybeStartAi([c EXCEPT !.comments = {}, !.failed = NoPly, !.session = << >>,
                             !.mode = mode, !.paused = FALSE, !.thinking = FALSE])

-----------------------------------------------------------------------------
(* User actions and the lifecycle of the app *)

UserActs == alive /\ s.fg /\ acts < MaxActs /\ acts' = acts + 1 /\ UNCHANGED <<posts, alive>>

PlayHuman(m) ==
  /\ HumanTurn(s)
  /\ UserActs
  /\ s' = PlayHumanMove(s, m)

\* The button is enabled on the human's turn and in a game between two AIs.
Undo ==
  /\ s.session # << >>
  /\ HumanTurn(s) \/ s.mode = "ava"
  /\ UserActs
  /\ s' = TakeBack(s)

NewGame(mode) ==
  /\ UserActs
  /\ s' = StartNewGame(s, mode)

TogglePause ==
  /\ s.mode = "ava"
  /\ UserActs
  /\ LET t == [s EXCEPT !.paused = ~@]
     IN  s' = IF t.paused THEN PauseEngine(t) ELSE MaybeStartAi(t)

\* The coach card offers a retry only when it shows a failure.
RetryCoach ==
  /\ s.mode = "hva" /\ s.analyzing = NoPly /\ s.comments = {}
  /\ s.failed # NoPly /\ s.failed = LastHumanPly(s)
  /\ s.lastCoachRequest # NoRequest
  /\ UserActs
  /\ s' = StartCoach(s, s.lastCoachRequest)

\* MainActivity.onStop() and onStart(): the collector of AppForeground runs.
Background ==
  /\ MayLeave
  /\ UserActs
  /\ s' = PauseEngine([s EXCEPT !.fg = FALSE])

Foreground ==
  /\ alive /\ ~s.fg
  /\ s' = StartPendingCoach(MaybeStartAi([s EXCEPT !.fg = TRUE]))
  /\ UNCHANGED <<posts, alive, acts>>

\* The process is killed in the background; later the screen is restored.
ProcessDeath ==
  /\ MayDie /\ alive /\ ~s.fg
  /\ s' = Fresh(s.session, s.mode, s.paused, s.comments)
  /\ posts' = << >>
  /\ UNCHANGED <<alive, acts>>

\* onCleared(): the screen is left; viewModelScope cancels the coroutines.
Cleared ==
  /\ alive /\ s.fg /\ acts < MaxActs
  /\ alive' = FALSE
  /\ s' = Stop(CoachCancel(CancelAi(s)))
  /\ UNCHANGED <<posts, acts>>

-----------------------------------------------------------------------------
(* The AI turn and the coach analysis after their suspension *)

DelayEnds ==
  /\ s.delayed # NoSearch
  /\ s' = [Hand(s, s.delayed) EXCEPT !.delayed = NoSearch, !.ids = s.ids]
  /\ UNCHANGED <<posts, alive, acts>>

\* The engine is done with a search: "move" stands for a usable result,
\* "nothing" for an error or a result without a move or a score.
EngineEnds ==
  /\ s.queue # << >>
  /\ s' = [s EXCEPT !.queue = Tail(@)]
  /\ \E outcome \in IF MayFail THEN {"move", "nothing"} ELSE {"move"} :
       posts' = Append(posts, [search |-> Head(s.queue), outcome |-> outcome])
  /\ UNCHANGED <<alive, acts>>

\* The next posted result is for a search of the given kind.
Resumes(kind) ==
  /\ posts # << >>
  /\ Head(posts).search.kind = kind
  /\ posts' = Tail(posts)
  /\ UNCHANGED <<alive, acts>>

Finished(t, search) == [t EXCEPT !.cancelled = @ \ {search.id}, !.truncated = @ \ {search.id}]

\* The rest of the AI's coroutine, which is active until its end.
AiTurnEnds(t) ==
  IF t.mode = "hva" THEN [StartPendingCoach(t) EXCEPT !.aiJob = 0]
                    ELSE MaybeStartAi([t EXCEPT !.aiJob = 0])

\* Wrong on purpose: the move is played although the turn was cancelled.
AiMoveUnguarded(m) ==
  /\ Resumes("ai")
  /\ Head(posts).outcome = "move"
  /\ LET search == Head(posts).search
         next == Append(search.on, m)
         a == [CoachSync([Finished(s, search) EXCEPT !.aiSearching = FALSE], next)
                 EXCEPT !.session = next, !.thinking = FALSE]
     IN  s' = AiTurnEnds(a)

\* bestMove() returned a legal move to a turn that is not cancelled.
AiMove(m) ==
  /\ Resumes("ai")
  /\ Head(posts).outcome = "move"
  /\ Head(posts).search.id \notin s.cancelled
  /\ alive
  /\ LET search == Head(posts).search
         next == Append(search.on, m)
         a == [CoachSync([Finished(s, search) EXCEPT !.aiSearching = FALSE], next)
                 EXCEPT !.session = next, !.thinking = FALSE]
     IN  /\ search.gen = s.generation
         /\ s' = AiTurnEnds(a)

\* ... or the turn was cancelled, found no move or failed.
AiNoMove ==
  /\ Resumes("ai")
  /\ LET search == Head(posts).search IN
       \/ /\ search.id \in s.cancelled \/ ~alive
          /\ s' = [Finished(s, search) EXCEPT !.aiSearching = FALSE]
       \/ /\ search.id \notin s.cancelled /\ alive
          /\ Head(posts).outcome # "move"
          /\ s' = [Finished(s, search) EXCEPT !.aiSearching = FALSE, !.aiJob = 0,
                     !.thinking = IF search.gen = s.generation THEN FALSE ELSE @]

\* The flow of a coach analysis ended; finish() runs if its id is current.
CoachResult ==
  /\ Resumes("coach")
  /\ LET search == Head(posts).search
         t == Finished(s, search)
     IN  s' = IF s.coachJob = search.id
                THEN CoachFinish(t, search.req, Head(posts).outcome = "move")
                ELSE t

NewGameDone == Resumes("newGame") /\ s' = Finished(s, Head(posts).search)

-----------------------------------------------------------------------------
Init ==
  /\ \E mode \in {"hva", "ava"} :
       s = MaybeStartAi([Fresh(<< >>, mode, FALSE, {}) EXCEPT !.fg = TRUE])
  /\ posts = << >> /\ alive = TRUE /\ acts = 0

AiTurn == DelayEnds \/ AiNoMove \/ \E m \in Moves : AiMove(m)

Next ==
  \/ \E m \in Moves : PlayHuman(m)
  \/ Undo
  \/ \E mode \in {"hva", "ava"} : NewGame(mode)
  \/ TogglePause \/ RetryCoach
  \/ Background \/ Foreground \/ ProcessDeath \/ Cleared
  \/ EngineEnds \/ AiTurn \/ CoachResult \/ NewGameDone

Spec == Init /\ [][Next]_vars

\* The engine ends every search (ServedIfCancelled and StopLands of
\* FairyEngine; these searches are limited) and the main thread runs what is
\* posted to it.  The user owes nothing.
Fairness == WF_vars(EngineEnds) /\ WF_vars(AiTurn) /\ WF_vars(CoachResult) /\ WF_vars(NewGameDone)

FairSpec == Spec /\ Fairness
-----------------------------------------------------------------------------
(* Properties *)

InFlight == {search.id : search \in Range(s.queue)} \cup {p.search.id : p \in Range(posts)}
Kinds == {"none", "ai", "coach", "newGame"}
Requests == {NoRequest} \cup [pre : Sessions, move : Moves]
IsSearch(x) ==
  /\ DOMAIN x = {"id", "kind", "gen", "on", "req"}
  /\ x.id \in Nat /\ x.kind \in Kinds /\ x.gen \in Nat
  /\ x.on \in Sessions /\ x.req \in Requests

\* The state of the screen: types, and ids that were really handed out.
TypeOK ==
  /\ s.session \in Sessions /\ s.mode \in {"hva", "ava"}
  /\ {s.paused, s.fg, s.thinking, s.aiSearching, alive} \subseteq BOOLEAN
  /\ {s.pendingCoach, s.lastCoachRequest} \cup s.comments \subseteq Requests
  /\ {s.analyzing, s.failed} \subseteq 0 .. NoPly
  /\ IsSearch(s.delayed) /\ \A x \in Range(s.queue) : IsSearch(x)
  /\ \A p \in Range(posts) : IsSearch(p.search) /\ p.outcome \in {"move", "nothing"}
  /\ s.cancelled \cup s.truncated \subseteq InFlight
  /\ InFlight \cup {s.aiJob, s.coachJob, s.delayed.id} \subseteq 0 .. s.ids

\* "so the two searches never overlap" (the comment on GameViewModel): while
\* an AI turn is on, no coach analysis runs or waits in the engine.
AiFirst == s.aiJob = 0 \/ s.coachJob = 0

\* engine.stop() is aimed at "the running search": it never cuts one short
\* whose result the screen still uses, an AI turn or a coach analysis that
\* nobody cancelled.
UsesWholeSearches == {s.aiJob, s.coachJob} \cap s.truncated = {}

\* Whatever was undone, restarted or replayed: every verdict on the screen is
\* about a move of the game on the screen, made in the position it was in.
VerdictsFit ==
  \A c \in s.comments : StillValidIn(c, s.session) /\ (s.mode = "hva" => Side(c.pre) = Human)

\* A spinner on the screen ("thinking", "analyzing") means that a result is
\* under way that nobody cancelled and that will take it down.
SpinnersEnd ==
  /\ alive /\ s.thinking
       => /\ s.aiJob # 0 /\ s.aiJob \notin s.cancelled
          /\ s.aiJob \in InFlight \cup {s.delayed.id}
  /\ s.analyzing # NoPly => s.coachJob \in InFlight \ s.cancelled

\* The screen's records agree: types, one search at a time, spinners.
ScreenAgrees == TypeOK /\ AiFirst /\ SpinnersEnd

\* A step that is no user action never takes a move back, and it adds at most
\* the one move that is the AI's to make: the answer to an outdated search
\* never reaches the board.
NoStrayMove ==
  [][acts' = acts =>
       \/ s'.session = s.session
       \/ /\ ~Over(s.session) /\ ~HumanTurn(s)
          /\ \E m \in Moves : s'.session = Append(s.session, m)]_vars

\* The premises of the liveness properties: a screen that stays on in the end
\* or was never left, is not paused, and whose searches do not fail (nothing
\* retries the turn of a failed search before the user acts).
StaysOn == <>[](alive /\ s.fg /\ ~s.paused)
NeverLeft == [](alive /\ s.fg) /\ <>[]~s.paused
SearchesSucceed == \A p \in Range(posts) : p.outcome = "move"

AiToMove == ~Over(s.session) /\ ~HumanTurn(s)

\* The AI always moves in the end: a screen that stays on comes to the
\* human's turn or to the end of the game, again and again, whatever the user
\* did before, trips to the background and process deaths included.
AiReplies == (StaysOn /\ []SearchesSucceed) => []<>~AiToMove

Reviewed ==
  LET ply == LastHumanPly(s)
  IN  (s.mode = "hva" /\ ply # NoPly)
        => s.failed = ply \/ \E c \in s.comments : Ply(c) = ply

\* The human's last move gets its verdict, or a failure with a retry button,
\* on a screen that is never left.
ReviewedAtLast == (NeverLeft /\ []SearchesSucceed) => []<>Reviewed
=============================================================================
