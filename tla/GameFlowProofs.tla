--------------------------- MODULE GameFlowProofs ---------------------------
(*****************************************************************************)
(* The safety of a game screen: the inductive invariant behind ScreenAgrees, *)
(* UsesWholeSearches, VerdictsFit and NoStrayMove.  The operators of GameFlow *)
(* take a screen to a screen; so do the lemmas, one for each of them.        *)
(*****************************************************************************)
EXTENDS GameFlow, TLAPS

-----------------------------------------------------------------------------
(* Types *)

Searches == [id : Nat, kind : Kinds, gen : Nat, on : Sessions, req : Requests]

Screens ==
  [session : Sessions, mode : {"hva", "ava"}, paused : BOOLEAN, comments : SUBSET Requests,
   fg : BOOLEAN, generation : Nat, thinking : BOOLEAN,
   aiJob : Nat, aiSearching : BOOLEAN, delayed : Searches,
   pendingCoach : Requests, lastCoachRequest : Requests,
   coachJob : Nat, analyzing : 0 .. NoPly, failed : 0 .. NoPly,
   queue : Seq(Searches), cancelled : SUBSET Nat, truncated : SUBSET Nat, ids : Nat]

Posts == [search : Searches, outcome : {"move", "nothing"}]

-----------------------------------------------------------------------------
(* The inductive invariant, of a screen t with posted results ps; al tells    *)
(* whether the screen is alive.                                              *)

\* The searches under way, in the order in which their results are taken.
Flight(t, ps) ==
  [i \in 1 .. Len(ps) + Len(t.queue) |->
     IF i <= Len(ps) THEN ps[i].search ELSE t.queue[i - Len(ps)]]
Flying(t, ps) == {Flight(t, ps)[i] : i \in 1 .. Len(ps) + Len(t.queue)}

\* No two of them have the same id, and all ids were handed out.
Numbered(t, ps) ==
  /\ \A i, j \in 1 .. Len(ps) + Len(t.queue) :
       Flight(t, ps)[i].id = Flight(t, ps)[j].id => i = j
  /\ \A x \in Flying(t, ps) : x.id \in 1 .. t.ids

\* Cancelled and truncated searches are under way.
Marked(t, ps) == \A n \in t.cancelled \cup t.truncated : \E x \in Flying(t, ps) : x.id = n

\* The side to move is the AI's, in a game of the human against it.
AiOwes(t) == t.mode = "hva" /\ Side(t.session) # Human /\ ~Over(t.session)

IsAiTurn(t, x) ==
  x.id = t.aiJob /\ x.kind = "ai" /\ x.gen = t.generation /\ x.on = t.session

\* A turn of the AI has a search that nobody cancelled, of the position on the
\* board, and every other search for a turn is cancelled.
AiTurnFits(t, ps, al) ==
  /\ t.delayed # NoSearch =>
       /\ t.delayed.id \in 1 .. t.ids /\ IsAiTurn(t, t.delayed)
       /\ \A x \in Flying(t, ps) : x.id # t.delayed.id
  /\ \A x \in Flying(t, ps) : x.kind = "ai" /\ x.id \notin t.cancelled => x.id = t.aiJob
  /\ t.aiJob # 0 =>
       /\ al /\ t.fg /\ t.coachJob = 0
       /\ ~Over(t.session) /\ (t.mode = "hva" => AiOwes(t))
       /\ t.aiJob \notin t.cancelled \cup t.truncated
       /\ \E x \in Flying(t, ps) \cup {t.delayed} : IsAiTurn(t, x)

\* A coach analysis has a search that nobody cancelled, and waits for no AI.
CoachFits(t, ps, al) ==
  /\ t.coachJob # 0 =>
       /\ al /\ t.fg /\ t.mode = "hva" /\ ~AiOwes(t)
       /\ t.coachJob \notin t.cancelled \cup t.truncated
       /\ \E x \in Flying(t, ps) : x.id = t.coachJob /\ x.kind = "coach"
  /\ t.analyzing # NoPly => t.coachJob # 0

\* The coach is asked about moves of the human.
OfHuman(req) == req = NoRequest \/ Side(req.pre) = Human
RequestsFit(t, ps) ==
  /\ \A req \in t.comments \cup {t.pendingCoach, t.lastCoachRequest} : OfHuman(req)
  /\ \A x \in Flying(t, ps) : x.kind = "coach" => OfHuman(x.req)
  /\ t.mode = "ava" => t.pendingCoach = NoRequest

\* A failure is one of a move still played, and while the AI owes its reply,
\* not of the last one.
FailureFits(t) ==
  t.failed # NoPly => t.failed < Len(t.session) /\ (AiOwes(t) => t.failed + 1 < Len(t.session))

CommentsFit(t) == \A c \in t.comments : StillValidIn(c, t.session)

Fits(t, ps, al) ==
  /\ t \in Screens /\ ps \in Seq(Posts)
  /\ Numbered(t, ps) /\ Marked(t, ps)
  /\ AiTurnFits(t, ps, al) /\ CoachFits(t, ps, al)
  /\ RequestsFit(t, ps) /\ FailureFits(t) /\ CommentsFit(t)

\* The screen shows the AI at work only during a turn of it.
Spins(t, al) == al /\ t.thinking => t.aiJob # 0

IInv == Fits(s, posts, alive) /\ Spins(s, alive) /\ alive \in BOOLEAN /\ acts \in Nat

-----------------------------------------------------------------------------
(* Sessions *)

\* A session is a sequence of moves within the limit.
LEMMA SessionIsSeq == \A g : g \in Sessions <=> g \in Seq(Moves) /\ Len(g) <= MaxPly
<1>1. MaxPly \in Nat
  BY BoundsAssumption
<1>2. ASSUME NEW g \in Sessions PROVE g \in Seq(Moves) /\ Len(g) <= MaxPly
  <2>1. PICK n \in 0 .. MaxPly : g \in [1 .. n -> Moves]
    BY DEF Sessions
  <2>2. n \in Nat /\ n <= MaxPly
    BY <1>1
  <2> QED BY <2>1, <2>2
<1>3. ASSUME NEW g \in Seq(Moves), Len(g) <= MaxPly PROVE g \in Sessions
  <2>1. Len(g) \in 0 .. MaxPly /\ g \in [1 .. Len(g) -> Moves]
    BY <1>1, <1>3
  <2> QED BY <2>1 DEF Sessions
<1> QED BY <1>2, <1>3

\* A move goes to the end of a game that is not over, and the turn passes.
LEMMA AppendSession ==
  ASSUME NEW g \in Sessions, ~Over(g), NEW m \in Moves
  PROVE  /\ Append(g, m) \in Sessions /\ Len(Append(g, m)) = Len(g) + 1
         /\ Side(Append(g, m)) # Side(g)
<1>1. g \in Seq(Moves) /\ Len(g) \in Nat /\ Len(g) <= MaxPly /\ Len(g) < MaxPly
  BY SessionIsSeq, BoundsAssumption DEF Over
<1>2. Append(g, m) \in Seq(Moves) /\ Len(Append(g, m)) = Len(g) + 1
  BY <1>1
<1>3. Side(Append(g, m)) # Side(g)
  <2>1. (Len(g) + 1) % 2 = 0 <=> Len(g) % 2 # 0
    BY <1>1
  <2> QED BY <1>2, <2>1 DEF Side
<1>4. Len(Append(g, m)) <= MaxPly
  BY <1>1, <1>2, BoundsAssumption
<1> QED BY <1>2, <1>3, <1>4, SessionIsSeq

\* The start of a game is a game.
LEMMA PrefixSession ==
  ASSUME NEW g \in Sessions, NEW n \in 0 .. Len(g)
  PROVE  /\ SubSeq(g, 1, n) \in Sessions /\ Len(SubSeq(g, 1, n)) = n
         /\ \A i \in 1 .. n : SubSeq(g, 1, n)[i] = g[i]
<1>1. g \in Seq(Moves) /\ Len(g) \in Nat /\ Len(g) <= MaxPly /\ n \in Nat /\ n <= Len(g)
  BY SessionIsSeq
<1>2. SubSeq(g, 1, n) \in Seq(Moves) /\ Len(SubSeq(g, 1, n)) = n
      /\ \A i \in 1 .. n : SubSeq(g, 1, n)[i] = g[i]
  BY <1>1
<1>3. Len(SubSeq(g, 1, n)) <= MaxPly
  BY <1>1, <1>2, BoundsAssumption
<1> QED BY <1>2, <1>3, SessionIsSeq

\* The start of a start of a game is a start of it.
LEMMA PrefixOfPrefix ==
  ASSUME NEW g \in Sessions, NEW n \in 0 .. Len(g), NEW k \in 0 .. n
  PROVE  SubSeq(SubSeq(g, 1, n), 1, k) = SubSeq(g, 1, k)
<1> DEFINE a == SubSeq(SubSeq(g, 1, n), 1, k)
           b == SubSeq(g, 1, k)
<1>1. Len(g) \in Nat /\ n \in Nat /\ k \in Nat /\ n <= Len(g) /\ k <= n /\ k \in 0 .. Len(g)
  BY SessionIsSeq
<1>2. /\ SubSeq(g, 1, n) \in Sessions /\ Len(SubSeq(g, 1, n)) = n
      /\ \A i \in 1 .. n : SubSeq(g, 1, n)[i] = g[i]
  BY PrefixSession
<1>3. k \in 0 .. Len(SubSeq(g, 1, n)) /\ \A i \in 1 .. k : i \in 1 .. n
  BY <1>1, <1>2
<1>4. a \in Sessions /\ Len(a) = k /\ \A i \in 1 .. k : a[i] = SubSeq(g, 1, n)[i]
  BY <1>2, <1>3, PrefixSession
<1>5. b \in Sessions /\ Len(b) = k /\ \A i \in 1 .. k : b[i] = g[i]
  BY <1>1, PrefixSession
<1>6. a \in Seq(Moves) /\ b \in Seq(Moves)
  BY <1>4, <1>5, SessionIsSeq
<1> HIDE DEF a, b
<1>7. \A i \in 1 .. k : a[i] = b[i]
  BY <1>2, <1>3, <1>4, <1>5
<1>8. a = b
  BY <1>4, <1>5, <1>6, <1>7
<1> QED BY <1>8 DEF a, b

\* The side to move alternates.
LEMMA SideAlternates ==
  ASSUME NEW g \in Sessions, NEW h \in Sessions, Len(g) = Len(h) + 1
  PROVE  Side(g) # Side(h) /\ Side(h) \in {"cho", "han"}
<1>1. Len(h) \in Nat
  BY SessionIsSeq
<1>2. (Len(h) + 1) % 2 = 0 <=> Len(h) % 2 # 0
  BY <1>1
<1> QED BY <1>2 DEF Side

\* The position of a request is a session, and its ply a number.
LEMMA PreType ==
  ASSUME NEW c \in Requests
  PROVE  c.pre \in Seq(Moves) /\ Ply(c) = Len(c.pre) /\ Ply(c) \in 0 .. MaxPly /\ Ply(c) \in 0 .. NoPly
<1>1. MaxPly \in Nat /\ << >> \in Seq(Moves)
  BY BoundsAssumption
<1>2. c.pre \in Seq(Moves) /\ Len(c.pre) <= MaxPly
  <2>1. CASE c = NoRequest
    BY <1>1, <2>1 DEF NoRequest
  <2>2. CASE c \in [pre : Sessions, move : Moves]
    BY <2>2, SessionIsSeq
  <2> QED BY <2>1, <2>2 DEF Requests
<1> QED BY <1>1, <1>2 DEF Ply, NoPly

\* A request stays valid while moves are added ...
LEMMA ValidAppend ==
  ASSUME NEW c \in Requests, NEW g \in Sessions, NEW m \in Moves, StillValidIn(c, g)
  PROVE  StillValidIn(c, Append(g, m))
<1>1. g \in Seq(Moves) /\ c.pre \in Seq(Moves) /\ Ply(c) = Len(c.pre) /\ Ply(c) \in Nat /\ Len(g) > Ply(c)
  BY PreType, SessionIsSeq DEF StillValidIn
<1>2. Len(Append(g, m)) = Len(g) + 1 /\ \A i \in 1 .. Len(g) : Append(g, m)[i] = g[i]
  BY <1>1
<1>3. SubSeq(Append(g, m), 1, Ply(c)) = SubSeq(g, 1, Ply(c))
  BY <1>1, <1>2
<1> QED BY <1>1, <1>2, <1>3 DEF StillValidIn

\* ... and while its own move is not taken back.
LEMMA ValidPrefix ==
  ASSUME NEW c \in Requests, NEW g \in Sessions, NEW n \in 0 .. Len(g),
         StillValidIn(c, g), Ply(c) < n
  PROVE  StillValidIn(c, SubSeq(g, 1, n))
<1>1. /\ g \in Seq(Moves) /\ n \in Nat /\ n <= Len(g)
      /\ c.pre \in Seq(Moves) /\ Ply(c) = Len(c.pre) /\ Ply(c) \in Nat /\ Len(g) > Ply(c)
  BY PreType, SessionIsSeq DEF StillValidIn
<1>2. Len(SubSeq(g, 1, n)) = n /\ \A i \in 1 .. n : SubSeq(g, 1, n)[i] = g[i]
  BY PrefixSession
<1>3. SubSeq(SubSeq(g, 1, n), 1, Ply(c)) = SubSeq(g, 1, Ply(c))
  BY <1>1, <1>2
<1> QED BY <1>1, <1>2, <1>3 DEF StillValidIn

\* Nobody asks the coach about no move.
LEMMA ValidIsReal ==
  ASSUME NEW c \in Requests, NEW g \in Sessions, StillValidIn(c, g)
  PROVE  c # NoRequest
<1>1. g \in Seq(Moves)
  BY SessionIsSeq
<1>2. c = NoRequest => Ply(c) = 0 /\ c.move = NoMove
  BY DEF NoRequest, Ply
<1> QED BY <1>1, <1>2, MovesAssumption DEF StillValidIn

-----------------------------------------------------------------------------
(* Searches under way *)

\* The searches under way, each by its place in the queue or among the posts.
LEMMA FlightFacts ==
  ASSUME NEW t \in Screens, NEW ps \in Seq(Posts)
  PROVE  /\ Len(ps) \in Nat /\ Len(t.queue) \in Nat /\ t.queue \in Seq(Searches)
         /\ \A i \in 1 .. Len(ps) : Flight(t, ps)[i] = ps[i].search
         /\ \A i \in 1 .. Len(t.queue) : Flight(t, ps)[Len(ps) + i] = t.queue[i]
         /\ Flying(t, ps) \subseteq Searches
<1>1. Len(ps) \in Nat /\ t.queue \in Seq(Searches) /\ Len(t.queue) \in Nat
  BY DEF Screens
<1>2. ASSUME NEW i \in 1 .. Len(ps)
      PROVE  Flight(t, ps)[i] = ps[i].search /\ ps[i].search \in Searches
  <2>1. ps[i] \in Posts
    BY <1>1
  <2>2. Flight(t, ps)[i] = ps[i].search
    BY <1>1 DEF Flight
  <2> QED BY <2>1, <2>2 DEF Posts
<1>3. \A i \in 1 .. Len(t.queue) : Flight(t, ps)[Len(ps) + i] = t.queue[i] /\ t.queue[i] \in Searches
  BY <1>1 DEF Flight
<1>4. ASSUME NEW i \in 1 .. Len(ps) + Len(t.queue) PROVE Flight(t, ps)[i] \in Searches
  <2>1. CASE i <= Len(ps)
    BY <1>1, <1>2, <2>1
  <2>2. CASE ~(i <= Len(ps))
    <3>1. i - Len(ps) \in 1 .. Len(t.queue)
      BY <1>1, <2>2
    <3> QED BY <1>1, <2>2, <3>1 DEF Flight
  <2> QED BY <2>1, <2>2
<1> QED BY <1>1, <1>2, <1>3, <1>4 DEF Flying

\* The same queue and posts are the same searches under way.
LEMMA FlightSame ==
  ASSUME NEW t, NEW u, NEW ps, u.queue = t.queue
  PROVE  Flight(u, ps) = Flight(t, ps) /\ Flying(u, ps) = Flying(t, ps)
  BY DEF Flight, Flying

\* A search with a new number is handed to the engine.
LEMMA FlightHand ==
  ASSUME NEW t \in Screens, NEW u \in Screens, NEW ps \in Seq(Posts), NEW x \in Searches,
         u.queue = Append(t.queue, x), Numbered(t, ps),
         x.id \in 1 .. u.ids, t.ids <= u.ids, \A y \in Flying(t, ps) : y.id # x.id
  PROVE  Numbered(u, ps) /\ Flying(u, ps) = Flying(t, ps) \cup {x}
<1> DEFINE a == Len(ps)
           n == Len(t.queue)
<1>1. a \in Nat /\ n \in Nat /\ t.queue \in Seq(Searches) /\ Len(u.queue) = n + 1
      /\ t.ids \in Nat /\ u.ids \in Nat
  BY FlightFacts, SMTT(30) DEF Screens
<1>2. \A i \in 1 .. a + n : Flight(u, ps)[i] = Flight(t, ps)[i] /\ i \in 1 .. a + (n + 1)
  BY <1>1 DEF Flight
<1>3. Flight(u, ps)[a + (n + 1)] = x
  BY <1>1 DEF Flight
<1>4. \A i \in 1 .. a + (n + 1) : i \in 1 .. a + n \/ i = a + (n + 1)
  <2> HIDE DEF a, n
  <2> QED BY <1>1
<1>5. \A i \in 1 .. a + n : Flight(t, ps)[i] \in Flying(t, ps)
  BY DEF Flying
<1>6. Flying(u, ps) = {Flight(u, ps)[i] : i \in 1 .. a + (n + 1)}
  BY <1>1 DEF Flying
<1>7. Flying(t, ps) = {Flight(t, ps)[i] : i \in 1 .. a + n}
  BY DEF Flying
<1>8. a + (n + 1) \in 1 .. a + (n + 1)
  BY <1>1
<1> HIDE DEF a, n
<1>9. Flying(u, ps) = Flying(t, ps) \cup {x}
  BY <1>2, <1>3, <1>4, <1>6, <1>7, <1>8
<1>10. \A i, j \in 1 .. a + (n + 1) : Flight(u, ps)[i].id = Flight(u, ps)[j].id => i = j
  <2>1. \A i, j \in 1 .. a + n : Flight(t, ps)[i].id = Flight(t, ps)[j].id => i = j
    BY DEF Numbered, a, n
  <2> QED BY <1>2, <1>3, <1>4, <1>5, <2>1
<1>11. \A y \in Flying(u, ps) : y.id \in 1 .. u.ids
  BY <1>1, <1>9 DEF Numbered
<1> QED BY <1>1, <1>9, <1>10, <1>11 DEF Numbered, a

\* The engine is done with a search: its result is posted.
LEMMA FlightEnds ==
  ASSUME NEW t \in Screens, NEW u \in Screens, NEW ps \in Seq(Posts), NEW p \in Posts,
         t.queue # << >>, u.queue = Tail(t.queue), u.ids = t.ids, p.search = Head(t.queue)
  PROVE  /\ Append(ps, p) \in Seq(Posts) /\ Flying(u, Append(ps, p)) = Flying(t, ps)
         /\ Numbered(t, ps) => Numbered(u, Append(ps, p))
<1> DEFINE a == Len(ps)
           n == Len(t.queue)
<1>1. a \in Nat /\ n \in Nat /\ t.queue \in Seq(Searches)
  BY FlightFacts
<1>2. /\ n > 0 /\ Len(u.queue) = n - 1 /\ p.search = t.queue[1]
      /\ \A i \in 1 .. n - 1 : u.queue[i] = t.queue[i + 1]
  BY <1>1
<1>3. /\ Append(ps, p) \in Seq(Posts) /\ Len(Append(ps, p)) = a + 1 /\ Append(ps, p)[a + 1] = p
      /\ \A i \in 1 .. a : Append(ps, p)[i] = ps[i]
  OBVIOUS
<1>4. (a + 1) + (n - 1) = a + n
  <2> HIDE DEF a, n
  <2> QED BY <1>1
<1>5. /\ Flight(t, ps) = [i \in 1 .. a + n |-> IF i <= a THEN ps[i].search ELSE t.queue[i - a]]
      /\ Flight(u, Append(ps, p))
           = [i \in 1 .. a + n |-> IF i <= a + 1 THEN Append(ps, p)[i].search
                                                  ELSE u.queue[i - (a + 1)]]
  BY <1>2, <1>3, <1>4 DEF Flight
<1>6. ASSUME NEW i \in 1 .. a + n PROVE Flight(u, Append(ps, p))[i] = Flight(t, ps)[i]
  <2> HIDE DEF a, n
  <2>1. CASE i <= a
    <3>1. i \in 1 .. a /\ i <= a + 1
      BY <1>1, <2>1
    <3> QED BY <1>3, <1>5, <2>1, <3>1
  <2>2. CASE i = a + 1
    <3>1. ~(i <= a) /\ i <= a + 1 /\ i - a = 1
      BY <1>1, <2>2
    <3> QED BY <1>2, <1>3, <1>5, <2>2, <3>1
  <2>3. CASE i > a + 1
    <3>1. /\ i - (a + 1) \in 1 .. n - 1 /\ (i - (a + 1)) + 1 = i - a
          /\ ~(i <= a) /\ ~(i <= a + 1)
      BY <1>1, <2>3
    <3>2. u.queue[i - (a + 1)] = t.queue[i - a]
      BY <1>2, <3>1
    <3> QED BY <1>5, <3>1, <3>2
  <2> QED BY <1>1, <2>1, <2>2, <2>3
<1>7. Flying(u, Append(ps, p)) = Flying(t, ps)
  <2>1. Flying(t, ps) = {Flight(t, ps)[i] : i \in 1 .. a + n}
    BY DEF Flying
  <2>2. Flying(u, Append(ps, p)) = {Flight(u, Append(ps, p))[i] : i \in 1 .. a + n}
    BY <1>2, <1>3, <1>4 DEF Flying
  <2> HIDE DEF a, n
  <2> QED BY <1>6, <2>1, <2>2
<1>8. Numbered(t, ps) => Numbered(u, Append(ps, p))
  BY <1>2, <1>3, <1>4, <1>6, <1>7 DEF Numbered
<1> QED BY <1>3, <1>7, <1>8

\* The main thread takes a posted result.
LEMMA FlightLands ==
  ASSUME NEW t \in Screens, NEW u \in Screens, NEW ps \in Seq(Posts), ps # << >>,
         u.queue = t.queue, u.ids = t.ids, Numbered(t, ps)
  PROVE  /\ Tail(ps) \in Seq(Posts) /\ Numbered(u, Tail(ps)) /\ Head(ps) \in Posts
         /\ Head(ps).search \in Flying(t, ps)
         /\ Flying(u, Tail(ps)) = {x \in Flying(t, ps) : x.id # Head(ps).search.id}
<1> DEFINE a == Len(ps)
           n == Len(t.queue)
           h == Head(ps).search
<1>1. a \in Nat /\ n \in Nat /\ a > 0 /\ Len(Tail(ps)) = a - 1 /\ Tail(ps) \in Seq(Posts)
      /\ Head(ps) \in Posts /\ Head(ps) = ps[1] /\ (a - 1) + n = (a + n) - 1
  BY FlightFacts
<1>2. Flight(t, ps)[1] = h /\ 1 \in 1 .. a + n
  BY <1>1 DEF Flight
<1>3. ASSUME NEW i \in 1 .. (a + n) - 1
      PROVE  Flight(u, Tail(ps))[i] = Flight(t, ps)[i + 1] /\ i + 1 \in 1 .. a + n /\ i + 1 # 1
  <2>1. i + 1 \in 1 .. a + n /\ i \in 1 .. (a - 1) + n /\ i + 1 # 1
    BY <1>1
  <2>2. CASE i <= a - 1
    <3>1. i \in 1 .. a - 1 /\ Tail(ps)[i] = ps[i + 1]
      BY <1>1, <2>2
    <3> QED BY <1>1, <2>1, <2>2, <3>1 DEF Flight
  <2>3. CASE ~(i <= a - 1)
    <3>1. i - (a - 1) = (i + 1) - a
      BY <1>1
    <3> QED BY <1>1, <2>1, <2>3, <3>1 DEF Flight
  <2> QED BY <2>2, <2>3
<1>4. \A j \in 1 .. a + n : j # 1 => j - 1 \in 1 .. (a + n) - 1 /\ (j - 1) + 1 = j
  BY <1>1
<1>5. Flying(u, Tail(ps)) = {Flight(u, Tail(ps))[i] : i \in 1 .. (a + n) - 1}
  BY <1>1 DEF Flying
<1>6. Flying(t, ps) = {Flight(t, ps)[i] : i \in 1 .. a + n}
  BY DEF Flying
<1>7. \A i, j \in 1 .. a + n : Flight(t, ps)[i].id = Flight(t, ps)[j].id => i = j
  BY DEF Numbered
<1> HIDE DEF h
<1>8. Flying(u, Tail(ps)) = {x \in Flying(t, ps) : x.id # h.id}
  <2>1. ASSUME NEW i \in 1 .. (a + n) - 1
        PROVE  Flight(u, Tail(ps))[i] \in Flying(t, ps) /\ Flight(u, Tail(ps))[i].id # h.id
    BY <1>2, <1>3, <1>6, <1>7
  <2>2. ASSUME NEW x \in Flying(t, ps), x.id # h.id
        PROVE  x \in Flying(u, Tail(ps))
    <3>1. PICK j \in 1 .. a + n : x = Flight(t, ps)[j]
      BY <1>6
    <3>2. j # 1
      BY <1>2, <2>2, <3>1
    <3>3. j - 1 \in 1 .. (a + n) - 1 /\ Flight(u, Tail(ps))[j - 1] = x
      BY <1>3, <1>4, <3>1, <3>2
    <3> QED BY <1>5, <3>3
  <2> QED BY <1>5, <2>1, <2>2
<1>9. Numbered(u, Tail(ps))
  <2>1. \A i, j \in 1 .. (a + n) - 1 :
          Flight(u, Tail(ps))[i].id = Flight(u, Tail(ps))[j].id => i = j
    BY <1>1, <1>3, <1>7
  <2>2. \A x \in Flying(u, Tail(ps)) : x.id \in 1 .. u.ids
    BY <1>8 DEF Numbered
  <2> QED BY <1>1, <2>1, <2>2 DEF Numbered
<1> QED BY <1>1, <1>2, <1>6, <1>8, <1>9 DEF h

\* A search under way is known by its id.
LEMMA FlightId ==
  ASSUME NEW t, NEW ps, Numbered(t, ps), NEW x \in Flying(t, ps), NEW y \in Flying(t, ps), x.id = y.id
  PROVE  x = y
  BY DEF Numbered, Flying

-----------------------------------------------------------------------------
(* Screens that keep the invariant *)

\* A delayed turn of the AI is a turn of it, and its search is not under way.
LEMMA DelayedFacts ==
  ASSUME NEW t \in Screens, NEW ps, NEW al, AiTurnFits(t, ps, al)
  PROVE  /\ NoSearch.kind = "none" /\ NoSearch.id = 0
         /\ t.aiJob = 0 => t.delayed = NoSearch
         /\ t.aiJob # 0 /\ t.delayed = NoSearch => \E x \in Flying(t, ps) : IsAiTurn(t, x)
         /\ t.delayed # NoSearch => \A x \in Flying(t, ps) : x.id # t.aiJob
<1>1. NoSearch.kind = "none" /\ NoSearch.id = 0
  BY DEF NoSearch, Search
<1>2. t.delayed # NoSearch =>
        t.delayed.id # 0 /\ t.delayed.id = t.aiJob /\ \A x \in Flying(t, ps) : x.id # t.delayed.id
  BY DEF AiTurnFits, IsAiTurn, Screens
<1>3. ~IsAiTurn(t, NoSearch)
  BY <1>1 DEF IsAiTurn
<1> QED BY <1>1, <1>2, <1>3 DEF AiTurnFits

\* Both jobs are cancelled, whatever is stopped meanwhile.
LEMMA IdleFits ==
  ASSUME NEW t \in Screens, NEW u \in Screens, NEW ps, NEW al, NEW al2, Fits(t, ps, al),
         u.queue = t.queue, u.ids = t.ids,
         u.aiJob = 0, u.delayed = NoSearch, u.coachJob = 0, u.analyzing = NoPly,
         t.cancelled \subseteq u.cancelled,
         t.delayed = NoSearch /\ t.aiJob # 0 => t.aiJob \in u.cancelled,
         \A n \in u.cancelled : \/ n \in t.cancelled
                                \/ n # 0 /\ n = t.aiJob /\ t.delayed = NoSearch
                                \/ n # 0 /\ n = t.coachJob,
         \A n \in u.truncated : n \in t.truncated \/ \E x \in Range(t.queue) : x.id = n,
         RequestsFit(u, ps), FailureFits(u), CommentsFit(u)
  PROVE  Fits(u, ps, al2)
<1>1. Flying(u, ps) = Flying(t, ps) /\ Flight(u, ps) = Flight(t, ps)
  BY FlightSame
<1>2. Numbered(u, ps)
  BY <1>1 DEF Fits, Numbered
<1>3. Marked(u, ps)
  <2>1. ASSUME NEW n \in u.cancelled PROVE \E x \in Flying(u, ps) : x.id = n
    <3>1. CASE n \in t.cancelled
      BY <1>1, <3>1 DEF Fits, Marked
    <3>2. CASE n # 0 /\ n = t.aiJob /\ t.delayed = NoSearch
      BY <1>1, <3>2, DelayedFacts DEF Fits, IsAiTurn
    <3>3. CASE n # 0 /\ n = t.coachJob
      BY <1>1, <3>3 DEF Fits, CoachFits
    <3> QED BY <2>1, <3>1, <3>2, <3>3
  <2>2. ASSUME NEW n \in u.truncated PROVE \E x \in Flying(u, ps) : x.id = n
    <3>1. CASE n \in t.truncated
      BY <1>1, <3>1 DEF Fits, Marked
    <3>2. CASE \E x \in Range(t.queue) : x.id = n
      <4>1. ps \in Seq(Posts)
        BY DEF Fits
      <4>2. \A i \in 1 .. Len(t.queue) : t.queue[i] \in Flying(t, ps)
        <5>1. Len(ps) \in Nat /\ Len(t.queue) \in Nat
              /\ \A i \in 1 .. Len(t.queue) : Flight(t, ps)[Len(ps) + i] = t.queue[i]
          BY <4>1, FlightFacts
        <5>2. \A i \in 1 .. Len(t.queue) : Len(ps) + i \in 1 .. Len(ps) + Len(t.queue)
          BY <5>1
        <5> QED BY <5>1, <5>2 DEF Flying
      <4>3. DOMAIN t.queue = 1 .. Len(t.queue)
        BY <4>1, FlightFacts
      <4> QED BY <1>1, <3>2, <4>2, <4>3 DEF Range
    <3> QED BY <2>2, <3>1, <3>2
  <2> QED BY <2>1, <2>2 DEF Marked
<1>4. AiTurnFits(u, ps, al2)
  <2>1. ASSUME NEW x \in Flying(t, ps), x.kind = "ai" PROVE x.id \in u.cancelled
    <3>1. x.id \in t.cancelled \/ (x.id = t.aiJob /\ x.id # 0)
      BY <2>1 DEF Fits, AiTurnFits, Numbered, Screens
    <3>2. t.delayed # NoSearch => x.id # t.aiJob
      BY DelayedFacts DEF Fits
    <3> QED BY <3>1, <3>2
  <2> QED BY <1>1, <2>1 DEF AiTurnFits
<1>5. CoachFits(u, ps, al2)
  BY DEF CoachFits
<1> QED BY <1>2, <1>3, <1>4, <1>5 DEF Fits

\* The main thread takes the result of a search that no job waits for, or
\* that ends the job waiting for it.
LEMMA LandFits ==
  ASSUME NEW t \in Screens, NEW u \in Screens, NEW ps, NEW al, Fits(t, ps, al), ps # << >>,
         u.queue = t.queue, u.ids = t.ids,
         u.cancelled = t.cancelled \ {Head(ps).search.id},
         u.truncated = t.truncated \ {Head(ps).search.id},
         \/ u.session = t.session /\ u.mode = t.mode /\ u.fg = t.fg
            /\ u.generation = t.generation /\ u.delayed = t.delayed
         \/ u.aiJob = 0 /\ u.coachJob = 0 /\ t.aiJob = Head(ps).search.id /\ u.delayed = t.delayed,
         \/ u.aiJob = t.aiJob /\ t.aiJob # Head(ps).search.id
         \/ u.aiJob = 0 /\ t.aiJob = Head(ps).search.id,
         \/ u.coachJob = t.coachJob /\ u.analyzing = t.analyzing /\ t.coachJob # Head(ps).search.id
         \/ u.coachJob = 0 /\ u.analyzing = NoPly /\ t.coachJob = Head(ps).search.id,
         RequestsFit(u, Tail(ps)), FailureFits(u), CommentsFit(u)
  PROVE  Fits(u, Tail(ps), al)
<1> DEFINE h == Head(ps).search
<1>1. /\ Tail(ps) \in Seq(Posts) /\ Numbered(u, Tail(ps)) /\ h \in Flying(t, ps)
      /\ Flying(u, Tail(ps)) = {x \in Flying(t, ps) : x.id # h.id}
  BY FlightLands DEF Fits
<1>2. h.id # 0
  BY <1>1 DEF Fits, Numbered, Screens
<1> HIDE DEF h
<1>3. Marked(u, Tail(ps))
  BY <1>1 DEF Fits, Marked, h
<1>4. AiTurnFits(u, Tail(ps), al)
  <2>1. \A x \in Flying(u, Tail(ps)) : x.kind = "ai" /\ x.id \notin u.cancelled => x.id = u.aiJob
    BY <1>1 DEF Fits, AiTurnFits, h
  <2>2. CASE u.aiJob = t.aiJob /\ t.aiJob # h.id
    <3>1. /\ u.session = t.session /\ u.mode = t.mode /\ u.fg = t.fg
          /\ u.generation = t.generation /\ u.delayed = t.delayed
      BY <2>2 DEF h
    <3>2. \A x : IsAiTurn(u, x) <=> IsAiTurn(t, x)
      BY <2>2, <3>1 DEF IsAiTurn
    <3>3. AiOwes(u) <=> AiOwes(t)
      BY <3>1 DEF AiOwes
    <3>4. t.aiJob # 0 => u.coachJob = 0
      BY <1>2 DEF Fits, AiTurnFits, h
    <3>5. t.aiJob # 0 => \E x \in Flying(u, Tail(ps)) \cup {u.delayed} : IsAiTurn(u, x)
      <4> SUFFICES ASSUME t.aiJob # 0 PROVE \E x \in Flying(u, Tail(ps)) \cup {u.delayed} : IsAiTurn(u, x)
        OBVIOUS
      <4>1. PICK x \in Flying(t, ps) \cup {t.delayed} : IsAiTurn(t, x)
        BY DEF Fits, AiTurnFits
      <4>2. x.id # h.id
        BY <2>2, <4>1 DEF IsAiTurn
      <4> QED BY <1>1, <3>1, <3>2, <4>1, <4>2
    <3>6. t.aiJob # 0 => t.aiJob \notin u.cancelled \cup u.truncated
      BY DEF Fits, AiTurnFits
    <3>7. u.delayed # NoSearch =>
            /\ u.delayed.id \in 1 .. u.ids /\ IsAiTurn(u, u.delayed)
            /\ \A x \in Flying(u, Tail(ps)) : x.id # u.delayed.id
      BY <1>1, <3>1, <3>2 DEF Fits, AiTurnFits
    <3>8. t.aiJob # 0 => /\ al /\ u.fg /\ ~Over(u.session) /\ (u.mode = "hva" => AiOwes(u))
      BY <3>1, <3>3 DEF Fits, AiTurnFits
    <3> QED BY <2>1, <2>2, <3>4, <3>5, <3>6, <3>7, <3>8 DEF AiTurnFits
  <2>3. CASE u.aiJob = 0 /\ t.aiJob = h.id
    <3>1. u.delayed = NoSearch
      BY <1>1, <2>3, DelayedFacts DEF Fits
    <3> QED BY <2>1, <2>3, <3>1 DEF AiTurnFits
  <2> QED BY <2>2, <2>3 DEF h
<1>5. CoachFits(u, Tail(ps), al)
  <2>1. CASE u.coachJob = t.coachJob /\ u.analyzing = t.analyzing /\ t.coachJob # h.id /\ u.coachJob # 0
    <3>1. u.session = t.session /\ u.mode = t.mode /\ u.fg = t.fg
      BY <2>1 DEF h
    <3>2. AiOwes(u) <=> AiOwes(t)
      BY <3>1 DEF AiOwes
    <3> QED BY <1>1, <2>1, <3>1, <3>2 DEF Fits, CoachFits
  <2>2. CASE u.coachJob = t.coachJob /\ u.analyzing = t.analyzing /\ u.coachJob = 0
    BY <2>2 DEF Fits, CoachFits
  <2>3. CASE u.coachJob = 0 /\ u.analyzing = NoPly
    BY <2>3 DEF CoachFits
  <2> QED BY <2>1, <2>2, <2>3 DEF h
<1> QED BY <1>1, <1>3, <1>4, <1>5 DEF Fits

\* Nothing changes but the place of a search, or what the coach is to be asked.
LEMMA SameFits ==
  ASSUME NEW t \in Screens, NEW u \in Screens, NEW ps, NEW qs \in Seq(Posts), NEW al, Fits(t, ps, al),
         Flying(u, qs) = Flying(t, ps), Numbered(u, qs),
         u.session = t.session, u.mode = t.mode, u.fg = t.fg, u.generation = t.generation,
         u.comments = t.comments, u.aiJob = t.aiJob, u.delayed = t.delayed, u.ids = t.ids,
         u.coachJob = t.coachJob, u.analyzing = t.analyzing, u.failed = t.failed,
         u.cancelled = t.cancelled, u.truncated = t.truncated,
         OfHuman(u.pendingCoach), OfHuman(u.lastCoachRequest),
         u.mode = "ava" => u.pendingCoach = NoRequest
  PROVE  Fits(u, qs, al)
<1>1. (AiOwes(u) <=> AiOwes(t)) /\ \A x : IsAiTurn(u, x) <=> IsAiTurn(t, x)
  BY DEF AiOwes, IsAiTurn
<1>2. Marked(u, qs) /\ CommentsFit(u)
  BY DEF Fits, Marked, CommentsFit
<1>3. AiTurnFits(u, qs, al)
  BY <1>1 DEF Fits, AiTurnFits
<1>4. CoachFits(u, qs, al) /\ FailureFits(u)
  BY <1>1 DEF Fits, CoachFits, FailureFits
<1>5. RequestsFit(u, qs)
  <2>1. \A r \in u.comments : OfHuman(r)
    BY DEF Fits, RequestsFit
  <2>2. \A x \in Flying(u, qs) : x.kind = "coach" => OfHuman(x.req)
    BY DEF Fits, RequestsFit
  <2> QED BY <2>1, <2>2 DEF RequestsFit
<1> QED BY <1>2, <1>3, <1>4, <1>5 DEF Fits

\* ... the latter alone.
LEMMA AskFits ==
  ASSUME NEW t \in Screens, NEW u \in Screens, NEW ps, NEW al, Fits(t, ps, al),
         u.queue = t.queue,
         u.session = t.session, u.mode = t.mode, u.fg = t.fg, u.generation = t.generation,
         u.comments = t.comments, u.aiJob = t.aiJob, u.delayed = t.delayed, u.ids = t.ids,
         u.coachJob = t.coachJob, u.analyzing = t.analyzing, u.failed = t.failed,
         u.cancelled = t.cancelled, u.truncated = t.truncated,
         OfHuman(u.pendingCoach), OfHuman(u.lastCoachRequest),
         u.mode = "ava" => u.pendingCoach = NoRequest
  PROVE  Fits(u, ps, al)
<1>1. Flying(u, ps) = Flying(t, ps) /\ Flight(u, ps) = Flight(t, ps)
  BY FlightSame
<1>2. Numbered(u, ps) /\ ps \in Seq(Posts)
  BY <1>1 DEF Fits, Numbered
<1> QED BY <1>1, <1>2, SameFits

\* A search goes to the engine while no job is on: for neither job, for a turn
\* of the AI, or for the coach.
LEMMA HandFits ==
  ASSUME NEW t \in Screens, NEW u \in Screens, NEW ps, NEW al, NEW x \in Searches, Fits(t, ps, al),
         t.aiJob = 0, t.coachJob = 0,
         x.id = t.ids + 1, u.queue = Append(t.queue, x), u.ids = x.id, OfHuman(x.req),
         u.session = t.session, u.mode = t.mode, u.fg = t.fg, u.generation = t.generation,
         u.comments = t.comments, u.delayed = t.delayed,
         u.cancelled = t.cancelled, u.truncated = t.truncated,
         OfHuman(u.pendingCoach), OfHuman(u.lastCoachRequest),
         u.pendingCoach \in {t.pendingCoach, NoRequest}, u.failed \in {t.failed, NoPly},
         \/ u.aiJob = 0 /\ u.coachJob = 0 /\ u.analyzing = NoPly /\ x.kind # "ai"
         \/ /\ u.aiJob = x.id /\ u.coachJob = 0 /\ u.analyzing = NoPly /\ IsAiTurn(u, x)
            /\ al /\ u.fg /\ ~Over(u.session) /\ (u.mode = "hva" => AiOwes(u))
         \/ /\ u.coachJob = x.id /\ u.aiJob = 0 /\ x.kind = "coach"
            /\ al /\ u.fg /\ u.mode = "hva" /\ ~AiOwes(u)
  PROVE  Fits(u, ps, al)
<1>1. t.ids \in Nat /\ u.ids \in Nat /\ x.id # 0 /\ x.id \in 1 .. u.ids /\ t.ids <= u.ids
  BY DEF Screens
<1>2. \A y \in Flying(t, ps) : y.id # x.id
  BY <1>1 DEF Fits, Numbered
<1>3. x.id \notin t.cancelled \cup t.truncated
  BY <1>2 DEF Fits, Marked
<1>4. Numbered(u, ps) /\ Flying(u, ps) = Flying(t, ps) \cup {x}
  BY <1>1, <1>2, FlightHand DEF Fits
<1>5. t.delayed = NoSearch
  BY DelayedFacts DEF Fits
<1>6. Marked(u, ps)
  BY <1>4 DEF Fits, Marked
<1>7. AiTurnFits(u, ps, al)
  <2>1. \A y \in Flying(t, ps) : y.kind = "ai" => y.id \in u.cancelled
    BY DEF Fits, AiTurnFits, Numbered
  <2>2. u.aiJob = x.id \/ (x.kind # "ai" /\ u.aiJob = 0)
    OBVIOUS
  <2>3. u.aiJob # 0 =>
         /\ al /\ u.fg /\ u.coachJob = 0
         /\ ~Over(u.session) /\ (u.mode = "hva" => AiOwes(u))
         /\ u.aiJob = x.id /\ IsAiTurn(u, x)
    BY <1>1
  <2> QED BY <1>3, <1>4, <1>5, <2>1, <2>2, <2>3 DEF AiTurnFits
<1>8. CoachFits(u, ps, al)
  BY <1>1, <1>3, <1>4 DEF CoachFits
<1>9. RequestsFit(u, ps)
  BY <1>4 DEF Fits, RequestsFit
<1>10. FailureFits(u) /\ CommentsFit(u)
  BY DEF Fits, FailureFits, CommentsFit, AiOwes
<1> QED BY <1>4, <1>6, <1>7, <1>8, <1>9, <1>10 DEF Fits

\* Before its search goes to the engine, a turn of the AI may be delayed.
LEMMA DelayFits ==
  ASSUME NEW t \in Screens, NEW u \in Screens, NEW ps, NEW al, Fits(t, ps, al),
         t.aiJob = 0, t.coachJob = 0,
         u.delayed.id = t.ids + 1, u.queue = t.queue, u.ids = u.delayed.id,
         u.session = t.session, u.mode = t.mode, u.fg = t.fg, u.generation = t.generation,
         u.comments = t.comments, u.cancelled = t.cancelled, u.truncated = t.truncated,
         u.pendingCoach = t.pendingCoach, u.lastCoachRequest = t.lastCoachRequest,
         u.failed = t.failed, u.coachJob = 0, u.analyzing = NoPly,
         u.aiJob = u.delayed.id, IsAiTurn(u, u.delayed),
         al, u.fg, ~Over(u.session), u.mode = "hva" => AiOwes(u)
  PROVE  Fits(u, ps, al)
<1>1. t.ids \in Nat /\ u.ids \in Nat /\ u.aiJob # 0 /\ u.delayed.id \in 1 .. u.ids /\ t.ids <= u.ids
  BY DEF Screens
<1>2. Flying(u, ps) = Flying(t, ps) /\ Flight(u, ps) = Flight(t, ps)
  BY FlightSame
<1>3. \A y \in Flying(t, ps) : y.id \in 1 .. t.ids /\ y.id # u.delayed.id
  BY <1>1 DEF Fits, Numbered
<1>4. u.aiJob \notin t.cancelled \cup t.truncated
  BY <1>3 DEF Fits, Marked
<1>5. Numbered(u, ps)
  <2>1. \A y \in Flying(t, ps) : y.id \in 1 .. u.ids
    BY <1>1, <1>3
  <2> QED BY <1>2, <2>1 DEF Fits, Numbered
<1>6. AiTurnFits(u, ps, al)
  <2>1. \A y \in Flying(t, ps) : y.kind = "ai" => y.id \in u.cancelled
    BY DEF Fits, AiTurnFits, Numbered
  <2> QED BY <1>1, <1>2, <1>3, <1>4, <2>1 DEF AiTurnFits
<1>7. CoachFits(u, ps, al)
  BY DEF CoachFits
<1>8. Marked(u, ps) /\ RequestsFit(u, ps) /\ FailureFits(u) /\ CommentsFit(u)
  BY <1>2 DEF Fits, Marked, RequestsFit, FailureFits, CommentsFit, AiOwes
<1> QED BY <1>5, <1>6, <1>7, <1>8 DEF Fits

\* maybeStartAi() keeps the invariant of a screen whose coach is idle, and it
\* leaves no turn of the AI waiting.
LEMMA MaybeStartAiFits ==
  ASSUME NEW t \in Screens, NEW ps, Fits(t, ps, TRUE), t.coachJob = 0
  PROVE  LET u == MaybeStartAi(t) IN
           /\ u \in Screens /\ Fits(u, ps, TRUE)
           /\ u.session = t.session /\ u.mode = t.mode /\ u.fg = t.fg /\ u.coachJob = 0
           /\ Spins(t, TRUE) => Spins(u, TRUE)
           /\ AiOwes(t) /\ t.fg /\ t.aiJob = 0 => u.aiSearching
           /\ ~AiOwes(t) /\ t.mode = "hva" => u = t
<1> DEFINE u == MaybeStartAi(t)
           x == Search(t.ids + 1, "ai", t.generation, t.session, NoRequest)
<1>1. CASE \/ ~t.fg \/ Over(t.session) \/ t.aiJob # 0
           \/ t.mode = "hva" /\ Side(t.session) = Human
           \/ t.mode = "ava" /\ t.paused
  <2>1. u = t
    BY <1>1 DEF MaybeStartAi
  <2>2. t.mode = "hva" => ~(t.mode = "ava")
    OBVIOUS
  <2> QED BY <1>1, <2>1, <2>2 DEF AiOwes
<1>2. CASE ~(\/ ~t.fg \/ Over(t.session) \/ t.aiJob # 0
             \/ t.mode = "hva" /\ Side(t.session) = Human
             \/ t.mode = "ava" /\ t.paused)
  <2>1. u = AiTurnStarts(t)
    BY <1>2 DEF MaybeStartAi
  <2>2. /\ x \in Searches /\ x.id = t.ids + 1 /\ x.kind = "ai" /\ x.gen = t.generation
        /\ x.on = t.session /\ x.req = NoRequest
    BY DEF Search, Searches, Screens, Kinds, Requests
  <2>3. t.analyzing = NoPly
    BY DEF Fits, CoachFits
  <2>4. u.aiSearching /\ u.aiJob = x.id /\ u.aiJob # 0
    BY <2>1, <2>2 DEF AiTurnStarts, Hand, Screens
  <2>5. t.mode = "hva" => AiOwes(t)
    BY <1>2 DEF AiOwes
  <2> HIDE DEF u, x
  <2>6. CASE t.mode = "ava"
    <3>1. u = [t EXCEPT !.aiSearching = TRUE, !.aiJob = x.id, !.thinking = TRUE,
                        !.delayed = x, !.ids = x.id]
      BY <2>1, <2>6 DEF AiTurnStarts, x, Screens
    <3>2. u \in Screens
      BY <2>2, <3>1 DEF Screens, Searches
    <3>3. /\ u.delayed = x /\ u.queue = t.queue /\ u.ids = x.id
          /\ u.session = t.session /\ u.mode = t.mode /\ u.fg = t.fg /\ u.generation = t.generation
          /\ u.comments = t.comments /\ u.cancelled = t.cancelled /\ u.truncated = t.truncated
          /\ u.pendingCoach = t.pendingCoach /\ u.lastCoachRequest = t.lastCoachRequest
          /\ u.failed = t.failed /\ u.coachJob = 0 /\ u.analyzing = NoPly
      BY <2>3, <3>1 DEF Screens
    <3>4. IsAiTurn(u, x) /\ u.fg /\ ~Over(u.session) /\ ~(u.mode = "hva")
      BY <1>2, <2>2, <2>4, <2>6, <3>3 DEF IsAiTurn
    <3>5. Fits(u, ps, TRUE)
      BY <1>2, <2>2, <2>4, <3>2, <3>3, <3>4, DelayFits
    <3> QED BY <2>4, <2>6, <3>2, <3>3, <3>5 DEF Spins, u
  <2>7. CASE t.mode # "ava"
    <3>1. u = [t EXCEPT !.aiSearching = TRUE, !.aiJob = x.id, !.thinking = TRUE,
                        !.queue = Append(t.queue, x), !.ids = x.id]
      BY <2>1, <2>7 DEF AiTurnStarts, Hand, x, Screens
    <3>2. u \in Screens
      <4>1. Append(t.queue, x) \in Seq(Searches)
        BY <2>2 DEF Screens
      <4> QED BY <2>2, <3>1, <4>1 DEF Screens, Searches
    <3>3. /\ u.queue = Append(t.queue, x) /\ u.ids = x.id /\ u.delayed = t.delayed
          /\ u.session = t.session /\ u.mode = t.mode /\ u.fg = t.fg /\ u.generation = t.generation
          /\ u.comments = t.comments /\ u.cancelled = t.cancelled /\ u.truncated = t.truncated
          /\ u.pendingCoach = t.pendingCoach /\ u.lastCoachRequest = t.lastCoachRequest
          /\ u.failed = t.failed /\ u.coachJob = 0 /\ u.analyzing = NoPly
      BY <2>3, <3>1 DEF Screens
    <3>4. IsAiTurn(u, x) /\ u.fg /\ ~Over(u.session) /\ AiOwes(u)
      BY <1>2, <2>2, <2>4, <2>5, <2>7, <3>3 DEF IsAiTurn, AiOwes, Screens
    <3>5. OfHuman(x.req) /\ OfHuman(u.pendingCoach) /\ OfHuman(u.lastCoachRequest)
      BY <2>2, <3>3 DEF OfHuman, Fits, RequestsFit
    <3>6. Fits(u, ps, TRUE)
      BY <1>2, <2>2, <2>4, <3>2, <3>3, <3>4, <3>5, HandFits
    <3> QED BY <2>4, <2>5, <2>7, <3>2, <3>3, <3>6 DEF Spins, u
  <2> QED BY <2>6, <2>7
<1> QED BY <1>1, <1>2

\* A coach analysis starts for a move of the human that the AI has answered.
LEMMA StartCoachFits ==
  ASSUME NEW t \in Screens, NEW ps, NEW req \in Requests, Fits(t, ps, TRUE), OfHuman(req),
         t.aiJob = 0, t.fg, t.mode = "hva", ~AiOwes(t), Spins(t, TRUE)
  PROVE  LET u == StartCoach(t, req) IN
           /\ u \in Screens /\ Fits(u, ps, TRUE) /\ Spins(u, TRUE)
           /\ u.session = t.session
<1> DEFINE u == StartCoach(t, req)
           c == CoachCancel([t EXCEPT !.lastCoachRequest = req])
           x == Search(c.ids + 1, "coach", 0, << >>, req)
<1>1. CASE ~StillValidIn(req, t.session)
  BY <1>1 DEF StartCoach
<1>2. CASE StillValidIn(req, t.session)
  <2>1. c = [t EXCEPT !.lastCoachRequest = req, !.cancelled = @ \cup ({t.coachJob} \ {0}),
                      !.coachJob = 0, !.analyzing = NoPly]
    BY DEF CoachCancel, Screens
  <2>2. NoPly \in 0 .. NoPly
    BY BoundsAssumption DEF NoPly
  <2> HIDE DEF c
  <2>3. c \in Screens
    BY <2>1, <2>2, ZenonT(30) DEF Screens
  <2>4. /\ c.queue = t.queue /\ c.ids = t.ids /\ c.aiJob = 0 /\ c.coachJob = 0 /\ c.analyzing = NoPly
        /\ c.cancelled = t.cancelled \cup ({t.coachJob} \ {0}) /\ c.truncated = t.truncated
        /\ c.delayed = t.delayed /\ c.comments = t.comments /\ c.failed = t.failed
        /\ c.pendingCoach = t.pendingCoach /\ c.lastCoachRequest = req
        /\ c.session = t.session /\ c.mode = t.mode /\ c.fg = t.fg /\ c.thinking = t.thinking
    BY <2>1 DEF Screens
  <2>5. c.delayed = NoSearch
    BY <2>4, DelayedFacts DEF Fits
  <2>6. RequestsFit(c, ps) /\ FailureFits(c) /\ CommentsFit(c)
    <3>1. Flying(c, ps) = Flying(t, ps)
      BY <2>4, FlightSame
    <3> QED BY <2>4, <3>1 DEF Fits, RequestsFit, FailureFits, CommentsFit, AiOwes
  <2>7. Fits(c, ps, TRUE)
    BY <2>3, <2>4, <2>5, <2>6, IdleFits
  <2>8. x \in Searches /\ x.id = c.ids + 1 /\ x.kind = "coach" /\ x.req = req
    <3>1. << >> \in Sessions
      <4>1. << >> \in Seq(Moves) /\ Len(<< >>) <= MaxPly
        BY BoundsAssumption
      <4> QED BY <4>1, SessionIsSeq
    <3>2. c.ids + 1 \in Nat
      BY <2>3 DEF Screens
    <3> QED BY <3>1, <3>2 DEF Search, Searches, Kinds
  <2>9. u = [c EXCEPT !.coachJob = x.id, !.analyzing = Ply(req), !.failed = NoPly,
                      !.queue = Append(c.queue, x), !.ids = x.id]
    BY <1>2, <2>3, <2>8 DEF StartCoach, CoachEvaluate, Hand, Screens, c, Search
  <2> HIDE DEF u, x
  <2>10. u \in Screens
    <3>1. Ply(req) \in 0 .. NoPly
      BY PreType
    <3>2. Append(c.queue, x) \in Seq(Searches)
      BY <2>3, <2>8 DEF Screens
    <3> QED BY <2>2, <2>3, <2>8, <2>9, <3>1, <3>2, ZenonT(30) DEF Screens, Searches
  <2>11. /\ u.queue = Append(c.queue, x) /\ u.ids = x.id /\ u.delayed = c.delayed
         /\ u.session = c.session /\ u.mode = c.mode /\ u.fg = c.fg /\ u.generation = c.generation
         /\ u.comments = c.comments /\ u.cancelled = c.cancelled /\ u.truncated = c.truncated
         /\ u.pendingCoach = c.pendingCoach /\ u.lastCoachRequest = c.lastCoachRequest
         /\ u.failed = NoPly /\ u.coachJob = x.id /\ u.aiJob = 0 /\ u.thinking = c.thinking
    BY <2>3, <2>4, <2>9 DEF Screens
  <2>12. u.fg /\ u.mode = "hva" /\ ~AiOwes(u)
    BY <2>4, <2>11 DEF AiOwes
  <2>13. OfHuman(x.req) /\ OfHuman(u.pendingCoach) /\ OfHuman(u.lastCoachRequest)
    BY <2>4, <2>8, <2>11 DEF Fits, RequestsFit
  <2>14. Fits(u, ps, TRUE)
    BY <2>3, <2>4, <2>7, <2>8, <2>10, <2>11, <2>12, <2>13, HandFits
  <2> QED BY <2>4, <2>10, <2>11, <2>14 DEF Spins, u
<1> QED BY <1>1, <1>2

\* startPendingCoach() keeps the invariant of a screen on which no turn of the
\* AI is on and none is due, unless a search for one is still under way.
LEMMA StartPendingCoachFits ==
  ASSUME NEW t \in Screens, NEW ps, Fits(t, ps, TRUE), Spins(t, TRUE),
         ~t.aiSearching => t.aiJob = 0 /\ ~AiOwes(t)
  PROVE  LET u == StartPendingCoach(t) IN
           /\ u \in Screens /\ Fits(u, ps, TRUE) /\ Spins(u, TRUE)
           /\ u.session = t.session
<1>1. CASE t.pendingCoach = NoRequest \/ ~t.fg \/ t.aiSearching
  BY <1>1 DEF StartPendingCoach
<1>2. CASE ~(t.pendingCoach = NoRequest \/ ~t.fg \/ t.aiSearching)
  <2> DEFINE v == [t EXCEPT !.pendingCoach = NoRequest]
  <2>1. StartPendingCoach(t) = StartCoach(v, t.pendingCoach)
    BY <1>2 DEF StartPendingCoach
  <2>2. v \in Screens /\ v.queue = t.queue
    BY DEF Screens, Requests
  <2>3. /\ v.session = t.session /\ v.mode = t.mode /\ v.fg = t.fg /\ v.generation = t.generation
        /\ v.comments = t.comments /\ v.aiJob = t.aiJob /\ v.delayed = t.delayed /\ v.ids = t.ids
        /\ v.pendingCoach = NoRequest /\ v.lastCoachRequest = t.lastCoachRequest
        /\ v.coachJob = t.coachJob /\ v.analyzing = t.analyzing /\ v.failed = t.failed
        /\ v.cancelled = t.cancelled /\ v.truncated = t.truncated /\ v.thinking = t.thinking
    BY DEF Screens
  <2>4. t.mode = "hva" /\ OfHuman(t.pendingCoach) /\ t.pendingCoach \in Requests
    BY <1>2 DEF Fits, RequestsFit, Screens
  <2> HIDE DEF v
  <2>5. OfHuman(v.pendingCoach) /\ OfHuman(v.lastCoachRequest)
    BY <2>3 DEF OfHuman, Fits, RequestsFit
  <2>6. AiOwes(v) <=> AiOwes(t)
    BY <2>3 DEF AiOwes
  <2>11. Fits(v, ps, TRUE) /\ Spins(v, TRUE)
    <3>1. Fits(v, ps, TRUE)
      BY <2>2, <2>3, <2>5, AskFits
    <3> QED BY <2>3, <3>1 DEF Spins
  <2>12. v.aiJob = 0 /\ v.fg /\ v.mode = "hva" /\ ~AiOwes(v)
    BY <1>2, <2>3, <2>4, <2>6
  <2>13. LET u == StartCoach(v, t.pendingCoach) IN
           /\ u \in Screens /\ Fits(u, ps, TRUE) /\ Spins(u, TRUE)
           /\ u.session = v.session
    BY <2>2, <2>4, <2>11, <2>12, StartCoachFits
  <2> QED BY <2>1, <2>3, <2>13
<1> QED BY <1>1, <1>2

\* What cancelling both jobs cancels, and what engine.stop() cuts short.
Gone(t) == (({t.coachJob} \ {0}) \cup (IF t.delayed = NoSearch THEN {t.aiJob} \ {0} ELSE {}))
Cut(t) == {search.id : search \in Range(t.queue)}
Idles(u) == u.aiJob = 0 /\ u.coachJob = 0 /\ u.delayed = NoSearch /\ u.analyzing = NoPly

\* Both are sets of numbers.
LEMMA GoneType ==
  ASSUME NEW t \in Screens
  PROVE  Gone(t) \subseteq Nat /\ Cut(t) \subseteq Nat
<1>1. t.queue \in Seq(Searches)
  BY DEF Screens
<1>2. \A i \in DOMAIN t.queue : t.queue[i] \in Searches
  BY <1>1
<1>3. Cut(t) \subseteq Nat
  BY <1>2 DEF Range, Searches, Cut
<1>4. Gone(t) \subseteq Nat
  BY DEF Gone, Screens
<1> QED BY <1>3, <1>4

\* No search, no ply, no request, no move.
LEMMA Nothing ==
  /\ NoSearch \in Searches /\ NoPly \in 0 .. NoPly /\ NoRequest \in Requests /\ << >> \in Sessions
<1>1. << >> \in Sessions
  <2>1. << >> \in Seq(Moves) /\ Len(<< >>) <= MaxPly
    BY BoundsAssumption
  <2> QED BY <2>1, SessionIsSeq
<1>2. NoPly \in 0 .. NoPly /\ NoRequest \in Requests
  BY BoundsAssumption DEF NoPly, Requests
<1>3. NoSearch \in Searches
  BY <1>1, <1>2 DEF NoSearch, Search, Searches, Kinds
<1> QED BY <1>1, <1>2, <1>3

\* Cancelling both jobs keeps the invariant, with engine.stop() or without.
LEMMA QuietFits ==
  ASSUME NEW t \in Screens, NEW u \in Screens, NEW ps, NEW al, NEW al2, Fits(t, ps, al),
         u.queue = t.queue, u.ids = t.ids, Idles(u),
         u.cancelled = t.cancelled \cup Gone(t),
         u.truncated \in {t.truncated, t.truncated \cup Cut(t)},
         RequestsFit(u, ps), FailureFits(u), CommentsFit(u)
  PROVE  Fits(u, ps, al2)
<1>1. t.delayed = NoSearch /\ t.aiJob # 0 => t.aiJob \in u.cancelled
  BY DEF Gone
<1>2. \A n \in u.cancelled : \/ n \in t.cancelled
                             \/ n # 0 /\ n = t.aiJob /\ t.delayed = NoSearch
                             \/ n # 0 /\ n = t.coachJob
  BY DEF Gone
<1>3. \A n \in u.truncated : n \in t.truncated \/ \E x \in Range(t.queue) : x.id = n
  BY DEF Cut
<1> QED BY <1>1, <1>2, <1>3, IdleFits DEF Idles

\* The fields that no cancellation touches.
Kept(u, t) ==
  /\ u.queue = t.queue /\ u.ids = t.ids /\ u.mode = t.mode /\ u.session = t.session
  /\ u.pendingCoach = t.pendingCoach /\ u.lastCoachRequest = t.lastCoachRequest
  /\ u.fg = t.fg /\ u.paused = t.paused /\ u.generation = t.generation
  /\ u.thinking = t.thinking /\ u.comments = t.comments /\ u.failed = t.failed

\* coach.cancel(), aiJob.cancel() and engine.stop(), field by field.
LEMMA CoachCancelFields ==
  ASSUME NEW t \in Screens
  PROVE  LET u == CoachCancel(t) IN
           /\ u \in Screens /\ Kept(u, t) /\ u.truncated = t.truncated
           /\ u.aiJob = t.aiJob /\ u.delayed = t.delayed /\ u.aiSearching = t.aiSearching
           /\ u.coachJob = 0 /\ u.analyzing = NoPly
           /\ u.cancelled = t.cancelled \cup ({t.coachJob} \ {0})
<1> DEFINE u == CoachCancel(t)
<1>1. u = [t EXCEPT !.cancelled = @ \cup ({t.coachJob} \ {0}), !.coachJob = 0, !.analyzing = NoPly]
  BY DEF CoachCancel
<1> HIDE DEF u
<1>2. u \in Screens
  BY <1>1, GoneType, Nothing DEF Screens
<1>3. Kept(u, t) /\ u.truncated = t.truncated
  BY <1>1 DEF Screens, Kept
<1>4. /\ u.aiJob = t.aiJob /\ u.delayed = t.delayed /\ u.aiSearching = t.aiSearching
      /\ u.coachJob = 0 /\ u.analyzing = NoPly
      /\ u.cancelled = t.cancelled \cup ({t.coachJob} \ {0})
  BY <1>1 DEF Screens
<1> QED BY <1>2, <1>3, <1>4 DEF u

\* aiJob?.cancel(), field by field.
LEMMA CancelAiFields ==
  ASSUME NEW t \in Screens
  PROVE  LET u == CancelAi(t) IN
           /\ u \in Screens /\ Kept(u, t) /\ u.truncated = t.truncated
           /\ u.aiJob = 0 /\ u.delayed = NoSearch
           /\ u.coachJob = t.coachJob /\ u.analyzing = t.analyzing
           /\ u.cancelled = t.cancelled \cup (IF t.delayed = NoSearch THEN {t.aiJob} \ {0} ELSE {})
<1> DEFINE u == CancelAi(t)
           spin == IF t.delayed = NoSearch THEN t.aiSearching ELSE FALSE
           add == IF t.delayed = NoSearch THEN {t.aiJob} \ {0} ELSE {}
<1>1. u = [t EXCEPT !.cancelled = @ \cup add, !.aiJob = 0, !.delayed = NoSearch,
                    !.aiSearching = spin]
  BY DEF CancelAi
<1>2. spin \in BOOLEAN /\ add \subseteq Nat
  BY DEF Screens
<1> HIDE DEF u, spin, add
<1>3. u \in Screens
  BY <1>1, <1>2, GoneType, Nothing DEF Screens
<1>4. Kept(u, t) /\ u.truncated = t.truncated
  BY <1>1 DEF Screens, Kept
<1>5. /\ u.aiJob = 0 /\ u.delayed = NoSearch
      /\ u.coachJob = t.coachJob /\ u.analyzing = t.analyzing
      /\ u.cancelled = t.cancelled \cup add
  BY <1>1 DEF Screens
<1> QED BY <1>3, <1>4, <1>5 DEF u, add

\* engine.stop(), field by field.
LEMMA StopFields ==
  ASSUME NEW t \in Screens
  PROVE  LET u == Stop(t) IN
           /\ u \in Screens /\ Kept(u, t) /\ u.truncated = t.truncated \cup Cut(t)
           /\ u.aiJob = t.aiJob /\ u.delayed = t.delayed /\ u.aiSearching = t.aiSearching
           /\ u.coachJob = t.coachJob /\ u.analyzing = t.analyzing /\ u.cancelled = t.cancelled
<1> DEFINE u == Stop(t)
<1>1. u = [t EXCEPT !.truncated = @ \cup Cut(t)]
  BY DEF Stop, Cut
<1> HIDE DEF u
<1>2. u \in Screens
  BY <1>1, GoneType, Nothing DEF Screens
<1>3. Kept(u, t) /\ u.truncated = t.truncated \cup Cut(t)
  BY <1>1 DEF Screens, Kept
<1>4. /\ u.aiJob = t.aiJob /\ u.delayed = t.delayed /\ u.aiSearching = t.aiSearching
      /\ u.coachJob = t.coachJob /\ u.analyzing = t.analyzing /\ u.cancelled = t.cancelled
  BY <1>1 DEF Screens
<1> QED BY <1>2, <1>3, <1>4 DEF u

\* pauseEngine() and onCleared() keep all but the jobs.
LEMMA PauseFields ==
  ASSUME NEW t \in Screens
  PROVE  LET u == Stop(CoachCancel(CancelAi(t))) IN
           /\ u \in Screens /\ Kept(u, t) /\ Idles(u)
           /\ u.cancelled = t.cancelled \cup Gone(t) /\ u.truncated = t.truncated \cup Cut(t)
<1> DEFINE a == CancelAi(t)
           b == CoachCancel(a)
           c == Stop(b)
<1>1. /\ a \in Screens /\ Kept(a, t) /\ a.truncated = t.truncated
      /\ a.aiJob = 0 /\ a.delayed = NoSearch /\ a.coachJob = t.coachJob
      /\ a.cancelled = t.cancelled \cup (IF t.delayed = NoSearch THEN {t.aiJob} \ {0} ELSE {})
  BY CancelAiFields
<1> HIDE DEF a
<1>2. /\ b \in Screens /\ Kept(b, a) /\ b.truncated = a.truncated
      /\ b.aiJob = 0 /\ b.delayed = NoSearch /\ b.coachJob = 0 /\ b.analyzing = NoPly
      /\ b.cancelled = a.cancelled \cup ({a.coachJob} \ {0})
  BY <1>1, CoachCancelFields
<1> HIDE DEF b
<1>3. /\ c \in Screens /\ Kept(c, b) /\ c.truncated = b.truncated \cup Cut(b)
      /\ c.aiJob = 0 /\ c.delayed = NoSearch /\ c.coachJob = 0 /\ c.analyzing = NoPly
      /\ c.cancelled = b.cancelled
  BY <1>2, StopFields
<1> HIDE DEF c
<1>4. Kept(c, t) /\ Cut(b) = Cut(t)
  BY <1>1, <1>2, <1>3 DEF Kept, Cut
<1>5. c.cancelled = t.cancelled \cup Gone(t) /\ c.truncated = t.truncated \cup Cut(t)
  BY <1>1, <1>2, <1>3, <1>4 DEF Gone
<1> QED BY <1>3, <1>4, <1>5 DEF Idles, a, b, c

\* pauseEngine(), when the screen is left or paused, and onCleared().
LEMMA PauseFits ==
  ASSUME NEW t \in Screens, NEW v \in Screens, NEW ps, NEW al, NEW al2, Fits(t, ps, al),
         \/ v = t \/ v = [t EXCEPT !.fg = FALSE] \/ v = [t EXCEPT !.paused = ~@]
  PROVE  /\ LET u == Stop(CoachCancel(CancelAi(v))) IN
              u \in Screens /\ Fits(u, ps, al2) /\ u.session = t.session
         /\ LET u == PauseEngine(v) IN
              u \in Screens /\ Fits(u, ps, al2) /\ Spins(u, al2) /\ u.session = t.session
<1> DEFINE u == Stop(CoachCancel(CancelAi(v)))
           w == PauseEngine(v)
<1>1. /\ v.queue = t.queue /\ v.ids = t.ids /\ v.mode = t.mode /\ v.session = t.session
      /\ v.pendingCoach = t.pendingCoach /\ v.lastCoachRequest = t.lastCoachRequest
      /\ v.comments = t.comments /\ v.failed = t.failed
      /\ v.cancelled = t.cancelled /\ v.truncated = t.truncated
      /\ v.aiJob = t.aiJob /\ v.coachJob = t.coachJob /\ v.delayed = t.delayed
  BY DEF Screens
<1>2. Gone(v) = Gone(t) /\ Cut(v) = Cut(t)
  BY <1>1 DEF Gone, Cut
<1>3. /\ u \in Screens /\ Kept(u, v) /\ Idles(u)
      /\ u.cancelled = v.cancelled \cup Gone(v) /\ u.truncated = v.truncated \cup Cut(v)
  BY PauseFields
<1>4. w = [u EXCEPT !.thinking = FALSE]
  BY DEF PauseEngine
<1> HIDE DEF u, w
<1>5. /\ w \in Screens /\ w.thinking = FALSE /\ Idles(w)
      /\ w.queue = u.queue /\ w.ids = u.ids /\ w.mode = u.mode /\ w.session = u.session
      /\ w.pendingCoach = u.pendingCoach /\ w.lastCoachRequest = u.lastCoachRequest
      /\ w.comments = u.comments /\ w.failed = u.failed
      /\ w.cancelled = u.cancelled /\ w.truncated = u.truncated
  BY <1>3, <1>4, ZenonT(30) DEF Screens, Idles
<1>6. ASSUME NEW x \in {u, w} PROVE Fits(x, ps, al2) /\ x.session = t.session
  <2>1. /\ x \in Screens /\ Idles(x) /\ x.queue = t.queue /\ x.ids = t.ids /\ x.mode = t.mode
        /\ x.session = t.session
        /\ x.pendingCoach = t.pendingCoach /\ x.lastCoachRequest = t.lastCoachRequest
        /\ x.comments = t.comments /\ x.failed = t.failed
        /\ x.cancelled = t.cancelled \cup Gone(t) /\ x.truncated = t.truncated \cup Cut(t)
    BY <1>1, <1>2, <1>3, <1>5 DEF Kept
  <2>2. Flying(x, ps) = Flying(t, ps)
    BY <2>1, FlightSame
  <2>3. RequestsFit(x, ps) /\ CommentsFit(x) /\ FailureFits(x)
    BY <2>1, <2>2 DEF Fits, RequestsFit, CommentsFit, FailureFits, AiOwes
  <2> QED BY <2>1, <2>3, QuietFits
<1>7. Fits(u, ps, al2) /\ u.session = t.session /\ Fits(w, ps, al2) /\ w.session = t.session
  BY <1>6
<1> QED BY <1>3, <1>5, <1>7 DEF Spins, u, w

\* setSession() after coach.cancel(): no job is on, the verdicts are those of
\* moves that are still played.
LEMMA SetSessionFits ==
  ASSUME NEW t \in Screens, NEW ps, NEW g \in Sessions, Fits(t, ps, TRUE),
         \A c \in t.comments : Ply(c) < Len(g) => StillValidIn(c, g),
         (/\ t.mode = "hva" /\ Side(g) # Human /\ ~Over(g)
          /\ t.failed # NoPly /\ t.failed < Len(g)) => t.failed + 1 < Len(g)
  PROVE  LET u == SetSession(CoachCancel(t), g) IN
           /\ u \in Screens /\ Fits(u, ps, TRUE) /\ Spins(u, TRUE)
           /\ u.session = g /\ u.aiJob = 0 /\ u.coachJob = 0 /\ u.mode = t.mode
           /\ u.pendingCoach = t.pendingCoach
<1> DEFINE b == CoachCancel(t)
           c == [b EXCEPT !.generation = @ + 1]
           d == CancelAi(c)
           e == Stop(d)
           f == CoachSync(e, g)
           u == SetSession(CoachCancel(t), g)
           kept == {r \in t.comments : Ply(r) < Len(g)}
           still == IF t.failed < Len(g) THEN t.failed ELSE NoPly
<1>1. /\ b \in Screens /\ Kept(b, t) /\ b.truncated = t.truncated
      /\ b.aiJob = t.aiJob /\ b.delayed = t.delayed /\ b.coachJob = 0 /\ b.analyzing = NoPly
      /\ b.cancelled = t.cancelled \cup ({t.coachJob} \ {0})
  BY CoachCancelFields
<1>2. u = [f EXCEPT !.session = g, !.thinking = FALSE]
  BY DEF SetSession
<1> HIDE DEF b, u
<1>3. c \in Screens
  <2>1. b.generation + 1 \in Nat
    BY <1>1 DEF Screens
  <2> QED BY <1>1, <2>1, ZenonT(30) DEF Screens
<1>4. /\ c.truncated = b.truncated /\ c.cancelled = b.cancelled
      /\ c.aiJob = b.aiJob /\ c.delayed = b.delayed /\ c.coachJob = 0 /\ c.analyzing = NoPly
      /\ c.queue = b.queue /\ c.ids = b.ids /\ c.mode = b.mode /\ c.session = b.session
      /\ c.pendingCoach = b.pendingCoach /\ c.lastCoachRequest = b.lastCoachRequest
      /\ c.comments = b.comments /\ c.failed = b.failed
  BY <1>1 DEF Screens
<1> HIDE DEF c
<1>5. /\ d \in Screens /\ Kept(d, c) /\ d.truncated = c.truncated
      /\ d.aiJob = 0 /\ d.delayed = NoSearch /\ d.coachJob = 0 /\ d.analyzing = NoPly
      /\ d.cancelled = c.cancelled \cup (IF c.delayed = NoSearch THEN {c.aiJob} \ {0} ELSE {})
  BY <1>3, <1>4, CancelAiFields
<1> HIDE DEF d
<1>6. /\ e \in Screens /\ Kept(e, d) /\ e.truncated = d.truncated \cup Cut(d)
      /\ e.aiJob = 0 /\ e.delayed = NoSearch /\ e.coachJob = 0 /\ e.analyzing = NoPly
      /\ e.cancelled = d.cancelled
  BY <1>5, StopFields
<1> HIDE DEF e
<1>7. /\ e.queue = t.queue /\ e.ids = t.ids /\ e.mode = t.mode
      /\ e.pendingCoach = t.pendingCoach /\ e.lastCoachRequest = t.lastCoachRequest
      /\ e.comments = t.comments /\ e.failed = t.failed
      /\ e.cancelled = t.cancelled \cup Gone(t) /\ e.truncated = t.truncated \cup Cut(t)
  <2>1. /\ d.queue = t.queue /\ d.ids = t.ids /\ d.mode = t.mode
        /\ d.pendingCoach = t.pendingCoach /\ d.lastCoachRequest = t.lastCoachRequest
        /\ d.comments = t.comments /\ d.failed = t.failed
        /\ d.cancelled = t.cancelled \cup Gone(t) /\ d.truncated = t.truncated
    BY <1>1, <1>4, <1>5 DEF Kept, Gone
  <2>2. Cut(d) = Cut(t)
    BY <2>1 DEF Cut
  <2> QED BY <1>6, <2>1, <2>2 DEF Kept
<1>8. f = [e EXCEPT !.comments = kept, !.failed = still]
  BY <1>6, <1>7 DEF CoachSync
<1>9. kept \subseteq Requests /\ still \in 0 .. NoPly
  BY GoneType, Nothing DEF Screens
<1> HIDE DEF f, kept, still
<1>10. /\ f \in Screens /\ f.comments = kept /\ f.failed = still /\ Idles(f)
       /\ f.queue = t.queue /\ f.ids = t.ids /\ f.mode = t.mode
       /\ f.pendingCoach = t.pendingCoach /\ f.lastCoachRequest = t.lastCoachRequest
       /\ f.cancelled = t.cancelled \cup Gone(t) /\ f.truncated = t.truncated \cup Cut(t)
  BY <1>6, <1>7, <1>8, <1>9 DEF Screens, Idles
<1>11. /\ u \in Screens /\ u.comments = kept /\ u.failed = still /\ Idles(u)
       /\ u.queue = t.queue /\ u.ids = t.ids /\ u.mode = t.mode
       /\ u.pendingCoach = t.pendingCoach /\ u.lastCoachRequest = t.lastCoachRequest
       /\ u.cancelled = t.cancelled \cup Gone(t) /\ u.truncated = t.truncated \cup Cut(t)
       /\ u.session = g /\ u.thinking = FALSE
  BY <1>2, <1>10 DEF Screens, Idles
<1>12. Flying(u, ps) = Flying(t, ps)
  BY <1>11, FlightSame
<1>13. RequestsFit(u, ps) /\ CommentsFit(u)
  BY <1>11, <1>12 DEF Fits, RequestsFit, CommentsFit, kept
<1>14. FailureFits(u)
  <2> SUFFICES ASSUME u.failed # NoPly
               PROVE  u.failed < Len(g) /\ (AiOwes(u) => u.failed + 1 < Len(g))
    BY <1>11 DEF FailureFits
  <2>1. u.failed = t.failed /\ t.failed < Len(g)
    BY <1>11 DEF still
  <2>2. AiOwes(u) => t.mode = "hva" /\ Side(g) # Human /\ ~Over(g)
    BY <1>11 DEF AiOwes
  <2> QED BY <2>1, <2>2
<1>15. Fits(u, ps, TRUE)
  BY <1>11, <1>13, <1>14, QuietFits
<1> QED BY <1>11, <1>15 DEF Spins, Idles, u

-----------------------------------------------------------------------------
(* The user's actions *)

\* A user action finds a screen that is on, and leaves what was posted.
LEMMA UserActsFacts ==
  ASSUME IInv, UserActs
  PROVE  /\ s \in Screens /\ Fits(s, posts, TRUE) /\ Spins(s, TRUE) /\ s.fg = TRUE
         /\ alive = TRUE /\ posts' = posts /\ alive' = TRUE /\ acts' \in Nat /\ acts' # acts
<1>1. alive = TRUE /\ s \in Screens
  BY DEF IInv, Fits, UserActs
<1>2. Fits(s, posts, TRUE) /\ Spins(s, TRUE)
  BY <1>1 DEF IInv
<1>3. s.fg = TRUE
  BY <1>1 DEF UserActs, Screens
<1>4. posts' = posts /\ alive' = TRUE
  BY <1>1 DEF UserActs
<1>5. acts \in Nat /\ acts' = acts + 1
  BY DEF IInv, UserActs
<1>6. acts' \in Nat /\ acts' # acts
  BY <1>5
<1> QED BY <1>1, <1>2, <1>3, <1>4, <1>6

\* The human's move: a verdict stays valid, and so does a failure.
LEMMA PlayHumanInv ==
  ASSUME IInv, NEW m \in Moves, PlayHuman(m)
  PROVE  IInv'
<1> DEFINE g == Append(s.session, m)
           req == [pre |-> s.session, move |-> m]
           a == SetSession(CoachCancel(s), g)
           b == [a EXCEPT !.pendingCoach = req]
<1>1. /\ s \in Screens /\ Fits(s, posts, TRUE) /\ alive = TRUE /\ posts' = posts /\ alive' = TRUE
      /\ acts' \in Nat /\ s.mode = "hva" /\ Side(s.session) = Human /\ ~Over(s.session)
      /\ s' = PlayHumanMove(s, m)
  BY UserActsFacts DEF PlayHuman, HumanTurn
<1>2. s.session \in Sessions /\ s.failed \in 0 .. NoPly
  BY <1>1 DEF Screens
<1>3. g \in Sessions /\ Len(g) = Len(s.session) + 1 /\ Len(s.session) \in Nat
  BY <1>1, <1>2, AppendSession, SessionIsSeq
<1>4. \A c \in s.comments : StillValidIn(c, g)
  <2>1. s.comments \subseteq Requests
    BY <1>1 DEF Screens
  <2> QED BY <1>1, <1>2, <2>1, ValidAppend DEF Fits, CommentsFit
<1>5. s.failed # NoPly => s.failed + 1 < Len(g)
  BY <1>1, <1>2, <1>3 DEF Fits, FailureFits
<1> HIDE DEF g
<1>6. /\ a \in Screens /\ Fits(a, posts, TRUE) /\ Spins(a, TRUE)
      /\ a.session = g /\ a.aiJob = 0 /\ a.coachJob = 0 /\ a.mode = "hva"
  BY <1>1, <1>3, <1>4, <1>5, SetSessionFits
<1> HIDE DEF a
<1>7. req \in Requests /\ OfHuman(req)
  BY <1>1, <1>2 DEF Requests, OfHuman
<1> HIDE DEF req
<1>8. b \in Screens /\ b.queue = a.queue
  BY <1>6, <1>7 DEF Screens
<1>9. /\ b.session = g /\ b.mode = "hva" /\ b.fg = a.fg /\ b.generation = a.generation
      /\ b.comments = a.comments /\ b.aiJob = 0 /\ b.delayed = a.delayed /\ b.ids = a.ids
      /\ b.pendingCoach = req /\ b.lastCoachRequest = a.lastCoachRequest
      /\ b.coachJob = 0 /\ b.analyzing = a.analyzing /\ b.failed = a.failed
      /\ b.cancelled = a.cancelled /\ b.truncated = a.truncated /\ b.thinking = a.thinking
  BY <1>6 DEF Screens
<1> HIDE DEF b
<1>11. Fits(b, posts, TRUE) /\ Spins(b, TRUE)
  <2>1. OfHuman(b.pendingCoach) /\ OfHuman(b.lastCoachRequest)
    BY <1>6, <1>7, <1>9 DEF Fits, RequestsFit
  <2>2. Fits(b, posts, TRUE)
    BY <1>6, <1>8, <1>9, <2>1, AskFits
  <2> QED BY <1>6, <1>9, <2>2 DEF Spins
<1>12. s' \in Screens /\ Fits(s', posts, TRUE) /\ Spins(s', TRUE)
  <2>1. s' = IF Over(g) THEN StartPendingCoach(b) ELSE MaybeStartAi(b)
    BY <1>1 DEF PlayHumanMove, b, a, g, req
  <2>2. CASE Over(g)
    <3>1. ~AiOwes(b)
      BY <1>9, <2>2 DEF AiOwes
    <3> QED BY <1>8, <1>9, <1>11, <2>1, <2>2, <3>1, StartPendingCoachFits
  <2>3. CASE ~Over(g)
    BY <1>8, <1>9, <1>11, <2>1, <2>3, MaybeStartAiFits
  <2> QED BY <2>2, <2>3
<1> QED BY <1>1, <1>12 DEF IInv

\* The start of a game keeps the verdicts of its moves.
LEMMA PrefixKeeps ==
  ASSUME NEW t \in Screens, NEW n \in 0 .. Len(t.session), CommentsFit(t)
  PROVE  /\ SubSeq(t.session, 1, n) \in Sessions /\ Len(SubSeq(t.session, 1, n)) = n
         /\ \A c \in t.comments : Ply(c) < n => StillValidIn(c, SubSeq(t.session, 1, n))
<1>1. t.session \in Sessions /\ t.comments \subseteq Requests
  BY DEF Screens
<1> QED BY <1>1, PrefixSession, ValidPrefix DEF CommentsFit

\* Undo: what remains is a start of the game, at the human's turn or empty.
LEMMA UndoInv ==
  ASSUME IInv, Undo
  PROVE  IInv'
<1> DEFINE n == Len(s.session)
           one == SubSeq(s.session, 1, n - 1)
           g == IF s.mode = "hva" /\ Side(one) # Human /\ one # << >>
                  THEN SubSeq(one, 1, Len(one) - 1) ELSE one
           t == [s EXCEPT !.pendingCoach = NoRequest]
           a == SetSession(CoachCancel(t), g)
<1>1. /\ s \in Screens /\ Fits(s, posts, TRUE) /\ alive = TRUE /\ posts' = posts /\ alive' = TRUE
      /\ acts' \in Nat /\ s.session # << >> /\ s' = TakeBack(s)
  BY UserActsFacts DEF Undo
<1>2. s.session \in Sessions /\ s.session \in Seq(Moves) /\ n \in Nat /\ n > 0
  BY <1>1, SessionIsSeq DEF Screens
<1>3. one \in Sessions /\ Len(one) = n - 1 /\ n - 1 \in 0 .. n
  <2>1. n - 1 \in 0 .. n /\ n - 1 \in 0 .. Len(s.session)
    BY <1>2
  <2> QED BY <1>2, <2>1, PrefixSession
<1>4. PICK k \in 0 .. n : g = SubSeq(s.session, 1, k) /\ Len(g) = k
                          /\ (s.mode = "hva" => Side(g) = Human \/ k = 0)
  <2>1. CASE ~(s.mode = "hva" /\ Side(one) # Human /\ one # << >>)
    <3>1. g = one
      BY <2>1
    <3>2. one = << >> => Len(one) = 0
      BY SMTT(30)
    <3> QED BY <1>3, <2>1, <3>1, <3>2
  <2>2. CASE s.mode = "hva" /\ Side(one) # Human /\ one # << >>
    <3>1. one \in Seq(Moves) /\ n - 1 > 0
      BY <1>2, <1>3, <2>2, SessionIsSeq
    <3>2. n - 2 \in 0 .. n /\ n - 2 \in 0 .. n - 1 /\ (n - 1) - 1 = n - 2
      BY <1>2, <1>3, <3>1
    <3>3. g = SubSeq(one, 1, n - 2)
      BY <1>3, <2>2, <3>2
    <3>4. g = SubSeq(s.session, 1, n - 2) /\ Len(g) = n - 2 /\ g \in Sessions
      <4>1. SubSeq(one, 1, n - 2) = SubSeq(s.session, 1, n - 2)
        BY <1>2, <1>3, <3>2, PrefixOfPrefix
      <4>2. SubSeq(s.session, 1, n - 2) \in Sessions /\ Len(SubSeq(s.session, 1, n - 2)) = n - 2
        BY <1>2, <3>2, PrefixSession
      <4> HIDE DEF g, one
      <4> QED BY <3>3, <4>1, <4>2
    <3>5. Side(g) = Human
      <4>1. Len(one) = Len(g) + 1
        BY <1>2, <1>3, <3>4
      <4>2. Side(one) # Side(g) /\ Side(g) \in {"cho", "han"} /\ Side(one) \in {"cho", "han"}
        BY <1>3, <3>4, <4>1, SideAlternates DEF Side
      <4> QED BY <2>2, <4>2, SidesAssumption
    <3> QED BY <3>2, <3>4, <3>5
  <2> QED BY <2>1, <2>2
<1> HIDE DEF g
<1>5. t \in Screens /\ t.queue = s.queue
  BY <1>1, GoneType, Nothing DEF Screens
<1>6. /\ t.session = s.session /\ t.mode = s.mode /\ t.fg = s.fg /\ t.generation = s.generation
      /\ t.comments = s.comments /\ t.aiJob = s.aiJob /\ t.delayed = s.delayed /\ t.ids = s.ids
      /\ t.pendingCoach = NoRequest /\ t.lastCoachRequest = s.lastCoachRequest
      /\ t.coachJob = s.coachJob /\ t.analyzing = s.analyzing /\ t.failed = s.failed
      /\ t.cancelled = s.cancelled /\ t.truncated = s.truncated
  BY <1>1 DEF Screens
<1> HIDE DEF t
<1>7. Fits(t, posts, TRUE)
  <2>1. OfHuman(t.pendingCoach) /\ OfHuman(t.lastCoachRequest)
    BY <1>1, <1>6 DEF Fits, RequestsFit, OfHuman
  <2> QED BY <1>1, <1>5, <1>6, <2>1, AskFits
<1>8. /\ g \in Sessions /\ \A c \in t.comments : Ply(c) < Len(g) => StillValidIn(c, g)
  <2>1. CommentsFit(t)
    BY <1>7 DEF Fits
  <2> QED BY <1>4, <1>5, <1>6, <2>1, PrefixKeeps
<1>9. (/\ t.mode = "hva" /\ Side(g) # Human /\ ~Over(g) /\ t.failed # NoPly /\ t.failed < Len(g))
         => t.failed + 1 < Len(g)
  <2>1. t.failed \in Nat
    BY <1>5 DEF Screens
  <2>2. t.mode = "hva" /\ Side(g) # Human => Len(g) = 0
    BY <1>4, <1>6
  <2> QED BY <2>1, <2>2
<1>10. /\ a \in Screens /\ Fits(a, posts, TRUE) /\ Spins(a, TRUE)
       /\ a.session = g /\ a.aiJob = 0 /\ a.coachJob = 0
  BY <1>5, <1>7, <1>8, <1>9, SetSessionFits
<1>11. s' = MaybeStartAi(a)
  BY <1>1 DEF TakeBack, a, g, t
<1> HIDE DEF a
<1>12. s' \in Screens /\ Fits(s', posts, TRUE) /\ Spins(s', TRUE)
  BY <1>10, <1>11, MaybeStartAiFits
<1> QED BY <1>1, <1>12 DEF IInv

\* An empty game has no verdict and no failure.
LEMMA EmptyGame ==
  ~Over(<< >>) /\ Side(<< >>) = "cho"
<1>1. Len(<< >>) = 0 /\ 0 % 2 = 0
  OBVIOUS
<1> QED BY <1>1 DEF Over, Side

\* A new game: newGame() goes to the engine before the first turn of the AI.
LEMMA NewGameInv ==
  ASSUME IInv, NEW mode \in {"hva", "ava"}, NewGame(mode)
  PROVE  IInv'
<1> DEFINE p == [s EXCEPT !.generation = @ + 1]
           q == CancelAi(p)
           a == Stop(q)
           r == [a EXCEPT !.pendingCoach = NoRequest, !.lastCoachRequest = NoRequest]
           b == CoachCancel(r)
           x == Search(b.ids + 1, "newGame", 0, << >>, NoRequest)
           c == Hand(b, x)
           d == [c EXCEPT !.comments = {}, !.failed = NoPly, !.session = << >>,
                          !.mode = mode, !.paused = FALSE, !.thinking = FALSE]
           e == [b EXCEPT !.comments = {}, !.failed = NoPly, !.session = << >>,
                          !.mode = mode, !.paused = FALSE, !.thinking = FALSE]
<1>1. /\ s \in Screens /\ Fits(s, posts, TRUE) /\ alive = TRUE /\ posts' = posts /\ alive' = TRUE
      /\ acts' \in Nat /\ s' = StartNewGame(s, mode)
  BY UserActsFacts DEF NewGame
<1>2. s' = MaybeStartAi(d)
  BY <1>1 DEF StartNewGame
<1>3. p \in Screens
  <2>1. s.generation + 1 \in Nat
    BY <1>1 DEF Screens
  <2> QED BY <1>1, <2>1 DEF Screens
<1>4. /\ p.queue = s.queue /\ p.ids = s.ids /\ p.aiJob = s.aiJob /\ p.coachJob = s.coachJob
      /\ p.delayed = s.delayed /\ p.cancelled = s.cancelled /\ p.truncated = s.truncated
  BY <1>1 DEF Screens
<1> HIDE DEF p
<1>5. /\ q \in Screens /\ Kept(q, p) /\ q.truncated = p.truncated
      /\ q.aiJob = 0 /\ q.delayed = NoSearch /\ q.coachJob = p.coachJob
      /\ q.cancelled = p.cancelled \cup (IF p.delayed = NoSearch THEN {p.aiJob} \ {0} ELSE {})
  BY <1>3, CancelAiFields
<1> HIDE DEF q
<1>6. /\ a \in Screens /\ Kept(a, q) /\ a.truncated = q.truncated \cup Cut(q)
      /\ a.aiJob = 0 /\ a.delayed = NoSearch /\ a.coachJob = q.coachJob
      /\ a.cancelled = q.cancelled
  BY <1>5, StopFields
<1> HIDE DEF a
<1>7. r \in Screens
  BY <1>6, GoneType, Nothing DEF Screens
<1>8. /\ r.queue = a.queue /\ r.ids = a.ids /\ r.aiJob = 0 /\ r.coachJob = a.coachJob
      /\ r.delayed = NoSearch /\ r.cancelled = a.cancelled /\ r.truncated = a.truncated
      /\ r.pendingCoach = NoRequest /\ r.lastCoachRequest = NoRequest
  BY <1>6 DEF Screens
<1> HIDE DEF r
<1>9. /\ b \in Screens /\ Kept(b, r) /\ b.truncated = r.truncated
      /\ b.aiJob = 0 /\ b.delayed = NoSearch /\ b.coachJob = 0 /\ b.analyzing = NoPly
      /\ b.cancelled = r.cancelled \cup ({r.coachJob} \ {0})
  BY <1>7, <1>8, CoachCancelFields
<1> HIDE DEF b
<1>10. /\ b.queue = s.queue /\ b.ids = s.ids /\ b.truncated = s.truncated \cup Cut(s)
       /\ b.cancelled = s.cancelled \cup Gone(s)
       /\ b.pendingCoach = NoRequest /\ b.lastCoachRequest = NoRequest
  <2>1. Cut(q) = Cut(s)
    BY <1>4, <1>5 DEF Kept, Cut
  <2>2. b.queue = s.queue /\ b.ids = s.ids /\ b.truncated = s.truncated \cup Cut(s)
    BY <1>4, <1>5, <1>6, <1>8, <1>9, <2>1 DEF Kept
  <2>3. b.cancelled = s.cancelled \cup Gone(s)
    BY <1>4, <1>5, <1>6, <1>8, <1>9 DEF Gone
  <2> QED BY <1>8, <1>9, <2>2, <2>3 DEF Kept
<1>11. e \in Screens
  BY <1>9, GoneType, Nothing, ZenonT(30) DEF Screens
<1>12. /\ e.queue = s.queue /\ e.ids = s.ids /\ e.truncated = s.truncated \cup Cut(s)
       /\ e.cancelled = s.cancelled \cup Gone(s) /\ Idles(e)
       /\ e.pendingCoach = NoRequest /\ e.lastCoachRequest = NoRequest /\ e.comments = {}
       /\ e.failed = NoPly /\ e.session = << >> /\ e.mode = mode /\ e.fg = b.fg
       /\ e.generation = b.generation /\ e.thinking = FALSE
  BY <1>9, <1>10 DEF Screens, Idles
<1>13. Fits(e, posts, TRUE)
  <2>1. Flying(e, posts) = Flying(s, posts)
    BY <1>12, FlightSame
  <2>2. RequestsFit(e, posts)
    BY <1>1, <1>12, <2>1 DEF Fits, RequestsFit, OfHuman
  <2>3. FailureFits(e) /\ CommentsFit(e)
    BY <1>12 DEF FailureFits, CommentsFit
  <2> QED BY <1>1, <1>11, <1>12, <2>2, <2>3, QuietFits
<1>14. x \in Searches /\ x.id = b.ids + 1 /\ x.kind = "newGame" /\ x.req = NoRequest
  <2>1. b.ids + 1 \in Nat
    BY <1>9 DEF Screens
  <2> QED BY <2>1, GoneType, Nothing DEF Search, Searches, Kinds
<1> HIDE DEF x
<1>15. c \in Screens
  <2>1. Append(b.queue, x) \in Seq(Searches) /\ x.id \in Nat
    BY <1>9, <1>14 DEF Screens, Searches
  <2> QED BY <1>9, <2>1 DEF Screens, Hand
<1>16. /\ c.queue = Append(b.queue, x) /\ c.ids = x.id /\ c.truncated = b.truncated
       /\ c.cancelled = b.cancelled /\ c.aiJob = 0 /\ c.delayed = NoSearch
       /\ c.coachJob = 0 /\ c.analyzing = NoPly /\ c.fg = b.fg /\ c.generation = b.generation
       /\ c.pendingCoach = NoRequest /\ c.lastCoachRequest = NoRequest
  BY <1>9, <1>10 DEF Screens, Hand
<1> HIDE DEF c
<1>17. d \in Screens
  BY <1>15, GoneType, Nothing DEF Screens
<1>18. /\ d.queue = Append(e.queue, x) /\ d.ids = x.id /\ d.truncated = e.truncated
       /\ d.cancelled = e.cancelled /\ d.aiJob = 0 /\ d.delayed = NoSearch
       /\ d.coachJob = 0 /\ d.analyzing = NoPly /\ d.fg = e.fg /\ d.generation = e.generation
       /\ d.pendingCoach = NoRequest /\ d.lastCoachRequest = NoRequest /\ d.comments = {}
       /\ d.failed = NoPly /\ d.session = << >> /\ d.mode = mode /\ d.thinking = FALSE
  BY <1>10, <1>12, <1>15, <1>16, ZenonT(30) DEF Screens
<1>19. Fits(d, posts, TRUE) /\ Spins(d, TRUE)
  <2>1. e.aiJob = 0 /\ e.coachJob = 0 /\ e.delayed = NoSearch /\ x.id = e.ids + 1
    BY <1>10, <1>12, <1>14 DEF Idles
  <2>2. x.kind # "ai"
    BY <1>14
  <2>3. OfHuman(x.req) /\ OfHuman(d.pendingCoach) /\ OfHuman(d.lastCoachRequest)
    BY <1>14, <1>18 DEF OfHuman
  <2> HIDE DEF d, e
  <2>4. Fits(d, posts, TRUE)
    BY <1>11, <1>12, <1>13, <1>14, <1>17, <1>18, <2>1, <2>2, <2>3, HandFits
  <2> QED BY <1>18, <2>4 DEF Spins
<1> HIDE DEF d
<1>20. s' \in Screens /\ Fits(s', posts, TRUE) /\ Spins(s', TRUE)
  BY <1>2, <1>17, <1>18, <1>19, MaybeStartAiFits
<1> QED BY <1>1, <1>20 DEF IInv

\* Pausing a game between two AIs ends the turn, unpausing starts one.
LEMMA TogglePauseInv ==
  ASSUME IInv, TogglePause
  PROVE  IInv'
<1> DEFINE t == [s EXCEPT !.paused = ~@]
<1>1. /\ s \in Screens /\ Fits(s, posts, TRUE) /\ Spins(s, TRUE)
      /\ alive = TRUE /\ posts' = posts /\ alive' = TRUE
      /\ acts' \in Nat /\ s.mode = "ava"
      /\ s' = IF t.paused THEN PauseEngine(t) ELSE MaybeStartAi(t)
  BY UserActsFacts DEF TogglePause
<1>2. t \in Screens /\ t.queue = s.queue
  BY <1>1 DEF Screens
<1>3. CASE t.paused
  <2>1. s' = PauseEngine(t)
    BY <1>1, <1>3
  <2>2. t = [s EXCEPT !.paused = ~@]
    OBVIOUS
  <2> HIDE DEF t
  <2>3. LET u == PauseEngine(t) IN
          u \in Screens /\ Fits(u, posts, TRUE) /\ Spins(u, TRUE) /\ u.session = s.session
    BY <1>1, <1>2, <2>2, PauseFits
  <2> QED BY <1>1, <2>1, <2>3 DEF IInv
<1>4. CASE ~t.paused
  <2>1. /\ t.session = s.session /\ t.mode = s.mode /\ t.fg = s.fg /\ t.generation = s.generation
        /\ t.comments = s.comments /\ t.aiJob = s.aiJob /\ t.delayed = s.delayed /\ t.ids = s.ids
        /\ t.pendingCoach = s.pendingCoach /\ t.lastCoachRequest = s.lastCoachRequest
        /\ t.coachJob = s.coachJob /\ t.analyzing = s.analyzing /\ t.failed = s.failed
        /\ t.cancelled = s.cancelled /\ t.truncated = s.truncated /\ t.thinking = s.thinking
    BY <1>1 DEF Screens
  <2>2. s' = MaybeStartAi(t)
    BY <1>1, <1>4
  <2> HIDE DEF t
  <2>3. /\ OfHuman(t.pendingCoach) /\ OfHuman(t.lastCoachRequest)
        /\ t.mode = "ava" => t.pendingCoach = NoRequest
    BY <1>1, <2>1 DEF Fits, RequestsFit
  <2>4. Fits(t, posts, TRUE)
    BY <1>1, <1>2, <2>1, <2>3, AskFits
  <2>5. t.coachJob = 0 /\ Spins(t, TRUE)
    BY <1>1, <2>1 DEF Fits, CoachFits, Spins
  <2>6. s' \in Screens /\ Fits(s', posts, TRUE) /\ Spins(s', TRUE)
    BY <1>2, <2>2, <2>4, <2>5, MaybeStartAiFits
  <2> QED BY <1>1, <2>6 DEF IInv
<1> QED BY <1>3, <1>4

\* A retry asks about the last move of the human, which the AI has answered.
LEMMA RetryCoachInv ==
  ASSUME IInv, RetryCoach
  PROVE  IInv'
<1> DEFINE n == Len(s.session)
<1>1. /\ s \in Screens /\ Fits(s, posts, TRUE) /\ Spins(s, TRUE) /\ s.fg = TRUE
      /\ alive = TRUE /\ posts' = posts /\ alive' = TRUE
      /\ acts' \in Nat /\ s.mode = "hva" /\ s.failed # NoPly /\ s.failed = LastHumanPly(s)
      /\ s' = StartCoach(s, s.lastCoachRequest)
  BY UserActsFacts DEF RetryCoach
<1>2. s.session \in Sessions /\ n \in Nat /\ s.failed \in Nat
  BY <1>1, SessionIsSeq DEF Screens
<1>3. ~AiOwes(s)
  <2> SUFFICES ASSUME AiOwes(s) PROVE FALSE
    OBVIOUS
  <2> DEFINE plies == {p \in 0 .. n - 1 : (IF p % 2 = 0 THEN "cho" ELSE "han") = Human}
  <2>1. s.failed + 1 < n
    BY <1>1 DEF Fits, FailureFits
  <2>2. n - 1 \in 0 .. n - 1 /\ ((n - 1) % 2 = 0 <=> n % 2 # 0)
    <3> HIDE DEF n
    <3>1. n > 0 /\ n - 1 \in Nat
      BY <1>2, <2>1
    <3>2. (n - 1) % 2 = 0 <=> n % 2 # 0
      BY <1>2, <3>1
    <3> QED BY <3>1, <3>2
  <2>3. (IF (n - 1) % 2 = 0 THEN "cho" ELSE "han") = Human
    BY <2>2, SidesAssumption DEF AiOwes, Side
  <2>4. n - 1 \in plies
    BY <2>2, <2>3
  <2>5. plies \subseteq Nat
    BY <1>2
  <2>6. LastHumanPly(s) = CHOOSE p \in plies : \A q \in plies : q <= p
    BY <2>4 DEF LastHumanPly
  <2>7. \A q \in plies : q <= n - 1
    BY <1>2
  <2> HIDE DEF plies
  <2>8. \A q \in plies : q <= LastHumanPly(s)
    BY <2>4, <2>6, <2>7
  <2> HIDE DEF n
  <2> QED BY <1>1, <1>2, <2>1, <2>4, <2>8
<1>4. s.aiJob = 0
  BY <1>1, <1>3 DEF Fits, AiTurnFits
<1>5. OfHuman(s.lastCoachRequest) /\ s.lastCoachRequest \in Requests
  BY <1>1 DEF Fits, RequestsFit, Screens
<1>6. s' \in Screens /\ Fits(s', posts, TRUE) /\ Spins(s', TRUE)
  BY <1>1, <1>3, <1>4, <1>5, StartCoachFits
<1> QED BY <1>1, <1>6 DEF IInv

\* The app goes to the background: both jobs end.
LEMMA BackgroundInv ==
  ASSUME IInv, Background
  PROVE  IInv'
<1> DEFINE t == [s EXCEPT !.fg = FALSE]
<1>1. /\ s \in Screens /\ Fits(s, posts, TRUE)
      /\ alive = TRUE /\ posts' = posts /\ alive' = TRUE
      /\ acts' \in Nat /\ s' = PauseEngine(t)
  BY UserActsFacts DEF Background
<1>2. t \in Screens
  BY <1>1 DEF Screens
<1>3. t = [s EXCEPT !.fg = FALSE]
  OBVIOUS
<1> HIDE DEF t
<1>4. LET u == PauseEngine(t) IN
        u \in Screens /\ Fits(u, posts, TRUE) /\ Spins(u, TRUE) /\ u.session = s.session
  BY <1>1, <1>2, <1>3, PauseFits
<1> QED BY <1>1, <1>4 DEF IInv

-----------------------------------------------------------------------------
(* The other steps, with what they leave of the game *)

\* Back in the foreground: the AI's turn comes before the coach.
LEMMA ForegroundInv ==
  ASSUME IInv, Foreground
  PROVE  IInv' /\ s'.session = s.session
<1> DEFINE t == [s EXCEPT !.fg = TRUE]
           a == MaybeStartAi(t)
<1>1. /\ s \in Screens /\ Fits(s, posts, TRUE) /\ Spins(s, TRUE) /\ s.fg = FALSE
      /\ alive = TRUE /\ posts' = posts /\ alive' = TRUE
      /\ acts' \in Nat /\ s' = StartPendingCoach(a)
  <2>1. alive = TRUE /\ s \in Screens /\ acts \in Nat
    BY DEF Foreground, IInv, Fits
  <2> QED BY <2>1 DEF Foreground, IInv, Screens
<1>2. t \in Screens /\ t.queue = s.queue
  BY <1>1 DEF Screens
<1>3. /\ t.session = s.session /\ t.mode = s.mode /\ t.fg = TRUE /\ t.generation = s.generation
      /\ t.comments = s.comments /\ t.aiJob = s.aiJob /\ t.delayed = s.delayed /\ t.ids = s.ids
      /\ t.pendingCoach = s.pendingCoach /\ t.lastCoachRequest = s.lastCoachRequest
      /\ t.coachJob = s.coachJob /\ t.analyzing = s.analyzing /\ t.failed = s.failed
      /\ t.cancelled = s.cancelled /\ t.truncated = s.truncated /\ t.thinking = s.thinking
  BY <1>1 DEF Screens
<1>4. s.aiJob = 0 /\ s.coachJob = 0
  BY <1>1 DEF Fits, AiTurnFits, CoachFits
<1> HIDE DEF t
<1>5. Fits(t, posts, TRUE) /\ Spins(t, TRUE)
  <2>1. Flying(t, posts) = Flying(s, posts) /\ Flight(t, posts) = Flight(s, posts)
    BY <1>2, FlightSame
  <2>2. (AiOwes(t) <=> AiOwes(s)) /\ \A x : IsAiTurn(t, x) <=> IsAiTurn(s, x)
    BY <1>3 DEF AiOwes, IsAiTurn
  <2>3. Numbered(t, posts) /\ Marked(t, posts) /\ CommentsFit(t)
    BY <1>1, <1>2, <1>3, <2>1 DEF Fits, Numbered, Marked, CommentsFit
  <2>4. AiTurnFits(t, posts, TRUE)
    BY <1>1, <1>3, <1>4, <2>1, <2>2 DEF Fits, AiTurnFits
  <2>5. CoachFits(t, posts, TRUE) /\ FailureFits(t)
    BY <1>1, <1>3, <1>4, <2>1, <2>2 DEF Fits, CoachFits, FailureFits
  <2>6. RequestsFit(t, posts)
    BY <1>1, <1>3, <2>1 DEF Fits, RequestsFit
  <2> QED BY <1>1, <1>2, <1>3, <2>3, <2>4, <2>5, <2>6 DEF Fits, Spins
<1>6. /\ a \in Screens /\ Fits(a, posts, TRUE)
      /\ a.session = t.session /\ a.mode = t.mode
      /\ Spins(a, TRUE)
      /\ AiOwes(t) => a.aiSearching
      /\ ~AiOwes(t) /\ t.mode = "hva" => a = t
  BY <1>2, <1>3, <1>4, <1>5, MaybeStartAiFits
<1> HIDE DEF a
<1>7. CASE a.mode = "hva"
  <2>1. ~a.aiSearching => a = t /\ ~AiOwes(t)
    BY <1>3, <1>6, <1>7
  <2>2. ~a.aiSearching => a.aiJob = 0 /\ ~AiOwes(a)
    BY <1>3, <1>4, <2>1
  <2>3. s' \in Screens /\ Fits(s', posts, TRUE) /\ Spins(s', TRUE) /\ s'.session = a.session
    BY <1>1, <1>6, <2>2, StartPendingCoachFits
  <2> QED BY <1>1, <1>3, <1>6, <2>3 DEF IInv
<1>8. CASE a.mode # "hva"
  <2>1. a.pendingCoach = NoRequest
    BY <1>6, <1>8 DEF Fits, RequestsFit, Screens
  <2>2. s' = a
    BY <1>1, <2>1 DEF StartPendingCoach
  <2> QED BY <1>1, <1>3, <1>6, <2>2 DEF IInv
<1> QED BY <1>7, <1>8

\* The coach's start neither reads nor writes the AI's job, so that the order
\* of the two at the end of a turn is of no account.
LEMMA JobCommutes ==
  ASSUME NEW t \in Screens
  PROVE  [StartPendingCoach(t) EXCEPT !.aiJob = 0] = StartPendingCoach([t EXCEPT !.aiJob = 0])
<1> DEFINE z == [t EXCEPT !.aiJob = 0]
           req == t.pendingCoach
           v == [t EXCEPT !.pendingCoach = NoRequest]
           w == [z EXCEPT !.pendingCoach = NoRequest]
           vl == [v EXCEPT !.lastCoachRequest = req]
           wl == [w EXCEPT !.lastCoachRequest = req]
           vc == CoachCancel(vl)
           wc == CoachCancel(wl)
<1>1. z \in Screens /\ z.pendingCoach = req /\ z.fg = t.fg /\ z.aiSearching = t.aiSearching
  BY DEF Screens
<1>2. CASE t.pendingCoach = NoRequest \/ ~t.fg \/ t.aiSearching
  BY <1>1, <1>2 DEF StartPendingCoach
<1>3. CASE ~(t.pendingCoach = NoRequest \/ ~t.fg \/ t.aiSearching)
  <2>1. StartPendingCoach(t) = StartCoach(v, req) /\ StartPendingCoach(z) = StartCoach(w, req)
    BY <1>1, <1>3 DEF StartPendingCoach
  <2>2. v \in Screens /\ w = [v EXCEPT !.aiJob = 0] /\ w.session = v.session
    BY Nothing DEF Screens
  <2>3. CASE ~StillValidIn(req, v.session)
    BY <2>1, <2>2, <2>3 DEF StartCoach
  <2>4. CASE StillValidIn(req, v.session)
    <3>1. StartCoach(v, req) = CoachEvaluate(vl, req) /\ StartCoach(w, req) = CoachEvaluate(wl, req)
      BY <2>2, <2>4 DEF StartCoach
    <3> HIDE DEF w, v
    <3>2. vl \in Screens /\ wl = [vl EXCEPT !.aiJob = 0] /\ wl.coachJob = vl.coachJob
          /\ wl.cancelled = vl.cancelled
      BY <2>2 DEF Screens
    <3> HIDE DEF vl, wl
    <3>3. vc \in Screens
      BY <3>2, CoachCancelFields
    <3>4. wc = [vc EXCEPT !.aiJob = 0] /\ wc.ids = vc.ids /\ wc.queue = vc.queue
      <4> DEFINE gone == vl.cancelled \cup ({vl.coachJob} \ {0})
      <4>1. vc = [vl EXCEPT !.cancelled = gone, !.coachJob = 0, !.analyzing = NoPly]
        BY DEF CoachCancel
      <4>2. wc = [wl EXCEPT !.cancelled = gone, !.coachJob = 0, !.analyzing = NoPly]
        BY <3>2 DEF CoachCancel
      <4> HIDE DEF gone, vc, wc
      <4>3. wc = [vc EXCEPT !.aiJob = 0]
        BY <3>2, <4>1, <4>2 DEF Screens
      <4> QED BY <3>3, <4>3 DEF Screens
    <3> DEFINE x == Search(vc.ids + 1, "coach", 0, << >>, req)
    <3>5. /\ CoachEvaluate(vl, req) = Hand([vc EXCEPT !.coachJob = vc.ids + 1, !.analyzing = Ply(req), !.failed = NoPly], x)
          /\ CoachEvaluate(wl, req) = Hand([wc EXCEPT !.coachJob = vc.ids + 1, !.analyzing = Ply(req), !.failed = NoPly], x)
      BY <3>4 DEF CoachEvaluate
    <3> HIDE DEF vc, wc, x
    <3>6. [CoachEvaluate(vl, req) EXCEPT !.aiJob = 0] = CoachEvaluate(wl, req)
      <4> DEFINE k == vc.ids + 1
                 l == Ply(req)
                 que == Append(vc.queue, x)
                 ve == [vc EXCEPT !.coachJob = k, !.analyzing = l, !.failed = NoPly]
                 we == [wc EXCEPT !.coachJob = k, !.analyzing = l, !.failed = NoPly]
      <4> HIDE DEF k, l
      <4>1. we = [ve EXCEPT !.aiJob = 0] /\ ve.queue = vc.queue /\ we.queue = vc.queue
        BY <3>3, <3>4 DEF Screens
      <4>2. CoachEvaluate(vl, req) = Hand(ve, x) /\ CoachEvaluate(wl, req) = Hand(we, x)
        BY <3>5 DEF k, l
      <4>3. /\ CoachEvaluate(vl, req) = [ve EXCEPT !.queue = que, !.ids = x.id]
            /\ CoachEvaluate(wl, req) = [we EXCEPT !.queue = que, !.ids = x.id]
        BY <4>1, <4>2 DEF Hand
      <4>4. [[ve EXCEPT !.queue = que, !.ids = x.id] EXCEPT !.aiJob = 0]
              = [[ve EXCEPT !.aiJob = 0] EXCEPT !.queue = que, !.ids = x.id]
        <5> HIDE DEF que
        <5> QED BY <3>3 DEF Screens
      <4> QED BY <4>1, <4>3, <4>4
    <3> QED BY <2>1, <3>1, <3>6
  <2> QED BY <2>3, <2>4
<1> QED BY <1>2, <1>3

\* A restored screen has no search and no job.
LEMMA ProcessDeathInv ==
  ASSUME IInv, ProcessDeath
  PROVE  IInv' /\ s'.session = s.session
<1> DEFINE u == Fresh(s.session, s.mode, s.paused, s.comments)
<1>1. /\ s \in Screens /\ Fits(s, posts, TRUE) /\ alive = TRUE /\ posts' = << >> /\ alive' = TRUE
      /\ acts' \in Nat /\ s' = u
  <2>1. alive = TRUE /\ s \in Screens /\ acts \in Nat
    BY DEF ProcessDeath, IInv, Fits
  <2> QED BY <2>1 DEF ProcessDeath, IInv
<1>2. u \in Screens
  <2>1. << >> \in Seq(Searches)
    OBVIOUS
  <2> QED BY <1>1, <2>1, Nothing DEF Fresh, Screens
<1>3. /\ u.session = s.session /\ u.comments = s.comments /\ u.queue = << >>
      /\ u.aiJob = 0 /\ u.coachJob = 0 /\ u.delayed = NoSearch /\ u.analyzing = NoPly
      /\ u.failed = NoPly /\ u.cancelled = {} /\ u.truncated = {} /\ u.thinking = FALSE
      /\ u.pendingCoach = NoRequest /\ u.lastCoachRequest = NoRequest
  BY DEF Fresh
<1> HIDE DEF u
<1>4. << >> \in Seq(Posts) /\ Len(<< >>) + Len(u.queue) = 0 /\ 1 .. 0 = {}
  BY <1>3
<1>5. Flying(u, << >>) = {} /\ Numbered(u, << >>)
  BY <1>4 DEF Flying, Numbered
<1>6. Marked(u, << >>) /\ AiTurnFits(u, << >>, TRUE) /\ CoachFits(u, << >>, TRUE)
  BY <1>3, <1>5 DEF Marked, AiTurnFits, CoachFits
<1>7. RequestsFit(u, << >>)
  BY <1>1, <1>3, <1>5 DEF Fits, RequestsFit, OfHuman
<1>8. FailureFits(u) /\ CommentsFit(u)
  BY <1>1, <1>3 DEF Fits, FailureFits, CommentsFit
<1>9. Fits(u, << >>, TRUE) /\ Spins(u, TRUE)
  BY <1>2, <1>3, <1>4, <1>5, <1>6, <1>7, <1>8 DEF Fits, Spins
<1> QED BY <1>1, <1>3, <1>9 DEF IInv

\* A screen that is left has no job.
LEMMA ClearedInv ==
  ASSUME IInv, Cleared
  PROVE  IInv' /\ s'.session = s.session
<1>1. /\ s \in Screens /\ Fits(s, posts, TRUE) /\ posts' = posts /\ alive' = FALSE
      /\ acts' \in Nat /\ s' = Stop(CoachCancel(CancelAi(s)))
  <2>1. alive = TRUE /\ s \in Screens /\ acts \in Nat
    BY DEF Cleared, IInv, Fits
  <2> QED BY <2>1 DEF Cleared, IInv
<1>2. LET u == Stop(CoachCancel(CancelAi(s))) IN
        u \in Screens /\ Fits(u, posts, FALSE) /\ u.session = s.session
  BY <1>1, PauseFits
<1> QED BY <1>1, <1>2 DEF IInv, Spins

\* The search of a delayed turn goes to the engine.
LEMMA DelayEndsInv ==
  ASSUME IInv, DelayEnds
  PROVE  IInv' /\ s'.session = s.session
<1> DEFINE x == s.delayed
           u == [Hand(s, x) EXCEPT !.delayed = NoSearch, !.ids = s.ids]
<1>1. /\ s \in Screens /\ Fits(s, posts, alive) /\ Spins(s, alive) /\ posts' = posts
      /\ alive' = alive /\ alive \in BOOLEAN /\ acts' \in Nat /\ s' = u /\ x # NoSearch
  BY DEF DelayEnds, IInv, Fits
<1>2. /\ x \in Searches /\ x.id \in 1 .. s.ids /\ IsAiTurn(s, x)
      /\ \A y \in Flying(s, posts) : y.id # x.id
  BY <1>1 DEF Fits, AiTurnFits, Screens
<1>3. Append(s.queue, x) \in Seq(Searches)
  BY <1>1, <1>2 DEF Screens
<1>4. u \in Screens
  BY <1>1, <1>2, <1>3, Nothing DEF Screens, Hand, Searches
<1>5. u.queue = Append(s.queue, x) /\ u.delayed = NoSearch
  BY <1>1 DEF Screens, Hand
<1>6. /\ u.session = s.session /\ u.mode = s.mode /\ u.fg = s.fg /\ u.generation = s.generation
      /\ u.comments = s.comments /\ u.aiJob = s.aiJob /\ u.ids = s.ids
      /\ u.pendingCoach = s.pendingCoach /\ u.lastCoachRequest = s.lastCoachRequest
      /\ u.coachJob = s.coachJob /\ u.analyzing = s.analyzing /\ u.failed = s.failed
      /\ u.cancelled = s.cancelled /\ u.truncated = s.truncated /\ u.thinking = s.thinking
  BY <1>1 DEF Screens, Hand
<1> HIDE DEF u, x
<1>7. Numbered(u, posts) /\ Flying(u, posts) = Flying(s, posts) \cup {x}
  <2>1. s.ids \in Nat /\ u.ids \in Nat /\ s.ids <= u.ids
    BY <1>1, <1>6 DEF Screens
  <2> QED BY <1>1, <1>2, <1>4, <1>5, <1>6, <2>1, FlightHand DEF Fits
<1>8. (AiOwes(u) <=> AiOwes(s)) /\ \A y : IsAiTurn(u, y) <=> IsAiTurn(s, y)
  BY <1>6 DEF AiOwes, IsAiTurn
<1>9. Marked(u, posts) /\ CommentsFit(u) /\ FailureFits(u)
  BY <1>1, <1>6, <1>7, <1>8 DEF Fits, Marked, CommentsFit, FailureFits
<1>10. RequestsFit(u, posts)
  <2>1. x.kind # "coach"
    BY <1>2 DEF IsAiTurn
  <2> QED BY <1>1, <1>6, <1>7, <2>1 DEF Fits, RequestsFit
<1>11. AiTurnFits(u, posts, alive)
  <2>1. s.aiJob # 0 =>
          /\ alive /\ u.fg /\ u.coachJob = 0
          /\ ~Over(u.session) /\ (u.mode = "hva" => AiOwes(u))
          /\ u.aiJob \notin u.cancelled \cup u.truncated
    BY <1>1, <1>6, <1>8 DEF Fits, AiTurnFits
  <2>2. \A y \in Flying(u, posts) : y.kind = "ai" /\ y.id \notin u.cancelled => y.id = u.aiJob
    BY <1>1, <1>2, <1>6, <1>7 DEF Fits, AiTurnFits, IsAiTurn
  <2>3. \E y \in Flying(u, posts) : IsAiTurn(u, y)
    BY <1>2, <1>7, <1>8
  <2> QED BY <1>5, <1>6, <2>1, <2>2, <2>3 DEF AiTurnFits
<1>12. CoachFits(u, posts, alive)
  BY <1>1, <1>6, <1>7, <1>8 DEF Fits, CoachFits
<1>13. Fits(u, posts, alive) /\ Spins(u, alive)
  BY <1>1, <1>4, <1>6, <1>7, <1>9, <1>10, <1>11, <1>12 DEF Fits, Spins
<1> QED BY <1>1, <1>6, <1>13 DEF IInv, u

\* The engine is done with a search: nothing but its place changes.
LEMMA EngineEndsInv ==
  ASSUME IInv, EngineEnds
  PROVE  IInv' /\ s'.session = s.session
<1>1. PICK outcome \in {"move", "nothing"} :
        posts' = Append(posts, [search |-> Head(s.queue), outcome |-> outcome])
  BY DEF EngineEnds
<1> DEFINE p == [search |-> Head(s.queue), outcome |-> outcome]
           u == [s EXCEPT !.queue = Tail(@)]
<1>2. /\ s \in Screens /\ Fits(s, posts, alive) /\ Spins(s, alive) /\ posts \in Seq(Posts)
      /\ posts' = Append(posts, p)
      /\ alive' = alive /\ alive \in BOOLEAN /\ acts' \in Nat /\ s' = u /\ s.queue # << >>
  BY <1>1 DEF EngineEnds, IInv, Fits
<1>3. Head(s.queue) \in Searches /\ Tail(s.queue) \in Seq(Searches)
  BY <1>2 DEF Screens
<1>4. p \in Posts /\ p.search = Head(s.queue)
  BY <1>3 DEF Posts
<1>5. u \in Screens /\ u.queue = Tail(s.queue)
  BY <1>2, <1>3 DEF Screens
<1>6. /\ u.session = s.session /\ u.mode = s.mode /\ u.fg = s.fg /\ u.generation = s.generation
      /\ u.comments = s.comments /\ u.aiJob = s.aiJob /\ u.delayed = s.delayed /\ u.ids = s.ids
      /\ u.pendingCoach = s.pendingCoach /\ u.lastCoachRequest = s.lastCoachRequest
      /\ u.coachJob = s.coachJob /\ u.analyzing = s.analyzing /\ u.failed = s.failed
      /\ u.cancelled = s.cancelled /\ u.truncated = s.truncated /\ u.thinking = s.thinking
  BY <1>2 DEF Screens
<1> HIDE DEF p, u
<1>7. /\ Append(posts, p) \in Seq(Posts) /\ Flying(u, Append(posts, p)) = Flying(s, posts)
      /\ Numbered(u, Append(posts, p))
  BY <1>2, <1>4, <1>5, <1>6, FlightEnds DEF Fits
<1>8. /\ OfHuman(u.pendingCoach) /\ OfHuman(u.lastCoachRequest)
      /\ u.mode = "ava" => u.pendingCoach = NoRequest
  BY <1>2, <1>6 DEF Fits, RequestsFit
<1>9. Fits(u, Append(posts, p), alive)
  BY <1>2, <1>5, <1>6, <1>7, <1>8, SameFits
<1> QED BY <1>2, <1>6, <1>9 DEF IInv, Spins

\* The main thread takes a result of a search of the given kind.
LEMMA ResumesFacts ==
  ASSUME IInv, NEW kind, Resumes(kind)
  PROVE  LET x == Head(posts).search IN
           /\ s \in Screens /\ Fits(s, posts, alive) /\ Spins(s, alive) /\ posts # << >>
           /\ x \in Flying(s, posts) /\ x \in Searches /\ x.id \in Nat /\ x.id # 0 /\ x.kind = kind
           /\ posts' = Tail(posts) /\ alive' = alive /\ alive \in BOOLEAN /\ acts' \in Nat
<1>1. /\ s \in Screens /\ Fits(s, posts, alive) /\ Spins(s, alive) /\ posts # << >>
      /\ posts' = Tail(posts) /\ alive' = alive /\ alive \in BOOLEAN /\ acts' \in Nat
      /\ posts \in Seq(Posts) /\ Head(posts).search.kind = kind
  BY DEF IInv, Fits, Resumes
<1>2. Head(posts).search \in Flying(s, posts)
  BY <1>1, FlightLands DEF Fits
<1>3. Flying(s, posts) \subseteq Searches
  BY <1>1, FlightFacts
<1>4. Head(posts).search.id \in 1 .. s.ids
  BY <1>1, <1>2 DEF Fits, Numbered
<1> QED BY <1>1, <1>2, <1>3, <1>4, SMTT(30) DEF Screens

\* A result that no job waits for changes no more than the marks of its search.
LEMMA StaleFits ==
  ASSUME IInv, posts # << >>, Head(posts).search.id \notin {s.aiJob, s.coachJob},
         NEW u, u = Finished(s, Head(posts).search)
                \/ u = [Finished(s, Head(posts).search) EXCEPT !.aiSearching = FALSE]
  PROVE  u \in Screens /\ Fits(u, Tail(posts), alive) /\ Spins(u, alive) /\ u.session = s.session
<1> DEFINE x == Head(posts).search
<1>1. s \in Screens /\ Fits(s, posts, alive) /\ Spins(s, alive) /\ posts \in Seq(Posts)
  BY DEF IInv, Fits
<1> HIDE DEF x
<1>2. PICK b \in BOOLEAN : u = [s EXCEPT !.cancelled = @ \ {x.id}, !.truncated = @ \ {x.id},
                                         !.aiSearching = b]
  <2>1. CASE u = Finished(s, x)
    <3>1. u = [s EXCEPT !.cancelled = @ \ {x.id}, !.truncated = @ \ {x.id},
                        !.aiSearching = s.aiSearching]
      BY <1>1, <2>1 DEF Finished, Screens
    <3> QED BY <1>1, <3>1 DEF Screens
  <2>2. CASE u = [Finished(s, x) EXCEPT !.aiSearching = FALSE]
    BY <2>2 DEF Finished
  <2> QED BY <2>1, <2>2 DEF x
<1>3. u \in Screens
  BY <1>1, <1>2 DEF Screens
<1>4. /\ u.session = s.session /\ u.mode = s.mode /\ u.fg = s.fg /\ u.generation = s.generation
      /\ u.comments = s.comments /\ u.aiJob = s.aiJob /\ u.delayed = s.delayed /\ u.ids = s.ids
      /\ u.pendingCoach = s.pendingCoach /\ u.lastCoachRequest = s.lastCoachRequest
      /\ u.coachJob = s.coachJob /\ u.analyzing = s.analyzing /\ u.failed = s.failed
      /\ u.cancelled = s.cancelled \ {x.id} /\ u.truncated = s.truncated \ {x.id}
      /\ u.thinking = s.thinking /\ u.queue = s.queue
  BY <1>1, <1>2 DEF Screens
<1>5. Flying(u, Tail(posts)) \subseteq Flying(s, posts)
  BY <1>1, <1>3, <1>4, FlightLands DEF Fits
<1>6. RequestsFit(u, Tail(posts)) /\ FailureFits(u) /\ CommentsFit(u)
  BY <1>1, <1>4, <1>5 DEF Fits, RequestsFit, FailureFits, CommentsFit, AiOwes
<1>7. Fits(u, Tail(posts), alive)
  BY <1>1, <1>3, <1>4, <1>6, LandFits DEF x
<1> QED BY <1>1, <1>3, <1>4, <1>7 DEF Spins

\* A job's search is of the job's kind, and nobody cancelled it.
LEMMA JobKinds ==
  ASSUME IInv, NEW x \in Flying(s, posts), x.id # 0
  PROVE  /\ x.id = s.aiJob => IsAiTurn(s, x) /\ s.coachJob = 0
         /\ x.id = s.coachJob => x.kind = "coach"
         /\ x.id \in s.cancelled \/ ~alive => x.id \notin {s.aiJob, s.coachJob}
         /\ x.kind = "ai" /\ x.id \notin s.cancelled => x.id = s.aiJob
<1>1. s \in Screens /\ Fits(s, posts, alive)
  BY DEF IInv, Fits
<1>2. ASSUME x.id = s.aiJob PROVE IsAiTurn(s, x) /\ s.coachJob = 0
  <2>1. s.coachJob = 0
    BY <1>1, <1>2 DEF Fits, AiTurnFits
  <2>2. PICK y \in Flying(s, posts) \cup {s.delayed} : IsAiTurn(s, y)
    BY <1>1, <1>2 DEF Fits, AiTurnFits
  <2>3. y # s.delayed
    <3>1. s.delayed # NoSearch => x.id # s.aiJob
      BY <1>1, DelayedFacts DEF Fits
    <3>2. ~IsAiTurn(s, NoSearch)
      BY DEF IsAiTurn, NoSearch, Search
    <3> QED BY <1>2, <2>2, <3>1, <3>2
  <2>4. y = x
    <3>1. y.id = x.id /\ y \in Flying(s, posts) /\ Numbered(s, posts)
      BY <1>1, <1>2, <2>2, <2>3 DEF IsAiTurn, Fits
    <3> QED BY <3>1, FlightId
  <2> QED BY <2>1, <2>2, <2>4
<1>3. ASSUME x.id = s.coachJob PROVE x.kind = "coach"
  <2>1. PICK y \in Flying(s, posts) : y.id = s.coachJob /\ y.kind = "coach"
    BY <1>1, <1>3 DEF Fits, CoachFits
  <2>2. y = x
    <3>1. y.id = x.id /\ Numbered(s, posts)
      BY <1>1, <1>3, <2>1 DEF Fits
    <3> QED BY <3>1, FlightId
  <2> QED BY <2>1, <2>2
<1>4. x.id \in s.cancelled \/ ~alive => x.id \notin {s.aiJob, s.coachJob}
  BY <1>1 DEF Fits, AiTurnFits, CoachFits
<1>5. x.kind = "ai" /\ x.id \notin s.cancelled => x.id = s.aiJob
  BY <1>1 DEF Fits, AiTurnFits
<1> QED BY <1>2, <1>3, <1>4, <1>5

\* newGame() is done.
LEMMA NewGameDoneInv ==
  ASSUME IInv, NewGameDone
  PROVE  IInv' /\ s'.session = s.session
<1> DEFINE x == Head(posts).search
<1>1. /\ posts # << >> /\ x \in Flying(s, posts) /\ x.id # 0 /\ x.kind = "newGame"
      /\ posts' = Tail(posts) /\ alive' = alive /\ alive \in BOOLEAN /\ acts' \in Nat
      /\ s' = Finished(s, x)
  BY ResumesFacts DEF NewGameDone
<1>2. x.id \notin {s.aiJob, s.coachJob}
  BY <1>1, JobKinds DEF IsAiTurn
<1>3. /\ s' \in Screens /\ Fits(s', Tail(posts), alive) /\ Spins(s', alive)
      /\ s'.session = s.session
  BY <1>1, <1>2, StaleFits
<1> QED BY <1>1, <1>3 DEF IInv

\* A coach analysis ends: with a verdict, a failure, or stale.
LEMMA CoachResultInv ==
  ASSUME IInv, CoachResult
  PROVE  IInv' /\ s'.session = s.session
<1> DEFINE x == Head(posts).search
           t == Finished(s, x)
           usable == Head(posts).outcome = "move"
           valid == StillValidIn(x.req, s.session)
<1>1. /\ s \in Screens /\ Fits(s, posts, alive) /\ Spins(s, alive)
      /\ posts # << >> /\ x \in Flying(s, posts) /\ x \in Searches /\ x.id # 0 /\ x.kind = "coach"
      /\ posts' = Tail(posts) /\ alive' = alive /\ alive \in BOOLEAN /\ acts' \in Nat
  BY ResumesFacts DEF CoachResult
<1>2. s' = IF s.coachJob = x.id THEN CoachFinish(t, x.req, usable) ELSE t
  BY DEF CoachResult
<1>3. CASE s.coachJob # x.id
  <2>1. x.id # s.aiJob
    BY <1>1, JobKinds DEF IsAiTurn
  <2>2. /\ s' \in Screens /\ Fits(s', Tail(posts), alive) /\ Spins(s', alive)
        /\ s'.session = s.session
    BY <1>1, <1>2, <1>3, <2>1, StaleFits
  <2> QED BY <1>1, <2>2 DEF IInv
<1>4. CASE s.coachJob = x.id
  <2>1. t = [s EXCEPT !.cancelled = @ \ {x.id}, !.truncated = @ \ {x.id}]
    BY DEF Finished
  <2>2. s' = CoachFinish(t, x.req, usable)
    BY <1>2, <1>4
  <2> HIDE DEF x, t, usable
  <2>3. t \in Screens /\ t.session = s.session
    BY <1>1, <2>1 DEF Screens
  <2>4. PICK cs, f : /\ s' = [t EXCEPT !.coachJob = 0, !.analyzing = NoPly, !.comments = cs, !.failed = f]
                     /\ \A c \in cs : c \in s.comments \/ (valid /\ c = x.req)
                     /\ f \in {s.failed, NoPly} \/ (valid /\ f = Ply(x.req))
    <3>1. t.comments = s.comments /\ t.failed = s.failed
      BY <1>1, <2>1 DEF Screens
    <3>2. CASE usable /\ valid
      <4> DEFINE cs == {c \in s.comments : Ply(c) # Ply(x.req)} \cup {x.req}
      <4>1. s' = [t EXCEPT !.coachJob = 0, !.analyzing = NoPly, !.comments = cs, !.failed = NoPly]
        BY <2>2, <2>3, <3>1, <3>2 DEF CoachFinish, Screens
      <4>2. \A c \in cs : c \in s.comments \/ (valid /\ c = x.req)
        BY <3>2
      <4> HIDE DEF cs, valid
      <4> QED BY <4>1, <4>2
    <3>3. CASE ~(usable /\ valid)
      <4> DEFINE f == IF valid THEN Ply(x.req) ELSE s.failed
      <4>1. s' = [t EXCEPT !.coachJob = 0, !.analyzing = NoPly, !.comments = s.comments, !.failed = f]
        BY <2>2, <2>3, <3>1, <3>3 DEF CoachFinish, Screens
      <4>2. f \in {s.failed, NoPly} \/ (valid /\ f = Ply(x.req))
        OBVIOUS
      <4> HIDE DEF f, valid
      <4> QED BY <4>1, <4>2
    <3> QED BY <3>2, <3>3
  <2>5. /\ x.req \in Requests /\ OfHuman(x.req) /\ Ply(x.req) \in 0 .. NoPly
    BY <1>1, PreType DEF Fits, RequestsFit, Searches
  <2>6. cs \subseteq Requests /\ f \in 0 .. NoPly
    BY <1>1, <2>4, <2>5, Nothing DEF Screens
  <2>7. s' \in Screens
    BY <2>3, <2>4, <2>6, Nothing DEF Screens
  <2>8. /\ s'.session = s.session /\ s'.mode = s.mode /\ s'.fg = s.fg /\ s'.generation = s.generation
        /\ s'.comments = cs /\ s'.aiJob = s.aiJob /\ s'.delayed = s.delayed /\ s'.ids = s.ids
        /\ s'.pendingCoach = s.pendingCoach /\ s'.lastCoachRequest = s.lastCoachRequest
        /\ s'.coachJob = 0 /\ s'.analyzing = NoPly /\ s'.failed = f
        /\ s'.cancelled = s.cancelled \ {x.id} /\ s'.truncated = s.truncated \ {x.id}
        /\ s'.thinking = s.thinking /\ s'.queue = s.queue
    BY <1>1, <2>1, <2>3, <2>4 DEF Screens
  <2>9. s.aiJob # x.id /\ ~AiOwes(s)
    BY <1>1, <1>4 DEF Fits, AiTurnFits, CoachFits
  <2>10. Flying(s', Tail(posts)) \subseteq Flying(s, posts)
    BY <1>1, <2>7, <2>8, FlightLands DEF Fits
  <2>11. RequestsFit(s', Tail(posts))
    <3>1. \A c \in cs : OfHuman(c)
      BY <1>1, <2>4, <2>5 DEF Fits, RequestsFit
    <3> QED BY <1>1, <2>8, <2>10, <3>1 DEF Fits, RequestsFit
  <2>12. CommentsFit(s')
    BY <1>1, <2>4, <2>8 DEF Fits, CommentsFit
  <2>13. FailureFits(s')
    <3>1. ~AiOwes(s')
      BY <2>8, <2>9 DEF AiOwes
    <3>2. s.failed # NoPly => s.failed < Len(s.session)
      BY <1>1 DEF Fits, FailureFits
    <3>3. valid => Ply(x.req) < Len(s.session)
      <4>1. s.session \in Sessions
        BY <1>1 DEF Screens
      <4>2. Len(s.session) \in Nat /\ Ply(x.req) \in Nat
        BY <2>5, <4>1, SessionIsSeq
      <4> QED BY <4>2 DEF StillValidIn
    <3> HIDE DEF valid
    <3> QED BY <2>4, <2>8, <3>1, <3>2, <3>3 DEF FailureFits
  <2>14. Fits(s', Tail(posts), alive)
    BY <1>1, <1>4, <2>7, <2>8, <2>9, <2>11, <2>12, <2>13, LandFits DEF x
  <2> QED BY <1>1, <2>8, <2>14 DEF IInv, Spins
<1> QED BY <1>3, <1>4

\* A turn of the AI that was cancelled, or that comes without a move, ends.
LEMMA AiNoMoveInv ==
  ASSUME IInv, AiNoMove
  PROVE  IInv' /\ s'.session = s.session
<1> DEFINE x == Head(posts).search
           b == IF x.gen = s.generation THEN FALSE ELSE s.thinking
<1>1. /\ s \in Screens /\ Fits(s, posts, alive) /\ Spins(s, alive)
      /\ posts # << >> /\ x \in Flying(s, posts) /\ x \in Searches /\ x.id # 0 /\ x.kind = "ai"
      /\ posts' = Tail(posts) /\ alive' = alive /\ alive \in BOOLEAN /\ acts' \in Nat
  BY ResumesFacts DEF AiNoMove
<1>2. CASE /\ x.id \in s.cancelled \/ ~alive
           /\ s' = [Finished(s, x) EXCEPT !.aiSearching = FALSE]
  <2>1. x.id \notin {s.aiJob, s.coachJob}
    BY <1>1, <1>2, JobKinds
  <2>2. /\ s' \in Screens /\ Fits(s', Tail(posts), alive) /\ Spins(s', alive)
        /\ s'.session = s.session
    BY <1>1, <1>2, <2>1, StaleFits
  <2> QED BY <1>1, <2>2 DEF IInv
<1>3. CASE /\ x.id \notin s.cancelled /\ alive
           /\ s' = [Finished(s, x) EXCEPT !.aiSearching = FALSE, !.aiJob = 0,
                      !.thinking = IF x.gen = s.generation THEN FALSE ELSE @]
  <2>1. x.id = s.aiJob /\ IsAiTurn(s, x) /\ s.coachJob = 0
    BY <1>1, <1>3, JobKinds
  <2>2. s' = [s EXCEPT !.cancelled = @ \ {x.id}, !.truncated = @ \ {x.id},
                       !.aiSearching = FALSE, !.aiJob = 0, !.thinking = FALSE]
    <3>1. Finished(s, x) = [s EXCEPT !.cancelled = @ \ {x.id}, !.truncated = @ \ {x.id}]
      BY DEF Finished
    <3>2. x.gen = s.generation
      BY <2>1 DEF IsAiTurn
    <3> HIDE DEF x
    <3> QED BY <1>1, <1>3, <3>1, <3>2 DEF Screens
  <2> HIDE DEF x
  <2>3. s' \in Screens
    BY <1>1, <2>2 DEF Screens
  <2>4. /\ s'.session = s.session /\ s'.mode = s.mode /\ s'.fg = s.fg /\ s'.generation = s.generation
        /\ s'.comments = s.comments /\ s'.aiJob = 0 /\ s'.delayed = s.delayed /\ s'.ids = s.ids
        /\ s'.pendingCoach = s.pendingCoach /\ s'.lastCoachRequest = s.lastCoachRequest
        /\ s'.coachJob = s.coachJob /\ s'.analyzing = s.analyzing /\ s'.failed = s.failed
        /\ s'.cancelled = s.cancelled \ {x.id} /\ s'.truncated = s.truncated \ {x.id}
        /\ s'.thinking = FALSE /\ s'.queue = s.queue
    BY <1>1, <2>2 DEF Screens
  <2>5. Flying(s', Tail(posts)) \subseteq Flying(s, posts)
    BY <1>1, <2>3, <2>4, FlightLands DEF Fits
  <2>6. RequestsFit(s', Tail(posts)) /\ FailureFits(s') /\ CommentsFit(s')
    BY <1>1, <2>4, <2>5 DEF Fits, RequestsFit, FailureFits, CommentsFit, AiOwes
  <2>7. Fits(s', Tail(posts), alive)
    BY <1>1, <2>1, <2>3, <2>4, <2>6, LandFits DEF x
  <2> QED BY <1>1, <2>4, <2>7 DEF IInv, Spins
<1> QED BY <1>2, <1>3 DEF AiNoMove

\* The AI moves: its search is of the position on the board, and then it is
\* the coach's turn, or that of the next AI.
LEMMA AiMoveInv ==
  ASSUME IInv, NEW m \in Moves, AiMove(m)
  PROVE  /\ IInv' /\ s'.session = Append(s.session, m)
         /\ ~Over(s.session) /\ ~HumanTurn(s)
<1> DEFINE x == Head(posts).search
           next == Append(x.on, m)
           fin == [Finished(s, x) EXCEPT !.aiSearching = FALSE]
           c == CoachSync(fin, next)
           a == [c EXCEPT !.session = next, !.thinking = FALSE]
           z == [a EXCEPT !.aiJob = 0]
           kept == {r \in s.comments : Ply(r) < Len(next)}
           still == IF s.failed < Len(next) THEN s.failed ELSE NoPly
<1>1. /\ s \in Screens /\ Fits(s, posts, TRUE) /\ Spins(s, TRUE) /\ alive = TRUE
      /\ posts # << >> /\ x \in Flying(s, posts) /\ x \in Searches /\ x.id # 0 /\ x.kind = "ai"
      /\ posts' = Tail(posts) /\ alive' = TRUE /\ acts' \in Nat
      /\ x.id \notin s.cancelled /\ s' = AiTurnEnds(a)
  <2>1. alive = TRUE /\ Resumes("ai") /\ x.id \notin s.cancelled /\ s' = AiTurnEnds(a)
    BY DEF AiMove, IInv
  <2> HIDE DEF a
  <2> QED BY <2>1, ResumesFacts
<1>2. x.id = s.aiJob /\ IsAiTurn(s, x) /\ s.coachJob = 0 /\ s.aiJob # 0
  BY <1>1, JobKinds
<1>3. x.on = s.session /\ ~Over(s.session) /\ (s.mode = "hva" => AiOwes(s)) /\ s.analyzing = NoPly
  BY <1>1, <1>2 DEF IsAiTurn, Fits, AiTurnFits, CoachFits
<1>4. s.session \in Sessions /\ s.failed \in 0 .. NoPly /\ s.comments \subseteq Requests
  BY <1>1 DEF Screens
<1>5. /\ next = Append(s.session, m) /\ next \in Sessions /\ Len(next) = Len(s.session) + 1
      /\ Len(s.session) \in Nat /\ Side(next) # Side(s.session)
  BY <1>3, <1>4, AppendSession, SessionIsSeq
<1>6. fin = [s EXCEPT !.cancelled = @ \ {x.id}, !.truncated = @ \ {x.id}, !.aiSearching = FALSE]
  BY DEF Finished
<1> HIDE DEF x, fin, next
<1>7. fin \in Screens
  BY <1>1, <1>6 DEF Screens
<1>8. /\ fin.session = s.session /\ fin.mode = s.mode /\ fin.fg = s.fg
      /\ fin.generation = s.generation /\ fin.comments = s.comments /\ fin.aiJob = s.aiJob
      /\ fin.delayed = s.delayed /\ fin.ids = s.ids
      /\ fin.pendingCoach = s.pendingCoach /\ fin.lastCoachRequest = s.lastCoachRequest
      /\ fin.coachJob = 0 /\ fin.analyzing = NoPly /\ fin.failed = s.failed
      /\ fin.cancelled = s.cancelled \ {x.id} /\ fin.truncated = s.truncated \ {x.id}
      /\ fin.queue = s.queue
  BY <1>1, <1>2, <1>3, <1>6 DEF Screens
<1>9. c = [fin EXCEPT !.comments = kept, !.failed = still]
  BY <1>7, <1>8 DEF CoachSync
<1>10. kept \subseteq Requests /\ still \in 0 .. NoPly
  BY <1>4, Nothing
<1> HIDE DEF c, kept, still
<1>11. /\ c \in Screens /\ c.mode = s.mode /\ c.fg = s.fg
       /\ c.generation = s.generation /\ c.comments = kept /\ c.aiJob = s.aiJob
       /\ c.delayed = s.delayed /\ c.ids = s.ids
       /\ c.pendingCoach = s.pendingCoach /\ c.lastCoachRequest = s.lastCoachRequest
       /\ c.coachJob = 0 /\ c.analyzing = NoPly /\ c.failed = still
       /\ c.cancelled = s.cancelled \ {x.id} /\ c.truncated = s.truncated \ {x.id}
       /\ c.queue = s.queue
  BY <1>7, <1>8, <1>9, <1>10, ZenonT(30) DEF Screens
<1>12. a \in Screens
  BY <1>5, <1>11, ZenonT(30) DEF Screens
<1>13. z \in Screens
  BY <1>12 DEF Screens
<1>14. /\ z.session = next /\ z.mode = s.mode /\ z.fg = s.fg
       /\ z.generation = s.generation /\ z.comments = kept /\ z.aiJob = 0
       /\ z.delayed = s.delayed /\ z.ids = s.ids
       /\ z.pendingCoach = s.pendingCoach /\ z.lastCoachRequest = s.lastCoachRequest
       /\ z.coachJob = 0 /\ z.analyzing = NoPly /\ z.failed = still
       /\ z.cancelled = s.cancelled \ {x.id} /\ z.truncated = s.truncated \ {x.id}
       /\ z.queue = s.queue /\ z.thinking = FALSE
  BY <1>11 DEF Screens
<1>15. a.mode = s.mode
  BY <1>11 DEF Screens
<1>16. s' = IF s.mode = "hva" THEN [StartPendingCoach(a) EXCEPT !.aiJob = 0] ELSE MaybeStartAi(z)
  BY <1>1, <1>15 DEF AiTurnEnds
<1>17. [StartPendingCoach(a) EXCEPT !.aiJob = 0] = StartPendingCoach(z)
  <2> HIDE DEF a
  <2> QED BY <1>12, JobCommutes
<1> HIDE DEF a, z
<1>18. Flying(z, Tail(posts)) \subseteq Flying(s, posts)
  BY <1>1, <1>13, <1>14, FlightLands DEF Fits
<1>19. RequestsFit(z, Tail(posts))
  <2>1. kept \subseteq s.comments
    BY DEF kept
  <2> QED BY <1>1, <1>14, <1>18, <2>1 DEF Fits, RequestsFit
<1>20. CommentsFit(z)
  <2>1. \A r \in kept : r \in Requests /\ StillValidIn(r, s.session)
    BY <1>1, <1>4 DEF Fits, CommentsFit, kept
  <2> QED BY <1>4, <1>5, <1>14, <2>1, ValidAppend DEF CommentsFit
<1>21. FailureFits(z)
  <2> SUFFICES ASSUME still # NoPly PROVE still + 1 < Len(next) /\ still < Len(next)
    BY <1>14 DEF FailureFits
  <2>1. still = s.failed /\ s.failed # NoPly
    BY DEF still
  <2>2. s.failed < Len(s.session)
    BY <1>1, <2>1 DEF Fits, FailureFits
  <2> QED BY <1>4, <1>5, <2>1, <2>2
<1>22. Fits(z, Tail(posts), TRUE) /\ Spins(z, TRUE)
  <2>1. Fits(z, Tail(posts), TRUE)
    BY <1>1, <1>2, <1>13, <1>14, <1>19, <1>20, <1>21, <1>3, LandFits DEF x
  <2> QED BY <1>14, <2>1 DEF Spins
<1>23. CASE s.mode = "hva"
  <2>1. ~AiOwes(z)
    <3>1. Side(s.session) # Human
      BY <1>3, <1>23 DEF AiOwes
    <3>2. Side(next) = Human
      BY <1>5, <3>1, SidesAssumption DEF Side
    <3> QED BY <1>14, <3>2 DEF AiOwes
  <2>2. s' = StartPendingCoach(z)
    BY <1>16, <1>17, <1>23
  <2>3. s' \in Screens /\ Fits(s', Tail(posts), TRUE) /\ Spins(s', TRUE) /\ s'.session = next
    BY <1>13, <1>14, <1>22, <2>1, <2>2, StartPendingCoachFits
  <2>4. ~HumanTurn(s)
    BY <1>3, <1>23 DEF AiOwes, HumanTurn
  <2> QED BY <1>1, <1>3, <1>5, <2>3, <2>4 DEF IInv
<1>24. CASE s.mode # "hva"
  <2>1. s' = MaybeStartAi(z)
    BY <1>16, <1>24
  <2>2. s' \in Screens /\ Fits(s', Tail(posts), TRUE) /\ Spins(s', TRUE) /\ s'.session = next
    BY <1>13, <1>14, <1>22, <2>1, MaybeStartAiFits
  <2> QED BY <1>1, <1>3, <1>5, <1>24, <2>2 DEF IInv, HumanTurn
<1> QED BY <1>23, <1>24

-----------------------------------------------------------------------------
(* The specification *)

\* A new screen: the invariant holds once the first turn may have started.
LEMMA InitInv ==
  ASSUME Init
  PROVE  IInv
<1>1. PICK mode \in {"hva", "ava"} :
        s = MaybeStartAi([Fresh(<< >>, mode, FALSE, {}) EXCEPT !.fg = TRUE])
  BY DEF Init
<1> DEFINE f == Fresh(<< >>, mode, FALSE, {})
           t == [f EXCEPT !.fg = TRUE]
<1>2. posts = << >> /\ alive = TRUE /\ acts = 0
  BY DEF Init
<1>3. f \in Screens
  <2>1. << >> \in Seq(Searches)
    OBVIOUS
  <2> QED BY <2>1, Nothing DEF Fresh, Screens
<1>4. /\ f.session = << >> /\ f.comments = {} /\ f.queue = << >>
      /\ f.aiJob = 0 /\ f.coachJob = 0 /\ f.delayed = NoSearch /\ f.analyzing = NoPly
      /\ f.failed = NoPly /\ f.cancelled = {} /\ f.truncated = {} /\ f.thinking = FALSE
      /\ f.pendingCoach = NoRequest /\ f.lastCoachRequest = NoRequest
  BY DEF Fresh
<1> HIDE DEF f
<1>5. /\ t \in Screens /\ t.session = << >> /\ t.comments = {} /\ t.queue = << >>
      /\ t.aiJob = 0 /\ t.coachJob = 0 /\ t.delayed = NoSearch /\ t.analyzing = NoPly
      /\ t.failed = NoPly /\ t.cancelled = {} /\ t.truncated = {} /\ t.thinking = FALSE
      /\ t.pendingCoach = NoRequest /\ t.lastCoachRequest = NoRequest
  BY <1>3, <1>4 DEF Screens
<1>6. s = MaybeStartAi(t)
  BY <1>1 DEF f
<1> HIDE DEF t
<1>7. << >> \in Seq(Posts) /\ Len(<< >>) + Len(t.queue) = 0 /\ 1 .. 0 = {}
  BY <1>5
<1>8. Flying(t, << >>) = {} /\ Numbered(t, << >>)
  BY <1>7 DEF Flying, Numbered
<1>9. Marked(t, << >>) /\ AiTurnFits(t, << >>, TRUE) /\ CoachFits(t, << >>, TRUE)
  BY <1>5, <1>8 DEF Marked, AiTurnFits, CoachFits
<1>10. RequestsFit(t, << >>) /\ FailureFits(t) /\ CommentsFit(t)
  BY <1>5, <1>8 DEF RequestsFit, FailureFits, CommentsFit, OfHuman
<1>11. Fits(t, << >>, TRUE) /\ Spins(t, TRUE)
  BY <1>5, <1>7, <1>8, <1>9, <1>10 DEF Fits, Spins
<1>12. Fits(s, << >>, TRUE) /\ Spins(s, TRUE)
  BY <1>5, <1>6, <1>11, MaybeStartAiFits
<1> QED BY <1>2, <1>12 DEF IInv

\* What a step leaves of the game, when it is no action of the user.
NoStray ==
  acts' = acts =>
    \/ s'.session = s.session
    \/ /\ ~Over(s.session) /\ ~HumanTurn(s)
       /\ \E m \in Moves : s'.session = Append(s.session, m)

\* Every step keeps the invariant and plays no move that is not the AI's.
LEMMA NextInv ==
  ASSUME IInv, [Next]_vars
  PROVE  IInv' /\ NoStray
<1>1. CASE \E m \in Moves : PlayHuman(m)
  BY <1>1, PlayHumanInv, UserActsFacts DEF PlayHuman, NoStray
<1>2. CASE Undo
  BY <1>2, UndoInv, UserActsFacts DEF Undo, NoStray
<1>3. CASE \E mode \in {"hva", "ava"} : NewGame(mode)
  BY <1>3, NewGameInv, UserActsFacts DEF NewGame, NoStray
<1>4. CASE TogglePause
  BY <1>4, TogglePauseInv, UserActsFacts DEF TogglePause, NoStray
<1>5. CASE RetryCoach
  BY <1>5, RetryCoachInv, UserActsFacts DEF RetryCoach, NoStray
<1>6. CASE Background
  BY <1>6, BackgroundInv, UserActsFacts DEF Background, NoStray
<1>7. CASE Foreground
  BY <1>7, ForegroundInv DEF NoStray
<1>8. CASE ProcessDeath
  BY <1>8, ProcessDeathInv DEF NoStray
<1>9. CASE Cleared
  BY <1>9, ClearedInv DEF NoStray
<1>10. CASE EngineEnds
  BY <1>10, EngineEndsInv DEF NoStray
<1>11. CASE AiTurn
  <2>1. CASE DelayEnds
    BY <2>1, DelayEndsInv DEF NoStray
  <2>2. CASE AiNoMove
    BY <2>2, AiNoMoveInv DEF NoStray
  <2>3. CASE \E m \in Moves : AiMove(m)
    BY <2>3, AiMoveInv DEF NoStray
  <2> QED BY <1>11, <2>1, <2>2, <2>3 DEF AiTurn
<1>12. CASE CoachResult
  BY <1>12, CoachResultInv DEF NoStray
<1>13. CASE NewGameDone
  BY <1>13, NewGameDoneInv DEF NoStray
<1>14. CASE UNCHANGED vars
  BY <1>14 DEF vars, IInv, NoStray
<1> QED BY <1>1, <1>2, <1>3, <1>4, <1>5, <1>6, <1>7, <1>8, <1>9, <1>10, <1>11, <1>12, <1>13,
           <1>14 DEF Next

\* Every reachable screen satisfies the inductive invariant.
THEOREM GameInvCorrect == Spec => []IInv
<1>1. Init => IInv
  BY InitInv
<1>2. IInv /\ [Next]_vars => IInv'
  BY NextInv
<1> QED BY <1>1, <1>2, PTL DEF Spec

-----------------------------------------------------------------------------
(* What it means *)

\* The ids in flight are those of the searches under way.
LEMMA InFlightIds ==
  ASSUME IInv
  PROVE  InFlight = {x.id : x \in Flying(s, posts)}
<1> DEFINE a == Len(posts)
           n == Len(s.queue)
           F == Flight(s, posts)
<1>1. /\ a \in Nat /\ n \in Nat /\ s.queue \in Seq(Searches) /\ posts \in Seq(Posts)
      /\ \A i \in 1 .. a : F[i] = posts[i].search
      /\ \A i \in 1 .. n : F[a + i] = s.queue[i]
  BY FlightFacts DEF IInv, Fits
<1>2. Flying(s, posts) = {F[i] : i \in 1 .. a + n}
  BY DEF Flying
<1>3. DOMAIN posts = 1 .. a /\ DOMAIN s.queue = 1 .. n
  BY <1>1
<1> HIDE DEF F, a, n
<1>4. \A i \in 1 .. a + n : i \in 1 .. a \/ \E j \in 1 .. n : i = a + j
  <2> SUFFICES ASSUME NEW i \in 1 .. a + n, i \notin 1 .. a PROVE \E j \in 1 .. n : i = a + j
    OBVIOUS
  <2>1. i - a \in 1 .. n /\ i = a + (i - a)
    BY <1>1
  <2> QED BY <2>1
<1>5. \A i \in 1 .. a : i \in 1 .. a + n
  BY <1>1
<1>6. \A j \in 1 .. n : a + j \in 1 .. a + n
  BY <1>1
<1>7. InFlight = {s.queue[j].id : j \in 1 .. n} \cup {posts[i].search.id : i \in 1 .. a}
  BY <1>3 DEF InFlight, Range
<1>8. ASSUME NEW y \in InFlight PROVE \E x \in Flying(s, posts) : x.id = y
  <2>1. CASE \E j \in 1 .. n : y = s.queue[j].id
    BY <1>1, <1>2, <1>6, <2>1
  <2>2. CASE \E i \in 1 .. a : y = posts[i].search.id
    BY <1>1, <1>2, <1>5, <2>2
  <2> QED BY <1>7, <2>1, <2>2
<1>9. ASSUME NEW x \in Flying(s, posts) PROVE x.id \in InFlight
  <2>1. PICK i \in 1 .. a + n : x = F[i]
    BY <1>2
  <2>2. CASE i \in 1 .. a
    BY <1>1, <1>7, <2>1, <2>2
  <2>3. ASSUME NEW j \in 1 .. n, i = a + j PROVE x.id \in InFlight
    <3>1. x = s.queue[j]
      BY <1>1, <2>1, <2>3
    <3> QED BY <1>7, <3>1
  <2> QED BY <1>4, <2>2, <2>3
<1> QED BY <1>8, <1>9

\* A search is one.
LEMMA SearchesAre ==
  \A x \in Searches : IsSearch(x)
  BY DEF Searches, IsSearch

\* Types, and only ids that were handed out.
LEMMA IInvTypes == IInv => TypeOK
<1> SUFFICES ASSUME IInv PROVE TypeOK
  OBVIOUS
<1>1. s \in Screens /\ posts \in Seq(Posts) /\ Fits(s, posts, alive) /\ alive \in BOOLEAN
  BY DEF IInv, Fits
<1>2. s.session \in Sessions /\ s.mode \in {"hva", "ava"}
  BY <1>1 DEF Screens
<1>3. {s.paused, s.fg, s.thinking, s.aiSearching, alive} \subseteq BOOLEAN
  BY <1>1 DEF Screens
<1>4. {s.pendingCoach, s.lastCoachRequest} \cup s.comments \subseteq Requests
  BY <1>1 DEF Screens
<1>5. {s.analyzing, s.failed} \subseteq 0 .. NoPly
  BY <1>1 DEF Screens
<1>6. IsSearch(s.delayed) /\ \A x \in Range(s.queue) : IsSearch(x)
  <2>1. s.delayed \in Searches /\ s.queue \in Seq(Searches)
    BY <1>1 DEF Screens
  <2>2. \A i \in DOMAIN s.queue : s.queue[i] \in Searches
    BY <2>1
  <2> QED BY <2>1, <2>2, SearchesAre DEF Range
<1>7. \A p \in Range(posts) : IsSearch(p.search) /\ p.outcome \in {"move", "nothing"}
  <2>1. \A i \in DOMAIN posts : posts[i] \in Posts
    BY <1>1
  <2> QED BY <2>1, SearchesAre DEF Range, Posts
<1>8. s.cancelled \cup s.truncated \subseteq InFlight
  BY <1>1, InFlightIds DEF Fits, Marked
<1>9. InFlight \cup {s.aiJob, s.coachJob, s.delayed.id} \subseteq 0 .. s.ids
  <2>1. s.ids \in Nat
    BY <1>1 DEF Screens
  <2>2. InFlight \subseteq 0 .. s.ids
    <3>1. \A x \in Flying(s, posts) : x.id \in 1 .. s.ids
      BY <1>1 DEF Fits, Numbered
    <3>2. \A i \in 1 .. s.ids : i \in 0 .. s.ids
      BY <2>1
    <3> QED BY <3>1, <3>2, InFlightIds
  <2>3. s.delayed.id \in 0 .. s.ids
    <3>1. CASE s.delayed = NoSearch
      BY <2>1, <3>1 DEF NoSearch, Search
    <3>2. CASE s.delayed # NoSearch
      BY <1>1, <2>1, <3>2 DEF Fits, AiTurnFits
    <3> QED BY <3>1, <3>2
  <2>4. s.aiJob \in 0 .. s.ids
    <3>1. CASE s.aiJob = 0
      BY <2>1, <3>1
    <3>2. CASE s.aiJob # 0
      <4>1. PICK x \in Flying(s, posts) \cup {s.delayed} : IsAiTurn(s, x)
        BY <1>1, <3>2 DEF Fits, AiTurnFits
      <4> QED BY <2>2, <2>3, <4>1, InFlightIds DEF IsAiTurn
    <3> QED BY <3>1, <3>2
  <2>5. s.coachJob \in 0 .. s.ids
    <3>1. CASE s.coachJob = 0
      BY <2>1, <3>1
    <3>2. CASE s.coachJob # 0
      BY <1>1, <2>2, <3>2, InFlightIds DEF Fits, CoachFits
    <3> QED BY <3>1, <3>2
  <2> QED BY <2>2, <2>3, <2>4, <2>5
<1> QED BY <1>2, <1>3, <1>4, <1>5, <1>6, <1>7, <1>8, <1>9 DEF TypeOK

\* The screen's records agree in every reachable state: types, the AI before
\* the coach ("so the two searches never overlap"), and a search behind every
\* spinner.
THEOREM ScreenAgreesCorrect == Spec => []ScreenAgrees
<1>1. IInv => ScreenAgrees
  <2> SUFFICES ASSUME IInv PROVE AiFirst /\ SpinnersEnd
    BY IInvTypes DEF ScreenAgrees
  <2>1. Fits(s, posts, alive) /\ Spins(s, alive)
    BY DEF IInv
  <2>2. AiFirst
    BY <2>1 DEF AiFirst, Fits, AiTurnFits
  <2>3. ASSUME alive, s.thinking
        PROVE  /\ s.aiJob # 0 /\ s.aiJob \notin s.cancelled
               /\ s.aiJob \in InFlight \cup {s.delayed.id}
    <3>1. s.aiJob # 0
      BY <2>1, <2>3 DEF Spins
    <3>2. PICK x \in Flying(s, posts) \cup {s.delayed} : IsAiTurn(s, x)
      BY <2>1, <3>1 DEF Fits, AiTurnFits
    <3>3. s.aiJob \notin s.cancelled
      BY <2>1, <3>1 DEF Fits, AiTurnFits
    <3> QED BY <3>1, <3>2, <3>3, InFlightIds DEF IsAiTurn
  <2>4. s.analyzing # NoPly => s.coachJob \in InFlight \ s.cancelled
    BY <2>1, InFlightIds DEF Fits, CoachFits
  <2> QED BY <2>2, <2>3, <2>4 DEF SpinnersEnd
<1> QED BY <1>1, GameInvCorrect, PTL

\* engine.stop() never cuts a search short whose result the screen still uses.
THEOREM UsesWholeSearchesCorrect == Spec => []UsesWholeSearches
<1>1. IInv => UsesWholeSearches
  <2> SUFFICES ASSUME IInv PROVE UsesWholeSearches
    OBVIOUS
  <2>1. Fits(s, posts, alive) /\ s \in Screens
    BY DEF IInv, Fits
  <2>2. s.aiJob \notin s.truncated
    BY <2>1 DEF Fits, AiTurnFits, Marked, Numbered
  <2>3. s.coachJob \notin s.truncated
    BY <2>1 DEF Fits, CoachFits, Marked, Numbered
  <2> QED BY <2>2, <2>3 DEF UsesWholeSearches
<1> QED BY <1>1, GameInvCorrect, PTL

\* Every verdict on the screen is about a move of the game on the screen, made
\* in the position it was in, and in a game against the AI a move of the human.
THEOREM VerdictsFitCorrect == Spec => []VerdictsFit
<1>1. IInv => VerdictsFit
  <2> SUFFICES ASSUME IInv, NEW c \in s.comments
               PROVE  StillValidIn(c, s.session) /\ Side(c.pre) = Human
    BY DEF VerdictsFit
  <2>1. Fits(s, posts, alive) /\ s \in Screens
    BY DEF IInv, Fits
  <2>2. StillValidIn(c, s.session) /\ OfHuman(c)
    BY <2>1 DEF Fits, CommentsFit, RequestsFit
  <2>3. c \in Requests /\ s.session \in Sessions
    BY <2>1 DEF Screens
  <2>4. c # NoRequest
    BY <2>2, <2>3, ValidIsReal
  <2> QED BY <2>2, <2>4 DEF OfHuman
<1> QED BY <1>1, GameInvCorrect, PTL

\* The answer to an outdated search never reaches the board.
THEOREM NoStrayMoveCorrect == Spec => NoStrayMove
<1>1. IInv /\ [Next]_vars => [NoStray]_vars
  BY NextInv
<1> QED BY <1>1, GameInvCorrect, PTL DEF Spec, NoStrayMove, NoStray
=============================================================================
