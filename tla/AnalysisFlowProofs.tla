-------------------------- MODULE AnalysisFlowProofs --------------------------
(*****************************************************************************)
(* The analysis screen shows what belongs to its board (ShownFitsKey), its   *)
(* controller and the engine agree (ControllerAgrees), it keeps no analysis  *)
(* that it cut short itself (NeverOwnCut) and at rest shows one of full      *)
(* strength (FullStrength), for any positions, strengths and cache sizes and *)
(* any number of actions.                                                    *)
(*****************************************************************************)
EXTENDS AnalysisFlow, FiniteSetTheorems, TLAPS

-----------------------------------------------------------------------------
(* The types of a screen *)

Cuts == {"no", "own", "other"}
Keys == {StateKey[p] : p \in Positions} \cup {NoKey}

Snapshots ==
  [id : Nat, of : Positions \cup {NoPosition}, budget : Nat, time : Nat,
   final : BOOLEAN, error : BOOLEAN, cut : Cuts]
UiStates == [running : BOOLEAN, snapshot : Snapshots, key : Keys, error : BOOLEAN]
Jobs ==
  [phase : {"none", "debounce", "collect"}, id : Nat, pos : Positions \cup {NoPosition},
   budget : Nat, inbox : Seq(Snapshots), thrown : BOOLEAN]
Work ==
  [kind : {"analyze", "other", "newGame"}, id : Nat, pos : Positions \cup {NoPosition},
   budget : Nat, phase : {"setup", "searching"}, cut : Cuts, cancelled : BOOLEAN, told : Nat]
Entries == [key : Keys, snapshot : Snapshots]
Screens ==
  [session : Positions, strength : Strengths, auto : BOOLEAN, saved : BOOLEAN,
   analysis : UiStates, currentId : Nat, job : Jobs, state : UiStates,
   cache : Seq(Entries), queue : Seq(Work), fg : BOOLEAN, gone : BOOLEAN, other : BOOLEAN]

-----------------------------------------------------------------------------
(* The inductive invariant *)

\* An analysis on display is one of the position that its key is made of.
KeyFits(u) ==
  u.snapshot # NoSnapshot => u.snapshot.of \in Positions /\ u.key = StateKey[u.snapshot.of]

\* The cache has one entry of a key at most, a whole analysis of its position.
EntryFits(e) ==
  /\ e.snapshot.of \in Positions /\ e.key = StateKey[e.snapshot.of]
  /\ e.snapshot.final /\ ~e.snapshot.error /\ e.snapshot.cut # "own"
CacheFits(cache) ==
  /\ Len(cache) <= CacheSize
  /\ \A i, j \in DOMAIN cache : cache[i].key = cache[j].key => i = j
  /\ \A i \in DOMAIN cache : EntryFits(cache[i])

\* The screen is on, and there is something to analyze.
OnBoard(t) == t.auto /\ t.fg /\ ~t.gone /\ t.session \notin Over

\* A job is one of the last request, about the position on the board and with
\* the strength chosen; the spinner turns during it.
JobFits(t) ==
  /\ t.job.phase = "none" => t.job = NoJob
  /\ t.job.phase # "none" =>
       /\ OnBoard(t)
       /\ t.job.id = t.currentId /\ t.job.pos = t.session /\ t.job.budget = t.strength
       /\ t.state.key = StateKey[t.session]
  /\ t.state.running <=> t.job.phase # "none"
  /\ t.job.phase = "debounce" => t.job.inbox = << >> /\ ~t.job.thrown

\* What is delivered to a job is its own, and not cut short by this screen.
InboxFits(j) ==
  \A i \in DOMAIN j.inbox :
    LET snap == j.inbox[i]
    IN  snap.id = j.id /\ snap.of = j.pos /\ snap.budget = j.budget /\ snap.cut # "own"

\* A search of this screen is the one its job collects and has no result of,
\* unless it is cancelled; and only the search that has the engine can be cancelled and still be there.
Live(q) == {i \in DOMAIN q : q[i].kind = "analyze" /\ ~q[i].cancelled}
QueueFits(q, j) ==
  /\ \A i \in Live(q) :
       /\ j.phase = "collect" /\ q[i].cut # "own"
       /\ q[i].id = j.id /\ q[i].pos = j.pos /\ q[i].budget = j.budget
  /\ Live(q) # {} => ~j.thrown /\ \A i \in DOMAIN j.inbox : ~j.inbox[i].final
  /\ \A i, k \in Live(q) : i = k
  /\ \A i \in DOMAIN q : q[i].kind = "analyze" /\ i # 1 => ~q[i].cancelled

\* The state of the controller, whose snapshot is no result cut by this screen.
ShownWhole(u) == u.snapshot.final => u.snapshot.cut # "own"

\* At rest the analysis is one of the strength chosen.
StrongEnough(t) ==
  OnBoard(t) /\ ~t.state.running /\ ~t.state.error /\ t.state.snapshot.cut = "no" =>
    \/ t.strength = Unlimited
    \/ t.state.snapshot.budget = t.strength
    \/ 10 * t.state.snapshot.time >= 8 * t.strength

\* What a request finds, and what it does not care about.
Ready(t) == t \in Screens /\ KeyFits(t.analysis) /\ CacheFits(t.cache) /\ QueueFits(t.queue, t.job)
Shows(t) == KeyFits(t.state) /\ ShownWhole(t.state)

Fits(t) == Ready(t) /\ Shows(t) /\ JobFits(t) /\ InboxFits(t.job) /\ StrongEnough(t)

IInv == Fits(s) /\ acts \in Nat

-----------------------------------------------------------------------------
(* Lists and the queue *)

\* The strengths are time limits.
LEMMA StrengthsAreNat == Strengths \subseteq Nat /\ Unlimited \in Strengths
  BY StrengthsAssumption DEF Strengths

\* The constants are what their types say.
LEMMA ConstantFacts ==
  /\ NoSnapshot \in Snapshots /\ NoUiState \in UiStates /\ NoJob \in Jobs
  /\ \A p \in Positions : StateKey[p] \in Keys /\ StateKey[p] # NoKey
  /\ NoPosition \notin Positions /\ NoKey \in Keys
<1>1. NoSnapshot \in Snapshots
  BY DEF NoSnapshot, Snapshots, Cuts
<1>2. NoUiState \in UiStates
  BY <1>1 DEF NoUiState, UiState, UiStates, Keys
<1>3. << >> \in Seq(Snapshots)
  OBVIOUS
<1>4. NoJob \in Jobs
  BY <1>3 DEF NoJob, Jobs
<1> QED
  BY <1>1, <1>2, <1>4, PositionsAssumption DEF Keys

\* What Dropped leaves: the other elements, in their order.
LEMMA DroppedFacts ==
  ASSUME NEW S, NEW list \in Seq(S), NEW I \in SUBSET DOMAIN list
  PROVE  /\ Dropped(list, I) \in Seq(S)
         /\ I = {} => Dropped(list, I) = list
         /\ I # {} => \E i \in I :
              /\ i = (CHOOSE k \in I : TRUE)
              /\ Len(Dropped(list, I)) = Len(list) - 1
              /\ \A k \in DOMAIN Dropped(list, I) :
                   Dropped(list, I)[k] = list[IF k < i THEN k ELSE k + 1]
<1>1. CASE I = {}
  BY <1>1 DEF Dropped
<1>2. CASE I # {}
  <2> DEFINE i == CHOOSE k \in I : TRUE
             a == SubSeq(list, 1, i - 1)
             b == SubSeq(list, i + 1, Len(list))
  <2>1. i \in I /\ i \in 1 .. Len(list)
    BY <1>2
  <2>2. Dropped(list, I) = a \o b
    BY <1>2 DEF Dropped, RemoveAt
  <2> HIDE DEF i
  <2>3. a \in Seq(S) /\ Len(a) = i - 1 /\ \A k \in 1 .. i - 1 : a[k] = list[k]
    BY <2>1
  <2>4. b \in Seq(S) /\ Len(b) = Len(list) - i /\ \A k \in 1 .. Len(list) - i : b[k] = list[i + k]
    BY <2>1
  <2> HIDE DEF a, b
  <2> DEFINE d == a \o b
  <2>5. d \in Seq(S) /\ Len(d) = Len(list) - 1
    BY <2>1, <2>3, <2>4
  <2>6. ASSUME NEW k \in DOMAIN d PROVE d[k] = list[IF k < i THEN k ELSE k + 1]
    <3>1. k \in 1 .. Len(list) - 1
      BY <2>5
    <3>2. CASE k < i
      BY <3>1, <3>2, <2>1, <2>3, <2>4
    <3>3. CASE ~(k < i)
      <4>1. d[k] = b[k - (i - 1)]
        BY <3>1, <3>3, <2>1, <2>3, <2>4
      <4>2. k - (i - 1) \in 1 .. Len(list) - i /\ i + (k - (i - 1)) = k + 1
        BY <3>1, <3>3, <2>1
      <4> QED
        BY <4>1, <4>2, <3>3, <2>4
    <3> QED
      BY <3>2, <3>3
  <2> HIDE DEF d
  <2>7. Dropped(list, I) = d
    BY <2>2 DEF d
  <2>8. i = (CHOOSE k \in I : TRUE)
    BY DEF i
  <2> QED
    BY <1>2, <2>1, <2>5, <2>6, <2>7, <2>8
<1> QED
  BY <1>1, <1>2

\* A cancelled collector leaves no search of its own that goes on.
LEMMA CancelFacts ==
  ASSUME NEW q \in Seq(Work), NEW j, QueueFits(q, j)
  PROVE  CancelSearch(q, j.id) \in Seq(Work) /\ QueueFits(CancelSearch(q, j.id), NoJob)
<1> DEFINE mine   == {i \in DOMAIN q : q[i].kind = "analyze" /\ q[i].id = j.id}
           marked == IF 1 \in mine THEN [q EXCEPT ![1].cancelled = TRUE] ELSE q
           r      == Dropped(marked, mine \ {1})
<1>1. CancelSearch(q, j.id) = r
  BY DEF CancelSearch
<1>2. /\ marked \in Seq(Work) /\ Len(marked) = Len(q)
      /\ \A i \in DOMAIN q : i # 1 => marked[i] = q[i]
      /\ 1 \in mine => marked[1].cancelled
      /\ 1 \notin mine => marked = q
  <2>1. CASE 1 \in mine
    <3> DEFINE w == [q[1] EXCEPT !.cancelled = TRUE]
    <3>1. q[1] \in Work
      BY <2>1
    <3>2. w \in Work /\ w.cancelled
      BY <3>1 DEF Work
    <3>3. marked = [q EXCEPT ![1] = w]
      BY <2>1
    <3> HIDE DEF w, marked
    <3> QED
      BY <2>1, <3>2, <3>3
  <2>2. CASE 1 \notin mine
    BY <2>2
  <2> QED
    BY <2>1, <2>2
<1> HIDE DEF marked
<1>3. mine \ {1} \in SUBSET DOMAIN marked
  BY <1>2
<1>4. \A i \in DOMAIN q : q[i].kind = "analyze" /\ i # 1 => i \in Live(q) /\ i \in mine
  BY DEF QueueFits, Live
<1>5. 1 \in Live(q) => 1 \in mine
  BY DEF QueueFits, Live
<1>6. \A i, k \in Live(q) : i = k
  BY DEF QueueFits
<1>7. r \in Seq(Work)
  BY <1>2, <1>3, DroppedFacts
<1>8. \A k \in DOMAIN r : r[k].kind = "analyze" => k = 1 /\ r[k].cancelled
  <2>1. CASE mine \ {1} = {}
    <3>1. r = marked
      BY <1>2, <1>3, <2>1, DroppedFacts
    <3> SUFFICES ASSUME NEW k \in DOMAIN q, marked[k].kind = "analyze"
                 PROVE  k = 1 /\ marked[k].cancelled
      BY <3>1, <1>2
    <3>2. k = 1
      BY <1>2, <1>4, <2>1
    <3>3. 1 \notin mine => q[1].kind # "analyze" \/ q[1].cancelled
      BY <1>5, <3>2 DEF Live
    <3> QED
      BY <3>2, <3>3, <1>2
  <2>2. CASE mine \ {1} # {}
    <3>1. PICK i \in mine \ {1} :
            /\ Len(r) = Len(marked) - 1
            /\ \A k \in DOMAIN r : r[k] = marked[IF k < i THEN k ELSE k + 1]
      BY <1>2, <1>3, <2>2, DroppedFacts, ZenonT(30)
    <3>2. i \in Live(q) /\ i \in 2 .. Len(q)
      BY <1>4, <1>2
    <3>3. ASSUME NEW k \in DOMAIN r, r[k].kind = "analyze"
          PROVE  k = 1 /\ r[k].cancelled
      <4> DEFINE n == IF k < i THEN k ELSE k + 1
      <4>1. n \in 1 .. Len(q) /\ n # i /\ (n = 1 => k = 1) /\ r[k] = marked[n]
        BY <3>1, <3>2, <3>3, <1>2, <1>7
      <4> HIDE DEF n
      <4>2. n = 1
        BY <4>1, <3>2, <3>3, <1>2, <1>4, <1>6
      <4>3. 1 \notin Live(q)
        BY <3>2, <1>6
      <4>4. 1 \notin mine => q[1].cancelled \/ q[1].kind # "analyze"
        BY <4>1, <4>2, <4>3 DEF Live
      <4> QED
        BY <4>1, <4>2, <4>4, <3>3, <1>2
    <3> QED
      BY <3>3
  <2> QED
    BY <2>1, <2>2
<1> HIDE DEF r
<1>9. Live(r) = {}
  BY <1>8 DEF Live
<1> QED
  BY <1>1, <1>7, <1>8, <1>9 DEF QueueFits

\* A stop() of this screen comes after the cancellation, so no stop() of its own
\* cuts a search whose result it still awaits.
LEMMA StopFacts ==
  ASSUME NEW q \in Seq(Work), NEW j, QueueFits(q, j), NEW by \in Cuts,
         by = "own" => Live(q) = {}
  PROVE  Stop(q, by) \in Seq(Work) /\ QueueFits(Stop(q, by), j)
<1>1. CASE Stop(q, by) = q
  BY <1>1
<1>2. CASE Stop(q, by) # q
  <2> DEFINE w == [q[1] EXCEPT !.cut = by]
             r == [q EXCEPT ![1] = w]
  <2>1. q # << >> /\ Stop(q, by) = r
    BY <1>2 DEF Stop
  <2>2. 1 \in DOMAIN q /\ q[1] \in Work
    BY <2>1
  <2>3. w \in Work /\ w.cut = by /\ w.kind = q[1].kind /\ w.id = q[1].id /\ w.pos = q[1].pos
        /\ w.budget = q[1].budget /\ w.cancelled = q[1].cancelled
    BY <2>2 DEF Work
  <2> HIDE DEF w
  <2>4. r \in Seq(Work) /\ DOMAIN r = DOMAIN q /\ r[1] = w /\ \A i \in DOMAIN q : i # 1 => r[i] = q[i]
    BY <2>2, <2>3
  <2> HIDE DEF r
  <2>5. Live(r) = Live(q)
    BY <2>3, <2>4 DEF Live
  <2>6. QueueFits(r, j)
    <3>1. ASSUME NEW i \in Live(q)
          PROVE  j.phase = "collect" /\ r[i].cut # "own" /\ r[i].id = j.id
                 /\ r[i].pos = j.pos /\ r[i].budget = j.budget
      BY <3>1, <2>3, <2>4 DEF QueueFits, Live
    <3> QED
      BY <3>1, <2>3, <2>4, <2>5 DEF QueueFits
  <2> QED
    BY <2>1, <2>4, <2>6
<1> QED
  BY <1>1, <1>2
-----------------------------------------------------------------------------
(* The cache *)

\* The entries of a cache that fits have different keys.
LEMMA SlotFacts ==
  ASSUME NEW c \in Seq(Entries), CacheFits(c), NEW key
  PROVE  /\ Slots(c, key) \in SUBSET DOMAIN c
         /\ Slots(c, key) # {} =>
              /\ Slot(c, key) \in Slots(c, key)
              /\ \A i \in DOMAIN c : i # Slot(c, key) => c[i].key # key
<1>1. Slots(c, key) \in SUBSET DOMAIN c
  BY DEF Slots
<1>2. ASSUME Slots(c, key) # {}
      PROVE  Slot(c, key) \in Slots(c, key)
  BY <1>2 DEF Slot
<1>3. ASSUME NEW i \in DOMAIN c, i # Slot(c, key), c[i].key = key
      PROVE  Slots(c, key) = {}
  BY <1>2, <1>3 DEF Slots, CacheFits
<1> QED
  BY <1>1, <1>2, <1>3

\* Without the entry of a key, a cache still fits and has room for it.
LEMMA CacheWithout ==
  ASSUME NEW c \in Seq(Entries), CacheFits(c), NEW key
  PROVE  LET d == Dropped(c, Slots(c, key))
         IN  /\ d \in Seq(Entries) /\ CacheFits(d)
             /\ \A i \in DOMAIN d : d[i].key # key
             /\ Slots(c, key) # {} => Len(d) = Len(c) - 1
<1> DEFINE d == Dropped(c, Slots(c, key))
<1>1. Slots(c, key) \in SUBSET DOMAIN c
  BY SlotFacts
<1>2. CASE Slots(c, key) = {}
  <2>1. d = c
    BY <1>2, <1>1, DroppedFacts
  <2> QED
    BY <2>1, <1>2 DEF Slots
<1>3. CASE Slots(c, key) # {}
  <2>0. PICK i \in Slots(c, key) :
          /\ i = (CHOOSE k \in Slots(c, key) : TRUE)
          /\ Len(d) = Len(c) - 1
          /\ \A k \in DOMAIN d : d[k] = c[IF k < i THEN k ELSE k + 1]
    BY <1>1, <1>3, DroppedFacts
  <2> DEFINE f(k) == IF k < i THEN k ELSE k + 1
  <2>1. d \in Seq(Entries) /\ Len(d) = Len(c) - 1 /\ \A k \in DOMAIN d : d[k] = c[f(k)]
    BY <1>1, <2>0, DroppedFacts
  <2>10. i = Slot(c, key)
    BY <2>0 DEF Slot
  <2>2. i \in 1 .. Len(c) /\ \A k \in DOMAIN c : k # i => c[k].key # key
    BY <1>1, <1>3, <2>10, SlotFacts
  <2> HIDE DEF d
  <2>3. ASSUME NEW k \in DOMAIN d
        PROVE  f(k) \in DOMAIN c /\ f(k) # i
    BY <2>1, <2>2
  <2>4. ASSUME NEW k \in DOMAIN d, NEW m \in DOMAIN d, f(k) = f(m)
        PROVE  k = m
    BY <2>1, <2>2, <2>4
  <2> HIDE DEF f
  <2>5. \A k \in DOMAIN d : d[k].key # key
    BY <2>1, <2>2, <2>3
  <2>6. \A k, m \in DOMAIN d : d[k].key = d[m].key => k = m
    BY <2>1, <2>3, <2>4 DEF CacheFits
  <2>7. \A k \in DOMAIN d : EntryFits(d[k])
    BY <2>1, <2>3 DEF CacheFits
  <2>8. Len(d) <= CacheSize
    BY <2>1, BoundsAssumption DEF CacheFits
  <2>9. CacheFits(d)
    BY <2>6, <2>7, <2>8 DEF CacheFits
  <2> QED
    BY <1>3, <2>1, <2>5, <2>9 DEF d
<1> QED
  BY <1>2, <1>3

\* A cache without the key of an entry takes the entry at its end.
LEMMA CacheAppend ==
  ASSUME NEW c \in Seq(Entries), NEW e \in Entries, EntryFits(e),
         \A i \in DOMAIN c : EntryFits(c[i]) /\ c[i].key # e.key,
         \A i, j \in DOMAIN c : c[i].key = c[j].key => i = j
  PROVE  LET a == Append(c, e)
         IN  /\ a \in Seq(Entries) /\ Len(a) = Len(c) + 1
             /\ \A i, j \in DOMAIN a : a[i].key = a[j].key => i = j
             /\ \A i \in DOMAIN a : EntryFits(a[i])
<1> DEFINE a == Append(c, e)
<1>1. /\ a \in Seq(Entries) /\ Len(a) = Len(c) + 1 /\ a[Len(c) + 1] = e
      /\ \A i \in DOMAIN c : a[i] = c[i]
      /\ \A i \in DOMAIN a : i \in DOMAIN c \/ i = Len(c) + 1
  OBVIOUS
<1> HIDE DEF a
<1>2. \A i, j \in DOMAIN a : a[i].key = a[j].key => i = j
  BY <1>1
<1>3. \A i \in DOMAIN a : EntryFits(a[i])
  BY <1>1
<1> QED
  BY <1>1, <1>2, <1>3 DEF a

\* Reading the cache moves an entry to its end.
LEMMA CacheTouchFits ==
  ASSUME NEW c \in Seq(Entries), CacheFits(c), NEW key
  PROVE  CacheTouch(c, key) \in Seq(Entries) /\ CacheFits(CacheTouch(c, key))
<1>1. CASE Slots(c, key) = {}
  BY <1>1 DEF CacheTouch
<1>2. CASE Slots(c, key) # {}
  <2> DEFINE d == Dropped(c, Slots(c, key))
             e == c[Slot(c, key)]
             a == Append(d, e)
  <2>1. d \in Seq(Entries) /\ CacheFits(d) /\ (\A i \in DOMAIN d : d[i].key # key)
        /\ Len(d) = Len(c) - 1
    BY <1>2, CacheWithout
  <2>2. Slot(c, key) \in DOMAIN c /\ e.key = key
    BY <1>2, SlotFacts DEF Slots
  <2>3. e \in Entries /\ EntryFits(e)
    BY <2>2 DEF CacheFits
  <2> HIDE DEF d, e
  <2>4. /\ a \in Seq(Entries) /\ Len(a) = Len(d) + 1
        /\ \A i, j \in DOMAIN a : a[i].key = a[j].key => i = j
        /\ \A i \in DOMAIN a : EntryFits(a[i])
    BY <2>1, <2>2, <2>3, CacheAppend DEF CacheFits
  <2>5. CacheTouch(c, key) = a
    BY <1>2 DEF CacheTouch, d, e
  <2> HIDE DEF a
  <2>6. Len(a) <= CacheSize
    BY <2>1, <2>4 DEF CacheFits
  <2> QED
    BY <2>4, <2>5, <2>6 DEF CacheFits
<1> QED
  BY <1>1, <1>2

\* A whole analysis under the key of its position is put in, and the entry
\* that was not used for longest may go.
LEMMA CachePutFits ==
  ASSUME NEW c \in Seq(Entries), CacheFits(c), NEW snap \in Snapshots,
         EntryFits([key |-> StateKey[snap.of], snapshot |-> snap])
  PROVE  LET new == CachePut(c, StateKey[snap.of], snap)
         IN  new \in Seq(Entries) /\ CacheFits(new)
<1> DEFINE key == StateKey[snap.of]
           e   == [key |-> key, snapshot |-> snap]
           d   == Dropped(c, Slots(c, key))
           a   == Append(d, e)
           b   == Tail(a)
<1>1. e \in Entries /\ EntryFits(e) /\ e.key = key
  BY ConstantFacts DEF Entries, EntryFits
<1>2. d \in Seq(Entries) /\ CacheFits(d) /\ (\A i \in DOMAIN d : d[i].key # key)
  BY CacheWithout
<1>3. CachePut(c, key, snap) = IF Len(a) > CacheSize THEN b ELSE a
  BY DEF CachePut
<1> HIDE DEF d, e
<1>4. /\ a \in Seq(Entries) /\ Len(a) = Len(d) + 1
      /\ \A i, j \in DOMAIN a : a[i].key = a[j].key => i = j
      /\ \A i \in DOMAIN a : EntryFits(a[i])
  BY <1>1, <1>2, CacheAppend DEF CacheFits
<1> HIDE DEF a
<1>5. Len(d) <= CacheSize /\ Len(d) \in Nat /\ CacheSize \in Nat
  BY <1>2, BoundsAssumption DEF CacheFits
<1>6. CASE Len(a) > CacheSize
  <2>1. a # << >>
    BY <1>4, <1>5
  <2>2. b \in Seq(Entries) /\ Len(b) = Len(a) - 1 /\ \A i \in DOMAIN b : b[i] = a[i + 1] /\ i + 1 \in DOMAIN a
    BY <1>4, <2>1
  <2> HIDE DEF b
  <2>3. Len(b) <= CacheSize
    BY <2>2, <1>4, <1>5
  <2>4. \A i, j \in DOMAIN b : b[i].key = b[j].key => i = j
    <3> SUFFICES ASSUME NEW i \in DOMAIN b, NEW j \in DOMAIN b, b[i].key = b[j].key
                 PROVE  i = j
      OBVIOUS
    <3>1. i + 1 = j + 1
      BY <2>2, <1>4
    <3> QED
      BY <3>1, <2>2
  <2> QED
    BY <1>3, <1>4, <1>6, <2>2, <2>3, <2>4 DEF CacheFits
<1>7. CASE ~(Len(a) > CacheSize)
  <2>1. Len(a) <= CacheSize
    BY <1>4, <1>5, <1>7
  <2> QED
    BY <1>3, <1>4, <1>7, <2>1 DEF CacheFits
<1> QED
  BY <1>6, <1>7
-----------------------------------------------------------------------------
(* The controller *)

\* What the controller leaves alone.
SameScreen(t, u) ==
  /\ u.session = t.session /\ u.strength = t.strength /\ u.auto = t.auto /\ u.saved = t.saved
  /\ u.analysis = t.analysis /\ u.fg = t.fg /\ u.gone = t.gone /\ u.other = t.other

\* No job, no spinner.
Idle(t) == t.job = NoJob /\ ~t.state.running

\* An idle screen that is off, or has nothing to analyze, is in order.
LEMMA IdleFits ==
  ASSUME NEW t, Ready(t), Shows(t), Idle(t), ~OnBoard(t)
  PROVE  Fits(t)
<1>1. JobFits(t)
  BY DEF JobFits, Idle, NoJob
<1>2. InboxFits(t.job)
  BY DEF InboxFits, Idle, NoJob
<1> QED
  BY <1>1, <1>2 DEF Fits, StrongEnough

\* ... and a screen without a job is idle.
LEMMA NoJobIdle ==
  ASSUME NEW t, Fits(t), ~OnBoard(t)
  PROVE  Idle(t)
  BY DEF Fits, JobFits, Idle, NoJob

\* A cancelled job takes its search along.
LEMMA CancelJobFacts ==
  ASSUME NEW t, Ready(t)
  PROVE  LET u == CancelJob(t)
         IN  /\ Ready(u) /\ SameScreen(t, u)
             /\ u.job = NoJob /\ Live(u.queue) = {}
             /\ u.state = t.state /\ u.cache = t.cache /\ u.currentId = t.currentId
<1> DEFINE q == CancelSearch(t.queue, t.job.id)
           u == [t EXCEPT !.job = NoJob, !.queue = q]
<1>1. t \in Screens /\ t.queue \in Seq(Work) /\ QueueFits(t.queue, t.job)
  BY DEF Ready, Screens
<1>2. q \in Seq(Work) /\ QueueFits(q, NoJob)
  BY <1>1, CancelFacts
<1>3. CancelJob(t) = u
  BY DEF CancelJob
<1>4. Live(q) = {}
  BY <1>2 DEF QueueFits, NoJob
<1> HIDE DEF q
<1>5. /\ u \in Screens /\ SameScreen(t, u) /\ u.job = NoJob /\ u.queue = q
      /\ u.state = t.state /\ u.cache = t.cache /\ u.currentId = t.currentId
  BY <1>1, <1>2, ConstantFacts DEF Screens, SameScreen
<1> HIDE DEF u
<1> QED
  BY <1>2, <1>3, <1>4, <1>5 DEF Ready, SameScreen

\* A new number, and the job of the last one is cancelled.
LEMMA RenewFacts ==
  ASSUME NEW t, Ready(t)
  PROVE  LET u == CancelJob([t EXCEPT !.currentId = t.currentId + 1])
         IN  /\ Ready(u) /\ SameScreen(t, u)
             /\ u.job = NoJob /\ Live(u.queue) = {}
             /\ u.state = t.state /\ u.cache = t.cache /\ u.currentId = t.currentId + 1
<1> DEFINE n == t.currentId + 1
           v == [t EXCEPT !.currentId = n]
           u == CancelJob(v)
<1>1. t \in Screens /\ n \in Nat
  BY DEF Ready, Screens
<1> HIDE DEF n
<1>2. /\ v \in Screens /\ SameScreen(t, v) /\ v.currentId = n /\ v.job = t.job
      /\ v.queue = t.queue /\ v.state = t.state /\ v.cache = t.cache
  BY <1>1 DEF Screens, SameScreen
<1> HIDE DEF v
<1>3. Ready(v)
  BY <1>2 DEF Ready, SameScreen
<1>4. /\ Ready(u) /\ SameScreen(v, u) /\ u.job = NoJob /\ Live(u.queue) = {}
      /\ u.state = v.state /\ u.cache = v.cache /\ u.currentId = v.currentId
  BY <1>3, CancelJobFacts
<1> HIDE DEF u
<1>5. SameScreen(t, u)
  BY <1>2, <1>4 DEF SameScreen
<1> QED
  BY <1>2, <1>4, <1>5 DEF u, v, n

\* stop() leaves an idle screen that shows what it showed.
LEMMA StopAnalysisFacts ==
  ASSUME NEW t, Ready(t)
  PROVE  LET u == StopAnalysis(t)
         IN  /\ Ready(u) /\ SameScreen(t, u) /\ Idle(u)
             /\ u.state = [t.state EXCEPT !.running = FALSE]
<1> DEFINE a == CancelJob([t EXCEPT !.currentId = t.currentId + 1])
           q == Stop(a.queue, "own")
           b == [a EXCEPT !.queue = q]
           d == [t.state EXCEPT !.running = FALSE]
           u == [b EXCEPT !.state = d]
<1>1. /\ Ready(a) /\ SameScreen(t, a) /\ a.job = NoJob /\ Live(a.queue) = {} /\ a.state = t.state
  BY RenewFacts
<1> HIDE DEF a
<1>2. a \in Screens /\ a.queue \in Seq(Work) /\ QueueFits(a.queue, NoJob)
  BY <1>1 DEF Ready, Screens
<1>3. q \in Seq(Work) /\ QueueFits(q, NoJob)
  BY <1>1, <1>2, StopFacts DEF Cuts
<1>4. StopAnalysis(t) = [a EXCEPT !.queue = q, !.state.running = FALSE]
  BY DEF StopAnalysis, a
<1>5. StopAnalysis(t) = u
  BY <1>1, <1>2, <1>4 DEF Screens
<1> HIDE DEF q
<1>6. /\ b \in Screens /\ SameScreen(a, b) /\ b.job = a.job /\ b.queue = q /\ b.cache = a.cache
  BY <1>2, <1>3 DEF Screens, SameScreen
<1> HIDE DEF b
<1>7. d \in UiStates /\ ~d.running
  BY <1>1, <1>2 DEF Screens, UiStates
<1> HIDE DEF d
<1>8. /\ u \in Screens /\ SameScreen(b, u) /\ u.job = b.job /\ u.queue = b.queue /\ u.cache = b.cache
      /\ u.state = d
  BY <1>6, <1>7 DEF Screens, SameScreen
<1> HIDE DEF u
<1>9. SameScreen(t, u)
  BY <1>1, <1>6, <1>8 DEF SameScreen
<1>10. Ready(u)
  BY <1>1, <1>3, <1>6, <1>8 DEF Ready, SameScreen
<1>11. Idle(u)
  BY <1>1, <1>6, <1>7, <1>8 DEF Idle
<1> QED
  BY <1>5, <1>8, <1>9, <1>10, <1>11 DEF d

\* What stop() leaves on display.
LEMMA StopAnalysisShows ==
  ASSUME NEW t, Ready(t), Shows(t)
  PROVE  Shows(StopAnalysis(t))
<1>1. StopAnalysis(t).state = [t.state EXCEPT !.running = FALSE] /\ t.state \in UiStates
  BY StopAnalysisFacts DEF Ready, Screens
<1> QED
  BY <1>1 DEF Shows, KeyFits, ShownWhole, UiStates

\* clear(), at the end of a game.
LEMMA ClearFits ==
  ASSUME NEW t, Ready(t), t.session \in Over
  PROVE  Fits(Clear(t))
<1> DEFINE a == StopAnalysis(t)
           u == [a EXCEPT !.state = NoUiState]
<1>1. Ready(a) /\ SameScreen(t, a) /\ Idle(a)
  BY StopAnalysisFacts
<1>2. Clear(t) = u
  BY DEF Clear
<1> HIDE DEF a
<1>3. /\ u \in Screens /\ SameScreen(a, u) /\ u.job = a.job /\ u.queue = a.queue
      /\ u.cache = a.cache /\ u.state = NoUiState
  BY <1>1, ConstantFacts DEF Ready, Screens, SameScreen
<1> HIDE DEF u
<1>4. Ready(u)
  BY <1>1, <1>3 DEF Ready, SameScreen
<1>5. Shows(u) /\ Idle(u)
  BY <1>1, <1>3 DEF Shows, KeyFits, ShownWhole, Idle, NoUiState, UiState, NoSnapshot
<1>6. ~OnBoard(u)
  BY <1>1, <1>3 DEF SameScreen, OnBoard
<1> QED
  BY <1>2, <1>4, <1>5, <1>6, IdleFits
\* What the cache has of a position is a whole analysis of one with its key.
LEMMA CachedFacts ==
  ASSUME NEW c \in Seq(Entries), CacheFits(c), NEW key
  PROVE  LET snap == Cached(c, key)
         IN  /\ snap \in Snapshots
             /\ snap # NoSnapshot =>
                  /\ snap.of \in Positions /\ key = StateKey[snap.of]
                  /\ snap.final /\ ~snap.error /\ snap.cut # "own"
<1>1. CASE Slots(c, key) = {}
  BY <1>1, ConstantFacts DEF Cached
<1>2. CASE Slots(c, key) # {}
  <2> DEFINE i == Slot(c, key)
  <2>1. i \in DOMAIN c /\ c[i].key = key
    BY <1>2, SlotFacts DEF Slots
  <2>2. c[i] \in Entries /\ EntryFits(c[i])
    BY <2>1 DEF CacheFits
  <2>3. Cached(c, key) = c[i].snapshot
    BY <1>2 DEF Cached
  <2> HIDE DEF i
  <2> QED
    BY <2>1, <2>2, <2>3 DEF Entries, EntryFits
<1> QED
  BY <1>1, <1>2

\* request() for the board as it is leaves the screen in order: with a job, or
\* with a cached analysis that took long enough.
LEMMA RequestFits ==
  ASSUME NEW t, Ready(t), OnBoard(t), NEW useCache \in BOOLEAN
  PROVE  LET u == Request(t, t.session, t.strength, useCache)
         IN  Fits(u) /\ SameScreen(t, u)
<1> DEFINE id     == t.currentId + 1
           key    == StateKey[t.session]
           a      == CancelJob([t EXCEPT !.currentId = id])
           touch  == CacheTouch(a.cache, key)
           b      == IF useCache THEN [a EXCEPT !.cache = touch] ELSE a
           cached == IF useCache THEN Cached(t.cache, key) ELSE NoSnapshot
           shown  == IF cached = NoSnapshot THEN cached ELSE [cached EXCEPT !.id = id]
           u      == Request(t, t.session, t.strength, useCache)
<1>1. /\ Ready(a) /\ SameScreen(t, a) /\ a.job = NoJob /\ Live(a.queue) = {}
      /\ a.cache = t.cache /\ a.currentId = id
  BY RenewFacts
<1> HIDE DEF a
<1>2. t \in Screens /\ id \in Nat /\ t.session \in Positions /\ key \in Keys /\ t.strength \in Nat
  <2>1. t \in Screens /\ t.session \in Positions /\ t.strength \in Strengths /\ t.currentId \in Nat
    BY DEF Ready, Screens
  <2>2. key \in Keys
    BY <2>1, ConstantFacts
  <2>3. t.strength \in Nat
    BY <2>1, StrengthsAreNat
  <2>4. id \in Nat
    BY <2>1
  <2> QED
    BY <2>1, <2>2, <2>3, <2>4
<1>3. t.cache \in Seq(Entries) /\ CacheFits(t.cache)
  BY DEF Ready, Screens
<1>4. touch \in Seq(Entries) /\ CacheFits(touch)
  BY <1>1, <1>3, CacheTouchFits
<1>5. /\ cached \in Snapshots
      /\ cached # NoSnapshot =>
           /\ cached.of \in Positions /\ key = StateKey[cached.of]
           /\ cached.final /\ ~cached.error /\ cached.cut # "own"
  BY <1>3, CachedFacts, ConstantFacts
<1>0. u = IF cached # NoSnapshot /\ LongEnough(cached, t.strength)
          THEN [b EXCEPT !.state = UiState(FALSE, shown, key, FALSE)]
          ELSE [b EXCEPT !.state = UiState(TRUE, shown, key, FALSE),
                         !.job = [NoJob EXCEPT !.phase = "debounce", !.id = id,
                                    !.pos = t.session, !.budget = t.strength]]
  BY DEF Request, a
<1> HIDE DEF touch, cached, id, key, u
<1>6. /\ b \in Screens /\ SameScreen(a, b) /\ b.job = a.job /\ b.queue = a.queue
      /\ b.currentId = a.currentId /\ CacheFits(b.cache)
  <2>1. a \in Screens /\ CacheFits(a.cache)
    BY <1>1 DEF Ready
  <2>2. CASE useCache
    <3> DEFINE v == [a EXCEPT !.cache = touch]
    <3>1. v \in Screens /\ SameScreen(a, v) /\ v.job = a.job /\ v.queue = a.queue
          /\ v.currentId = a.currentId /\ v.cache = touch
      BY <2>1, <1>4 DEF Screens, SameScreen
    <3> HIDE DEF v
    <3>2. b = v
      BY <2>2 DEF v
    <3> QED
      BY <3>1, <3>2, <1>4
  <2>3. CASE ~useCache
    BY <2>1, <2>3 DEF SameScreen
  <2> QED
    BY <2>2, <2>3
<1> HIDE DEF b
<1>7. /\ shown \in Snapshots
      /\ shown # NoSnapshot => shown.of \in Positions /\ key = StateKey[shown.of]
      /\ shown.final => shown.cut # "own"
      /\ cached # NoSnapshot => shown.time = cached.time
  <2>1. CASE cached = NoSnapshot
    BY <2>1, <1>5 DEF NoSnapshot
  <2>2. CASE cached # NoSnapshot
    BY <2>2, <1>2, <1>5 DEF Snapshots
  <2> QED
    BY <2>1, <2>2
<1> HIDE DEF shown
<1>8. SameScreen(t, b) /\ b.job = NoJob /\ QueueFits(b.queue, NoJob) /\ Live(b.queue) = {}
  BY <1>1, <1>6 DEF SameScreen, Ready
<1>9. CASE cached # NoSnapshot /\ LongEnough(cached, t.strength)
  <2> DEFINE st == UiState(FALSE, shown, key, FALSE)
             v  == [b EXCEPT !.state = st]
  <2>1. st \in UiStates /\ ~st.running /\ ~st.error /\ st.snapshot = shown /\ st.key = key
    BY <1>2, <1>7 DEF UiStates, UiState
  <2>2. u = v
    BY <1>9, <1>0
  <2> HIDE DEF st
  <2>3. /\ v \in Screens /\ SameScreen(b, v) /\ v.job = NoJob /\ v.queue = b.queue
        /\ v.cache = b.cache /\ v.state = st
    BY <1>6, <1>8, <2>1 DEF Screens, SameScreen
  <2> HIDE DEF v
  <2>4. SameScreen(t, v)
    BY <1>8, <2>3 DEF SameScreen
  <2>5. Ready(v)
    BY <1>6, <1>8, <2>3, <2>4 DEF Ready, SameScreen
  <2>6. Shows(v)
    BY <2>1, <2>3, <1>7 DEF Shows, KeyFits, ShownWhole
  <2>7. JobFits(v) /\ InboxFits(v.job)
    BY <2>1, <2>3 DEF JobFits, InboxFits, NoJob
  <2>8. StrongEnough(v)
    BY <1>7, <1>9, <2>1, <2>3, <2>4 DEF StrongEnough, LongEnough, SameScreen
  <2> QED
    BY <2>2, <2>4, <2>5, <2>6, <2>7, <2>8 DEF Fits, u
<1>10. CASE ~(cached # NoSnapshot /\ LongEnough(cached, t.strength))
  <2> DEFINE st == UiState(TRUE, shown, key, FALSE)
             j  == [NoJob EXCEPT !.phase = "debounce", !.id = id, !.pos = t.session,
                                 !.budget = t.strength]
             w  == [b EXCEPT !.state = st]
             v  == [w EXCEPT !.job = j]
  <2>1. st \in UiStates /\ st.running /\ st.snapshot = shown /\ st.key = key
    BY <1>2, <1>7 DEF UiStates, UiState
  <2>2. /\ j \in Jobs /\ j.phase = "debounce" /\ j.id = id /\ j.pos = t.session
        /\ j.budget = t.strength /\ j.inbox = << >> /\ ~j.thrown
    <3>1. << >> \in Seq(Snapshots)
      OBVIOUS
    <3> QED
      BY <1>2, <3>1 DEF Jobs, NoJob
  <2>3. u = v
    BY <1>10, <1>0
  <2> HIDE DEF st, j
  <2>4. /\ w \in Screens /\ SameScreen(b, w) /\ w.job = b.job /\ w.queue = b.queue
        /\ w.cache = b.cache /\ w.state = st /\ w.currentId = b.currentId
    BY <1>6, <2>1 DEF Screens, SameScreen
  <2> HIDE DEF w
  <2>5. /\ v \in Screens /\ SameScreen(w, v) /\ v.job = j /\ v.queue = w.queue
        /\ v.cache = w.cache /\ v.state = st /\ v.currentId = w.currentId
    BY <2>2, <2>4 DEF Screens, SameScreen
  <2> HIDE DEF v
  <2>6. SameScreen(t, v)
    BY <1>8, <2>4, <2>5 DEF SameScreen
  <2>7. QueueFits(v.queue, v.job)
    BY <1>8, <2>4, <2>5 DEF QueueFits
  <2>8. Ready(v)
    BY <1>1, <1>6, <2>4, <2>5, <2>6, <2>7 DEF Ready, SameScreen
  <2>9. Shows(v)
    BY <2>1, <2>5, <1>7 DEF Shows, KeyFits, ShownWhole
  <2>10. JobFits(v)
    <3>1. OnBoard(v)
      BY <2>6 DEF OnBoard, SameScreen
    <3>2. v.job.id = v.currentId /\ v.job.pos = v.session /\ v.job.budget = v.strength
      BY <1>1, <1>6, <2>2, <2>4, <2>5, <2>6 DEF SameScreen
    <3>3. v.state.key = StateKey[v.session]
      BY <2>1, <2>5, <2>6 DEF SameScreen, key
    <3> QED
      BY <3>1, <3>2, <3>3, <2>1, <2>2, <2>5 DEF JobFits
  <2>11. InboxFits(v.job) /\ StrongEnough(v)
    BY <2>1, <2>2, <2>5 DEF InboxFits, StrongEnough
  <2> QED
    BY <2>3, <2>6, <2>8, <2>9, <2>10, <2>11 DEF Fits, u
<1> QED
  BY <1>9, <1>10 DEF u
-----------------------------------------------------------------------------
(* The view model *)

\* analyzeCurrent() of a screen that is not left.
LEMMA AnalyzeCurrentFits ==
  ASSUME NEW t, Ready(t), Shows(t), ~t.gone, ~t.auto \/ ~t.fg => Idle(t)
  PROVE  Fits(AnalyzeCurrent(t))
<1>0. t.auto \in BOOLEAN /\ t.fg \in BOOLEAN
  BY DEF Ready, Screens
<1>1. CASE ~t.auto \/ ~t.fg
  BY <1>1, IdleFits DEF AnalyzeCurrent, OnBoard
<1>2. CASE t.auto /\ t.fg /\ t.session \in Over
  BY <1>2, ClearFits DEF AnalyzeCurrent
<1>3. CASE t.auto /\ t.fg /\ t.session \notin Over
  <2>1. AnalyzeCurrent(t) = Request(t, t.session, t.strength, TRUE)
    BY <1>3 DEF AnalyzeCurrent
  <2> QED
    BY <1>3, <2>1, RequestFits DEF OnBoard
<1> QED
  BY <1>0, <1>1, <1>2, <1>3

\* Another position comes on the board of a screen that is not left.
LEMMA SetSessionFits ==
  ASSUME NEW t, Ready(t), Shows(t), ~t.gone, ~t.auto \/ ~t.fg => Idle(t), NEW pos \in Positions
  PROVE  Fits(SetSession(t, pos))
<1> DEFINE v == [t EXCEPT !.session = pos]
           b == t.auto
           u == [v EXCEPT !.saved = b]
<1>1. t \in Screens /\ b \in BOOLEAN
  BY DEF Ready, Screens
<1>2. SetSession(t, pos) = AnalyzeCurrent(u)
  BY DEF SetSession
<1>3. /\ v \in Screens /\ v.analysis = t.analysis /\ v.cache = t.cache /\ v.queue = t.queue
      /\ v.job = t.job /\ v.state = t.state /\ v.gone = t.gone /\ v.auto = t.auto /\ v.fg = t.fg
  BY <1>1 DEF Screens
<1> HIDE DEF v, b
<1>4. /\ u \in Screens /\ u.analysis = v.analysis /\ u.cache = v.cache /\ u.queue = v.queue
      /\ u.job = v.job /\ u.state = v.state /\ u.gone = v.gone /\ u.auto = v.auto /\ u.fg = v.fg
  BY <1>1, <1>3 DEF Screens
<1> HIDE DEF u
<1>5. Ready(u) /\ Shows(u)
  BY <1>3, <1>4 DEF Ready, Shows
<1>6. ~u.gone /\ (~u.auto \/ ~u.fg => Idle(u))
  BY <1>3, <1>4 DEF Idle
<1> QED
  BY <1>2, <1>5, <1>6, AnalyzeCurrentFits

\* The app is in the foreground, or goes to the background.
LEMMA CollectForegroundFits ==
  ASSUME NEW t, Ready(t), Shows(t), t.fg => ~t.gone, t.fg /\ ~t.auto => Idle(t)
  PROVE  Fits(CollectForeground(t))
<1>1. CASE t.fg
  BY <1>1, AnalyzeCurrentFits DEF CollectForeground
<1>2. CASE ~t.fg
  <2>1. CollectForeground(t) = StopAnalysis(t)
    BY <1>2 DEF CollectForeground
  <2>2. Ready(StopAnalysis(t)) /\ Idle(StopAnalysis(t)) /\ ~StopAnalysis(t).fg
    BY <1>2, StopAnalysisFacts DEF SameScreen
  <2>3. Shows(StopAnalysis(t))
    BY StopAnalysisShows
  <2> QED
    BY <2>1, <2>2, <2>3, IdleFits DEF OnBoard
<1> QED
  BY <1>1, <1>2

\* What is saved does not matter before the process dies.
LEMMA SavedFits ==
  ASSUME NEW t, Fits(t), NEW b \in BOOLEAN
  PROVE  Fits([t EXCEPT !.saved = b])
<1> DEFINE u == [t EXCEPT !.saved = b]
<1>1. t \in Screens
  BY DEF Fits, Ready
<1>2. /\ u \in Screens /\ u.session = t.session /\ u.strength = t.strength /\ u.auto = t.auto
      /\ u.analysis = t.analysis /\ u.cache = t.cache /\ u.queue = t.queue /\ u.job = t.job
      /\ u.state = t.state /\ u.currentId = t.currentId /\ u.fg = t.fg /\ u.gone = t.gone
  BY <1>1 DEF Screens
<1> HIDE DEF u
<1>3. Ready(u) /\ Shows(u) /\ InboxFits(u.job)
  BY <1>2 DEF Fits, Ready, Shows
<1>4. JobFits(u)
  BY <1>2 DEF Fits, JobFits, OnBoard
<1>5. StrongEnough(u)
  BY <1>2 DEF Fits, StrongEnough, OnBoard
<1> QED
  BY <1>3, <1>4, <1>5 DEF Fits, u

\* A screen that opens, or is restored.
LEMMA FreshFits ==
  ASSUME NEW pos \in Positions, NEW b \in Strengths, NEW auto \in BOOLEAN
  PROVE  LET t == Fresh(pos, b, auto)
         IN  /\ t \in Screens /\ Ready(t) /\ Shows(t) /\ Idle(t)
             /\ t.fg /\ ~t.gone /\ t.auto = auto /\ t.queue = << >>
<1> DEFINE t == Fresh(pos, b, auto)
<1>1. << >> \in Seq(Entries) /\ << >> \in Seq(Work)
  OBVIOUS
<1>2. t \in Screens
  BY <1>1, ConstantFacts DEF Fresh, Screens
<1>3. /\ t.analysis = NoUiState /\ t.state = NoUiState /\ t.job = NoJob
      /\ t.cache = << >> /\ t.queue = << >> /\ t.fg /\ ~t.gone /\ t.auto = auto
  BY DEF Fresh
<1> HIDE DEF t
<1>4. CacheFits(<< >>)
  BY BoundsAssumption DEF CacheFits
<1>5. QueueFits(<< >>, NoJob)
  BY DEF QueueFits, Live
<1>6. KeyFits(NoUiState) /\ ShownWhole(NoUiState) /\ ~NoUiState.running
  BY DEF KeyFits, ShownWhole, NoUiState, UiState, NoSnapshot
<1>7. Ready(t) /\ Shows(t) /\ Idle(t)
  BY <1>2, <1>3, <1>4, <1>5, <1>6 DEF Ready, Shows, Idle
<1> QED
  BY <1>2, <1>3, <1>7 DEF t

\* A task that the queue takes at its end is no search of this screen, or the
\* one its job begins to collect.
LEMMA AppendFacts ==
  ASSUME NEW q \in Seq(Work), NEW w \in Work
  PROVE  LET a == Append(q, w)
         IN  /\ a \in Seq(Work) /\ a[Len(q) + 1] = w
             /\ \A i \in DOMAIN q : i \in DOMAIN a /\ a[i] = q[i]
             /\ \A i \in DOMAIN a : i \in DOMAIN q \/ i = Len(q) + 1
             /\ w.kind # "analyze" => Live(a) = Live(q)
             /\ w.kind = "analyze" /\ ~w.cancelled => Live(a) = Live(q) \cup {Len(q) + 1}
<1> DEFINE a == Append(q, w)
<1>1. /\ a \in Seq(Work) /\ a[Len(q) + 1] = w /\ Len(q) + 1 \in DOMAIN a
      /\ \A i \in DOMAIN q : i \in DOMAIN a /\ a[i] = q[i]
      /\ \A i \in DOMAIN a : i \in DOMAIN q \/ i = Len(q) + 1
  OBVIOUS
<1> HIDE DEF a
<1>2. w.kind # "analyze" => Live(a) = Live(q)
  BY <1>1 DEF Live
<1>3. w.kind = "analyze" /\ ~w.cancelled => Live(a) = Live(q) \cup {Len(q) + 1}
  BY <1>1 DEF Live
<1> QED
  BY <1>1, <1>2, <1>3 DEF a

\* A task for the engine that is no search of this screen.
LEMMA OtherTaskFits ==
  ASSUME NEW q \in Seq(Work), NEW j, QueueFits(q, j), NEW k \in {"other", "newGame"}
  PROVE  LET a == Append(q, Task(k, 0, NoPosition, Unlimited))
         IN  a \in Seq(Work) /\ QueueFits(a, j)
<1> DEFINE w == Task(k, 0, NoPosition, Unlimited)
           a == Append(q, w)
<1>1. w \in Work /\ w.kind # "analyze"
  BY StrengthsAssumption DEF Task, Work, Cuts
<1> HIDE DEF w
<1>2. /\ a \in Seq(Work) /\ a[Len(q) + 1] = w /\ Live(a) = Live(q)
      /\ \A i \in DOMAIN q : i \in DOMAIN a /\ a[i] = q[i]
      /\ \A i \in DOMAIN a : i \in DOMAIN q \/ i = Len(q) + 1
  BY <1>1, AppendFacts
<1> HIDE DEF a
<1>3. \A i \in Live(a) : i \in DOMAIN q /\ a[i] = q[i]
  BY <1>2 DEF Live
<1>4. QueueFits(a, j)
  BY <1>1, <1>2, <1>3 DEF QueueFits
<1> QED
  BY <1>2, <1>4 DEF a, w
-----------------------------------------------------------------------------
(* Steps that change the queue and what is delivered *)

\* What such a step leaves alone.
SameJob(t, u) ==
  /\ u.session = t.session /\ u.strength = t.strength /\ u.auto = t.auto
  /\ u.analysis = t.analysis /\ u.fg = t.fg /\ u.gone = t.gone
  /\ u.state = t.state /\ u.cache = t.cache /\ u.currentId = t.currentId
  /\ u.job.phase = t.job.phase /\ u.job.id = t.job.id
  /\ u.job.pos = t.job.pos /\ u.job.budget = t.job.budget

\* The screen stays in order when queue and inbox do.
LEMMA StepFits ==
  ASSUME NEW t, NEW u, Fits(t), u \in Screens, SameJob(t, u),
         QueueFits(u.queue, u.job), InboxFits(u.job),
         t.job.phase # "collect" => u.job = t.job
  PROVE  Fits(u)
<1>1. Ready(u) /\ Shows(u)
  BY DEF Fits, Ready, Shows, SameJob
<1>2. OnBoard(t) <=> OnBoard(u)
  BY DEF OnBoard, SameJob
<1>3. JobFits(u)
  BY <1>2 DEF Fits, JobFits, SameJob
<1>4. StrongEnough(u)
  BY <1>2 DEF Fits, StrongEnough, SameJob
<1> QED
  BY <1>1, <1>3, <1>4 DEF Fits

-----------------------------------------------------------------------------
(* What the user and the system do *)

\* A screen that opens, with the search of the last one in the engine or not.
LEMMA InitFits == Init => Fits(s)
<1> SUFFICES ASSUME Init PROVE Fits(s)
  OBVIOUS
<1>9. PICK b \in Strengths, other \in {FALSE, Others} :
        s = CollectForeground([Fresh(Start, b, TRUE) EXCEPT
               !.other = other,
               !.queue = IF other THEN <<Task("other", 0, NoPosition, Unlimited)>> ELSE << >>])
  BY DEF Init
<1>10. other \in BOOLEAN
  BY BoundsAssumption
<1> DEFINE f == Fresh(Start, b, TRUE)
           q == IF other THEN <<Task("other", 0, NoPosition, Unlimited)>> ELSE << >>
           v == [f EXCEPT !.other = other]
           t == [v EXCEPT !.queue = q]
<1>1. Start \in Positions
  BY PositionsAssumption
<1>2. Ready(f) /\ Shows(f) /\ Idle(f) /\ f.fg /\ ~f.gone /\ f.auto = TRUE
  BY <1>1, FreshFits
<1> HIDE DEF f
<1>3. q \in Seq(Work) /\ QueueFits(q, NoJob)
  <2> DEFINE a == Append(<< >>, Task("other", 0, NoPosition, Unlimited))
  <2>1. << >> \in Seq(Work) /\ QueueFits(<< >>, NoJob)
    BY DEF QueueFits, Live
  <2>2. a \in Seq(Work) /\ QueueFits(a, NoJob)
    BY <2>1, OtherTaskFits
  <2>3. q = IF other THEN a ELSE << >>
    OBVIOUS
  <2> QED
    BY <2>1, <2>2, <2>3
<1> HIDE DEF q
<1>4. /\ v \in Screens /\ v.analysis = f.analysis /\ v.cache = f.cache /\ v.job = f.job
      /\ v.state = f.state /\ v.gone = f.gone /\ v.auto = f.auto /\ v.fg = f.fg
  BY <1>10, <1>2 DEF Ready, Screens
<1> HIDE DEF v
<1>5. /\ t \in Screens /\ t.analysis = v.analysis /\ t.cache = v.cache /\ t.queue = q
      /\ t.job = v.job /\ t.state = v.state /\ t.gone = v.gone /\ t.auto = v.auto /\ t.fg = v.fg
  BY <1>3, <1>4 DEF Screens
<1>6. s = CollectForeground(t)
  BY <1>9 DEF t, v, f, q
<1> HIDE DEF t
<1>7. Ready(t) /\ Shows(t) /\ Idle(t)
  BY <1>2, <1>3, <1>4, <1>5 DEF Ready, Shows, Idle
<1>8. t.fg /\ ~t.gone /\ t.auto
  BY <1>2, <1>4, <1>5
<1> QED
  BY <1>6, <1>7, <1>8, CollectForegroundFits

\* Navigate: another position comes on the board.
LEMMA NavigateFits == IInv /\ Navigate => Fits(s')
<1> SUFFICES ASSUME IInv, ~s.gone, NEW pos \in Positions, s' = SetSession(s, pos)
             PROVE  Fits(s')
  BY DEF Navigate, UserActs
<1>1. Ready(s) /\ Shows(s) /\ (~s.auto \/ ~s.fg => Idle(s))
  BY NoJobIdle DEF IInv, Fits, OnBoard
<1> QED
  BY <1>1, SetSessionFits

\* NewGame: the engine is told of it after the searches that wait.
LEMMA NewGameFits == IInv /\ NewGame => Fits(s')
<1> DEFINE q == Append(s.queue, Task("newGame", 0, NoPosition, Unlimited))
           t == [s EXCEPT !.queue = q]
<1> SUFFICES ASSUME IInv, ~s.gone, s.fg, s' = SetSession(t, Start)
             PROVE  Fits(s')
  BY DEF NewGame, OnScreen, UserActs
<1>1. s \in Screens /\ s.queue \in Seq(Work) /\ Ready(s) /\ Shows(s) /\ (~s.auto => Idle(s))
  BY NoJobIdle DEF IInv, Fits, OnBoard, Ready, Screens
<1>2. q \in Seq(Work) /\ QueueFits(q, s.job)
  BY <1>1, OtherTaskFits DEF Ready
<1> HIDE DEF q
<1>3. /\ t \in Screens /\ t.analysis = s.analysis /\ t.cache = s.cache /\ t.queue = q
      /\ t.job = s.job /\ t.state = s.state /\ t.gone = s.gone /\ t.auto = s.auto /\ t.fg = s.fg
  BY <1>1, <1>2 DEF Screens
<1> HIDE DEF t
<1>4. Ready(t) /\ Shows(t) /\ ~t.gone /\ (~t.auto \/ ~t.fg => Idle(t))
  BY <1>1, <1>2, <1>3 DEF Ready, Shows, Idle
<1>5. Start \in Positions
  BY PositionsAssumption
<1> QED
  BY <1>4, <1>5, SetSessionFits

\* SetStrength: the analysis of the old strength is stopped first.
LEMMA SetStrengthFits == IInv /\ SetStrength => Fits(s')
<1> SUFFICES ASSUME IInv, ~s.gone, NEW b \in Strengths,
                    s' = AnalyzeCurrent(StopAnalysis([s EXCEPT !.strength = b, !.saved = s.auto]))
             PROVE  Fits(s')
  BY DEF SetStrength, OnScreen, UserActs
<1> DEFINE c == s.auto
           v == [s EXCEPT !.strength = b]
           t == [v EXCEPT !.saved = c]
           u == StopAnalysis(t)
<1>0. s' = AnalyzeCurrent(u)
  OBVIOUS
<1>1. s \in Screens /\ c \in BOOLEAN /\ Ready(s) /\ Shows(s)
  BY DEF IInv, Fits, Ready, Screens
<1> HIDE DEF c
<1>2. /\ v \in Screens /\ v.analysis = s.analysis /\ v.cache = s.cache /\ v.queue = s.queue
      /\ v.job = s.job /\ v.state = s.state /\ v.gone = s.gone
  BY <1>1 DEF Screens
<1> HIDE DEF v
<1>3. /\ t \in Screens /\ t.analysis = v.analysis /\ t.cache = v.cache /\ t.queue = v.queue
      /\ t.job = v.job /\ t.state = v.state /\ t.gone = v.gone
  BY <1>1, <1>2 DEF Screens
<1> HIDE DEF t
<1>4. Ready(t) /\ Shows(t) /\ ~t.gone
  BY <1>1, <1>2, <1>3 DEF Ready, Shows
<1>5. Ready(u) /\ Shows(u) /\ Idle(u) /\ ~u.gone
  BY <1>4, StopAnalysisFacts, StopAnalysisShows DEF SameScreen
<1> QED
  BY <1>0, <1>5, AnalyzeCurrentFits

\* ToggleAnalysis: off and quiet, or on and analyzing.
LEMMA ToggleFits == IInv /\ ToggleAnalysis => Fits(s')
<1> SUFFICES ASSUME IInv, ~s.gone, s.fg,
                    s' = IF s.auto THEN [StopAnalysis(s) EXCEPT !.auto = FALSE, !.saved = FALSE]
                         ELSE [AnalyzeCurrent([s EXCEPT !.auto = TRUE]) EXCEPT !.saved = TRUE]
             PROVE  Fits(s')
  BY DEF ToggleAnalysis, OnScreen, UserActs
<1>1. s \in Screens /\ Ready(s) /\ Shows(s)
  BY DEF IInv, Fits, Ready
<1>2. CASE s.auto
  <2> DEFINE a == StopAnalysis(s)
             v == [a EXCEPT !.auto = FALSE]
             u == [v EXCEPT !.saved = FALSE]
  <2>0. s' = u
    BY <1>2
  <2>1. Ready(a) /\ Shows(a) /\ Idle(a) /\ a \in Screens
    BY <1>1, StopAnalysisFacts, StopAnalysisShows DEF Ready
  <2> HIDE DEF a
  <2>2. /\ v \in Screens /\ v.analysis = a.analysis /\ v.cache = a.cache /\ v.queue = a.queue
        /\ v.job = a.job /\ v.state = a.state /\ ~v.auto
    BY <2>1 DEF Screens
  <2> HIDE DEF v
  <2>3. /\ u \in Screens /\ u.analysis = v.analysis /\ u.cache = v.cache /\ u.queue = v.queue
        /\ u.job = v.job /\ u.state = v.state /\ ~u.auto
    BY <2>2 DEF Screens
  <2> HIDE DEF u
  <2>4. Ready(u) /\ Shows(u) /\ Idle(u) /\ ~OnBoard(u)
    BY <2>1, <2>2, <2>3 DEF Ready, Shows, Idle, OnBoard
  <2> QED
    BY <2>0, <2>4, IdleFits
<1>3. CASE ~s.auto
  <2> DEFINE v == [s EXCEPT !.auto = TRUE]
  <2>1. /\ v \in Screens /\ v.analysis = s.analysis /\ v.cache = s.cache /\ v.queue = s.queue
        /\ v.job = s.job /\ v.state = s.state /\ v.auto /\ v.fg = s.fg /\ v.gone = s.gone
    BY <1>1 DEF Screens
  <2>2. s' = [AnalyzeCurrent(v) EXCEPT !.saved = TRUE]
    BY <1>3
  <2> HIDE DEF v
  <2>3. Ready(v) /\ Shows(v) /\ ~v.gone /\ (~v.auto \/ ~v.fg => Idle(v))
    BY <1>1, <2>1 DEF Ready, Shows
  <2> QED
    BY <2>2, <2>3, AnalyzeCurrentFits, SavedFits
<1> QED
  BY <1>1, <1>2, <1>3 DEF Screens

\* Reanalyze: a new job, whatever the cache has.
LEMMA ReanalyzeFits == IInv /\ Reanalyze => Fits(s')
<1> DEFINE v == [s EXCEPT !.auto = TRUE]
<1> SUFFICES ASSUME IInv, ~s.gone, s.fg, s.session \notin Over,
                    s' = Request(v, s.session, s.strength, FALSE)
             PROVE  Fits(s')
  BY DEF Reanalyze, OnScreen, UserActs
<1>1. s \in Screens /\ Ready(s)
  BY DEF IInv, Fits, Ready
<1>2. /\ v \in Screens /\ v.analysis = s.analysis /\ v.cache = s.cache /\ v.queue = s.queue
      /\ v.job = s.job /\ v.auto /\ v.fg = s.fg /\ v.gone = s.gone
      /\ v.session = s.session /\ v.strength = s.strength
  BY <1>1 DEF Screens
<1> HIDE DEF v
<1>3. Ready(v) /\ OnBoard(v)
  BY <1>1, <1>2 DEF Ready, OnBoard
<1> QED
  BY <1>2, <1>3, RequestFits

\* SwitchApp: an idle screen returns, any screen goes.
LEMMA SwitchAppFits == IInv /\ SwitchApp => Fits(s')
<1> DEFINE b == ~s.fg
           v == [s EXCEPT !.fg = b]
<1> SUFFICES ASSUME IInv, ~s.gone, s' = CollectForeground(v)
             PROVE  Fits(s')
  BY DEF SwitchApp, UserActs
<1>1. s \in Screens /\ Ready(s) /\ Shows(s) /\ b \in BOOLEAN /\ (b => Idle(s))
  BY NoJobIdle DEF IInv, Fits, Ready, OnBoard
<1> HIDE DEF b
<1>2. /\ v \in Screens /\ v.analysis = s.analysis /\ v.cache = s.cache /\ v.queue = s.queue
      /\ v.job = s.job /\ v.state = s.state /\ v.fg = b /\ v.gone = s.gone
  BY <1>1 DEF Screens
<1> HIDE DEF v
<1>3. Ready(v) /\ Shows(v) /\ ~v.gone /\ (v.fg => Idle(v))
  BY <1>1, <1>2 DEF Ready, Shows, Idle
<1> QED
  BY <1>3, CollectForegroundFits

\* ProcessDeath: a new screen in the background, from what was saved.
LEMMA ProcessDeathFits == IInv /\ ProcessDeath => Fits(s')
<1> DEFINE f == Fresh(s.session, s.strength, s.saved)
           v == [f EXCEPT !.fg = FALSE]
<1> SUFFICES ASSUME IInv, s' = CollectForeground(v)
             PROVE  Fits(s')
  BY DEF ProcessDeath
<1>1. s.session \in Positions /\ s.strength \in Strengths /\ s.saved \in BOOLEAN
  BY DEF IInv, Fits, Ready, Screens
<1>2. f \in Screens /\ Ready(f) /\ Shows(f)
  BY <1>1, FreshFits
<1> HIDE DEF f
<1>3. /\ v \in Screens /\ v.analysis = f.analysis /\ v.cache = f.cache /\ v.queue = f.queue
      /\ v.job = f.job /\ v.state = f.state /\ ~v.fg
  BY <1>2 DEF Screens
<1> HIDE DEF v
<1>4. Ready(v) /\ Shows(v) /\ ~v.fg
  BY <1>2, <1>3 DEF Ready, Shows
<1> QED
  BY <1>4, CollectForegroundFits

\* Leave: the search of the screen stops with it.
LEMMA LeaveFits == IInv /\ Leave => Fits(s')
<1> DEFINE a == StopAnalysis(s)
           v == [a EXCEPT !.gone = TRUE]
<1> SUFFICES ASSUME IInv, s' = v
             PROVE  Fits(s')
  BY DEF Leave, UserActs
<1>1. Ready(s) /\ Shows(s)
  BY DEF IInv, Fits
<1>2. Ready(a) /\ Shows(a) /\ Idle(a) /\ a \in Screens
  BY <1>1, StopAnalysisFacts, StopAnalysisShows DEF Ready
<1> HIDE DEF a
<1>3. /\ v \in Screens /\ v.analysis = a.analysis /\ v.cache = a.cache /\ v.queue = a.queue
      /\ v.job = a.job /\ v.state = a.state /\ v.gone
  BY <1>2 DEF Screens
<1> HIDE DEF v
<1>4. Ready(v) /\ Shows(v) /\ Idle(v) /\ ~OnBoard(v)
  BY <1>2, <1>3 DEF Ready, Shows, Idle, OnBoard
<1> QED
  BY <1>4, IdleFits
\* OtherCleared: the last screen's search is cancelled, or its stop() falls on
\* whatever the engine is at.
LEMMA OtherClearedFits == IInv /\ OtherCleared => Fits(s')
<1> DEFINE q == IF s.queue # << >> /\ s.queue[1].kind = "other"
                  THEN [s.queue EXCEPT ![1].cancelled = TRUE] ELSE Stop(s.queue, "other")
           v == [s EXCEPT !.other = FALSE]
           u == [v EXCEPT !.queue = q]
<1> SUFFICES ASSUME IInv, s' = u
             PROVE  Fits(s')
  BY DEF OtherCleared
<1>1. s \in Screens /\ s.queue \in Seq(Work) /\ QueueFits(s.queue, s.job)
  BY DEF IInv, Fits, Ready, Screens
<1>2. q \in Seq(Work) /\ QueueFits(q, s.job)
  <2>1. CASE s.queue # << >> /\ s.queue[1].kind = "other"
    <3> DEFINE w == [s.queue[1] EXCEPT !.cancelled = TRUE]
               r == [s.queue EXCEPT ![1] = w]
    <3>1. s.queue[1] \in Work /\ 1 \in DOMAIN s.queue
      BY <1>1, <2>1
    <3>2. w \in Work /\ w.kind = "other"
      BY <2>1, <3>1 DEF Work
    <3>3. q = r
      BY <2>1
    <3> HIDE DEF w, q
    <3>4. r \in Seq(Work) /\ DOMAIN r = DOMAIN s.queue /\ r[1] = w
          /\ \A i \in DOMAIN s.queue : i # 1 => r[i] = s.queue[i]
      BY <1>1, <3>1, <3>2
    <3> HIDE DEF r
    <3>5. Live(r) = Live(s.queue)
      BY <2>1, <3>2, <3>4 DEF Live
    <3>6. \A i \in Live(s.queue) : r[i] = s.queue[i]
      BY <2>1, <3>4 DEF Live
    <3>7. QueueFits(r, s.job)
      BY <1>1, <3>4, <3>5, <3>6 DEF QueueFits
    <3> QED
      BY <3>3, <3>4, <3>7
  <2>2. CASE ~(s.queue # << >> /\ s.queue[1].kind = "other")
    BY <1>1, <2>2, StopFacts DEF Cuts
  <2> QED
    BY <2>1, <2>2
<1> HIDE DEF q
<1>3. /\ v \in Screens /\ SameJob(s, v) /\ v.queue = s.queue /\ v.job = s.job
  BY <1>1 DEF Screens, SameJob
<1> HIDE DEF v
<1>4. /\ u \in Screens /\ SameJob(v, u) /\ u.queue = q /\ u.job = s.job
  BY <1>2, <1>3 DEF Screens, SameJob
<1> HIDE DEF u
<1>5. SameJob(s, u)
  BY <1>3, <1>4 DEF SameJob
<1> QED
  BY <1>2, <1>4, <1>5, StepFits DEF IInv, Fits

-----------------------------------------------------------------------------
(* The main thread *)

\* StateCollected: the screen shows the controller's state.
LEMMA StateCollectedFits == IInv /\ StateCollected => Fits(s')
<1> DEFINE st == s.state
           u  == [s EXCEPT !.analysis = st]
<1> SUFFICES ASSUME IInv, s' = u
             PROVE  Fits(s')
  BY DEF StateCollected
<1>1. s \in Screens /\ st \in UiStates /\ KeyFits(st) /\ Fits(s)
  BY DEF IInv, Fits, Ready, Shows, Screens
<1> HIDE DEF st
<1>2. /\ u \in Screens /\ u.analysis = st /\ u.session = s.session /\ u.strength = s.strength
      /\ u.auto = s.auto /\ u.cache = s.cache /\ u.queue = s.queue /\ u.job = s.job
      /\ u.state = s.state /\ u.currentId = s.currentId /\ u.fg = s.fg /\ u.gone = s.gone
  BY <1>1 DEF Screens
<1> HIDE DEF u
<1>3. Ready(u) /\ Shows(u) /\ InboxFits(u.job)
  BY <1>1, <1>2 DEF Fits, Ready, Shows
<1>4. JobFits(u)
  BY <1>1, <1>2 DEF Fits, JobFits, OnBoard
<1>5. StrongEnough(u)
  BY <1>1, <1>2 DEF Fits, StrongEnough, OnBoard
<1> QED
  BY <1>3, <1>4, <1>5 DEF Fits

\* DebounceEnds: the job's search joins the queue, where there is none.
LEMMA DebounceEndsFits == IInv /\ DebounceEnds => Fits(s')
<1> SUFFICES ASSUME IInv, DebounceEnds PROVE Fits(s')
  OBVIOUS
<1> DEFINE j == [s.job EXCEPT !.phase = "collect"]
           w == Task("analyze", s.job.id, s.job.pos, s.job.budget)
           q == Append(s.queue, w)
           v == [s EXCEPT !.job = j]
           u == [v EXCEPT !.queue = q]
<1>1. /\ s \in Screens /\ s.queue \in Seq(Work) /\ s.job \in Jobs
      /\ QueueFits(s.queue, s.job) /\ JobFits(s) /\ s.job.phase = "debounce" /\ InboxFits(s.job)
  BY DEF IInv, Fits, Ready, Screens, DebounceEnds
<1>2. /\ s.currentId = s.job.id /\ s.job.inbox = << >> /\ ~s.job.thrown /\ OnBoard(s)
      /\ s.job.pos = s.session /\ s.job.budget = s.strength /\ s.state.running
      /\ s.state.key = StateKey[s.session]
  BY <1>1 DEF JobFits
<1>3. s' = u
  BY <1>1, <1>2 DEF DebounceEnds, Jobs, Screens
<1>4. /\ j \in Jobs /\ j.phase = "collect" /\ j.id = s.job.id /\ j.pos = s.job.pos
      /\ j.budget = s.job.budget /\ j.inbox = << >> /\ ~j.thrown
  BY <1>1, <1>2 DEF Jobs
<1>5. /\ w \in Work /\ w.kind = "analyze" /\ ~w.cancelled /\ w.cut = "no"
      /\ w.id = j.id /\ w.pos = j.pos /\ w.budget = j.budget
  BY <1>1, <1>4 DEF Task, Work, Jobs, Cuts
<1> HIDE DEF j, w
<1>6. Live(s.queue) = {}
  BY <1>1 DEF QueueFits
<1>7. /\ q \in Seq(Work) /\ q[Len(s.queue) + 1] = w /\ Live(q) = {Len(s.queue) + 1}
      /\ \A i \in DOMAIN s.queue : i \in DOMAIN q /\ q[i] = s.queue[i]
      /\ \A i \in DOMAIN q : i \in DOMAIN s.queue \/ i = Len(s.queue) + 1
  BY <1>1, <1>5, <1>6, AppendFacts
<1> HIDE DEF q
<1>8. QueueFits(q, j)
  BY <1>1, <1>4, <1>5, <1>7 DEF QueueFits
<1>9. /\ v \in Screens /\ v.analysis = s.analysis /\ v.session = s.session
      /\ v.strength = s.strength /\ v.auto = s.auto /\ v.cache = s.cache /\ v.job = j
      /\ v.state = s.state /\ v.currentId = s.currentId /\ v.fg = s.fg /\ v.gone = s.gone
  BY <1>1, <1>4 DEF Screens
<1> HIDE DEF v
<1>10. /\ u \in Screens /\ u.analysis = v.analysis /\ u.session = v.session
       /\ u.strength = v.strength /\ u.auto = v.auto /\ u.cache = v.cache /\ u.job = v.job
       /\ u.state = v.state /\ u.currentId = v.currentId /\ u.fg = v.fg /\ u.gone = v.gone
       /\ u.queue = q
  BY <1>7, <1>9 DEF Screens
<1> HIDE DEF u
<1>11. Ready(u) /\ Shows(u)
  BY <1>8, <1>9, <1>10 DEF IInv, Fits, Ready, Shows
<1>12. JobFits(u)
  BY <1>2, <1>4, <1>9, <1>10 DEF JobFits, OnBoard
<1>13. InboxFits(u.job) /\ StrongEnough(u)
  BY <1>2, <1>4, <1>9, <1>10 DEF InboxFits, StrongEnough
<1> QED
  BY <1>3, <1>11, <1>12, <1>13 DEF Fits
\* A job with something in its inbox collects, and what it finds there is its
\* own; once a result is there, no search is left.
LEMMA CollectingFacts ==
  ASSUME NEW t, Fits(t), t.job.inbox # << >>
  PROVE  LET snap == Head(t.job.inbox)
         IN  /\ t.job.phase = "collect" /\ OnBoard(t) /\ snap \in Snapshots
             /\ snap.id = t.currentId /\ snap.of = t.session /\ snap.budget = t.strength
             /\ snap.cut # "own" /\ t.job.pos = t.session
             /\ snap.final => Live(t.queue) = {}
<1> DEFINE snap == Head(t.job.inbox)
<1>1. t.job \in Jobs /\ t.job.inbox \in Seq(Snapshots)
  BY DEF Fits, Ready, Screens, Jobs
<1>2. 1 \in DOMAIN t.job.inbox /\ snap = t.job.inbox[1] /\ snap \in Snapshots
  BY <1>1
<1>3. t.job.phase = "collect"
  BY <1>1 DEF Fits, JobFits, Jobs, NoJob
<1>4. OnBoard(t) /\ t.job.id = t.currentId /\ t.job.pos = t.session /\ t.job.budget = t.strength
  BY <1>3 DEF Fits, JobFits
<1>5. snap.id = t.job.id /\ snap.of = t.job.pos /\ snap.budget = t.job.budget /\ snap.cut # "own"
  BY <1>2 DEF Fits, InboxFits
<1>6. snap.final => Live(t.queue) = {}
  BY <1>2 DEF Fits, Ready, QueueFits
<1> QED
  BY <1>2, <1>3, <1>4, <1>5, <1>6

\* A snapshot is shown; a result ends the job and goes into the cache.
LEMMA CollectFits ==
  ASSUME NEW t, Fits(t), t.job.inbox # << >>
  PROVE  Fits(Collect(t, Head(t.job.inbox)))
<1> DEFINE snap == Head(t.job.inbox)
           key  == StateKey[snap.of]
           rest == Tail(t.job.inbox)
           j    == IF snap.final THEN NoJob ELSE [t.job EXCEPT !.inbox = rest]
           new  == CachePut(t.cache, key, snap)
           c    == IF snap.final /\ ~snap.error THEN new ELSE t.cache
           st   == UiState(~snap.final, snap, key, snap.error)
           a    == [t EXCEPT !.job = j]
           b    == [a EXCEPT !.cache = c]
           u    == [b EXCEPT !.state = st]
<1>1. /\ t.job.phase = "collect" /\ OnBoard(t) /\ snap \in Snapshots
      /\ snap.id = t.currentId /\ snap.of = t.session /\ snap.budget = t.strength
      /\ snap.cut # "own" /\ t.job.pos = t.session
      /\ snap.final => Live(t.queue) = {}
  BY CollectingFacts
<1>2. /\ t \in Screens /\ t.job \in Jobs /\ t.session \in Positions
      /\ t.job.inbox \in Seq(Snapshots) /\ t.cache \in Seq(Entries) /\ CacheFits(t.cache)
      /\ QueueFits(t.queue, t.job) /\ InboxFits(t.job)
  BY DEF Fits, Ready, Screens, Jobs
<1>3. Collect(t, snap) = u
  <2>1. StateKey[t.job.pos] = key
    BY <1>1
  <2> DEFINE k == StateKey[t.job.pos]
  <2>5. Collect(t, snap) =
          IF snap.id # t.currentId THEN a
          ELSE [(IF snap.final /\ ~snap.error THEN [a EXCEPT !.cache = CachePut(@, k, snap)] ELSE a)
                  EXCEPT !.state = UiState(~snap.final, snap, k, snap.error)]
    BY DEF Collect
  <2> HIDE DEF snap, a, k
  <2>6. k = key
    BY <2>1 DEF k
  <2>2. Collect(t, snap) =
          [(IF snap.final /\ ~snap.error THEN [a EXCEPT !.cache = CachePut(@, key, snap)] ELSE a)
             EXCEPT !.state = st]
    BY <1>1, <2>5, <2>6
  <2> USE DEF a
  <2>3. CASE snap.final /\ ~snap.error
    <3>1. [a EXCEPT !.cache = CachePut(@, key, snap)] = b
      BY <1>2, <2>3 DEF Screens
    <3> QED
      BY <2>2, <2>3, <3>1
  <2>4. CASE ~(snap.final /\ ~snap.error)
    <3>1. b = a
      BY <1>2, <2>4 DEF Screens
    <3> QED
      BY <2>2, <2>4, <3>1
  <2> QED
    BY <2>3, <2>4
<1>4. /\ rest \in Seq(Snapshots)
      /\ \A i \in DOMAIN rest : i + 1 \in DOMAIN t.job.inbox /\ rest[i] = t.job.inbox[i + 1]
  BY <1>2
<1> HIDE DEF snap, rest
<1>5. /\ j \in Jobs
      /\ snap.final => j = NoJob
      /\ ~snap.final =>
           /\ j.phase = "collect" /\ j.id = t.job.id /\ j.pos = t.job.pos
           /\ j.budget = t.job.budget /\ j.inbox = rest /\ j.thrown = t.job.thrown
  <2>1. CASE snap.final
    BY <2>1, ConstantFacts
  <2>2. CASE ~snap.final
    BY <2>2, <1>1, <1>2, <1>4 DEF Jobs
  <2> QED
    BY <2>1, <2>2
<1> HIDE DEF j
<1>6. c \in Seq(Entries) /\ CacheFits(c)
  <2>1. CASE snap.final /\ ~snap.error
    <3>1. EntryFits([key |-> key, snapshot |-> snap])
      BY <1>1, <1>2, <2>1 DEF EntryFits
    <3>2. new \in Seq(Entries) /\ CacheFits(new)
      BY <1>1, <1>2, <3>1, CachePutFits
    <3> QED
      BY <2>1, <3>2
  <2>2. CASE ~(snap.final /\ ~snap.error)
    BY <1>2, <2>2
  <2> QED
    BY <2>1, <2>2
<1> HIDE DEF c
<1>7. /\ st \in UiStates /\ (st.running <=> ~snap.final) /\ st.snapshot = snap
      /\ st.key = key /\ st.error = snap.error
  <2>1. key \in Keys
    BY <1>1, <1>2, ConstantFacts
  <2> HIDE DEF key
  <2> QED
    BY <1>1, <2>1 DEF UiStates, UiState, Snapshots
<1> HIDE DEF st
<1>8. /\ a \in Screens /\ a.session = t.session /\ a.strength = t.strength /\ a.auto = t.auto
      /\ a.analysis = t.analysis /\ a.fg = t.fg /\ a.gone = t.gone /\ a.job = j
      /\ a.queue = t.queue /\ a.currentId = t.currentId
  BY <1>2, <1>5 DEF Screens
<1> HIDE DEF a
<1>9. /\ b \in Screens /\ b.session = a.session /\ b.strength = a.strength /\ b.auto = a.auto
      /\ b.analysis = a.analysis /\ b.fg = a.fg /\ b.gone = a.gone /\ b.job = a.job
      /\ b.queue = a.queue /\ b.currentId = a.currentId /\ b.cache = c
  BY <1>6, <1>8 DEF Screens
<1> HIDE DEF b
<1>10. /\ u \in Screens /\ u.session = b.session /\ u.strength = b.strength /\ u.auto = b.auto
       /\ u.analysis = b.analysis /\ u.fg = b.fg /\ u.gone = b.gone /\ u.job = b.job
       /\ u.queue = b.queue /\ u.currentId = b.currentId /\ u.cache = b.cache /\ u.state = st
  BY <1>7, <1>9 DEF Screens
<1> HIDE DEF u
<1>11. QueueFits(t.queue, j)
  <2>1. CASE snap.final
    BY <2>1, <1>1, <1>2 DEF QueueFits
  <2>2. CASE ~snap.final
    <3>1. Live(t.queue) # {} => ~j.thrown /\ \A i \in DOMAIN j.inbox : ~j.inbox[i].final
      BY <2>2, <1>2, <1>4, <1>5 DEF QueueFits
    <3> QED
      BY <2>2, <3>1, <1>2, <1>5 DEF QueueFits
  <2> QED
    BY <2>1, <2>2
<1>12. Ready(u)
  BY <1>6, <1>8, <1>9, <1>10, <1>11 DEF Fits, Ready
<1>13. Shows(u)
  BY <1>1, <1>2, <1>7, <1>10 DEF Shows, KeyFits, ShownWhole
<1>14. OnBoard(u)
  BY <1>1, <1>8, <1>9, <1>10 DEF OnBoard
<1>15. JobFits(u)
  <2>1. CASE snap.final
    BY <2>1, <1>5, <1>7, <1>8, <1>9, <1>10 DEF JobFits, NoJob
  <2>2. CASE ~snap.final
    <3>1. t.job.id = t.currentId /\ t.job.budget = t.strength
      BY <1>1 DEF Fits, JobFits
    <3>2. u.state.key = StateKey[u.session]
      BY <1>1, <1>7, <1>8, <1>9, <1>10
    <3> QED
      BY <2>2, <3>1, <3>2, <1>1, <1>5, <1>7, <1>8, <1>9, <1>10, <1>14 DEF JobFits
  <2> QED
    BY <2>1, <2>2
<1>16. InboxFits(u.job)
  <2>1. CASE snap.final
    BY <2>1, <1>5, <1>8, <1>9, <1>10 DEF InboxFits, NoJob
  <2>2. CASE ~snap.final
    BY <2>2, <1>2, <1>4, <1>5, <1>8, <1>9, <1>10 DEF InboxFits
  <2> QED
    BY <2>1, <2>2
<1>17. StrongEnough(u)
  BY <1>1, <1>7, <1>8, <1>9, <1>10 DEF StrongEnough
<1> QED
  BY <1>3, <1>12, <1>13, <1>15, <1>16, <1>17 DEF Fits, snap

\* SnapshotCollected
LEMMA SnapshotCollectedFits == IInv /\ SnapshotCollected => Fits(s')
  BY CollectFits DEF IInv, SnapshotCollected

\* CatchFailure: what was shown stays, with an error.
LEMMA CatchFailureFits == IInv /\ CatchFailure => Fits(s')
<1> SUFFICES ASSUME IInv, CatchFailure PROVE Fits(s')
  OBVIOUS
<1> DEFINE st == UiState(FALSE, s.state.snapshot, StateKey[s.session], TRUE)
           v  == [s EXCEPT !.job = NoJob]
           u  == [v EXCEPT !.state = st]
<1>1. /\ s \in Screens /\ s.job \in Jobs /\ s.state \in UiStates /\ s.session \in Positions
      /\ s.job.thrown /\ QueueFits(s.queue, s.job) /\ JobFits(s)
  BY DEF IInv, Fits, Ready, Screens, CatchFailure
<1>2. s.job.phase = "collect"
  BY <1>1 DEF JobFits, Jobs, NoJob
<1>3. s.job.id = s.currentId /\ s.job.pos = s.session /\ s.state.key = StateKey[s.session]
  BY <1>1, <1>2 DEF JobFits
<1>4. Live(s.queue) = {}
  BY <1>1 DEF QueueFits
<1>5. s' = u
  BY <1>1, <1>3 DEF CatchFailure, Screens
<1>6. /\ st \in UiStates /\ ~st.running /\ st.error /\ st.snapshot = s.state.snapshot
      /\ st.key = StateKey[s.session]
  BY <1>1, ConstantFacts DEF UiStates, UiState
<1> HIDE DEF st
<1>7. /\ v \in Screens /\ v.analysis = s.analysis /\ v.cache = s.cache /\ v.queue = s.queue
      /\ v.job = NoJob
  BY <1>1, ConstantFacts DEF Screens
<1> HIDE DEF v
<1>8. /\ u \in Screens /\ u.analysis = v.analysis /\ u.cache = v.cache /\ u.queue = v.queue
      /\ u.job = NoJob /\ u.state = st
  BY <1>6, <1>7 DEF Screens
<1> HIDE DEF u
<1>9. QueueFits(s.queue, NoJob)
  BY <1>1, <1>4 DEF QueueFits
<1>10. Ready(u)
  BY <1>7, <1>8, <1>9 DEF IInv, Fits, Ready
<1>11. Shows(u)
  BY <1>3, <1>6, <1>8 DEF IInv, Fits, Shows, KeyFits, ShownWhole
<1>12. JobFits(u) /\ InboxFits(u.job)
  BY <1>6, <1>8 DEF JobFits, InboxFits, NoJob
<1>13. StrongEnough(u)
  BY <1>6, <1>8 DEF StrongEnough
<1> QED
  BY <1>5, <1>10, <1>11, <1>12, <1>13 DEF Fits
-----------------------------------------------------------------------------
(* The engine *)

\* A step of the search that has the engine changes nothing that its job
\* awaits.
LEMMA HeadFacts ==
  ASSUME NEW q \in Seq(Work), NEW j, QueueFits(q, j), q # << >>, NEW w \in Work,
         w.kind = q[1].kind, w.id = q[1].id, w.pos = q[1].pos, w.budget = q[1].budget,
         w.cancelled = q[1].cancelled, w.cut = q[1].cut
  PROVE  [q EXCEPT ![1] = w] \in Seq(Work) /\ QueueFits([q EXCEPT ![1] = w], j)
<1> DEFINE r == [q EXCEPT ![1] = w]
<1>1. /\ r \in Seq(Work) /\ DOMAIN r = DOMAIN q /\ r[1] = w
      /\ \A i \in DOMAIN q : i # 1 => r[i] = q[i]
  OBVIOUS
<1> HIDE DEF r
<1>2. Live(r) = Live(q)
  BY <1>1 DEF Live
<1>3. QueueFits(r, j)
  <2>1. ASSUME NEW i \in Live(q)
        PROVE  j.phase = "collect" /\ r[i].cut # "own" /\ r[i].id = j.id
               /\ r[i].pos = j.pos /\ r[i].budget = j.budget
    BY <2>1, <1>1 DEF QueueFits, Live
  <2> QED
    BY <2>1, <1>1, <1>2 DEF QueueFits
<1> QED
  BY <1>1, <1>3 DEF r

\* The end of the search that has the engine.
LEMMA TailFacts ==
  ASSUME NEW q \in Seq(Work), NEW j, QueueFits(q, j), q # << >>
  PROVE  /\ Tail(q) \in Seq(Work) /\ QueueFits(Tail(q), j)
         /\ 1 \in Live(q) => Live(Tail(q)) = {}
<1> DEFINE r == Tail(q)
<1>1. r \in Seq(Work) /\ \A i \in DOMAIN r : i + 1 \in DOMAIN q /\ r[i] = q[i + 1] /\ i + 1 # 1
  OBVIOUS
<1> HIDE DEF r
<1>2. \A i \in Live(r) : i \in DOMAIN r /\ i + 1 \in Live(q)
  BY <1>1 DEF Live
<1>3. \A i, k \in Live(r) : i = k
  <2> SUFFICES ASSUME NEW i \in Live(r), NEW k \in Live(r) PROVE i = k
    OBVIOUS
  <2>1. i + 1 = k + 1
    BY <1>2 DEF QueueFits
  <2>2. i \in Nat /\ k \in Nat
    BY <1>1, <1>2
  <2> QED
    BY <2>1, <2>2
<1>4. QueueFits(r, j)
  BY <1>1, <1>2, <1>3 DEF QueueFits
<1>5. 1 \in Live(q) => Live(r) = {}
  <2> SUFFICES ASSUME 1 \in Live(q), NEW i \in Live(r) PROVE FALSE
    OBVIOUS
  <2>1. i + 1 = 1 /\ i \in 1 .. Len(r)
    BY <1>1, <1>2 DEF QueueFits
  <2> QED
    BY <2>1, <1>1
<1> QED
  BY <1>1, <1>4, <1>5 DEF r

\* A snapshot reaches the job that awaits it, or none.
LEMMA DeliverFacts ==
  ASSUME IInv, Engaged, NEW snap \in Snapshots,
         snap.id = Current.id, snap.of = Current.pos, snap.budget = Current.budget,
         snap.cut = Current.cut
  PROVE  LET j == Deliver(snap)
         IN  /\ j \in Jobs /\ j.phase = s.job.phase /\ j.id = s.job.id /\ j.pos = s.job.pos
             /\ j.budget = s.job.budget /\ j.thrown = s.job.thrown
             /\ InboxFits(j) /\ (s.job.phase # "collect" => j = s.job)
             /\ 1 \notin Live(s.queue) => j = s.job
             /\ \A i \in DOMAIN j.inbox : ~snap.final /\ j.inbox[i].final =>
                  \E k \in DOMAIN s.job.inbox : s.job.inbox[k].final
<1> DEFINE j == Deliver(snap)
<1>1. /\ s \in Screens /\ s.queue \in Seq(Work) /\ s.job \in Jobs /\ s.job.inbox \in Seq(Snapshots)
      /\ QueueFits(s.queue, s.job) /\ InboxFits(s.job)
  BY DEF IInv, Fits, Ready, Screens, Jobs
<1>2. 1 \in DOMAIN s.queue /\ Current = s.queue[1] /\ Current \in Work
  BY <1>1 DEF Engaged, Current
<1>3. CASE Current.kind = "analyze" /\ ~Current.cancelled /\ Current.id = s.job.id
  <2> DEFINE box == Append(s.job.inbox, snap)
             v   == [s.job EXCEPT !.inbox = box]
  <2>1. 1 \in Live(s.queue)
    BY <1>2, <1>3 DEF Live
  <2>2. /\ s.job.phase = "collect" /\ Current.pos = s.job.pos /\ Current.budget = s.job.budget
        /\ Current.cut # "own"
    BY <1>1, <1>2, <2>1 DEF QueueFits
  <2>3. j = v
    BY <1>3 DEF Deliver
  <2>4. /\ box \in Seq(Snapshots)
        /\ \A i \in DOMAIN box : box[i] = snap \/ (i \in DOMAIN s.job.inbox /\ box[i] = s.job.inbox[i])
    BY <1>1
  <2> HIDE DEF box
  <2>5. /\ v \in Jobs /\ v.phase = s.job.phase /\ v.id = s.job.id /\ v.pos = s.job.pos
        /\ v.budget = s.job.budget /\ v.thrown = s.job.thrown /\ v.inbox = box
    BY <1>1, <2>4 DEF Jobs
  <2> HIDE DEF v
  <2>6. InboxFits(v)
    BY <1>1, <1>3, <2>2, <2>4, <2>5 DEF InboxFits
  <2> QED
    BY <2>1, <2>2, <2>3, <2>4, <2>5, <2>6
<1>4. CASE ~(Current.kind = "analyze" /\ ~Current.cancelled /\ Current.id = s.job.id)
  <2>1. j = s.job
    BY <1>4 DEF Deliver
  <2> QED
    BY <1>1, <2>1
<1> QED
  BY <1>3, <1>4

\* Queue and job of a screen that fits are changed, and the rest is not.
LEMMA QueueJobFits ==
  ASSUME IInv, NEW q \in Seq(Work), NEW j \in Jobs, QueueFits(q, j), InboxFits(j),
         j.phase = s.job.phase, j.id = s.job.id, j.pos = s.job.pos, j.budget = s.job.budget,
         s.job.phase # "collect" => j = s.job,
         s' = [s EXCEPT !.queue = q, !.job = j]
  PROVE  Fits(s')
<1> DEFINE v == [s EXCEPT !.queue = q]
           u == [v EXCEPT !.job = j]
<1>1. s \in Screens
  BY DEF IInv, Fits, Ready
<1>2. s' = u
  OBVIOUS
<1>3. v \in Screens /\ SameJob(s, v) /\ v.queue = q
  BY <1>1 DEF Screens, SameJob
<1> HIDE DEF v
<1>4. u \in Screens /\ SameJob(v, u) /\ u.queue = q /\ u.job = j
  BY <1>1, <1>3 DEF Screens, SameJob
<1> HIDE DEF u
<1>5. SameJob(s, u)
  BY <1>3, <1>4 DEF SameJob
<1> QED
  BY <1>2, <1>4, <1>5, StepFits DEF IInv

\* EngineGoes: a search begins.
LEMMA EngineGoesFits == IInv /\ EngineGoes => Fits(s')
<1> SUFFICES ASSUME IInv, EngineGoes PROVE Fits(s')
  OBVIOUS
<1> DEFINE w == [s.queue[1] EXCEPT !.phase = "searching"]
           q == [s.queue EXCEPT ![1] = w]
           j == s.job
<1>1. /\ s \in Screens /\ s.queue \in Seq(Work) /\ s.queue # << >> /\ j \in Jobs
      /\ QueueFits(s.queue, j) /\ InboxFits(j)
  BY DEF IInv, Fits, Ready, Screens, EngineGoes, Engaged
<1>2. s.queue[1] \in Work
  BY <1>1
<1>3. /\ w \in Work /\ w.kind = s.queue[1].kind /\ w.id = s.queue[1].id /\ w.pos = s.queue[1].pos
      /\ w.budget = s.queue[1].budget /\ w.cancelled = s.queue[1].cancelled
      /\ w.cut = s.queue[1].cut
  BY <1>2 DEF Work
<1>4. s' = [s EXCEPT !.queue = q, !.job = j]
  BY <1>1 DEF EngineGoes, Screens
<1> HIDE DEF w
<1>5. q \in Seq(Work) /\ QueueFits(q, j)
  BY <1>1, <1>3, HeadFacts
<1> HIDE DEF q
<1> QED
  BY <1>1, <1>4, <1>5, QueueJobFits

\* EngineTells: a snapshot that is no result.
LEMMA EngineTellsFits == IInv /\ EngineTells => Fits(s')
<1> SUFFICES ASSUME IInv, EngineTells PROVE Fits(s')
  OBVIOUS
<1> DEFINE n    == s.queue[1].told + 1
           w    == [s.queue[1] EXCEPT !.told = n]
           q    == [s.queue EXCEPT ![1] = w]
           snap == Snapshot(Current, FALSE, 0, FALSE)
           j    == Deliver(snap)
<1>1. /\ s \in Screens /\ s.queue \in Seq(Work) /\ s.queue # << >>
      /\ QueueFits(s.queue, s.job) /\ Engaged
  BY DEF IInv, Fits, Ready, Screens, EngineTells, Engaged
<1>2. s.queue[1] \in Work /\ Current = s.queue[1] /\ n \in Nat
  <2>1. s.queue[1] \in Work /\ Current = s.queue[1]
    BY <1>1 DEF Current
  <2>2. s.queue[1].told \in Nat
    BY <2>1 DEF Work
  <2> QED
    BY <2>1, <2>2
<1>3. s' = [s EXCEPT !.queue = q, !.job = j]
  BY <1>1, <1>2 DEF EngineTells
<1> HIDE DEF n
<1>4. /\ w \in Work /\ w.kind = s.queue[1].kind /\ w.id = s.queue[1].id /\ w.pos = s.queue[1].pos
      /\ w.budget = s.queue[1].budget /\ w.cancelled = s.queue[1].cancelled
      /\ w.cut = s.queue[1].cut
  BY <1>2 DEF Work
<1> HIDE DEF w
<1>5. q \in Seq(Work) /\ QueueFits(q, s.job)
  BY <1>1, <1>4, HeadFacts
<1>6. Live(q) = Live(s.queue)
  BY <1>1, <1>4 DEF Live
<1> HIDE DEF q
<1>7. /\ snap \in Snapshots /\ snap.id = Current.id /\ snap.of = Current.pos
      /\ snap.budget = Current.budget /\ snap.cut = Current.cut /\ ~snap.final
  BY <1>2 DEF Snapshot, Snapshots, Work
<1> HIDE DEF snap
<1>8. /\ j \in Jobs /\ j.phase = s.job.phase /\ j.id = s.job.id /\ j.pos = s.job.pos
      /\ j.budget = s.job.budget /\ j.thrown = s.job.thrown
      /\ InboxFits(j) /\ (s.job.phase # "collect" => j = s.job)
      /\ \A i \in DOMAIN j.inbox : j.inbox[i].final =>
           \E k \in DOMAIN s.job.inbox : s.job.inbox[k].final
  BY <1>1, <1>7, DeliverFacts
<1> HIDE DEF j
<1>9. Live(q) # {} => ~j.thrown /\ \A i \in DOMAIN j.inbox : ~j.inbox[i].final
  BY <1>1, <1>6, <1>8 DEF QueueFits
<1>10. QueueFits(q, j)
  BY <1>5, <1>8, <1>9 DEF QueueFits
<1> QED
  BY <1>3, <1>5, <1>8, <1>10, QueueJobFits

\* The search that has the engine is over, with a result for its job.
LEMMA ResultFits ==
  ASSUME IInv, Engaged, NEW snap \in Snapshots,
         snap.id = Current.id, snap.of = Current.pos, snap.budget = Current.budget,
         snap.cut = Current.cut,
         s' = [s EXCEPT !.queue = Tail(s.queue), !.job = Deliver(snap)]
  PROVE  Fits(s')
<1> DEFINE q == Tail(s.queue)
           j == Deliver(snap)
<1>1. /\ s \in Screens /\ s.queue \in Seq(Work) /\ s.queue # << >>
      /\ QueueFits(s.queue, s.job)
  BY DEF IInv, Fits, Ready, Screens, Engaged
<1>2. q \in Seq(Work) /\ QueueFits(q, s.job) /\ (1 \in Live(s.queue) => Live(q) = {})
  BY <1>1, TailFacts
<1>3. s' = [s EXCEPT !.queue = q, !.job = j]
  OBVIOUS
<1> HIDE DEF q
<1>4. /\ j \in Jobs /\ j.phase = s.job.phase /\ j.id = s.job.id /\ j.pos = s.job.pos
      /\ j.budget = s.job.budget /\ j.thrown = s.job.thrown
      /\ InboxFits(j) /\ (s.job.phase # "collect" => j = s.job)
      /\ 1 \notin Live(s.queue) => j = s.job
  BY DeliverFacts
<1> HIDE DEF j
<1>5. QueueFits(q, j)
  <2>1. CASE 1 \in Live(s.queue)
    BY <2>1, <1>2 DEF QueueFits
  <2>2. CASE 1 \notin Live(s.queue)
    BY <2>2, <1>2, <1>4
  <2> QED
    BY <2>1, <2>2
<1> QED
  BY <1>2, <1>3, <1>4, <1>5, QueueJobFits

\* EngineEnds: the final snapshot.
LEMMA EngineEndsFits == IInv /\ EngineEnds => Fits(s')
<1> SUFFICES ASSUME IInv, EngineEnds PROVE Fits(s')
  OBVIOUS
<1>1. Engaged /\ s.queue \in Seq(Work)
  BY DEF EngineEnds, IInv, Fits, Ready, Screens
<1>2. Current \in Work
  BY <1>1 DEF Engaged, Current
<1>3. PICK time \in {0, Current.budget} :
        s' = [s EXCEPT !.queue = Tail(s.queue), !.job = Deliver(Snapshot(Current, TRUE, time, FALSE))]
  BY DEF EngineEnds
<1> DEFINE snap == Snapshot(Current, TRUE, time, FALSE)
<1>4. time \in Nat
  BY <1>2 DEF Work
<1>5. /\ snap \in Snapshots /\ snap.id = Current.id /\ snap.of = Current.pos
      /\ snap.budget = Current.budget /\ snap.cut = Current.cut
  BY <1>2, <1>4 DEF Snapshot, Snapshots, Work
<1> HIDE DEF snap
<1> QED
  BY <1>1, <1>3, <1>5, ResultFits DEF snap

\* EngineFails: an error instead of a result, or an exception.
LEMMA EngineFailsFits == IInv /\ EngineFails => Fits(s')
<1> SUFFICES ASSUME IInv, EngineFails PROVE Fits(s')
  OBVIOUS
<1>1. /\ Engaged /\ s \in Screens /\ s.queue \in Seq(Work) /\ s.job \in Jobs
      /\ QueueFits(s.queue, s.job) /\ InboxFits(s.job)
  BY DEF EngineFails, IInv, Fits, Ready, Screens
<1>2. Current \in Work /\ s.queue # << >> /\ 1 \in DOMAIN s.queue /\ Current = s.queue[1]
  BY <1>1 DEF Engaged, Current
<1>3. CASE s' = [s EXCEPT !.queue = Tail(s.queue), !.job = Deliver(Snapshot(Current, TRUE, 0, TRUE))]
  <2> DEFINE snap == Snapshot(Current, TRUE, 0, TRUE)
  <2>1. /\ snap \in Snapshots /\ snap.id = Current.id /\ snap.of = Current.pos
        /\ snap.budget = Current.budget /\ snap.cut = Current.cut
    BY <1>2 DEF Snapshot, Snapshots, Work
  <2>2. s' = [s EXCEPT !.queue = Tail(s.queue), !.job = Deliver(snap)]
    BY <1>3
  <2> HIDE DEF snap
  <2> QED
    BY <1>1, <2>1, <2>2, ResultFits
<1>4. CASE /\ Current.kind = "analyze" /\ ~Current.cancelled
           /\ s' = [s EXCEPT !.queue = Tail(s.queue), !.job.thrown = TRUE]
  <2> DEFINE q == Tail(s.queue)
             j == [s.job EXCEPT !.thrown = TRUE]
  <2>1. 1 \in Live(s.queue)
    BY <1>2, <1>4 DEF Live
  <2>2. s.job.phase = "collect"
    BY <1>1, <2>1 DEF QueueFits
  <2>3. q \in Seq(Work) /\ QueueFits(q, s.job) /\ Live(q) = {}
    BY <1>1, <1>2, <2>1, TailFacts
  <2>4. s' = [s EXCEPT !.queue = q, !.job = j]
    BY <1>1, <1>4 DEF Screens
  <2> HIDE DEF q
  <2>5. /\ j \in Jobs /\ j.phase = s.job.phase /\ j.id = s.job.id /\ j.pos = s.job.pos
        /\ j.budget = s.job.budget /\ j.inbox = s.job.inbox
    BY <1>1 DEF Jobs
  <2> HIDE DEF j
  <2>6. QueueFits(q, j)
    BY <2>3 DEF QueueFits
  <2>7. InboxFits(j)
    BY <1>1, <2>5 DEF InboxFits
  <2> QED
    BY <2>2, <2>3, <2>4, <2>5, <2>6, <2>7, QueueJobFits
<1> QED
  BY <1>3, <1>4 DEF EngineFails

-----------------------------------------------------------------------------
(* The theorems *)

\* The invariant holds initially and is preserved by every step.
LEMMA IInvInit == Init => IInv
<1>1. Init => acts = 0
  BY DEF Init
<1> QED
  BY <1>1, InitFits DEF IInv

\* The count of user actions is a number.
LEMMA ActsType == IInv /\ [Next]_vars => acts' \in Nat
<1> SUFFICES ASSUME acts \in Nat, [Next]_vars PROVE acts' \in Nat
  BY DEF IInv
<1>1. CASE UserActs
  BY <1>1 DEF UserActs
<1>2. CASE UNCHANGED acts
  BY <1>2
<1> QED
  BY <1>1, <1>2 DEF Next, vars, Navigate, NewGame, SetStrength, ToggleAnalysis, Reanalyze,
     SwitchApp, ProcessDeath, Leave, OtherCleared, MainThread, Engine, OnScreen

\* No step disturbs the screen.
LEMMA IInvNext == IInv /\ [Next]_vars => IInv'
<1> SUFFICES ASSUME IInv, [Next]_vars PROVE Fits(s')
  BY ActsType DEF IInv
<1>1. CASE Navigate \/ NewGame \/ SetStrength \/ ToggleAnalysis \/ Reanalyze
  BY <1>1, NavigateFits, NewGameFits, SetStrengthFits, ToggleFits, ReanalyzeFits
<1>2. CASE SwitchApp \/ ProcessDeath \/ Leave \/ OtherCleared
  BY <1>2, SwitchAppFits, ProcessDeathFits, LeaveFits, OtherClearedFits
<1>3. CASE MainThread
  BY <1>3, StateCollectedFits, DebounceEndsFits, SnapshotCollectedFits, CatchFailureFits
     DEF MainThread
<1>4. CASE Engine \/ EngineFails
  BY <1>4, EngineGoesFits, EngineTellsFits, EngineEndsFits, EngineFailsFits DEF Engine
<1>5. CASE UNCHANGED vars
  BY <1>5 DEF IInv, vars
<1> QED
  BY <1>1, <1>2, <1>3, <1>4, <1>5 DEF Next

\* In every state the screen, its controller and the engine fit together.
THEOREM ScreenInvCorrect == Spec => []IInv
  BY IInvInit, IInvNext, PTL DEF Spec

\* The analysis shown is one of a position with the state key of the one on
\* screen, whatever the key tells apart: in the code, everything but the rules.
THEOREM ShownFitsKeyCorrect == Spec => []ShownFitsKey
<1>1. ASSUME IInv PROVE ShownFitsKey
  <2> SUFFICES ASSUME CurrentSnapshot # NoSnapshot
               PROVE  /\ CurrentSnapshot.of \in Positions
                      /\ StateKey[CurrentSnapshot.of] = StateKey[s.session]
    BY DEF ShownFitsKey
  <2>1. s.analysis.key = StateKey[s.session] /\ CurrentSnapshot = s.analysis.snapshot
    BY DEF CurrentSnapshot
  <2>2. s.session \in Positions /\ KeyFits(s.analysis)
    BY <1>1 DEF IInv, Fits, Ready, Screens
  <2> QED
    BY <2>1, <2>2 DEF KeyFits
<1> QED
  BY <1>1, ScreenInvCorrect, PTL

\* A search that is not cancelled is the job's, so there is one at most.
LEMMA OneLive == IInv => OneLiveSearch
<1> SUFFICES ASSUME IInv PROVE OneLiveSearch
  OBVIOUS
<1> DEFINE live == Live(s.queue)
<1>1. QueueFits(s.queue, s.job)
  BY DEF IInv, Fits, Ready
<1>2. Cardinality(live) <= 1
  <2>1. CASE live = {}
    BY <2>1, FS_EmptySet
  <2>2. CASE live # {}
    <3>1. PICK i \in live : live = {i}
      BY <2>2, <1>1 DEF QueueFits
    <3> QED
      BY <3>1, FS_Singleton
  <2> QED
    BY <2>1, <2>2
<1>3. \A i \in live : s.job.phase = "collect" /\ s.queue[i].id = s.job.id
  BY <1>1 DEF QueueFits
<1> QED
  BY <1>2, <1>3 DEF OneLiveSearch, Live

\* The spinner turns only while a job can stop it, searches never pile up, and
\* a screen that is off, left or in the background searches nothing.
THEOREM ControllerAgreesCorrect == Spec => []ControllerAgrees
<1>1. ASSUME IInv PROVE ControllerAgrees
  <2>1. /\ s \in Screens /\ CacheFits(s.cache) /\ JobFits(s) /\ acts \in Nat
    BY <1>1 DEF IInv, Fits, Ready
  <2>2. TypeOK
    <3>1. s.job \in Jobs /\ s.cache \in Seq(Entries)
      BY <2>1 DEF Screens
    <3>2. \A e, f \in ToSet(s.cache) : e.key = f.key => e = f
      BY <2>1 DEF CacheFits, ToSet
    <3> QED
      BY <2>1, <3>1, <3>2 DEF TypeOK, Screens, Jobs, CacheFits
  <2>3. RunningHasJob
    BY <2>1 DEF RunningHasJob, JobFits
  <2>4. QuietWhenOff
    BY <2>1 DEF QuietWhenOff, JobFits, OnBoard
  <2> QED
    BY <1>1, <2>2, <2>3, <2>4, OneLive DEF ControllerAgrees
<1> QED
  BY <1>1, ScreenInvCorrect, PTL

\* No analysis that this screen cut short is shown as a result or kept.
THEOREM NeverOwnCutCorrect == Spec => []NeverOwnCut
<1>1. ASSUME IInv PROVE NeverOwnCut
  <2>1. ShownWhole(s.state) /\ CacheFits(s.cache)
    BY <1>1 DEF IInv, Fits, Ready, Shows
  <2> QED
    BY <2>1 DEF NeverOwnCut, ShownWhole, CacheFits, EntryFits, ToSet
<1> QED
  BY <1>1, ScreenInvCorrect, PTL

\* What a screen at rest shows was made with the strength chosen, or took most
\* of its time, unless another screen's stop() cut it.
THEOREM FullStrengthCorrect == Spec => []FullStrength
<1>1. ASSUME IInv PROVE FullStrength
  BY <1>1 DEF IInv, Fits, StrongEnough, FullStrength, AtRest, OnBoard
<1> QED
  BY <1>1, ScreenInvCorrect, PTL
=============================================================================
