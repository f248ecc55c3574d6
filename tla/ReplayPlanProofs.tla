--------------------------- MODULE ReplayPlanProofs ---------------------------
(***************************************************************************)
(* Proofs about ReplayPlan, for any keys, names, numbers and requests and  *)
(* for manifests of any length: manifests nest, names keep their meaning,  *)
(* and the failures of a replay are those that were asked for.             *)
(*                                                                         *)
(* What is to be shown of the builder is that sorting loses nothing:       *)
(* Sorted puts the event of rank n into place n, so the ranks have to be a *)
(* permutation.  A manifest then lists the events that were stored when it *)
(* was built, each once and in order (Listed).  Of two that are about, in  *)
(* the table, in a normalizer, in the rows of the replay or before the     *)
(* client's eyes, one lists what the other does (ListsInv): a newer one    *)
(* lists all, and no write makes a list of its own.                        *)
(***************************************************************************)
EXTENDS ReplayPlan, FiniteSetTheorems, TLAPS

-----------------------------------------------------------------------------
(***************************************************************************)
(* The order of events, and sorting.                                       *)
(***************************************************************************)

\* Element j of s comes before element i or is i itself: ties in place.
UpTo(s, j, i) == Before(s[j], s[i]) \/ (~Before(s[i], s[j]) /\ j <= i)

RankOf(s) ==
  [i \in 1..Len(s) |-> Cardinality({j \in 1..Len(s) : UpTo(s, j, i)})]

\* UpTo is a linear order on the places of s.
LEMMA UpToIsLinear ==
  ASSUME NEW s \in Seq(Events), NEW i \in 1..Len(s), NEW j \in 1..Len(s), NEW k \in 1..Len(s)
  PROVE  /\ UpTo(s, i, i)
         /\ UpTo(s, i, j) \/ UpTo(s, j, i)
         /\ UpTo(s, i, j) /\ UpTo(s, j, i) => i = j
         /\ UpTo(s, i, j) /\ UpTo(s, j, k) => UpTo(s, i, k)
         /\ Before(s[i], s[j]) => UpTo(s, i, j) /\ i # j
<1>1. s[i] \in Events /\ s[j] \in Events /\ s[k] \in Events
  OBVIOUS
<1>2. /\ s[i].sequence \in Nat /\ s[j].sequence \in Nat /\ s[k].sequence \in Nat
      /\ s[i].event_ts \in Nat /\ s[j].event_ts \in Nat /\ s[k].event_ts \in Nat
  BY <1>1, StepNameAssumption DEF Events
<1>3. i \in Nat /\ j \in Nat /\ k \in Nat
  OBVIOUS
<1>4. PICK a \in Nat, b \in Nat, c \in Nat :
        a = s[i].sequence /\ b = s[j].sequence /\ c = s[k].sequence
  BY <1>2
<1>5. PICK d \in Nat, e \in Nat, f \in Nat :
        d = s[i].event_ts /\ e = s[j].event_ts /\ f = s[k].event_ts
  BY <1>2
<1>6. /\ Before(s[i], s[j]) <=> a < b \/ (a = b /\ d < e)
      /\ Before(s[j], s[i]) <=> b < a \/ (b = a /\ e < d)
      /\ Before(s[j], s[k]) <=> b < c \/ (b = c /\ e < f)
      /\ Before(s[k], s[j]) <=> c < b \/ (c = b /\ f < e)
      /\ Before(s[i], s[k]) <=> a < c \/ (a = c /\ d < f)
      /\ Before(s[k], s[i]) <=> c < a \/ (c = a /\ f < d)
      /\ ~Before(s[i], s[i])
  BY <1>4, <1>5 DEF Before
<1>7. /\ UpTo(s, i, i)
      /\ UpTo(s, i, j) <=> a < b \/ (a = b /\ (d < e \/ (d = e /\ i <= j)))
      /\ UpTo(s, j, i) <=> b < a \/ (a = b /\ (e < d \/ (d = e /\ j <= i)))
      /\ UpTo(s, j, k) <=> b < c \/ (b = c /\ (e < f \/ (e = f /\ j <= k)))
      /\ UpTo(s, i, k) <=> a < c \/ (a = c /\ (d < f \/ (d = f /\ i <= k)))
  BY <1>3, <1>6 DEF UpTo
<1>8. UpTo(s, i, j) /\ UpTo(s, j, k) => UpTo(s, i, k)
  BY <1>3, <1>7
<1> QED
  BY <1>3, <1>6, <1>7, <1>8

\* A place that comes before another has a smaller rank.
LEMMA RankGrows ==
  ASSUME NEW s \in Seq(Events), NEW i \in 1..Len(s), NEW j \in 1..Len(s), UpTo(s, i, j), i # j
  PROVE  RankOf(s)[i] < RankOf(s)[j]
<1> DEFINE D(k) == {l \in 1..Len(s) : UpTo(s, l, k)}
<1>1. Len(s) \in Nat /\ IsFiniteSet(1..Len(s))
  BY FS_Interval
<1>2. \A l \in D(i) : l \in D(j)
  BY UpToIsLinear
<1>3. j \in D(j) /\ j \notin D(i)
  BY UpToIsLinear
<1>4. IsFiniteSet(D(j)) /\ D(i) \in SUBSET D(j)
  BY <1>1, <1>2, FS_Subset
<1>5. /\ Cardinality(D(i)) <= Cardinality(D(j))
      /\ Cardinality(D(i)) # Cardinality(D(j))
      /\ IsFiniteSet(D(i))
  BY <1>3, <1>4, FS_Subset
<1>6. Cardinality(D(i)) \in Nat /\ Cardinality(D(j)) \in Nat
  BY <1>4, <1>5, FS_CardinalityType
<1>7. RankOf(s)[i] = Cardinality(D(i)) /\ RankOf(s)[j] = Cardinality(D(j))
  BY DEF RankOf
<1> HIDE DEF D
<1> QED
  BY <1>5, <1>6, <1>7

\* The ranks are a permutation of the places.
LEMMA RanksPermute ==
  ASSUME NEW s \in Seq(Events)
  PROVE  /\ RankOf(s) \in [1..Len(s) -> 1..Len(s)]
         /\ \A i, j \in 1..Len(s) : RankOf(s)[i] = RankOf(s)[j] => i = j
         /\ \A n \in 1..Len(s) : \E i \in 1..Len(s) : RankOf(s)[i] = n
<1> DEFINE P == 1..Len(s)
<1>1. Len(s) \in Nat /\ IsFiniteSet(P) /\ Cardinality(P) = Len(s)
  <2>1. Len(s) \in Nat
    OBVIOUS
  <2>2. IsFiniteSet(P) /\ Cardinality(P) = IF 1 > Len(s) THEN 0 ELSE Len(s) - 1 + 1
    BY <2>1, FS_Interval
  <2> QED
    BY <2>1, <2>2
<1>2. ASSUME NEW i \in P
      PROVE  Cardinality({j \in P : UpTo(s, j, i)}) \in P
  <2> DEFINE D == {j \in P : UpTo(s, j, i)}
  <2>1. IsFiniteSet(D) /\ Cardinality(D) <= Len(s)
    BY <1>1, FS_Subset
  <2>2. i \in D
    BY UpToIsLinear
  <2>3. Cardinality(D) \in Nat /\ Cardinality(D) # 0
    BY <2>1, <2>2, FS_CardinalityType, FS_EmptySet
  <2> HIDE DEF D
  <2>4. Cardinality(D) \in P
    BY <1>1, <2>1, <2>3
  <2> QED
    BY <2>4 DEF D
<1>3. RankOf(s) \in [P -> P]
  BY <1>2 DEF RankOf
<1>4. \A i, j \in P : RankOf(s)[i] = RankOf(s)[j] => i = j
  <2> SUFFICES ASSUME NEW i \in P, NEW j \in P, i # j
               PROVE  RankOf(s)[i] # RankOf(s)[j]
    OBVIOUS
  <2>1. RankOf(s)[i] \in Nat /\ RankOf(s)[j] \in Nat
    BY <1>1, <1>3
  <2> QED
    BY <2>1, UpToIsLinear, RankGrows
<1>5. RankOf(s) \in Injection(P, P)
  BY <1>3, <1>4 DEF Injection, IsInjective
<1>6. RankOf(s) \in Surjection(P, P)
  BY <1>1, <1>5, FS_Injection
<1> QED
  BY <1>3, <1>4, <1>6 DEF Surjection

\* Sorting loses nothing and repeats nothing, and puts what is before before.
LEMMA SortedPermutes ==
  ASSUME NEW s \in Seq(Events)
  PROVE  \E p \in [1..Len(s) -> 1..Len(s)] :
           /\ \A m, n \in 1..Len(s) : p[m] = p[n] => m = n
           /\ \A i \in 1..Len(s) : \E n \in 1..Len(s) : p[n] = i
           /\ \A n \in 1..Len(s) : Sorted(s)[n] = s[p[n]]
           /\ \A m, n \in 1..Len(s) : Before(s[p[m]], s[p[n]]) => m < n
<1> DEFINE P == 1..Len(s)
           p == [n \in P |-> CHOOSE i \in P : RankOf(s)[i] = n]
<1>1. \A n \in P : p[n] \in P /\ RankOf(s)[p[n]] = n
  BY RanksPermute
<1>2. ASSUME NEW i \in P
      PROVE  RankOf(s)[i] \in P /\ p[RankOf(s)[i]] = i
  <2>1. RankOf(s)[i] \in P
    BY RanksPermute
  <2>2. p[RankOf(s)[i]] \in P /\ RankOf(s)[p[RankOf(s)[i]]] = RankOf(s)[i]
    BY <1>1, <2>1
  <2> HIDE DEF p
  <2> QED
    BY <2>1, <2>2, RanksPermute
<1>3. \A n \in P : Sorted(s)[n] = s[p[n]]
  BY DEF Sorted, RankOf, UpTo
<1>4. ASSUME NEW m \in P, NEW n \in P, Before(s[p[m]], s[p[n]])
      PROVE  m < n
  <2>1. p[m] \in P /\ p[n] \in P /\ RankOf(s)[p[m]] = m /\ RankOf(s)[p[n]] = n
    BY <1>1
  <2> HIDE DEF p
  <2>2. UpTo(s, p[m], p[n]) /\ p[m] # p[n]
    BY <1>4, <2>1, UpToIsLinear
  <2>3. RankOf(s)[p[m]] < RankOf(s)[p[n]]
    BY <2>1, <2>2, RankGrows
  <2> QED
    BY <2>1, <2>3
<1>5. p \in [P -> P]
  BY <1>1
<1> HIDE DEF p
<1>6. \A m, n \in P : p[m] = p[n] => m = n
  BY <1>1, Zenon
<1>7. \A i \in P : \E n \in P : p[n] = i
  BY <1>2, Zenon
<1> QED
  BY <1>3, <1>4, <1>5, <1>6, <1>7

-----------------------------------------------------------------------------
(***************************************************************************)
(* The manifest.                                                           *)
(***************************************************************************)

StepOf(e, n) == [step_id |-> StepIdOf(e), step_order |-> n, source |-> e.key]

\* Keys are unique.
EventsInv ==
  /\ events \subseteq Events /\ IsFiniteSet(events)
  /\ \A e, f \in events : e.key = f.key => e = f

\* Every step is the step of a stored event, no event has two, and they are in order.
Listed(d) ==
  /\ d \in Seq(Steps)
  /\ \A n \in 1..Len(d) : \E e \in events : d[n] = StepOf(e, n)
  /\ \A m, n \in 1..Len(d) : d[m].source = d[n].source => m = n
  /\ \A m, n \in 1..Len(d) : \A e, f \in events :
       d[m].source = e.key /\ d[n].source = f.key /\ Before(e, f) => m < n

\* The events of c are among those of d.
Within(c, d) == \A m \in 1..Len(c) : \E i \in 1..Len(d) : d[i].source = c[m].source

\* The steps of the replay j.
PlanOf(j) == [n \in 1..Len(j.steps) |-> j.steps[n].step]

\* The manifests that are about.
Manifests == {manifest, seen} \cup {draft[n] : n \in Normalizers}
               \cup (IF job = None THEN {} ELSE {PlanOf(job)})

ListsInv ==
  /\ DOMAIN draft = Normalizers
  /\ \A d \in Manifests : Listed(d)
  /\ \A c, d \in Manifests : Within(c, d) \/ Within(d, c)

\* The SELECT returns every event once.
LEMMA LoadedOnce ==
  ASSUME EventsInv, NEW s \in Loads(events)
  PROVE  /\ s \in Seq(events) /\ s \in Seq(Events)
         /\ \A i, j \in 1..Len(s) : s[i] = s[j] => i = j
         /\ \A e \in events : \E i \in 1..Len(s) : s[i] = e
<1> DEFINE N == Cardinality(events)
<1>1. N \in Nat /\ IsFiniteSet(1..N)
  BY FS_CardinalityType, FS_Interval DEF EventsInv
<1>2. s \in [1..N -> events] /\ \A i, j \in 1..N : i # j => s[i] # s[j]
  BY DEF Loads, SetToSeqs
<1> HIDE DEF N
<1>3. s \in Seq(events) /\ Len(s) = N
  BY <1>1, <1>2
<1>4. s \in Injection(1..N, events)
  BY <1>2 DEF Injection, IsInjective
<1>5. Cardinality(1..N) = N
  <2>1. Cardinality(1..N) = IF 1 > N THEN 0 ELSE N - 1 + 1
    BY <1>1, FS_Interval
  <2> QED
    BY <1>1, <2>1
<1>6. s \in Surjection(1..N, events)
  BY <1>4, <1>5, FS_Injection DEF EventsInv, N
<1> QED
  BY <1>2, <1>3, <1>6 DEF EventsInv, Surjection

\* A step has a name and a number.
LEMMA StepType ==
  ASSUME NEW e \in Events, NEW n \in Nat \ {0}
  PROVE  StepOf(e, n) \in Steps
  BY StepNameAssumption DEF Events, Steps, StepOf, StepIdOf

\* The builder lists every stored event once, in the order of the events.
LEMMA BuiltInOrder ==
  ASSUME EventsInv, NEW s \in Loads(events), NEW b, b = BuildManifest(s)
  PROVE  /\ b \in Seq(Steps)
         /\ \E E \in [1..Len(b) -> events] :
              /\ \A n \in 1..Len(b) : b[n] = StepOf(E[n], n)
              /\ \A m, n \in 1..Len(b) : E[m] = E[n] => m = n
              /\ \A e \in events : \E n \in 1..Len(b) : E[n] = e
              /\ \A m, n \in 1..Len(b) : Before(E[m], E[n]) => m < n
<1> DEFINE P == 1..Len(s)
<1>1. s \in Seq(events) /\ s \in Seq(Events) /\ Len(s) \in Nat
  BY LoadedOnce
<1>2. PICK p \in [P -> P] :
        /\ \A m, n \in P : p[m] = p[n] => m = n
        /\ \A i \in P : \E n \in P : p[n] = i
        /\ \A n \in P : Sorted(s)[n] = s[p[n]]
        /\ \A m, n \in P : Before(s[p[m]], s[p[n]]) => m < n
  BY <1>1, SortedPermutes
<1> DEFINE E == [n \in P |-> s[p[n]]]
<1>3. \A n \in P : s[p[n]] \in events
  BY <1>1, <1>2
<1>4. \A n \in P : b[n] = StepOf(E[n], n)
  BY <1>2 DEF BuildManifest, StepOf
<1>5. \A n \in P : n \in Nat \ {0} /\ StepOf(E[n], n) \in Steps
  BY <1>1, <1>3, StepType DEF EventsInv
<1>6. b = [n \in P |-> b[n]]
  BY DEF BuildManifest
<1>7. b \in [P -> Steps]
  BY <1>4, <1>5, <1>6
<1>8. b \in Seq(Steps) /\ Len(b) = Len(s)
  BY <1>1, <1>7
<1>9. E \in [P -> events]
  BY <1>3
<1>10. ASSUME NEW m \in P, NEW n \in P, E[m] = E[n]
       PROVE  m = n
  <2>1. p[m] \in P /\ p[n] \in P /\ s[p[m]] = s[p[n]]
    BY <1>2, <1>10
  <2>2. p[m] = p[n]
    BY <2>1, LoadedOnce
  <2> QED
    BY <1>2, <2>2, Zenon
<1>11. \A e \in events : \E n \in P : E[n] = e
  <2> SUFFICES ASSUME NEW e \in events
               PROVE  \E n \in P : E[n] = e
    OBVIOUS
  <2>1. PICK i \in P : s[i] = e
    BY LoadedOnce
  <2>2. PICK n \in P : p[n] = i
    BY <1>2
  <2> QED
    BY <2>1, <2>2
<1>12. \A m, n \in P : Before(E[m], E[n]) => m < n
  BY <1>2
<1> HIDE DEF E
<1> QED
  BY <1>4, <1>8, <1>9, <1>10, <1>11, <1>12

\* What is built is a list of all that is stored.
LEMMA BuiltIsListed ==
  ASSUME EventsInv, NEW s \in Loads(events), NEW b, b = BuildManifest(s)
  PROVE  /\ Listed(b)
         /\ \A e \in events : \E n \in 1..Len(b) : b[n].source = e.key
<1>1. b \in Seq(Steps)
  BY BuiltInOrder
<1>2. PICK E \in [1..Len(b) -> events] :
        /\ \A n \in 1..Len(b) : b[n] = StepOf(E[n], n)
        /\ \A m, n \in 1..Len(b) : E[m] = E[n] => m = n
        /\ \A e \in events : \E n \in 1..Len(b) : E[n] = e
        /\ \A m, n \in 1..Len(b) : Before(E[m], E[n]) => m < n
  BY BuiltInOrder
<1>3. ASSUME NEW n \in 1..Len(b)
      PROVE  E[n] \in events /\ b[n] = StepOf(E[n], n) /\ b[n].source = E[n].key
  BY <1>2 DEF StepOf
<1>4. \A n \in 1..Len(b) : \E e \in events : b[n] = StepOf(e, n)
  BY <1>3
<1>5. \A m, n \in 1..Len(b) : b[m].source = b[n].source => m = n
  BY <1>2, <1>3 DEF EventsInv
<1>6. ASSUME NEW n \in 1..Len(b), NEW e \in events, b[n].source = e.key
      PROVE  E[n] = e
  BY <1>3, <1>6 DEF EventsInv
<1>7. \A m, n \in 1..Len(b) : \A e, f \in events :
        b[m].source = e.key /\ b[n].source = f.key /\ Before(e, f) => m < n
  BY <1>2, <1>6
<1>8. \A e \in events : \E n \in 1..Len(b) : b[n].source = e.key
  BY <1>2, <1>3
<1> QED
  BY <1>1, <1>4, <1>5, <1>7, <1>8 DEF Listed

\* What was stored when a list was built is in order in it for good: a later event
\* has a key of its own.
LEMMA ListedStays ==
  ASSUME EventsInv, EventsInv', events \subseteq events', NEW d, Listed(d)
  PROVE  Listed(d)'
<1>1. ASSUME NEW n \in 1..Len(d), NEW e \in events', d[n].source = e.key
      PROVE  e \in events
  <2>1. PICK f \in events : d[n] = StepOf(f, n)
    BY DEF Listed
  <2>2. d[n].source = f.key
    BY <2>1 DEF StepOf
  <2> QED
    BY <1>1, <2>2 DEF EventsInv
<1>2. \A n \in 1..Len(d) : \E e \in events' : d[n] = StepOf(e, n)
  BY DEF Listed
<1>3. \A m, n \in 1..Len(d) : \A e, f \in events' :
        d[m].source = e.key /\ d[n].source = f.key /\ Before(e, f) => m < n
  BY <1>1 DEF Listed
<1> QED
  BY <1>2, <1>3 DEF Listed

\* A step keeps ListsInv that adds one list at most.
LEMMA ListsStay ==
  ASSUME EventsInv, ListsInv, EventsInv', events \subseteq events',
         DOMAIN draft' = Normalizers,
         NEW b, Manifests' \subseteq Manifests \cup {b}, Listed(b),
         \A c \in Manifests : Within(c, b) \/ Within(b, c)
  PROVE  ListsInv'
<1>1. \A d \in Manifests' : Listed(d)'
  <2> SUFFICES ASSUME NEW d \in Manifests'
               PROVE  Listed(d)'
    OBVIOUS
  <2>1. Listed(d)
    BY DEF ListsInv
  <2> QED
    BY <2>1, ListedStays
<1>2. Within(b, b)
  BY DEF Within
<1>3. \A c, d \in Manifests' : Within(c, d) \/ Within(d, c)
  BY <1>2 DEF ListsInv
<1> QED
  BY <1>1, <1>3 DEF ListsInv, Within

\* The empty list is within all.
LEMMA EmptyList == Listed(<<>>) /\ \A d : Within(<<>>, d)
  BY DEF Listed, Within

-----------------------------------------------------------------------------
(***************************************************************************)
(* The replay.                                                             *)
(***************************************************************************)

\* The specs of the replay j, told from its request and its first row.
SpecsOfJob(j) ==
  IF ~Injecting(j.request) THEN <<>>
  ELSE IF j.request.injections # <<>> THEN j.request.injections
  ELSE <<[kind |-> Timeout, step_id |-> j.steps[1].step.step_id, step_order |-> 1]>>

\* The rows of a replay: numbered, named apart, each with the injection that its
\* specs have for it, and every target of a spec is one of them.
WellPlanned(j) ==
  /\ j \in Jobs /\ j.steps # <<>>
  /\ SpecsOfJob(j) \in Seq(Specs)
  /\ \A n \in 1..Len(j.steps) :
       /\ j.steps[n].step.step_order = n
       /\ j.steps[n].injection = InjectionFor(j.steps[n].step, SpecsOfJob(j))
  /\ \A m, n \in 1..Len(j.steps) :
       j.steps[m].step.step_id = j.steps[n].step.step_id => m = n
  /\ \A i \in 1..Len(SpecsOfJob(j)) :
       LET x == SpecsOfJob(j)[i]
       IN  /\ x.step_id # None =>
                \E n \in 1..Len(j.steps) : j.steps[n].step.step_id = x.step_id
           /\ x.step_order # None => x.step_order \in 1..Len(j.steps)

ReplayInv ==
  /\ reply \in Answers \cup {None}
  /\ (job # None) <=> (reply = "accepted")
  /\ job # None => WellPlanned(job)
  /\ results # <<>> =>
       /\ job # None
       /\ results = [n \in 1..Len(job.steps) |-> Execute(job.steps[n], Injecting(job.request))]

IInv == EventsInv /\ ListsInv /\ ReplayInv /\ RefusalsHaveAReason

\* Of the specs that hit a step the first one counts.
LEMMA FirstHit ==
  ASSUME NEW specs \in Seq(Specs), NEW s
  PROVE  LET hits == {i \in 1..Len(specs) : Hits(specs[i], s)}
         IN  /\ hits = {} => InjectionFor(s, specs) = None
             /\ hits # {} =>
                  \E i \in hits : /\ \A j \in hits : i <= j
                                  /\ InjectionFor(s, specs) = specs[i].kind
                                  /\ InjectionFor(s, specs) \in Kinds
<1> DEFINE hits == {i \in 1..Len(specs) : Hits(specs[i], s)}
           first == CHOOSE i \in hits : \A j \in hits : i <= j
<1>1. CASE hits = {}
  BY <1>1 DEF InjectionFor
<1>2. CASE hits # {}
  <2>1. hits \subseteq Nat
    OBVIOUS
  <2> HIDE DEF hits
  <2>2. PICK i \in hits : \A j \in hits : ~(<<j, i>> \in OpToRel(<, Nat))
    BY <1>2, <2>1, WFMin, NatLessThanWellFounded, Zenon
  <2>3. \A j \in hits : i <= j
    <3> SUFFICES ASSUME NEW j \in hits, j < i
                 PROVE  FALSE
      BY <2>1
    <3>1. i \in Nat /\ j \in Nat
      BY <2>1
    <3>2. <<j, i>> \in OpToRel(<, Nat)
      BY <3>1 DEF OpToRel
    <3> QED
      BY <2>2, <3>2
  <2>4. first \in hits /\ \A j \in hits : first <= j
    BY <2>3
  <2>5. InjectionFor(s, specs) = specs[first].kind
    BY <1>2 DEF InjectionFor, hits
  <2>6. specs[first].kind \in Kinds
    BY <2>4 DEF hits, Specs
  <2> HIDE DEF first
  <2> QED
    BY <1>2, <2>4, <2>5, <2>6 DEF hits
<1> QED
  BY <1>1, <1>2

\* The specs that are resolved: those of the request, or a timeout of step 1.
LEMMA ResolvedSpecs ==
  ASSUME NEW q \in Requests, \A i \in 1..Len(Resolved(q)) : Resolved(q)[i] \in Specs
  PROVE  Resolved(q) \in Seq(Specs)
  BY RequestAssumption DEF Resolved

\* What a step of a list is.
LEMMA StepOfList ==
  ASSUME EventsInv, NEW d, Listed(d), NEW n \in 1..Len(d)
  PROVE  /\ d[n] \in Steps
         /\ \E e \in events :
              /\ e \in Events /\ d[n] = StepOf(e, n)
              /\ d[n].step_id = StepIdOf(e) /\ d[n].step_order = n
              /\ d[n].source = e.key /\ EventOf(d[n].source) = e
<1>1. d[n] \in Steps
  BY DEF Listed
<1>2. PICK e \in events : d[n] = StepOf(e, n)
  BY DEF Listed
<1>3. d[n].source = e.key
  BY <1>2 DEF StepOf
<1>4. EventOf(d[n].source) = e
  BY <1>3 DEF EventOf, EventsInv
<1> QED
  BY <1>1, <1>2, <1>3, <1>4 DEF StepOf, EventsInv

\* One event has one name, in whatever list.
LEMMA OneName ==
  ASSUME EventsInv, NEW c, NEW d, Listed(c), Listed(d),
         NEW m \in 1..Len(c), NEW n \in 1..Len(d), c[m].source = d[n].source
  PROVE  c[m].step_id = d[n].step_id
<1>1. PICK e \in events : c[m].source = e.key /\ c[m].step_id = StepIdOf(e)
  BY StepOfList
<1>2. PICK f \in events : d[n].source = f.key /\ d[n].step_id = StepIdOf(f)
  BY StepOfList
<1> QED
  BY <1>1, <1>2 DEF EventsInv

-----------------------------------------------------------------------------
(***************************************************************************)
(* The induction.                                                          *)
(***************************************************************************)

\* No answer is None.
LEMMA NoneIsNoReply ==
  None # "accepted" /\ None # "no such spec" /\ None # "name taken twice"
  BY RequestAssumption DEF Answers

LEMMA InitIInv == Init => IInv
<1> SUFFICES ASSUME Init
             PROVE  IInv
  OBVIOUS
<1>1. EventsInv
  BY FS_EmptySet DEF Init, EventsInv
<1>2. ListsInv
  <2>1. Manifests \subseteq {<<>>} /\ DOMAIN draft = Normalizers
    BY DEF Init, Manifests
  <2> QED
    BY <2>1, EmptyList DEF ListsInv
<1>3. ReplayInv
  BY NoneIsNoReply DEF Init, ReplayInv
<1>4. RefusalsHaveAReason
  BY NoneIsNoReply DEF Init, RefusalsHaveAReason
<1> QED
  BY <1>1, <1>2, <1>3, <1>4 DEF IInv

LEMMA StoreEventKeeps ==
  ASSUME IInv, NEW e \in Events, StoreEvent(e)
  PROVE  IInv'
<1>1. events' = events \cup {e} /\ draft' = draft /\ manifest' = manifest /\ seen' = seen
      /\ job' = job /\ reply' = reply /\ results' = results
      /\ \A f \in events : f.key # e.key
  BY DEF StoreEvent
<1>2. IsFiniteSet(events \cup {e})
  BY FS_AddElement DEF IInv, EventsInv
<1>3. EventsInv'
  BY <1>1, <1>2 DEF IInv, EventsInv
<1>4. ListsInv'
  <2>1. Manifests' = Manifests /\ DOMAIN draft' = Normalizers
    BY <1>1 DEF IInv, ListsInv, Manifests
  <2> QED
    BY <1>1, <1>3, <2>1, EmptyList, ListsStay DEF IInv
<1>5. ReplayInv'
  BY <1>1 DEF IInv, ReplayInv
<1>6. RefusalsHaveAReason'
  BY <1>1 DEF IInv, RefusalsHaveAReason
<1> QED
  BY <1>3, <1>4, <1>5, <1>6 DEF IInv

\* What is loaded now is all that any list may have.
LEMMA LoadEventsKeeps ==
  ASSUME IInv, NEW n \in Normalizers, LoadEvents(n)
  PROVE  IInv'
<1>1. /\ events' = events /\ manifest' = manifest /\ seen' = seen
      /\ job' = job /\ reply' = reply /\ results' = results
      /\ \E s \in Loads(events) : draft' = [draft EXCEPT ![n] = BuildManifest(s)]
  BY DEF LoadEvents
<1>2. PICK s, b :
        s \in Loads(events) /\ b = BuildManifest(s) /\ draft' = [draft EXCEPT ![n] = b]
  BY <1>1
<1>3. /\ Listed(b)
      /\ \A e \in events : \E i \in 1..Len(b) : b[i].source = e.key
  BY <1>2, BuiltIsListed DEF IInv
<1>4. \A c \in Manifests : Within(c, b)
  <2> SUFFICES ASSUME NEW c \in Manifests, NEW m \in 1..Len(c)
               PROVE  \E i \in 1..Len(b) : b[i].source = c[m].source
    BY DEF Within
  <2>1. PICK e \in events : c[m].source = e.key
    BY StepOfList DEF IInv, ListsInv
  <2> QED
    BY <1>3, <2>1
<1>5. /\ DOMAIN draft' = Normalizers
      /\ \A m \in Normalizers : draft'[m] = IF m = n THEN b ELSE draft[m]
  BY <1>2 DEF IInv, ListsInv
<1>6. Manifests' \subseteq Manifests \cup {b}
  BY <1>1, <1>5 DEF Manifests
<1>7. EventsInv'
  BY <1>1 DEF IInv, EventsInv
<1>8. ListsInv'
  BY <1>1, <1>3, <1>4, <1>5, <1>6, <1>7, ListsStay DEF IInv
<1>9. ReplayInv' /\ RefusalsHaveAReason'
  BY <1>1 DEF IInv, ReplayInv, RefusalsHaveAReason
<1> QED
  BY <1>7, <1>8, <1>9 DEF IInv

\* A step that only copies or drops lists.
LEMMA CopyKeeps ==
  ASSUME IInv, UNCHANGED <<events, job, reply, results>>,
         DOMAIN draft' = Normalizers, Manifests' \subseteq Manifests \cup {<<>>}
  PROVE  IInv'
<1>1. EventsInv'
  BY DEF IInv, EventsInv
<1>2. ListsInv'
  BY <1>1, EmptyList, ListsStay DEF IInv
<1>3. ReplayInv' /\ RefusalsHaveAReason'
  BY DEF IInv, ReplayInv, RefusalsHaveAReason
<1> QED
  BY <1>1, <1>2, <1>3 DEF IInv

LEMMA WriteKeeps ==
  ASSUME IInv, NEW n \in Normalizers, UpsertManifest(n) \/ Abort(n)
  PROVE  IInv'
<1>1. /\ UNCHANGED <<events, seen, job, reply, results>>
      /\ manifest' \in {manifest, draft[n]}
      /\ draft' = [draft EXCEPT ![n] = <<>>]
  BY DEF UpsertManifest, Abort
<1>2. /\ DOMAIN draft' = Normalizers
      /\ \A m \in Normalizers : draft'[m] = IF m = n THEN <<>> ELSE draft[m]
  BY <1>1 DEF IInv, ListsInv
<1>3. Manifests' \subseteq Manifests \cup {<<>>}
  BY <1>1, <1>2 DEF Manifests
<1> QED
  BY <1>1, <1>2, <1>3, CopyKeeps

LEMMA ReadManifestKeeps ==
  ASSUME IInv, ReadManifest
  PROVE  IInv'
<1>1. /\ UNCHANGED <<events, draft, manifest, job, reply, results>>
      /\ seen' = manifest
  BY DEF ReadManifest
<1>2. DOMAIN draft' = Normalizers
  BY <1>1 DEF IInv, ListsInv
<1>3. Manifests' \subseteq Manifests \cup {<<>>}
  BY <1>1 DEF Manifests
<1> QED
  BY <1>1, <1>2, <1>3, CopyKeeps

\* Rows with one name come from events that clash.
LEMMA NamesClash ==
  ASSUME EventsInv, Listed(manifest), ~NamedApart(manifest)
  PROVE  \E e, f \in events : e.key # f.key /\ (Clash(e, f) \/ Clash(f, e))
<1>1. PICK m \in 1..Len(manifest), n \in 1..Len(manifest) :
        manifest[m].step_id = manifest[n].step_id /\ m # n
  BY DEF NamedApart
<1>2. PICK e \in events :
        e \in Events /\ manifest[m].step_id = StepIdOf(e) /\ manifest[m].source = e.key
  BY StepOfList
<1>3. PICK f \in events :
        f \in Events /\ manifest[n].step_id = StepIdOf(f) /\ manifest[n].source = f.key
  BY StepOfList
<1>4. e.key # f.key
  BY <1>1, <1>2, <1>3 DEF Listed
<1>5. StepIdOf(e) = StepIdOf(f)
  BY <1>1, <1>2, <1>3
<1>6. e.sequence \in Numbers /\ f.sequence \in Numbers
  BY <1>2, <1>3 DEF Events
<1>7. CASE e.span_id # None /\ f.span_id # None
  BY <1>4, <1>5, <1>7 DEF StepIdOf, Clash
<1>8. CASE e.span_id = None /\ f.span_id # None
  BY <1>4, <1>5, <1>8 DEF StepIdOf, Clash
<1>9. CASE e.span_id # None /\ f.span_id = None
  BY <1>4, <1>5, <1>9 DEF StepIdOf, Clash
<1>10. CASE e.span_id = None /\ f.span_id = None
  <2>1. StepName[e.sequence] = StepName[f.sequence]
    BY <1>5, <1>10 DEF StepIdOf
  <2>2. e.sequence = f.sequence
    BY <1>6, <2>1, StepNameAssumption
  <2> QED
    BY <1>4, <1>10, <2>2 DEF Clash
<1> QED
  BY <1>7, <1>8, <1>9, <1>10

\* Only a long span makes a default spec that is none.
LEMMA LongSpan ==
  ASSUME EventsInv, Listed(manifest), manifest # <<>>, NEW q \in Requests,
         NEW i \in 1..Len(Resolved(q)), Resolved(q)[i] \notin Specs
  PROVE  \E e \in events : e.span_id \in LongNames
<1>1. q.injections \in Seq(Specs)
  BY RequestAssumption
<1>2. CASE ~Injecting(q)
  BY <1>2 DEF Resolved
<1>3. CASE Injecting(q) /\ q.injections # <<>>
  BY <1>1, <1>3 DEF Resolved
<1>4. CASE Injecting(q) /\ q.injections = <<>>
  <2> DEFINE d == [kind |-> Timeout, step_id |-> manifest[1].step_id, step_order |-> 1]
  <2>1. Resolved(q) = <<d>>
    BY <1>4 DEF Resolved
  <2>2. Resolved(q)[i] = d
    BY <2>1
  <2>3. 1 \in 1..Len(manifest)
    BY DEF Listed
  <2>4. PICK e \in events :
          e \in Events /\ manifest[1].step_id = StepIdOf(e) /\ manifest[1] \in Steps
    BY <2>3, StepOfList
  <2>5. manifest[1].step_id \in Names
    BY <2>4 DEF Steps
  <2>6. manifest[1].step_id # None
    BY <2>5, NoNameAssumption
  <2>7. d \in [kind : Kinds, step_id : Names \cup {None}, step_order : (Nat \ {0}) \cup {None}]
    BY <2>5, RequestAssumption
  <2>8. manifest[1].step_id \in LongNames
    BY <2>2, <2>6, <2>7 DEF Specs
  <2>9. e.span_id # None
    <3> SUFFICES ASSUME e.span_id = None
                 PROVE  FALSE
      OBVIOUS
    <3>1. manifest[1].step_id = StepName[e.sequence] /\ e.sequence \in Numbers
      BY <2>4 DEF StepIdOf, Events
    <3> QED
      BY <2>8, <3>1, RequestAssumption
  <2> QED
    BY <2>4, <2>8, <2>9 DEF StepIdOf
<1> QED
  BY <1>2, <1>3, <1>4

\* What create_replay writes is well planned.
LEMMA CreatedIsPlanned ==
  ASSUME EventsInv, Listed(manifest), manifest # <<>>, NEW q \in Requests,
         \A i \in 1..Len(Resolved(q)) : Resolved(q)[i] \in Specs,
         \A i \in 1..Len(Resolved(q)) : Known(Resolved(q)[i]),
         NamedApart(manifest), NEW j,
         j = [request |-> q,
              steps   |-> [n \in 1..Len(manifest) |->
                             [step      |-> manifest[n],
                              injection |-> InjectionFor(manifest[n], Resolved(q))]]]
  PROVE  WellPlanned(j)
<1> DEFINE L == Resolved(q)
           N == Len(manifest)
<1>1. N \in Nat /\ 1 \in 1..N /\ N # 0
  BY DEF Listed
<1>2. L \in Seq(Specs)
  BY ResolvedSpecs
<1>3. j.request = q
  OBVIOUS
<1>4. j.steps = [n \in 1..N |-> [step      |-> manifest[n],
                                 injection |-> InjectionFor(manifest[n], L)]]
  OBVIOUS
<1>5. \A n \in 1..N : j.steps[n].step = manifest[n]
                      /\ j.steps[n].injection = InjectionFor(manifest[n], L)
  BY <1>4
<1>6. SpecsOfJob(j) = L
  BY <1>1, <1>3, <1>5 DEF SpecsOfJob, Resolved
<1>7. \A n \in 1..N : manifest[n] \in Steps /\ manifest[n].step_order = n
  BY StepOfList
<1>8. \A n \in 1..N : InjectionFor(manifest[n], L) \in Kinds \cup {None}
  BY <1>2, FirstHit
<1>9. \A n \in 1..N : [step |-> manifest[n], injection |-> InjectionFor(manifest[n], L)]
                      \in [step : Steps, injection : Kinds \cup {None}]
  BY <1>7, <1>8
<1> HIDE DEF L, N
<1>10. j.steps \in Seq([step : Steps, injection : Kinds \cup {None}]) /\ Len(j.steps) = N
  <2>1. \A n \in 1..N : j.steps[n] \in [step : Steps, injection : Kinds \cup {None}]
    BY <1>4, <1>9 DEF L
  <2>2. j.steps = [n \in 1..N |-> j.steps[n]]
    BY <1>4
  <2>3. j.steps \in [1..N -> [step : Steps, injection : Kinds \cup {None}]]
    BY <2>1, <2>2
  <2> QED
    BY <1>1, <2>3
<1>11. j \in Jobs /\ j.steps # <<>>
  <2>1. j = [request |-> j.request, steps |-> j.steps]
    OBVIOUS
  <2>2. j \in Jobs
    BY <1>3, <1>10, <2>1 DEF Jobs
  <2> QED
    BY <1>1, <1>10, <2>2
<1>12. \A m, n \in 1..N : j.steps[m].step.step_id = j.steps[n].step.step_id => m = n
  BY <1>5 DEF NamedApart, N
<1>13. ASSUME NEW i \in 1..Len(L)
       PROVE  /\ L[i].step_id # None =>
                   \E n \in 1..N : j.steps[n].step.step_id = L[i].step_id
              /\ L[i].step_order # None => L[i].step_order \in 1..N
  <2>1. Known(L[i])
    BY DEF L
  <2> QED
    BY <1>5, <1>7, <2>1 DEF Known, N
<1>14. \A n \in 1..N : j.steps[n].step.step_order = n
  BY <1>5, <1>7
<1>15. \A n \in 1..N : j.steps[n].injection = InjectionFor(j.steps[n].step, L)
  BY <1>5
<1>16. \A i \in 1..Len(L) :
         LET x == L[i]
         IN  /\ x.step_id # None =>
                  \E n \in 1..N : j.steps[n].step.step_id = x.step_id
             /\ x.step_order # None => x.step_order \in 1..N
  BY <1>13, Zenon
<1>17. SpecsOfJob(j) \in Seq(Specs)
  BY <1>2, <1>6
<1>18. \A n \in 1..Len(j.steps) :
         /\ j.steps[n].step.step_order = n
         /\ j.steps[n].injection = InjectionFor(j.steps[n].step, SpecsOfJob(j))
  <2> SUFFICES ASSUME NEW n \in 1..Len(j.steps)
               PROVE  /\ j.steps[n].step.step_order = n
                      /\ j.steps[n].injection = InjectionFor(j.steps[n].step, SpecsOfJob(j))
    OBVIOUS
  <2>1. n \in 1..N
    BY <1>10
  <2>2. j.steps[n].step.step_order = n
    BY <1>14, <2>1
  <2>3. j.steps[n].injection = InjectionFor(j.steps[n].step, L)
    BY <1>15, <2>1, Zenon
  <2>4. j.steps[n].injection = InjectionFor(j.steps[n].step, SpecsOfJob(j))
    BY <1>6, <2>3, Zenon
  <2> QED
    BY <2>2, <2>4
<1>19. \A m, n \in 1..Len(j.steps) :
         j.steps[m].step.step_id = j.steps[n].step.step_id => m = n
  BY <1>10, <1>12
<1>20. \A i \in 1..Len(SpecsOfJob(j)) :
         LET x == SpecsOfJob(j)[i]
         IN  /\ x.step_id # None =>
                  \E n \in 1..Len(j.steps) : j.steps[n].step.step_id = x.step_id
             /\ x.step_order # None => x.step_order \in 1..Len(j.steps)
  <2> SUFFICES ASSUME NEW i \in 1..Len(SpecsOfJob(j)), NEW x, x = SpecsOfJob(j)[i]
               PROVE  /\ x.step_id # None =>
                           \E n \in 1..Len(j.steps) : j.steps[n].step.step_id = x.step_id
                      /\ x.step_order # None => x.step_order \in 1..Len(j.steps)
    OBVIOUS
  <2>1. i \in 1..Len(L) /\ x = L[i]
    BY <1>6, Zenon
  <2>2. /\ x.step_id # None => \E n \in 1..N : j.steps[n].step.step_id = x.step_id
        /\ x.step_order # None => x.step_order \in 1..N
    BY <1>16, <2>1, Zenon
  <2>3. 1..N = 1..Len(j.steps)
    BY <1>10
  <2> QED
    BY <2>2, <2>3, Zenon
<1> QED
  BY <1>11, <1>17, <1>18, <1>19, <1>20, Zenon DEF WellPlanned

LEMMA CreateReplayKeeps ==
  ASSUME IInv, NEW q \in Requests, CreateReplay(q)
  PROVE  IInv'
<1>1. /\ events' = events /\ draft' = draft /\ manifest' = manifest /\ seen' = seen
      /\ results' = results /\ reply = None
  BY DEF CreateReplay
<1>2. job = None /\ results = <<>>
  BY <1>1, NoneIsNoReply DEF IInv, ReplayInv
<1>3. EventsInv /\ Listed(manifest) /\ EventsInv' /\ DOMAIN draft' = Normalizers
  BY <1>1 DEF IInv, EventsInv, ListsInv, Manifests
<1>4. /\ reply' \in Answers
      /\ reply' = "name taken twice" => ~NamedApart(manifest)
      /\ reply' = "no such spec" =>
           manifest # <<>> /\ \E i \in 1..Len(Resolved(q)) : Resolved(q)[i] \notin Specs
      /\ reply' = "accepted" =>
           /\ manifest # <<>> /\ NamedApart(manifest)
           /\ \A i \in 1..Len(Resolved(q)) : Resolved(q)[i] \in Specs
           /\ \A i \in 1..Len(Resolved(q)) : Known(Resolved(q)[i])
  BY DEF CreateReplay, Answers
<1>5. RefusalsHaveAReason'
  BY <1>1, <1>3, <1>4, NamesClash, LongSpan DEF RefusalsHaveAReason
<1>6. CASE reply' # "accepted"
  <2>1. job' = None
    BY <1>2, <1>6 DEF CreateReplay
  <2>2. ReplayInv'
    BY <1>1, <1>2, <1>4, <1>6, <2>1 DEF ReplayInv
  <2>3. Manifests' \subseteq Manifests \cup {<<>>}
    BY <1>1, <2>1 DEF Manifests
  <2>4. ListsInv'
    BY <1>1, <1>3, <2>3, EmptyList, ListsStay DEF IInv
  <2> QED
    BY <1>3, <1>5, <2>2, <2>4 DEF IInv
<1>7. CASE reply' = "accepted"
  <2>1. PICK j : j = job'
    OBVIOUS
  <2>2. j = [request |-> q,
             steps   |-> [n \in 1..Len(manifest) |->
                            [step      |-> manifest[n],
                             injection |-> InjectionFor(manifest[n], Resolved(q))]]]
    BY <1>7, <2>1 DEF CreateReplay
  <2>3. WellPlanned(j)
    BY <1>3, <1>4, <1>7, <2>2, CreatedIsPlanned
  <2>4. j # None
    BY <2>3, NoJobAssumption DEF WellPlanned
  <2>5. WellPlanned(job')
    BY <2>1, <2>3
  <2>6. ReplayInv'
    BY <1>1, <1>2, <1>4, <1>7, <2>1, <2>4, <2>5 DEF ReplayInv
  <2>7. PlanOf(j) = manifest
    <3>1. manifest \in Seq(Steps) /\ Len(manifest) \in Nat
      BY <1>3 DEF Listed
    <3>2. j.steps = [n \in 1..Len(manifest) |->
                       [step      |-> manifest[n],
                        injection |-> InjectionFor(manifest[n], Resolved(q))]]
      BY <2>2
    <3>3. Len(j.steps) = Len(manifest)
          /\ \A n \in 1..Len(manifest) : j.steps[n].step = manifest[n]
      BY <3>1, <3>2
    <3>4. manifest = [n \in 1..Len(manifest) |-> manifest[n]]
      BY <3>1
    <3>5. PlanOf(j) = [n \in 1..Len(manifest) |-> manifest[n]]
      BY <3>3 DEF PlanOf
    <3> QED
      BY <3>4, <3>5
  <2>8. PlanOf(job)' = manifest
    BY <2>1, <2>7 DEF PlanOf
  <2>9. Manifests' \subseteq Manifests \cup {<<>>}
    BY <1>1, <2>8 DEF Manifests
  <2>10. ListsInv'
    BY <1>1, <1>3, <2>9, EmptyList, ListsStay DEF IInv
  <2> QED
    BY <1>3, <1>5, <2>6, <2>10 DEF IInv
<1> QED
  BY <1>6, <1>7

LEMMA RunReplayKeeps ==
  ASSUME IInv, RunReplay
  PROVE  IInv'
<1>1. /\ events' = events /\ draft' = draft /\ manifest' = manifest /\ seen' = seen
      /\ job' = job /\ reply' = reply /\ job # None
      /\ results' = [n \in 1..Len(job.steps) |-> Execute(job.steps[n], Injecting(job.request))]
  BY DEF RunReplay
<1>2. EventsInv' /\ RefusalsHaveAReason'
  BY <1>1 DEF IInv, EventsInv, RefusalsHaveAReason
<1>3. ReplayInv'
  BY <1>1 DEF IInv, ReplayInv
<1>4. ListsInv'
  <2>1. Manifests' = Manifests /\ DOMAIN draft' = Normalizers
    BY <1>1 DEF IInv, ListsInv, Manifests
  <2> QED
    BY <1>1, <1>2, <2>1, EmptyList, ListsStay DEF IInv
<1> QED
  BY <1>2, <1>3, <1>4 DEF IInv

LEMMA NextIInv == IInv /\ [Next]_vars => IInv'
<1> SUFFICES ASSUME IInv, [Next]_vars
             PROVE  IInv'
  OBVIOUS
<1>1. CASE UNCHANGED vars
  <2>1. Manifests' = Manifests /\ DOMAIN draft' = Normalizers
    BY <1>1 DEF vars, IInv, ListsInv, Manifests
  <2> QED
    BY <1>1, <2>1, CopyKeeps DEF vars
<1> QED
  BY <1>1, StoreEventKeeps, LoadEventsKeeps, WriteKeeps, ReadManifestKeeps,
     CreateReplayKeeps, RunReplayKeeps DEF Next

LEMMA SpecIInv == Spec => []IInv
  BY InitIInv, NextIInv, PTL DEF Spec

-----------------------------------------------------------------------------
(***************************************************************************)
(* What follows.                                                           *)
(***************************************************************************)

\* The type invariant, for any number of events.
THEOREM PlanTypeCorrect == Spec => []TypeOK
<1>1. IInv => TypeOK
  <2> SUFFICES ASSUME IInv
               PROVE  TypeOK
    OBVIOUS
  <2>1. EventsInv /\ ListsInv /\ ReplayInv
    BY DEF IInv
  <2>2. \A d \in Manifests : Manifest(d)
    BY <2>1, StepOfList DEF ListsInv, Manifest
  <2>7. /\ DOMAIN draft = Normalizers
        /\ \A n \in Normalizers : Manifest(draft[n])
        /\ Manifest(manifest) /\ Manifest(seen)
    BY <2>1, <2>2 DEF ListsInv, Manifests
  <2>3. job \in Jobs \cup {None}
    BY <2>1 DEF ReplayInv, WellPlanned
  <2>4. results # <<>> => job # None /\ Len(results) = Len(job.steps)
    <3> SUFFICES ASSUME results # <<>>
                 PROVE  job # None /\ Len(results) = Len(job.steps)
      OBVIOUS
    <3>1. job # None /\ job \in Jobs
          /\ results = [n \in 1..Len(job.steps) |->
                          Execute(job.steps[n], Injecting(job.request))]
      BY <2>1 DEF ReplayInv, WellPlanned
    <3>2. Len(job.steps) \in Nat
      BY <3>1 DEF Jobs
    <3> QED
      BY <3>1, <3>2
  <2>5. /\ events \subseteq Events
        /\ \A e, f \in events : e.key = f.key => e = f
    BY <2>1 DEF EventsInv
  <2>6. reply \in Answers \cup {None} /\ ((job # None) = (reply = "accepted"))
    BY <2>1 DEF ReplayInv
  <2> QED
    BY <2>3, <2>4, <2>5, <2>6, <2>7 DEF TypeOK
<1> QED
  BY <1>1, SpecIInv, PTL

\* A replay is refused only for a reason in the events: no other manifest makes
\* the unique constraint or the schema of the default injection fail.
THEOREM RefusalsAreReasoned == Spec => []RefusalsHaveAReason
<1>1. IInv => RefusalsHaveAReason
  BY DEF IInv
<1> QED
  BY <1>1, SpecIInv, PTL

\* A row fails if and only if the replay injects failures and a spec hits it,
\* and then by the first spec that does.
LEMMA FailedRows ==
  ASSUME IInv, results # <<>>, NEW L, L = SpecsOfJob(job)
  PROVE  /\ job \in Jobs /\ WellPlanned(job) /\ L \in Seq(Specs)
         /\ Len(results) = Len(job.steps) /\ 1 \in 1..Len(job.steps)
         /\ ~Injecting(job.request) => FailedSteps = {}
         /\ Injecting(job.request) =>
              FailedSteps = {n \in 1..Len(job.steps) : \E i \in 1..Len(L) : n \in Targets(L[i])}
         /\ \A n \in FailedSteps :
              \E i \in 1..Len(L) : /\ n \in Targets(L[i])
                                   /\ results[n].error = L[i].kind
                                   /\ \A k \in 1..(i - 1) : n \notin Targets(L[k])
<1>1. /\ job # None /\ WellPlanned(job)
      /\ results = [n \in 1..Len(job.steps) |-> Execute(job.steps[n], Injecting(job.request))]
  BY DEF IInv, ReplayInv
<1>2. job \in Jobs /\ job.steps # <<>> /\ L \in Seq(Specs)
  BY <1>1 DEF WellPlanned
<1>3. job.steps \in Seq([step : Steps, injection : Kinds \cup {None}])
  BY <1>2 DEF Jobs
<1>4. Len(job.steps) \in Nat /\ 1 \in 1..Len(job.steps)
  BY <1>2, <1>3
<1>5. Len(results) = Len(job.steps)
  BY <1>1, <1>4
<1>6. ASSUME NEW n \in 1..Len(job.steps)
      PROVE  /\ n \in FailedSteps <=> Injecting(job.request) /\ job.steps[n].injection # None
             /\ n \in FailedSteps => results[n].error = job.steps[n].injection
  <2>1. results[n] = Execute(job.steps[n], Injecting(job.request))
    BY <1>1
  <2>2. n \in FailedSteps <=> results[n].status = "failed"
    BY <1>5 DEF FailedSteps
  <2>3. CASE Injecting(job.request) /\ job.steps[n].injection # None
    <3>1. results[n] = [status |-> "failed", error |-> job.steps[n].injection]
      BY <2>1, <2>3 DEF Execute
    <3> QED
      BY <2>2, <2>3, <3>1
  <2>4. CASE ~(Injecting(job.request) /\ job.steps[n].injection # None)
    <3>1. results[n] = [status |-> "passed", error |-> None]
      BY <2>1, <2>4 DEF Execute
    <3> QED
      BY <2>2, <2>4, <3>1
  <2> QED
    BY <2>3, <2>4
<1>7. ASSUME NEW n \in 1..Len(job.steps)
      PROVE  job.steps[n].injection = InjectionFor(job.steps[n].step, L)
  BY <1>1 DEF WellPlanned
<1>8. ASSUME NEW n \in 1..Len(job.steps), NEW i \in 1..Len(L)
      PROVE  Hits(L[i], job.steps[n].step) <=> n \in Targets(L[i])
  <2>1. job.steps[n].step.step_order = n
    BY <1>1 DEF WellPlanned
  <2> QED
    BY <2>1 DEF Hits, Targets
<1>9. FailedSteps \subseteq 1..Len(job.steps)
  BY <1>5 DEF FailedSteps
<1>10. ASSUME NEW n \in 1..Len(job.steps)
       PROVE  /\ (\A i \in 1..Len(L) : n \notin Targets(L[i])) => job.steps[n].injection = None
              /\ (\E i \in 1..Len(L) : n \in Targets(L[i])) =>
                   \E i \in 1..Len(L) : /\ n \in Targets(L[i])
                                        /\ job.steps[n].injection = L[i].kind
                                        /\ job.steps[n].injection # None
                                        /\ \A k \in 1..(i - 1) : n \notin Targets(L[k])
  <2>1. PICK s : s = job.steps[n].step
    OBVIOUS
  <2>2. PICK hits : hits = {i \in 1..Len(L) : Hits(L[i], s)}
    OBVIOUS
  <2>3. \A i \in 1..Len(L) : i \in hits <=> n \in Targets(L[i])
    BY <1>8, <2>1, <2>2
  <2>4. CASE hits = {}
    <3>1. InjectionFor(s, L) = None
      BY <1>2, <2>2, <2>4, FirstHit
    <3> QED
      BY <1>7, <2>1, <2>3, <2>4, <3>1
  <2>5. CASE hits # {}
    <3>1. PICK i \in hits : /\ \A j \in hits : i <= j
                            /\ InjectionFor(s, L) = L[i].kind
                            /\ InjectionFor(s, L) \in Kinds
      BY <1>2, <2>2, <2>5, FirstHit
    <3>2. i \in 1..Len(L) /\ n \in Targets(L[i])
      BY <2>2, <2>3, <3>1
    <3>3. \A k \in 1..(i - 1) : n \notin Targets(L[k])
      <4> SUFFICES ASSUME NEW k \in 1..(i - 1), n \in Targets(L[k])
                   PROVE  FALSE
        OBVIOUS
      <4>1. Len(L) \in Nat
        BY <1>2
      <4>2. k \in 1..Len(L) /\ ~(i <= k)
        BY <3>2, <4>1
      <4> QED
        BY <2>3, <3>1, <4>2
    <3>4. job.steps[n].injection = L[i].kind /\ job.steps[n].injection # None
      BY <1>7, <2>1, <3>1, RequestAssumption
    <3> QED
      BY <3>2, <3>3, <3>4
  <2> QED
    BY <2>4, <2>5
<1>11. ~Injecting(job.request) => FailedSteps = {}
  BY <1>6, <1>9
<1>12. Injecting(job.request) =>
         FailedSteps = {n \in 1..Len(job.steps) : \E i \in 1..Len(L) : n \in Targets(L[i])}
  BY <1>6, <1>9, <1>10
<1>13. ASSUME NEW n \in FailedSteps
       PROVE  \E i \in 1..Len(L) : /\ n \in Targets(L[i])
                                   /\ results[n].error = L[i].kind
                                   /\ \A k \in 1..(i - 1) : n \notin Targets(L[k])
  <2>1. n \in 1..Len(job.steps)
    BY <1>9
  <2>2. results[n].error = job.steps[n].injection /\ job.steps[n].injection # None
    BY <1>6, <2>1
  <2> QED
    BY <1>10, <2>1, <2>2
<1> QED
  BY <1>1, <1>2, <1>4, <1>5, <1>11, <1>12, <1>13

\* Each failure that was asked for happens, for any number of specs and steps.
THEOREM FailuresHappen == Spec => []RequestedFailuresHappen
<1>1. ASSUME IInv, results # <<>>, NEW q, q = job.request
      PROVE  /\ JobStatus = "failed" <=> Injecting(q)
             /\ \A i \in 1..Len(q.injections) :
                  LET x == q.injections[i]
                  IN  /\ Targets(x) \subseteq FailedSteps
                      /\ x.step_id # None =>
                           \E n \in Targets(x) : job.steps[n].step.step_id = x.step_id
                      /\ x.step_order # None => x.step_order \in Targets(x)
             /\ Injecting(q) /\ q.injections = <<>> =>
                  FailedSteps = {1} /\ results[1].error = Timeout
  <2>1. PICK L : L = SpecsOfJob(job)
    OBVIOUS
  <2>2. /\ job \in Jobs /\ WellPlanned(job) /\ L \in Seq(Specs)
        /\ 1 \in 1..Len(job.steps)
        /\ ~Injecting(q) => FailedSteps = {}
        /\ Injecting(q) =>
             FailedSteps = {n \in 1..Len(job.steps) : \E i \in 1..Len(L) : n \in Targets(L[i])}
        /\ \A n \in FailedSteps :
              \E i \in 1..Len(L) : n \in Targets(L[i]) /\ results[n].error = L[i].kind
    BY <1>1, <2>1, FailedRows
  <2>3. q \in Requests /\ q.injections \in Seq(Specs)
    BY <1>1, <2>2, RequestAssumption DEF Jobs
  <2>4. ASSUME NEW i \in 1..Len(L)
        PROVE  /\ Targets(L[i]) \subseteq 1..Len(job.steps)
               /\ L[i].step_id # None =>
                    \E n \in Targets(L[i]) : job.steps[n].step.step_id = L[i].step_id
               /\ L[i].step_order # None => L[i].step_order \in Targets(L[i])
               /\ Targets(L[i]) # {}
    <3>1. PICK x \in Specs : x = L[i]
      BY <2>2
    <3>2. /\ x.step_id # None =>
               \E n \in 1..Len(job.steps) : job.steps[n].step.step_id = x.step_id
          /\ x.step_order # None => x.step_order \in 1..Len(job.steps)
      BY <2>1, <2>2, <3>1 DEF WellPlanned
    <3>3. x.step_id # None \/ x.step_order # None
      BY DEF Specs
    <3> QED
      BY <3>1, <3>2, <3>3 DEF Targets
  <2>5. CASE ~Injecting(q)
    <3>1. FailedSteps = {} /\ q.injections = <<>>
      BY <2>2, <2>5 DEF Injecting
    <3>2. JobStatus # "failed"
      BY <3>1 DEF JobStatus
    <3> QED
      BY <2>5, <3>1, <3>2
  <2>6. CASE Injecting(q) /\ q.injections # <<>>
    <3>1. L = q.injections
      BY <1>1, <2>1, <2>6 DEF SpecsOfJob
    <3>2. \A i \in 1..Len(L) : Targets(L[i]) \subseteq FailedSteps
      BY <2>2, <2>4, <2>6
    <3>3. 1 \in 1..Len(L)
      BY <2>2, <2>6, <3>1
    <3>4. FailedSteps # {}
      BY <2>4, <3>2, <3>3
    <3>5. JobStatus = "failed"
      BY <3>4 DEF JobStatus
    <3> QED
      BY <2>4, <2>6, <3>1, <3>2, <3>5
  <2>7. CASE Injecting(q) /\ q.injections = <<>>
    <3> DEFINE d == [kind |-> Timeout, step_id |-> job.steps[1].step.step_id, step_order |-> 1]
    <3>1. L = <<d>>
      BY <1>1, <2>1, <2>7 DEF SpecsOfJob
    <3>2. Len(L) = 1 /\ L[1] = d
      BY <3>1
    <3>3. Targets(d) = {1}
      BY <2>2 DEF Targets, WellPlanned
    <3>4. FailedSteps = {1}
      BY <2>2, <2>7, <3>2, <3>3
    <3>5. results[1].error = Timeout
      BY <2>2, <3>2, <3>4
    <3>6. JobStatus = "failed"
      BY <3>4 DEF JobStatus
    <3> QED
      BY <2>7, <3>4, <3>5, <3>6
  <2> QED
    BY <2>5, <2>6, <2>7
<1>2. IInv => RequestedFailuresHappen
  BY <1>1, Zenon DEF RequestedFailuresHappen
<1> QED
  BY <1>2, SpecIInv, PTL

\* No failure happens that was not asked for, and the first spec decides which.
THEOREM NoOtherFailures == Spec => []OnlyRequestedFailuresHappen
<1>1. IInv => OnlyRequestedFailuresHappen
  <2> SUFFICES ASSUME IInv, results # <<>>, job.request.injections # <<>>, NEW n \in FailedSteps
               PROVE  \E i \in 1..Len(job.request.injections) :
                        /\ n \in Targets(job.request.injections[i])
                        /\ results[n].error = job.request.injections[i].kind
                        /\ \A j \in 1..(i - 1) : n \notin Targets(job.request.injections[j])
    BY DEF OnlyRequestedFailuresHappen
  <2>1. Injecting(job.request)
    BY DEF Injecting
  <2>2. SpecsOfJob(job) = job.request.injections
    BY <2>1 DEF SpecsOfJob
  <2> QED
    BY <2>2, FailedRows
<1> QED
  BY <1>1, SpecIInv, PTL

\* Of two lists, one within the other, the one extends the other.
LEMMA WithinExtends ==
  ASSUME EventsInv, NEW a, NEW b, Listed(a), Listed(b), Within(a, b)
  PROVE  Extends(b, a)
<1>1. ASSUME NEW m \in 1..Len(a)
      PROVE  \E i \in 1..Len(b) : b[i].source = a[m].source /\ b[i].step_id = a[m].step_id
  <2>1. PICK i \in 1..Len(b) : b[i].source = a[m].source
    BY DEF Within
  <2> QED
    BY <2>1, OneName
<1>2. ASSUME NEW m \in 1..Len(a), NEW n \in 1..Len(a),
             m < n, ~Tied(EventOf(a[m].source), EventOf(a[n].source))
      PROVE  \E i, j \in 1..Len(b) :
               i < j /\ b[i].source = a[m].source /\ b[j].source = a[n].source
  <2>1. PICK e \in events : e \in Events /\ a[m].source = e.key /\ EventOf(a[m].source) = e
    BY StepOfList
  <2>2. PICK f \in events : f \in Events /\ a[n].source = f.key /\ EventOf(a[n].source) = f
    BY StepOfList
  <2>3. ~Before(f, e)
    <3>1. m \in Nat /\ n \in Nat /\ ~(n < m)
      BY <1>2
    <3> QED
      BY <2>1, <2>2, <3>1 DEF Listed
  <2>4. Before(e, f)
    <3>1. /\ e.sequence \in Nat /\ f.sequence \in Nat
          /\ e.event_ts \in Nat /\ f.event_ts \in Nat
      BY <2>1, <2>2, StepNameAssumption DEF Events
    <3> QED
      BY <1>2, <2>1, <2>2, <2>3, <3>1 DEF Before, Tied
  <2>5. PICK i \in 1..Len(b), j \in 1..Len(b) :
          b[i].source = a[m].source /\ b[j].source = a[n].source
    BY DEF Within
  <2>6. i < j
    BY <2>1, <2>2, <2>4, <2>5 DEF Listed
  <2> QED
    BY <2>5, <2>6
<1> QED
  BY <1>1, <1>2 DEF Extends

\* Whatever normalizer writes when, of two successive manifests one extends the other,
\* for any number of events and normalizers.
THEOREM ManifestsStayNested == Spec => ManifestsNest
<1>1. ASSUME IInv, [Next]_vars, manifest' # manifest
      PROVE  Extends(manifest', manifest) \/ Extends(manifest, manifest')
  <2>1. PICK n \in Normalizers : UpsertManifest(n)
    BY <1>1 DEF Next, vars, StoreEvent, LoadEvents, Abort, ReadManifest, CreateReplay, RunReplay
  <2>2. PICK b : b = draft[n] /\ b = manifest'
    BY <2>1 DEF UpsertManifest
  <2>3. b \in Manifests /\ manifest \in Manifests
    BY <2>2 DEF Manifests
  <2>4. EventsInv /\ Listed(b) /\ Listed(manifest)
        /\ (Within(b, manifest) \/ Within(manifest, b))
    BY <1>1, <2>3 DEF IInv, ListsInv
  <2>5. Extends(b, manifest) \/ Extends(manifest, b)
    BY <2>4, WithinExtends
  <2> QED
    BY <2>2, <2>5
<1>2. IInv /\ [Next]_vars => [Extends(manifest', manifest) \/ Extends(manifest, manifest')]_manifest
  BY <1>1
<1> QED
  BY <1>2, SpecIInv, PTL DEF Spec, ManifestsNest

\* The rows of a replay bear no name in another sense than a client has seen it.
THEOREM NamesKeepTheirMeaning == Spec => []NamesMeanWhatWasSeen
<1>1. IInv => NamesMeanWhatWasSeen
  <2> SUFFICES ASSUME IInv, job # None,
                      NEW n \in 1..Len(job.steps), NEW m \in 1..Len(seen),
                      seen[m].step_id = job.steps[n].step.step_id
               PROVE  \E k \in 1..Len(seen) : /\ seen[k].step_id = seen[m].step_id
                                              /\ seen[k].source = job.steps[n].step.source
    BY DEF NamesMeanWhatWasSeen
  <2>1. PICK d : d = PlanOf(job)
    OBVIOUS
  <2>2. Len(job.steps) \in Nat /\ WellPlanned(job)
    BY DEF IInv, ReplayInv, WellPlanned, Jobs
  <2>3. Len(d) = Len(job.steps) /\ \A i \in 1..Len(d) : d[i] = job.steps[i].step
    BY <2>1, <2>2 DEF PlanOf
  <2>4. d \in Manifests /\ seen \in Manifests
    BY <2>1 DEF Manifests
  <2>5. EventsInv /\ Listed(d) /\ Listed(seen) /\ (Within(d, seen) \/ Within(seen, d))
    BY <2>4 DEF IInv, ListsInv
  <2>6. CASE Within(d, seen)
    <3>1. PICK k \in 1..Len(seen) : seen[k].source = d[n].source
      BY <2>3, <2>6 DEF Within
    <3>2. seen[k].step_id = d[n].step_id
      BY <2>3, <2>5, <3>1, OneName
    <3> QED
      BY <2>3, <3>1, <3>2
  <2>7. CASE Within(seen, d)
    <3>1. PICK i \in 1..Len(d) : d[i].source = seen[m].source
      BY <2>7 DEF Within
    <3>2. d[i].step_id = seen[m].step_id
      BY <2>5, <3>1, OneName
    <3>3. i = n
      BY <2>2, <2>3, <3>2 DEF WellPlanned
    <3> QED
      BY <2>3, <3>1, <3>3
  <2> QED
    BY <2>5, <2>6, <2>7
<1> QED
  BY <1>1, SpecIInv, PTL
=============================================================================
