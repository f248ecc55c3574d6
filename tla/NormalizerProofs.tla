-------------------------- MODULE NormalizerProofs --------------------------
(***************************************************************************)
(* Proofs about Normalizer, for any sets of normalizers, requests, traces, *)
(* keys and batches: types, the safety properties, and that it implements  *)
(* TraceLifecycle; and about TraceSystem, where its API is TraceIngest.    *)
(*                                                                         *)
(* HandledIsCompiled needs Ahead: what the partition's owner has read      *)
(* covers every message that is handled or in somebody's hands.  It does   *)
(* when it reads, since these messages were announced and so stored        *)
(* before; and no other message is taken in hand until the owner polls     *)
(* again, since a consumer that lost the partition joins only in poll().   *)
(* A normalizer that is not the owner has no such luck, and it is what     *)
(* outrun records.                                                         *)
(***************************************************************************)
EXTENDS TraceSystem, TraceStoreProofs

LoopProofs == INSTANCE ConsumerLoopProofs WITH
                Consumers <- Normalizers, Messages <- Requests, log <- topic

\* The messages that are handled or in hand.
Taken == handled \cup {cursor[n] : n \in {m \in Normalizers : cursor[m] # 0}}

\* What a normalizer has read is a list of whole batches of its trace.
LoadedIsBacked ==
  \A n \in Normalizers : phase[n] \in {"build", "publish"} =>
    /\ loaded[n] # {} /\ loaded[n] \subseteq EventsOf(Subject(n)) /\ Whole(loaded[n])
    /\ Brought(topic[cursor[n]]) \subseteq loaded[n]

Ahead ==
  \A n \in Normalizers : owner = n /\ phase[n] \in {"build", "publish"} =>
    \A o \in Taken : TraceOf(topic[o]) = Subject(n) => Brought(topic[o]) \subseteq loaded[n]

\* The manifest covers the messages of those about to commit their offset.
PublishedIsCompiled ==
  \A n \in Normalizers : phase[n] = "publish" /\ Subject(n) \notin outrun =>
    Brought(topic[cursor[n]]) \subseteq manifest[Subject(n)]

IInv ==
  /\ TypeOK /\ LifeInv
  /\ LoadedIsBacked /\ Ahead /\ PublishedIsCompiled /\ HandledIsCompiled

-----------------------------------------------------------------------------
(***************************************************************************)
(* The group.                                                              *)
(***************************************************************************)

LEMMA LoopAssumption == LoopProofs!ConsumerAssumption
  BY NormalizerAssumption DEF LoopProofs!ConsumerAssumption

\* Every step is a step of the consumer group or leaves it alone.
LEMMA LoopStep == [Next]_vars => [Loop!Next]_(Loop!vars)
<1> SUFFICES ASSUME [Next]_vars
             PROVE  [Loop!Next]_(Loop!vars)
  OBVIOUS
<1>1. CASE UNCHANGED vars
  BY <1>1 DEF vars, lifeVars, storeVars, group, Loop!vars
<1>2. ASSUME NEW q \in Requests, Store(q)
      PROVE  UNCHANGED Loop!vars
  BY <1>2 DEF Store, StoreBatch, group, Loop!vars
<1>3. ASSUME NEW q \in Requests, Publish(q)
      PROVE  Loop!Produce(q)
  BY <1>3 DEF Publish, Announce, Announced, group, Loop!Produce, Loop!Stored
<1>4. ASSUME NEW n \in Normalizers, LoadEvents(n) \/ UpsertManifest(n)
      PROVE  UNCHANGED Loop!vars
  BY <1>4 DEF LoadEvents, UpsertManifest, lifeVars, storeVars, group, Loop!vars
<1>5. ASSUME NEW n \in Normalizers, Receive(n)
      PROVE  Loop!Poll(n)
  BY <1>5 DEF Receive
<1>6. ASSUME NEW n \in Normalizers, EventsNotFound(n) \/ Abort(n)
      PROVE  Loop!HandlerRaises(n)
  BY <1>6 DEF EventsNotFound, Abort
<1>7. ASSUME NEW n \in Normalizers, Acknowledge(n)
      PROVE  Loop!Commit(n) \/ Loop!CommitRaises(n)
  BY <1>7 DEF Acknowledge
<1>8. ASSUME NEW n \in Normalizers, Crash(n)
      PROVE  Loop!Fault(n)
  BY <1>8 DEF Crash, Loop!Fault
<1>9. ASSUME NEW n \in Normalizers, Join(n)
      PROVE  Loop!Assign(n)
  BY <1>9 DEF Join
<1>10. ASSUME NEW n \in Normalizers, Regroup(n)
      PROVE  Loop!Fault(n) \/ Loop!Restart(n)
  BY <1>10 DEF Regroup, Loop!Fault
<1> QED
  BY <1>1, <1>2, <1>3, <1>4, <1>5, <1>6, <1>7, <1>8, <1>9, <1>10
     DEF Next, Work, Normalize, Loop!Next

\* Loop and LoopProofs are the same group.
LEMMA SameGroup ==
  /\ Loop!TypeOK <=> LoopProofs!TypeOK
  /\ Loop!Init <=> LoopProofs!Init
  /\ Loop!Next <=> LoopProofs!Next
  /\ Loop!vars = LoopProofs!vars
  BY DEF Loop!TypeOK, LoopProofs!TypeOK, Loop!Init, LoopProofs!Init,
         Loop!Next, LoopProofs!Next, Loop!Fault, LoopProofs!Fault,
         Loop!Produce, LoopProofs!Produce, Loop!Stored, LoopProofs!Stored,
         Loop!Assign, LoopProofs!Assign, Loop!Revoke, LoopProofs!Revoke,
         Loop!Poll, LoopProofs!Poll, Loop!Commit, LoopProofs!Commit,
         Loop!CommitRaises, LoopProofs!CommitRaises,
         Loop!HandlerRaises, LoopProofs!HandlerRaises,
         Loop!Crash, LoopProofs!Crash, Loop!Restart, LoopProofs!Restart,
         Loop!vars, LoopProofs!vars

\* The group's type invariant holds at every step that the group allows.
LEMMA LoopType == Loop!TypeOK /\ [Loop!Next]_(Loop!vars) => Loop!TypeOK'
<1>1. LoopProofs!TypeOK /\ [LoopProofs!Next]_(LoopProofs!vars) => LoopProofs!TypeOK'
  BY LoopProofs!NextTypeOK, LoopAssumption
<1>2. [Loop!Next]_(Loop!vars) => [LoopProofs!Next]_(LoopProofs!vars)
  BY SameGroup DEF Loop!vars, LoopProofs!vars
<1>3. Loop!TypeOK' <=> LoopProofs!TypeOK'
  BY DEF Loop!TypeOK, LoopProofs!TypeOK
<1> QED
  BY <1>1, <1>2, <1>3, SameGroup

-----------------------------------------------------------------------------
(***************************************************************************)
(* The types and the store.                                                *)
(***************************************************************************)

\* The message in hand is in the topic, and its trace is a trace.
LEMMA InHand ==
  ASSUME TypeOK, NEW n \in Normalizers, cursor[n] # 0
  PROVE  /\ cursor[n] \in 1..Len(topic) /\ topic[cursor[n]] \in Requests
         /\ Subject(n) \in Traces
<1>1. cursor[n] \in 0..Len(topic) /\ topic \in Seq(Requests) /\ Len(topic) \in Nat
  BY DEF TypeOK, StoreTypeOK, Loop!TypeOK
<1>2. topic[cursor[n]] \in Requests
  BY <1>1
<1> QED
  BY <1>1, <1>2, KeysOfBatch DEF Subject, TypeOK

\* Every step stores, announces or leaves the API's tables alone.
LEMMA StoreStep == [Next]_vars => [StoreNext]_storeVars
<1> SUFFICES ASSUME [Next]_vars
             PROVE  [StoreNext]_storeVars
  OBVIOUS
<1> USE DEF lifeVars
<1>1. CASE UNCHANGED vars
  BY <1>1 DEF vars
<1>2. ASSUME NEW q \in Requests, Store(q) \/ Publish(q)
      PROVE  StoreNext
  BY <1>2 DEF Store, Publish, StoreNext
<1>3. ASSUME NEW n \in Normalizers,
             Normalize(n) \/ Acknowledge(n) \/ Abort(n) \/ Crash(n) \/ Join(n) \/ Regroup(n)
      PROVE  UNCHANGED storeVars
  BY <1>3 DEF Normalize, Receive, LoadEvents, EventsNotFound, UpsertManifest, Acknowledge, Abort,
              Crash, Join, Regroup
<1> QED
  BY <1>1, <1>2, <1>3 DEF Next, Work

\* No message is in hand at first.
LEMMA InitType == Init => TypeOK
<1> SUFFICES ASSUME Init
             PROVE  TypeOK
  OBVIOUS
<1>1. StoreTypeOK /\ manifest \in [Traces -> SUBSET Keys]
  BY InitLifeInv DEF Init, LifeInv, StoreInv, ManifestsAreBacked
<1>2. Loop!TypeOK
  BY LoopProofs!InitTypeOK, LoopAssumption, SameGroup DEF Init
<1>3. cursor = [n \in Normalizers |-> 0]
  BY DEF Init, Loop!Init
<1> QED
  BY <1>1, <1>2, <1>3 DEF Init, TypeOK

\* Every step keeps the types.
LEMMA NextType == TypeOK /\ StoreInv' /\ [Next]_vars => TypeOK'
<1> SUFFICES ASSUME TypeOK, StoreInv', [Next]_vars
             PROVE  TypeOK'
  OBVIOUS
<1>1. StoreTypeOK' /\ Loop!TypeOK'
  BY LoopStep, LoopType DEF TypeOK, StoreInv
<1>2. /\ phase \in [Normalizers -> {"idle", "load", "build", "publish"}]
      /\ cursor \in [Normalizers -> 0..Len(topic)]
      /\ \A n \in Normalizers : phase[n] = "idle" <=> cursor[n] = 0
      /\ loaded \in [Normalizers -> SUBSET Keys]
      /\ manifest \in [Traces -> SUBSET Keys]
      /\ outrun \subseteq Traces
      /\ position \in Nat
  BY DEF TypeOK, Loop!TypeOK
<1> DEFINE Local == /\ manifest' \in [Traces -> SUBSET Keys]
                    /\ phase' \in [Normalizers -> {"idle", "load", "build", "publish"}]
                    /\ \A n \in Normalizers : phase'[n] = "idle" <=> cursor'[n] = 0
                    /\ loaded' \in [Normalizers -> SUBSET Keys]
                    /\ outrun' \subseteq Traces
<1> SUFFICES Local
  BY <1>1 DEF TypeOK
<1> USE DEF lifeVars, group, control
<1>3. CASE UNCHANGED vars
  BY <1>2, <1>3 DEF vars
<1>4. ASSUME NEW q \in Requests, Store(q) \/ Publish(q)
      PROVE  Local
  BY <1>2, <1>4 DEF Store, Publish
<1>5. ASSUME NEW n \in Normalizers, Receive(n)
      PROVE  Local
  BY <1>2, <1>5 DEF Receive, Loop!Poll
<1>6. ASSUME NEW n \in Normalizers, LoadEvents(n)
      PROVE  Local
  <2>1. EventsOf(Subject(n)) \subseteq Keys
    BY DEF EventsOf
  <2> QED
    BY <1>2, <1>6, <2>1 DEF LoadEvents
<1>7. ASSUME NEW n \in Normalizers, EventsNotFound(n) \/ Abort(n)
      PROVE  Local
  BY <1>2, <1>7 DEF EventsNotFound, Abort, Leave, Loop!HandlerRaises
<1>8. ASSUME NEW n \in Normalizers, UpsertManifest(n)
      PROVE  Local
  <2>1. Subject(n) \in Traces
    BY <1>2, <1>8, InHand DEF UpsertManifest
  <2> QED
    BY <1>2, <1>8, <2>1 DEF UpsertManifest
<1>9. ASSUME NEW n \in Normalizers, Acknowledge(n)
      PROVE  Local
  BY <1>2, <1>9 DEF Acknowledge, Leave, Loop!Commit, Loop!CommitRaises
<1>10. ASSUME NEW n \in Normalizers, Crash(n)
      PROVE  Local
  BY <1>2, <1>10 DEF Crash, Leave, Loop!Crash
<1>11. ASSUME NEW n \in Normalizers, Join(n) \/ Regroup(n)
      PROVE  Local
  BY <1>2, <1>11 DEF Join, Regroup, Loop!Assign, Loop!Revoke, Loop!Restart
<1> QED
  BY <1>3, <1>4, <1>5, <1>6, <1>7, <1>8, <1>9, <1>10, <1>11 DEF Next, Work, Normalize

-----------------------------------------------------------------------------
(***************************************************************************)
(* What is read and what is compiled.                                      *)
(***************************************************************************)

\* Messages that are handled or in hand are in the topic.
LEMMA TakenAreInTopic ==
  ASSUME TypeOK
  PROVE  \A o \in Taken : o \in 1..Len(topic) /\ topic[o] \in Requests
<1>1. handled \subseteq 1..Len(topic) /\ topic \in Seq(Requests)
  BY DEF TypeOK, StoreTypeOK, Loop!TypeOK
<1>2. \A o \in handled : o \in 1..Len(topic) /\ topic[o] \in Requests
  BY <1>1
<1> QED
  BY <1>2, InHand DEF Taken

\* Whatever the API does, a message in the topic keeps its trace, and its keys, which
\* are all in use, keep their rows.
LEMMA Settled ==
  ASSUME StoreInv, [StoreNext]_storeVars
  PROVE  /\ batch' = batch
         /\ \A o \in 1..Len(topic) :
              /\ topic'[o] = topic[o] /\ TraceOf(topic[o])' = TraceOf(topic[o])
              /\ Brought(topic[o])' = Brought(topic[o])
<1>1. batch' = batch /\ \A k \in Keys : rows[k] # None => rows'[k] = rows[k]
  BY RowsStay DEF StoreInv
<1>2. \A o \in 1..Len(topic) : topic'[o] = topic[o]
  BY TopicStays DEF StoreInv
<1>3. ASSUME NEW o \in 1..Len(topic)
      PROVE  \A k \in KeysOf(topic[o]) : rows'[k] = rows[k]
  <2>1. topic[o] \in stored
    BY DEF StoreInv, TopicIsOfStored
  <2>2. topic[o] \in Requests
    BY <2>1 DEF StoreInv, StoreTypeOK
  <2> QED
    BY <1>1, <2>1, <2>2, KeysOfBatch DEF StoreInv, StoredHaveRows
<1>4. ASSUME NEW o \in 1..Len(topic)
      PROVE  Brought(topic[o])' = Brought(topic[o])
  <2>1. PICK q : q = topic[o]
    OBVIOUS
  <2>2. topic'[o] = q /\ KeysOf(q)' = KeysOf(q) /\ TraceOf(q)' = TraceOf(q)
    BY <1>1, <1>2, <2>1 DEF KeysOf, TraceOf
  <2>3. \A k \in KeysOf(q) : k \in EventsOf(TraceOf(q))' <=> k \in EventsOf(TraceOf(q))
    BY <1>1, <1>3, <2>1 DEF EventsOf, TraceOf
  <2>4. Brought(q)' = Brought(q)
    BY <2>2, <2>3 DEF Brought
  <2>5. Brought(topic[o])' = Brought(q)'
    BY <2>1, <2>2 DEF Brought, KeysOf, TraceOf, EventsOf
  <2> QED
    BY <2>1, <2>4, <2>5
<1> QED
  BY <1>1, <1>2, <1>4 DEF TraceOf

Compiled == LoadedIsBacked /\ Ahead /\ PublishedIsCompiled /\ HandledIsCompiled

\* The API stores and announces: what was read stays backed and ahead.
LEMMA ApiKeeps ==
  ASSUME TypeOK, LifeInv, Compiled, [StoreNext]_storeVars,
         UNCHANGED <<manifest, group, control, outrun>>
  PROVE  Compiled'
<1>1. /\ batch' = batch
      /\ \A o \in 1..Len(topic) :
           /\ topic'[o] = topic[o] /\ TraceOf(topic[o])' = TraceOf(topic[o])
           /\ Brought(topic[o])' = Brought(topic[o])
  BY Settled DEF LifeInv
<1>2. UNCHANGED <<manifest, owner, cursor, handled, phase, loaded, outrun>>
  BY DEF group, control
<1>3. /\ \A n \in Normalizers : cursor[n] # 0 => cursor[n] \in 1..Len(topic)
      /\ \A n \in Normalizers : phase[n] # "idle" => cursor[n] # 0
  BY InHand DEF TypeOK
<1>4. \A o \in Taken : o \in 1..Len(topic)
  BY TakenAreInTopic
<1>5. LoadedIsBacked'
  <2> SUFFICES ASSUME NEW n \in Normalizers, phase[n] \in {"build", "publish"}
               PROVE  (/\ loaded[n] # {} /\ loaded[n] \subseteq EventsOf(Subject(n))
                       /\ Whole(loaded[n]) /\ Brought(topic[cursor[n]]) \subseteq loaded[n])'
    BY <1>2 DEF LoadedIsBacked
  <2>1. PICK t, K : t = Subject(n) /\ K = loaded[n]
    OBVIOUS
  <2>2. cursor[n] \in 1..Len(topic)
    BY <1>3
  <2>3. (K \subseteq EventsOf(t))' /\ Whole(K)'
    BY <2>1, BackedStays DEF LifeInv, Compiled, LoadedIsBacked
  <2>4. Subject(n)' = t /\ loaded'[n] = K
    BY <1>1, <1>2, <2>1, <2>2 DEF Subject, TraceOf
  <2>5. (loaded[n] \subseteq EventsOf(Subject(n)))' /\ Whole(loaded[n])'
    BY <2>3, <2>4 DEF EventsOf, Whole
  <2>6. Brought(topic[cursor[n]])' = Brought(topic[cursor[n]])
    BY <1>1, <1>2, <2>2 DEF Brought, EventsOf, KeysOf, TraceOf
  <2> QED
    BY <1>2, <2>5, <2>6 DEF Compiled, LoadedIsBacked
<1>6. Ahead'
  BY <1>1, <1>2, <1>3, <1>4 DEF Compiled, Ahead, Taken, Subject
<1>7. PublishedIsCompiled'
  BY <1>1, <1>2, <1>3 DEF Compiled, PublishedIsCompiled, Subject
<1>8. HandledIsCompiled'
  BY <1>1, <1>2, <1>4 DEF Compiled, HandledIsCompiled, Taken
<1> QED
  BY <1>5, <1>6, <1>7, <1>8 DEF Compiled

\* The owner that polls has read nothing yet, and nobody else is the owner.
LEMMA ReceiveKeeps ==
  ASSUME TypeOK, Compiled, NEW n \in Normalizers, Receive(n)
  PROVE  Compiled'
<1>1. /\ UNCHANGED <<batch, traceRow, rows, stored, topic, manifest, owner, handled, loaded,
                       outrun>>
      /\ owner = n /\ phase' = [phase EXCEPT ![n] = "load"]
      /\ cursor' = [cursor EXCEPT ![n] = position + 1]
  BY DEF Receive, Loop!Poll, lifeVars, storeVars, tables
<1>2. /\ phase \in [Normalizers -> {"idle", "load", "build", "publish"}]
      /\ cursor \in [Normalizers -> 0..Len(topic)]
  BY DEF TypeOK, Loop!TypeOK
<1>3. Ahead'
  BY <1>1, <1>2 DEF Ahead
<1>4. \A m \in Normalizers : phase'[m] # "load" => phase'[m] = phase[m] /\ cursor'[m] = cursor[m]
  BY <1>1, <1>2
<1>5. LoadedIsBacked' /\ PublishedIsCompiled' /\ HandledIsCompiled'
  BY <1>1, <1>4 DEF Compiled, LoadedIsBacked, PublishedIsCompiled, HandledIsCompiled, Subject,
                    TraceOf, Brought, KeysOf, EventsOf, Whole, AddedBy
<1> QED
  BY <1>3, <1>5 DEF Compiled

\* The one SELECT sees the rows of every message that is handled or in hand.
LEMMA LoadKeeps ==
  ASSUME TypeOK, Compiled, NEW n \in Normalizers, LoadEvents(n)
  PROVE  Compiled'
<1> DEFINE E == EventsOf(Subject(n))
<1>1. /\ UNCHANGED <<batch, traceRow, rows, stored, topic, manifest, owner, cursor, handled,
                       outrun>>
      /\ phase[n] = "load" /\ phase' = [phase EXCEPT ![n] = "build"]
      /\ E # {} /\ loaded' = [loaded EXCEPT ![n] = E]
  BY DEF LoadEvents, lifeVars, storeVars, tables, group
<1>2. /\ phase \in [Normalizers -> {"idle", "load", "build", "publish"}]
      /\ loaded \in [Normalizers -> SUBSET Keys]
      /\ cursor[n] # 0 /\ StoreTypeOK
  BY <1>1 DEF TypeOK
<1>3. Whole(E)
  BY <1>2, EventsAreWhole
<1>4. \A o \in Taken : TraceOf(topic[o]) = Subject(n) => Brought(topic[o]) \subseteq E
  BY DEF Brought
<1>5. Brought(topic[cursor[n]]) \subseteq E
  BY DEF Brought, Subject
<1>6. \A m \in Normalizers : m # n => phase'[m] = phase[m] /\ loaded'[m] = loaded[m]
  BY <1>1, <1>2
<1>7. phase'[n] = "build" /\ loaded'[n] = E
  BY <1>1, <1>2
<1>8. /\ \A t : EventsOf(t)' = EventsOf(t)
      /\ \A q : Brought(q)' = Brought(q) /\ TraceOf(q)' = TraceOf(q)
  BY <1>1 DEF EventsOf, Brought, KeysOf, TraceOf
<1>9. LoadedIsBacked'
  <2> SUFFICES ASSUME NEW m \in Normalizers, phase'[m] \in {"build", "publish"}
               PROVE  /\ loaded'[m] # {} /\ loaded'[m] \subseteq EventsOf(Subject(m))
                      /\ Whole(loaded'[m]) /\ Brought(topic[cursor[m]]) \subseteq loaded'[m]
    BY <1>1 DEF LoadedIsBacked, EventsOf, Subject, TraceOf, Whole, Brought, KeysOf, AddedBy
  <2> QED
    BY <1>1, <1>3, <1>5, <1>6, <1>7 DEF Compiled, LoadedIsBacked
<1>10. Ahead'
  <2> SUFFICES ASSUME NEW m \in Normalizers, owner = m, phase'[m] \in {"build", "publish"},
                      NEW o \in Taken, TraceOf(topic[o]) = Subject(m)
               PROVE  Brought(topic[o]) \subseteq loaded'[m]
    BY <1>1 DEF Ahead, Taken, Subject, TraceOf, Brought, KeysOf, EventsOf
  <2> QED
    BY <1>4, <1>6, <1>7 DEF Compiled, Ahead
<1>11. PublishedIsCompiled' /\ HandledIsCompiled'
  BY <1>1, <1>6, <1>7 DEF Compiled, PublishedIsCompiled, HandledIsCompiled, Subject, TraceOf,
                          Brought, KeysOf, EventsOf
<1> QED
  BY <1>9, <1>10, <1>11 DEF Compiled

\* The owner's manifest covers all messages that are handled or in hand; that of
\* another normalizer puts its trace among those that were outrun.
LEMMA UpsertKeeps ==
  ASSUME TypeOK, Compiled, NEW n \in Normalizers, UpsertManifest(n)
  PROVE  Compiled'
<1> DEFINE t == Subject(n)
<1>1. /\ UNCHANGED <<batch, traceRow, rows, stored, topic, owner, cursor, handled, loaded>>
      /\ phase[n] = "build" /\ phase' = [phase EXCEPT ![n] = "publish"]
      /\ manifest' = [manifest EXCEPT ![t] = loaded[n]]
      /\ outrun' = IF owner = n THEN outrun \ {t} ELSE outrun \cup {t}
  BY DEF UpsertManifest, storeVars, tables, group
<1>2. /\ phase \in [Normalizers -> {"idle", "load", "build", "publish"}]
      /\ manifest \in [Traces -> SUBSET Keys]
      /\ t \in Traces
  BY <1>1, InHand DEF TypeOK
<1>3. manifest'[t] = loaded[n] /\ \A u \in Traces : u # t => manifest'[u] = manifest[u]
  BY <1>1, <1>2
<1>4. /\ phase'[n] = "publish"
      /\ \A m \in Normalizers : m # n => phase'[m] = phase[m]
  BY <1>1, <1>2
<1>5. t \notin outrun' =>
        \A o \in Taken : TraceOf(topic[o]) = t => Brought(topic[o]) \subseteq manifest'[t]
  BY <1>1, <1>3 DEF Compiled, Ahead
<1>6. \A u : u # t => (u \in outrun' <=> u \in outrun)
  BY <1>1
<1>7. LoadedIsBacked' /\ Ahead'
  BY <1>1, <1>4 DEF Compiled, LoadedIsBacked, Ahead, Taken, Subject, TraceOf, Brought, KeysOf,
                    EventsOf, Whole, AddedBy
<1>8. PublishedIsCompiled'
  <2> SUFFICES ASSUME NEW m \in Normalizers, phase'[m] = "publish", Subject(m) \notin outrun'
               PROVE  Brought(topic[cursor[m]]) \subseteq manifest'[Subject(m)]
    BY <1>1 DEF PublishedIsCompiled, Subject, TraceOf, Brought, KeysOf, EventsOf
  <2>1. cursor[m] # 0 /\ Subject(m) \in Traces
    BY <1>1, <1>4, InHand DEF TypeOK
  <2>2. CASE Subject(m) = t
    BY <1>5, <2>1, <2>2 DEF Taken, Subject
  <2>3. CASE Subject(m) # t
    BY <1>3, <1>4, <1>6, <2>1, <2>3 DEF Compiled, PublishedIsCompiled
  <2> QED
    BY <2>2, <2>3
<1>9. HandledIsCompiled'
  <2> SUFFICES ASSUME NEW o \in handled, TraceOf(topic[o]) \notin outrun'
               PROVE  Brought(topic[o]) \subseteq manifest'[TraceOf(topic[o])]
    BY <1>1 DEF HandledIsCompiled, TraceOf, Brought, KeysOf, EventsOf
  <2>1. o \in Taken /\ TraceOf(topic[o]) \in Traces
    BY TakenAreInTopic, KeysOfBatch DEF Taken, TypeOK
  <2>2. CASE TraceOf(topic[o]) = t
    BY <1>5, <2>1, <2>2
  <2>3. CASE TraceOf(topic[o]) # t
    BY <1>3, <1>6, <2>1, <2>3 DEF Compiled, HandledIsCompiled
  <2> QED
    BY <2>2, <2>3
<1> QED
  BY <1>7, <1>8, <1>9 DEF Compiled

\* A handler that ends takes nothing in hand; a message that it handled is in the
\* manifest.
LEMMA LeaveKeeps ==
  ASSUME TypeOK, Compiled, NEW n \in Normalizers, Leave(n), UNCHANGED <<lifeVars, outrun>>,
         cursor' = [cursor EXCEPT ![n] = 0], owner' = owner \/ owner' = None,
         handled' = handled \/ (phase[n] = "publish" /\ handled' = handled \cup {cursor[n]})
  PROVE  Compiled'
<1>1. /\ UNCHANGED <<batch, traceRow, rows, stored, topic, manifest, outrun>>
      /\ phase' = [phase EXCEPT ![n] = "idle"] /\ loaded' = [loaded EXCEPT ![n] = {}]
  BY DEF Leave, lifeVars, storeVars, tables
<1>2. /\ phase \in [Normalizers -> {"idle", "load", "build", "publish"}]
      /\ loaded \in [Normalizers -> SUBSET Keys]
      /\ cursor \in [Normalizers -> 0..Len(topic)]
      /\ \A m \in Normalizers : phase[m] = "idle" <=> cursor[m] = 0
  BY DEF TypeOK, Loop!TypeOK
<1>3. /\ phase'[n] = "idle"
      /\ \A m \in Normalizers : m # n =>
           phase'[m] = phase[m] /\ loaded'[m] = loaded[m] /\ cursor'[m] = cursor[m]
  BY <1>1, <1>2
<1>4. Taken' \subseteq Taken
  BY <1>2 DEF Taken
<1>5. \A m \in Normalizers : owner' = m => owner = m
  BY NormalizerAssumption
<1>6. LoadedIsBacked' /\ PublishedIsCompiled'
  BY <1>1, <1>3 DEF Compiled, LoadedIsBacked, PublishedIsCompiled, Subject, TraceOf, Brought,
                    KeysOf, EventsOf, Whole, AddedBy
<1>7. Ahead'
  <2> SUFFICES ASSUME NEW m \in Normalizers, owner = m, phase'[m] \in {"build", "publish"},
                      NEW o \in Taken, TraceOf(topic[o]) = Subject(m)
               PROVE  Brought(topic[o]) \subseteq loaded[m]
    BY <1>1, <1>3, <1>4, <1>5 DEF Ahead, Subject, TraceOf, Brought, KeysOf, EventsOf
  <2> QED
    BY <1>3 DEF Compiled, Ahead
<1>8. HandledIsCompiled'
  <2> SUFFICES ASSUME NEW o \in handled', TraceOf(topic[o]) \notin outrun
               PROVE  Brought(topic[o]) \subseteq manifest[TraceOf(topic[o])]
    BY <1>1 DEF HandledIsCompiled, TraceOf, Brought, KeysOf, EventsOf
  <2>1. CASE o \in handled
    BY <2>1 DEF Compiled, HandledIsCompiled
  <2>2. CASE phase[n] = "publish" /\ o = cursor[n]
    BY <2>2 DEF Compiled, PublishedIsCompiled, Subject
  <2> QED
    BY <2>1, <2>2
<1> QED
  BY <1>6, <1>7, <1>8 DEF Compiled

\* A normalizer gets the partition only between two messages.
LEMMA GroupKeeps ==
  ASSUME TypeOK, Compiled, NEW n \in Normalizers, Join(n) \/ Regroup(n)
  PROVE  Compiled'
<1>1. /\ UNCHANGED <<batch, traceRow, rows, stored, topic, manifest, outrun>>
      /\ UNCHANGED <<cursor, handled, phase, loaded>>
      /\ owner' \in {owner, None} \/ (owner' = n /\ cursor[n] = 0)
  BY DEF Join, Regroup, Loop!Assign, Loop!Revoke, Loop!Restart, lifeVars, storeVars, tables, control
<1>2. \A m \in Normalizers : phase[m] = "idle" <=> cursor[m] = 0
  BY DEF TypeOK
<1>3. Ahead'
  BY <1>1, <1>2, NormalizerAssumption DEF Compiled, Ahead, Taken, Subject, TraceOf, Brought,
                                          KeysOf, EventsOf
<1>4. LoadedIsBacked' /\ PublishedIsCompiled' /\ HandledIsCompiled'
  BY <1>1 DEF Compiled, LoadedIsBacked, PublishedIsCompiled, HandledIsCompiled, Subject, TraceOf,
              Brought, KeysOf, EventsOf, Whole, AddedBy
<1> QED
  BY <1>3, <1>4 DEF Compiled

\* Every step keeps what was read and compiled in order.
LEMMA NextCompiled == TypeOK /\ LifeInv /\ Compiled /\ [Next]_vars => Compiled'
<1> SUFFICES ASSUME TypeOK, LifeInv, Compiled, [Next]_vars
             PROVE  Compiled'
  OBVIOUS
<1>1. CASE UNCHANGED vars
  BY <1>1, ApiKeeps DEF vars, lifeVars, group, control
<1>2. ASSUME NEW q \in Requests, Store(q) \/ Publish(q)
      PROVE  Compiled'
  BY <1>2, StoreStep, ApiKeeps DEF Store, Publish
<1>3. ASSUME NEW n \in Normalizers, EventsNotFound(n) \/ Abort(n)
      PROVE  Compiled'
  BY <1>3, LeaveKeeps DEF EventsNotFound, Abort, Loop!HandlerRaises
<1>4. ASSUME NEW n \in Normalizers, Acknowledge(n)
      PROVE  Compiled'
  BY <1>4, LeaveKeeps DEF Acknowledge, Loop!Commit, Loop!CommitRaises
<1>5. ASSUME NEW n \in Normalizers, Crash(n)
      PROVE  Compiled'
  BY <1>5, LeaveKeeps DEF Crash, Loop!Crash
<1> QED
  BY <1>1, <1>2, <1>3, <1>4, <1>5, ReceiveKeeps, LoadKeeps, UpsertKeeps, GroupKeeps
     DEF Next, Work, Normalize

-----------------------------------------------------------------------------
(***************************************************************************)
(* The theorems.                                                           *)
(***************************************************************************)

\* Only the upsert of a manifest is seen by a reader of the manifests.
LEMMA LifeStep == TypeOK /\ LoadedIsBacked /\ [Next]_vars => [LifeNext]_lifeVars
<1> SUFFICES ASSUME TypeOK, LoadedIsBacked, [Next]_vars
             PROVE  [LifeNext]_lifeVars
  OBVIOUS
<1>1. ASSUME NEW n \in Normalizers, UpsertManifest(n)
      PROVE  LifeNext
  <2>1. Subject(n) \in Traces
    BY <1>1, InHand DEF UpsertManifest, TypeOK
  <2>2. Compile(Subject(n), loaded[n]) /\ loaded[n] \in SUBSET EventsOf(Subject(n))
    BY <1>1 DEF UpsertManifest, Compile, LoadedIsBacked
  <2> QED
    BY <2>1, <2>2 DEF LifeNext
<1>2. (\E n \in Normalizers : UpsertManifest(n)) \/ UNCHANGED manifest
  BY DEF Next, Work, Normalize, vars, lifeVars, Store, Publish, Receive, LoadEvents,
         EventsNotFound, Acknowledge, Abort, Crash, Join, Regroup
<1> QED
  BY <1>1, <1>2, StoreStep DEF LifeNext, lifeVars

\* At first nothing was read.
LEMMA InitIInv == Init => IInv
<1> SUFFICES ASSUME Init
             PROVE  IInv
  OBVIOUS
<1>1. /\ handled = {} /\ \A n \in Normalizers : phase[n] = "idle"
  BY DEF Init, Loop!Init
<1> QED
  BY <1>1, InitType, InitLifeInv
     DEF Init, IInv, LoadedIsBacked, Ahead, PublishedIsCompiled, HandledIsCompiled

\* The invariant is inductive.
LEMMA NextIInv == IInv /\ [Next]_vars => IInv'
<1> SUFFICES ASSUME IInv, [Next]_vars
             PROVE  IInv'
  OBVIOUS
<1>1. StoreInv'
  BY StoreStep, NextStoreInv DEF IInv, LifeInv
<1>2. TypeOK'
  BY <1>1, NextType DEF IInv
<1>3. LifeInv'
  BY LifeStep, NextLifeInv DEF IInv
<1>4. Compiled'
  BY NextCompiled DEF IInv, Compiled
<1> QED
  BY <1>2, <1>3, <1>4 DEF IInv, Compiled

\* The invariant holds in every reachable state.
LEMMA SpecIInv == Spec => []IInv
  BY InitIInv, NextIInv, PTL DEF Spec

\* Every variable of the normalizers keeps its type.
THEOREM NormalizerTypeCorrect == Spec => []TypeOK
<1>1. IInv => TypeOK
  BY DEF IInv
<1> QED
  BY <1>1, SpecIInv, PTL

\* A batch whose message was handled is in its trace's manifest and stays in it,
\* unless a normalizer that had lost the partition wrote last.
THEOREM HandledStaysCompiled == Spec => []HandledIsCompiled
<1>1. IInv => HandledIsCompiled
  BY DEF IInv
<1> QED
  BY <1>1, SpecIInv, PTL

\* An announcement without events never gets any: "will retry" waits for nothing.
THEOREM MissingMeansNever == Spec => []MissingForGood
<1>1. IInv => MissingForGood
  <2> SUFFICES ASSUME IInv, NEW n \in Normalizers, phase[n] = "load", EventsOf(Subject(n)) = {},
                      NEW k \in KeysOf(topic[cursor[n]])
               PROVE  rows[k] # None /\ TraceOf(rows[k]) # Subject(n)
    BY DEF MissingForGood
  <2>1. cursor[n] # 0
    BY DEF IInv, TypeOK
  <2>2. cursor[n] \in 1..Len(topic) /\ topic[cursor[n]] \in Requests
    BY <2>1, InHand DEF IInv
  <2>3. topic[cursor[n]] \in stored
    BY <2>2 DEF IInv, LifeInv, StoreInv, TopicIsOfStored
  <2>4. k \in Keys
    BY <2>2, KeysOfBatch DEF IInv, TypeOK
  <2>5. rows[k] # None
    BY <2>3 DEF IInv, LifeInv, StoreInv, StoredHaveRows
  <2> QED
    BY <2>4, <2>5 DEF EventsOf
<1> QED
  BY <1>1, SpecIInv, PTL

\* Whatever crashes, stalls or overlaps, the normalizers implement TraceLifecycle:
\* a manifest is the checklist of whole batches of its trace.
THEOREM ImplementsLifecycle == Spec => RefinesLifecycle
<1>1. Init => LifeInit
  BY DEF Init
<1>2. IInv /\ [Next]_vars => [LifeNext]_lifeVars
  BY LifeStep DEF IInv
<1> QED
  BY <1>1, <1>2, SpecIInv, PTL DEF Spec, RefinesLifecycle, LifeSpec

\* The normalizers implement ConsumerLoop, so its theorems hold of them.
THEOREM NormalizersAreAGroup == Spec => Loop!Spec
<1>1. Init => Loop!Init
  BY DEF Init
<1> QED
  BY <1>1, LoopStep, PTL DEF Spec, Loop!Spec

\* What the group has committed past is compiled, unless a handler raised on it or a
\* normalizer without the partition wrote the manifest last: besides these, there is
\* no way for an announcement to be passed over.
THEOREM CommittedIsCompiled ==
  Spec => [](\A o \in 1..committed :
               \/ o \in failed \/ TraceOf(topic[o]) \in outrun
               \/ Brought(topic[o]) \subseteq manifest[TraceOf(topic[o])])
<1>1. Loop!Spec => LoopProofs!Spec
  <2>1. [Loop!Next]_(Loop!vars) => [LoopProofs!Next]_(LoopProofs!vars)
    BY SameGroup DEF Loop!vars, LoopProofs!vars
  <2> QED
    BY <2>1, SameGroup, PTL DEF Loop!Spec, LoopProofs!Spec
<1>2. LoopProofs!Spec => []LoopProofs!CommittedWasAttempted
  BY LoopAssumption, LoopProofs!NothingPassedOver
<1>3. LoopProofs!CommittedWasAttempted /\ HandledIsCompiled =>
        \A o \in 1..committed :
          \/ o \in failed \/ TraceOf(topic[o]) \in outrun
          \/ Brought(topic[o]) \subseteq manifest[TraceOf(topic[o])]
  BY DEF LoopProofs!CommittedWasAttempted, LoopProofs!Attempted, HandledIsCompiled
<1> QED
  BY <1>1, <1>2, <1>3, NormalizersAreAGroup, HandledStaysCompiled, PTL

-----------------------------------------------------------------------------
(***************************************************************************)
(* The trace half in one piece.  Ingest implements the store that the      *)
(* normalizers read, so what is proved of either holds of both together.   *)
(***************************************************************************)

IngestProofs == INSTANCE TraceIngestProofs

LEMMA IngestAssumptions == IngestProofs!BatchAssumption /\ IngestProofs!NoneAssumption
  BY BatchAssumption, NoneAssumption DEF IngestProofs!BatchAssumption, IngestProofs!NoneAssumption

\* IngestProofs and Ingest are the same requests over the same store.
LEMMA SameIngest ==
  /\ Ingest!Init <=> IngestProofs!Init
  /\ [Ingest!Next]_(Ingest!vars) <=> [IngestProofs!Next]_(IngestProofs!vars)
  /\ [StoreNext]_storeVars <=> [IngestProofs!StoreNext]_(IngestProofs!storeVars)
<1> USE DEF storeVars, tables, Ingest!storeVars, Ingest!tables, Ingest!ingest, Ingest!producer,
            Ingest!vars, IngestProofs!storeVars, IngestProofs!tables, IngestProofs!ingest,
            IngestProofs!producer, IngestProofs!vars
<1>1. Ingest!Init <=> IngestProofs!Init
  BY DEF Ingest!Init, IngestProofs!Init, Ingest!StoreInit, IngestProofs!StoreInit,
         Ingest!NoCounts, IngestProofs!NoCounts, Ingest!Producer!Init, IngestProofs!Producer!Init
<1>2. StoreNext <=> IngestProofs!StoreNext
  BY DEF StoreNext, StoreBatch, Announce, TraceOf, KeysOf, Range, Upserted, Inserted, Announced,
         IngestProofs!StoreNext, IngestProofs!StoreBatch, IngestProofs!Announce,
         IngestProofs!TraceOf, IngestProofs!KeysOf, IngestProofs!Range, IngestProofs!Upserted,
         IngestProofs!Inserted, IngestProofs!Announced
<1>3. ASSUME NEW q \in Requests, NEW p \in Requests
      PROVE  /\ Ingest!WaitsForTrace(q, p) <=> IngestProofs!WaitsForTrace(q, p)
             /\ Ingest!WaitsForKey(q, p) <=> IngestProofs!WaitsForKey(q, p)
             /\ Ingest!WaitsFor(q, p) <=> IngestProofs!WaitsFor(q, p)
  BY DEF Ingest!WaitsForTrace, IngestProofs!WaitsForTrace, Ingest!WaitsForKey,
         IngestProofs!WaitsForKey, Ingest!WaitsFor, IngestProofs!WaitsFor, Ingest!TraceOf,
         IngestProofs!TraceOf, Ingest!Inserting, IngestProofs!Inserting, Ingest!NextKey,
         IngestProofs!NextKey
<1>4. ASSUME NEW q \in Requests
      PROVE  /\ Ingest!Post(q) <=> IngestProofs!Post(q)
             /\ Ingest!IngestRaises(q) <=> IngestProofs!IngestRaises(q)
             /\ Ingest!PublishRaises(q) <=> IngestProofs!PublishRaises(q)
             /\ Ingest!Publish(q) <=> IngestProofs!Publish(q)
             /\ Ingest!Answer(q) <=> IngestProofs!Answer(q)
  BY DEF Ingest!Post, IngestProofs!Post, Ingest!IngestRaises, IngestProofs!IngestRaises,
         Ingest!PublishRaises, IngestProofs!PublishRaises, Ingest!Publish,
         IngestProofs!Publish, Ingest!Answer, IngestProofs!Answer, Ingest!FlushReturns,
         IngestProofs!FlushReturns, Ingest!FlushRaises, IngestProofs!FlushRaises,
         Ingest!Goto, IngestProofs!Goto, Ingest!Rollback, IngestProofs!Rollback,
         Ingest!Producer!Publish, IngestProofs!Producer!Publish,
         Ingest!Producer!FlushReturns, IngestProofs!Producer!FlushReturns,
         Ingest!Producer!FlushRaises, IngestProofs!Producer!FlushRaises
<1>5. ASSUME NEW q \in Requests
      PROVE  Ingest!BreakDeadlock(q) <=> IngestProofs!BreakDeadlock(q)
  <2>1. ASSUME NEW D \in SUBSET Requests
        PROVE  Ingest!Cycle(D) <=> IngestProofs!Cycle(D)
    BY <1>3 DEF Ingest!Cycle, IngestProofs!Cycle
  <2> QED
    BY <2>1 DEF Ingest!BreakDeadlock, IngestProofs!BreakDeadlock, Ingest!Rollback,
                IngestProofs!Rollback
<1>6. ASSUME NEW q \in Requests
      PROVE  /\ Ingest!Upsert(q) <=> IngestProofs!Upsert(q)
             /\ Ingest!InsertEvent(q) <=> IngestProofs!InsertEvent(q)
             /\ Ingest!Commit(q) <=> IngestProofs!Commit(q)
  BY <1>3 DEF Ingest!Upsert, IngestProofs!Upsert, Ingest!InsertEvent, IngestProofs!InsertEvent,
         Ingest!Commit, IngestProofs!Commit, Ingest!Goto, IngestProofs!Goto,
         Ingest!Inserting, IngestProofs!Inserting, Ingest!NextKey, IngestProofs!NextKey,
         Ingest!IsNew, IngestProofs!IsNew, Ingest!Counted, IngestProofs!Counted,
         Ingest!Upserted, IngestProofs!Upserted, Ingest!TraceOf, IngestProofs!TraceOf
<1>7. /\ Ingest!Deliver <=> IngestProofs!Deliver
      /\ Ingest!GiveUp <=> IngestProofs!GiveUp
      /\ Ingest!ApiCrash <=> IngestProofs!ApiCrash
  BY DEF Ingest!Deliver, IngestProofs!Deliver, Ingest!GiveUp, IngestProofs!GiveUp,
         Ingest!ApiCrash, IngestProofs!ApiCrash, Ingest!Storing, IngestProofs!Storing,
         Ingest!Producer!Delivered, IngestProofs!Producer!Delivered,
         Ingest!Producer!GivenUp, IngestProofs!Producer!GivenUp, Ingest!Producer!Lost,
         IngestProofs!Producer!Lost
<1>8. Ingest!Next <=> IngestProofs!Next
  BY <1>4, <1>5, <1>6, <1>7 DEF Ingest!Next, IngestProofs!Next, Ingest!Handle, IngestProofs!Handle
<1> QED
  BY <1>1, <1>2, <1>8

\* The API that the normalizers see is the one of TraceIngest, and nobody else
\* touches what belongs to it.
LEMMA SystemIngests == SystemSpec => Ingest!Spec
<1>1. SystemInit => Ingest!Init
  BY DEF SystemInit
<1>2. [SystemNext]_systemVars => [Ingest!Next]_(Ingest!vars)
  BY DEF SystemNext, systemVars, storeVars, tables, ingesting, Ingest!vars, Ingest!storeVars,
         Ingest!tables, Ingest!ingest, Ingest!producer
<1> QED
  BY <1>1, <1>2, PTL DEF SystemSpec, Ingest!Spec

\* What is known of ingest holds in the system.
LEMMA SystemIngestInv == SystemSpec => []IngestProofs!IInv
<1>1. Ingest!Spec => IngestProofs!Spec
  BY SameIngest, PTL DEF Ingest!Spec, IngestProofs!Spec
<1>2. IngestProofs!Spec => []IngestProofs!IInv
  BY IngestAssumptions, IngestProofs!SpecIInv
<1> QED
  BY <1>1, <1>2, SystemIngests, PTL

\* Ingest statement by statement is an API that the normalizers may be run with.
THEOREM SystemNormalizes == SystemSpec => RefinesNormalizer
<1>1. SystemInit => Init
  BY DEF SystemInit
<1>2. IngestProofs!IInv /\ [SystemNext]_systemVars => [Next]_vars
  <2> SUFFICES ASSUME IngestProofs!IInv, [SystemNext]_systemVars
               PROVE  [Next]_vars
    OBVIOUS
  <2>1. CASE Ingest!Next /\ UNCHANGED compiling
    <3>1. [StoreNext]_storeVars
      BY <2>1, SameIngest, IngestAssumptions, IngestProofs!StepImplements
    <3> QED
      BY <2>1, <3>1 DEF StoreNext, Next, Store, Publish, compiling, vars, lifeVars
  <2>2. CASE \E n \in Normalizers : Work(n)
    BY <2>2 DEF Next
  <2>3. CASE UNCHANGED systemVars
    BY <2>3 DEF systemVars, compiling, vars, lifeVars
  <2> QED
    BY <2>1, <2>2, <2>3 DEF SystemNext
<1> QED
  BY <1>1, <1>2, SystemIngestInv, PTL DEF SystemSpec, Spec, RefinesNormalizer

\* A batch that was accepted is announced, and once its message was handled its events
\* are in the manifest of its trace, unless their keys are taken or the manifest was
\* written last by a normalizer without the partition.
THEOREM AcceptedMeansCompiled == SystemSpec => []AcceptedIsCompiled
<1>1. IngestProofs!IInv /\ IInv => AcceptedIsCompiled
  <2> SUFFICES ASSUME IngestProofs!IInv, IInv, NEW q \in Requests, pc[q] = "accepted"
               PROVE  \E o \in 1..Len(topic) :
                        /\ topic[o] = q
                        /\ o \in handled /\ TraceOf(q) \notin outrun =>
                             \A k \in KeysOf(q) :
                               /\ rows[k] # None
                               /\ TraceOf(rows[k]) = TraceOf(q) => k \in manifest[TraceOf(q)]
    BY DEF AcceptedIsCompiled
  <2>1. PICK o \in 1..Len(topic) : topic[o] = q
    BY DEF IngestProofs!IInv, IngestProofs!QueueInv, IngestProofs!AcceptedIsAnnounced,
           IngestProofs!Announced
  <2>2. q \in stored
    BY <2>1 DEF IInv, LifeInv, StoreInv, TopicIsOfStored
  <2>3. \A k \in KeysOf(q) : k \in Keys /\ rows[k] # None
    BY <2>2, KeysOfBatch DEF IInv, TypeOK, LifeInv, StoreInv, StoredHaveRows
  <2>4. o \in handled /\ TraceOf(q) \notin outrun => Brought(q) \subseteq manifest[TraceOf(q)]
    BY <2>1 DEF IInv, HandledIsCompiled
  <2> QED
    BY <2>1, <2>3, <2>4 DEF Brought, EventsOf
<1> QED
  BY <1>1, SystemIngestInv, SystemNormalizes, SpecIInv, PTL DEF RefinesNormalizer
=============================================================================
