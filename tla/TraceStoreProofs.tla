-------------------------- MODULE TraceStoreProofs --------------------------
(***************************************************************************)
(* Proofs about TraceStore and TraceLifecycle, for any sets of requests,   *)
(* traces, keys and batches.  They rest on two facts: a row, once stored,  *)
(* is never changed (RowsStay), and what a batch added is known from its   *)
(* commit on (AddedStays).  So a set of whole batches stays one.           *)
(***************************************************************************)
EXTENDS TraceLifecycle, TLAPS

RowsAreOfStored ==
  \A k \in Keys : rows[k] # None => rows[k] \in stored /\ k \in KeysOf(rows[k])

StoredHaveRows == \A q \in stored : \A k \in KeysOf(q) : rows[k] # None

TraceRowIsOfStored ==
  \A t \in Traces : traceRow[t] # None =>
    /\ traceRow[t].first \in stored /\ TraceOf(traceRow[t].first) = t
    /\ traceRow[t].last \in stored /\ TraceOf(traceRow[t].last) = t

TopicIsOfStored == \A o \in 1..Len(topic) : topic[o] \in stored

StoreInv ==
  /\ StoreTypeOK
  /\ RowsAreOfStored /\ StoredHaveRows /\ TraceRowIsOfStored /\ TopicIsOfStored

\* The keys that are in use.
Used == {k \in Keys : rows[k] # None}

-----------------------------------------------------------------------------
\* The keys of a batch are keys.
LEMMA KeysOfBatch ==
  ASSUME StoreTypeOK, NEW q \in Requests
  PROVE  TraceOf(q) \in Traces /\ KeysOf(q) \subseteq Keys
<1>1. batch[q] \in [trace : Traces, keys : Seq(Keys)]
  BY BatchAssumption DEF StoreTypeOK
<1>2. \A i \in DOMAIN batch[q].keys : batch[q].keys[i] \in Keys
  BY <1>1
<1> QED
  BY <1>1, <1>2 DEF TraceOf, KeysOf, Range

\* The announcement goes to the end of the topic.
LEMMA AppendTopic ==
  ASSUME NEW s \in Seq(Requests), NEW q \in Requests
  PROVE  /\ Append(s, q) \in Seq(Requests)
         /\ Len(s) \in Nat /\ Len(Append(s, q)) = Len(s) + 1
         /\ \A o \in 1..Len(s) : Append(s, q)[o] = s[o] /\ s[o] \in Requests
         /\ Append(s, q)[Len(s) + 1] = q
  OBVIOUS

\* What was announced stays where it is in the topic.
LEMMA TopicStays ==
  ASSUME StoreTypeOK, [StoreNext]_storeVars
  PROVE  /\ Len(topic) \in Nat /\ Len(topic') \in Nat /\ Len(topic) <= Len(topic')
         /\ \A o \in 1..Len(topic) : o \in 1..Len(topic') /\ topic'[o] = topic[o]
<1>1. topic \in Seq(Requests)
  BY DEF StoreTypeOK
<1>2. CASE topic' = topic
  BY <1>1, <1>2
<1>3. ASSUME NEW q \in Requests, topic' = Append(topic, q)
      PROVE  /\ Len(topic) \in Nat /\ Len(topic') = Len(topic) + 1
             /\ \A o \in 1..Len(topic) : topic'[o] = topic[o]
  BY <1>1, <1>3, AppendTopic
<1>4. topic' = topic \/ \E q \in Requests : topic' = Append(topic, q)
  BY DEF StoreNext, StoreBatch, Announce, storeVars
<1> QED
  BY <1>2, <1>3, <1>4

\* A stored row never changes, and neither does the body of a request.
LEMMA RowsStay ==
  ASSUME StoreTypeOK, [StoreNext]_storeVars
  PROVE  /\ batch' = batch /\ stored \subseteq stored'
         /\ \A k \in Keys : rows[k] # None => rows'[k] = rows[k]
         /\ \A q : TraceOf(q)' = TraceOf(q) /\ KeysOf(q)' = KeysOf(q)
<1>1. batch' = batch /\ stored \subseteq stored'
  BY DEF StoreNext, StoreBatch, Announce, storeVars, tables
<1>2. rows' = rows \/ \E q \in Requests : rows' = Inserted(q)
  BY DEF StoreNext, StoreBatch, Announce, storeVars, tables
<1>3. \A k \in Keys : rows[k] # None => rows'[k] = rows[k]
  BY <1>2 DEF Inserted
<1> QED
  BY <1>1, <1>3 DEF TraceOf, KeysOf

\* The events of a trace only grow.
LEMMA EventsStay ==
  ASSUME StoreTypeOK, [StoreNext]_storeVars, NEW t
  PROVE  EventsOf(t) \subseteq EventsOf(t)'
<1>1. batch' = batch /\ \A k \in Keys : rows[k] # None => rows'[k] = rows[k]
  BY RowsStay
<1> QED
  BY <1>1 DEF EventsOf, TraceOf

\* What a stored batch added is settled: rows that are new belong to a new batch.
LEMMA AddedStays ==
  ASSUME StoreInv, [StoreNext]_storeVars, NEW q \in stored
  PROVE  AddedBy(q)' = AddedBy(q)
<1>1. \A k \in Keys : rows[k] # None => rows'[k] = rows[k]
  BY RowsStay DEF StoreInv
<1>2. q # None
  BY NoneAssumption DEF StoreInv, StoreTypeOK
<1>3. \A k \in Keys : rows[k] = None => rows'[k] # q
  <2>1. rows' = rows \/ \E p \in Requests : p \notin stored /\ rows' = Inserted(p)
    BY DEF StoreNext, StoreBatch, Announce, storeVars, tables
  <2> QED
    BY <1>2, <2>1 DEF Inserted
<1> QED
  BY <1>1, <1>2, <1>3 DEF AddedBy

\* The rows of a batch that is not stored yet are not among those in use.
LEMMA WholeStays ==
  ASSUME StoreInv, [StoreNext]_storeVars, NEW K, K \subseteq Used, Whole(K)
  PROVE  Whole(K)'
<1> SUFFICES ASSUME NEW q \in Requests
             PROVE  AddedBy(q)' \subseteq K \/ AddedBy(q)' \cap K = {}
  BY DEF Whole
<1>1. CASE q \in stored
  BY <1>1, AddedStays DEF Whole
<1>2. CASE q \notin stored
  <2>1. \A k \in K : k \in Keys /\ rows[k] \in stored /\ rows'[k] = rows[k]
    BY RowsStay DEF StoreInv, RowsAreOfStored, Used
  <2> QED
    BY <1>2, <2>1 DEF AddedBy
<1> QED
  BY <1>1, <1>2

\* The events of a trace are whole batches: a batch adds to one trace.
LEMMA EventsAreWhole ==
  ASSUME StoreTypeOK, NEW t
  PROVE  Whole(EventsOf(t)) /\ EventsOf(t) \subseteq Used
<1>1. \A q \in Requests : \A k \in AddedBy(q) : rows[k] = q /\ k \in Keys /\ rows[k] # None
  BY NoneAssumption DEF AddedBy
<1> QED
  BY <1>1 DEF Whole, EventsOf, Used

\* An empty database.
LEMMA InitStoreInv == StoreInit => StoreInv
<1> SUFFICES ASSUME StoreInit
             PROVE  StoreInv
  OBVIOUS
<1>1. topic = <<>> /\ <<>> \in Seq(Requests)
  BY DEF StoreInit
<1>2. StoreTypeOK
  BY <1>1 DEF StoreInit, StoreTypeOK
<1> QED
  BY <1>1, <1>2 DEF StoreInit, StoreInv, RowsAreOfStored, StoredHaveRows, TraceRowIsOfStored,
                    TopicIsOfStored

\* The commit of a batch.
LEMMA BatchKeepsInv ==
  ASSUME StoreInv, NEW q \in Requests, StoreBatch(q)
  PROVE  StoreInv'
<1> DEFINE t == TraceOf(q)
<1>1. t \in Traces /\ KeysOf(q) \subseteq Keys
  BY KeysOfBatch DEF StoreInv
<1>2. /\ batch' = batch /\ topic' = topic /\ stored' = stored \cup {q} /\ rows' = Inserted(q)
      /\ traceRow' = [traceRow EXCEPT ![t] = Upserted(@, q)]
  BY DEF StoreBatch
<1>3. \A p : TraceOf(p)' = TraceOf(p) /\ KeysOf(p)' = KeysOf(p)
  BY <1>2 DEF TraceOf, KeysOf
<1>4. /\ traceRow \in [Traces -> TraceRow \cup {None}] /\ rows \in [Keys -> Requests \cup {None}]
      /\ stored \subseteq Requests
  BY DEF StoreInv, StoreTypeOK
<1>5. /\ Upserted(traceRow[t], q) \in TraceRow
      /\ Upserted(traceRow[t], q).last = q
      /\ Upserted(traceRow[t], q).first \in {q} \cup {IF traceRow[t] = None THEN q ELSE traceRow[t].first}
  BY <1>1, <1>4 DEF Upserted, TraceRow
<1>6. StoreTypeOK'
  <2>1. traceRow' \in [Traces -> TraceRow \cup {None}]
    BY <1>1, <1>2, <1>4, <1>5
  <2>2. rows' \in [Keys -> Requests \cup {None}]
    BY <1>2, <1>4 DEF Inserted
  <2> QED
    BY <1>2, <1>4, <2>1, <2>2 DEF StoreInv, StoreTypeOK, TraceRow
<1>7. RowsAreOfStored' /\ StoredHaveRows'
  <2>1. \A k \in Keys :
          rows'[k] = IF rows[k] = None /\ k \in KeysOf(q) THEN q ELSE rows[k]
    BY <1>2 DEF Inserted
  <2>2. RowsAreOfStored'
    <3> SUFFICES ASSUME NEW k \in Keys, rows'[k] # None
                 PROVE  rows'[k] \in stored' /\ k \in KeysOf(rows'[k])
      BY <1>2 DEF RowsAreOfStored, KeysOf
    <3> QED
      BY <1>2, <2>1 DEF StoreInv, RowsAreOfStored
  <2>3. \A p \in stored : \A k \in KeysOf(p) : k \in Keys /\ rows[k] # None
    BY <1>4, KeysOfBatch DEF StoreInv, StoredHaveRows
  <2>4. \A p \in stored' : \A k \in KeysOf(p) : rows'[k] # None
    BY <1>1, <1>2, <2>1, <2>3, NoneAssumption
  <2> QED
    BY <1>3, <2>2, <2>4 DEF StoredHaveRows
<1>8. TraceRowIsOfStored'
  <2> SUFFICES ASSUME NEW u \in Traces, traceRow'[u] # None
               PROVE  /\ traceRow'[u].first \in stored' /\ TraceOf(traceRow'[u].first) = u
                      /\ traceRow'[u].last \in stored' /\ TraceOf(traceRow'[u].last) = u
    BY <1>2 DEF TraceRowIsOfStored, TraceOf
  <2>1. CASE u # t
    BY <1>2, <1>4, <2>1 DEF StoreInv, TraceRowIsOfStored
  <2>2. CASE u = t
    <3>1. traceRow'[u] = Upserted(traceRow[t], q)
      BY <1>1, <1>2, <1>4, <2>2
    <3>2. traceRow[t] # None => traceRow[t].first \in stored /\ TraceOf(traceRow[t].first) = t
      BY <1>1 DEF StoreInv, TraceRowIsOfStored
    <3>3. /\ traceRow'[u].last = q
          /\ traceRow'[u].first = q \/ (traceRow[t] # None /\ traceRow'[u].first = traceRow[t].first)
      BY <3>1 DEF Upserted
    <3> QED
      BY <1>2, <2>2, <3>2, <3>3
  <2> QED
    BY <2>1, <2>2
<1>9. TopicIsOfStored'
  BY <1>2 DEF StoreInv, TopicIsOfStored
<1> QED
  BY <1>6, <1>7, <1>8, <1>9 DEF StoreInv

\* Every step of the API keeps the tables and the topic in order.
LEMMA NextStoreInv == StoreInv /\ [StoreNext]_storeVars => StoreInv'
<1> SUFFICES ASSUME StoreInv, [StoreNext]_storeVars
             PROVE  StoreInv'
  OBVIOUS
<1>1. CASE UNCHANGED storeVars
  BY <1>1 DEF storeVars, tables, StoreInv, StoreTypeOK, RowsAreOfStored, StoredHaveRows,
              TraceRowIsOfStored, TopicIsOfStored, KeysOf, TraceOf, TraceRow
<1>2. ASSUME NEW q \in Requests, Announce(q)
      PROVE  StoreInv'
  <2>1. UNCHANGED <<batch, traceRow, rows, stored>> /\ topic' = Append(topic, q) /\ q \in stored
    BY <1>2 DEF Announce, tables
  <2>2. topic \in Seq(Requests)
    BY DEF StoreInv, StoreTypeOK
  <2>3. /\ topic' \in Seq(Requests) /\ Len(topic) \in Nat /\ Len(topic') = Len(topic) + 1
        /\ \A o \in 1..Len(topic) : topic'[o] = topic[o]
        /\ topic'[Len(topic) + 1] = q
    BY <2>1, <2>2, AppendTopic
  <2>4. TopicIsOfStored'
    BY <2>1, <2>3 DEF StoreInv, TopicIsOfStored
  <2> QED
    BY <2>1, <2>3, <2>4 DEF StoreInv, StoreTypeOK, RowsAreOfStored, StoredHaveRows,
                            TraceRowIsOfStored, KeysOf, TraceOf, TraceRow
<1> QED
  BY <1>1, <1>2, BatchKeepsInv DEF StoreNext

-----------------------------------------------------------------------------
ManifestsAreBacked ==
  /\ manifest \in [Traces -> SUBSET Keys]
  /\ \A t \in Traces : manifest[t] \subseteq EventsOf(t) /\ Whole(manifest[t])

LifeInv == StoreInv /\ ManifestsAreBacked

\* A set of whole batches of a trace remains one.
LEMMA BackedStays ==
  ASSUME StoreInv, [StoreNext]_storeVars, NEW t, NEW K, K \subseteq EventsOf(t), Whole(K)
  PROVE  (K \subseteq EventsOf(t))' /\ Whole(K)'
<1>1. (K \subseteq EventsOf(t))'
  BY EventsStay DEF StoreInv
<1>2. K \subseteq Used
  BY EventsAreWhole DEF StoreInv
<1> QED
  BY <1>1, <1>2, WholeStays

\* No traces, no manifests.
LEMMA InitLifeInv == LifeInit => LifeInv
<1> SUFFICES ASSUME LifeInit
             PROVE  LifeInv
  OBVIOUS
<1>1. ManifestsAreBacked
  BY DEF LifeInit, ManifestsAreBacked, Whole
<1> QED
  BY <1>1, InitStoreInv DEF LifeInit, LifeInv

\* Storing and announcing leave the manifests backed, compiling makes them so.
LEMMA NextLifeInv == LifeInv /\ [LifeNext]_lifeVars => LifeInv'
<1> SUFFICES ASSUME LifeInv, [LifeNext]_lifeVars
             PROVE  LifeInv'
  OBVIOUS
<1>1. CASE [StoreNext]_storeVars /\ manifest' = manifest
  <2>1. ASSUME NEW t \in Traces
        PROVE  (manifest[t] \subseteq EventsOf(t))' /\ Whole(manifest[t])'
    <3>1. PICK K : K = manifest[t]
      OBVIOUS
    <3>2. (K \subseteq EventsOf(t))' /\ Whole(K)'
      BY <1>1, <3>1, BackedStays DEF LifeInv, ManifestsAreBacked
    <3> QED
      BY <1>1, <3>1, <3>2 DEF Whole
  <2> QED
    BY <1>1, <2>1, NextStoreInv DEF LifeInv, ManifestsAreBacked
<1>2. ASSUME NEW t \in Traces, NEW K \in SUBSET EventsOf(t), Compile(t, K)
      PROVE  LifeInv'
  <2>1. UNCHANGED storeVars /\ manifest' = [manifest EXCEPT ![t] = K] /\ Whole(K)
    BY <1>2 DEF Compile
  <2>2. StoreInv'
    BY <2>1, NextStoreInv DEF LifeInv
  <2>3. \A u : EventsOf(u)' = EventsOf(u) /\ (Whole(manifest'[u]) <=> Whole(manifest[u])')
    BY <2>1 DEF storeVars, tables, EventsOf, TraceOf, Whole, AddedBy
  <2>4. EventsOf(t) \subseteq Keys
    BY DEF EventsOf
  <2> QED
    BY <2>1, <2>2, <2>3, <2>4 DEF LifeInv, ManifestsAreBacked
<1> QED
  BY <1>1, <1>2 DEF LifeNext, lifeVars

\* Every manifest is a list of events of its trace, in whole batches.
THEOREM ManifestsStayBacked == LifeSpec => []ManifestsAreBacked
  BY InitLifeInv, NextLifeInv, PTL DEF LifeSpec, LifeInv
=============================================================================
