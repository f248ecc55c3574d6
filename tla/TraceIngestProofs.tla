-------------------------- MODULE TraceIngestProofs --------------------------
(***************************************************************************)
(* Proofs about TraceIngest, for any sets of requests, traces, keys and    *)
(* batches: the types, the safety properties, and that it implements       *)
(* TraceStore.                                                             *)
(*                                                                         *)
(* The argument has two halves.  In the tables (TablesInv), the rows that  *)
(* an open transaction has inserted are its alone and in nobody's way, so  *)
(* at its commit they are exactly the keys of its batch that were free:    *)
(* the commit is the abstract StoreBatch and the counts come out true.     *)
(* In the producer (QueueInv), each stored batch is sent once, and between *)
(* its publish and the end of its flush an announcement is in the queue,   *)
(* in the topic, or has left an error behind for flush to raise.           *)
(***************************************************************************)
EXTENDS TraceIngest, FiniteSetTheorems, TLAPS

AfterCommit == {"publish", "flush", "accepted", "failed"}

Placed == \A q \in Requests : q \in stored <=> pc[q] \in AfterCommit

Fresh ==
  \A q \in Requests : pc[q] \in {"new", "posted"} => next[q] = 1 /\ counts[q] = NoCounts

\* The lock of a trace's row has one holder.
Alone ==
  \A p, q \in Requests :
    pc[p] = "insert" /\ pc[q] = "insert" /\ TraceOf(p) = TraceOf(q) => p = q

\* A row that is inserted and not committed belongs to one transaction.
OpenApart ==
  \A q \in Requests : \A k \in open[q] :
    /\ rows[k] = None
    /\ k \in KeysOf(q)
    /\ \A p \in Requests : k \in open[p] => p = q

\* What the for loop has done so far.
Looped(q) ==
  /\ next[q] <= Len(batch[q].keys) + 1
  /\ \A i \in 1..(next[q] - 1) : rows[batch[q].keys[i]] # None \/ batch[q].keys[i] \in open[q]
  /\ IsFiniteSet(open[q])
  /\ counts[q].accepted = Cardinality(open[q])
  /\ counts[q].accepted + counts[q].duplicates = next[q] - 1

LoopedSoFar == \A q \in Requests : pc[q] = "insert" => Looped(q)

RowsAreStored == \A k \in Keys : rows[k] # None => rows[k] \in stored

TablesInv ==
  /\ Placed /\ Fresh /\ Alone /\ OpenApart /\ LoopedSoFar /\ RowsAreStored
  /\ CountsAreTrue /\ DuplicateIsStored

InQueue(q) == \E k \in 1..Len(queue) : queue[k] = q

OneFlushes == \A p, q \in Requests : pc[p] = "flush" /\ pc[q] = "flush" => p = q

QueuedOnce ==
  \A k \in 1..Len(queue) :
    /\ queue[k] \in stored
    /\ ~Announced(queue[k])
    /\ \A j \in 1..Len(queue) : queue[j] = queue[k] => j = k

AnnouncedIsStored == \A q \in Requests : Announced(q) => q \in stored

Unsent == \A q \in Requests : pc[q] = "publish" => ~InQueue(q) /\ ~Announced(q)

Flushed ==
  \A q \in Requests : pc[q] = "flush" => InQueue(q) \/ Announced(q) \/ errors

QueueInv ==
  /\ OneFlushes /\ QueuedOnce /\ AnnouncedIsStored /\ Unsent /\ Flushed
  /\ AcceptedIsAnnounced

IInv == TypeOK /\ TablesInv /\ QueueInv

-----------------------------------------------------------------------------
(***************************************************************************)
(* Sequences.                                                              *)
(***************************************************************************)

\* A queue may be empty.
LEMMA EmptySequence == <<>> \in Seq(Requests)
  OBVIOUS

\* An appended message is the last one of its sequence.
LEMMA AppendHas ==
  ASSUME NEW s \in Seq(Requests), NEW m \in Requests
  PROVE  /\ Append(s, m) \in Seq(Requests)
         /\ Len(s) \in Nat /\ Len(Append(s, m)) = Len(s) + 1
         /\ \A k \in 1..Len(s) : Append(s, m)[k] = s[k] /\ s[k] \in Requests
         /\ Append(s, m)[Len(s) + 1] = m
  OBVIOUS

\* The tail of a sequence is the sequence without its head.
LEMMA TailHas ==
  ASSUME NEW s \in Seq(Requests), s # <<>>
  PROVE  /\ Head(s) \in Requests /\ Tail(s) \in Seq(Requests)
         /\ Head(s) = s[1]
         /\ Len(s) \in Nat \ {0} /\ Len(Tail(s)) = Len(s) - 1
         /\ \A k \in 1..(Len(s) - 1) : Tail(s)[k] = s[k + 1]
  OBVIOUS

\* A batch is a non-empty sequence of keys for a trace.
LEMMA BatchOf ==
  ASSUME StoreTypeOK, NEW q \in Requests
  PROVE  /\ TraceOf(q) \in Traces
         /\ batch[q].keys \in Seq(Keys) /\ Len(batch[q].keys) \in Nat \ {0}
         /\ \A i \in 1..Len(batch[q].keys) : batch[q].keys[i] \in Keys
         /\ KeysOf(q) = {batch[q].keys[i] : i \in 1..Len(batch[q].keys)}
         /\ KeysOf(q) \subseteq Keys
<1>1. batch[q] \in [trace : Traces, keys : Seq(Keys)] /\ batch[q].keys # <<>>
  BY BatchAssumption DEF StoreTypeOK
<1>2. batch[q].keys \in Seq(Keys) /\ Len(batch[q].keys) \in Nat \ {0}
  BY <1>1
<1>3. DOMAIN batch[q].keys = 1..Len(batch[q].keys)
  BY <1>2
<1>4. \A i \in 1..Len(batch[q].keys) : batch[q].keys[i] \in Keys
  BY <1>2
<1> QED
  BY <1>1, <1>2, <1>3, <1>4 DEF KeysOf, Range, TraceOf

-----------------------------------------------------------------------------
(***************************************************************************)
(* The types.                                                              *)
(***************************************************************************)

\* Nothing is stored, nobody has begun.
LEMMA InitType == Init => TypeOK
<1> SUFFICES ASSUME Init
             PROVE  TypeOK
  OBVIOUS
<1>1. StoreTypeOK
  BY EmptySequence DEF Init, StoreInit, StoreTypeOK
<1>2. queue \in Seq(Requests) /\ errors \in BOOLEAN
  BY EmptySequence DEF Init, Producer!Init
<1> QED
  BY <1>1, <1>2 DEF Init, TypeOK, NoCounts, Place

\* The commit writes rows and the trace's row of the committed request.
LEMMA CommitType ==
  ASSUME TypeOK, NEW q \in Requests, Commit(q)
  PROVE  TypeOK'
<1> USE DEF TypeOK, Place
<1>1. TraceOf(q) \in Traces
  BY BatchOf
<1>2. Upserted(traceRow[TraceOf(q)], q) \in TraceRow
  BY <1>1 DEF Upserted, TraceRow, StoreTypeOK
<1>3. traceRow' \in [Traces -> TraceRow \cup {None}]
  BY <1>2 DEF Commit, StoreTypeOK
<1>4. rows' \in [Keys -> Requests \cup {None}] /\ stored' \subseteq Requests
  BY DEF Commit, StoreTypeOK
<1>5. StoreTypeOK'
  BY <1>3, <1>4 DEF Commit, StoreTypeOK, TraceRow
<1> QED
  BY <1>5 DEF Commit, Goto, producer

\* Every step keeps the types.
LEMMA NextType == TypeOK /\ [Next]_vars => TypeOK'
<1> SUFFICES ASSUME TypeOK, [Next]_vars
             PROVE  TypeOK'
  OBVIOUS
<1> USE DEF TypeOK, Place
<1>1. CASE UNCHANGED vars
  BY <1>1 DEF vars, storeVars, tables, ingest, producer, StoreTypeOK, TraceRow
<1>2. ASSUME NEW q \in Requests, Post(q) \/ Upsert(q) \/ PublishRaises(q)
      PROVE  TypeOK'
  <2>1. CASE Post(q)
    BY <2>1 DEF Post, Goto, storeVars, tables, producer, StoreTypeOK, TraceRow
  <2>2. CASE Upsert(q)
    BY <2>2 DEF Upsert, Goto, storeVars, tables, producer, StoreTypeOK, TraceRow
  <2>3. CASE PublishRaises(q)
    BY <2>3 DEF PublishRaises, Goto, storeVars, tables, producer, StoreTypeOK, TraceRow
  <2> QED
    BY <1>2, <2>1, <2>2, <2>3
<1>3. ASSUME NEW q \in Requests, InsertEvent(q)
      PROVE  TypeOK'
  <2>1. NextKey(q) \in Keys
    BY <1>3, BatchOf DEF InsertEvent, Inserting, NextKey
  <2>2. Counted(counts[q], IsNew(q)) \in [accepted : Nat, duplicates : Nat]
    BY DEF Counted
  <2>3. open' \in [Requests -> SUBSET Keys] /\ next' \in [Requests -> Nat \ {0}]
        /\ \A r \in Requests : open'[r] # {} => pc[r] = "insert"
    BY <1>3, <2>1 DEF InsertEvent, Inserting
  <2>4. counts' \in [Requests -> [accepted : Nat, duplicates : Nat]]
    BY <1>3, <2>2 DEF InsertEvent
  <2>5. StoreTypeOK'
    BY <1>3 DEF InsertEvent, storeVars, tables, StoreTypeOK, TraceRow
  <2> QED
    BY <1>3, <2>3, <2>4, <2>5 DEF InsertEvent, producer
<1>4. ASSUME NEW q \in Requests, IngestRaises(q) \/ BreakDeadlock(q)
      PROVE  TypeOK'
  BY <1>4 DEF IngestRaises, BreakDeadlock, Rollback, storeVars, tables, producer, StoreTypeOK, TraceRow
<1>5. ASSUME NEW q \in Requests, Publish(q)
      PROVE  TypeOK'
  BY <1>5, AppendHas DEF Publish, Producer!Publish, Goto, storeVars, tables, StoreTypeOK, TraceRow
<1>6. ASSUME NEW q \in Requests, FlushReturns(q) \/ FlushRaises(q)
      PROVE  TypeOK'
  BY <1>6 DEF FlushReturns, FlushRaises, Producer!FlushReturns, Producer!FlushRaises, Goto,
              storeVars, tables, StoreTypeOK, TraceRow
<1>7. CASE Deliver \/ GiveUp
  <2>1. queue # <<>> /\ queue' = Tail(queue) /\ errors' \in BOOLEAN
    BY <1>7 DEF Deliver, GiveUp, Producer!Delivered, Producer!GivenUp
  <2>2. topic' \in Seq(Requests)
    <3>1. topic' = topic \/ topic' = Append(topic, Head(queue))
      BY <1>7 DEF Deliver, GiveUp, Storing
    <3>2. Head(queue) \in Requests /\ topic \in Seq(Requests)
      BY <2>1, TailHas DEF StoreTypeOK
    <3>3. Append(topic, Head(queue)) \in Seq(Requests)
      BY <3>2, AppendHas
    <3> QED
      BY <3>1, <3>2, <3>3
  <2>3. StoreTypeOK'
    BY <1>7, <2>2 DEF Deliver, GiveUp, tables, StoreTypeOK, TraceRow
  <2> QED
    BY <1>7, <2>1, <2>3, TailHas DEF Deliver, GiveUp, ingest
<1>8. CASE ApiCrash
  <2>1. queue' \in Seq(Requests) /\ errors' \in BOOLEAN
    BY <1>8, EmptySequence DEF ApiCrash, Producer!Lost
  <2>2. pc' \in [Requests -> Place] /\ open' = [q \in Requests |-> {}]
    BY <1>8 DEF ApiCrash
  <2> QED
    BY <1>8, <2>1, <2>2 DEF ApiCrash, storeVars, tables, StoreTypeOK, TraceRow
<1> QED
  BY <1>1, <1>2, <1>3, <1>4, <1>5, <1>6, <1>7, <1>8, CommitType DEF Next, Handle, Answer

-----------------------------------------------------------------------------
(***************************************************************************)
(* The tables.                                                             *)
(***************************************************************************)

\* What a step leaves alone when it touches neither rows nor counts.
SameRows == UNCHANGED <<batch, rows, stored, next, counts>>

\* What is said of rows and counts depends on them and on what is open.
LEMMA Reread ==
  ASSUME SameRows
  PROVE  /\ RowsAreStored' <=> RowsAreStored
         /\ CountsAreTrue' <=> CountsAreTrue
         /\ DuplicateIsStored' <=> DuplicateIsStored
         /\ \A q \in Requests : TraceOf(q)' = TraceOf(q) /\ KeysOf(q)' = KeysOf(q)
         /\ \A q \in Requests : open'[q] = open[q] => (Looped(q)' <=> Looped(q))
  BY DEF SameRows, RowsAreStored, CountsAreTrue, DuplicateIsStored, TraceOf, KeysOf,
         AddedBy, Looped

\* A request that is sent, or moves on after its commit, changes no table.
LEMMA MoveKeeps ==
  ASSUME TypeOK, TablesInv, NEW q \in Requests, NEW x, Goto(q, x), SameRows, open' = open,
         \/ pc[q] = "new" /\ x = "posted"
         \/ pc[q] \in {"publish", "flush"} /\ x \in AfterCommit
  PROVE  TablesInv'
<1> USE DEF Goto, TypeOK, AfterCommit
<1>1. Placed' /\ Fresh'
  BY DEF TablesInv, Placed, Fresh, SameRows
<1>2. Alone' /\ OpenApart'
  BY Reread DEF TablesInv, Alone, OpenApart, SameRows
<1>3. LoopedSoFar'
  BY Reread DEF TablesInv, LoopedSoFar
<1> QED
  BY <1>1, <1>2, <1>3, Reread DEF TablesInv

\* The upsert gets a lock that nobody holds; the loop starts with nothing done.
LEMMA UpsertKeeps ==
  ASSUME TypeOK, TablesInv, NEW q \in Requests, Upsert(q)
  PROVE  TablesInv'
<1> USE DEF Upsert, Goto, TypeOK, AfterCommit
<1>1. SameRows /\ open' = open
  BY DEF SameRows, storeVars, tables
<1>2. Placed' /\ Fresh'
  BY <1>1 DEF TablesInv, Placed, Fresh, SameRows
<1>3. Alone' /\ OpenApart'
  BY <1>1, Reread DEF TablesInv, Alone, OpenApart, SameRows, WaitsForTrace
<1>4. LoopedSoFar'
  <2>1. Looped(q)
    <3>1. next[q] = 1 /\ counts[q] = NoCounts /\ open[q] = {}
      BY DEF TablesInv, Fresh
    <3>2. Len(batch[q].keys) \in Nat \ {0}
      BY BatchOf
    <3> QED
      BY <3>1, <3>2, FS_EmptySet DEF Looped, NoCounts
  <2> QED
    BY <1>1, <2>1, Reread DEF TablesInv, LoopedSoFar
<1> QED
  BY <1>1, <1>2, <1>3, <1>4, Reread DEF TablesInv

\* An inserted row was free and in no other transaction; it is counted as it is.
LEMMA InsertKeeps ==
  ASSUME TypeOK, TablesInv, NEW q \in Requests, InsertEvent(q)
  PROVE  TablesInv'
<1> DEFINE k == NextKey(q)
<1> USE DEF InsertEvent, Inserting, TypeOK
<1>1. /\ batch' = batch /\ rows' = rows /\ stored' = stored /\ pc' = pc
      /\ pc[q] = "insert" /\ next[q] \in 1..Len(batch[q].keys)
      /\ Len(batch[q].keys) \in Nat
  BY BatchOf DEF storeVars, tables
<1>2. k = batch[q].keys[next[q]] /\ k \in KeysOf(q) /\ k \in Keys
  BY <1>1, BatchOf DEF NextKey
<1>3. \A p \in Requests : TraceOf(p)' = TraceOf(p) /\ KeysOf(p)' = KeysOf(p)
  BY <1>1 DEF TraceOf, KeysOf
<1>4. \A p \in Requests : p # q => open'[p] = open[p] /\ next'[p] = next[p] /\ counts'[p] = counts[p]
  OBVIOUS
<1>5. /\ next'[q] = next[q] + 1
      /\ open'[q] = IF IsNew(q) THEN open[q] \cup {k} ELSE open[q]
      /\ counts'[q] = Counted(counts[q], IsNew(q))
  OBVIOUS
<1>6. k \notin open[q] => \A p \in Requests : k \notin open[p]
  BY DEF WaitsForKey
<1>7. Placed' /\ Fresh' /\ Alone' /\ RowsAreStored'
  BY <1>1, <1>3, <1>4 DEF TablesInv, Placed, Fresh, Alone, RowsAreStored
<1>8. OpenApart'
  <2> SUFFICES ASSUME NEW p \in Requests, NEW j \in open'[p]
               PROVE  /\ rows[j] = None
                      /\ j \in KeysOf(p)
                      /\ \A r \in Requests : j \in open'[r] => r = p
    BY <1>1, <1>3 DEF OpenApart
  <2>1. CASE j \in open[p]
    BY <2>1, <1>4, <1>5, <1>6 DEF TablesInv, OpenApart, IsNew
  <2>2. CASE j \notin open[p]
    <3>1. p = q
      BY <2>2, <1>4
    <3>2. j \in open'[q] /\ j \notin open[q]
      BY <2>2, <3>1
    <3>3. j = k /\ IsNew(q)
      BY <3>2, <1>5
    <3> QED
      BY <3>1, <3>3, <1>2, <1>4, <1>6 DEF IsNew
  <2> QED
    BY <2>1, <2>2
<1>9. LoopedSoFar'
  <2>1. ASSUME NEW p \in Requests, p # q, pc[p] = "insert"
        PROVE  Looped(p)'
    BY <1>1, <1>4, <2>1 DEF TablesInv, LoopedSoFar, Looped
  <2>2. Looped(q)
    BY <1>1 DEF TablesInv, LoopedSoFar
  <2>3. /\ IsFiniteSet(open'[q])
        /\ counts'[q].accepted = Cardinality(open'[q])
        /\ counts'[q].accepted + counts'[q].duplicates = counts[q].accepted + counts[q].duplicates + 1
    <3>1. counts[q] \in [accepted : Nat, duplicates : Nat]
      OBVIOUS
    <3>2. CASE IsNew(q)
      <4>1. open'[q] = open[q] \cup {k} /\ k \notin open[q] /\ IsFiniteSet(open[q])
        BY <3>2, <2>2, <1>5 DEF IsNew, Looped
      <4>2. IsFiniteSet(open'[q]) /\ Cardinality(open'[q]) = Cardinality(open[q]) + 1
        BY <4>1, FS_AddElement
      <4>3. /\ counts'[q].accepted = counts[q].accepted + 1
            /\ counts'[q].duplicates = counts[q].duplicates
        BY <3>1, <3>2, <1>5 DEF Counted
      <4> QED
        BY <3>1, <4>2, <4>3, <2>2 DEF Looped
    <3>3. CASE ~IsNew(q)
      BY <3>1, <3>3, <2>2, <1>5 DEF Counted, Looped
    <3> QED
      BY <3>2, <3>3
  <2>4. \A i \in 1..(next'[q] - 1) :
          rows'[batch'[q].keys[i]] # None \/ batch'[q].keys[i] \in open'[q]
    <3> SUFFICES ASSUME NEW i \in 1..next[q]
                 PROVE  rows[batch[q].keys[i]] # None \/ batch[q].keys[i] \in open'[q]
      BY <1>1, <1>5
    <3>1. CASE i = next[q]
      BY <3>1, <1>2, <1>5 DEF IsNew
    <3>2. CASE i # next[q]
      <4>1. i \in 1..(next[q] - 1)
        BY <3>2
      <4> QED
        BY <4>1, <2>2, <1>5 DEF Looped
    <3> QED
      BY <3>1, <3>2
  <2>5. Looped(q)'
    BY <1>1, <1>5, <2>2, <2>3, <2>4 DEF Looped
  <2> QED
    BY <1>1, <2>1, <2>5 DEF LoopedSoFar
<1>10. CountsAreTrue' /\ DuplicateIsStored'
  <2>1. q \notin stored
    BY <1>1 DEF TablesInv, Placed, AfterCommit
  <2>2. stored \subseteq Requests /\ \A p : AddedBy(p)' = AddedBy(p)
    BY <1>1 DEF StoreTypeOK, AddedBy
  <2>3. \A p \in stored : counts'[p] = counts[p] /\ KeysOf(p)' = KeysOf(p)
    BY <2>1, <2>2, <1>3, <1>4
  <2>4. CountsAreTrue'
    BY <2>2, <2>3, <1>1 DEF TablesInv, CountsAreTrue
  <2> QED
    BY <2>3, <2>4, <1>1 DEF TablesInv, DuplicateIsStored
<1> QED
  BY <1>7, <1>8, <1>9, <1>10 DEF TablesInv

\* At its end the loop has inserted the keys of the batch that were free.
LEMMA CommitInserts ==
  ASSUME TypeOK, TablesInv, NEW q \in Requests, Commit(q)
  PROVE  /\ open[q] = {k \in KeysOf(q) : rows[k] = None}
         /\ rows' = Inserted(q)
         /\ q \notin stored
         /\ counts[q].accepted + counts[q].duplicates = Len(batch[q].keys)
<1> USE DEF Commit, Inserting
<1>1. pc[q] = "insert" /\ next[q] > Len(batch[q].keys) /\ Looped(q)
  BY BatchOf DEF TablesInv, LoopedSoFar, TypeOK
<1>2. next[q] = Len(batch[q].keys) + 1
  BY <1>1, BatchOf DEF Looped, TypeOK
<1>3. \A k \in KeysOf(q) : rows[k] # None \/ k \in open[q]
  <2>1. next[q] - 1 = Len(batch[q].keys)
    BY <1>2, BatchOf DEF TypeOK
  <2>2. \A i \in 1..Len(batch[q].keys) :
          rows[batch[q].keys[i]] # None \/ batch[q].keys[i] \in open[q]
    BY <1>1, <2>1 DEF Looped
  <2>3. KeysOf(q) = {batch[q].keys[i] : i \in 1..Len(batch[q].keys)}
    BY BatchOf DEF TypeOK
  <2> QED
    BY <2>2, <2>3
<1>4. open[q] = {k \in KeysOf(q) : rows[k] = None}
  BY <1>3 DEF TablesInv, OpenApart
<1>5. rows' = Inserted(q)
  BY <1>4 DEF Inserted
<1> QED
  BY <1>1, <1>2, <1>4, <1>5, BatchOf DEF TablesInv, Placed, AfterCommit, Looped

\* The commit makes the inserted rows visible and disturbs no other transaction.
LEMMA CommitKeeps ==
  ASSUME TypeOK, TablesInv, NEW q \in Requests, Commit(q)
  PROVE  TablesInv'
<1> USE DEF TypeOK
<1>1. /\ batch' = batch /\ next' = next /\ counts' = counts
      /\ pc[q] = "insert" /\ pc' = [pc EXCEPT ![q] = "publish"]
      /\ stored' = stored \cup {q}
      /\ open' = [open EXCEPT ![q] = {}]
      /\ rows' = [k \in Keys |-> IF k \in open[q] THEN q ELSE rows[k]]
      /\ rows \in [Keys -> Requests \cup {None}] /\ stored \subseteq Requests
  BY DEF Commit, Goto, StoreTypeOK
<1>2. \A p : TraceOf(p)' = TraceOf(p) /\ KeysOf(p)' = KeysOf(p)
  BY <1>1 DEF TraceOf, KeysOf
<1>3. \A p \in Requests : p # q => open'[p] = open[p] /\ pc'[p] = pc[p]
  BY <1>1
<1>4. Placed' /\ Fresh' /\ Alone'
  BY <1>1, <1>2 DEF TablesInv, Placed, Fresh, Alone, AfterCommit
<1>5. OpenApart'
  <2> SUFFICES ASSUME NEW p \in Requests, NEW k \in open'[p]
               PROVE  /\ rows'[k] = None
                      /\ k \in KeysOf(p)
                      /\ \A r \in Requests : k \in open'[r] => r = p
    BY <1>2 DEF OpenApart
  <2>1. p # q /\ k \in open[p] /\ k \in Keys
    BY <1>1, <1>3
  <2>2. rows[k] = None /\ k \in KeysOf(p) /\ \A r \in Requests : k \in open[r] => r = p
    BY <2>1 DEF TablesInv, OpenApart
  <2>3. k \notin open[q]
    BY <2>1, <2>2
  <2>4. \A r \in Requests : k \in open'[r] => k \in open[r]
    BY <1>1, <1>3
  <2> QED
    BY <1>1, <2>1, <2>2, <2>3, <2>4
<1>6. \A k \in Keys : rows[k] # None => rows'[k] # None
  BY <1>1, NoneAssumption
<1>7. LoopedSoFar'
  <2> SUFFICES ASSUME NEW p \in Requests, pc'[p] = "insert"
               PROVE  Looped(p)'
    BY DEF LoopedSoFar
  <2>1. p # q /\ open'[p] = open[p] /\ Looped(p)
    BY <1>1, <1>3 DEF TablesInv, LoopedSoFar
  <2>2. \A i \in 1..(next[p] - 1) : batch[p].keys[i] \in Keys
    BY <2>1, BatchOf DEF Looped
  <2> QED
    BY <1>1, <1>6, <2>1, <2>2 DEF Looped
<1>8. RowsAreStored'
  BY <1>1 DEF TablesInv, RowsAreStored
<1>9. CountsAreTrue'
  <2>1. AddedBy(q)' = open[q]
    <3>1. \A k \in Keys : rows[k] # q
      BY <1>1, NoneAssumption DEF TablesInv, Placed, RowsAreStored, AfterCommit
    <3> QED
      BY <1>1, <3>1 DEF AddedBy
  <2>2. \A p \in stored : AddedBy(p)' = AddedBy(p)
    <3> SUFFICES ASSUME NEW p \in stored
                 PROVE  AddedBy(p)' = AddedBy(p)
      OBVIOUS
    <3>1. p # q /\ p # None
      BY <1>1, NoneAssumption DEF TablesInv, Placed, AfterCommit
    <3>2. \A k \in open[q] : rows[k] # p
      BY <3>1 DEF TablesInv, OpenApart
    <3> QED
      BY <1>1, <3>1, <3>2 DEF AddedBy
  <2>3. counts[q].accepted = Cardinality(open[q])
    BY <1>1 DEF TablesInv, LoopedSoFar, Looped
  <2> QED
    BY <1>1, <2>1, <2>2, <2>3, CommitInserts DEF TablesInv, CountsAreTrue
<1>10. DuplicateIsStored'
  <2>1. \A k \in KeysOf(q) : rows'[k] # None
    <3>1. KeysOf(q) \subseteq Keys
      BY BatchOf
    <3>2. \A k \in KeysOf(q) : rows[k] # None \/ k \in open[q]
      BY CommitInserts
    <3> QED
      BY <1>1, <1>6, <3>1, <3>2, NoneAssumption
  <2>2. \A p \in stored : KeysOf(p) \subseteq Keys
    BY <1>1, BatchOf
  <2> QED
    BY <1>1, <1>2, <1>6, <2>1, <2>2 DEF TablesInv, DuplicateIsStored
<1> QED
  BY <1>4, <1>5, <1>7, <1>8, <1>9, <1>10 DEF TablesInv

\* What is not committed goes away and was nobody's business.
LEMMA ShrinkKeeps ==
  ASSUME TypeOK, TablesInv, SameRows, pc' \in [Requests -> Place],
         \A q \in Requests :
           /\ open'[q] \subseteq open[q]
           /\ pc'[q] \in {"new", "posted", "insert"} => pc'[q] = pc[q] /\ open'[q] = open[q]
           /\ pc'[q] \in AfterCommit <=> pc[q] \in AfterCommit
  PROVE  TablesInv'
<1> USE DEF TypeOK
<1>1. Placed' /\ Fresh'
  BY DEF TablesInv, Placed, Fresh, SameRows
<1>2. Alone' /\ OpenApart'
  BY Reread DEF TablesInv, Alone, OpenApart, SameRows
<1>3. LoopedSoFar'
  BY Reread DEF TablesInv, LoopedSoFar
<1> QED
  BY <1>1, <1>2, <1>3, Reread DEF TablesInv

\* A transaction that waits is under way.
LEMMA WaitingIsOpen ==
  ASSUME NEW D \in SUBSET Requests, Cycle(D), NEW q \in D
  PROVE  pc[q] \in {"posted", "insert"}
  BY DEF Cycle, WaitsFor, WaitsForTrace, WaitsForKey, Inserting

\* Every step keeps the tables' invariant.
LEMMA NextTables == TypeOK /\ TypeOK' /\ TablesInv /\ [Next]_vars => TablesInv'
<1> SUFFICES ASSUME TypeOK, TypeOK', TablesInv, [Next]_vars
             PROVE  TablesInv'
  OBVIOUS
<1> USE DEF storeVars, tables, ingest, SameRows
<1>1. CASE UNCHANGED vars
  BY <1>1, ShrinkKeeps DEF vars, TypeOK
<1>2. ASSUME NEW q \in Requests, Post(q)
      PROVE  TablesInv'
  BY <1>2, MoveKeeps DEF Post
<1>3. ASSUME NEW q \in Requests, Publish(q)
      PROVE  TablesInv'
  BY <1>3, MoveKeeps DEF Publish, AfterCommit
<1>4. ASSUME NEW q \in Requests, PublishRaises(q)
      PROVE  TablesInv'
  BY <1>4, MoveKeeps DEF PublishRaises, AfterCommit
<1>5. ASSUME NEW q \in Requests, FlushReturns(q) \/ FlushRaises(q)
      PROVE  TablesInv'
  BY <1>5, MoveKeeps DEF FlushReturns, FlushRaises, AfterCommit
<1>6. ASSUME NEW q \in Requests, IngestRaises(q) \/ BreakDeadlock(q)
      PROVE  TablesInv'
  <2>1. pc[q] \in {"posted", "insert"}
    BY <1>6, WaitingIsOpen DEF IngestRaises, BreakDeadlock
  <2>2. SameRows /\ Rollback(q)
    BY <1>6 DEF IngestRaises, BreakDeadlock
  <2>3. \A p \in Requests :
          /\ open'[p] \subseteq open[p]
          /\ pc'[p] \in {"new", "posted", "insert"} => pc'[p] = pc[p] /\ open'[p] = open[p]
          /\ pc'[p] \in AfterCommit <=> pc[p] \in AfterCommit
    BY <2>1, <2>2 DEF Rollback, AfterCommit, TypeOK
  <2> QED
    BY <2>2, <2>3, ShrinkKeeps DEF TypeOK
<1>7. CASE Deliver \/ GiveUp
  BY <1>7, ShrinkKeeps DEF Deliver, GiveUp, TypeOK
<1>8. CASE ApiCrash
  <2>1. \A p \in Requests :
          /\ open'[p] \subseteq open[p]
          /\ pc'[p] \in {"new", "posted", "insert"} => pc'[p] = pc[p] /\ open'[p] = open[p]
          /\ pc'[p] \in AfterCommit <=> pc[p] \in AfterCommit
    BY <1>8 DEF ApiCrash, AfterCommit, TypeOK
  <2> QED
    BY <1>8, <2>1, ShrinkKeeps DEF ApiCrash, TypeOK
<1> QED
  BY <1>1, <1>2, <1>3, <1>4, <1>5, <1>6, <1>7, <1>8, UpsertKeeps, InsertKeeps, CommitKeeps
     DEF Next, Handle, Answer

-----------------------------------------------------------------------------
(***************************************************************************)
(* The producer and the topic.                                             *)
(***************************************************************************)

\* What is said of a request's announcement depends on the queue and the topic.
LEMMA SameAnnouncements ==
  ASSUME queue' = queue, topic' = topic, NEW q
  PROVE  (InQueue(q)' <=> InQueue(q)) /\ (Announced(q)' <=> Announced(q))
  BY DEF InQueue, Announced

\* A step that leaves queue, topic and stored batches alone, and starts neither
\* a publish nor a flush nor an answer 202.
LEMMA QuietKeeps ==
  ASSUME TypeOK, QueueInv, UNCHANGED <<queue, errors, topic>>, stored \subseteq stored',
         \A q \in Requests :
           /\ pc'[q] \in {"flush", "accepted"} => pc'[q] = pc[q]
           /\ pc'[q] = "publish" => pc[q] = "publish" \/ q \notin stored
  PROVE  QueueInv'
<1>1. \A q : (InQueue(q)' <=> InQueue(q)) /\ (Announced(q)' <=> Announced(q))
  BY SameAnnouncements
<1>2. \A k \in 1..Len(queue) : queue[k] \in Requests
  BY DEF TypeOK
<1>3. OneFlushes' /\ AnnouncedIsStored' /\ Flushed' /\ AcceptedIsAnnounced'
  BY <1>1 DEF QueueInv, OneFlushes, AnnouncedIsStored, Flushed, AcceptedIsAnnounced
<1>4. QueuedOnce'
  BY <1>1 DEF QueueInv, QueuedOnce
<1>5. Unsent'
  <2> SUFFICES ASSUME NEW q \in Requests, pc'[q] = "publish"
               PROVE  ~InQueue(q) /\ ~Announced(q)
    BY <1>1 DEF Unsent
  <2>1. CASE pc[q] = "publish"
    BY <2>1 DEF QueueInv, Unsent
  <2>2. CASE q \notin stored
    BY <2>2 DEF QueueInv, AnnouncedIsStored, QueuedOnce, InQueue
  <2> QED
    BY <2>1, <2>2
<1> QED
  BY <1>3, <1>4, <1>5 DEF QueueInv

\* The announcement goes to the end of the queue.
LEMMA PublishKeeps ==
  ASSUME TypeOK, Placed, QueueInv, NEW q \in Requests, Publish(q)
  PROVE  QueueInv'
<1>1. /\ pc[q] = "publish" /\ pc' = [pc EXCEPT ![q] = "flush"]
      /\ \A p \in Requests : pc[p] # "flush"
      /\ queue' = Append(queue, q) /\ errors' = errors /\ topic' = topic /\ stored' = stored
  BY DEF Publish, Producer!Publish, Goto, storeVars, tables
<1>2. pc \in [Requests -> Place] /\ queue \in Seq(Requests)
  BY DEF TypeOK
<1>3. /\ Len(queue) \in Nat /\ Len(queue') = Len(queue) + 1
      /\ \A k \in 1..Len(queue) : queue'[k] = queue[k]
      /\ queue'[Len(queue) + 1] = q
  BY <1>1, <1>2, AppendHas
<1>4. \A p : Announced(p)' <=> Announced(p)
  BY <1>1 DEF Announced
<1>5. \A p : InQueue(p)' <=> InQueue(p) \/ p = q
  <2>1. \A k \in 1..Len(queue') : k \in 1..Len(queue) \/ k = Len(queue) + 1
    BY <1>3
  <2>2. \A k \in 1..Len(queue) : k \in 1..Len(queue')
    BY <1>3
  <2>3. Len(queue) + 1 \in 1..Len(queue')
    BY <1>3
  <2> QED
    BY <1>3, <2>1, <2>2, <2>3 DEF InQueue
<1>6. q \in stored /\ ~InQueue(q) /\ ~Announced(q)
  BY <1>1 DEF Placed, AfterCommit, QueueInv, Unsent
<1>7. OneFlushes' /\ AnnouncedIsStored' /\ AcceptedIsAnnounced' /\ Unsent' /\ Flushed'
  BY <1>1, <1>2, <1>4, <1>5
     DEF QueueInv, OneFlushes, AnnouncedIsStored, AcceptedIsAnnounced, Unsent, Flushed
<1>8. QueuedOnce'
  <2> SUFFICES ASSUME NEW k \in 1..Len(queue')
               PROVE  /\ queue'[k] \in stored
                      /\ ~Announced(queue'[k])
                      /\ \A j \in 1..Len(queue') : queue'[j] = queue'[k] => j = k
    BY <1>1, <1>4 DEF QueuedOnce
  <2>1. \A j \in 1..Len(queue') : j \in 1..Len(queue) \/ j = Len(queue) + 1
    BY <1>3
  <2>2. \A j \in 1..Len(queue) : queue[j] # q
    BY <1>6 DEF InQueue
  <2> QED
    BY <1>3, <1>6, <2>1, <2>2 DEF QueueInv, QueuedOnce
<1> QED
  BY <1>7, <1>8 DEF QueueInv

\* flush returns only when the announcement has left without an error.
LEMMA AnswerKeeps ==
  ASSUME TypeOK, QueueInv, NEW q \in Requests, Answer(q)
  PROVE  QueueInv'
<1>1. /\ pc[q] = "flush" /\ topic' = topic /\ stored' = stored /\ queue' = queue
      /\ \/ pc' = [pc EXCEPT ![q] = "accepted"] /\ queue = <<>> /\ ~errors
         \/ pc' = [pc EXCEPT ![q] = "failed"]
  BY DEF Answer, FlushReturns, FlushRaises, Producer!FlushReturns, Producer!FlushRaises, Goto,
         storeVars, tables
<1>2. \A p : (InQueue(p)' <=> InQueue(p)) /\ (Announced(p)' <=> Announced(p))
  BY <1>1, SameAnnouncements
<1>3. pc \in [Requests -> Place]
  BY DEF TypeOK
<1>4. \A p \in Requests : pc'[p] # "flush"
  BY <1>1, <1>3 DEF QueueInv, OneFlushes
<1>5. queue = <<>> => ~InQueue(q)
  BY DEF InQueue
<1>6. pc'[q] = "accepted" => Announced(q)
  BY <1>1, <1>3, <1>5 DEF QueueInv, Flushed
<1>7. QueuedOnce' /\ AnnouncedIsStored' /\ OneFlushes' /\ Flushed'
  BY <1>1, <1>2, <1>4 DEF QueueInv, QueuedOnce, AnnouncedIsStored, OneFlushes, Flushed
<1>8. Unsent' /\ AcceptedIsAnnounced'
  BY <1>1, <1>2, <1>3, <1>6 DEF QueueInv, Unsent, AcceptedIsAnnounced
<1> QED
  BY <1>7, <1>8 DEF QueueInv

\* The first message leaves the queue, for the topic or with an error.
LEMMA DepartureKeeps ==
  ASSUME TypeOK, QueueInv, Deliver \/ GiveUp
  PROVE  QueueInv'
<1> PICK h : h = Head(queue)
  OBVIOUS
<1>1. /\ queue # <<>> /\ queue' = Tail(queue) /\ stored' = stored /\ pc' = pc
      /\ topic' = Append(topic, h) \/ (topic' = topic /\ errors')
      /\ errors => errors'
  BY DEF Deliver, GiveUp, Producer!Delivered, Producer!GivenUp, Storing, tables, ingest
<1>2. /\ h \in Requests /\ h = queue[1]
      /\ Len(queue) \in Nat \ {0} /\ Len(queue') = Len(queue) - 1
      /\ \A k \in 1..(Len(queue) - 1) : queue'[k] = queue[k + 1]
  BY <1>1, TailHas DEF TypeOK
<1>3. \A k \in 1..Len(queue') : k + 1 \in 1..Len(queue) /\ queue'[k] = queue[k + 1]
  BY <1>2
<1>4. \A k \in 1..Len(queue) : k = 1 \/ (k - 1 \in 1..Len(queue') /\ queue'[k - 1] = queue[k])
  BY <1>2
<1>5. \A p : InQueue(p) => p = h \/ InQueue(p)'
  BY <1>2, <1>4 DEF InQueue
<1>6. \A p : InQueue(p)' => InQueue(p)
  BY <1>3 DEF InQueue
<1>7. \A p : (Announced(p) => Announced(p)') /\ (Announced(p)' => Announced(p) \/ p = h)
  <2>1. CASE topic' = topic
    BY <2>1 DEF Announced
  <2>2. CASE topic' = Append(topic, h)
    <3>1. topic \in Seq(Requests)
      BY DEF TypeOK, StoreTypeOK
    <3>2. /\ Len(topic) \in Nat /\ Len(topic') = Len(topic) + 1
          /\ \A k \in 1..Len(topic) : topic'[k] = topic[k]
          /\ topic'[Len(topic) + 1] = h
      BY <1>2, <2>2, <3>1, AppendHas
    <3>3. \A k \in 1..Len(topic') : k \in 1..Len(topic) \/ k = Len(topic) + 1
      BY <3>2
    <3>4. \A k \in 1..Len(topic) : k \in 1..Len(topic')
      BY <3>2
    <3> QED
      BY <3>2, <3>3, <3>4 DEF Announced
  <2> QED
    BY <1>1, <2>1, <2>2
<1>8. errors' \/ Announced(h)'
  <2>1. CASE topic' = Append(topic, h)
    <3>1. topic \in Seq(Requests)
      BY DEF TypeOK, StoreTypeOK
    <3>2. Len(topic) + 1 \in 1..Len(topic') /\ topic'[Len(topic) + 1] = h
      BY <1>2, <2>1, <3>1, AppendHas
    <3> QED
      BY <3>2 DEF Announced
  <2> QED
    BY <1>1, <2>1
<1>9. h \in stored
  BY <1>2 DEF QueueInv, QueuedOnce
<1>10. OneFlushes' /\ AnnouncedIsStored' /\ AcceptedIsAnnounced'
  BY <1>1, <1>7, <1>9 DEF QueueInv, OneFlushes, AnnouncedIsStored, AcceptedIsAnnounced
<1>11. Flushed'
  BY <1>1, <1>5, <1>7, <1>8 DEF QueueInv, Flushed
<1>12. Unsent'
  <2>1. InQueue(h)
    BY <1>2 DEF InQueue
  <2> QED
    BY <1>1, <1>6, <1>7, <2>1 DEF QueueInv, Unsent
<1>13. QueuedOnce'
  <2> SUFFICES ASSUME NEW k \in 1..Len(queue')
               PROVE  /\ queue'[k] \in stored
                      /\ \A r : r = queue'[k] => ~Announced(r)'
                      /\ \A j \in 1..Len(queue') : queue'[j] = queue'[k] => j = k
    BY <1>1 DEF QueuedOnce, Announced
  <2>1. k + 1 \in 1..Len(queue) /\ queue'[k] = queue[k + 1] /\ k \in Nat \ {0}
    BY <1>3, <1>2
  <2>2. queue[k + 1] \in stored /\ ~Announced(queue[k + 1])
    BY <2>1 DEF QueueInv, QueuedOnce
  <2>3. queue[k + 1] # h
    BY <1>2, <2>1 DEF QueueInv, QueuedOnce
  <2>4. \A j \in 1..Len(queue') : queue'[j] = queue'[k] => j = k
    <3> SUFFICES ASSUME NEW j \in 1..Len(queue'), queue'[j] = queue'[k]
                 PROVE  j = k
      OBVIOUS
    <3>1. j + 1 \in 1..Len(queue) /\ queue[j + 1] = queue[k + 1] /\ j \in Nat
      BY <1>3, <2>1
    <3>2. j + 1 = k + 1
      BY <2>1, <3>1 DEF QueueInv, QueuedOnce
    <3> QED
      BY <2>1, <3>1, <3>2
  <2> QED
    BY <1>7, <2>1, <2>2, <2>3, <2>4
<1> QED
  BY <1>10, <1>11, <1>12, <1>13 DEF QueueInv

\* The crash empties the queue and ends every request that was under way.
LEMMA CrashKeepsQueue ==
  ASSUME TypeOK, QueueInv, ApiCrash
  PROVE  QueueInv'
<1>1. /\ queue' = <<>> /\ topic' = topic /\ stored' = stored
      /\ \A q \in Requests : /\ pc'[q] \notin {"publish", "flush"}
                             /\ pc'[q] = "accepted" => pc[q] = "accepted"
  BY DEF ApiCrash, Producer!Lost, storeVars, tables
<1>2. \A p : Announced(p)' <=> Announced(p)
  BY <1>1 DEF Announced
<1>3. QueuedOnce'
  BY <1>1 DEF QueuedOnce
<1> QED
  BY <1>1, <1>2, <1>3
     DEF QueueInv, OneFlushes, AnnouncedIsStored, Unsent, Flushed, AcceptedIsAnnounced

\* Every step keeps the queue's invariant.
LEMMA NextQueue == TypeOK /\ TypeOK' /\ TablesInv /\ QueueInv /\ [Next]_vars => QueueInv'
<1> SUFFICES ASSUME TypeOK, TypeOK', TablesInv, QueueInv, [Next]_vars
             PROVE  QueueInv'
  OBVIOUS
<1> USE DEF storeVars, tables, ingest, producer
<1>1. CASE UNCHANGED vars
  BY <1>1, QuietKeeps DEF vars
<1>2. ASSUME NEW q \in Requests, Post(q) \/ Upsert(q) \/ PublishRaises(q)
      PROVE  QueueInv'
  BY <1>2, QuietKeeps DEF Post, Upsert, PublishRaises, Goto, TypeOK
<1>3. ASSUME NEW q \in Requests, InsertEvent(q)
      PROVE  QueueInv'
  BY <1>3, QuietKeeps DEF InsertEvent
<1>4. ASSUME NEW q \in Requests, Commit(q)
      PROVE  QueueInv'
  <2>1. q \notin stored
    BY <1>4 DEF Commit, TablesInv, Placed, AfterCommit
  <2> QED
    BY <1>4, <2>1, QuietKeeps DEF Commit, Goto, TypeOK
<1>5. ASSUME NEW q \in Requests, IngestRaises(q) \/ BreakDeadlock(q)
      PROVE  QueueInv'
  BY <1>5, QuietKeeps DEF IngestRaises, BreakDeadlock, Rollback, TypeOK
<1>6. ASSUME NEW q \in Requests, Publish(q)
      PROVE  QueueInv'
  BY <1>6, PublishKeeps DEF TablesInv
<1> QED
  BY <1>1, <1>2, <1>3, <1>4, <1>5, <1>6, AnswerKeeps, DepartureKeeps, CrashKeepsQueue
     DEF Next, Handle

-----------------------------------------------------------------------------
(***************************************************************************)
(* The theorems.                                                           *)
(***************************************************************************)

\* Nothing is stored, queued or announced at first.
LEMMA InitIInv == Init => IInv
<1> SUFFICES ASSUME Init
             PROVE  IInv
  OBVIOUS
<1>1. TypeOK
  BY InitType
<1>2. TablesInv
  BY DEF Init, StoreInit, TablesInv, Placed, Fresh, Alone, OpenApart, LoopedSoFar, RowsAreStored,
         CountsAreTrue, DuplicateIsStored, AfterCommit
<1>3. QueueInv
  BY DEF Init, StoreInit, Producer!Init, QueueInv, OneFlushes, QueuedOnce, AnnouncedIsStored,
         Unsent, Flushed, AcceptedIsAnnounced, Announced
<1> QED
  BY <1>1, <1>2, <1>3 DEF IInv

\* Every step keeps the invariant.
LEMMA NextIInv == IInv /\ [Next]_vars => IInv'
  BY NextType, NextTables, NextQueue DEF IInv

LEMMA SpecIInv == Spec => []IInv
  BY InitIInv, NextIInv, PTL DEF Spec

\* The variables of ingest, database and producer have their types, and only a
\* transaction in its for loop has rows inserted and not committed.
THEOREM IngestTypeCorrect == Spec => []TypeOK
  BY SpecIInv, PTL DEF IInv

\* accepted and duplicates_ignored of a committed request are true.
THEOREM CountsStayTrue == Spec => []CountsAreTrue
  BY SpecIInv, PTL DEF IInv, TablesInv

\* What a committed request ignored as a duplicate is a committed row.
THEOREM DuplicatesAreStored == Spec => []DuplicateIsStored
  BY SpecIInv, PTL DEF IInv, TablesInv

\* A 202 means that the batch is announced.
THEOREM AcceptedMeansAnnounced == Spec => []AcceptedIsAnnounced
  BY SpecIInv, PTL DEF IInv, QueueInv

\* In a cycle each request is waited for, so it is in its loop and holds the lock
\* of its trace alone.
LEMMA CycleSpansTraces == IInv => DeadlockSpansTraces
<1> SUFFICES ASSUME IInv, NEW D \in SUBSET Requests, Cycle(D),
                    NEW p \in D, NEW q \in D, TraceOf(p) = TraceOf(q)
             PROVE  p = q
  BY DEF DeadlockSpansTraces
<1>1. ASSUME NEW r \in D
      PROVE  pc[r] = "insert"
  <2>1. PICK o \in D : WaitsForTrace(o, r) \/ WaitsForKey(o, r)
    BY DEF Cycle, WaitsFor
  <2> QED
    BY <2>1 DEF WaitsForTrace, WaitsForKey, IInv, TypeOK
<1> QED
  BY <1>1 DEF IInv, TablesInv, Alone

\* Requests that deadlock are for different traces.
THEOREM DeadlocksSpanTraces == Spec => []DeadlockSpansTraces
  BY SpecIInv, CycleSpansTraces, PTL

\* Every step of ingest is a batch stored whole, an announcement of a stored
\* batch, or nothing that a reader of tables and topic sees.
LEMMA StepImplements == IInv /\ [Next]_vars => [StoreNext]_storeVars
<1> SUFFICES ASSUME IInv, [Next]_vars
             PROVE  [StoreNext]_storeVars
  OBVIOUS
<1>1. CASE UNCHANGED vars
  BY <1>1 DEF vars
<1>2. ASSUME NEW q \in Requests, Post(q) \/ IngestRaises(q) \/ BreakDeadlock(q) \/ PublishRaises(q)
                                 \/ Answer(q)
      PROVE  UNCHANGED storeVars
  BY <1>2 DEF Post, IngestRaises, BreakDeadlock, PublishRaises, Answer, FlushReturns, FlushRaises
<1>3. ASSUME NEW q \in Requests, Upsert(q) \/ InsertEvent(q) \/ Publish(q)
      PROVE  UNCHANGED storeVars
  BY <1>3 DEF Upsert, InsertEvent, Publish
<1>4. ASSUME NEW q \in Requests, Commit(q)
      PROVE  StoreBatch(q)
  BY <1>4, CommitInserts DEF IInv, Commit, StoreBatch
<1>5. CASE Deliver \/ GiveUp
  <2>1. queue # <<>>
    BY <1>5 DEF Deliver, GiveUp, Producer!Delivered, Producer!GivenUp
  <2>2. /\ Head(queue) \in Requests /\ Head(queue) = queue[1]
        /\ 1 \in 1..Len(queue)
    BY <2>1, TailHas DEF IInv, TypeOK
  <2>3. Head(queue) \in stored /\ ~Announced(Head(queue))
    BY <2>2 DEF IInv, QueueInv, QueuedOnce
  <2>4. CASE Storing
    BY <1>5, <2>2, <2>3, <2>4 DEF Deliver, GiveUp, Storing, Announce, StoreNext
  <2>5. CASE UNCHANGED topic
    BY <1>5, <2>5 DEF Deliver, GiveUp, storeVars
  <2> QED
    BY <1>5, <2>4, <2>5 DEF Deliver, GiveUp
<1>6. CASE ApiCrash
  BY <1>6 DEF ApiCrash
<1> QED
  BY <1>1, <1>2, <1>3, <1>4, <1>5, <1>6 DEF Next, Handle, StoreNext

\* Concurrent requests with everything that can fail implement TraceStore.
THEOREM ImplementsStore == Spec => RefinesStore
<1>1. Init => StoreInit
  BY DEF Init
<1> QED
  BY <1>1, SpecIInv, StepImplements, PTL DEF Spec, RefinesStore, StoreSpec
=============================================================================
