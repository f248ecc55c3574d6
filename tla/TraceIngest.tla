---------------------------- MODULE TraceIngest ----------------------------
(***************************************************************************)
(* POST /v1/traces/ingest: the handler ingest_trace of                     *)
(* api/services/trace_ingest.py, statement by statement, with requests     *)
(* running concurrently in the API process, the locks that PostgreSQL      *)
(* takes for them and the process's one producer.                          *)
(*                                                                         *)
(* The transaction isolation is READ COMMITTED.  The upsert of the trace   *)
(* locks its row until the transaction ends.  An insert that meets a key   *)
(* inserted by a transaction still open waits for it to end: a commit      *)
(* makes it a conflict and does nothing, a rollback lets it insert.        *)
(***************************************************************************)
EXTENDS TraceStore

VARIABLES
  pc,        \* pc[q]: how far request q has come
  next,      \* next[q]: position of the event of the for loop
  open,      \* open[q]: the keys q has inserted and not committed
  counts,    \* counts[q]: accepted and duplicates_ignored
  queue, errors  \* the API's producer

ingest == <<pc, next, open, counts>>
producer == <<queue, errors>>

vars == <<storeVars, ingest, producer>>

Producer == INSTANCE KafkaProducer

NoCounts == [accepted |-> 0, duplicates |-> 0]

Init ==
  /\ StoreInit
  /\ pc = [q \in Requests |-> "new"]
  /\ next = [q \in Requests |-> 1]
  /\ open = [q \in Requests |-> {}]
  /\ counts = [q \in Requests |-> NoCounts]
  /\ Producer!Init

-----------------------------------------------------------------------------
(***************************************************************************)
(* The place of a request:                                                 *)
(*   new       not sent                                                    *)
(*   posted    about to upsert the trace                                   *)
(*   insert    holding the lock of the trace's row, in the for loop        *)
(*   publish   committed, about to publish                                 *)
(*   flush     in producer.flush                                           *)
(*   accepted  answered 202                                                *)
(*   failed    committed, but answered 500 or not at all                   *)
(*   rejected  rolled back, answered 500 or not at all                     *)
(***************************************************************************)
Goto(q, place) == pc' = [pc EXCEPT ![q] = place]

\* q waits for the row of its trace, which p has locked.
WaitsForTrace(q, p) == pc[q] = "posted" /\ pc[p] = "insert" /\ TraceOf(q) = TraceOf(p)

\* The key of the event whose insert comes next.
NextKey(q) == batch[q].keys[next[q]]

\* The for loop has an event left.
Inserting(q) == pc[q] = "insert" /\ next[q] <= Len(batch[q].keys)

\* q waits for p to commit or roll back the row with q's next key.
WaitsForKey(q, p) == q # p /\ Inserting(q) /\ NextKey(q) \in open[p]

WaitsFor(q, p) == WaitsForTrace(q, p) \/ WaitsForKey(q, p)

\* A cycle of waiting transactions; each waits for one lock with one holder.
Cycle(D) ==
  /\ D # {}
  /\ \A q \in D : \E p \in D : WaitsFor(q, p)
  /\ \A p \in D : \E q \in D : WaitsFor(q, p)

\* A client sends request q.
Post(q) ==
  /\ pc[q] = "new"
  /\ Goto(q, "posted")
  /\ UNCHANGED <<storeVars, next, open, counts, producer>>

\* ON CONFLICT DO NOTHING on the trace: an existing row is not locked.
UpsertWithoutLock(q) ==
  /\ pc[q] = "posted"
  /\ Goto(q, "insert")
  /\ UNCHANGED <<storeVars, next, open, counts, producer>>

\* The upsert of the trace gets the row's lock; its effect is seen at the commit.
Upsert(q) ==
  /\ pc[q] = "posted"
  /\ \A p \in Requests : ~WaitsForTrace(q, p)
  /\ Goto(q, "insert")
  /\ UNCHANGED <<storeVars, next, open, counts, producer>>

\* What RETURNING gives: a row when the key was free.
IsNew(q) == rows[NextKey(q)] = None /\ NextKey(q) \notin open[q]

Counted(c, new) ==
  IF new THEN [c EXCEPT !.accepted = @ + 1] ELSE [c EXCEPT !.duplicates = @ + 1]

\* Every insert that raised no error is counted as accepted.
InsertCountsAll(q) ==
  /\ Inserting(q)
  /\ \A p \in Requests : ~WaitsForKey(q, p)
  /\ open' = [open EXCEPT ![q] = IF IsNew(q) THEN @ \cup {NextKey(q)} ELSE @]
  /\ counts' = [counts EXCEPT ![q] = Counted(@, TRUE)]
  /\ next' = [next EXCEPT ![q] = @ + 1]
  /\ UNCHANGED <<storeVars, pc, producer>>

\* A key that another request has in flight is taken for a duplicate at once.
InsertSkipsInFlight(q) ==
  /\ Inserting(q)
  /\ LET new == IsNew(q) /\ \A p \in Requests : ~WaitsForKey(q, p)
     IN /\ open' = [open EXCEPT ![q] = IF new THEN @ \cup {NextKey(q)} ELSE @]
        /\ counts' = [counts EXCEPT ![q] = Counted(@, new)]
  /\ next' = [next EXCEPT ![q] = @ + 1]
  /\ UNCHANGED <<storeVars, pc, producer>>

\* The insert of the next event, once no open transaction holds its key.
InsertEvent(q) ==
  /\ Inserting(q)
  /\ \A p \in Requests : ~WaitsForKey(q, p)
  /\ open' = [open EXCEPT ![q] = IF IsNew(q) THEN @ \cup {NextKey(q)} ELSE @]
  /\ counts' = [counts EXCEPT ![q] = Counted(@, IsNew(q))]
  /\ next' = [next EXCEPT ![q] = @ + 1]
  /\ UNCHANGED <<storeVars, pc, producer>>

\* The whole batch was a repetition: the handler answers without announcing it.
CommitSkipsRepeated(q) ==
  /\ pc[q] = "insert" /\ ~Inserting(q)
  /\ traceRow' = [traceRow EXCEPT ![TraceOf(q)] = Upserted(@, q)]
  /\ rows' = [k \in Keys |-> IF k \in open[q] THEN q ELSE rows[k]]
  /\ stored' = stored \cup {q}
  /\ open' = [open EXCEPT ![q] = {}]
  /\ Goto(q, IF counts[q].accepted = 0 THEN "accepted" ELSE "publish")
  /\ UNCHANGED <<batch, topic, next, counts, producer>>

\* An insert ... ON CONFLICT DO UPDATE of events: the last batch takes the key.
CommitTakesOver(q) ==
  /\ pc[q] = "insert" /\ ~Inserting(q)
  /\ traceRow' = [traceRow EXCEPT ![TraceOf(q)] = Upserted(@, q)]
  /\ rows' = [k \in Keys |-> IF k \in KeysOf(q) THEN q ELSE rows[k]]
  /\ stored' = stored \cup {q}
  /\ open' = [open EXCEPT ![q] = {}]
  /\ Goto(q, "publish")
  /\ UNCHANGED <<batch, topic, next, counts, producer>>

\* session.commit(): the rows are there for others and the locks are released.
Commit(q) ==
  /\ pc[q] = "insert" /\ ~Inserting(q)
  /\ traceRow' = [traceRow EXCEPT ![TraceOf(q)] = Upserted(@, q)]
  /\ rows' = [k \in Keys |-> IF k \in open[q] THEN q ELSE rows[k]]
  /\ stored' = stored \cup {q}
  /\ open' = [open EXCEPT ![q] = {}]
  /\ Goto(q, "publish")
  /\ UNCHANGED <<batch, topic, next, counts, producer>>

\* The session is kept as it is: the transaction stays open in the database.
RollbackForgotten(q) ==
  /\ pc' = [pc EXCEPT ![q] = "rejected"]
  /\ UNCHANGED open

\* The rollback of the route and of the session: nothing of q remains.
Rollback(q) ==
  /\ pc' = [pc EXCEPT ![q] = "rejected"]
  /\ open' = [open EXCEPT ![q] = {}]

\* A statement raises: the database is away, or a value does not fit its column.
IngestRaises(q) ==
  /\ pc[q] \in {"posted", "insert"}
  /\ Rollback(q)
  /\ UNCHANGED <<storeVars, next, counts, producer>>

\* PostgreSQL aborts one transaction of a cycle; its statement raises.
BreakDeadlock(q) ==
  /\ \E D \in SUBSET Requests : q \in D /\ Cycle(D)
  /\ Rollback(q)
  /\ UNCHANGED <<storeVars, next, counts, producer>>

-----------------------------------------------------------------------------
\* producer.publish; publish and flush do not await, so while a request flushes no
\* other request of the process gets there.
Publish(q) ==
  /\ pc[q] = "publish"
  /\ \A p \in Requests : pc[p] # "flush"
  /\ Producer!Publish(q)
  /\ Goto(q, "flush")
  /\ UNCHANGED <<storeVars, next, open, counts>>

\* publish raises (a full queue), or the commit's acknowledgement was lost.
PublishRaises(q) ==
  /\ pc[q] = "publish"
  /\ Goto(q, "failed")
  /\ UNCHANGED <<storeVars, next, open, counts, producer>>

\* flush returns: 202 with the counts.
FlushReturns(q) ==
  /\ pc[q] = "flush"
  /\ Producer!FlushReturns
  /\ Goto(q, "accepted")
  /\ UNCHANGED <<storeVars, next, open, counts>>

\* flush raises: 500, although the batch is stored and may yet be announced.
FlushRaises(q) ==
  /\ pc[q] = "flush"
  /\ Producer!FlushRaises
  /\ Goto(q, "failed")
  /\ UNCHANGED <<storeVars, next, open, counts>>

Storing == topic' = Append(topic, Head(queue))

\* The broker stores the first message of the queue.
Deliver ==
  /\ Producer!Delivered
  /\ Storing
  /\ UNCHANGED <<batch, tables, ingest>>

\* It is given up, with only its acknowledgement lost or never stored.
GiveUp ==
  /\ Producer!GivenUp
  /\ Storing \/ UNCHANGED topic
  /\ UNCHANGED <<batch, tables, ingest>>

\* The API process is killed and started again: the database rolls open
\* transactions back, clients lose their connections, the queue is gone.
ApiCrash ==
  /\ pc' = [q \in Requests |->
              CASE pc[q] \in {"posted", "insert"} -> "rejected"
                [] pc[q] \in {"publish", "flush"} -> "failed"
                [] OTHER -> pc[q]]
  /\ open' = [q \in Requests |-> {}]
  /\ Producer!Lost
  /\ UNCHANGED <<storeVars, next, counts>>

-----------------------------------------------------------------------------
\* The statements of ingest_trace that do not raise.
Handle(q) == Upsert(q) \/ InsertEvent(q) \/ Commit(q) \/ Publish(q)

Answer(q) == FlushReturns(q) \/ FlushRaises(q)

Next ==
  \/ \E q \in Requests :
       \/ Post(q)
       \/ Handle(q)
       \/ IngestRaises(q)
       \/ BreakDeadlock(q)
       \/ PublishRaises(q)
       \/ Answer(q)
  \/ Deliver
  \/ GiveUp
  \/ ApiCrash

Spec == Init /\ [][Next]_vars

\* A statement that waits for no lock returns, flush has a timeout, and
\* PostgreSQL finds a deadlock (deadlock_timeout).  No client has to post.
Fairness ==
  /\ \A q \in Requests : WF_vars(Handle(q)) /\ WF_vars(Answer(q))
  /\ WF_vars(\E q \in Requests : BreakDeadlock(q))

FairSpec == Spec /\ Fairness

-----------------------------------------------------------------------------
Place == {"new", "posted", "insert", "publish", "flush", "accepted", "failed", "rejected"}

TypeOK ==
  /\ StoreTypeOK
  /\ pc \in [Requests -> Place]
  /\ next \in [Requests -> Nat \ {0}]
  /\ open \in [Requests -> SUBSET Keys]
  /\ \A q \in Requests : open[q] # {} => pc[q] = "insert"
  /\ counts \in [Requests -> [accepted : Nat, duplicates : Nat]]
  /\ queue \in Seq(Requests)
  /\ errors \in BOOLEAN

\* The counts of a committed request are true for good: accepted is the number of
\* events stored for it, the rest of its batch are duplicates, although the rows
\* were counted before the commit and against transactions still open.
CountsAreTrue ==
  \A q \in stored :
    /\ counts[q].accepted = Cardinality(AddedBy(q))
    /\ counts[q].accepted + counts[q].duplicates = Len(batch[q].keys)

\* No event of a committed batch is lost: what was ignored as a duplicate is a
\* committed row, never one that was rolled back afterwards.
DuplicateIsStored == \A q \in stored : \A k \in KeysOf(q) : rows[k] # None

\* The lock that the upsert takes first keeps batches of one trace apart, in
\* whatever order they list their keys: requests that deadlock are for different
\* traces that share keys.
DeadlockSpansTraces ==
  \A D \in SUBSET Requests :
    Cycle(D) => \A p, q \in D : TraceOf(p) = TraceOf(q) => p = q

\* A client that got its 202 has its batch announced, also when the batch was a
\* repetition of one that was stored without being announced: so a client that
\* repeats a request until it is accepted gets its trace normalized.
AcceptedIsAnnounced == \A q \in Requests : pc[q] = "accepted" => Announced(q)

\* Concurrent requests, statement by statement, look from outside like batches
\* stored whole, one after the other, and announced afterwards.
RefinesStore == StoreSpec

\* Every request that was sent is answered or cut off: no lock is waited for
\* for ever, whatever fails.
EveryRequestEnds ==
  \A q \in Requests : (pc[q] = "posted") ~> (pc[q] \in {"accepted", "failed", "rejected"})
=============================================================================
