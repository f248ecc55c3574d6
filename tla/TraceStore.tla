----------------------------- MODULE TraceStore -----------------------------
(***************************************************************************)
(* The abstract specification of trace ingest: what a reader of the tables *)
(* traces and trace_events and of the topic trace.ingested may see.  A     *)
(* batch is stored whole in one step, each key goes to the batch that      *)
(* stored it first, and a batch is announced at most once, after it was    *)
(* stored.  TraceIngest implements this module, Normalizer and TraceDetail *)
(* build on it.                                                            *)
(*                                                                         *)
(* An event is told apart by its idempotency key: the row stored under a   *)
(* key is the first event with it in the body of the request rows[key].    *)
(***************************************************************************)
EXTENDS Naturals, Sequences, FiniteSets, Functions

CONSTANTS
  Requests,  \* ingest requests; a client's retry is a further request
  Traces,    \* trace identifiers
  Keys,      \* idempotency keys
  Batches,   \* bodies of requests: a trace and the keys of its events, in order
  None       \* "no request", "no row"

ASSUME BatchAssumption ==
  /\ Batches \subseteq [trace : Traces, keys : Seq(Keys)]
  /\ \A b \in Batches : b.keys # <<>>

ASSUME NoneAssumption == None \notin Requests

VARIABLES
  batch,     \* batch[q]: the body of request q
  traceRow,  \* traceRow[t]: the requests whose values the row of traces holds
  rows,      \* rows[k]: the request whose event is stored under key k, or None
  stored,    \* the requests whose transaction is committed
  topic      \* trace.ingested: the announcements, in the broker's order

tables == <<traceRow, rows, stored>>
storeVars == <<batch, tables, topic>>

TraceOf(q) == batch[q].trace
KeysOf(q) == Range(batch[q].keys)

\* The events of trace t, named by key.
EventsOf(t) == {k \in Keys : rows[k] # None /\ TraceOf(rows[k]) = t}

\* The events that request q added to its trace.
AddedBy(q) == {k \in Keys : rows[k] = q}

\* The events of its trace that request q brings, whoever stored them first.
Brought(q) == KeysOf(q) \cap EventsOf(TraceOf(q))

Announced(q) == \E i \in 1..Len(topic) : topic[i] = q

StoreInit ==
  /\ batch \in [Requests -> Batches]
  /\ traceRow = [t \in Traces |-> None]
  /\ rows = [k \in Keys |-> None]
  /\ stored = {}
  /\ topic = <<>>

-----------------------------------------------------------------------------
\* The upsert of the trace as its commit leaves it: started_at and source are
\* those of the first batch, agent_run_id and ended_at those of the last.
Upserted(row, q) == [first |-> IF row = None THEN q ELSE row.first, last |-> q]

\* An ON CONFLICT DO UPDATE of the event: the later batch takes the key over.
InsertedAnew(q) == [k \in Keys |-> IF k \in KeysOf(q) THEN q ELSE rows[k]]

\* The keys of q that nobody has used, on whatever trace, become rows of q.
Inserted(q) == [k \in Keys |-> IF rows[k] = None /\ k \in KeysOf(q) THEN q ELSE rows[k]]

\* The transaction of ingest_trace as others see it: all of it at its commit.
StoreBatch(q) ==
  /\ q \notin stored
  /\ traceRow' = [traceRow EXCEPT ![TraceOf(q)] = Upserted(@, q)]
  /\ rows' = Inserted(q)
  /\ stored' = stored \cup {q}
  /\ UNCHANGED <<batch, topic>>

\* Published before the commit: the broker may store an announcement first.
AnnounceEarly(q) ==
  /\ ~Announced(q)
  /\ topic' = Append(topic, q)
  /\ UNCHANGED <<batch, tables>>

\* The broker stores the announcement of a stored batch.
Announce(q) ==
  /\ q \in stored /\ ~Announced(q)
  /\ topic' = Append(topic, q)
  /\ UNCHANGED <<batch, tables>>

StoreNext == \E q \in Requests : StoreBatch(q) \/ Announce(q)

StoreSpec == StoreInit /\ [][StoreNext]_storeVars

-----------------------------------------------------------------------------
TraceRow == [first : Requests, last : Requests]

StoreTypeOK ==
  /\ batch \in [Requests -> Batches]
  /\ traceRow \in [Traces -> TraceRow \cup {None}]
  /\ rows \in [Keys -> Requests \cup {None}]
  /\ stored \subseteq Requests
  /\ topic \in Seq(Requests)
=============================================================================
