----------------------------- MODULE Normalizer -----------------------------
(***************************************************************************)
(* The normalizers: normalizer/consumer_loop.py with normalize_trace of    *)
(* normalizer/service.py as its handler, reading trace.ingested and        *)
(* compiling manifests from the events that ingest stored.  The API is     *)
(* here its abstract specification TraceStore, the consumer group is the   *)
(* module ConsumerLoop on the same topic.                                  *)
(*                                                                         *)
(* The events are read in one statement and the manifest written in a      *)
(* later one, under no lock: between them other batches are stored, and a  *)
(* normalizer that lost the partition goes on beside its new owner.        *)
(* Nothing reads trace.normalized; of publish and flush only remains       *)
(* whether they raise.                                                     *)
(***************************************************************************)
EXTENDS TraceLifecycle

CONSTANT Normalizers  \* normalizer processes, one consumer each

ASSUME NormalizerAssumption == None \notin Normalizers

VARIABLES
  committed, owner, position, cursor, up, handled, failed,  \* as in ConsumerLoop
  phase,     \* phase[n]: where n stands in normalize_trace
  loaded,    \* loaded[n]: the events it has read
  outrun     \* history: the traces whose manifest was last written by a
             \* normalizer that had lost the partition

group == <<committed, owner, position, cursor, up, handled, failed>>
control == <<phase, loaded>>

vars == <<lifeVars, group, control, outrun>>

Loop == INSTANCE ConsumerLoop WITH
          Consumers <- Normalizers, Messages <- Requests, log <- topic

Init ==
  /\ LifeInit
  /\ Loop!Init
  /\ phase = [n \in Normalizers |-> "idle"]
  /\ loaded = [n \in Normalizers |-> {}]
  /\ outrun = {}

-----------------------------------------------------------------------------
\* The API.

Store(q) == StoreBatch(q) /\ UNCHANGED <<manifest, group, control, outrun>>

Publish(q) == Announce(q) /\ UNCHANGED <<manifest, group, control, outrun>>

-----------------------------------------------------------------------------
(***************************************************************************)
(* The place of a normalizer:                                              *)
(*   idle     between two polls                                            *)
(*   load     a session is open, the events are to be read                 *)
(*   build    the events are read, the manifest is to be upserted          *)
(*   publish  the manifest is committed; publish, flush, commit the offset *)
(***************************************************************************)
Subject(n) == TraceOf(topic[cursor[n]])

\* The handler is called again for the message that the loop has dropped.
LeaveToRetry(n) ==
  /\ phase' = [phase EXCEPT ![n] = "load"]
  /\ loaded' = [loaded EXCEPT ![n] = {}]

\* The handler's activation is left.
Leave(n) ==
  /\ phase' = [phase EXCEPT ![n] = "idle"]
  /\ loaded' = [loaded EXCEPT ![n] = {}]

\* poll() returns an announcement and handle_message opens a session.
Receive(n) ==
  /\ phase[n] = "idle"
  /\ Loop!Poll(n)
  /\ phase' = [phase EXCEPT ![n] = "load"]
  /\ UNCHANGED <<lifeVars, loaded, outrun>>

\* The events are read page by page, with inserts in between.
LoadPages(n) ==
  /\ phase[n] = "load"
  /\ \E K \in SUBSET EventsOf(Subject(n)) \ {{}} : loaded' = [loaded EXCEPT ![n] = K]
  /\ phase' = [phase EXCEPT ![n] = "build"]
  /\ UNCHANGED <<lifeVars, group, outrun>>

\* The manifest is built from the announced batch alone.
LoadBatch(n) ==
  /\ phase[n] = "load"
  /\ AddedBy(topic[cursor[n]]) # {}
  /\ loaded' = [loaded EXCEPT ![n] = AddedBy(topic[cursor[n]])]
  /\ phase' = [phase EXCEPT ![n] = "build"]
  /\ UNCHANGED <<lifeVars, group, outrun>>

\* load_trace_events: one SELECT sees all that is committed.
LoadEvents(n) ==
  /\ phase[n] = "load"
  /\ EventsOf(Subject(n)) # {}
  /\ loaded' = [loaded EXCEPT ![n] = EventsOf(Subject(n))]
  /\ phase' = [phase EXCEPT ![n] = "build"]
  /\ UNCHANGED <<lifeVars, group, outrun>>

\* No events: TraceEventsNotFoundError, "not ready, will retry".
EventsNotFound(n) ==
  /\ phase[n] = "load"
  /\ EventsOf(Subject(n)) = {}
  /\ Loop!HandlerRaises(n)
  /\ Leave(n)
  /\ UNCHANGED <<lifeVars, outrun>>

\* ON CONFLICT DO NOTHING: an existing manifest is kept.
UpsertKeepsOld(n) ==
  /\ phase[n] = "build"
  /\ manifest' = [manifest EXCEPT ![Subject(n)] = IF @ = {} THEN loaded[n] ELSE @]
  /\ outrun' = IF owner = n THEN outrun \ {Subject(n)} ELSE outrun \cup {Subject(n)}
  /\ phase' = [phase EXCEPT ![n] = "publish"]
  /\ UNCHANGED <<storeVars, group, loaded>>

\* The manifest of what was read is inserted or overwrites the trace's, committed.
UpsertManifest(n) ==
  /\ phase[n] = "build"
  /\ manifest' = [manifest EXCEPT ![Subject(n)] = loaded[n]]
  /\ outrun' = IF owner = n THEN outrun \ {Subject(n)} ELSE outrun \cup {Subject(n)}
  /\ phase' = [phase EXCEPT ![n] = "publish"]
  /\ UNCHANGED <<storeVars, group, loaded>>

\* trace.normalized is flushed; the offset is committed, or its commit raises.
Acknowledge(n) ==
  /\ phase[n] = "publish"
  /\ Loop!Commit(n) \/ Loop!CommitRaises(n)
  /\ Leave(n)
  /\ UNCHANGED <<lifeVars, outrun>>

\* Any other exception, before or after the manifest's commit: the database, a
\* full queue, flush for this message or an earlier one.
Abort(n) ==
  /\ phase[n] # "idle"
  /\ Loop!HandlerRaises(n)
  /\ Leave(n)
  /\ UNCHANGED <<lifeVars, outrun>>

Crash(n) ==
  /\ Loop!Crash(n)
  /\ Leave(n)
  /\ UNCHANGED <<lifeVars, outrun>>

\* The partition is assigned.
Join(n) ==
  /\ Loop!Assign(n)
  /\ UNCHANGED <<lifeVars, control, outrun>>

\* A rebalance takes the partition away; a process is started again.
Regroup(n) ==
  /\ Loop!Revoke(n) \/ Loop!Restart(n)
  /\ UNCHANGED <<lifeVars, control, outrun>>

-----------------------------------------------------------------------------
\* One turn of the loop, or the next step of the handler, that goes on.
Normalize(n) == Receive(n) \/ LoadEvents(n) \/ EventsNotFound(n) \/ UpsertManifest(n)

\* Whatever a normalizer, or its membership in the group, may do.
Work(n) ==
  \/ Normalize(n)
  \/ Acknowledge(n)
  \/ Abort(n)
  \/ Crash(n)
  \/ Join(n)
  \/ Regroup(n)

Next ==
  \/ \E q \in Requests : Store(q) \/ Publish(q)
  \/ \E n \in Normalizers : Work(n)

Spec == Init /\ [][Next]_vars

\* As for ConsumerLoop: a running loop polls and its handler ends, a free
\* partition is assigned.  Nothing makes a client post or a process restart.
Fairness ==
  /\ WF_vars(\E n \in Normalizers : Join(n))
  /\ \A n \in Normalizers : WF_vars(Normalize(n) \/ Acknowledge(n))

FairSpec == Spec /\ Fairness

-----------------------------------------------------------------------------
TypeOK ==
  /\ StoreTypeOK
  /\ manifest \in [Traces -> SUBSET Keys]
  /\ Loop!TypeOK
  /\ phase \in [Normalizers -> {"idle", "load", "build", "publish"}]
  /\ \A n \in Normalizers : phase[n] = "idle" <=> cursor[n] = 0
  /\ loaded \in [Normalizers -> SUBSET Keys]
  /\ outrun \subseteq Traces

\* The manifest covers what a successful handler announced it covers: every event of
\* its trace that a handled batch brought, also one that an earlier batch had stored,
\* is in its trace's manifest and stays in it, unless a normalizer that had lost the
\* partition wrote last.  That is the one way an older manifest overwrites a newer
\* one, with both messages acknowledged.
HandledIsCompiled ==
  \A o \in handled :
    TraceOf(topic[o]) \notin outrun => Brought(topic[o]) \subseteq manifest[TraceOf(topic[o])]

\* Events that are not there when their announcement is handled never were: the
\* trace's batch was stored before it was announced, and all of its keys had been
\* used by other traces.  There is nothing to wait for.
MissingForGood ==
  \A n \in Normalizers :
    phase[n] = "load" /\ EventsOf(Subject(n)) = {} =>
      \A k \in KeysOf(topic[cursor[n]]) : rows[k] # None /\ TraceOf(rows[k]) # Subject(n)

\* Whatever crashes, stalls or overlaps, a manifest is the checklist of whole
\* batches of its trace.
RefinesLifecycle == LifeSpec

\* Once crashes and rebalances cease with a normalizer left running, every batch
\* that is announced gets its trace's manifest to hold what it brought, so that a
\* client's retry, which adds nothing, makes up for a first announcement that was
\* lost; unless some handler raised on its message or a normalizer without the
\* partition wrote last.
AnnouncedIsCompiled ==
  (<>[][\A n \in Normalizers : ~Loop!Fault(n)]_vars /\ <>[](up # {}))
    => \A q \in Requests :
         Announced(q) ~> \/ Brought(q) \subseteq manifest[TraceOf(q)]
                         \/ TraceOf(q) \in outrun
                         \/ \E o \in failed : topic[o] = q
=============================================================================
