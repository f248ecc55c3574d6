---------------------------- MODULE TraceDetail ----------------------------
(***************************************************************************)
(* Clients that read a trace: GET /v1/traces/{id} (get_trace_detail, two   *)
(* SELECTs with other transactions in between), GET .../manifest           *)
(* (get_manifest_detail) and the read of the manifest with which           *)
(* create_replay begins.  They run against TraceLifecycle, so what is said *)
(* here of an answer holds over the API and the normalizers.               *)
(***************************************************************************)
EXTENDS TraceLifecycle

CONSTANT Clients

VARIABLES
  reading,  \* reading[c]: the trace c asks for, or None
  seenRow,  \* seenRow[c]: the row of the trace that the first SELECT read
  answer,   \* answer[c]: row and events of the last answer to a detail request
  plan      \* plan[c]: trace and steps of the manifest that c, or the replay it
            \* posts, has read

readers == <<reading, seenRow, answer, plan>>
detailVars == <<lifeVars, readers>>

NoAnswer == [row |-> None, events |-> {}]
NoPlan == [trace |-> None, steps |-> {}]

DetailInit ==
  /\ LifeInit
  /\ reading = [c \in Clients |-> None]
  /\ seenRow = [c \in Clients |-> None]
  /\ answer = [c \in Clients |-> NoAnswer]
  /\ plan = [c \in Clients |-> NoPlan]

-----------------------------------------------------------------------------
\* The SELECT of the trace; without a row the answer is 404.
SelectTrace(c, t) ==
  /\ reading[c] = None /\ traceRow[t] # None
  /\ reading' = [reading EXCEPT ![c] = t]
  /\ seenRow' = [seenRow EXCEPT ![c] = traceRow[t]]
  /\ UNCHANGED <<lifeVars, answer, plan>>

\* The two SELECTs swapped: the row is read now, the events were at some time since
\* the request came, when the row was the one in seenRow.
SelectEventsWithNewRow(c) ==
  /\ reading[c] # None
  /\ \E E \in SUBSET EventsOf(reading[c]) :
       /\ AddedBy(seenRow[c].first) \cup AddedBy(seenRow[c].last) \subseteq E
       /\ answer' = [answer EXCEPT ![c] = [row |-> traceRow[reading[c]], events |-> E]]
  /\ reading' = [reading EXCEPT ![c] = None]
  /\ seenRow' = [seenRow EXCEPT ![c] = None]
  /\ UNCHANGED <<lifeVars, plan>>

\* The SELECT of its events, and the answer.
SelectEvents(c) ==
  /\ reading[c] # None
  /\ answer' = [answer EXCEPT ![c] = [row |-> seenRow[c], events |-> EventsOf(reading[c])]]
  /\ reading' = [reading EXCEPT ![c] = None]
  /\ seenRow' = [seenRow EXCEPT ![c] = None]
  /\ UNCHANGED <<lifeVars, plan>>

\* One SELECT of the manifest's row: 404 without one, else its steps are shown, or
\* copied into the rows of a replay that is committed later.
ReadManifest(c, t) ==
  /\ manifest[t] # {}
  /\ plan' = [plan EXCEPT ![c] = [trace |-> t, steps |-> manifest[t]]]
  /\ UNCHANGED <<lifeVars, reading, seenRow, answer>>

DetailNext ==
  \/ LifeNext /\ UNCHANGED readers
  \/ \E c \in Clients :
       \/ \E t \in Traces : SelectTrace(c, t) \/ ReadManifest(c, t)
       \/ SelectEvents(c)

DetailSpec == DetailInit /\ [][DetailNext]_detailVars

-----------------------------------------------------------------------------
\* An answer has at least the events of the batches that its trace row speaks of:
\* no batch whose agent_run_id or times are shown is shown without its events.
AnswerCoversRow ==
  \A c \in Clients :
    LET a == answer[c]
    IN a.row # None => AddedBy(a.row.first) \cup AddedBy(a.row.last) \subseteq a.events

\* A manifest that was read, by a client or as the plan of a replay, stays a list
\* of events of its trace, in whole batches, however often it is compiled anew.
PlanIsBacked ==
  \A c \in Clients :
    plan[c].steps # {} => plan[c].steps \subseteq EventsOf(plan[c].trace) /\ Whole(plan[c].steps)
=============================================================================
