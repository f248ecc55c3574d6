--------------------------- MODULE ManifestBuilder ---------------------------
(***************************************************************************)
(* build_manifest of normalizer/manifest_builder.py and the SELECT of      *)
(* load_trace_events that feeds it: how the stored events of one trace     *)
(* become the numbered, named steps of its replay manifest.                *)
(*                                                                         *)
(* A stored event is told apart by its idempotency key.  Of its fields     *)
(* only those that order and name its step are kept.  Every event type     *)
(* that ingest accepts is replayable (ALLOWED_EVENT_TYPES is               *)
(* REPLAYABLE_EVENT_TYPES), so the builder leaves no stored event out.     *)
(***************************************************************************)
EXTENDS Naturals, Sequences, FiniteSets, SequencesExt

CONSTANTS
  Keys,      \* idempotency keys
  Numbers,   \* values of an event's field sequence
  Times,     \* values of an event's field event_ts
  Names,     \* span ids and step ids
  StepName,  \* StepName[n]: the step id "step_<n>"
  None       \* no span_id, no step_id, no step_order

ASSUME StepNameAssumption ==
  /\ Numbers \subseteq Nat \ {0} /\ Times \subseteq Nat
  /\ StepName \in [Numbers -> Names]
  /\ \A m, n \in Numbers : StepName[m] = StepName[n] => m = n

ASSUME NoNameAssumption == None \notin Names \cup Nat

Events == [key : Keys, sequence : Numbers, event_ts : Times,
           span_id : Names \cup {None}]

Steps == [step_id : Names, step_order : Nat \ {0}, source : Keys]

\* Variant: events are ordered by their sequence alone.
BeforeBySequence(e, f) == e.sequence < f.sequence

\* The order of events, in the SELECT and in the builder alike.
Before(e, f) ==
  \/ e.sequence < f.sequence
  \/ e.sequence = f.sequence /\ e.event_ts < f.event_ts

\* The orders in which the SELECT may return the events: ORDER BY leaves the
\* order of events that tie to the database.
Loads(events) ==
  {s \in SetToSeqs(events) :
     \A i, j \in 1..Len(s) : Before(s[i], s[j]) => i < j}

\* sorted(): stable, so events that tie keep the order they came in.
Sorted(s) ==
  LET rank == [i \in 1..Len(s) |->
                 Cardinality({j \in 1..Len(s) :
                                \/ Before(s[j], s[i])
                                \/ ~Before(s[i], s[j]) /\ j <= i})]
  IN  [n \in 1..Len(s) |-> s[CHOOSE i \in 1..Len(s) : rank[i] = n]]

\* Variant: a step is named after its event's sequence even if it has a span.
StepIdBySequence(e) == StepName[e.sequence]

\* span_id or "step_<sequence>".
StepIdOf(e) == IF e.span_id # None THEN e.span_id ELSE StepName[e.sequence]

BuildManifest(s) ==
  [n \in 1..Len(s) |->
     [step_id    |-> StepIdOf(Sorted(s)[n]),
      step_order |-> n,
      source     |-> Sorted(s)[n].key]]
=============================================================================
