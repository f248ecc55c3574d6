--------------------------- MODULE TraceLifecycle ---------------------------
(***************************************************************************)
(* The abstract life of a trace: TraceStore and the manifests compiled     *)
(* from it.  A manifest is a checklist of some whole batches of its trace; *)
(* it may be compiled anew at any time, from more batches or from fewer.   *)
(* Normalizer implements this module, TraceDetail reads it.                *)
(*                                                                         *)
(* A manifest is told by the events it was built from; the order of its    *)
(* steps is a function of them (ReplayPlan).                               *)
(***************************************************************************)
EXTENDS TraceStore

VARIABLE manifest  \* manifest[t]: the events of t's manifest, {} for no row

lifeVars == <<storeVars, manifest>>

LifeInit == StoreInit /\ manifest = [t \in Traces |-> {}]

\* K is a set of whole batches: of what a batch added it has all or nothing.
Whole(K) == \A q \in Requests : AddedBy(q) \subseteq K \/ AddedBy(q) \cap K = {}

\* The upsert of normalize_trace: a manifest of events that are in the table.
Compile(t, K) ==
  /\ K # {} /\ K \subseteq EventsOf(t) /\ Whole(K)
  /\ manifest' = [manifest EXCEPT ![t] = K]
  /\ UNCHANGED storeVars

LifeNext ==
  \/ StoreNext /\ UNCHANGED manifest
  \/ \E t \in Traces : \E K \in SUBSET EventsOf(t) : Compile(t, K)

LifeSpec == LifeInit /\ [][LifeNext]_lifeVars
=============================================================================
