--------------------------- MODULE MCTraceIngest ---------------------------
(***************************************************************************)
(* The instances of TraceIngest that TLC checks: any assignment to the     *)
(* requests of two traces and of lists of two keys, the same one twice     *)
(* included.  With three requests two batches of one trace meet a third of *)
(* another; the liveness run, without symmetry, has two.                   *)
(***************************************************************************)
EXTENDS TraceIngest, TLC

PairBatches == [trace : Traces, keys : {<<k, l>> : k, l \in Keys}]

Symmetry == Permutations(Requests) \cup Permutations(Traces) \cup Permutations(Keys)
=============================================================================
