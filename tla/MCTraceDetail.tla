--------------------------- MODULE MCTraceDetail ---------------------------
(***************************************************************************)
(* The instance of TraceDetail that TLC checks: three batches of one event *)
(* each, so that a row's first and last batch differ and a third comes     *)
(* between, on two traces that share keys.  One client: clients only read, *)
(* and none sees another.                                                  *)
(***************************************************************************)
EXTENDS TraceDetail, TLC

SingleEvents == [trace : Traces, keys : {<<k>> : k \in Keys}]

Symmetry ==
  Permutations(Requests) \cup Permutations(Traces) \cup Permutations(Keys) \cup Permutations(Clients)
=============================================================================
