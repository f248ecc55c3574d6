--------------------------- MODULE MCConsumerLoop ---------------------------
(***************************************************************************)
(* The instance of ConsumerLoop that TLC checks: two consumers of one      *)
(* group, so that one can work on a partition it has lost, and three       *)
(* messages, so that a stale commit can lie behind the committed offset.   *)
(***************************************************************************)
EXTENDS ConsumerLoop
=============================================================================
