---------------------------- MODULE MCNormalizer ----------------------------
(***************************************************************************)
(* The instance of Normalizer that TLC checks: two normalizers and two     *)
(* requests, which Cases limits to three pairs of batches, in either order *)
(* of storing: a batch and its repetition; a small and a larger batch of   *)
(* one trace, whose manifest has two versions; two batches of different    *)
(* traces that share a key, so that the later may add nothing.             *)
(***************************************************************************)
EXTENDS Normalizer, TLC

CONSTANTS q1, q2, t1, t2, k1, k2

Small == [trace |-> t1, keys |-> <<k1>>]
Large == [trace |-> t1, keys |-> <<k1, k2>>]
Other == [trace |-> t2, keys |-> <<k1>>]

SomeBatches == {Small, Large, Other}

Cases ==
  <<batch[q1], batch[q2]>> \in {<<Small, Small>>, <<Small, Large>>, <<Large, Other>>}
=============================================================================
