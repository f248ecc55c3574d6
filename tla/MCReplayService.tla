-------------------------- MODULE MCReplayService --------------------------
(***************************************************************************)
(* The instances of ReplayService that TLC checks.  Workers and replays    *)
(* are interchangeable, which the safety runs use; the runs with liveness  *)
(* properties do without symmetry.                                         *)
(***************************************************************************)
EXTENDS ReplayService, TLC

Symmetry == Permutations(Workers) \cup Permutations(Replays)

\* The bound of the run ReplayPair, which is about who runs what and not about
\* outcomes: no injections, no lost progress messages, at most one failure (of a
\* message's handler or of a request), and one worker up.
PairBound ==
  /\ \A r \in Replays : plan[r] = {}
  /\ \A w \in Workers : ~sendErrors[w]
  /\ Cardinality(failed) + Cardinality({r \in Replays : request[r] = "failed"}) <= 1
  /\ up # {}
=============================================================================
