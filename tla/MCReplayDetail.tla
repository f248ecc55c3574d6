--------------------------- MODULE MCReplayDetail ---------------------------
(***************************************************************************)
(* The instance of ReplayDetail that TLC checks: one client polling one    *)
(* replay of three steps, with any injection plan, and a second client in  *)
(* the same place.                                                         *)
(***************************************************************************)
EXTENDS ReplayDetail
=============================================================================
