---------------------------- MODULE ReplaySystem ----------------------------
(***************************************************************************)
(* The replay half of the platform in one piece: the API, the topic and    *)
(* the workers of ReplayService, and the clients of ReplayDetail, which    *)
(* read the rows that the service writes while it writes them.             *)
(***************************************************************************)
EXTENDS ReplayService

CONSTANT Clients  \* clients polling GET /v1/replays/{id}

VARIABLES target, taken, job, rows  \* as in ReplayDetail

Detail == INSTANCE ReplayDetail

reading == <<target, taken, job, rows>>

systemVars == <<vars, reading>>

SystemInit == Init /\ Detail!ReadInit

\* The service takes a step, or a client reads.
SystemNext ==
  \/ Next /\ UNCHANGED reading
  \/ Detail!Read /\ UNCHANGED vars

SystemSpec == SystemInit /\ [][SystemNext]_systemVars

-----------------------------------------------------------------------------
\* What the service's clients see is what the clients of ReplayLifecycle see.
RefinesDetail == Detail!DetailSpec

\* An answer that says the replay has ended is true and final, while workers crash,
\* messages are redelivered and the rows are written.
EndedAnswerIsFinal == Detail!EndedAnswerIsFinal
=============================================================================
