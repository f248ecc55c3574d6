---------------------------- MODULE TraceSystem ----------------------------
(***************************************************************************)
(* The trace half of the platform in one piece: the requests and the       *)
(* producer of TraceIngest, statement by statement, and the normalizers of *)
(* Normalizer, which read the rows and the topic that ingest writes while  *)
(* it writes them.                                                         *)
(***************************************************************************)
EXTENDS Normalizer

VARIABLES pc, next, open, counts, queue, errors  \* as in TraceIngest

Ingest == INSTANCE TraceIngest

ingesting == <<pc, next, open, counts, queue, errors>>

compiling == <<manifest, group, control, outrun>>

systemVars == <<storeVars, ingesting, compiling>>

SystemInit == Init /\ Ingest!Init

\* The API process and its requests take a step, or a normalizer does.
SystemNext ==
  \/ Ingest!Next /\ UNCHANGED compiling
  \/ (\E n \in Normalizers : Work(n)) /\ UNCHANGED <<storeVars, ingesting>>

SystemSpec == SystemInit /\ [][SystemNext]_systemVars

-----------------------------------------------------------------------------
\* The API that the normalizers see is the one of TraceIngest.
RefinesNormalizer == Spec

\* What a client's 202 is worth in the end: the batch is announced, and once its
\* message was handled every event it sent is in the manifest of its trace, whoever
\* stored the event first, except those whose key is taken by another trace.  The
\* exceptions are a manifest that a normalizer without the partition wrote last and,
\* as long as it is unhandled, a message whose handler raised or never ran.
AcceptedIsCompiled ==
  \A q \in Requests : pc[q] = "accepted" =>
    \E o \in 1..Len(topic) :
      /\ topic[o] = q
      /\ o \in handled /\ TraceOf(q) \notin outrun =>
           \A k \in KeysOf(q) :
             rows[k] # None /\ (TraceOf(rows[k]) = TraceOf(q) => k \in manifest[TraceOf(q)])
=============================================================================
