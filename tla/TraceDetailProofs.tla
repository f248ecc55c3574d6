-------------------------- MODULE TraceDetailProofs --------------------------
(***************************************************************************)
(* Proofs about TraceDetail, for any sets of clients, requests, traces,    *)
(* keys and batches.  What a client holds from its first SELECT names      *)
(* batches that are stored (SeenIsStored): their rows are there for the    *)
(* second SELECT to read, and nothing is added to them later.              *)
(***************************************************************************)
EXTENDS TraceDetail, TraceStoreProofs

\* The row of a trace as it may be read: of batches that are stored for it.
RowIsStored(row, t) ==
  /\ row.first \in stored /\ TraceOf(row.first) = t
  /\ row.last \in stored /\ TraceOf(row.last) = t

SeenIsStored ==
  \A c \in Clients : reading[c] # None =>
    reading[c] \in Traces /\ RowIsStored(seenRow[c], reading[c])

AnswersAreOfStored ==
  \A c \in Clients :
    LET a == answer[c]
    IN  a.row # None => a.row.first \in stored /\ a.row.last \in stored

ReaderType ==
  /\ reading \in [Clients -> Traces \cup {None}]
  /\ seenRow \in [Clients -> TraceRow \cup {None}]
  /\ answer \in [Clients -> [row : TraceRow \cup {None}, events : SUBSET Keys]]
  /\ plan \in [Clients -> [trace : Traces \cup {None}, steps : SUBSET Keys]]

DetailInv ==
  /\ LifeInv /\ ReaderType
  /\ SeenIsStored /\ AnswersAreOfStored /\ AnswerCoversRow /\ PlanIsBacked

-----------------------------------------------------------------------------
\* Nobody has read anything.
LEMMA InitDetailInv == DetailInit => DetailInv
  BY InitLifeInv
     DEF DetailInit, DetailInv, ReaderType, SeenIsStored, AnswersAreOfStored, AnswerCoversRow,
         PlanIsBacked, NoAnswer, NoPlan

\* What the API or a normalizer does between two reads leaves true what was read.
LEMMA OthersKeep ==
  ASSUME DetailInv, [LifeNext]_lifeVars, UNCHANGED readers
  PROVE  DetailInv'
<1>1. LifeInv'
  BY NextLifeInv DEF DetailInv
<1>2. [StoreNext]_storeVars
  BY DEF LifeNext, lifeVars, Compile
<1>3. UNCHANGED <<reading, seenRow, answer, plan>>
  BY DEF readers
<1>4. StoreInv /\ StoreTypeOK
  BY DEF DetailInv, LifeInv, StoreInv
<1>5. stored \subseteq stored' /\ batch' = batch
  BY <1>2, <1>4, RowsStay
<1>6. \A q \in stored : AddedBy(q)' = AddedBy(q)
  BY <1>2, <1>4, AddedStays
<1>7. ReaderType' /\ SeenIsStored' /\ AnswersAreOfStored'
  BY <1>3, <1>5
     DEF DetailInv, ReaderType, TraceRow, SeenIsStored, AnswersAreOfStored, RowIsStored, TraceOf
<1>8. AnswerCoversRow'
  BY <1>3, <1>6 DEF DetailInv, AnswerCoversRow, AnswersAreOfStored, AddedBy
<1>9. PlanIsBacked'
  <2> SUFFICES ASSUME NEW c \in Clients, plan[c].steps # {}
               PROVE  (plan[c].steps \subseteq EventsOf(plan[c].trace) /\ Whole(plan[c].steps))'
    BY <1>3 DEF PlanIsBacked
  <2>1. PICK t, K : t = plan[c].trace /\ K = plan[c].steps
    OBVIOUS
  <2>2. (K \subseteq EventsOf(t))' /\ Whole(K)'
    BY <1>2, <1>4, <2>1, BackedStays DEF DetailInv, PlanIsBacked
  <2> QED
    BY <1>3, <2>1, <2>2 DEF EventsOf, Whole
<1> QED
  BY <1>1, <1>7, <1>8, <1>9 DEF DetailInv

\* A read changes nothing that it reads.
LEMMA ReadsChangeNothing ==
  ASSUME DetailInv, UNCHANGED lifeVars
  PROVE  /\ LifeInv'
         /\ UNCHANGED <<batch, traceRow, rows, stored, manifest>>
         /\ \A q : AddedBy(q)' = AddedBy(q) /\ TraceOf(q)' = TraceOf(q)
         /\ \A t : EventsOf(t)' = EventsOf(t)
         /\ \A K : Whole(K)' <=> Whole(K)
  BY NextLifeInv DEF DetailInv, lifeVars, storeVars, tables, AddedBy, TraceOf, EventsOf, Whole

\* The first SELECT sees a row of stored batches.
LEMMA SelectTraceKeeps ==
  ASSUME DetailInv, NEW c \in Clients, NEW t \in Traces, SelectTrace(c, t)
  PROVE  DetailInv'
<1>1. /\ LifeInv' /\ UNCHANGED <<batch, traceRow, rows, stored, answer, plan>>
      /\ \A q : AddedBy(q)' = AddedBy(q) /\ TraceOf(q)' = TraceOf(q)
      /\ \A u : EventsOf(u)' = EventsOf(u)
      /\ \A K : Whole(K)' <=> Whole(K)
  BY ReadsChangeNothing DEF SelectTrace
<1>2. /\ reading' = [reading EXCEPT ![c] = t] /\ seenRow' = [seenRow EXCEPT ![c] = traceRow[t]]
      /\ traceRow[t] # None
  BY DEF SelectTrace
<1>3. traceRow[t] \in TraceRow /\ RowIsStored(traceRow[t], t)
  BY <1>2 DEF DetailInv, LifeInv, StoreInv, StoreTypeOK, TraceRowIsOfStored, RowIsStored
<1>4. ReaderType'
  BY <1>1, <1>2, <1>3 DEF DetailInv, ReaderType, TraceRow
<1>5. SeenIsStored'
  BY <1>1, <1>2, <1>3 DEF DetailInv, ReaderType, SeenIsStored, RowIsStored, TraceOf
<1>6. AnswersAreOfStored' /\ AnswerCoversRow' /\ PlanIsBacked'
  <2>1. AnswersAreOfStored'
    BY <1>1 DEF DetailInv, AnswersAreOfStored
  <2>2. AnswerCoversRow'
    BY <1>1 DEF DetailInv, AnswerCoversRow, AddedBy
  <2>3. PlanIsBacked'
    BY <1>1 DEF DetailInv, PlanIsBacked, EventsOf, TraceOf, Whole, AddedBy
  <2> QED
    BY <2>1, <2>2, <2>3
<1> QED
  BY <1>1, <1>4, <1>5, <1>6 DEF DetailInv

\* The second SELECT sees all events of the batches that the row names.
LEMMA SelectEventsKeeps ==
  ASSUME DetailInv, NEW c \in Clients, SelectEvents(c)
  PROVE  DetailInv'
<1>1. /\ LifeInv' /\ UNCHANGED <<batch, traceRow, rows, stored, plan>>
      /\ \A q : AddedBy(q)' = AddedBy(q) /\ TraceOf(q)' = TraceOf(q)
      /\ \A u : EventsOf(u)' = EventsOf(u)
      /\ \A K : Whole(K)' <=> Whole(K)
  BY ReadsChangeNothing DEF SelectEvents
<1>2. /\ reading[c] # None
      /\ answer' = [answer EXCEPT ![c] = [row |-> seenRow[c], events |-> EventsOf(reading[c])]]
      /\ reading' = [reading EXCEPT ![c] = None] /\ seenRow' = [seenRow EXCEPT ![c] = None]
  BY DEF SelectEvents
<1>3. RowIsStored(seenRow[c], reading[c])
  BY <1>2 DEF DetailInv, SeenIsStored
<1>4. EventsOf(reading[c]) \subseteq Keys
  BY DEF EventsOf
<1>5. ReaderType'
  BY <1>1, <1>2, <1>4 DEF DetailInv, ReaderType, TraceRow
<1>6. SeenIsStored'
  BY <1>1, <1>2 DEF DetailInv, ReaderType, SeenIsStored, RowIsStored, TraceOf
<1>7. AnswersAreOfStored'
  BY <1>1, <1>2, <1>3 DEF DetailInv, ReaderType, AnswersAreOfStored, RowIsStored
<1>8. AnswerCoversRow'
  <2>1. \A q \in stored : q # None /\ \A k \in AddedBy(q) : k \in Keys /\ rows[k] = q
    BY NoneAssumption DEF DetailInv, LifeInv, StoreInv, StoreTypeOK, AddedBy
  <2>2. AddedBy(seenRow[c].first) \cup AddedBy(seenRow[c].last) \subseteq EventsOf(reading[c])
    BY <1>3, <2>1 DEF RowIsStored, EventsOf
  <2> QED
    BY <1>1, <1>2, <2>2 DEF DetailInv, ReaderType, AnswerCoversRow, AddedBy
<1>9. PlanIsBacked'
  BY <1>1 DEF DetailInv, PlanIsBacked, EventsOf, TraceOf, Whole, AddedBy
<1> QED
  BY <1>1, <1>5, <1>6, <1>7, <1>8, <1>9 DEF DetailInv

\* A manifest that is read is backed.
LEMMA ReadManifestKeeps ==
  ASSUME DetailInv, NEW c \in Clients, NEW t \in Traces, ReadManifest(c, t)
  PROVE  DetailInv'
<1>1. /\ LifeInv' /\ UNCHANGED <<batch, traceRow, rows, stored, reading, seenRow, answer>>
      /\ \A q : AddedBy(q)' = AddedBy(q) /\ TraceOf(q)' = TraceOf(q)
      /\ \A u : EventsOf(u)' = EventsOf(u)
      /\ \A K : Whole(K)' <=> Whole(K)
  BY ReadsChangeNothing DEF ReadManifest
<1>2. plan' = [plan EXCEPT ![c] = [trace |-> t, steps |-> manifest[t]]]
  BY DEF ReadManifest
<1>3. manifest[t] \subseteq Keys /\ manifest[t] \subseteq EventsOf(t) /\ Whole(manifest[t])
  BY DEF DetailInv, LifeInv, ManifestsAreBacked
<1>4. ReaderType'
  BY <1>1, <1>2, <1>3 DEF DetailInv, ReaderType, TraceRow
<1>5. SeenIsStored' /\ AnswersAreOfStored' /\ AnswerCoversRow'
  <2>1. SeenIsStored'
    BY <1>1 DEF DetailInv, SeenIsStored, RowIsStored, TraceOf
  <2>2. AnswersAreOfStored'
    BY <1>1 DEF DetailInv, AnswersAreOfStored
  <2>3. AnswerCoversRow'
    BY <1>1 DEF DetailInv, AnswerCoversRow, AddedBy
  <2> QED
    BY <2>1, <2>2, <2>3
<1>6. PlanIsBacked'
  <2> SUFFICES ASSUME NEW d \in Clients, plan'[d].steps # {}
               PROVE  plan'[d].steps \subseteq EventsOf(plan'[d].trace) /\ Whole(plan'[d].steps)
    BY <1>1 DEF PlanIsBacked, EventsOf, TraceOf, Whole, AddedBy
  <2>1. CASE d = c
    BY <1>2, <1>3, <2>1 DEF DetailInv, ReaderType
  <2>2. CASE d # c
    BY <1>2, <2>2 DEF DetailInv, ReaderType, PlanIsBacked
  <2> QED
    BY <2>1, <2>2
<1> QED
  BY <1>1, <1>4, <1>5, <1>6 DEF DetailInv

\* Every step keeps the invariant.
LEMMA NextDetailInv == DetailInv /\ [DetailNext]_detailVars => DetailInv'
<1> SUFFICES ASSUME DetailInv, [DetailNext]_detailVars
             PROVE  DetailInv'
  OBVIOUS
<1>1. CASE UNCHANGED detailVars
  BY <1>1, OthersKeep DEF detailVars
<1>2. CASE DetailNext
  BY <1>2, OthersKeep, SelectTraceKeeps, SelectEventsKeeps, ReadManifestKeeps DEF DetailNext
<1> QED
  BY <1>1, <1>2

LEMMA SpecDetailInv == DetailSpec => []DetailInv
  BY InitDetailInv, NextDetailInv, PTL DEF DetailSpec

\* An answer has the events of the batches that its trace row speaks of.
THEOREM AnswersCoverTheirRow == DetailSpec => []AnswerCoversRow
  BY SpecDetailInv, PTL DEF DetailInv

\* A manifest that was read stays a list of events of its trace.
THEOREM PlansStayBacked == DetailSpec => []PlanIsBacked
  BY SpecDetailInv, PTL DEF DetailInv
=============================================================================
