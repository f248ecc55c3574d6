------------------------- MODULE ReplayDetailProofs -------------------------
(***************************************************************************)
(* Proofs about ReplayLifecycle and its reader ReplayDetail, for any sets  *)
(* of replays and clients and any number of steps.                         *)
(*                                                                         *)
(* The argument: the rows of an ended replay are true (EndedIsTrue) and no *)
(* transaction touches them again (EndedStays).  A reader that has seen    *)
(* "completed" or "failed" in the job's row therefore still holds the      *)
(* current row, and the step rows it reads next are the final ones.        *)
(***************************************************************************)
EXTENDS ReplayDetail, FiniteSetTheorems, WellFoundedInduction, TLAPS

JobStatus == {"absent", "queued", "running"} \cup Finished
StepStatus == {"absent", "pending", "running"} \cup Ended

Counts == [passed : Nat, failed : Nat] \cup {None}

LifecycleType ==
  /\ jobStatus \in [Replays -> JobStatus]
  /\ plan \in [Replays -> SUBSET Steps]
  /\ stepStatus \in [Replays -> [Steps -> StepStatus]]
  /\ summary \in [Replays -> Counts]

\* What an ended replay's rows say of each other.
TrueRows(r) ==
  /\ \A i \in Steps : stepStatus[r][i] \in Ended
  /\ jobStatus[r] = "completed" <=> StepsWith(r, "failed") = {}
  /\ summary[r] = CountOf(r)

EndedIsTrue == \A r \in Replays : jobStatus[r] \in Finished => TrueRows(r)

LInv == LifecycleType /\ EndedIsTrue

\* The rows of r are as they were.
SameRows(r) ==
  /\ jobStatus'[r] = jobStatus[r]
  /\ stepStatus'[r] = stepStatus[r]
  /\ summary'[r] = summary[r]

EndedStays == \A r \in Replays : jobStatus[r] \in Finished => SameRows(r)

-----------------------------------------------------------------------------
\* What is said of a replay's rows depends on those rows only.
LEMMA RowsDecide ==
  ASSUME NEW r \in Replays, SameRows(r)
  PROVE  TrueRows(r)' <=> TrueRows(r)
  BY DEF SameRows, TrueRows, StepsWith, CountOf

\* The empty database has its types and no replay that has ended.
LEMMA InitLInv == Init => LInv
  BY DEF Init, LInv, LifecycleType, EndedIsTrue, Counts, JobStatus, StepStatus, Finished, Ended

\* The counts of a replay's rows are numbers.
LEMMA CountIsCounts == ASSUME NEW r PROVE CountOf(r) \in Counts
<1>1. ASSUME NEW s PROVE Cardinality(StepsWith(r, s)) \in Nat
  <2>1. IsFiniteSet(Steps)
    BY LifecycleAssumption, FS_Interval DEF Steps
  <2>2. StepsWith(r, s) \subseteq Steps
    BY DEF StepsWith
  <2> QED
    BY <2>1, <2>2, FS_Subset, FS_CardinalityType
<1> QED
  BY <1>1 DEF CountOf, Counts

\* Every transaction keeps the types.
LEMMA NextType == LifecycleType /\ [Next]_lifecycleVars => LifecycleType'
<1> SUFFICES ASSUME LifecycleType, [Next]_lifecycleVars
             PROVE  LifecycleType'
  OBVIOUS
<1> USE DEF LifecycleType, JobStatus, StepStatus, Finished, Ended
<1>1. CASE UNCHANGED lifecycleVars
  BY <1>1 DEF lifecycleVars
<1>2. CASE Next
  <2>1. ASSUME NEW r \in Replays, NEW P \in SUBSET Steps, Schedule(r, P)
        PROVE  LifecycleType'
    BY <2>1 DEF Schedule
  <2>2. ASSUME NEW r \in Replays, Claim(r)
        PROVE  LifecycleType'
    BY <2>2 DEF Claim
  <2>3. ASSUME NEW r \in Replays, NEW i \in Steps, StartStep(r, i)
        PROVE  LifecycleType'
    BY <2>3 DEF StartStep
  <2>4. ASSUME NEW r \in Replays, NEW i \in Steps, EndStep(r, i)
        PROVE  LifecycleType'
    BY <2>4 DEF EndStep
  <2>5. ASSUME NEW r \in Replays, Complete(r)
        PROVE  LifecycleType'
    BY <2>5, CountIsCounts DEF Complete
  <2> QED
    BY <1>2, <2>1, <2>2, <2>3, <2>4, <2>5 DEF Next
<1> QED
  BY <1>1, <1>2

\* No transaction touches the rows of a replay that has ended.
LEMMA NextStays == LifecycleType /\ [Next]_lifecycleVars => EndedStays
<1> SUFFICES ASSUME LifecycleType, [Next]_lifecycleVars,
                    NEW q \in Replays, jobStatus[q] \in Finished
             PROVE  SameRows(q)
  BY DEF EndedStays
<1> USE DEF LifecycleType, SameRows, Finished
<1>1. CASE UNCHANGED lifecycleVars
  BY <1>1 DEF lifecycleVars
<1>2. ASSUME NEW r \in Replays, NEW P \in SUBSET Steps, Schedule(r, P)
      PROVE  SameRows(q)
  BY <1>2 DEF Schedule
<1>3. ASSUME NEW r \in Replays, Claim(r)
      PROVE  SameRows(q)
  BY <1>3 DEF Claim
<1>4. ASSUME NEW r \in Replays, NEW i \in Steps, StartStep(r, i) \/ EndStep(r, i)
      PROVE  SameRows(q)
  BY <1>4 DEF StartStep, EndStep
<1>5. ASSUME NEW r \in Replays, Complete(r)
      PROVE  SameRows(q)
  BY <1>5 DEF Complete
<1> QED
  BY <1>1, <1>2, <1>3, <1>4, <1>5 DEF Next

\* A replay ends with rows that are true.
LEMMA NextLInv == LInv /\ [Next]_lifecycleVars => LInv'
<1> SUFFICES ASSUME LInv, [Next]_lifecycleVars, LifecycleType',
                    NEW q \in Replays, jobStatus'[q] \in Finished
             PROVE  TrueRows(q)'
  BY NextType DEF LInv, EndedIsTrue
<1> USE DEF LInv, LifecycleType, Finished
<1>1. CASE jobStatus[q] \in Finished
  BY <1>1, NextStays, RowsDecide DEF EndedStays, EndedIsTrue
<1>2. CASE jobStatus[q] \notin Finished
  <2>1. Complete(q)
    <3>1. jobStatus'[q] # jobStatus[q]
      BY <1>2
    <3>2. ASSUME NEW r \in Replays, NEW P \in SUBSET Steps, Schedule(r, P) PROVE FALSE
      BY <3>1, <3>2 DEF Schedule
    <3>3. ASSUME NEW r \in Replays, Claim(r) PROVE FALSE
      BY <3>1, <3>3 DEF Claim
    <3>4. ASSUME NEW r \in Replays, NEW i \in Steps, StartStep(r, i) \/ EndStep(r, i)
          PROVE  FALSE
      BY <3>1, <3>4 DEF StartStep, EndStep
    <3>5. ASSUME NEW r \in Replays, Complete(r) PROVE r = q
      BY <3>1, <3>5 DEF Complete
    <3> QED
      BY <3>1, <3>2, <3>3, <3>4, <3>5 DEF Next, lifecycleVars
  <2>2. stepStatus' = stepStatus /\ summary'[q] = CountOf(q)
        /\ jobStatus'[q] = IF StepsWith(q, "failed") = {} THEN "completed" ELSE "failed"
    BY <2>1 DEF Complete
  <2>3. StepsWith(q, "failed")' = StepsWith(q, "failed") /\ CountOf(q)' = CountOf(q)
    BY <2>2 DEF StepsWith, CountOf
  <2> QED
    BY <2>1, <2>2, <2>3 DEF TrueRows, Complete
<1> QED
  BY <1>1, <1>2

-----------------------------------------------------------------------------
Columns == [status : JobStatus, counts : Counts] \cup {None}

ReadType ==
  /\ target \in [Clients -> Replays \cup {None}]
  /\ taken \in [Clients -> 0..2]
  /\ job \in [Clients -> Columns]
  /\ rows \in [Clients -> [Steps -> StepStatus] \cup {None}]

\* A reader that saw the end of its replay holds the current rows.
SawTheEnd(c) ==
  taken[c] > 0 =>
    /\ target[c] \in Replays
    /\ job[c].status \in Finished =>
         /\ job[c] = JobRow(target[c])
         /\ taken[c] = 2 => rows[c] = stepStatus[target[c]]

DInv == LInv /\ ReadType /\ \A c \in Clients : SawTheEnd(c)

\* Nobody has read anything yet.
LEMMA InitDInv == DetailInit => DInv
  BY InitLInv DEF DetailInit, ReadInit, DInv, ReadType, SawTheEnd, Columns

\* The worker's transactions leave a reader that saw the end with current rows.
LEMMA WriterKeeps ==
  ASSUME DInv, [Next]_lifecycleVars, UNCHANGED readVars
  PROVE  DInv'
<1>1. LInv' /\ ReadType'
  BY NextLInv DEF DInv, readVars, ReadType
<1>2. ASSUME NEW c \in Clients PROVE SawTheEnd(c)'
  <2>1. UNCHANGED <<taken, target, job, rows>>
    BY DEF readVars
  <2>2. CASE taken[c] > 0 /\ job[c].status \in Finished
    <3>1. target[c] \in Replays /\ job[c] = JobRow(target[c])
      BY <2>2 DEF DInv, SawTheEnd
    <3>2. SameRows(target[c])
      BY <2>2, <3>1, NextStays DEF DInv, LInv, EndedStays, JobRow
    <3> QED
      BY <2>1, <2>2, <3>1, <3>2 DEF DInv, SawTheEnd, SameRows, JobRow
  <2> QED
    BY <2>1, <2>2 DEF DInv, SawTheEnd
<1> QED
  BY <1>1, <1>2 DEF DInv

\* A reader reads what is current, and its steps after its job.
LEMMA ReaderKeeps ==
  ASSUME DInv, NEW c \in Clients,
         (\E r \in Replays : Ask(c, r)) \/ Select(c) \/ NotFound(c)
  PROVE  DInv'
<1>1. UNCHANGED lifecycleVars
  BY DEF Ask, Select, NotFound
<1>2. LInv'
  BY <1>1, NextLInv DEF DInv
<1>3. UNCHANGED <<jobStatus, stepStatus, summary>>
  BY <1>1 DEF lifecycleVars
<1>4. CASE \E r \in Replays : Ask(c, r)
  <2> PICK r \in Replays : Ask(c, r)
    BY <1>4
  <2>1. ReadType'
    BY DEF Ask, DInv, ReadType, Columns
  <2>2. ASSUME NEW d \in Clients PROVE SawTheEnd(d)'
    BY <1>3 DEF Ask, DInv, ReadType, SawTheEnd, JobRow
  <2> QED
    BY <1>2, <2>1, <2>2 DEF DInv
<1>5. CASE Select(c)
  <2>1. taken[c] \in 0..1 /\ taken' = [taken EXCEPT ![c] = @ + 1] /\ target' = target
        /\ target[c] \in Replays
    BY <1>5 DEF Select, Selects, DInv, ReadType
  <2>2. taken[c] = 0 => job' = [job EXCEPT ![c] = JobRow(target[c])] /\ rows' = rows
    BY <1>5, <2>1 DEF Select, Selects, DInv, ReadType
  <2>3. taken[c] = 1 => rows' = [rows EXCEPT ![c] = stepStatus[target[c]]] /\ job' = job
    BY <1>5, <2>1 DEF Select, Selects, DInv, ReadType
  <2>4. ReadType'
    <3>1. JobRow(target[c]) \in Columns /\ stepStatus[target[c]] \in [Steps -> StepStatus]
      BY <2>1 DEF DInv, LInv, LifecycleType, JobRow, Columns
    <3> QED
      BY <2>1, <2>2, <2>3, <3>1 DEF DInv, ReadType
  <2>5. ASSUME NEW d \in Clients PROVE SawTheEnd(d)'
    <3>1. CASE d # c
      BY <1>3, <2>1, <2>2, <2>3, <3>1 DEF DInv, ReadType, SawTheEnd, JobRow
    <3>2. CASE d = c /\ taken[c] = 0
      BY <1>3, <2>1, <2>2, <3>2 DEF DInv, ReadType, SawTheEnd, JobRow
    <3>3. CASE d = c /\ taken[c] = 1
      BY <1>3, <2>1, <2>3, <3>3 DEF DInv, ReadType, SawTheEnd, JobRow
    <3> QED
      BY <2>1, <3>1, <3>2, <3>3
  <2> QED
    BY <1>2, <2>4, <2>5 DEF DInv
<1>6. CASE NotFound(c)
  <2>1. ReadType'
    BY <1>6 DEF NotFound, DInv, ReadType
  <2>2. ASSUME NEW d \in Clients PROVE SawTheEnd(d)'
    BY <1>3, <1>6 DEF NotFound, DInv, ReadType, SawTheEnd, JobRow
  <2> QED
    BY <1>2, <2>1, <2>2 DEF DInv
<1> QED
  BY <1>4, <1>5, <1>6

\* DInv is inductive.
LEMMA NextDInv == DInv /\ [DetailNext]_detailVars => DInv'
<1>1. ASSUME DInv, UNCHANGED detailVars PROVE DInv'
  BY <1>1, WriterKeeps DEF detailVars
<1> QED
  BY <1>1, WriterKeeps, ReaderKeeps DEF DetailNext, Read

-----------------------------------------------------------------------------
\* A set of steps that is not empty has a first one.
LEMMA FirstStep ==
  ASSUME NEW B \in SUBSET Steps, B # {}
  PROVE  \E i \in B : \A j \in B : i <= j
<1> DEFINE upTo(i) == 1..i
           T == {upTo(i) : i \in B}
<1>1. T \subseteq FiniteSubsetsOf(Nat) /\ T # {}
  <2>1. ASSUME NEW i \in B PROVE upTo(i) \in FiniteSubsetsOf(Nat)
    <3>1. i \in Nat
      BY LifecycleAssumption DEF Steps
    <3>2. IsFiniteSet(upTo(i)) /\ upTo(i) \subseteq Nat
      BY <3>1, FS_Interval
    <3> QED
      BY <3>2 DEF FiniteSubsetsOf
  <2> QED
    BY <2>1
<1>2. PICK X \in T : \A Y \in T : ~(<<Y, X>> \in StrictSubsetOrdering(Nat))
  <2> HIDE DEF T
  <2> QED
    BY <1>1, FS_StrictSubsetOrderingWellFounded, WFMin
<1>3. PICK i \in B : X = upTo(i)
  OBVIOUS
<1>4. ASSUME NEW j \in B PROVE i <= j
  <2>1. i \in Nat \ {0} /\ j \in Nat \ {0}
    BY LifecycleAssumption DEF Steps
  <2>2. SUFFICES ASSUME j < i PROVE FALSE
    BY <2>1
  <2>3. upTo(j) \in SUBSET Nat /\ upTo(i) \in SUBSET Nat /\ upTo(j) \subseteq upTo(i)
    BY <2>1, <2>2
  <2>4. i \in upTo(i) /\ i \notin upTo(j)
    BY <2>1, <2>2
  <2>5. <<upTo(j), upTo(i)>> \in StrictSubsetOrdering(Nat)
    <3> HIDE DEF upTo
    <3> QED
      BY <2>3, <2>4 DEF StrictSubsetOrdering
  <2> QED
    BY <1>2, <1>3, <2>5
<1> QED
  BY <1>4

\* The first failed step of an answer is null exactly when no step in it failed.
LEMMA FirstFailedIsNull ==
  ASSUME NEW c \in Clients
  PROVE  FirstFailed(c) = 0 <=> {i \in Steps : rows[c][i] = "failed"} = {}
<1> DEFINE bad == {i \in Steps : rows[c][i] = "failed"}
<1>1. CASE bad = {}
  BY <1>1 DEF FirstFailed
<1>2. CASE bad # {}
  <2>1. \E i \in bad : \A j \in bad : i <= j
    BY <1>2, FirstStep
  <2>2. FirstFailed(c) \in bad
    BY <1>2, <2>1 DEF FirstFailed
  <2> QED
    BY <1>2, <2>2, LifecycleAssumption DEF Steps
<1> QED
  BY <1>1, <1>2

\* The response of a reader in such a state is final and true.
LEMMA DInvFinal == DInv => EndedAnswerIsFinal
<1> SUFFICES ASSUME DInv, NEW c \in Clients, Answered(c), job[c].status \in Finished
             PROVE  /\ \A i \in Steps : rows[c][i] \in Ended
                    /\ job[c].status = "completed" <=> FirstFailed(c) = 0
                    /\ job[c].counts.failed
                         = Cardinality({i \in Steps : rows[c][i] = "failed"})
                    /\ job[c] = JobRow(target[c]) /\ rows[c] = stepStatus[target[c]]
  BY DEF EndedAnswerIsFinal
<1>1. taken[c] = 2
  BY DEF Answered, Selects
<1>2. /\ target[c] \in Replays
      /\ job[c] = JobRow(target[c]) /\ rows[c] = stepStatus[target[c]]
  BY <1>1 DEF DInv, SawTheEnd
<1>3. TrueRows(target[c])
  BY <1>2 DEF DInv, LInv, EndedIsTrue, JobRow
<1>4. StepsWith(target[c], "failed") = {i \in Steps : rows[c][i] = "failed"}
  BY <1>2 DEF StepsWith
<1>5. job[c].status = jobStatus[target[c]] /\ job[c].counts = CountOf(target[c])
  BY <1>2, <1>3 DEF TrueRows, JobRow
<1>6. job[c].counts.failed = Cardinality({i \in Steps : rows[c][i] = "failed"})
  BY <1>4, <1>5 DEF CountOf
<1>7. job[c].status = "completed" <=> FirstFailed(c) = 0
  BY <1>3, <1>4, <1>5, FirstFailedIsNull DEF TrueRows
<1>8. \A i \in Steps : rows[c][i] \in Ended
  BY <1>2, <1>3 DEF TrueRows
<1> QED
  BY <1>2, <1>6, <1>7, <1>8

\* A client that is told a replay has ended is told the truth, for good, although
\* the job and its steps are read at two moments.
THEOREM EndedAnswersAreFinal == DetailSpec => []EndedAnswerIsFinal
  BY InitDInv, NextDInv, DInvFinal, PTL DEF DetailSpec
=============================================================================
