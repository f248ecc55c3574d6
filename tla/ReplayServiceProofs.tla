------------------------ MODULE ReplayServiceProofs ------------------------
(***************************************************************************)
(* Proofs about ReplayService, for any sets of replays and workers and any *)
(* number of steps.                                                        *)
(*                                                                         *)
(* The invariant is IInv == TypeOK /\ WorkerInv /\ ApiInv.                 *)
(*                                                                         *)
(* WorkerInv says where the rows of a replay stand with respect to the     *)
(* worker that has it in hand.  SoleExecutor alone is not inductive: a     *)
(* second claim is excluded because a lock holder's job is still queued    *)
(* and no other worker holds its lock (Claiming).  FinishedIsComplete      *)
(* needs that the rows behind the executor are what its counters say       *)
(* (RowsSoFar), which needs that it began from pending rows (NotStarted)   *)
(* with fresh counters (FreshStart).                                       *)
(*                                                                         *)
(* ApiInv follows a request: AcceptedIsStored needs that one request       *)
(* flushes at a time (OneFlush) and that its message is in the queue, in   *)
(* the topic, or in the list of delivery errors (FlushPending);            *)
(* PublishedHasRow needs that a request past its commit has rows (HasRow). *)
(*                                                                         *)
(* On top of IInv, ProgressInv follows the progress messages through queue *)
(* and topic and FlushInv those of the replay in hand; both rest on the    *)
(* fact that nobody but its executor touches a claimed replay              *)
(* (ClaimedStep).  AckInv says that a message is acknowledged only for a   *)
(* claimed replay.  At the end the clients of ReplaySystem are added.      *)
(***************************************************************************)
EXTENDS ReplaySystem, FiniteSetTheorems, TLAPS

LoopProofs == INSTANCE ConsumerLoopProofs WITH Consumers <- Workers, Messages <- Replays

-----------------------------------------------------------------------------
(***************************************************************************)
(* The service runs a consumer group: every step is a step of ConsumerLoop *)
(* or leaves the group alone, so what is proved of ConsumerLoop holds here.*)
(***************************************************************************)

LEMMA LoopAssumption == LoopProofs!ConsumerAssumption
  BY ServiceAssumption DEF LoopProofs!ConsumerAssumption

\* The API touches the group only by producing.
LEMMA ApiLoopStep == TypeOK /\ ApiNext => [Loop!Next]_loop
<1> SUFFICES ASSUME TypeOK, ApiNext
             PROVE  [Loop!Next]_loop
  OBVIOUS
<1>1. ASSUME NEW r \in Replays,
             \/ \E P \in SUBSET Steps : CreateReplay(r, P)
             \/ Publish(r) \/ PublishRaises(r) \/ FlushAccepts(r) \/ FlushRaises(r)
      PROVE  UNCHANGED loop
  BY <1>1 DEF CreateReplay, Publish, PublishRaises, FlushAccepts, FlushRaises
<1>2. CASE DeliverRequest \/ LoseRequest
  <2>1. Head(outbox) \in Replays
    BY <1>2 DEF TypeOK, DeliverRequest, LoseRequest
  <2> QED
    BY <1>2, <2>1 DEF DeliverRequest, LoseRequest, Loop!Next
<1>3. CASE ApiCrash
  BY <1>3 DEF ApiCrash
<1> QED
  BY <1>1, <1>2, <1>3 DEF ApiNext

\* Every step of a worker is a step of its consumer or leaves the group alone.
LEMMA WorkerLoopStep ==
  ASSUME NEW w \in Workers, WorkerNext(w)
  PROVE  [Loop!Next]_loop
<1>1. CASE Run(w)
  BY <1>1 DEF Run, SelectJob, ClaimJob, StartStep, EndStep, Report, CompleteJob,
              FlushReturns
<1>2. CASE Receive(w)
  BY <1>2 DEF Receive, Loop!Next
<1>3. CASE FlushFails(w) \/ Abort(w)
  BY <1>3 DEF FlushFails, Abort, Loop!Next
<1>4. CASE Acknowledge(w)
  BY <1>4 DEF Acknowledge, Loop!Next
<1>5. CASE Crash(w)
  BY <1>5 DEF Crash, Loop!Next, Loop!Fault
<1>6. CASE Regroup(w)
  BY <1>6 DEF Regroup, Loop!Next, Loop!Fault
<1>7. CASE SendProgress(w) \/ LoseProgress(w)
  BY <1>7 DEF SendProgress, LoseProgress
<1> QED
  BY <1>1, <1>2, <1>3, <1>4, <1>5, <1>6, <1>7 DEF WorkerNext

\* Loop and LoopProofs are the same group.
LEMMA SameGroup ==
  /\ Loop!TypeOK <=> LoopProofs!TypeOK
  /\ Loop!Init <=> LoopProofs!Init
  /\ Loop!Next <=> LoopProofs!Next
  /\ loop = LoopProofs!vars
  BY DEF Loop!TypeOK, LoopProofs!TypeOK, Loop!Init, LoopProofs!Init,
         Loop!Next, LoopProofs!Next, Loop!Fault, LoopProofs!Fault,
         Loop!Produce, LoopProofs!Produce, Loop!Stored, LoopProofs!Stored,
         Loop!Assign, LoopProofs!Assign, Loop!Revoke, LoopProofs!Revoke,
         Loop!Poll, LoopProofs!Poll, Loop!Commit, LoopProofs!Commit,
         Loop!CommitRaises, LoopProofs!CommitRaises,
         Loop!HandlerRaises, LoopProofs!HandlerRaises,
         Loop!Crash, LoopProofs!Crash, Loop!Restart, LoopProofs!Restart,
         loop, LoopProofs!vars

\* The group's type invariant holds at every step that the group allows.
LEMMA LoopType == Loop!TypeOK /\ [Loop!Next]_loop => Loop!TypeOK'
<1>1. LoopProofs!TypeOK /\ [LoopProofs!Next]_(LoopProofs!vars) => LoopProofs!TypeOK'
  BY LoopProofs!NextTypeOK, LoopAssumption
<1>2. [Loop!Next]_loop => [LoopProofs!Next]_(LoopProofs!vars)
  BY SameGroup DEF loop, LoopProofs!vars
<1>3. Loop!TypeOK' <=> LoopProofs!TypeOK'
  BY DEF Loop!TypeOK, LoopProofs!TypeOK
<1> QED
  BY <1>1, <1>2, <1>3, SameGroup

-----------------------------------------------------------------------------
(***************************************************************************)
(* The inductive invariant.                                                *)
(***************************************************************************)

\* A worker is in the handler exactly while it holds a message.
InHand == \A w \in Workers : (phase[w] = "idle") <=> (cursor[w] = 0)

\* The job a worker is about to claim is queued, and nobody else's to claim.
Claiming ==
  \A w \in Workers : phase[w] = "claim" =>
    /\ jobStatus[Handled(w)] = "queued"
    /\ \A v \in Workers : phase[v] = "claim" /\ Handled(v) = Handled(w) => v = w

\* What the row of step j must show while w executes r.
Shown(w, r, j) ==
  IF j < step[w] \/ (j = step[w] /\ phase[w] = "report") THEN Outcome(r, j)
  ELSE IF j = step[w] /\ phase[w] = "exec" THEN "running" ELSE "pending"

\* The rows and the counters agree with the place of their executor in the loop.
RowsOf(w, r) ==
  /\ phase[w] # "next" => step[w] <= NumSteps
  /\ \A j \in Steps : stepStatus[r][j] = Shown(w, r, j)
  /\ \A s \in Ended : tally[w][s] = CountUpTo(r, step[w] - 1, s)

RowsSoFar == \A w \in Workers, r \in Replays : Executing(w, r) => RowsOf(w, r)

\* Every activation of run_replay begins at the first step with fresh counters.
FreshStart ==
  \A w \in Workers : phase[w] \in {"idle", "select", "claim"} =>
    step[w] = 1 /\ tally[w] = NoTally

\* Nobody touches the steps of a queued job, or sums up a job that is not finished.
NotStarted ==
  \A r \in Replays :
    /\ jobStatus[r] = "queued" => \A j \in Steps : stepStatus[r][j] = "pending"
    /\ jobStatus[r] \notin Finished => summary[r] = None

WorkerInv ==
  /\ InHand /\ Claiming /\ SoleExecutor /\ RowsSoFar /\ FreshStart
  /\ NotStarted /\ FinishedIsComplete

-----------------------------------------------------------------------------
\* Counting the steps up to i, one at a time.
LEMMA CountBound ==
  ASSUME NEW r \in Replays, NEW i \in Nat, NEW s
  PROVE  /\ IsFiniteSet({j \in 1..i : stepStatus[r][j] = s})
         /\ CountUpTo(r, i, s) \in 0..i
<1>1. IsFiniteSet(1..i) /\ Cardinality(1..i) = i
  BY FS_Interval
<1>2. {j \in 1..i : stepStatus[r][j] = s} \subseteq 1..i
  OBVIOUS
<1>3. /\ IsFiniteSet({j \in 1..i : stepStatus[r][j] = s})
      /\ Cardinality({j \in 1..i : stepStatus[r][j] = s}) <= i
  BY <1>1, <1>2, FS_Subset
<1>4. Cardinality({j \in 1..i : stepStatus[r][j] = s}) \in Nat
  BY <1>3, FS_CardinalityType
<1> QED
  BY <1>3, <1>4 DEF CountUpTo

\* No step has been counted before the first.
LEMMA CountNone == ASSUME NEW r, NEW s PROVE CountUpTo(r, 0, s) = 0
<1>1. {j \in 1..0 : stepStatus[r][j] = s} = {}
  OBVIOUS
<1> QED
  BY <1>1, FS_EmptySet DEF CountUpTo

\* The next step is counted exactly when it has the status counted.
LEMMA CountNext ==
  ASSUME NEW r \in Replays, NEW i \in Nat \ {0}, NEW s
  PROVE  CountUpTo(r, i, s) =
           CountUpTo(r, i - 1, s) + (IF stepStatus[r][i] = s THEN 1 ELSE 0)
<1> DEFINE Before == {j \in 1..(i - 1) : stepStatus[r][j] = s}
           Now == {j \in 1..i : stepStatus[r][j] = s}
<1>1. IsFiniteSet(Before) /\ Cardinality(Before) \in Nat
  BY CountBound, i - 1 \in Nat, FS_CardinalityType
<1>2. CASE stepStatus[r][i] = s
  <2>1. Now = Before \cup {i} /\ i \notin Before
    BY <1>2
  <2> QED
    BY <1>1, <1>2, <2>1, FS_AddElement DEF CountUpTo
<1>3. CASE stepStatus[r][i] # s
  <2>1. Now = Before
    BY <1>3
  <2> QED
    BY <1>1, <1>3, <2>1 DEF CountUpTo
<1> QED
  BY <1>2, <1>3

-----------------------------------------------------------------------------
(***************************************************************************)
(* Types.                                                                  *)
(***************************************************************************)

\* A worker that is not idle handles a message that is in the log.
LEMMA HandledIsReplay ==
  ASSUME TypeOK, InHand, NEW w \in Workers, phase[w] # "idle"
  PROVE  cursor[w] \in 1..Len(log) /\ Handled(w) \in Replays
<1>1. cursor[w] \in 0..Len(log) /\ cursor[w] # 0 /\ log \in Seq(Replays)
  BY DEF TypeOK, InHand, Loop!TypeOK
<1> QED
  BY <1>1 DEF Handled

\* The initial state has its types.
LEMMA InitType == Init => TypeOK
<1> SUFFICES ASSUME Init
             PROVE  TypeOK
  OBVIOUS
<1>1. Loop!TypeOK
  BY LoopProofs!InitTypeOK, LoopAssumption, SameGroup DEF Init
<1>2. <<>> \in Seq(Replays) /\ <<>> \in Seq(Message)
  OBVIOUS
<1>3. NoTally \in Tally /\ 1 \in 1..(NumSteps + 1)
  BY ServiceAssumption DEF NoTally, Tally
<1>4. /\ jobStatus \in [Replays -> {"absent", "queued", "running"} \cup Finished]
      /\ plan \in [Replays -> SUBSET Steps]
      /\ stepStatus \in [Replays -> [Steps -> {"absent", "pending", "running"} \cup Ended]]
      /\ summary \in [Replays -> Tally \cup {None}]
      /\ jobWorker \in [Replays -> Workers \cup {None}]
  BY DEF Init
<1>5. /\ outbox \in Seq(Replays)
      /\ unsent \in [Workers -> Seq(Message)]
      /\ progress \in [Replays -> Seq(Message)]
  BY <1>2 DEF Init
<1>6. /\ request \in [Replays -> Request]
      /\ deliveryErrors \in BOOLEAN
      /\ phase \in [Workers -> Phase]
      /\ step \in [Workers -> 1..(NumSteps + 1)]
      /\ tally \in [Workers -> Tally]
      /\ sendErrors \in [Workers -> BOOLEAN]
  BY <1>3 DEF Init, Request, Phase
<1> QED
  BY <1>1, <1>4, <1>5, <1>6 DEF TypeOK

\* What remains of a queue is a queue of the same messages.
LEMMA TailOfQueue ==
  /\ <<>> \in Seq(Replays)
  /\ \A q \in Seq(Replays) : q # <<>> => Tail(q) \in Seq(Replays)
  OBVIOUS

\* The API keeps the types.
LEMMA ApiType == TypeOK /\ ApiNext => TypeOK'
<1> SUFFICES ASSUME TypeOK, ApiNext
             PROVE  TypeOK'
  OBVIOUS
<1>1. Loop!TypeOK'
  BY LoopType, ApiLoopStep DEF TypeOK
<1> USE <1>1 DEF TypeOK, database, api, loop, control, sending
<1>2. ASSUME NEW r \in Replays, NEW P \in SUBSET Steps, CreateReplay(r, P)
      PROVE  TypeOK'
  BY <1>2 DEF CreateReplay, Request
<1>3. ASSUME NEW r \in Replays, Publish(r)
      PROVE  TypeOK'
  BY <1>3 DEF Publish, Request
<1>4. ASSUME NEW r \in Replays, PublishRaises(r) \/ FlushAccepts(r)
      PROVE  TypeOK'
  BY <1>4 DEF PublishRaises, FlushAccepts, Request
<1>5. ASSUME NEW r \in Replays, FlushRaises(r)
      PROVE  TypeOK'
  BY <1>5 DEF FlushRaises, Request
<1>6. CASE DeliverRequest \/ LoseRequest
  <2>1. outbox' \in Seq(Replays)
    <3>1. outbox # <<>> /\ outbox' = Tail(outbox)
      BY <1>6 DEF DeliverRequest, LoseRequest
    <3> QED
      BY <3>1, TailOfQueue
  <2>2. deliveryErrors' \in BOOLEAN
    BY <1>6 DEF DeliverRequest, LoseRequest
  <2> QED
    BY <1>6, <2>1, <2>2 DEF DeliverRequest, LoseRequest
<1>7. CASE ApiCrash
  <2>1. outbox' = <<>> /\ deliveryErrors' = FALSE
    BY <1>7 DEF ApiCrash
  <2>2. request' \in [Replays -> Request]
    BY <1>7 DEF ApiCrash, Request
  <2> QED
    BY <1>7, <2>1, <2>2, TailOfQueue DEF ApiCrash
<1> QED
  BY <1>2, <1>3, <1>4, <1>5, <1>6, <1>7 DEF ApiNext

\* The counters stay in range because they count rows.
LEMMA ReportType ==
  ASSUME TypeOK, InHand, RowsSoFar, NEW w \in Workers, Report(w)
  PROVE  /\ step' \in [Workers -> 1..(NumSteps + 1)]
         /\ tally' \in [Workers -> Tally]
         /\ unsent' \in [Workers -> Seq(Message)]
<1> DEFINE r == Handled(w)
           i == step[w]
           s == Outcome(r, i)
           t == [tally[w] EXCEPT ![s] = @ + 1]
<1>1. r \in Replays /\ i \in Steps /\ s \in Ended
  <2>1. r \in Replays /\ Executing(w, r)
    BY HandledIsReplay DEF Report, Executing
  <2>2. i \in 1..(NumSteps + 1) /\ i <= NumSteps
    BY <2>1 DEF TypeOK, RowsSoFar, RowsOf, Report
  <2> QED
    BY <2>1, <2>2, ServiceAssumption DEF Outcome, Ended, Steps
<1>2. tally[w][s] \in 0..(i - 1)
  <2>1. tally[w][s] = CountUpTo(r, i - 1, s)
    BY <1>1, HandledIsReplay DEF RowsSoFar, RowsOf, Report, Executing
  <2>2. i - 1 \in Nat
    BY <1>1, ServiceAssumption DEF Steps
  <2> QED
    BY <1>1, <2>1, <2>2, CountBound
<1>3. t \in Tally
  <2>1. tally[w] \in Tally
    BY DEF TypeOK
  <2>2. tally[w][s] + 1 \in 0..NumSteps
    BY <1>1, <1>2, ServiceAssumption DEF Steps
  <2> QED
    BY <1>1, <2>1, <2>2 DEF Tally, Ended
<1>4. [replay |-> r, step |-> i, status |-> s, counts |-> t] \in Message
  BY <1>1, <1>3 DEF Message
<1> HIDE DEF r, i, s, t
<1>5. step' \in [Workers -> 1..(NumSteps + 1)]
  BY <1>1, ServiceAssumption DEF TypeOK, Report, Steps, i
<1>6. tally' \in [Workers -> Tally]
  BY <1>3 DEF TypeOK, Report, r, i, s, t
<1>7. unsent' = [unsent EXCEPT ![w] =
                   Append(@, [replay |-> r, step |-> i, status |-> s, counts |-> t])]
  BY DEF Report, r, i, s, t
<1>8. unsent' \in [Workers -> Seq(Message)]
  BY <1>4, <1>7 DEF TypeOK
<1> QED
  BY <1>5, <1>6, <1>8

\* A worker keeps the types.
LEMMA WorkerType ==
  ASSUME TypeOK, InHand, RowsSoFar, NEW w \in Workers, WorkerNext(w)
  PROVE  TypeOK'
<1>0. Loop!TypeOK'
  BY LoopType, WorkerLoopStep DEF TypeOK
<1> USE <1>0 DEF TypeOK, database, api, loop, control, sending
<1>1. CASE Receive(w)
  BY <1>1 DEF Receive, Goto, Phase
<1>2. CASE SelectJob(w)
  BY <1>2 DEF SelectJob, Goto, Phase
<1>3. CASE ClaimJob(w)
  BY <1>3 DEF ClaimJob, Goto, Phase
<1>4. CASE StartStep(w)
  BY <1>4 DEF StartStep, Goto, Phase
<1>5. CASE EndStep(w)
  BY <1>5 DEF EndStep, Goto, Phase, Outcome, Ended
<1>6. CASE Report(w)
  BY <1>6, ReportType DEF Report, Goto, Phase
<1>7. CASE CompleteJob(w)
  BY <1>7 DEF CompleteJob, Goto, Phase, Finished
<1>8. CASE FlushReturns(w)
  BY <1>8 DEF FlushReturns, Goto, Phase
<1>9. ASSUME Leave(w)
      PROVE  /\ phase' \in [Workers -> Phase]
             /\ step' \in [Workers -> 1..(NumSteps + 1)]
             /\ tally' \in [Workers -> Tally]
  BY <1>9, ServiceAssumption DEF Leave, Phase, Tally, NoTally
<1>10. CASE FlushFails(w)
  BY <1>9, <1>10 DEF FlushFails
<1>11. CASE Acknowledge(w) \/ Abort(w)
  BY <1>9, <1>11 DEF Acknowledge, Abort
<1>12. CASE Crash(w)
  BY <1>9, <1>12 DEF Crash
<1>13. CASE Regroup(w)
  BY <1>13 DEF Regroup
<1>14. CASE SendProgress(w) \/ LoseProgress(w)
  <2>1. Head(unsent[w]) \in Message /\ Tail(unsent[w]) \in Seq(Message)
    <3>1. unsent[w] \in Seq(Message) /\ unsent[w] # <<>>
      BY <1>14 DEF SendProgress, LoseProgress
    <3> QED
      BY <3>1
  <2>2. unsent' \in [Workers -> Seq(Message)]
    BY <1>14, <2>1 DEF SendProgress, LoseProgress
  <2>3. ASSUME NEW m \in Message, Storing(m)
        PROVE  progress' \in [Replays -> Seq(Message)]
    <3>1. m.replay \in Replays
      BY DEF Message
    <3>2. Append(progress[m.replay], m) \in Seq(Message)
      BY <3>1
    <3> QED
      BY <2>3, <3>2 DEF Storing
  <2>4. progress' \in [Replays -> Seq(Message)]
    BY <1>14, <2>1, <2>3 DEF SendProgress, LoseProgress
  <2>5. sendErrors' \in [Workers -> BOOLEAN]
    BY <1>14 DEF SendProgress, LoseProgress
  <2> QED
    BY <1>14, <2>2, <2>4, <2>5 DEF SendProgress, LoseProgress
<1> QED
  BY <1>1, <1>2, <1>3, <1>4, <1>5, <1>6, <1>7, <1>8, <1>10, <1>11, <1>12, <1>13,
     <1>14 DEF WorkerNext, Run

-----------------------------------------------------------------------------
(***************************************************************************)
(* Steps that leave the rows alone.                                        *)
(***************************************************************************)

\* The log only grows, so a worker keeps the message it holds.
LEMMA LogGrows ==
  ASSUME Loop!TypeOK, [Loop!Next]_loop
  PROVE  \A o \in 1..Len(log) : o \in 1..Len(log') /\ log'[o] = log[o]
<1>1. ASSUME NEW m \in Replays, Loop!Produce(m)
      PROVE  \A o \in 1..Len(log) : o \in 1..Len(log') /\ log'[o] = log[o]
  <2>1. log \in Seq(Replays) /\ log' = Append(log, m)
    BY <1>1 DEF Loop!TypeOK, Loop!Produce
  <2> QED
    BY <2>1
<1>2. ASSUME log' = log
      PROVE  \A o \in 1..Len(log) : o \in 1..Len(log') /\ log'[o] = log[o]
  BY <1>2
<1>3. (\E m \in Replays : Loop!Produce(m)) \/ log' = log
  BY DEF Loop!Next, Loop!Assign, Loop!Poll, Loop!Commit, Loop!CommitRaises,
         Loop!HandlerRaises, Loop!Fault, Loop!Crash, Loop!Revoke, Loop!Restart, loop
<1> QED
  BY <1>1, <1>2, <1>3

\* What is said of a replay depends on its own rows only.
LEMMA SameRow ==
  ASSUME NEW q, stepStatus'[q] = stepStatus[q], plan'[q] = plan[q]
  PROVE  /\ \A i, s : CountUpTo(q, i, s)' = CountUpTo(q, i, s)
         /\ \A j : Outcome(q, j)' = Outcome(q, j)
         /\ Lifecycle!CountOf(q)' = Lifecycle!CountOf(q)
  BY DEF CountUpTo, Outcome, Lifecycle!CountOf, Lifecycle!StepsWith, Lifecycle!Steps

\* The rows keep following a worker while both stand still.
LEMMA SameRows ==
  ASSUME NEW v, NEW q, stepStatus'[q] = stepStatus[q], plan'[q] = plan[q],
         phase'[v] = phase[v], step'[v] = step[v], tally'[v] = tally[v], RowsOf(v, q)
  PROVE  RowsOf(v, q)'
  BY SameRow DEF RowsOf, Shown

\* A finished replay whose rows are unchanged stays complete.
LEMMA SameFinish ==
  ASSUME NEW q, stepStatus'[q] = stepStatus[q], plan'[q] = plan[q],
         summary'[q] = summary[q], jobStatus'[q] = jobStatus[q], FullyAttempted(q)
  PROVE  FullyAttempted(q)'
  BY SameRow DEF FullyAttempted

\* Worker v enters the handler, leaves it, goes on to its end, or stands still.
Moves(v) ==
  \/ /\ phase'[v] = "idle" /\ cursor'[v] = 0
     /\ step'[v] = 1 /\ tally'[v] = NoTally
  \/ /\ phase[v] = "idle" /\ phase'[v] = "select" /\ cursor'[v] # 0
     /\ step'[v] = step[v] /\ tally'[v] = tally[v]
  \/ phase'[v] = "ack" /\ phase[v] # "idle" /\ cursor'[v] = cursor[v]
  \/ /\ phase'[v] = phase[v] /\ cursor'[v] = cursor[v]
     /\ step'[v] = step[v] /\ tally'[v] = tally[v]

\* A worker inside run_replay that a step leaves there handles the same replay.
LEMMA SameReplay ==
  ASSUME TypeOK, InHand, [Loop!Next]_loop, NEW v \in Workers,
         phase[v] # "idle", cursor'[v] = cursor[v]
  PROVE  Handled(v)' = Handled(v)
  BY HandledIsReplay, LogGrows DEF Handled, TypeOK

\* A step that writes no row and moves a worker only within, or out of, run_replay
\* without claiming keeps WorkerInv.
LEMMA Frame ==
  ASSUME TypeOK, WorkerInv, [Loop!Next]_loop, UNCHANGED database,
         \A v \in Workers : Moves(v)
  PROVE  WorkerInv'
<1> USE DEF WorkerInv, database
<1>1. ASSUME NEW v \in Workers, phase'[v] \in {"claim", "next", "exec", "report"}
      PROVE  /\ phase'[v] = phase[v] /\ step'[v] = step[v] /\ tally'[v] = tally[v]
             /\ Handled(v)' = Handled(v)
  BY <1>1, SameReplay DEF Moves
<1>2. \A v \in Workers, r \in Replays : Executing(v, r)' => Executing(v, r)
  BY <1>1 DEF Executing
<1>3. InHand'
  BY DEF InHand, Moves
<1>4. Claiming'
  BY <1>1 DEF Claiming
<1>5. SoleExecutor'
  BY <1>2 DEF SoleExecutor
<1>6. RowsSoFar'
  BY <1>1, <1>2, SameRows DEF RowsSoFar, Executing
<1>7. FreshStart'
  BY DEF FreshStart, Moves
<1>8. NotStarted' /\ FinishedIsComplete'
  BY SameFinish DEF NotStarted, FinishedIsComplete
<1> QED
  BY <1>3, <1>4, <1>5, <1>6, <1>7, <1>8

-----------------------------------------------------------------------------
(***************************************************************************)
(* Steps that write the rows, or that move an executor.                    *)
(***************************************************************************)

\* The rows of a new replay appear while no worker can have it in hand.
LEMMA CreateKeeps ==
  ASSUME TypeOK, WorkerInv, NEW r \in Replays, NEW P \in SUBSET Steps,
         CreateReplay(r, P), jobStatus[r] = "absent"
  PROVE  WorkerInv'
<1> USE DEF WorkerInv, TypeOK
<1>1. /\ UNCHANGED <<phase, step, tally, cursor, log, summary, jobWorker>>
      /\ jobStatus' = [jobStatus EXCEPT ![r] = "queued"]
      /\ plan' = [plan EXCEPT ![r] = P]
      /\ stepStatus' = [stepStatus EXCEPT ![r] = [i \in Steps |-> "pending"]]
  BY DEF CreateReplay, control, loop
<1>2. \A q \in Replays : q # r => /\ jobStatus'[q] = jobStatus[q]
                                  /\ plan'[q] = plan[q]
                                  /\ stepStatus'[q] = stepStatus[q]
  BY <1>1
<1>3. \A v \in Workers : Handled(v)' = Handled(v)
  BY <1>1 DEF Handled
<1>4. \A v \in Workers : phase[v] = "claim" => Handled(v) \in Replays /\ Handled(v) # r
  BY HandledIsReplay DEF Claiming
<1>5. \A v \in Workers, q \in Replays : Executing(v, q)' => Executing(v, q) /\ q # r
  BY <1>1, <1>3 DEF Executing, SoleExecutor
<1>6. InHand'
  BY <1>1 DEF InHand
<1>7. Claiming'
  BY <1>1, <1>2, <1>3, <1>4 DEF Claiming
<1>8. SoleExecutor'
  BY <1>1, <1>2, <1>5 DEF SoleExecutor
<1>9. RowsSoFar' /\ FreshStart'
  BY <1>1, <1>2, <1>5, SameRows DEF RowsSoFar, FreshStart
<1>10. NotStarted'
  <2>1. jobStatus'[r] = "queued" /\ \A j \in Steps : stepStatus'[r][j] = "pending"
    BY <1>1
  <2>2. summary[r] = None
    BY DEF NotStarted, Finished
  <2> QED
    BY <1>1, <1>2, <2>1, <2>2 DEF NotStarted, Finished
<1>11. FinishedIsComplete'
  <2>1. jobStatus'[r] \notin Finished
    BY <1>1 DEF Finished
  <2> QED
    BY <1>1, <1>2, <2>1, SameFinish DEF FinishedIsComplete
<1> QED
  BY <1>6, <1>7, <1>8, <1>9, <1>10, <1>11

\* The select takes the lock only of a queued job that nobody else has locked.
LEMMA SelectKeeps ==
  ASSUME TypeOK, WorkerInv, NEW w \in Workers, SelectJob(w)
  PROVE  WorkerInv'
<1> USE DEF WorkerInv, TypeOK
<1>1. /\ UNCHANGED <<step, tally, cursor, log, database>>
      /\ phase[w] = "select" /\ ~Locked(Handled(w))
      /\ phase' = [phase EXCEPT ![w] =
                     IF jobStatus[Handled(w)] = "queued" THEN "claim" ELSE "ack"]
  BY DEF SelectJob, Goto, loop
<1>2. \A v \in Workers : Handled(v)' = Handled(v)
  BY <1>1 DEF Handled
<1>3. \A v \in Workers, q \in Replays : Executing(v, q)' => Executing(v, q) /\ v # w
  BY <1>1, <1>2 DEF Executing
<1>4. InHand'
  BY <1>1 DEF InHand
<1>5. Claiming'
  BY <1>1, <1>2 DEF Claiming, Locked, database
<1>6. SoleExecutor'
  BY <1>1, <1>3 DEF SoleExecutor, database
<1>7. RowsSoFar' /\ FreshStart'
  BY <1>1, <1>3, SameRows DEF RowsSoFar, FreshStart, database
<1>8. NotStarted' /\ FinishedIsComplete'
  BY <1>1, SameFinish DEF NotStarted, FinishedIsComplete, database
<1> QED
  BY <1>4, <1>5, <1>6, <1>7, <1>8

\* A claim turns a lock holder into the job's only executor, before its first step.
LEMMA ClaimKeeps ==
  ASSUME TypeOK, WorkerInv, NEW w \in Workers, ClaimJob(w)
  PROVE  WorkerInv'
<1> USE DEF WorkerInv, TypeOK
<1>0. PICK r \in Replays : r = Handled(w)
  BY HandledIsReplay DEF ClaimJob
<1>1. /\ UNCHANGED <<step, tally, cursor, log, plan, stepStatus, summary>>
      /\ phase[w] = "claim"
      /\ phase' = [phase EXCEPT ![w] = "next"]
      /\ jobStatus' = [jobStatus EXCEPT ![r] = "running"]
      /\ jobWorker' = [jobWorker EXCEPT ![r] = w]
  BY <1>0 DEF ClaimJob, Goto, loop
<1>2. \A v \in Workers : Handled(v)' = Handled(v)
  BY <1>1 DEF Handled
<1>3. jobStatus[r] = "queued"
  BY <1>0, <1>1 DEF Claiming
<1>4. \A q \in Replays : q # r => jobStatus'[q] = jobStatus[q] /\ jobWorker'[q] = jobWorker[q]
  BY <1>1
<1>5. jobStatus'[r] = "running" /\ jobWorker'[r] = w
  BY <1>1, <1>3
<1>6. \A v \in Workers, q \in Replays :
        Executing(v, q)' => \/ v = w /\ q = r
                            \/ v # w /\ q # r /\ Executing(v, q)
  BY <1>0, <1>1, <1>2, <1>3 DEF Executing, SoleExecutor
<1>7. InHand'
  BY <1>1 DEF InHand
<1>8. Claiming'
  <2>1. ASSUME NEW v \in Workers, phase'[v] = "claim"
        PROVE  v # w /\ phase[v] = "claim" /\ Handled(v) # r /\ Handled(v) \in Replays
    BY <1>0, <1>1, <2>1, HandledIsReplay DEF Claiming
  <2> QED
    BY <1>2, <1>4, <2>1 DEF Claiming
<1>9. SoleExecutor'
  <2>1. ASSUME NEW v \in Workers, NEW q \in Replays, Executing(v, q)'
        PROVE  jobStatus'[q] = "running" /\ jobWorker'[q] = v
    <3>1. CASE v = w /\ q = r
      BY <1>5, <3>1
    <3>2. CASE v # w /\ q # r /\ Executing(v, q)
      BY <1>4, <3>2 DEF SoleExecutor
    <3> QED
      BY <1>6, <2>1, <3>1, <3>2
  <2> QED
    BY <2>1 DEF SoleExecutor
<1>10. RowsSoFar' /\ FreshStart'
  <2>1. ASSUME NEW v \in Workers, NEW q \in Replays, v # w, Executing(v, q)
        PROVE  RowsOf(v, q)'
    BY <1>1, <2>1, SameRows DEF RowsSoFar
  <2>2. step[w] = 1 /\ tally[w] = NoTally
    BY <1>1 DEF FreshStart
  <2>3. (\A j \in Steps : stepStatus[r][j] = Shown(w, r, j))'
    BY <1>1, <1>3, <2>2 DEF NotStarted, Shown, Steps
  <2>4. \A s \in Ended : (tally[w][s] = CountUpTo(r, step[w] - 1, s))'
    <3>1. \A s : CountUpTo(r, 0, s) = 0
      BY CountNone
    <3>2. step'[w] - 1 = 0 /\ \A s \in Ended : tally'[w][s] = 0
      BY <1>1, <2>2 DEF Ended, NoTally
    <3> QED
      BY <1>1, <3>1, <3>2 DEF CountUpTo
  <2>5. phase'[w] = "next"
    BY <1>1
  <2>6. RowsOf(w, r)'
    BY <2>3, <2>4, <2>5 DEF RowsOf
  <2>7. RowsSoFar'
    BY <1>6, <2>1, <2>6 DEF RowsSoFar
  <2> QED
    BY <1>1, <2>7 DEF FreshStart
<1>11. NotStarted'
  BY <1>1, <1>3, <1>4, <1>5 DEF NotStarted, Finished
<1>12. FinishedIsComplete'
  BY <1>1, <1>4, <1>5, SameFinish DEF FinishedIsComplete, Finished
<1> QED
  BY <1>7, <1>8, <1>9, <1>10, <1>11, <1>12

\* An executor at work: it is enough that its own replay's rows follow it.
LEMMA ExecutorKeeps ==
  ASSUME TypeOK, WorkerInv, NEW w \in Workers, NEW r \in Replays, Executing(w, r),
         UNCHANGED <<cursor, log, plan, jobWorker, jobStatus, summary>>,
         \A q \in Replays : q # r => stepStatus'[q] = stepStatus[q],
         \A v \in Workers : v # w => /\ phase'[v] = phase[v]
                                     /\ step'[v] = step[v] /\ tally'[v] = tally[v],
         phase'[w] \in {"next", "exec", "report"},
         RowsOf(w, r)'
  PROVE  WorkerInv'
<1> USE DEF WorkerInv
<1>1. \A v \in Workers : Handled(v)' = Handled(v)
  BY DEF Handled
<1>2. jobStatus[r] = "running" /\ jobWorker[r] = w
  BY DEF SoleExecutor
<1>3. \A v \in Workers, q \in Replays :
        Executing(v, q)' => \/ v = w /\ q = r
                            \/ v # w /\ q # r /\ Executing(v, q)
  BY <1>1, <1>2 DEF Executing, SoleExecutor
<1>4. InHand'
  BY DEF InHand, Executing
<1>5. Claiming'
  BY <1>1 DEF Claiming
<1>6. SoleExecutor'
  BY <1>2, <1>3 DEF SoleExecutor
<1>7. RowsSoFar'
  <2>1. ASSUME NEW v \in Workers, NEW q \in Replays, Executing(v, q)'
        PROVE  RowsOf(v, q)'
    <3>1. CASE v # w /\ q # r /\ Executing(v, q)
      BY <3>1, SameRows DEF RowsSoFar
    <3> QED
      BY <1>3, <2>1, <3>1
  <2> QED
    BY <2>1 DEF RowsSoFar
<1>8. FreshStart'
  BY DEF FreshStart
<1>9. NotStarted'
  BY <1>2 DEF NotStarted
<1>10. FinishedIsComplete'
  BY <1>2, SameFinish DEF FinishedIsComplete, Finished
<1> QED
  BY <1>4, <1>5, <1>6, <1>7, <1>8, <1>9, <1>10

\* Where an executor stands: its replay, its step and the rows around it.
LEMMA AtStep ==
  ASSUME TypeOK, WorkerInv, NEW w \in Workers, phase[w] \in {"next", "exec", "report"}
  PROVE  \E r \in Replays :
           /\ r = Handled(w) /\ Executing(w, r) /\ RowsOf(w, r)
           /\ jobStatus[r] = "running" /\ jobWorker[r] = w
  BY HandledIsReplay DEF WorkerInv, Executing, RowsSoFar, SoleExecutor

\* A step is committed as running: the rows before it are untouched.
LEMMA StartKeeps ==
  ASSUME TypeOK, WorkerInv, NEW w \in Workers, StartStep(w)
  PROVE  WorkerInv'
<1>1. PICK r \in Replays : r = Handled(w) /\ Executing(w, r) /\ RowsOf(w, r)
  BY AtStep DEF StartStep
<1>2. /\ phase[w] = "next" /\ step[w] <= NumSteps
      /\ stepStatus' = [stepStatus EXCEPT ![r][step[w]] = "running"]
      /\ phase' = [phase EXCEPT ![w] = "exec"]
      /\ UNCHANGED <<jobStatus, plan, summary, jobWorker, log, cursor, step, tally>>
  BY <1>1 DEF StartStep, Goto, loop
<1>3. step[w] \in Steps
  BY <1>2, ServiceAssumption DEF TypeOK, Steps
<1>4. phase'[w] = "exec" /\ stepStatus'[r][step[w]] = "running"
  BY <1>2, <1>3 DEF TypeOK
<1>5. \A j \in Steps : j # step[w] => stepStatus'[r][j] = stepStatus[r][j]
  BY <1>2, <1>3 DEF TypeOK
<1>6. (\A j \in Steps : stepStatus[r][j] = Shown(w, r, j))'
  <2>1. ASSUME NEW j \in Steps, j = step[w]
        PROVE  stepStatus'[r][j] = Shown(w, r, j)'
    BY <1>2, <1>3, <1>4, <2>1, ServiceAssumption DEF Shown, Outcome, Steps
  <2>2. ASSUME NEW j \in Steps, j # step[w]
        PROVE  stepStatus'[r][j] = Shown(w, r, j)'
    BY <1>1, <1>2, <1>4, <1>5, <2>2 DEF RowsOf, Shown, Outcome
  <2> QED
    BY <2>1, <2>2
<1>7. (\A s \in Ended : tally[w][s] = CountUpTo(r, step[w] - 1, s))'
  <2>1. \A s : {j \in 1..(step[w] - 1) : stepStatus'[r][j] = s}
                 = {j \in 1..(step[w] - 1) : stepStatus[r][j] = s}
    BY <1>3, <1>5, ServiceAssumption DEF Steps
  <2> QED
    BY <1>1, <1>2, <2>1 DEF RowsOf, CountUpTo
<1>8. RowsOf(w, r)'
  BY <1>2, <1>6, <1>7 DEF RowsOf
<1>9. \A q \in Replays : q # r => stepStatus'[q] = stepStatus[q]
  BY <1>2 DEF TypeOK
<1>10. \A v \in Workers : v # w => phase'[v] = phase[v]
  BY <1>2 DEF TypeOK
<1> QED
  BY <1>1, <1>2, <1>4, <1>8, <1>9, <1>10, ExecutorKeeps

\* A step is committed as ended, with the outcome its plan gives it.
LEMMA EndKeeps ==
  ASSUME TypeOK, WorkerInv, NEW w \in Workers, EndStep(w)
  PROVE  WorkerInv'
<1>1. PICK r \in Replays : r = Handled(w) /\ Executing(w, r) /\ RowsOf(w, r)
  BY AtStep DEF EndStep
<1>2. /\ phase[w] = "exec"
      /\ stepStatus' = [stepStatus EXCEPT ![r][step[w]] = Outcome(r, step[w])]
      /\ phase' = [phase EXCEPT ![w] = "report"]
      /\ UNCHANGED <<jobStatus, plan, summary, jobWorker, log, cursor, step, tally>>
  BY <1>1 DEF EndStep, Goto, loop
<1>3. step[w] \in Steps
  BY <1>1, <1>2, ServiceAssumption DEF TypeOK, Steps, RowsOf
<1>4. phase'[w] = "report" /\ stepStatus'[r][step[w]] = Outcome(r, step[w])
  BY <1>2, <1>3 DEF TypeOK
<1>5. \A j \in Steps : j # step[w] => stepStatus'[r][j] = stepStatus[r][j]
  BY <1>2, <1>3 DEF TypeOK
<1>6. (\A j \in Steps : stepStatus[r][j] = Shown(w, r, j))'
  <2>1. ASSUME NEW j \in Steps, j = step[w]
        PROVE  stepStatus'[r][j] = Shown(w, r, j)'
    BY <1>2, <1>3, <1>4, <2>1, ServiceAssumption DEF Shown, Outcome, Steps
  <2>2. ASSUME NEW j \in Steps, j # step[w]
        PROVE  stepStatus'[r][j] = Shown(w, r, j)'
    BY <1>1, <1>2, <1>4, <1>5, <2>2 DEF RowsOf, Shown, Outcome
  <2> QED
    BY <2>1, <2>2
<1>7. (\A s \in Ended : tally[w][s] = CountUpTo(r, step[w] - 1, s))'
  <2>1. \A s : {j \in 1..(step[w] - 1) : stepStatus'[r][j] = s}
                 = {j \in 1..(step[w] - 1) : stepStatus[r][j] = s}
    BY <1>3, <1>5, ServiceAssumption DEF Steps
  <2> QED
    BY <1>1, <1>2, <2>1 DEF RowsOf, CountUpTo
<1>8. step'[w] <= NumSteps
  BY <1>2, <1>3, ServiceAssumption DEF Steps
<1>9. RowsOf(w, r)'
  BY <1>6, <1>7, <1>8 DEF RowsOf
<1>10. \A q \in Replays : q # r => stepStatus'[q] = stepStatus[q]
  BY <1>2 DEF TypeOK
<1>11. \A v \in Workers : v # w => phase'[v] = phase[v]
  BY <1>2 DEF TypeOK
<1> QED
  BY <1>1, <1>2, <1>4, <1>9, <1>10, <1>11, ExecutorKeeps

\* The counters follow the rows, and the step number with them.
LEMMA ReportKeeps ==
  ASSUME TypeOK, WorkerInv, NEW w \in Workers, Report(w)
  PROVE  WorkerInv'
<1>1. PICK r \in Replays : r = Handled(w) /\ Executing(w, r) /\ RowsOf(w, r)
  BY AtStep DEF Report
<1> DEFINE out == Outcome(r, step[w])
<1>2. /\ phase[w] = "report"
      /\ tally' = [tally EXCEPT ![w] = [tally[w] EXCEPT ![out] = @ + 1]]
      /\ step' = [step EXCEPT ![w] = @ + 1]
      /\ phase' = [phase EXCEPT ![w] = "next"]
      /\ UNCHANGED <<jobStatus, plan, stepStatus, summary, jobWorker, log, cursor>>
  BY <1>1 DEF Report, Goto, loop, database
<1>3. step[w] \in Steps
  BY <1>1, <1>2, ServiceAssumption DEF TypeOK, Steps, RowsOf
<1>4. phase'[w] = "next" /\ step'[w] = step[w] + 1
  BY <1>2 DEF TypeOK
<1>5. out \in Ended /\ stepStatus[r][step[w]] = out
  BY <1>1, <1>2, <1>3 DEF RowsOf, Shown, Outcome, Ended
<1>6. (\A j \in Steps : stepStatus[r][j] = Shown(w, r, j))'
  <2>1. ASSUME NEW j \in Steps
        PROVE  stepStatus[r][j] = Shown(w, r, j)'
    <3>1. step[w] \in Nat /\ j \in Nat
      BY <1>3, ServiceAssumption DEF Steps
    <3>2. stepStatus[r][j] = Shown(w, r, j)
      BY <1>1 DEF RowsOf
    <3> QED
      BY <1>2, <1>4, <3>1, <3>2 DEF Shown, Outcome
  <2> QED
    BY <1>2, <2>1
<1>7. (\A s \in Ended : tally[w][s] = CountUpTo(r, step[w] - 1, s))'
  <2>1. ASSUME NEW s \in Ended
        PROVE  tally'[w][s] = CountUpTo(r, step[w], s)
    <3>1. CountUpTo(r, step[w], s) =
            CountUpTo(r, step[w] - 1, s) + (IF out = s THEN 1 ELSE 0)
      BY <1>3, <1>5, CountNext, ServiceAssumption DEF Steps
    <3>2. tally[w][s] = CountUpTo(r, step[w] - 1, s) /\ tally[w][s] \in Nat
      BY <1>1, ServiceAssumption DEF RowsOf, TypeOK, Tally, Ended
    <3>3. tally'[w] = [tally[w] EXCEPT ![out] = @ + 1]
      BY <1>2 DEF TypeOK
    <3>4. tally'[w][s] = tally[w][s] + (IF out = s THEN 1 ELSE 0)
      <4> HIDE DEF out
      <4> QED
        BY <1>5, <3>2, <3>3 DEF TypeOK, Tally, Ended
    <3> QED
      BY <3>1, <3>2, <3>4
  <2>2. step'[w] - 1 = step[w]
    BY <1>3, <1>4, ServiceAssumption DEF Steps
  <2> QED
    BY <1>2, <2>1, <2>2 DEF CountUpTo
<1>8. RowsOf(w, r)'
  BY <1>4, <1>6, <1>7 DEF RowsOf
<1>9. \A v \in Workers : v # w => /\ phase'[v] = phase[v]
                                  /\ step'[v] = step[v] /\ tally'[v] = tally[v]
  BY <1>2 DEF TypeOK
<1> HIDE DEF out
<1> QED
  BY <1>1, <1>2, <1>4, <1>8, <1>9, ExecutorKeeps

\* ReplayLifecycle counts as this module does.
LEMMA SameCardinality == \A S : Lifecycle!Cardinality(S) = Cardinality(S)
  BY DEF Lifecycle!Cardinality, Cardinality

\* At the end of the loop the counters are the counts of the rows.
LEMMA AtEnd ==
  ASSUME TypeOK, WorkerInv, NEW w \in Workers, phase[w] = "next", step[w] > NumSteps,
         NEW r \in Replays, r = Handled(w)
  PROVE  /\ \A i \in Steps : stepStatus[r][i] = Outcome(r, i)
         /\ tally[w] = Lifecycle!CountOf(r)
         /\ tally[w].failed = 0 <=> plan[r] = {}
         /\ tally[w].failed = 0 <=> Lifecycle!StepsWith(r, "failed") = {}
<1>1. RowsOf(w, r)
  BY AtStep
<1>2. step[w] = NumSteps + 1
  BY ServiceAssumption DEF TypeOK
<1>3. \A i \in Steps : stepStatus[r][i] = Outcome(r, i)
  BY <1>1, <1>2, ServiceAssumption DEF RowsOf, Shown, Steps
<1>4. ASSUME NEW s \in Ended
      PROVE  /\ tally[w][s] = Cardinality(Lifecycle!StepsWith(r, s))
             /\ IsFiniteSet(Lifecycle!StepsWith(r, s))
  <2>1. Lifecycle!StepsWith(r, s) = {j \in 1..NumSteps : stepStatus[r][j] = s}
    BY DEF Lifecycle!StepsWith, Lifecycle!Steps
  <2>2. tally[w][s] = CountUpTo(r, NumSteps, s)
    BY <1>1, <1>2, ServiceAssumption DEF RowsOf
  <2>3. NumSteps \in Nat
    BY ServiceAssumption
  <2>4. IsFiniteSet({j \in 1..NumSteps : stepStatus[r][j] = s})
    BY <2>3, CountBound
  <2> QED
    BY <2>1, <2>2, <2>4 DEF CountUpTo
<1>5. tally[w] = Lifecycle!CountOf(r)
  <2>1. tally[w] \in Tally
    BY DEF TypeOK
  <2>2. /\ tally[w].passed = Cardinality(Lifecycle!StepsWith(r, "passed"))
        /\ tally[w].failed = Cardinality(Lifecycle!StepsWith(r, "failed"))
    BY <1>4 DEF Ended
  <2>3. tally[w] = [passed |-> tally[w].passed, failed |-> tally[w].failed]
    BY <2>1 DEF Tally
  <2>4. tally[w] = [passed |-> Cardinality(Lifecycle!StepsWith(r, "passed")),
                    failed |-> Cardinality(Lifecycle!StepsWith(r, "failed"))]
    BY <2>2, <2>3
  <2> QED
    BY <2>4, SameCardinality DEF Lifecycle!CountOf
<1>6. tally[w].failed = 0 <=> Lifecycle!StepsWith(r, "failed") = {}
  BY <1>4, FS_EmptySet DEF Ended
<1>7. Lifecycle!StepsWith(r, "failed") = plan[r]
  BY <1>3 DEF Lifecycle!StepsWith, Lifecycle!Steps, Steps, Outcome, TypeOK
<1> QED
  BY <1>3, <1>5, <1>6, <1>7

\* The job's last commit writes the counts that the rows have.
LEMMA CompleteKeeps ==
  ASSUME TypeOK, WorkerInv, NEW w \in Workers, CompleteJob(w)
  PROVE  WorkerInv'
<1> USE DEF WorkerInv
<1>1. PICK r \in Replays : /\ r = Handled(w) /\ Executing(w, r)
                           /\ jobStatus[r] = "running" /\ jobWorker[r] = w
  BY AtStep DEF CompleteJob
<1>2. /\ phase[w] = "next" /\ step[w] > NumSteps
      /\ jobStatus' = [jobStatus EXCEPT ![r] =
                         IF tally[w].failed = 0 THEN "completed" ELSE "failed"]
      /\ summary' = [summary EXCEPT ![r] = tally[w]]
      /\ phase' = [phase EXCEPT ![w] = "flush"]
      /\ UNCHANGED <<plan, stepStatus, jobWorker, log, cursor, step, tally>>
  BY <1>1 DEF CompleteJob, Goto, loop
<1>3. \A v \in Workers : Handled(v)' = Handled(v)
  BY <1>2 DEF Handled
<1>4. \A q \in Replays : q # r => jobStatus'[q] = jobStatus[q] /\ summary'[q] = summary[q]
  BY <1>2
<1>5. /\ jobStatus'[r] = IF tally[w].failed = 0 THEN "completed" ELSE "failed"
      /\ summary'[r] = tally[w]
  BY <1>2 DEF TypeOK
<1>6. \A v \in Workers, q \in Replays :
        Executing(v, q)' => v # w /\ q # r /\ Executing(v, q)
  BY <1>1, <1>2, <1>3 DEF Executing, SoleExecutor, TypeOK
<1>7. InHand'
  BY <1>2 DEF InHand, TypeOK
<1>8. Claiming'
  <2>1. ASSUME NEW v \in Workers, phase'[v] = "claim"
        PROVE  phase[v] = "claim" /\ Handled(v) # r /\ Handled(v) \in Replays
    BY <1>1, <1>2, <2>1, HandledIsReplay DEF Claiming, TypeOK
  <2> QED
    BY <1>3, <1>4, <2>1 DEF Claiming
<1>9. SoleExecutor'
  BY <1>2, <1>4, <1>6 DEF SoleExecutor
<1>10. RowsSoFar'
  <2>1. ASSUME NEW v \in Workers, NEW q \in Replays, v # w, Executing(v, q)
        PROVE  RowsOf(v, q)'
    BY <1>2, <2>1, SameRows DEF RowsSoFar, TypeOK
  <2> QED
    BY <1>6, <2>1 DEF RowsSoFar
<1>11. FreshStart'
  BY <1>2 DEF FreshStart, TypeOK
<1>12. NotStarted'
  BY <1>2, <1>4, <1>5 DEF NotStarted, Finished
<1>13. FullyAttempted(r)'
  <2>1. /\ \A i \in Steps : stepStatus[r][i] = Outcome(r, i)
        /\ tally[w] = Lifecycle!CountOf(r)
        /\ tally[w].failed = 0 <=> plan[r] = {}
    BY <1>1, <1>2, AtEnd
  <2>2. /\ \A j : Outcome(r, j)' = Outcome(r, j)
        /\ Lifecycle!CountOf(r)' = Lifecycle!CountOf(r)
    BY <1>2, SameRow
  <2> QED
    BY <1>2, <1>5, <2>1, <2>2 DEF FullyAttempted
<1>14. FinishedIsComplete'
  BY <1>2, <1>4, <1>13, SameFinish DEF FinishedIsComplete
<1> QED
  BY <1>7, <1>8, <1>9, <1>10, <1>11, <1>12, <1>14

-----------------------------------------------------------------------------
(***************************************************************************)
(* Every step of a worker.                                                 *)
(***************************************************************************)

\* A worker that leaves the handler, with nothing in hand, disturbs nobody.
LEMMA LeaveMoves ==
  ASSUME TypeOK, NEW w \in Workers, Leave(w), cursor' = [cursor EXCEPT ![w] = 0]
  PROVE  \A v \in Workers : Moves(v)
<1>1. cursor \in [Workers -> 0..Len(log)]
  BY DEF TypeOK, Loop!TypeOK
<1>2. Moves(w)
  BY <1>1 DEF TypeOK, Leave, Moves
<1>3. ASSUME NEW v \in Workers, v # w
      PROVE  Moves(v)
  BY <1>1, <1>3 DEF TypeOK, Leave, Moves
<1> QED
  BY <1>2, <1>3

\* No step of a worker disturbs another.
LEMMA WorkerKeeps ==
  ASSUME TypeOK, WorkerInv, NEW w \in Workers, WorkerNext(w)
  PROVE  WorkerInv'
<1>0. [Loop!Next]_loop
  BY WorkerLoopStep
<1>1. CASE Run(w)
  <2>1. CASE FlushReturns(w)
    <3>1. phase[w] = "flush" /\ phase' = [phase EXCEPT ![w] = "ack"]
      BY <2>1 DEF FlushReturns, Goto
    <3>2. UNCHANGED <<step, tally, cursor, database>>
      BY <2>1 DEF FlushReturns, loop
    <3>3. \A v \in Workers : Moves(v)
      BY <3>1, <3>2 DEF Moves, TypeOK
    <3> QED
      BY <1>0, <3>2, <3>3, Frame
  <2> QED
    BY <1>1, <2>1, SelectKeeps, ClaimKeeps, StartKeeps, EndKeeps, ReportKeeps,
       CompleteKeeps DEF Run
<1>2. CASE Receive(w)
  <2>1. /\ phase[w] = "idle" /\ phase' = [phase EXCEPT ![w] = "select"]
        /\ UNCHANGED <<step, tally, database>>
        /\ cursor' = [cursor EXCEPT ![w] = position + 1]
    BY <1>2 DEF Receive, Goto, Loop!Poll
  <2>2. position + 1 # 0 /\ cursor \in [Workers -> 0..Len(log)] /\ phase \in [Workers -> Phase]
    BY DEF TypeOK, Loop!TypeOK
  <2>3. \A v \in Workers : Moves(v)
    BY <2>1, <2>2 DEF Moves
  <2> QED
    BY <1>0, <2>1, <2>3, Frame
<1>3. CASE FlushFails(w) \/ Abort(w) \/ Acknowledge(w) \/ Crash(w)
  <2>1. Leave(w) /\ UNCHANGED database
    BY <1>3 DEF FlushFails, Abort, Acknowledge, Crash
  <2>2. cursor' = [cursor EXCEPT ![w] = 0]
    BY <1>3 DEF FlushFails, Abort, Acknowledge, Crash, Loop!HandlerRaises, Loop!Commit,
                Loop!CommitRaises, Loop!Crash
  <2> QED
    BY <1>0, <2>1, <2>2, LeaveMoves, Frame
<1>4. CASE Regroup(w) \/ SendProgress(w) \/ LoseProgress(w)
  <2>1. UNCHANGED <<control, cursor, database>>
    BY <1>4 DEF Regroup, SendProgress, LoseProgress, loop, Loop!Assign, Loop!Revoke,
                Loop!Restart
  <2>2. \A v \in Workers : Moves(v)
    BY <2>1 DEF Moves, control
  <2> QED
    BY <1>0, <2>1, <2>2, Frame
<1> QED
  BY <1>1, <1>2, <1>3, <1>4 DEF WorkerNext

-----------------------------------------------------------------------------
(***************************************************************************)
(* The API's part of the invariant.                                        *)
(***************************************************************************)

\* A request that has been committed has its rows, and no other has.
HasRow == \A r \in Replays : request[r] = "new" <=> jobStatus[r] = "absent"

\* The event loop is blocked by at most one flush.
OneFlush ==
  \A q, r \in Replays : request[q] = "flushing" /\ request[r] = "flushing" => q = r

\* While a request flushes, its message is queued or stored, or an error is noted.
FlushPending ==
  \A r \in Replays : request[r] = "flushing" =>
    Loop!Stored(r) \/ Pending(r) \/ deliveryErrors

ApiInv == HasRow /\ OneFlush /\ FlushPending /\ PublishedHasRow /\ AcceptedIsStored

\* The rest of a queue, and a queue with one more message.
LEMMA QueueTail ==
  ASSUME NEW q \in Seq(Replays), q # <<>>, NEW r
  PROVE  (\E k \in 1..Len(q) : q[k] = r) <=>
           (r = Head(q) \/ \E k \in 1..Len(Tail(q)) : Tail(q)[k] = r)
<1>1. /\ Len(q) \in Nat \ {0} /\ Len(Tail(q)) = Len(q) - 1 /\ Head(q) = q[1]
      /\ \A k \in 1..(Len(q) - 1) : Tail(q)[k] = q[k + 1]
  OBVIOUS
<1>2. ASSUME NEW k \in 1..Len(q), q[k] = r
      PROVE  r = Head(q) \/ \E l \in 1..Len(Tail(q)) : Tail(q)[l] = r
  <2>1. CASE k # 1
    <3>1. k - 1 \in 1..Len(Tail(q)) /\ Tail(q)[k - 1] = r
      BY <1>1, <1>2, <2>1
    <3> QED
      BY <3>1
  <2> QED
    BY <1>1, <1>2, <2>1
<1>3. ASSUME NEW k \in 1..Len(Tail(q)), Tail(q)[k] = r
      PROVE  \E l \in 1..Len(q) : q[l] = r
  <2>1. k + 1 \in 1..Len(q) /\ q[k + 1] = r
    BY <1>1, <1>3
  <2> QED
    BY <2>1
<1>4. 1 \in 1..Len(q)
  BY <1>1
<1> QED
  BY <1>1, <1>2, <1>3, <1>4

\* A queue with one more message holds the old ones and the new one.
LEMMA QueueAppend ==
  ASSUME NEW q \in Seq(Replays), NEW m \in Replays, NEW r
  PROVE  (\E k \in 1..Len(Append(q, m)) : Append(q, m)[k] = r) <=>
           (r = m \/ \E k \in 1..Len(q) : q[k] = r)
<1>1. /\ Len(q) \in Nat /\ Len(Append(q, m)) = Len(q) + 1
      /\ Append(q, m)[Len(q) + 1] = m
      /\ \A k \in 1..Len(q) : Append(q, m)[k] = q[k]
  OBVIOUS
<1>2. 1..(Len(q) + 1) = 1..Len(q) \cup {Len(q) + 1}
  BY <1>1
<1> QED
  BY <1>1, <1>2

\* What a delivery adds to the log.
LEMMA Delivered ==
  ASSUME TypeOK, NEW m \in Replays, Loop!Produce(m), NEW r
  PROVE  Loop!Stored(r)' <=> (Loop!Stored(r) \/ r = m)
<1>1. log \in Seq(Replays) /\ log' = Append(log, m)
  BY DEF TypeOK, Loop!TypeOK, Loop!Produce
<1> QED
  BY <1>1, QueueAppend DEF Loop!Stored

\* What is stored depends on the log alone.
LEMMA SameStored == ASSUME log' = log, NEW r PROVE Loop!Stored(r)' <=> Loop!Stored(r)
  BY DEF Loop!Stored

\* The message at the head of the producer's queue leaves it, stored or lost.
LEMMA HeadLeaves ==
  ASSUME TypeOK, outbox # <<>>, outbox' = Tail(outbox),
         Loop!Produce(Head(outbox)) \/ UNCHANGED loop, NEW r \in Replays
  PROVE  /\ Head(outbox) \in Replays
         /\ Pending(r) <=> (r = Head(outbox) \/ Pending(r)')
         /\ Loop!Stored(r) => Loop!Stored(r)'
         /\ Loop!Stored(r)' => Loop!Stored(r) \/ Pending(r)
         /\ Loop!Produce(Head(outbox)) => (r = Head(outbox) => Loop!Stored(r)')
<1>1. outbox \in Seq(Replays) /\ Head(outbox) \in Replays
  BY DEF TypeOK
<1>2. Pending(r) <=> (r = Head(outbox) \/ Pending(r)')
  BY <1>1, QueueTail DEF Pending
<1>3. CASE Loop!Produce(Head(outbox))
  BY <1>1, <1>2, <1>3, Delivered
<1>4. CASE UNCHANGED loop /\ ~Loop!Produce(Head(outbox))
  BY <1>1, <1>2, <1>4, SameStored DEF loop
<1> QED
  BY <1>3, <1>4

\* A request keeps the bookkeeping of its message, and nobody else's flush.
LEMMA ApiKeepsApi ==
  ASSUME TypeOK, ApiInv, ApiNext
  PROVE  ApiInv'
<1> USE DEF ApiInv, HasRow, OneFlush, FlushPending, PublishedHasRow, AcceptedIsStored
<1>1. ASSUME NEW q \in Replays, NEW P \in SUBSET Steps, CreateReplay(q, P)
      PROVE  ApiInv'
  <2>1. /\ request[q] = "new" /\ log' = log /\ outbox' = outbox
        /\ deliveryErrors' = deliveryErrors
        /\ jobStatus' = [jobStatus EXCEPT ![q] = "queued"]
        /\ request' = [request EXCEPT ![q] = "committed"]
    BY <1>1 DEF CreateReplay, loop
  <2>2. \A r : Pending(r)' <=> Pending(r)
    BY <2>1 DEF Pending
  <2>3. /\ \A r \in Replays : r # q => request'[r] = request[r] /\ jobStatus'[r] = jobStatus[r]
        /\ request'[q] = "committed" /\ jobStatus'[q] = "queued"
    BY <2>1 DEF TypeOK
  <2> QED
    BY <2>1, <2>2, <2>3, SameStored
<1>2. ASSUME NEW q \in Replays, Publish(q)
      PROVE  ApiInv'
  <2>1. /\ request[q] = "committed" /\ \A r \in Replays : request[r] # "flushing"
        /\ log' = log /\ jobStatus' = jobStatus /\ outbox' = Append(outbox, q)
        /\ request' = [request EXCEPT ![q] = "flushing"]
    BY <1>2 DEF Publish, loop, database
  <2>2. \A r : Pending(r)' <=> (r = q \/ Pending(r))
    BY <2>1, QueueAppend DEF Pending, TypeOK
  <2>3. /\ \A r \in Replays : r # q => request'[r] = request[r]
        /\ request'[q] = "flushing"
    BY <2>1 DEF TypeOK
  <2> QED
    BY <2>1, <2>2, <2>3, SameStored
<1>3. ASSUME NEW q \in Replays, NEW s \in {"accepted", "failed"},
             request[q] # "new", request' = [request EXCEPT ![q] = s],
             UNCHANGED <<log, jobStatus, outbox>>,
             request[q] = "flushing" \/ deliveryErrors' = deliveryErrors,
             s = "accepted" => Loop!Stored(q)
      PROVE  ApiInv'
  <2>1. \A r : Pending(r)' <=> Pending(r)
    BY <1>3 DEF Pending
  <2>2. /\ \A r \in Replays : r # q => request'[r] = request[r]
        /\ request'[q] = s
    BY <1>3 DEF TypeOK
  <2>3. \A r \in Replays : request'[r] = "flushing" =>
          r # q /\ request[r] = "flushing" /\ deliveryErrors' = deliveryErrors
    BY <1>3, <2>2
  <2> QED
    BY <1>3, <2>1, <2>2, <2>3, SameStored
<1>4. ASSUME NEW q \in Replays, PublishRaises(q)
      PROVE  ApiInv'
  BY <1>3, <1>4 DEF PublishRaises, loop, database
<1>5. ASSUME NEW q \in Replays, FlushAccepts(q)
      PROVE  ApiInv'
  <2>1. request[q] = "flushing" /\ outbox = <<>> /\ ~deliveryErrors
    BY <1>5 DEF FlushAccepts
  <2>2. ~Pending(q)
    BY <2>1 DEF Pending
  <2>3. Loop!Stored(q)
    BY <2>1, <2>2
  <2> QED
    BY <1>3, <1>5, <2>1, <2>3 DEF FlushAccepts, loop, database
<1>6. ASSUME NEW q \in Replays, FlushRaises(q)
      PROVE  ApiInv'
  BY <1>3, <1>6 DEF FlushRaises, loop, database
<1>7. CASE DeliverRequest \/ LoseRequest
  <2>1. /\ outbox # <<>> /\ outbox' = Tail(outbox)
        /\ Loop!Produce(Head(outbox)) \/ UNCHANGED loop
        /\ UNCHANGED <<request, jobStatus>>
        /\ deliveryErrors' \/ (Loop!Produce(Head(outbox)) /\ deliveryErrors' = deliveryErrors)
    BY <1>7 DEF DeliverRequest, LoseRequest, database
  <2> QED
    BY <2>1, HeadLeaves
<1>8. CASE ApiCrash
  <2>1. /\ \A r \in Replays : request'[r] = IF request[r] \in {"committed", "flushing"}
                                             THEN "failed" ELSE request[r]
        /\ outbox' = <<>> /\ UNCHANGED <<log, jobStatus>>
    BY <1>8 DEF ApiCrash, loop, database
  <2>2. \A r : ~Pending(r)'
    BY <2>1 DEF Pending
  <2> QED
    BY <2>1, <2>2, SameStored
<1> QED
  BY <1>1, <1>2, <1>4, <1>5, <1>6, <1>7, <1>8 DEF ApiNext

\* A worker's step concerns the API only through the rows, which it never removes.
LEMMA WorkerKeepsApi ==
  ASSUME TypeOK, WorkerInv, ApiInv, NEW w \in Workers, WorkerNext(w)
  PROVE  ApiInv'
<1>1. UNCHANGED <<request, outbox, deliveryErrors>>
  BY DEF WorkerNext, Run, Receive, SelectJob, ClaimJob, StartStep, EndStep, Report,
         CompleteJob, FlushReturns, FlushFails, Acknowledge, Abort, Crash, Regroup,
         SendProgress, LoseProgress, api
<1>2. log' = log
  BY DEF WorkerNext, Run, Receive, SelectJob, ClaimJob, StartStep, EndStep, Report,
         CompleteJob, FlushReturns, FlushFails, Acknowledge, Abort, Crash, Regroup,
         SendProgress, LoseProgress, loop, Loop!Poll, Loop!HandlerRaises, Loop!Commit,
         Loop!CommitRaises, Loop!Crash, Loop!Assign, Loop!Revoke, Loop!Restart
<1>3. \A r \in Replays : jobStatus'[r] = "absent" <=> jobStatus[r] = "absent"
  <2>1. CASE ClaimJob(w)
    <3>1. /\ jobStatus[Handled(w)] = "queued"
          /\ jobStatus' = [jobStatus EXCEPT ![Handled(w)] = "running"]
      BY <2>1 DEF ClaimJob, WorkerInv, Claiming
    <3> QED
      BY <3>1 DEF TypeOK
  <2>2. CASE CompleteJob(w)
    <3>1. jobStatus[Handled(w)] = "running"
      BY <2>2, AtStep DEF CompleteJob
    <3>2. jobStatus' = [jobStatus EXCEPT ![Handled(w)] =
                          IF tally[w].failed = 0 THEN "completed" ELSE "failed"]
      BY <2>2 DEF CompleteJob
    <3> QED
      BY <3>1, <3>2 DEF TypeOK
  <2>3. CASE ~ClaimJob(w) /\ ~CompleteJob(w)
    <3>1. jobStatus' = jobStatus
      BY <2>3 DEF WorkerNext, Run, Receive, SelectJob, StartStep, EndStep, Report,
                  FlushReturns, FlushFails, Acknowledge, Abort, Crash, Regroup,
                  SendProgress, LoseProgress, database
    <3> QED
      BY <3>1
  <2> QED
    BY <2>1, <2>2, <2>3
<1>4. \A r : Pending(r)' <=> Pending(r)
  BY <1>1 DEF Pending
<1> QED
  BY <1>1, <1>2, <1>3, <1>4, SameStored
  DEF ApiInv, HasRow, OneFlush, FlushPending, PublishedHasRow, AcceptedIsStored

\* The API never writes a row that a worker has in hand.
LEMMA ApiKeepsWorkers ==
  ASSUME TypeOK, WorkerInv, ApiInv, ApiNext
  PROVE  WorkerInv'
<1>1. ASSUME NEW r \in Replays, NEW P \in SUBSET Steps, CreateReplay(r, P)
      PROVE  WorkerInv'
  <2>1. jobStatus[r] = "absent"
    BY <1>1 DEF CreateReplay, ApiInv, HasRow
  <2> QED
    BY <1>1, <2>1, CreateKeeps
<1>2. CASE \A r \in Replays, P \in SUBSET Steps : ~CreateReplay(r, P)
  <2>1. UNCHANGED <<control, cursor, database>>
    BY <1>2 DEF ApiNext, Publish, PublishRaises, FlushAccepts, FlushRaises,
                DeliverRequest, LoseRequest, ApiCrash, loop, Loop!Produce
  <2>2. \A v \in Workers : Moves(v)
    BY <2>1 DEF Moves, control
  <2>3. [Loop!Next]_loop
    BY ApiLoopStep
  <2> QED
    BY <2>1, <2>2, <2>3, Frame
<1> QED
  BY <1>1, <1>2

-----------------------------------------------------------------------------
(***************************************************************************)
(* The inductive invariant, and what follows from it.                      *)
(***************************************************************************)

IInv == TypeOK /\ WorkerInv /\ ApiInv

\* No replay, no message and no worker in a handler.
LEMMA InitIInv == Init => IInv
<1> SUFFICES ASSUME Init
             PROVE  IInv
  OBVIOUS
<1>1. TypeOK
  BY InitType
<1>2. /\ \A w \in Workers : phase[w] = "idle" /\ step[w] = 1 /\ tally[w] = NoTally
      /\ \A w \in Workers : cursor[w] = 0
      /\ \A r \in Replays : jobStatus[r] = "absent" /\ summary[r] = None
      /\ \A r \in Replays : request[r] = "new"
      /\ outbox = <<>> /\ log = <<>>
  BY DEF Init, Loop!Init
<1>3. WorkerInv
  BY <1>2 DEF WorkerInv, InHand, Claiming, SoleExecutor, RowsSoFar, FreshStart,
              NotStarted, FinishedIsComplete, Executing, Finished
<1>4. ApiInv
  BY <1>2 DEF ApiInv, HasRow, OneFlush, FlushPending, PublishedHasRow,
              AcceptedIsStored, Pending, Loop!Stored
<1> QED
  BY <1>1, <1>3, <1>4 DEF IInv

\* IInv is inductive.
LEMMA NextIInv == IInv /\ [Next]_vars => IInv'
<1> SUFFICES ASSUME IInv, [Next]_vars
             PROVE  IInv'
  OBVIOUS
<1> USE DEF IInv
<1>1. CASE ApiNext
  BY <1>1, ApiType, ApiKeepsWorkers, ApiKeepsApi
<1>2. ASSUME NEW w \in Workers, WorkerNext(w)
      PROVE  IInv'
  <2>1. TypeOK'
    BY <1>2, WorkerType DEF WorkerInv
  <2> QED
    BY <1>2, <2>1, WorkerKeeps, WorkerKeepsApi
<1>3. CASE UNCHANGED vars
  <2>1. UNCHANGED <<database, api, loop, control, sending>>
    BY <1>3 DEF vars
  <2>2. WorkerInv'
    <3>1. \A v \in Workers : Moves(v)
      BY <2>1 DEF Moves, control, loop
    <3> QED
      BY <2>1, <3>1, Frame
  <2>3. TypeOK'
    BY <2>1, LoopType DEF TypeOK, database, api, control, sending
  <2>4. ApiInv'
    BY <2>1, SameStored DEF ApiInv, HasRow, OneFlush, FlushPending, PublishedHasRow,
                AcceptedIsStored, Pending, database, api, loop
  <2> QED
    BY <2>2, <2>3, <2>4
<1> QED
  BY <1>1, <1>2, <1>3 DEF Next

\* IInv always holds.
LEMMA SpecIInv == Spec => []IInv
  BY InitIInv, NextIInv, PTL DEF Spec

\* Every variable of the service keeps its type, the counters included.
THEOREM TypeCorrect == Spec => []TypeOK
  BY SpecIInv, PTL DEF IInv

\* No two workers ever execute the same replay, and its row names the one that does.
THEOREM OneExecutor == Spec => []SoleExecutor
  BY SpecIInv, PTL DEF IInv, WorkerInv

\* A finished replay has attempted its whole checklist and counts it right.
THEOREM FinishedReplaysAreComplete == Spec => []FinishedIsComplete
  BY SpecIInv, PTL DEF IInv, WorkerInv

\* A worker never meets a message whose job is not in the database.
THEOREM MessagesHaveRows == Spec => []PublishedHasRow
  BY SpecIInv, PTL DEF IInv, ApiInv

\* A client that got its 202 has its message in the topic.
THEOREM AcceptedMeansStored == Spec => []AcceptedIsStored
  BY SpecIInv, PTL DEF IInv, ApiInv

-----------------------------------------------------------------------------
(***************************************************************************)
(* A claimed replay belongs to its executor.                               *)
(***************************************************************************)

\* A step leaves the rows of r as they are.
RowsKept(r) ==
  jobStatus'[r] = jobStatus[r] /\ stepStatus'[r] = stepStatus[r] /\ jobWorker'[r] = jobWorker[r]

\* A step gives r no executor that it did not have, and the one it has goes forward.
NoNewExecutor(r) ==
  \A v \in Workers : Executing(v, r)' => Executing(v, r) /\ step[v] <= step'[v]

\* A worker whose place the step leaves alone, or that enters or leaves run_replay,
\* takes no replay over.
LEMMA MovesTakeNothing ==
  ASSUME IInv, [Loop!Next]_loop, \A v \in Workers : Moves(v), NEW r
  PROVE  NoNewExecutor(r)
<1>1. ASSUME NEW v \in Workers, Executing(v, r)'
      PROVE  Executing(v, r) /\ step[v] <= step'[v]
  <2>1. phase'[v] = phase[v] /\ step'[v] = step[v] /\ cursor'[v] = cursor[v]
    BY <1>1 DEF Moves, Executing
  <2>2. Handled(v)' = Handled(v)
    BY <1>1, <2>1, SameReplay DEF Executing, IInv, WorkerInv
  <2>3. step[v] \in Nat
    BY ServiceAssumption DEF IInv, TypeOK
  <2> QED
    BY <1>1, <2>1, <2>2, <2>3 DEF Executing
<1> QED
  BY <1>1 DEF NoNewExecutor

\* The API creates jobs that nobody has claimed.
LEMMA ApiLeavesClaimed ==
  ASSUME IInv, ApiNext, NEW r \in Replays, Claimed(r)
  PROVE  RowsKept(r) /\ NoNewExecutor(r)
<1>1. RowsKept(r)
  <2>1. ASSUME NEW q \in Replays, NEW P \in SUBSET Steps, CreateReplay(q, P)
        PROVE  RowsKept(r)
    <3>1. q # r
      BY <2>1 DEF CreateReplay, IInv, ApiInv, HasRow, Claimed
    <3> QED
      BY <2>1, <3>1 DEF CreateReplay, RowsKept
  <2>2. CASE \A q \in Replays, P \in SUBSET Steps : ~CreateReplay(q, P)
    BY <2>2 DEF ApiNext, Publish, PublishRaises, FlushAccepts, FlushRaises, DeliverRequest,
                LoseRequest, ApiCrash, database, RowsKept
  <2> QED
    BY <2>1, <2>2
<1>2. UNCHANGED <<control, cursor>>
  BY DEF ApiNext, CreateReplay, Publish, PublishRaises, FlushAccepts, FlushRaises,
         DeliverRequest, LoseRequest, ApiCrash, loop, Loop!Produce
<1>3. \A v \in Workers : Moves(v)
  BY <1>2 DEF Moves, control
<1> QED
  BY <1>1, <1>3, ApiLoopStep, MovesTakeNothing DEF IInv

\* A worker writes the rows of a claimed replay only as its executor, and then only
\* the row of the step it is at, or the job.
LEMMA WorkerLeavesClaimed ==
  ASSUME IInv, NEW w \in Workers, WorkerNext(w), NEW r \in Replays, Claimed(r)
  PROVE  /\ NoNewExecutor(r)
         /\ \/ RowsKept(r)
            \/ /\ Executing(w, r)
               /\ Claimed(r)' /\ jobWorker'[r] = jobWorker[r]
               /\ \A j \in Steps : stepStatus'[r][j] # stepStatus[r][j] => j = step[w]
<1> USE DEF IInv
<1>1. ASSUME NEW p \in Phase, phase' = [phase EXCEPT ![w] = p], UNCHANGED <<log, cursor>>,
             step' = step \/ step' = [step EXCEPT ![w] = @ + 1],
             p \in {"next", "exec", "report"} /\ Handled(w) = r => Executing(w, r)
      PROVE  NoNewExecutor(r)
  <2>1. ASSUME NEW v \in Workers, Executing(v, r)'
        PROVE  Executing(v, r) /\ step[v] <= step'[v]
    <3>1. Handled(v)' = Handled(v)
      BY <1>1 DEF Handled
    <3>2. Executing(v, r)
      BY <1>1, <2>1, <3>1 DEF Executing, TypeOK
    <3>3. step[v] \in Nat /\ step \in [Workers -> Nat]
      BY ServiceAssumption DEF TypeOK
    <3>4. step[v] <= step'[v]
      BY <1>1, <3>3
    <3> QED
      BY <3>2, <3>4
  <2> QED
    BY <2>1 DEF NoNewExecutor
<1>2. CASE ClaimJob(w)
  <2>1. jobStatus[Handled(w)] = "queued"
    BY <1>2 DEF ClaimJob, WorkerInv, Claiming
  <2>2. Handled(w) # r
    BY <2>1 DEF Claimed
  <2>3. RowsKept(r)
    BY <1>2, <2>2 DEF ClaimJob, RowsKept
  <2>4. NoNewExecutor(r)
    BY <1>1, <1>2, <2>2 DEF ClaimJob, Goto, Phase, loop
  <2> QED
    BY <2>3, <2>4
<1>3. CASE StartStep(w) \/ EndStep(w) \/ Report(w) \/ CompleteJob(w)
  <2>1. phase[w] \in {"next", "exec", "report"}
    BY <1>3 DEF StartStep, EndStep, Report, CompleteJob
  <2>2. NoNewExecutor(r)
    <3>1. \E p \in Phase : phase' = [phase EXCEPT ![w] = p]
      BY <1>3 DEF StartStep, EndStep, Report, CompleteJob, Goto, Phase
    <3>2. UNCHANGED <<log, cursor>>
      BY <1>3 DEF StartStep, EndStep, Report, CompleteJob, loop
    <3>3. step' = step \/ step' = [step EXCEPT ![w] = @ + 1]
      BY <1>3 DEF StartStep, EndStep, Report, CompleteJob
    <3>4. Handled(w) = r => Executing(w, r)
      BY <2>1 DEF Executing
    <3> QED
      BY <1>1, <3>1, <3>2, <3>3, <3>4
  <2>3. CASE Handled(w) # r
    <3>1. RowsKept(r)
      BY <1>3, <2>3 DEF StartStep, EndStep, Report, CompleteJob, database, TypeOK, RowsKept
    <3> QED
      BY <2>2, <3>1
  <2>4. CASE Handled(w) = r
    <3>1. Executing(w, r)
      BY <2>1, <2>4 DEF Executing
    <3>2. Claimed(r)'
      BY <1>3, <2>4 DEF StartStep, EndStep, Report, CompleteJob, database, TypeOK, Claimed
    <3>3. jobWorker' = jobWorker
      BY <1>3 DEF StartStep, EndStep, Report, CompleteJob, database
    <3>4. ASSUME NEW j \in Steps, j # step[w]
          PROVE  stepStatus'[r][j] = stepStatus[r][j]
      <4>1. CASE StartStep(w) \/ EndStep(w)
        BY <2>4, <3>4, <4>1 DEF StartStep, EndStep, TypeOK
      <4>2. CASE Report(w) \/ CompleteJob(w)
        BY <4>2 DEF Report, CompleteJob, database
      <4> QED
        BY <1>3, <4>1, <4>2
    <3> QED
      BY <2>2, <3>1, <3>2, <3>3, <3>4
  <2> QED
    BY <2>3, <2>4
<1>4. CASE /\ ~ClaimJob(w) /\ ~StartStep(w) /\ ~EndStep(w)
           /\ ~Report(w) /\ ~CompleteJob(w)
  <2>1. UNCHANGED database
    BY <1>4 DEF WorkerNext, Run, Receive, SelectJob, FlushReturns, FlushFails,
                Acknowledge, Abort, Crash, Regroup, SendProgress, LoseProgress
  <2>2. RowsKept(r)
    BY <2>1 DEF database, RowsKept
  <2>3. NoNewExecutor(r)
    <3>1. CASE SelectJob(w) \/ FlushReturns(w)
      <4>1. \E p \in {"claim", "ack"} : phase' = [phase EXCEPT ![w] = p]
        BY <3>1 DEF SelectJob, FlushReturns, Goto
      <4>2. UNCHANGED <<log, cursor, step>>
        BY <3>1 DEF SelectJob, FlushReturns, loop
      <4> QED
        BY <1>1, <4>1, <4>2 DEF Phase
    <3>2. CASE Receive(w)
      <4>1. /\ phase[w] = "idle" /\ phase' = [phase EXCEPT ![w] = "select"]
            /\ UNCHANGED <<step, tally>> /\ cursor' = [cursor EXCEPT ![w] = position + 1]
        BY <3>2 DEF Receive, Goto, Loop!Poll
      <4>2. position + 1 # 0 /\ cursor \in [Workers -> 0..Len(log)]
        BY DEF TypeOK, Loop!TypeOK
      <4>3. \A v \in Workers : Moves(v)
        BY <4>1, <4>2 DEF Moves, TypeOK
      <4> QED
        BY <4>3, WorkerLoopStep, MovesTakeNothing
    <3>3. CASE FlushFails(w) \/ Abort(w) \/ Acknowledge(w) \/ Crash(w)
      <4>1. Leave(w) /\ cursor' = [cursor EXCEPT ![w] = 0]
        BY <3>3 DEF FlushFails, Abort, Acknowledge, Crash, Loop!HandlerRaises, Loop!Commit,
                    Loop!CommitRaises, Loop!Crash
      <4> QED
        BY <4>1, LeaveMoves, WorkerLoopStep, MovesTakeNothing
    <3>4. CASE Regroup(w) \/ SendProgress(w) \/ LoseProgress(w)
      <4>1. UNCHANGED <<control, cursor>>
        BY <3>4 DEF Regroup, SendProgress, LoseProgress, loop, Loop!Assign, Loop!Revoke,
                    Loop!Restart
      <4>2. \A v \in Workers : Moves(v)
        BY <4>1 DEF Moves, control
      <4> QED
        BY <4>2, WorkerLoopStep, MovesTakeNothing
    <3> QED
      BY <1>4, <3>1, <3>2, <3>3, <3>4 DEF WorkerNext, Run
  <2> QED
    BY <2>2, <2>3
<1> QED
  BY <1>2, <1>3, <1>4

\* Nobody but its executor changes a claimed replay, and nobody becomes its executor.
LEMMA ClaimedStep ==
  ASSUME IInv, [Next]_vars, NEW r \in Replays, Claimed(r)
  PROVE  /\ NoNewExecutor(r)
         /\ Claimed(r)' /\ jobWorker'[r] = jobWorker[r]
         /\ \A j \in Steps : stepStatus'[r][j] # stepStatus[r][j] =>
              \E w \in Workers : Executing(w, r) /\ step[w] = j
         /\ (\A w \in Workers : ~Executing(w, r)) => RowsKept(r)
<1>1. RowsKept(r) => Claimed(r)' /\ jobWorker'[r] = jobWorker[r] /\ stepStatus'[r] = stepStatus[r]
  BY DEF RowsKept, Claimed
<1>2. CASE ApiNext
  BY <1>1, <1>2, ApiLeavesClaimed
<1>3. ASSUME NEW w \in Workers, WorkerNext(w)
      PROVE  /\ NoNewExecutor(r)
             /\ Claimed(r)' /\ jobWorker'[r] = jobWorker[r]
             /\ \A j \in Steps : stepStatus'[r][j] # stepStatus[r][j] =>
                  \E v \in Workers : Executing(v, r) /\ step[v] = j
             /\ (\A v \in Workers : ~Executing(v, r)) => RowsKept(r)
  BY <1>1, <1>3, WorkerLeavesClaimed
<1>4. CASE UNCHANGED vars
  <2>1. UNCHANGED <<database, control, loop>>
    BY <1>4 DEF vars
  <2>2. \A v \in Workers : Moves(v)
    BY <2>1 DEF Moves, control, loop
  <2> QED
    BY <1>1, <2>1, <2>2, MovesTakeNothing DEF database, RowsKept
<1> QED
  BY <1>2, <1>3, <1>4 DEF Next

-----------------------------------------------------------------------------
(***************************************************************************)
(* What a step may never do.                                               *)
(***************************************************************************)

\* An orphan's rows are out of every step's reach.
LEMMA OrphanStep ==
  ASSUME IInv, [Next]_vars, NEW r \in Replays, Orphaned(r)
  PROVE  Orphaned(r)' /\ stepStatus'[r] = stepStatus[r] /\ jobWorker'[r] = jobWorker[r]
<1>1. Claimed(r) /\ jobStatus[r] = "running" /\ \A v \in Workers : ~Executing(v, r)
  BY DEF Orphaned, Claimed
<1>2. RowsKept(r) /\ NoNewExecutor(r)
  BY <1>1, ClaimedStep
<1> QED
  BY <1>1, <1>2 DEF RowsKept, NoNewExecutor, Orphaned

\* A replay whose worker is gone stays as it was left: nothing executes it twice.
THEOREM OrphansStay == Spec => OrphanNeverResumed
<1>1. IInv /\ [Next]_vars =>
        [\A r \in Replays : Orphaned(r) =>
           Orphaned(r)' /\ stepStatus'[r] = stepStatus[r] /\ jobWorker'[r] = jobWorker[r]]_vars
  BY OrphanStep
<1> QED
  BY SpecIInv, <1>1, PTL DEF Spec, OrphanNeverResumed

-----------------------------------------------------------------------------
(***************************************************************************)
(* Progress messages.  Each is true of the rows from the moment its worker *)
(* publishes it, because the rows it speaks of lie behind the executor,    *)
(* and only the row under the executor changes.  A replay has at most one  *)
(* producer for its messages, its claimer's, so the order in that queue is *)
(* the order in the topic.                                                 *)
(***************************************************************************)

\* m agrees with the rows of its replay, whose executor, if any, is past its step.
Sound(m) ==
  /\ Claimed(m.replay)
  /\ m.status = stepStatus[m.replay][m.step]
  /\ \A s \in Ended : m.counts[s] = CountUpTo(m.replay, m.step, s)
  /\ \A w \in Workers : Executing(w, m.replay) => m.step < step[w]

\* The topic holds sound messages, each filed under its replay.
InTopic ==
  \A r \in Replays : \A k \in 1..Len(progress[r]) :
    progress[r][k].replay = r /\ Sound(progress[r][k])

\* A producer's queue holds sound messages of replays that its process claimed.
InQueue ==
  \A w \in Workers : \A k \in 1..Len(unsent[w]) :
    Sound(unsent[w][k]) /\ jobWorker[unsent[w][k].replay] = w

\* Messages of a replay follow its steps: in the topic, in the queue, and from the
\* one to the other.
TopicOrder ==
  \A r \in Replays : \A k, l \in 1..Len(progress[r]) :
    k < l => progress[r][k].step < progress[r][l].step

QueueOrder ==
  \A w \in Workers : \A k, l \in 1..Len(unsent[w]) :
    k < l /\ unsent[w][k].replay = unsent[w][l].replay =>
      unsent[w][k].step < unsent[w][l].step

TopicFirst ==
  \A w \in Workers, r \in Replays :
    \A k \in 1..Len(progress[r]), l \in 1..Len(unsent[w]) :
      unsent[w][l].replay = r => progress[r][k].step < unsent[w][l].step

ProgressInv == InTopic /\ InQueue /\ TopicOrder /\ QueueOrder /\ TopicFirst

\* A message in a queue or in the topic is a message.
LEMMA MessageTypes ==
  ASSUME TypeOK
  PROVE  /\ \A w \in Workers : \A k \in 1..Len(unsent[w]) : unsent[w][k] \in Message
         /\ \A r \in Replays : \A k \in 1..Len(progress[r]) : progress[r][k] \in Message
  BY DEF TypeOK

\* Rows that do not change count the same.
LEMMA SameCount ==
  ASSUME NEW r, NEW i, \A j \in 1..i : stepStatus'[r][j] = stepStatus[r][j], NEW s
  PROVE  CountUpTo(r, i, s)' = CountUpTo(r, i, s)
<1>1. {j \in 1..i : stepStatus'[r][j] = s} = {j \in 1..i : stepStatus[r][j] = s}
  OBVIOUS
<1> QED
  BY <1>1 DEF CountUpTo

\* A sound message stays sound, and its replay stays its claimer's.
LEMMA SoundStep ==
  ASSUME IInv, [Next]_vars, NEW m \in Message, Sound(m)
  PROVE  Sound(m)' /\ jobWorker'[m.replay] = jobWorker[m.replay]
<1>1. PICK r \in Replays, i \in Steps : m.replay = r /\ m.step = i
  BY DEF Message
<1>2. /\ Claimed(r) /\ m.status = stepStatus[r][i]
      /\ \A s \in Ended : m.counts[s] = CountUpTo(r, i, s)
      /\ \A w \in Workers : Executing(w, r) => i < step[w]
  BY <1>1 DEF Sound
<1>3. /\ NoNewExecutor(r) /\ Claimed(r)' /\ jobWorker'[r] = jobWorker[r]
      /\ \A j \in Steps : stepStatus'[r][j] # stepStatus[r][j] =>
           \E w \in Workers : Executing(w, r) /\ step[w] = j
  BY <1>2, ClaimedStep
<1>4. \A j \in 1..i : stepStatus'[r][j] = stepStatus[r][j]
  <2>1. ASSUME NEW j \in 1..i, NEW w \in Workers, Executing(w, r)
        PROVE  j \in Steps /\ step[w] # j
    BY <1>2, <2>1, ServiceAssumption DEF Steps, IInv, TypeOK
  <2>2. 1..i \subseteq Steps
    BY ServiceAssumption DEF Steps
  <2> QED
    BY <1>3, <2>1, <2>2
<1>5. \A s \in Ended : m.counts[s] = CountUpTo(r, i, s)'
  BY <1>2, <1>4, SameCount
<1>6. m.status = stepStatus'[r][i]
  BY <1>2, <1>4, ServiceAssumption DEF Steps
<1>7. ASSUME NEW w \in Workers, Executing(w, r)'
      PROVE  i < step'[w]
  <2>1. Executing(w, r) /\ step[w] <= step'[w]
    BY <1>3, <1>7 DEF NoNewExecutor
  <2>2. i \in Nat /\ step[w] \in Nat /\ step'[w] \in Nat
    <3>1. TypeOK'
      BY NextIInv DEF IInv
    <3> QED
      BY <3>1, ServiceAssumption DEF Steps, IInv, TypeOK
  <2> QED
    BY <1>2, <2>1, <2>2
<1> QED
  BY <1>1, <1>3, <1>5, <1>6, <1>7 DEF Sound

\* Messages that stay where they are keep the invariant.
LEMMA ProgressStays ==
  ASSUME IInv, ProgressInv, [Next]_vars, UNCHANGED progress,
         \A w \in Workers : unsent'[w] = unsent[w] \/ unsent'[w] = <<>>
  PROVE  ProgressInv'
<1> USE DEF ProgressInv
<1>1. TypeOK
  BY DEF IInv
<1>2. InTopic'
  BY <1>1, MessageTypes, SoundStep DEF InTopic
<1>3. InQueue'
  BY <1>1, MessageTypes, SoundStep DEF InQueue
<1>4. TopicOrder'
  BY DEF TopicOrder
<1>5. QueueOrder'
  BY DEF QueueOrder
<1>6. TopicFirst'
  BY DEF TopicFirst
<1> QED
  BY <1>2, <1>3, <1>4, <1>5, <1>6

\* The message a worker publishes: of its replay, of its step, as its rows are.
LEMMA ReportsMessage ==
  ASSUME IInv, NEW w \in Workers, Report(w)
  PROVE  \E r \in Replays, i \in Steps, m \in Message :
           /\ r = Handled(w) /\ Executing(w, r) /\ RowsOf(w, r)
           /\ jobStatus[r] = "running" /\ jobWorker[r] = w
           /\ i = step[w]
           /\ unsent' = [unsent EXCEPT ![w] = Append(@, m)]
           /\ m.replay = r /\ m.step = i /\ m.status = Outcome(r, i) /\ m.counts = tally'[w]
<1>0. TypeOK /\ WorkerInv
  BY DEF IInv
<1>1. PICK r \in Replays : /\ r = Handled(w) /\ Executing(w, r) /\ RowsOf(w, r)
                           /\ jobStatus[r] = "running" /\ jobWorker[r] = w
  BY <1>0, AtStep DEF Report
<1>2. PICK i \in Steps : i = step[w]
  BY <1>0, <1>1, ServiceAssumption DEF TypeOK, RowsOf, Report, Steps
<1>3. PICK m \in Message :
        /\ unsent' = [unsent EXCEPT ![w] = Append(@, m)]
        /\ m.replay = r /\ m.step = i /\ m.status = Outcome(r, i) /\ m.counts = tally'[w]
  <2> DEFINE s == Outcome(r, i)
             t == [tally[w] EXCEPT ![s] = @ + 1]
             m == [replay |-> r, step |-> i, status |-> s, counts |-> t]
  <2>1. s \in Ended
    BY DEF Outcome, Ended
  <2>2. tally' = [tally EXCEPT ![w] = t] /\ unsent' = [unsent EXCEPT ![w] = Append(@, m)]
    BY <1>1, <1>2 DEF Report
  <2>3. t \in Tally
    <3>1. tally' \in [Workers -> Tally]
      BY <1>0, ReportType DEF WorkerInv
    <3>2. tally'[w] = t
      BY <1>0, <2>2 DEF TypeOK
    <3> QED
      BY <3>1, <3>2
  <2>4. m \in Message
    BY <2>1, <2>3 DEF Message
  <2>5. tally'[w] = t
    BY <1>0, <2>2 DEF TypeOK
  <2> HIDE DEF t, s
  <2>6. m.replay = r /\ m.step = i /\ m.status = s /\ m.counts = t
    OBVIOUS
  <2> HIDE DEF m
  <2> QED
    BY <2>2, <2>4, <2>5, <2>6 DEF s
<1> QED
  BY <1>1, <1>2, <1>3

\* A message is published: it is the last of its replay, which nobody else executes.
LEMMA ReportKeepsProgress ==
  ASSUME IInv, ProgressInv, NEW w \in Workers, Report(w)
  PROVE  ProgressInv'
<1> USE DEF ProgressInv
<1>0. TypeOK /\ WorkerInv /\ [Next]_vars
  BY DEF IInv, Next, WorkerNext, Run
<1>1. PICK r \in Replays, i \in Steps, m \in Message :
        /\ r = Handled(w) /\ Executing(w, r) /\ RowsOf(w, r)
        /\ jobStatus[r] = "running" /\ jobWorker[r] = w
        /\ i = step[w]
        /\ unsent' = [unsent EXCEPT ![w] = Append(@, m)]
        /\ m.replay = r /\ m.step = i /\ m.status = Outcome(r, i) /\ m.counts = tally'[w]
  BY ReportsMessage
<1>2. /\ phase[w] = "report" /\ phase' = [phase EXCEPT ![w] = "next"]
      /\ step' = [step EXCEPT ![w] = @ + 1]
      /\ UNCHANGED <<progress, database, log, cursor>>
  BY DEF Report, Goto, loop
<1>3. i \in Nat /\ step'[w] = i + 1
  BY <1>0, <1>1, <1>2, ServiceAssumption DEF Steps, TypeOK
<1>4. Sound(m)'
  <2>1. Claimed(r)'
    BY <1>1, <1>2 DEF Claimed, database
  <2>2. stepStatus'[r][i] = m.status
    BY <1>1, <1>2, <1>3 DEF RowsOf, Shown, database
  <2>3. WorkerInv'
    BY <1>0, ReportKeeps
  <2>4. \A v \in Workers : Executing(v, r)' => v = w
    BY <1>1, <1>2, <2>3 DEF WorkerInv, SoleExecutor, database
  <2>5. Executing(w, r)'
    BY <1>0, <1>1, <1>2 DEF Executing, Handled, TypeOK
  <2>6. \A s \in Ended : tally'[w][s] = CountUpTo(r, step[w] - 1, s)'
    BY <2>3, <2>5 DEF WorkerInv, RowsSoFar, RowsOf
  <2>7. step'[w] - 1 = i
    BY <1>3
  <2>8. \A s \in Ended : m.counts[s] = CountUpTo(r, i, s)'
    BY <1>1, <2>6, <2>7 DEF CountUpTo
  <2>9. \A v \in Workers : Executing(v, r)' => i < step'[v]
    BY <1>3, <2>4
  <2> QED
    BY <1>1, <2>1, <2>2, <2>8, <2>9 DEF Sound
<1>5. unsent'[w] = Append(unsent[w], m) /\ \A v \in Workers : v # w => unsent'[v] = unsent[v]
  BY <1>0, <1>1 DEF TypeOK
<1>6. /\ Len(unsent[w]) \in Nat /\ Len(unsent'[w]) = Len(unsent[w]) + 1
      /\ unsent'[w][Len(unsent[w]) + 1] = m
      /\ \A k \in 1..Len(unsent[w]) : unsent'[w][k] = unsent[w][k]
  <2>1. unsent[w] \in Seq(Message)
    BY <1>0 DEF TypeOK
  <2> QED
    BY <1>5, <2>1
<1>7. \A k \in 1..Len(unsent'[w]) : k \in 1..Len(unsent[w]) \/ k = Len(unsent[w]) + 1
  BY <1>6
<1>8. \A n \in Message : n.replay = r /\ Sound(n) => n.step < i
  BY <1>1 DEF Sound
<1>9. InTopic'
  BY <1>0, <1>2, MessageTypes, SoundStep DEF InTopic
<1>10. InQueue'
  <2>1. ASSUME NEW v \in Workers, NEW k \in 1..Len(unsent'[v])
        PROVE  (Sound(unsent[v][k]) /\ jobWorker[unsent[v][k].replay] = v)'
    <3>1. CASE v # w \/ k \in 1..Len(unsent[w])
      <4>1. k \in 1..Len(unsent[v]) /\ unsent'[v][k] = unsent[v][k]
        BY <1>5, <1>6, <2>1, <3>1
      <4>2. PICK n \in Message : n = unsent[v][k]
        BY <1>0, <4>1, MessageTypes
      <4>3. Sound(n) /\ jobWorker[n.replay] = v
        BY <4>1, <4>2 DEF InQueue
      <4>4. Sound(n)' /\ jobWorker'[n.replay] = jobWorker[n.replay]
        BY <1>0, <4>3, SoundStep
      <4> QED
        BY <4>1, <4>2, <4>3, <4>4
    <3>2. CASE v = w /\ k = Len(unsent[w]) + 1
      <4>1. unsent'[v][k] = m
        BY <1>6, <3>2
      <4>2. jobWorker'[r] = w
        BY <1>1, <1>2 DEF database
      <4> QED
        BY <1>1, <1>4, <3>2, <4>1, <4>2
    <3> QED
      BY <1>7, <2>1, <3>1, <3>2
  <2> QED
    BY <2>1 DEF InQueue
<1>11. TopicOrder'
  BY <1>2 DEF TopicOrder
<1>12. QueueOrder'
  <2>1. ASSUME NEW k \in 1..Len(unsent[w]), unsent[w][k].replay = r
        PROVE  unsent[w][k].step < i
    BY <1>0, <1>8, <2>1, MessageTypes DEF InQueue
  <2>2. ASSUME NEW k \in 1..Len(unsent'[w]), NEW l \in 1..Len(unsent'[w]), k < l,
               unsent'[w][k].replay = unsent'[w][l].replay
        PROVE  unsent'[w][k].step < unsent'[w][l].step
    <3>1. k \in 1..Len(unsent[w])
      BY <1>6, <2>2
    <3>2. CASE l \in 1..Len(unsent[w])
      BY <1>6, <2>2, <3>1, <3>2 DEF QueueOrder
    <3>3. CASE l = Len(unsent[w]) + 1
      BY <1>1, <1>6, <2>1, <2>2, <3>1, <3>3
    <3> QED
      BY <1>7, <3>2, <3>3
  <2>3. ASSUME NEW v \in Workers, v # w, NEW k \in 1..Len(unsent'[v]),
               NEW l \in 1..Len(unsent'[v]), k < l,
               unsent'[v][k].replay = unsent'[v][l].replay
        PROVE  unsent'[v][k].step < unsent'[v][l].step
    BY <1>5, <2>3 DEF QueueOrder
  <2> QED
    BY <2>2, <2>3 DEF QueueOrder
<1>13. TopicFirst'
  <2>1. ASSUME NEW v \in Workers, NEW q \in Replays, NEW k \in 1..Len(progress[q]),
               NEW l \in 1..Len(unsent'[v]), unsent'[v][l].replay = q
        PROVE  progress[q][k].step < unsent'[v][l].step
    <3>1. CASE v # w \/ l \in 1..Len(unsent[w])
      <4>1. l \in 1..Len(unsent[v]) /\ unsent'[v][l] = unsent[v][l]
        BY <1>5, <1>6, <2>1, <3>1
      <4> QED
        BY <2>1, <4>1 DEF TopicFirst
    <3>2. CASE v = w /\ l = Len(unsent[w]) + 1
      <4>1. unsent'[v][l] = m /\ q = r
        BY <1>1, <1>6, <2>1, <3>2
      <4>2. progress[q][k] \in Message /\ progress[q][k].replay = r /\ Sound(progress[q][k])
        BY <1>0, <4>1, MessageTypes DEF InTopic
      <4> QED
        BY <1>1, <1>8, <4>1, <4>2
    <3> QED
      BY <1>7, <2>1, <3>1, <3>2
  <2> QED
    BY <1>2, <2>1 DEF TopicFirst
<1> QED
  BY <1>9, <1>10, <1>11, <1>12, <1>13

\* The first message of a queue goes to the topic or is given up: it is past those
\* of its replay in the topic, and those left behind it, in this queue only, are
\* past it.
LEMMA SendKeepsProgress ==
  ASSUME IInv, ProgressInv, NEW w \in Workers, SendProgress(w) \/ LoseProgress(w)
  PROVE  ProgressInv'
<1> USE DEF ProgressInv
<1>0. TypeOK /\ [Next]_vars
  BY DEF IInv, Next, WorkerNext
<1>1. /\ unsent[w] # <<>> /\ unsent' = [unsent EXCEPT ![w] = Tail(@)]
      /\ Storing(Head(unsent[w])) \/ UNCHANGED progress
      /\ UNCHANGED database
  BY DEF SendProgress, LoseProgress
<1>2. /\ unsent[w] \in Seq(Message) /\ unsent'[w] = Tail(unsent[w])
      /\ \A v \in Workers : v # w => unsent'[v] = unsent[v]
  BY <1>0, <1>1 DEF TypeOK
<1>3. /\ Len(unsent[w]) \in Nat \ {0} /\ Len(unsent'[w]) = Len(unsent[w]) - 1
      /\ Head(unsent[w]) = unsent[w][1]
      /\ \A k \in 1..Len(unsent'[w]) : unsent'[w][k] = unsent[w][k + 1]
  <2>1. ASSUME NEW q \in Seq(Message), q # <<>>
        PROVE  /\ Len(q) \in Nat \ {0} /\ Len(Tail(q)) = Len(q) - 1 /\ Head(q) = q[1]
               /\ \A k \in 1..Len(Tail(q)) : Tail(q)[k] = q[k + 1]
    BY <2>1
  <2> QED
    BY <1>1, <1>2, <2>1
<1>4. PICK m \in Message : m = unsent[w][1]
  BY <1>0, <1>3, MessageTypes
<1>5. PICK r \in Replays : r = m.replay
  BY DEF Message
<1>6. Sound(m) /\ Sound(m)' /\ jobWorker[r] = w
  <2>1. 1 \in 1..Len(unsent[w])
    BY <1>3
  <2>2. Sound(m) /\ jobWorker[r] = w
    BY <1>4, <1>5, <2>1 DEF InQueue
  <2> QED
    BY <1>0, <2>2, SoundStep
<1>7. ASSUME NEW v \in Workers, NEW k \in 1..Len(unsent'[v])
      PROVE  \E j \in 1..Len(unsent[v]) :
               /\ unsent'[v][k] = unsent[v][j]
               /\ j = IF v = w THEN k + 1 ELSE k
  <2>1. CASE v = w
    <3>1. k + 1 \in 1..Len(unsent[v])
      BY <1>3, <1>7, <2>1
    <3> QED
      BY <1>3, <1>7, <2>1, <3>1
  <2>2. CASE v # w
    BY <1>2, <1>7, <2>2
  <2> QED
    BY <2>1, <2>2
<1>8. InQueue'
  <2>1. ASSUME NEW v \in Workers, NEW k \in 1..Len(unsent'[v])
        PROVE  (Sound(unsent[v][k]) /\ jobWorker[unsent[v][k].replay] = v)'
    <3>1. PICK j \in 1..Len(unsent[v]) : unsent'[v][k] = unsent[v][j]
      BY <1>7, <2>1
    <3>2. PICK n \in Message : n = unsent[v][j]
      BY <1>0, <3>1, MessageTypes
    <3>3. Sound(n) /\ jobWorker[n.replay] = v
      BY <3>1, <3>2 DEF InQueue
    <3>4. Sound(n)' /\ jobWorker'[n.replay] = jobWorker[n.replay]
      BY <1>0, <3>3, SoundStep
    <3> QED
      BY <3>1, <3>2, <3>3, <3>4
  <2> QED
    BY <2>1 DEF InQueue
<1>9. QueueOrder'
  <2>1. ASSUME NEW v \in Workers, NEW k \in 1..Len(unsent'[v]), NEW l \in 1..Len(unsent'[v]),
               k < l, unsent'[v][k].replay = unsent'[v][l].replay
        PROVE  unsent'[v][k].step < unsent'[v][l].step
    <3>1. PICK a \in 1..Len(unsent[v]) : /\ unsent'[v][k] = unsent[v][a]
                                         /\ a = IF v = w THEN k + 1 ELSE k
      BY <1>7, <2>1
    <3>2. PICK b \in 1..Len(unsent[v]) : /\ unsent'[v][l] = unsent[v][b]
                                         /\ b = IF v = w THEN l + 1 ELSE l
      BY <1>7, <2>1
    <3>3. a < b
      BY <2>1, <3>1, <3>2
    <3> QED
      BY <2>1, <3>1, <3>2, <3>3 DEF QueueOrder
  <2> QED
    BY <2>1 DEF QueueOrder
<1>10. ASSUME NEW v \in Workers, NEW l \in 1..Len(unsent'[v]), unsent'[v][l].replay = r
       PROVE  m.step < unsent'[v][l].step
  <2>1. PICK j \in 1..Len(unsent[v]) : /\ unsent'[v][l] = unsent[v][j]
                                       /\ j = IF v = w THEN l + 1 ELSE l
    BY <1>7, <1>10
  <2>2. v = w
    BY <1>6, <1>10, <2>1 DEF InQueue
  <2>3. 1 < j /\ 1 \in 1..Len(unsent[w])
    BY <1>3, <1>10, <2>1, <2>2
  <2> QED
    BY <1>4, <1>5, <1>10, <2>1, <2>2, <2>3 DEF QueueOrder
<1>11. ASSUME NEW v \in Workers, NEW q \in Replays, NEW k \in 1..Len(progress[q]),
              NEW l \in 1..Len(unsent'[v]), unsent'[v][l].replay = q
       PROVE  progress[q][k].step < unsent'[v][l].step
  <2>1. PICK j \in 1..Len(unsent[v]) : unsent'[v][l] = unsent[v][j]
    BY <1>7, <1>11
  <2> QED
    BY <1>11, <2>1 DEF TopicFirst
<1>12. \A k \in 1..Len(progress[r]) : progress[r][k].step < m.step
  <2>1. 1 \in 1..Len(unsent[w])
    BY <1>3
  <2> QED
    BY <1>4, <1>5, <2>1 DEF TopicFirst
<1>13. CASE UNCHANGED progress
  <2>1. InTopic'
    BY <1>0, <1>13, MessageTypes, SoundStep DEF InTopic
  <2>2. TopicOrder'
    BY <1>13 DEF TopicOrder
  <2>3. TopicFirst'
    BY <1>11, <1>13 DEF TopicFirst
  <2> QED
    BY <1>8, <1>9, <2>1, <2>2, <2>3
<1>14. CASE Storing(Head(unsent[w]))
  <2>1. /\ progress[r] \in Seq(Message)
        /\ progress'[r] = Append(progress[r], m)
        /\ \A q \in Replays : q # r => progress'[q] = progress[q]
    BY <1>0, <1>3, <1>4, <1>5, <1>14 DEF Storing, TypeOK
  <2>2. /\ Len(progress[r]) \in Nat /\ Len(progress'[r]) = Len(progress[r]) + 1
        /\ progress'[r][Len(progress[r]) + 1] = m
        /\ \A k \in 1..Len(progress[r]) : progress'[r][k] = progress[r][k]
    BY <2>1
  <2>3. ASSUME NEW q \in Replays, NEW k \in 1..Len(progress'[q])
        PROVE  \/ k \in 1..Len(progress[q]) /\ progress'[q][k] = progress[q][k]
               \/ q = r /\ k = Len(progress[r]) + 1 /\ progress'[q][k] = m
    <3>1. CASE q # r
      BY <2>1, <2>3, <3>1
    <3>2. CASE q = r
      <4>1. k \in 1..Len(progress[r]) \/ k = Len(progress[r]) + 1
        BY <2>2, <2>3, <3>2
      <4> QED
        BY <2>2, <3>2, <4>1
    <3> QED
      BY <3>1, <3>2
  <2>4. InTopic'
    <3>1. ASSUME NEW q \in Replays, NEW k \in 1..Len(progress'[q])
          PROVE  (progress[q][k].replay = q /\ Sound(progress[q][k]))'
      <4>1. CASE k \in 1..Len(progress[q]) /\ progress'[q][k] = progress[q][k]
        <5>1. PICK n \in Message : n = progress[q][k]
          BY <1>0, <4>1, MessageTypes
        <5>2. n.replay = q /\ Sound(n)
          BY <4>1, <5>1 DEF InTopic
        <5> QED
          BY <1>0, <4>1, <5>1, <5>2, SoundStep
      <4>2. CASE q = r /\ progress'[q][k] = m
        BY <1>5, <1>6, <4>2
      <4> QED
        BY <2>3, <3>1, <4>1, <4>2
    <3> QED
      BY <3>1 DEF InTopic
  <2>5. TopicOrder'
    <3>1. ASSUME NEW q \in Replays, NEW k \in 1..Len(progress'[q]),
                 NEW l \in 1..Len(progress'[q]), k < l
          PROVE  progress'[q][k].step < progress'[q][l].step
      <4>1. CASE l \in 1..Len(progress[q]) /\ progress'[q][l] = progress[q][l]
        <5>1. k \in 1..Len(progress[q]) /\ progress'[q][k] = progress[q][k]
          BY <2>2, <2>3, <3>1, <4>1
        <5> QED
          BY <3>1, <4>1, <5>1 DEF TopicOrder
      <4>2. CASE q = r /\ l = Len(progress[r]) + 1 /\ progress'[q][l] = m
        <5>1. k \in 1..Len(progress[r]) /\ progress'[q][k] = progress[r][k]
          BY <2>2, <3>1, <4>2
        <5> QED
          BY <1>12, <4>2, <5>1
      <4> QED
        BY <2>3, <3>1, <4>1, <4>2
    <3> QED
      BY <3>1 DEF TopicOrder
  <2>6. TopicFirst'
    <3>1. ASSUME NEW v \in Workers, NEW q \in Replays, NEW k \in 1..Len(progress'[q]),
                 NEW l \in 1..Len(unsent'[v]), unsent'[v][l].replay = q
          PROVE  progress'[q][k].step < unsent'[v][l].step
      <4>1. CASE k \in 1..Len(progress[q]) /\ progress'[q][k] = progress[q][k]
        BY <1>11, <3>1, <4>1
      <4>2. CASE q = r /\ progress'[q][k] = m
        BY <1>10, <3>1, <4>2
      <4> QED
        BY <2>3, <3>1, <4>1, <4>2
    <3> QED
      BY <3>1 DEF TopicFirst
  <2> QED
    BY <1>8, <1>9, <2>4, <2>5, <2>6
<1> QED
  BY <1>1, <1>13, <1>14

\* Every other step leaves the messages where they are, or loses a queue.
LEMMA NextProgressInv == IInv /\ ProgressInv /\ [Next]_vars => ProgressInv'
<1> SUFFICES ASSUME IInv, ProgressInv, [Next]_vars
             PROVE  ProgressInv'
  OBVIOUS
<1>1. CASE ApiNext
  <2>1. UNCHANGED sending
    BY <1>1 DEF ApiNext, CreateReplay, Publish, PublishRaises, FlushAccepts, FlushRaises,
                DeliverRequest, LoseRequest, ApiCrash
  <2> QED
    BY <2>1, ProgressStays DEF sending
<1>2. ASSUME NEW w \in Workers, WorkerNext(w)
      PROVE  ProgressInv'
  <2>1. CASE Report(w)
    BY <2>1, ReportKeepsProgress
  <2>2. CASE SendProgress(w) \/ LoseProgress(w)
    BY <2>2, SendKeepsProgress
  <2>3. CASE Crash(w)
    <3>1. UNCHANGED progress /\ unsent' = [unsent EXCEPT ![w] = <<>>]
      BY <2>3 DEF Crash
    <3>2. \A v \in Workers : unsent'[v] = unsent[v] \/ unsent'[v] = <<>>
      BY <3>1 DEF IInv, TypeOK
    <3> QED
      BY <3>1, <3>2, ProgressStays
  <2>4. CASE ~Report(w) /\ ~SendProgress(w) /\ ~LoseProgress(w) /\ ~Crash(w)
    <3>1. UNCHANGED <<unsent, progress>>
      BY <1>2, <2>4 DEF WorkerNext, Run, Receive, SelectJob, ClaimJob, StartStep, EndStep,
                        CompleteJob, FlushReturns, FlushFails, Acknowledge, Abort, Regroup,
                        sending
    <3> QED
      BY <3>1, ProgressStays
  <2> QED
    BY <2>1, <2>2, <2>3, <2>4
<1>3. CASE UNCHANGED vars
  BY <1>3, ProgressStays DEF vars, sending
<1> QED
  BY <1>1, <1>2, <1>3 DEF Next

\* No message yet.
LEMMA InitProgressInv == Init => ProgressInv
  BY DEF Init, ProgressInv, InTopic, InQueue, TopicOrder, QueueOrder, TopicFirst

\* What the order and the soundness of the messages come to.
LEMMA ProgressInvFaithful == ProgressInv => ProgressFaithful
  BY DEF ProgressInv, InTopic, TopicOrder, Sound, ProgressFaithful

\* ProgressInv always holds.
LEMMA SpecProgressInv == Spec => []ProgressInv
  BY InitProgressInv, NextProgressInv, SpecIInv, PTL DEF Spec

\* The progress topic never runs ahead of the rows and never contradicts them, and
\* tells each step of a replay at most once and in order.
THEOREM ProgressStaysFaithful == Spec => []ProgressFaithful
  BY SpecProgressInv, ProgressInvFaithful, PTL

-----------------------------------------------------------------------------
(***************************************************************************)
(* What a flush that returns means.  The producer outlives the handler:    *)
(* its queue may hold messages of earlier replays, and its errors may be   *)
(* theirs.  But each message of the replay in hand is in the topic, in the *)
(* queue, or in the list of errors, which nobody clears while the handler  *)
(* is at work.                                                             *)
(***************************************************************************)

\* The producer of w has the message of step i of r to send.
Queued(w, r, i) ==
  \E k \in 1..Len(unsent[w]) : unsent[w][k].replay = r /\ unsent[w][k].step = i

\* The message of step i of r is not lost without w's producer knowing it.
Accounted(w, r, i) == sendErrors[w] \/ Told(r, i) \/ Queued(w, r, i)

\* w has claimed r and is not done with it.
AtWork(w, r) == phase[w] \in {"next", "exec", "report", "flush"} /\ Handled(w) = r

NothingLost ==
  \A w \in Workers, r \in Replays :
    AtWork(w, r) => \A i \in 1..(step[w] - 1) : Accounted(w, r, i)

FlushAtEnd == \A w \in Workers : phase[w] = "flush" => step[w] > NumSteps

FlushInv == NothingLost /\ FlushAtEnd

\* A worker that takes no step stands still, and so does its producer.
LEMMA OthersStandStill ==
  ASSUME TypeOK, [Next]_vars, NEW w \in Workers, ~WorkerNext(w)
  PROVE  /\ phase'[w] = phase[w] /\ step'[w] = step[w] /\ cursor'[w] = cursor[w]
         /\ unsent'[w] = unsent[w] /\ sendErrors'[w] = sendErrors[w]
<1>1. CASE ApiNext
  <2>1. UNCHANGED <<control, sending>>
    BY <1>1 DEF ApiNext, CreateReplay, Publish, PublishRaises, FlushAccepts, FlushRaises,
                DeliverRequest, LoseRequest, ApiCrash
  <2>2. UNCHANGED cursor
    BY <1>1 DEF ApiNext, CreateReplay, Publish, PublishRaises, FlushAccepts, FlushRaises,
                DeliverRequest, LoseRequest, ApiCrash, Loop!Produce, loop
  <2> QED
    BY <2>1, <2>2 DEF control, sending
<1>2. ASSUME NEW v \in Workers, WorkerNext(v), v # w
      PROVE  /\ phase'[w] = phase[w] /\ step'[w] = step[w] /\ cursor'[w] = cursor[w]
             /\ unsent'[w] = unsent[w] /\ sendErrors'[w] = sendErrors[w]
  <2>1. /\ phase \in [Workers -> Phase] /\ step \in [Workers -> 1..(NumSteps + 1)]
        /\ cursor \in [Workers -> 0..Len(log)] /\ unsent \in [Workers -> Seq(Message)]
        /\ sendErrors \in [Workers -> BOOLEAN]
    BY DEF TypeOK, Loop!TypeOK
  <2>2. CASE Run(v)
    <3>1. UNCHANGED <<cursor, sendErrors>>
      BY <2>2 DEF Run, SelectJob, ClaimJob, StartStep, EndStep, Report, CompleteJob,
                  FlushReturns, loop, sending
    <3>2. phase'[w] = phase[w]
      BY <1>2, <2>1, <2>2 DEF Run, SelectJob, ClaimJob, StartStep, EndStep, Report,
                              CompleteJob, FlushReturns, Goto
    <3>3. step'[w] = step[w] /\ unsent'[w] = unsent[w]
      BY <1>2, <2>1, <2>2 DEF Run, SelectJob, ClaimJob, StartStep, EndStep, Report,
                              CompleteJob, FlushReturns, sending
    <3> QED
      BY <3>1, <3>2, <3>3
  <2>3. CASE Receive(v)
    BY <1>2, <2>1, <2>3 DEF Receive, Goto, Loop!Poll, sending
  <2>4. CASE FlushFails(v) \/ Abort(v) \/ Acknowledge(v) \/ Crash(v)
    <3>1. cursor' = [cursor EXCEPT ![v] = 0]
      BY <2>4 DEF FlushFails, Abort, Acknowledge, Crash, Loop!HandlerRaises, Loop!Commit,
                  Loop!CommitRaises, Loop!Crash
    <3>2. phase'[w] = phase[w] /\ step'[w] = step[w]
      BY <1>2, <2>1, <2>4 DEF FlushFails, Abort, Acknowledge, Crash, Leave
    <3>3. unsent'[w] = unsent[w] /\ sendErrors'[w] = sendErrors[w]
      BY <1>2, <2>1, <2>4 DEF FlushFails, Abort, Acknowledge, Crash, sending
    <3> QED
      BY <1>2, <2>1, <3>1, <3>2, <3>3
  <2>5. CASE Regroup(v) \/ SendProgress(v) \/ LoseProgress(v)
    <3>1. UNCHANGED <<control, cursor>>
      BY <2>5 DEF Regroup, SendProgress, LoseProgress, loop, Loop!Assign, Loop!Revoke,
                  Loop!Restart
    <3>2. unsent'[w] = unsent[w] /\ sendErrors'[w] = sendErrors[w]
      BY <1>2, <2>1, <2>5 DEF Regroup, SendProgress, LoseProgress, sending
    <3> QED
      BY <3>1, <3>2 DEF control
  <2> QED
    BY <1>2, <2>2, <2>3, <2>4, <2>5 DEF WorkerNext
<1>3. CASE UNCHANGED vars
  BY <1>3 DEF vars, control, sending, loop
<1> QED
  BY <1>1, <1>2, <1>3 DEF Next

\* The topic only grows.
LEMMA TopicGrows ==
  ASSUME TypeOK, [Next]_vars, NEW r \in Replays, NEW i \in Steps, Told(r, i)
  PROVE  Told(r, i)'
<1>1. ASSUME NEW m \in Message, Storing(m)
      PROVE  Told(r, i)'
  <2>1. ASSUME NEW q \in Seq(Message)
        PROVE  \A k \in 1..Len(q) : k \in 1..Len(Append(q, m)) /\ Append(q, m)[k] = q[k]
    OBVIOUS
  <2>2. progress[r] \in Seq(Message)
    BY DEF TypeOK
  <2>3. progress'[r] = progress[r] \/ progress'[r] = Append(progress[r], m)
    BY <1>1 DEF Storing, TypeOK, Message
  <2> QED
    BY <2>1, <2>2, <2>3 DEF Told
<1>2. ASSUME UNCHANGED progress
      PROVE  Told(r, i)'
  BY <1>2 DEF Told
<1>3. ASSUME NEW v \in Workers, unsent[v] # <<>>
      PROVE  Head(unsent[v]) \in Message
  <2>1. ASSUME NEW q \in Seq(Message), q # <<>>
        PROVE  Head(q) \in Message
    BY <2>1
  <2> QED
    BY <1>3, <2>1 DEF TypeOK
<1>4. CASE ApiNext
  BY <1>2, <1>4 DEF ApiNext, CreateReplay, Publish, PublishRaises, FlushAccepts, FlushRaises,
                    DeliverRequest, LoseRequest, ApiCrash, sending
<1>5. ASSUME NEW v \in Workers, WorkerNext(v)
      PROVE  Told(r, i)'
  <2>1. \/ unsent[v] # <<>> /\ Storing(Head(unsent[v]))
        \/ UNCHANGED progress
    BY <1>5 DEF WorkerNext, Run, Receive, SelectJob, ClaimJob, StartStep, EndStep, Report,
                CompleteJob, FlushReturns, FlushFails, Acknowledge, Abort, Crash, Regroup,
                SendProgress, LoseProgress, sending
  <2> QED
    BY <1>1, <1>2, <1>3, <2>1
<1>6. CASE UNCHANGED vars
  BY <1>2, <1>6 DEF vars, sending
<1> QED
  BY <1>4, <1>5, <1>6 DEF Next

\* A published message enters the queue, behind those that are there.
LEMMA ReportQueues ==
  ASSUME IInv, NEW w \in Workers, Report(w), NEW r \in Replays, Handled(w) = r,
         NEW j \in Steps, j = step[w] \/ Queued(w, r, j)
  PROVE  Queued(w, r, j)'
<1>1. PICK i \in Steps, m \in Message :
        /\ r = Handled(w) /\ i = step[w]
        /\ unsent' = [unsent EXCEPT ![w] = Append(@, m)]
        /\ m.replay = r /\ m.step = i
  BY ReportsMessage
<1>2. unsent[w] \in Seq(Message) /\ unsent'[w] = Append(unsent[w], m)
  BY <1>1 DEF IInv, TypeOK
<1>3. /\ Len(unsent[w]) \in Nat /\ Len(unsent'[w]) = Len(unsent[w]) + 1
      /\ unsent'[w][Len(unsent[w]) + 1] = m
      /\ \A k \in 1..Len(unsent[w]) : unsent'[w][k] = unsent[w][k]
  BY <1>2
<1>4. CASE j = step[w]
  <2>1. Len(unsent[w]) + 1 \in 1..Len(unsent'[w])
    BY <1>3
  <2> QED
    BY <1>1, <1>3, <1>4, <2>1 DEF Queued
<1>5. CASE Queued(w, r, j)
  <2>1. PICK k \in 1..Len(unsent[w]) : unsent[w][k].replay = r /\ unsent[w][k].step = j
    BY <1>5 DEF Queued
  <2>2. k \in 1..Len(unsent'[w]) /\ unsent'[w][k] = unsent[w][k]
    BY <1>3
  <2> QED
    BY <2>1, <2>2 DEF Queued
<1> QED
  BY <1>4, <1>5

\* The head of a queue goes to the topic, and the others stay, or an error is noted.
LEMMA SendAccounts ==
  ASSUME TypeOK, [Next]_vars, NEW w \in Workers, SendProgress(w) \/ LoseProgress(w),
         NEW r \in Replays, NEW i \in Steps, Accounted(w, r, i)
  PROVE  Accounted(w, r, i)'
<1>1. /\ unsent[w] \in Seq(Message) /\ unsent[w] # <<>>
      /\ unsent' = [unsent EXCEPT ![w] = Tail(@)]
  BY DEF SendProgress, LoseProgress, TypeOK
<1>2. CASE LoseProgress(w)
  BY <1>2 DEF LoseProgress, TypeOK, Accounted
<1>3. CASE SendProgress(w) /\ (sendErrors[w] \/ Told(r, i))
  BY <1>3, TopicGrows DEF SendProgress, Accounted
<1>4. CASE SendProgress(w) /\ Queued(w, r, i)
  <2>1. PICK k \in 1..Len(unsent[w]) : unsent[w][k].replay = r /\ unsent[w][k].step = i
    BY <1>4 DEF Queued
  <2>2. ASSUME NEW q \in Seq(Message), q # <<>>
        PROVE  /\ Len(q) \in Nat \ {0} /\ Len(Tail(q)) = Len(q) - 1 /\ Head(q) = q[1]
               /\ Head(q) \in Message
               /\ \A l \in 1..Len(Tail(q)) : Tail(q)[l] = q[l + 1]
    BY <2>2
  <2>3. unsent'[w] = Tail(unsent[w])
    BY <1>1 DEF TypeOK
  <2>4. CASE k = 1
    <3>1. PICK m \in Message : /\ m = Head(unsent[w]) /\ m.replay = r /\ m.step = i
      BY <1>1, <2>1, <2>2, <2>4
    <3>2. progress[r] \in Seq(Message) /\ progress'[r] = Append(progress[r], m)
      BY <1>4, <3>1 DEF SendProgress, Storing, TypeOK
    <3>3. Len(progress'[r]) \in 1..Len(progress'[r]) /\ progress'[r][Len(progress'[r])] = m
      BY <3>2
    <3> QED
      BY <3>1, <3>3 DEF Told, Accounted
  <2>5. CASE k # 1
    <3>1. /\ Len(unsent[w]) \in Nat /\ Len(unsent'[w]) = Len(unsent[w]) - 1
          /\ \A l \in 1..Len(unsent'[w]) : unsent'[w][l] = unsent[w][l + 1]
      BY <1>1, <2>2, <2>3
    <3>2. k - 1 \in 1..Len(unsent'[w]) /\ (k - 1) + 1 = k
      BY <2>5, <3>1
    <3>3. unsent'[w][k - 1] = unsent[w][k]
      BY <3>1, <3>2
    <3> QED
      BY <2>1, <3>2, <3>3 DEF Queued, Accounted
  <2> QED
    BY <2>4, <2>5
<1> QED
  BY <1>2, <1>3, <1>4 DEF Accounted

\* What a worker's producer knows of stays known while the worker is in its handler.
LEMMA AccountedStays ==
  ASSUME IInv, [Next]_vars, NEW w \in Workers, NEW r \in Replays, NEW i \in Steps,
         AtWork(w, r), phase'[w] # "idle", Accounted(w, r, i)
  PROVE  Accounted(w, r, i)'
<1>0. TypeOK
  BY DEF IInv
<1>1. ASSUME unsent'[w] = unsent[w], sendErrors'[w] = sendErrors[w]
      PROVE  Accounted(w, r, i)'
  BY <1>0, <1>1, TopicGrows DEF Accounted, Queued
<1>2. CASE ~WorkerNext(w)
  BY <1>0, <1>1, <1>2, OthersStandStill
<1>3. CASE Report(w)
  <2>1. sendErrors' = sendErrors
    BY <1>3 DEF Report
  <2>2. Handled(w) = r
    BY DEF AtWork
  <2>3. Queued(w, r, i) => Queued(w, r, i)'
    BY <1>3, <2>2, ReportQueues
  <2> QED
    BY <1>0, <2>1, <2>3, TopicGrows DEF Accounted
<1>4. CASE SendProgress(w) \/ LoseProgress(w)
  BY <1>0, <1>4, SendAccounts
<1>5. ~FlushFails(w) /\ ~Crash(w)
  BY <1>0 DEF FlushFails, Crash, Leave, TypeOK
<1>6. CASE WorkerNext(w) /\ ~Report(w) /\ ~SendProgress(w) /\ ~LoseProgress(w)
  <2>1. UNCHANGED <<unsent, sendErrors>>
    BY <1>5, <1>6 DEF WorkerNext, Run, Receive, SelectJob, ClaimJob, StartStep, EndStep,
                      CompleteJob, FlushReturns, Acknowledge, Abort, Regroup, sending
  <2> QED
    BY <1>1, <2>1
<1> QED
  BY <1>2, <1>3, <1>4, <1>6

\* A worker at work is so from the step before, or begins at the first step, and
\* counts up only when it reports.
LEMMA StaysAtWork ==
  ASSUME IInv, [Next]_vars, NEW w \in Workers, NEW r \in Replays, AtWork(w, r)'
  PROVE  \/ step'[w] = 1 /\ phase'[w] = "next"
         \/ /\ AtWork(w, r)
            /\ \/ step'[w] = step[w] /\ phase'[w] = phase[w]
               \/ step'[w] = step[w] /\ phase'[w] # "flush"
               \/ step'[w] = step[w] /\ step[w] > NumSteps
               \/ Report(w) /\ step'[w] = step[w] + 1 /\ phase'[w] # "flush"
<1>1. TypeOK /\ InHand /\ FreshStart /\ [Loop!Next]_loop
  BY WorkerLoopStep, ApiLoopStep DEF IInv, WorkerInv, Next, vars
<1>2. ASSUME phase[w] # "idle", cursor'[w] = cursor[w]
      PROVE  Handled(w)' = Handled(w)
  BY <1>1, <1>2, SameReplay
<1>3. phase \in [Workers -> Phase] /\ step \in [Workers -> 1..(NumSteps + 1)]
  BY <1>1 DEF TypeOK
<1>4. CASE ~WorkerNext(w)
  <2>1. phase'[w] = phase[w] /\ step'[w] = step[w] /\ cursor'[w] = cursor[w]
    BY <1>1, <1>4, OthersStandStill
  <2> QED
    BY <1>2, <2>1 DEF AtWork
<1>5. CASE Receive(w) \/ SelectJob(w) \/ FlushReturns(w) \/ FlushFails(w) \/ Acknowledge(w)
           \/ Abort(w) \/ Crash(w)
  <2>1. phase'[w] \in {"idle", "select", "claim", "ack"}
    BY <1>3, <1>5 DEF Receive, SelectJob, FlushReturns, FlushFails, Acknowledge, Abort,
                      Crash, Goto, Leave
  <2> QED
    BY <2>1 DEF AtWork
<1>6. CASE ClaimJob(w)
  BY <1>1, <1>3, <1>6 DEF ClaimJob, Goto, FreshStart
<1>7. CASE StartStep(w) \/ EndStep(w)
  <2>1. /\ phase[w] \in {"next", "exec"} /\ phase'[w] \in {"exec", "report"}
        /\ step' = step /\ cursor' = cursor
    BY <1>3, <1>7 DEF StartStep, EndStep, Goto, loop
  <2> QED
    BY <1>2, <2>1 DEF AtWork
<1>8. CASE Report(w)
  <2>1. /\ phase[w] = "report" /\ phase'[w] = "next"
        /\ step'[w] = step[w] + 1 /\ cursor' = cursor
    BY <1>3, <1>8 DEF Report, Goto, loop
  <2> QED
    BY <1>2, <1>8, <2>1 DEF AtWork
<1>9. CASE CompleteJob(w)
  <2>1. phase[w] = "next" /\ step[w] > NumSteps /\ step' = step /\ cursor' = cursor
    BY <1>9 DEF CompleteJob, loop
  <2> QED
    BY <1>2, <2>1 DEF AtWork
<1>10. CASE Regroup(w) \/ SendProgress(w) \/ LoseProgress(w)
  <2>1. UNCHANGED <<control, cursor>>
    BY <1>10 DEF Regroup, SendProgress, LoseProgress, loop, Loop!Assign, Loop!Revoke,
                 Loop!Restart
  <2>2. phase'[w] = phase[w] /\ step'[w] = step[w] /\ cursor'[w] = cursor[w]
    BY <2>1 DEF control
  <2> QED
    BY <1>2, <2>2 DEF AtWork
<1> QED
  BY <1>4, <1>5, <1>6, <1>7, <1>8, <1>9, <1>10 DEF WorkerNext, Run

\* FlushInv is inductive beside IInv.
LEMMA NextFlushInv == IInv /\ FlushInv /\ [Next]_vars => FlushInv'
<1> SUFFICES ASSUME IInv, FlushInv, [Next]_vars
             PROVE  FlushInv'
  OBVIOUS
<1>1. TypeOK /\ TypeOK' /\ InHand'
  BY NextIInv DEF IInv, WorkerInv
<1>2. NothingLost'
  <2>1. ASSUME NEW w \in Workers, NEW r \in Replays, AtWork(w, r)',
               NEW i \in 1..(step'[w] - 1)
        PROVE  Accounted(w, r, i)'
    <3>1. step[w] \in 1..(NumSteps + 1) /\ step'[w] \in 1..(NumSteps + 1) /\ NumSteps \in Nat
      BY <1>1, ServiceAssumption DEF TypeOK
    <3>2. i \in Steps /\ step'[w] # 1
      BY <2>1, <3>1 DEF Steps
    <3>3. AtWork(w, r) /\ (step'[w] = step[w] \/ (Report(w) /\ step'[w] = step[w] + 1))
      BY <2>1, <3>2, StaysAtWork
    <3>4. phase'[w] # "idle"
      BY <2>1 DEF AtWork
    <3>5. CASE i \in 1..(step[w] - 1)
      BY <3>2, <3>3, <3>4, <3>5, AccountedStays DEF FlushInv, NothingLost
    <3>6. CASE Report(w) /\ i = step[w]
      <4>1. Handled(w) = r
        BY <3>3 DEF AtWork
      <4> QED
        BY <3>2, <3>6, <4>1, ReportQueues DEF Accounted
    <3> QED
      BY <2>1, <3>1, <3>3, <3>5, <3>6
  <2> QED
    BY <2>1 DEF NothingLost
<1>3. FlushAtEnd'
  <2>1. ASSUME NEW w \in Workers, phase'[w] = "flush"
        PROVE  step'[w] > NumSteps
    <3>1. PICK r \in Replays : AtWork(w, r)'
      <4>1. Handled(w)' \in Replays
        <5>1. cursor'[w] \in 0..Len(log') /\ cursor'[w] # 0 /\ log' \in Seq(Replays)
          BY <1>1, <2>1 DEF TypeOK, InHand, Loop!TypeOK
        <5> QED
          BY <5>1 DEF Handled
      <4> QED
        BY <2>1, <4>1 DEF AtWork
    <3> QED
      BY <2>1, <3>1, StaysAtWork DEF FlushInv, FlushAtEnd
  <2> QED
    BY <2>1 DEF FlushAtEnd
<1> QED
  BY <1>2, <1>3 DEF FlushInv

LEMMA InitFlushInv == Init => FlushInv
  BY DEF Init, FlushInv, NothingLost, FlushAtEnd, AtWork

\* FlushInv always holds.
LEMMA SpecFlushInv == Spec => []FlushInv
  BY InitFlushInv, NextFlushInv, SpecIInv, PTL DEF Spec

\* A flush that returns leaves neither queue nor errors to account for a message.
LEMMA FlushStep ==
  ASSUME IInv, FlushInv, [Next]_vars, NEW w \in Workers,
         phase[w] = "flush", phase'[w] = "ack", NEW i \in Steps
  PROVE  Told(Handled(w), i)
<1>1. TypeOK /\ InHand
  BY DEF IInv, WorkerInv
<1>2. PICK r \in Replays : r = Handled(w)
  BY <1>1, HandledIsReplay
<1>3. WorkerNext(w)
  BY <1>1, OthersStandStill
<1>4. FlushReturns(w)
  BY <1>1, <1>3 DEF WorkerNext, Run, Receive, SelectJob, ClaimJob, StartStep, EndStep, Report,
                    CompleteJob, FlushFails, Acknowledge, Abort, Crash, Regroup, SendProgress,
                    LoseProgress, control, Leave, Goto, TypeOK
<1>5. unsent[w] = <<>> /\ ~sendErrors[w]
  BY <1>4 DEF FlushReturns
<1>6. i \in 1..(step[w] - 1)
  BY <1>1, ServiceAssumption DEF FlushInv, FlushAtEnd, Steps, TypeOK
<1>7. Accounted(w, r, i)
  BY <1>2, <1>6 DEF FlushInv, NothingLost, AtWork
<1> QED
  BY <1>2, <1>5, <1>7 DEF Accounted, Queued

\* When flush returns, every step of the replay in hand has its message in the topic,
\* whatever else went through the producer before.
THEOREM FlushTellsAll == Spec => FlushedIsTold
<1>1. ASSUME IInv, FlushInv, [Next]_vars
      PROVE  \A w \in Workers : phase[w] = "flush" /\ phase'[w] = "ack" =>
               \A i \in Steps : Told(Handled(w), i)
  BY <1>1, FlushStep
<1> QED
  BY <1>1, SpecIInv, SpecFlushInv, PTL DEF Spec, FlushedIsTold

-----------------------------------------------------------------------------
(***************************************************************************)
(* What an acknowledgement means.  run_replay returns in two ways, past    *)
(* flush and past a job that was not queued, and on both the job has been  *)
(* claimed by then, if not by this worker.                                 *)
(***************************************************************************)

ReturnsClaimed == \A w \in Workers : phase[w] \in {"flush", "ack"} => Claimed(Handled(w))

AckInv == ReturnsClaimed /\ HandledIsClaimed

\* A worker that comes to its flush or its acknowledgement has a claimed job in hand.
LEMMA ReturnStep ==
  ASSUME IInv, ReturnsClaimed, [Next]_vars, NEW w \in Workers, phase'[w] \in {"flush", "ack"}
  PROVE  /\ phase[w] # "idle" /\ cursor'[w] = cursor[w]
         /\ Handled(w) \in Replays /\ Claimed(Handled(w))
<1>1. TypeOK /\ InHand /\ SoleExecutor /\ PublishedHasRow
  BY DEF IInv, WorkerInv, ApiInv
<1>2. phase \in [Workers -> Phase]
  BY <1>1 DEF TypeOK
<1>3. ASSUME phase[w] # "idle"
      PROVE  Handled(w) \in Replays /\ jobStatus[Handled(w)] # "absent"
  <2>1. cursor[w] \in 1..Len(log) /\ Handled(w) \in Replays
    BY <1>1, <1>3, HandledIsReplay
  <2>2. Loop!Stored(Handled(w))
    BY <2>1 DEF Handled, Loop!Stored
  <2> QED
    BY <1>1, <2>1, <2>2 DEF PublishedHasRow
<1>4. CASE ~WorkerNext(w)
  <2>1. phase'[w] = phase[w] /\ cursor'[w] = cursor[w]
    BY <1>1, <1>4, OthersStandStill
  <2> QED
    BY <1>3, <2>1 DEF ReturnsClaimed
<1>5. CASE SelectJob(w)
  <2>1. phase[w] = "select" /\ jobStatus[Handled(w)] # "queued" /\ cursor' = cursor
    BY <1>2, <1>5 DEF SelectJob, Goto, loop
  <2> QED
    BY <1>3, <2>1 DEF Claimed
<1>6. CASE CompleteJob(w)
  <2>1. phase[w] = "next" /\ cursor' = cursor
    BY <1>6 DEF CompleteJob, loop
  <2> QED
    BY <1>1, <1>3, <2>1 DEF SoleExecutor, Executing, Claimed
<1>7. CASE FlushReturns(w)
  <2>1. phase[w] = "flush" /\ cursor' = cursor
    BY <1>7 DEF FlushReturns, loop
  <2> QED
    BY <1>3, <2>1 DEF ReturnsClaimed
<1>8. CASE Receive(w) \/ ClaimJob(w) \/ StartStep(w) \/ EndStep(w) \/ Report(w)
           \/ FlushFails(w) \/ Acknowledge(w) \/ Abort(w) \/ Crash(w)
  <2>1. phase'[w] \in {"idle", "select", "next", "exec", "report"}
    BY <1>2, <1>8 DEF Receive, ClaimJob, StartStep, EndStep, Report, FlushFails, Acknowledge,
                      Abort, Crash, Goto, Leave
  <2> QED
    BY <2>1
<1>9. CASE Regroup(w) \/ SendProgress(w) \/ LoseProgress(w)
  <2>1. UNCHANGED <<control, cursor>>
    BY <1>9 DEF Regroup, SendProgress, LoseProgress, loop, Loop!Assign, Loop!Revoke,
                Loop!Restart
  <2> QED
    BY <1>3, <2>1 DEF control, ReturnsClaimed
<1> QED
  BY <1>4, <1>5, <1>6, <1>7, <1>8, <1>9 DEF WorkerNext, Run

\* Only an acknowledgement adds to the handled messages.
LEMMA AckHandles ==
  ASSUME TypeOK, [Next]_vars, NEW o \in handled', o \notin handled
  PROVE  \E w \in Workers : phase[w] = "ack" /\ o = cursor[w] /\ UNCHANGED log
<1>1. PICK w \in Workers : WorkerNext(w)
  <2>1. ~ApiNext
    BY DEF ApiNext, CreateReplay, Publish, PublishRaises, FlushAccepts, FlushRaises,
           DeliverRequest, LoseRequest, ApiCrash, Loop!Produce, loop
  <2> QED
    BY <2>1 DEF Next, vars, loop
<1>2. Acknowledge(w)
  BY <1>1 DEF WorkerNext, Run, Receive, SelectJob, ClaimJob, StartStep, EndStep, Report,
              CompleteJob, FlushReturns, FlushFails, Abort, Crash, Regroup, SendProgress,
              LoseProgress, loop, Loop!Poll, Loop!HandlerRaises, Loop!Crash, Loop!Assign,
              Loop!Revoke, Loop!Restart
<1> QED
  BY <1>2 DEF Acknowledge, Loop!Commit, Loop!CommitRaises

\* AckInv is inductive beside IInv.
LEMMA NextAckInv == IInv /\ AckInv /\ [Next]_vars => AckInv'
<1> SUFFICES ASSUME IInv, AckInv, [Next]_vars
             PROVE  AckInv'
  OBVIOUS
<1>1. TypeOK /\ InHand /\ [Loop!Next]_loop
  BY WorkerLoopStep, ApiLoopStep DEF IInv, WorkerInv, Next, vars
<1>2. \A r \in Replays : Claimed(r) => Claimed(r)'
  BY ClaimedStep
<1>3. ReturnsClaimed'
  <2> SUFFICES ASSUME NEW w \in Workers, phase'[w] \in {"flush", "ack"}
               PROVE  Claimed(Handled(w))'
    BY DEF ReturnsClaimed
  <2>1. PICK r \in Replays : r = Handled(w) /\ Claimed(r) /\ Handled(w)' = r
    BY <1>1, ReturnStep, SameReplay DEF AckInv
  <2>2. jobStatus'[r] \notin {"absent", "queued"}
    BY <1>2, <2>1 DEF Claimed
  <2> QED
    BY <2>1, <2>2 DEF Claimed
<1>4. HandledIsClaimed'
  <2> SUFFICES ASSUME NEW o \in handled'
               PROVE  jobStatus'[log'[o]] \notin {"absent", "queued"}
    BY DEF HandledIsClaimed, Claimed
  <2>1. CASE o \in handled
    <3>1. o \in 1..Len(log) /\ log[o] \in Replays
      BY <1>1, <2>1 DEF TypeOK, Loop!TypeOK
    <3>2. log'[o] = log[o]
      BY <1>1, <3>1, LogGrows DEF TypeOK
    <3> QED
      BY <1>2, <2>1, <3>1, <3>2 DEF AckInv, HandledIsClaimed, Claimed
  <2>2. CASE o \notin handled
    <3>1. PICK w \in Workers : phase[w] = "ack" /\ o = cursor[w] /\ UNCHANGED log
      BY <1>1, <2>2, AckHandles
    <3>2. Handled(w) \in Replays /\ Claimed(Handled(w)) /\ log'[o] = Handled(w)
      BY <1>1, <3>1, HandledIsReplay DEF AckInv, ReturnsClaimed, Handled
    <3> QED
      BY <1>2, <3>2 DEF Claimed
  <2> QED
    BY <2>1, <2>2
<1> QED
  BY <1>3, <1>4 DEF AckInv

LEMMA InitAckInv == Init => AckInv
  BY DEF Init, AckInv, ReturnsClaimed, HandledIsClaimed, Loop!Init

\* AckInv always holds.
LEMMA SpecAckInv == Spec => []AckInv
  BY InitAckInv, NextAckInv, SpecIInv, PTL DEF Spec

\* No message is acknowledged before somebody has claimed its replay.
THEOREM HandledStaysClaimed == Spec => []HandledIsClaimed
<1>1. AckInv => HandledIsClaimed
  BY DEF AckInv
<1> QED
  BY <1>1, SpecAckInv, PTL

-----------------------------------------------------------------------------
(***************************************************************************)
(* The service implements the life of a replay's rows.                     *)
(***************************************************************************)

LEMMA InitImplements == Init => Lifecycle!Init
  BY DEF Init, Lifecycle!Init, Steps, Lifecycle!Steps

\* A request's commit is the abstract Schedule; the rest of it shows nothing.
LEMMA ApiImplements ==
  ASSUME IInv, ApiNext
  PROVE  [Lifecycle!Next]_(Lifecycle!lifecycleVars)
<1>1. ASSUME NEW r \in Replays, NEW P \in SUBSET Steps, CreateReplay(r, P)
      PROVE  Lifecycle!Next
  <2>1. jobStatus[r] = "absent"
    BY <1>1 DEF CreateReplay, IInv, ApiInv, HasRow
  <2>2. Lifecycle!Schedule(r, P)
    BY <1>1, <2>1 DEF CreateReplay, Lifecycle!Schedule, Steps, Lifecycle!Steps
  <2> QED
    BY <2>2 DEF Lifecycle!Next, Steps, Lifecycle!Steps
<1>2. CASE \A r \in Replays, P \in SUBSET Steps : ~CreateReplay(r, P)
  BY <1>2 DEF ApiNext, Publish, PublishRaises, FlushAccepts, FlushRaises, DeliverRequest,
              LoseRequest, ApiCrash, database, Lifecycle!lifecycleVars
<1> QED
  BY <1>1, <1>2

\* Each commit of a worker is one abstract step; the rest of it shows nothing.
LEMMA WorkerImplements ==
  ASSUME IInv, NEW w \in Workers, WorkerNext(w)
  PROVE  [Lifecycle!Next]_(Lifecycle!lifecycleVars)
<1> USE DEF IInv
<1>1. CASE ClaimJob(w)
  <2>1. PICK r \in Replays : r = Handled(w) /\ jobStatus[r] = "queued"
    BY <1>1, HandledIsReplay DEF ClaimJob, WorkerInv, Claiming
  <2>2. Lifecycle!Claim(r)
    BY <1>1, <2>1 DEF ClaimJob, Lifecycle!Claim
  <2> QED
    BY <2>2 DEF Lifecycle!Next
<1>2. CASE StartStep(w)
  <2>1. PICK r \in Replays : r = Handled(w) /\ RowsOf(w, r) /\ jobStatus[r] = "running"
    BY <1>2, AtStep DEF StartStep
  <2>2. step[w] \in Steps /\ Steps = Lifecycle!Steps /\ Ended = Lifecycle!Ended
    BY <1>2, ServiceAssumption DEF StartStep, TypeOK, Steps, Lifecycle!Steps, Ended,
                                   Lifecycle!Ended
  <2>3. stepStatus[r][step[w]] = "pending"
    BY <1>2, <2>1, <2>2, ServiceAssumption DEF StartStep, RowsOf, Shown, Steps
  <2>4. \A j \in 1..(step[w] - 1) : stepStatus[r][j] \in Lifecycle!Ended
    <3>1. ASSUME NEW j \in 1..(step[w] - 1)
          PROVE  j \in Steps /\ j < step[w]
      BY <2>2, ServiceAssumption DEF Steps
    <3> QED
      BY <2>1, <2>2, <3>1 DEF RowsOf, Shown, Outcome, Ended
  <2>5. Lifecycle!StartStep(r, step[w])
    BY <1>2, <2>1, <2>3, <2>4 DEF StartStep, Lifecycle!StartStep
  <2> QED
    BY <2>2, <2>5 DEF Lifecycle!Next
<1>3. CASE EndStep(w)
  <2>1. PICK r \in Replays : r = Handled(w) /\ RowsOf(w, r) /\ jobStatus[r] = "running"
    BY <1>3, AtStep DEF EndStep
  <2>2. step[w] \in Steps /\ Steps = Lifecycle!Steps
    BY <1>3, <2>1, ServiceAssumption DEF EndStep, RowsOf, TypeOK, Steps, Lifecycle!Steps
  <2>3. stepStatus[r][step[w]] = "running"
    BY <1>3, <2>1, <2>2, ServiceAssumption DEF EndStep, RowsOf, Shown, Steps
  <2>4. Lifecycle!EndStep(r, step[w])
    BY <1>3, <2>1, <2>3 DEF EndStep, Lifecycle!EndStep, Outcome
  <2> QED
    BY <2>2, <2>4 DEF Lifecycle!Next
<1>4. CASE CompleteJob(w)
  <2>1. PICK r \in Replays : r = Handled(w) /\ jobStatus[r] = "running"
    BY <1>4, AtStep DEF CompleteJob
  <2>2. /\ \A i \in Steps : stepStatus[r][i] = Outcome(r, i)
        /\ tally[w] = Lifecycle!CountOf(r)
        /\ tally[w].failed = 0 <=> Lifecycle!StepsWith(r, "failed") = {}
    BY <1>4, <2>1, AtEnd DEF CompleteJob
  <2>3. \A i \in Lifecycle!Steps : stepStatus[r][i] \in Lifecycle!Ended
    BY <2>2 DEF Outcome, Steps, Lifecycle!Steps, Lifecycle!Ended
  <2>4. Lifecycle!Complete(r)
    BY <1>4, <2>1, <2>2, <2>3 DEF CompleteJob, Lifecycle!Complete
  <2> QED
    BY <2>4 DEF Lifecycle!Next
<1>5. CASE ~ClaimJob(w) /\ ~StartStep(w) /\ ~EndStep(w) /\ ~CompleteJob(w)
  <2>1. UNCHANGED database
    BY <1>5 DEF WorkerNext, Run, Receive, SelectJob, Report, FlushReturns, FlushFails,
                Acknowledge, Abort, Crash, Regroup, SendProgress, LoseProgress
  <2> QED
    BY <2>1 DEF database, Lifecycle!lifecycleVars
<1> QED
  BY <1>1, <1>2, <1>3, <1>4, <1>5

\* Whatever the API, the topic and the workers do, the rows of a replay live the
\* abstract life.
THEOREM ImplementsLifecycle == Spec => RefinesLifecycle
<1>1. IInv /\ [Next]_vars => [Lifecycle!Next]_(Lifecycle!lifecycleVars)
  <2>1. UNCHANGED vars => UNCHANGED Lifecycle!lifecycleVars
    BY DEF vars, database, Lifecycle!lifecycleVars
  <2> QED
    BY <2>1, ApiImplements, WorkerImplements DEF Next
<1> QED
  BY InitImplements, SpecIInv, <1>1, PTL DEF Spec, RefinesLifecycle, Lifecycle!Spec

\* The workers are a consumer group: what is proved of ConsumerLoop holds of them.
THEOREM WorkersAreAGroup == Spec => Loop!Spec
<1>1. TypeOK /\ [Next]_vars => [Loop!Next]_(Loop!vars)
  <2> SUFFICES ASSUME TypeOK, [Next]_vars
               PROVE  [Loop!Next]_(Loop!vars)
    OBVIOUS
  <2>1. UNCHANGED vars => UNCHANGED loop
    BY DEF vars
  <2>2. Loop!Next \/ UNCHANGED loop
    BY <2>1, ApiLoopStep, WorkerLoopStep DEF Next
  <2>3. UNCHANGED loop => UNCHANGED Loop!vars
    BY DEF loop, Loop!vars
  <2> QED
    BY <2>2, <2>3
<1>2. Init => Loop!Init
  BY DEF Init
<1> QED
  BY <1>1, <1>2, TypeCorrect, PTL DEF Spec, Loop!Spec

\* What the group has committed past is claimed, or a handler raised on it: besides a
\* handler that raises, there is no way for a replay to be passed over.
THEOREM CommittedIsClaimed ==
  Spec => [](\A o \in 1..committed : o \in failed \/ Claimed(log[o]))
<1>1. Loop!Spec => LoopProofs!Spec
  <2>1. [Loop!Next]_(Loop!vars) => [LoopProofs!Next]_(LoopProofs!vars)
    BY SameGroup DEF Loop!vars, LoopProofs!vars
  <2> QED
    BY <2>1, SameGroup, PTL DEF Loop!Spec, LoopProofs!Spec
<1>2. LoopProofs!Spec => []LoopProofs!CommittedWasAttempted
  BY LoopAssumption, LoopProofs!NothingPassedOver
<1>3. LoopProofs!CommittedWasAttempted /\ HandledIsClaimed =>
        \A o \in 1..committed : o \in failed \/ Claimed(log[o])
  BY DEF LoopProofs!CommittedWasAttempted, LoopProofs!Attempted, HandledIsClaimed
<1> QED
  BY <1>1, <1>2, <1>3, WorkersAreAGroup, HandledStaysClaimed, PTL

-----------------------------------------------------------------------------
(***************************************************************************)
(* The clients of the service.  Its rows live the abstract life, so what   *)
(* is proved of a client reading ReplayLifecycle holds of one that polls   *)
(* the service itself.                                                     *)
(***************************************************************************)

DetailProofs == INSTANCE ReplayDetailProofs

LEMMA DetailAssumption == DetailProofs!LifecycleAssumption
  BY ServiceAssumption DEF DetailProofs!LifecycleAssumption

\* The abstract life that the service implements is the one the clients read.
LEMMA SameLife ==
  /\ Lifecycle!Init <=> Detail!Init
  /\ Lifecycle!Next <=> Detail!Next
  /\ Lifecycle!lifecycleVars = Detail!lifecycleVars
  BY DEF Lifecycle!Init, Detail!Init, Lifecycle!Next, Detail!Next, Lifecycle!lifecycleVars,
         Detail!lifecycleVars, Lifecycle!Schedule, Detail!Schedule, Lifecycle!Claim,
         Detail!Claim, Lifecycle!StartStep, Detail!StartStep, Lifecycle!EndStep,
         Detail!EndStep, Lifecycle!Complete, Detail!Complete, Lifecycle!Steps, Detail!Steps,
         Lifecycle!Ended, Detail!Ended, Lifecycle!StepsWith, Detail!StepsWith,
         Lifecycle!CountOf, Detail!CountOf, Lifecycle!Cardinality, Detail!Cardinality

\* Detail and DetailProofs are the same clients.
LEMMA SameReaders ==
  /\ Detail!DetailInit <=> DetailProofs!DetailInit
  /\ Detail!DetailNext <=> DetailProofs!DetailNext
  /\ Detail!detailVars = DetailProofs!detailVars
  /\ Detail!EndedAnswerIsFinal <=> DetailProofs!EndedAnswerIsFinal
<1>1. Detail!Init <=> DetailProofs!Init
  BY DEF Detail!Init, DetailProofs!Init, Detail!Steps, DetailProofs!Steps
<1>2. Detail!Next <=> DetailProofs!Next
  BY DEF Detail!Next, DetailProofs!Next, Detail!Schedule, DetailProofs!Schedule,
         Detail!Claim, DetailProofs!Claim, Detail!StartStep, DetailProofs!StartStep,
         Detail!EndStep, DetailProofs!EndStep, Detail!Complete, DetailProofs!Complete,
         Detail!Steps, DetailProofs!Steps, Detail!Ended, DetailProofs!Ended,
         Detail!StepsWith, DetailProofs!StepsWith, Detail!CountOf, DetailProofs!CountOf,
         Detail!Cardinality, DetailProofs!Cardinality
<1>3. Detail!Read <=> DetailProofs!Read
  BY DEF Detail!Read, DetailProofs!Read, Detail!Ask, DetailProofs!Ask, Detail!Select,
         DetailProofs!Select, Detail!NotFound, DetailProofs!NotFound, Detail!Selects,
         DetailProofs!Selects, Detail!JobRow, DetailProofs!JobRow, Detail!lifecycleVars,
         DetailProofs!lifecycleVars
<1>4. Detail!EndedAnswerIsFinal <=> DetailProofs!EndedAnswerIsFinal
  BY DEF Detail!EndedAnswerIsFinal, DetailProofs!EndedAnswerIsFinal, Detail!Answered,
         DetailProofs!Answered, Detail!Selects, DetailProofs!Selects, Detail!Finished,
         DetailProofs!Finished, Detail!Steps, DetailProofs!Steps, Detail!Ended,
         DetailProofs!Ended, Detail!FirstFailed, DetailProofs!FirstFailed, Detail!JobRow,
         DetailProofs!JobRow, Detail!Cardinality, DetailProofs!Cardinality
<1>5. Detail!readVars = DetailProofs!readVars /\ Detail!detailVars = DetailProofs!detailVars
  BY DEF Detail!readVars, DetailProofs!readVars, Detail!detailVars, DetailProofs!detailVars,
         Detail!lifecycleVars, DetailProofs!lifecycleVars
<1>6. Detail!DetailInit <=> DetailProofs!DetailInit
  BY <1>1 DEF Detail!DetailInit, DetailProofs!DetailInit, Detail!ReadInit, DetailProofs!ReadInit
<1>7. Detail!DetailNext <=> DetailProofs!DetailNext
  BY <1>2, <1>3 DEF Detail!DetailNext, DetailProofs!DetailNext, Detail!readVars,
                    DetailProofs!readVars
<1> QED
  BY <1>4, <1>5, <1>6, <1>7

\* The service with its clients implements ReplayLifecycle with its clients.
THEOREM SystemServesClients == SystemSpec => RefinesDetail
<1>1. SystemInit => Init /\ Detail!DetailInit
  BY InitImplements, SameLife DEF SystemInit, Detail!DetailInit
<1>2. [SystemNext]_systemVars => [Next]_vars
  BY DEF SystemNext, systemVars
<1>3. IInv /\ [SystemNext]_systemVars => [Detail!DetailNext]_(Detail!detailVars)
  <2> SUFFICES ASSUME IInv, [SystemNext]_systemVars
               PROVE  [Detail!DetailNext]_(Detail!detailVars)
    OBVIOUS
  <2>1. UNCHANGED reading => UNCHANGED Detail!readVars
    BY DEF reading, Detail!readVars
  <2>2. UNCHANGED vars => UNCHANGED Detail!lifecycleVars
    BY DEF vars, database, Detail!lifecycleVars
  <2>3. UNCHANGED Lifecycle!lifecycleVars => UNCHANGED Detail!lifecycleVars
    BY DEF Lifecycle!lifecycleVars, Detail!lifecycleVars
  <2>4. UNCHANGED Detail!readVars /\ UNCHANGED Detail!lifecycleVars => UNCHANGED Detail!detailVars
    BY DEF Detail!detailVars
  <2>5. CASE Next /\ UNCHANGED reading
    <3>1. Lifecycle!Next \/ UNCHANGED Lifecycle!lifecycleVars
      BY <2>5, ApiImplements, WorkerImplements DEF Next
    <3> QED
      BY <2>1, <2>3, <2>4, <2>5, <3>1, SameLife DEF Detail!DetailNext
  <2>6. CASE Detail!Read
    BY <2>6 DEF Detail!DetailNext
  <2>7. CASE UNCHANGED systemVars
    BY <2>1, <2>2, <2>4, <2>7 DEF systemVars
  <2> QED
    BY <2>5, <2>6, <2>7 DEF SystemNext
<1>4. SystemSpec => []IInv
  BY <1>1, <1>2, InitIInv, NextIInv, PTL DEF SystemSpec
<1> QED
  BY <1>1, <1>3, <1>4, PTL DEF SystemSpec, RefinesDetail, Detail!DetailSpec

\* A client of the service that is told a replay has ended is told the truth, for good,
\* whatever crashes, is lost or redelivered meanwhile.
THEOREM SystemAnswersAreFinal == SystemSpec => []EndedAnswerIsFinal
<1>1. Detail!DetailSpec => DetailProofs!DetailSpec
  <2>1. [Detail!DetailNext]_(Detail!detailVars)
          => [DetailProofs!DetailNext]_(DetailProofs!detailVars)
    BY SameReaders DEF Detail!detailVars, DetailProofs!detailVars, Detail!lifecycleVars,
                       DetailProofs!lifecycleVars, Detail!readVars, DetailProofs!readVars
  <2> QED
    BY <2>1, SameReaders, PTL DEF Detail!DetailSpec, DetailProofs!DetailSpec
<1>2. DetailProofs!DetailSpec => []DetailProofs!EndedAnswerIsFinal
  BY DetailProofs!EndedAnswersAreFinal, DetailAssumption
<1>3. DetailProofs!EndedAnswerIsFinal => EndedAnswerIsFinal
  BY SameReaders DEF EndedAnswerIsFinal
<1> QED
  BY <1>1, <1>2, <1>3, SystemServesClients, PTL DEF RefinesDetail
=============================================================================
