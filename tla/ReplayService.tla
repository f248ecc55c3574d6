--------------------------- MODULE ReplayService ---------------------------
(***************************************************************************)
(* The life of a replay from POST /v1/replays to its last row: the API     *)
(* handler create_replay (api/services/replay_schedule.py), the topic      *)
(* replay.requested between them, and the workers (worker/service.py,      *)
(* worker/consumer_loop.py) with the producers of both sides               *)
(* (shared/kafka/producer.py).                                             *)
(*                                                                         *)
(* A database transaction is one action.  An await or a crash may fall     *)
(* between any two actions of a handler.  The consumer group is the module *)
(* ConsumerLoop, whose handler is filled in here by run_replay.            *)
(***************************************************************************)
EXTENDS Naturals, Sequences, FiniteSets

CONSTANTS
  Replays,   \* replay identifiers; each is used by one request
  Workers,   \* worker processes, one consumer each
  NumSteps,  \* number of steps of the manifest
  None       \* "nobody", "no summary yet"

ASSUME ServiceAssumption ==
  /\ NumSteps \in Nat \ {0}
  /\ None \notin Workers
  /\ \A p, f \in 0..NumSteps : None # [passed |-> p, failed |-> f]

Steps == 1..NumSteps

VARIABLES
  \* The database.
  jobStatus, plan, stepStatus, summary,  \* as in ReplayLifecycle
  jobWorker,      \* jobWorker[r]: replay_jobs.worker_id
  \* The API process.
  request,        \* request[r]: how far the POST has come
  outbox,         \* the producer's queue towards replay.requested
  deliveryErrors, \* whether the producer's list of delivery errors is non-empty
  \* The topic replay.requested and its consumer group, as in ConsumerLoop.
  log, committed, owner, position, cursor, up, handled, failed,
  \* The worker processes.
  phase,          \* phase[w]: where w stands in run_replay
  step,           \* step[w]: the next step of the for loop
  tally,          \* tally[w]: the counters passed and failed
  unsent,         \* unsent[w]: the producer's queue towards replay.progress
  sendErrors,     \* sendErrors[w]: whether its list of delivery errors is non-empty
  \* The topic replay.progress.
  progress        \* progress[r]: the messages of r, in the broker's order

database == <<jobStatus, plan, stepStatus, summary, jobWorker>>
api == <<request, outbox, deliveryErrors>>
loop == <<log, committed, owner, position, cursor, up, handled, failed>>
control == <<phase, step, tally>>
sending == <<unsent, sendErrors, progress>>

vars == <<database, api, loop, control, sending>>

Loop == INSTANCE ConsumerLoop WITH Consumers <- Workers, Messages <- Replays

Lifecycle == INSTANCE ReplayLifecycle

Finished == {"completed", "failed"}
Ended == {"passed", "failed"}
NoTally == [passed |-> 0, failed |-> 0]

Init ==
  /\ jobStatus = [r \in Replays |-> "absent"]
  /\ plan = [r \in Replays |-> {}]
  /\ stepStatus = [r \in Replays |-> [i \in Steps |-> "absent"]]
  /\ summary = [r \in Replays |-> None]
  /\ jobWorker = [r \in Replays |-> None]
  /\ request = [r \in Replays |-> "new"]
  /\ outbox = <<>>
  /\ deliveryErrors = FALSE
  /\ Loop!Init
  /\ phase = [w \in Workers |-> "idle"]
  /\ step = [w \in Workers |-> 1]
  /\ tally = [w \in Workers |-> NoTally]
  /\ unsent = [w \in Workers |-> <<>>]
  /\ sendErrors = [w \in Workers |-> FALSE]
  /\ progress = [r \in Replays |-> <<>>]

-----------------------------------------------------------------------------
(***************************************************************************)
(* The API.  publish and flush do not await, so they block the event loop: *)
(* between them no other request of the process runs.                      *)
(***************************************************************************)

\* The commit is forgotten: the rows are rolled back when the session closes.
CreateWithoutCommit(r, P) ==
  /\ request[r] = "new"
  /\ request' = [request EXCEPT ![r] = "committed"]
  /\ UNCHANGED <<database, outbox, deliveryErrors, loop, control, sending>>

\* create_replay up to its commit: the job, queued, and its steps, pending, with
\* the injections of plan P; nothing is published yet.
CreateReplay(r, P) ==
  /\ request[r] = "new"
  /\ jobStatus' = [jobStatus EXCEPT ![r] = "queued"]
  /\ plan' = [plan EXCEPT ![r] = P]
  /\ stepStatus' = [stepStatus EXCEPT ![r] = [i \in Steps |-> "pending"]]
  /\ request' = [request EXCEPT ![r] = "committed"]
  /\ UNCHANGED <<summary, jobWorker, outbox, deliveryErrors, loop, control, sending>>

\* publish and flush moved off the event loop: two requests may flush at a time.
PublishConcurrently(r) ==
  /\ request[r] = "committed"
  /\ outbox' = Append(outbox, r)
  /\ request' = [request EXCEPT ![r] = "flushing"]
  /\ UNCHANGED <<database, deliveryErrors, loop, control, sending>>

\* The message enters the producer's queue and flush begins.
Publish(r) ==
  /\ request[r] = "committed"
  /\ \A q \in Replays : request[q] # "flushing"
  /\ outbox' = Append(outbox, r)
  /\ request' = [request EXCEPT ![r] = "flushing"]
  /\ UNCHANGED <<database, deliveryErrors, loop, control, sending>>

\* The rows are durable but the request fails before its message is queued: the
\* commit's acknowledgement is lost, or the producer's queue is full.
PublishRaises(r) ==
  /\ request[r] = "committed"
  /\ request' = [request EXCEPT ![r] = "failed"]
  /\ UNCHANGED <<database, outbox, deliveryErrors, loop, control, sending>>

\* The broker stores the first message of the queue and acknowledges it.
DeliverRequest ==
  /\ outbox # <<>>
  /\ Loop!Produce(Head(outbox))
  /\ outbox' = Tail(outbox)
  /\ UNCHANGED <<database, request, deliveryErrors, control, sending>>

\* The producer gives the first message up and notes a delivery error, whether
\* the broker stored the message or not.
LoseRequest ==
  /\ outbox # <<>>
  /\ outbox' = Tail(outbox)
  /\ deliveryErrors' = TRUE
  /\ Loop!Produce(Head(outbox)) \/ UNCHANGED loop
  /\ UNCHANGED <<database, request, control, sending>>

\* flush returns: nothing is pending and nothing failed.  The client gets 202.
FlushAccepts(r) ==
  /\ request[r] = "flushing"
  /\ outbox = <<>> /\ ~deliveryErrors
  /\ request' = [request EXCEPT ![r] = "accepted"]
  /\ UNCHANGED <<database, outbox, deliveryErrors, loop, control, sending>>

\* flush raises: it timed out with messages pending, which stay in the queue and
\* may be delivered later; or a delivery failed, and the errors are cleared.
FlushRaises(r) ==
  /\ request[r] = "flushing"
  /\ outbox # <<>> \/ deliveryErrors
  /\ request' = [request EXCEPT ![r] = "failed"]
  /\ deliveryErrors' = (deliveryErrors /\ outbox # <<>>)
  /\ UNCHANGED <<database, outbox, loop, control, sending>>

\* The API process ends and is started again: the requests under way and the
\* producer's queue are gone.
ApiCrash ==
  /\ request' = [r \in Replays |-> IF request[r] \in {"committed", "flushing"}
                                     THEN "failed" ELSE request[r]]
  /\ outbox' = <<>>
  /\ deliveryErrors' = FALSE
  /\ UNCHANGED <<database, loop, control, sending>>

-----------------------------------------------------------------------------
(***************************************************************************)
(* The worker.  phase[w] is the place in handle_message where w stands:    *)
(*   idle    between two polls                                             *)
(*   select  about to SELECT the job FOR UPDATE                            *)
(*   claim   holding the lock of a queued job, about to commit the claim   *)
(*   next    at the head of the for loop, step[w] to come                  *)
(*   exec    step[w] committed as running, the mock call under way         *)
(*   report  step[w] committed as ended, its progress message to publish   *)
(*   flush   the job committed as finished, flush to call                  *)
(*   ack     run_replay has returned, the message's offset to commit       *)
(***************************************************************************)

\* The replay named by the message w handles.
Handled(w) == log[cursor[w]]

\* The row lock that SELECT ... FOR UPDATE takes until the claim's commit.
Locked(r) == \E w \in Workers : phase[w] = "claim" /\ Handled(w) = r

\* The status of the mock call of step i: the steps of the plan fail.
Outcome(r, i) == IF i \in plan[r] THEN "failed" ELSE "passed"

\* The counters outlive the call, as module variables would.
LeaveKeepsTally(w) ==
  /\ phase' = [phase EXCEPT ![w] = "idle"]
  /\ step' = [step EXCEPT ![w] = 1]
  /\ UNCHANGED tally

\* The handler's activation is left, by return or exception, with its locals.
Leave(w) ==
  /\ phase' = [phase EXCEPT ![w] = "idle"]
  /\ step' = [step EXCEPT ![w] = 1]
  /\ tally' = [tally EXCEPT ![w] = NoTally]

Goto(w, p) == phase' = [phase EXCEPT ![w] = p]

\* poll() returns a message and handle_message opens a session.
Receive(w) ==
  /\ phase[w] = "idle"
  /\ Loop!Poll(w)
  /\ Goto(w, "select")
  /\ UNCHANGED <<database, api, step, tally, sending>>

\* The SELECT without FOR UPDATE: the status is read and may be stale when used.
SelectWithoutLock(w) ==
  /\ phase[w] = "select"
  /\ Goto(w, IF jobStatus[Handled(w)] = "queued" THEN "claim" ELSE "ack")
  /\ UNCHANGED <<database, api, loop, step, tally, sending>>

\* A claim that also takes up what it finds running, to resume a lost replay.
SelectResumesRunning(w) ==
  /\ phase[w] = "select"
  /\ ~Locked(Handled(w))
  /\ Goto(w, IF jobStatus[Handled(w)] \in {"queued", "running"} THEN "claim" ELSE "ack")
  /\ UNCHANGED <<database, api, loop, step, tally, sending>>

\* SKIP LOCKED in place of waiting: a locked job is passed over as if claimed.
SelectSkipLocked(w) ==
  /\ phase[w] = "select"
  /\ Goto(w, IF jobStatus[Handled(w)] = "queued" /\ ~Locked(Handled(w))
               THEN "claim" ELSE "ack")
  /\ UNCHANGED <<database, api, loop, step, tally, sending>>

\* claim_replay_job reads the job, waiting for its lock: a queued one is locked,
\* one that is not claimable is skipped and one that is missing only logged, and
\* in both cases the loop goes on to commit the offset.  The lock of one that is not
\* queued is held until the session closes; as nobody claims such a job, whoever
\* waits for it comes to the same end later, and taking and leaving it are one step.
SelectJob(w) ==
  /\ phase[w] = "select"
  /\ ~Locked(Handled(w))
  /\ Goto(w, IF jobStatus[Handled(w)] = "queued" THEN "claim" ELSE "ack")
  /\ UNCHANGED <<database, api, loop, step, tally, sending>>

\* The claim is committed and the lock released; the steps are loaded.
ClaimJob(w) ==
  /\ phase[w] = "claim"
  /\ jobStatus' = [jobStatus EXCEPT ![Handled(w)] = "running"]
  /\ jobWorker' = [jobWorker EXCEPT ![Handled(w)] = w]
  /\ Goto(w, "next")
  /\ UNCHANGED <<plan, stepStatus, summary, api, loop, step, tally, sending>>

\* The head of the for loop: the next step is committed as running.
StartStep(w) ==
  /\ phase[w] = "next" /\ step[w] <= NumSteps
  /\ stepStatus' = [stepStatus EXCEPT ![Handled(w)][step[w]] = "running"]
  /\ Goto(w, "exec")
  /\ UNCHANGED <<jobStatus, plan, summary, jobWorker, api, loop, step, tally, sending>>

\* A step that failed is tried again until it passes, as retries of dependency calls
\* do; but an injected failure is there every time.
EndStepRetries(w) ==
  /\ phase[w] = "exec"
  /\ stepStatus' =
       [stepStatus EXCEPT ![Handled(w)][step[w]] = Outcome(Handled(w), step[w])]
  /\ Goto(w, IF Outcome(Handled(w), step[w]) = "failed" THEN "next" ELSE "report")
  /\ UNCHANGED <<jobStatus, plan, summary, jobWorker, api, loop, step, tally, sending>>

\* The mock call returns and the step's result is committed.
EndStep(w) ==
  /\ phase[w] = "exec"
  /\ stepStatus' =
       [stepStatus EXCEPT ![Handled(w)][step[w]] = Outcome(Handled(w), step[w])]
  /\ Goto(w, "report")
  /\ UNCHANGED <<jobStatus, plan, summary, jobWorker, api, loop, step, tally, sending>>

\* The counters go up and the progress message, which names the replay, the step,
\* its status and the counters, enters the producer's queue.
Report(w) ==
  /\ phase[w] = "report"
  /\ LET s == Outcome(Handled(w), step[w])
         t == [tally[w] EXCEPT ![s] = @ + 1]
     IN /\ tally' = [tally EXCEPT ![w] = t]
        /\ unsent' = [unsent EXCEPT ![w] =
             Append(@, [replay |-> Handled(w), step |-> step[w], status |-> s, counts |-> t])]
  /\ step' = [step EXCEPT ![w] = @ + 1]
  /\ Goto(w, "next")
  /\ UNCHANGED <<database, api, loop, sendErrors, progress>>

\* Completed whatever the steps did, as when failed counts only raised errors.
CompleteJobAlways(w) ==
  /\ phase[w] = "next" /\ step[w] > NumSteps
  /\ jobStatus' = [jobStatus EXCEPT ![Handled(w)] = "completed"]
  /\ summary' = [summary EXCEPT ![Handled(w)] = tally[w]]
  /\ Goto(w, "flush")
  /\ UNCHANGED <<plan, stepStatus, jobWorker, api, loop, step, tally, sending>>

\* The last step is still to run when the job is completed.
CompleteJobEarly(w) ==
  /\ phase[w] = "next" /\ step[w] >= NumSteps
  /\ jobStatus' = [jobStatus EXCEPT ![Handled(w)] =
                     IF tally[w].failed = 0 THEN "completed" ELSE "failed"]
  /\ summary' = [summary EXCEPT ![Handled(w)] = tally[w]]
  /\ Goto(w, "flush")
  /\ UNCHANGED <<plan, stepStatus, jobWorker, api, loop, step, tally, sending>>

\* The loop is over: the job's final status and the counters are committed.
CompleteJob(w) ==
  /\ phase[w] = "next" /\ step[w] > NumSteps
  /\ jobStatus' = [jobStatus EXCEPT ![Handled(w)] =
                     IF tally[w].failed = 0 THEN "completed" ELSE "failed"]
  /\ summary' = [summary EXCEPT ![Handled(w)] = tally[w]]
  /\ Goto(w, "flush")
  /\ UNCHANGED <<plan, stepStatus, jobWorker, api, loop, step, tally, sending>>

\* What librdkafka's flush returns, the number of messages left, is not looked at.
FlushIgnoresPending(w) ==
  /\ phase[w] = "flush"
  /\ ~sendErrors[w]
  /\ Goto(w, "ack")
  /\ UNCHANGED <<database, api, loop, step, tally, sending>>

\* flush returns: every progress message of the process is out.
FlushReturns(w) ==
  /\ phase[w] = "flush"
  /\ unsent[w] = <<>> /\ ~sendErrors[w]
  /\ Goto(w, "ack")
  /\ UNCHANGED <<database, api, loop, step, tally, sending>>

\* flush raises, for this replay's messages or an earlier one's: the job stays
\* finished, the message uncommitted.
FlushFails(w) ==
  /\ phase[w] = "flush"
  /\ unsent[w] # <<>> \/ sendErrors[w]
  /\ sendErrors' = [sendErrors EXCEPT ![w] = @ /\ unsent[w] # <<>>]
  /\ Loop!HandlerRaises(w)
  /\ Leave(w)
  /\ UNCHANGED <<database, api, unsent, progress>>

\* The offset is committed, or its commit raises; the loop polls again.
Acknowledge(w) ==
  /\ phase[w] = "ack"
  /\ Loop!Commit(w) \/ Loop!CommitRaises(w)
  /\ Leave(w)
  /\ UNCHANGED <<database, api, sending>>

\* Any other exception of the handler (the database, a commit whose
\* acknowledgement is lost, a full producer queue): the session closes, what was
\* not committed is rolled back, and the loop polls again.
Abort(w) ==
  /\ phase[w] \notin {"idle", "ack"}
  /\ Loop!HandlerRaises(w)
  /\ Leave(w)
  /\ UNCHANGED <<database, api, sending>>

\* The worker process ends: the database releases its lock, and its producer's
\* queue is gone.
Crash(w) ==
  /\ Loop!Crash(w)
  /\ Leave(w)
  /\ unsent' = [unsent EXCEPT ![w] = <<>>]
  /\ sendErrors' = [sendErrors EXCEPT ![w] = FALSE]
  /\ UNCHANGED <<database, api, progress>>

\* The consumer group around the handler: an assignment, a rebalance, a restart.
Regroup(w) ==
  /\ Loop!Assign(w) \/ Loop!Revoke(w) \/ Loop!Restart(w)
  /\ UNCHANGED <<database, api, control, sending>>

Storing(m) ==
  progress' = [progress EXCEPT ![m.replay] = Append(@, m)]

\* Retries overtake each other, as without enable.idempotence: the second
\* message of the queue is stored first.
SendAnyOrder(w) ==
  \E k \in 1..Len(unsent[w]) :
    /\ Storing(unsent[w][k])
    /\ unsent' = [unsent EXCEPT ![w] = SubSeq(@, 1, k - 1) \o SubSeq(@, k + 1, Len(@))]
    /\ UNCHANGED <<database, api, loop, control, sendErrors>>

\* The broker stores the worker's messages in the order they were published.
SendProgress(w) ==
  /\ unsent[w] # <<>>
  /\ Storing(Head(unsent[w]))
  /\ unsent' = [unsent EXCEPT ![w] = Tail(@)]
  /\ UNCHANGED <<database, api, loop, control, sendErrors>>

\* The producer gives a message up and notes a delivery error, whether the broker
\* stored the message or not.
LoseProgress(w) ==
  /\ unsent[w] # <<>>
  /\ unsent' = [unsent EXCEPT ![w] = Tail(@)]
  /\ sendErrors' = [sendErrors EXCEPT ![w] = TRUE]
  /\ Storing(Head(unsent[w])) \/ UNCHANGED progress
  /\ UNCHANGED <<database, api, loop, control>>

-----------------------------------------------------------------------------
ApiNext ==
  \/ \E r \in Replays :
       \/ \E P \in SUBSET Steps : CreateReplay(r, P)
       \/ Publish(r)
       \/ PublishRaises(r)
       \/ FlushAccepts(r)
       \/ FlushRaises(r)
  \/ DeliverRequest
  \/ LoseRequest
  \/ ApiCrash

\* The steps of run_replay that do not raise.
Run(w) ==
  \/ SelectJob(w)
  \/ ClaimJob(w)
  \/ StartStep(w)
  \/ EndStep(w)
  \/ Report(w)
  \/ CompleteJob(w)
  \/ FlushReturns(w)

WorkerNext(w) ==
  \/ Receive(w)
  \/ Run(w)
  \/ FlushFails(w)
  \/ Acknowledge(w)
  \/ Abort(w)
  \/ Crash(w)
  \/ Regroup(w)
  \/ SendProgress(w)
  \/ LoseProgress(w)

Next == ApiNext \/ \E w \in Workers : WorkerNext(w)

Spec == Init /\ [][Next]_vars

\* Each process takes its next step unless it crashes: flush has a timeout, the
\* mock call sleeps a bounded time, the lock's holder commits or is rolled back.
\* The broker assigns a free partition to some worker that polls.  Nothing makes
\* anybody restart a worker, and a client may never send its request.
Fairness ==
  /\ \A r \in Replays : WF_vars(Publish(r)) /\ WF_vars(FlushAccepts(r) \/ FlushRaises(r))
  /\ WF_vars(DeliverRequest \/ LoseRequest)
  /\ WF_vars(\E w \in Workers : Loop!Assign(w) /\ Regroup(w))
  /\ \A w \in Workers :
       /\ WF_vars(Receive(w))
       /\ WF_vars(Run(w) \/ FlushFails(w) \/ Acknowledge(w))
       /\ WF_vars(SendProgress(w) \/ LoseProgress(w))

FairSpec == Spec /\ Fairness

-----------------------------------------------------------------------------
Request == {"new", "committed", "flushing", "accepted", "failed"}
Phase == {"idle", "select", "claim", "next", "exec", "report", "flush", "ack"}
Tally == [passed : 0..NumSteps, failed : 0..NumSteps]
Message == [replay : Replays, step : Steps, status : Ended, counts : Tally]

TypeOK ==
  /\ jobStatus \in [Replays -> {"absent", "queued", "running"} \cup Finished]
  /\ plan \in [Replays -> SUBSET Steps]
  /\ stepStatus \in [Replays -> [Steps -> {"absent", "pending", "running"} \cup Ended]]
  /\ summary \in [Replays -> Tally \cup {None}]
  /\ jobWorker \in [Replays -> Workers \cup {None}]
  /\ request \in [Replays -> Request]
  /\ outbox \in Seq(Replays)
  /\ deliveryErrors \in BOOLEAN
  /\ Loop!TypeOK
  /\ phase \in [Workers -> Phase]
  /\ step \in [Workers -> 1..(NumSteps + 1)]
  /\ tally \in [Workers -> Tally]
  /\ unsent \in [Workers -> Seq(Message)]
  /\ sendErrors \in [Workers -> BOOLEAN]
  /\ progress \in [Replays -> Seq(Message)]

\* w is between the claim and the completion of replay r.
Executing(w, r) == phase[w] \in {"next", "exec", "report"} /\ Handled(w) = r

\* The job has been claimed: it is running or finished.
Claimed(r) == jobStatus[r] \notin {"absent", "queued"}

\* A message whose offset was committed by its handler has its replay claimed: a
\* worker that finds the job taken waits for the lock and the claim's commit, so a
\* claimer that crashes before it does not take the message with it.
HandledIsClaimed == \A o \in handled : Claimed(log[o])

\* A running replay that no process works on any more.
Orphaned(r) == jobStatus[r] = "running" /\ \A w \in Workers : ~Executing(w, r)

\* Whoever executes a replay is the worker its row names, so no two workers ever
\* execute the same one: not when a message is delivered again, nor when a worker
\* goes on with a partition it has lost (the row lock of claim_replay_job).
SoleExecutor ==
  \A w \in Workers, r \in Replays :
    Executing(w, r) => jobStatus[r] = "running" /\ jobWorker[r] = w

\* The rows of a replay whose every step was executed.
FullyAttempted(r) ==
  /\ \A i \in Steps : stepStatus[r][i] = Outcome(r, i)
  /\ summary[r] = Lifecycle!CountOf(r)
  /\ jobStatus[r] = "completed" <=> plan[r] = {}

\* A finished replay has attempted every step, failed exactly the steps of its
\* injection plan, counts its rows right, and is completed when no step failed:
\* the counters of run_replay live in memory and the rows in the database.
FinishedIsComplete == \A r \in Replays : jobStatus[r] \in Finished => FullyAttempted(r)

\* r's message waits in the API producer's queue.
Pending(r) == \E k \in 1..Len(outbox) : outbox[k] = r

\* The rows of a replay are there before any worker can see its message, so the
\* ReplayJobNotFoundError of the worker never happens.
PublishedHasRow ==
  \A r \in Replays :
    Loop!Stored(r) \/ Pending(r) => jobStatus[r] # "absent"

\* A client that got its 202 has its message in the topic, although every request
\* of the process shares one producer and one list of delivery errors.
AcceptedIsStored == \A r \in Replays : request[r] = "accepted" => Loop!Stored(r)

CountUpTo(r, i, s) == Cardinality({j \in 1..i : stepStatus[r][j] = s})

\* The progress topic never runs ahead of the database and never contradicts it:
\* each message of a replay agrees with the committed rows, once per step and in
\* the order of the steps, whatever was lost, aborted or delivered late.
ProgressFaithful ==
  \A r \in Replays :
    /\ \A k, l \in 1..Len(progress[r]) : k < l => progress[r][k].step < progress[r][l].step
    /\ \A k \in 1..Len(progress[r]) :
         LET m == progress[r][k]
         IN /\ m.status = stepStatus[r][m.step]
            /\ \A s \in Ended : m.counts[s] = CountUpTo(r, m.step, s)

\* A replay's message is in the topic for the step i.
Told(r, i) == \E k \in 1..Len(progress[r]) : progress[r][k].step = i

\* When flush returns, each step of the replay has its message in the topic, however
\* many messages and errors of earlier replays went through the same producer: so
\* progress is lost only when a handler raised or its worker crashed.
FlushedIsTold ==
  [][\A w \in Workers : phase[w] = "flush" /\ phase'[w] = "ack" =>
       \A i \in Steps : Told(Handled(w), i)]_vars

\* A replay that was claimed is executed at most once: when its worker crashes or
\* raises half-way, no redelivery and no other worker touches its rows again.
OrphanNeverResumed ==
  [][\A r \in Replays : Orphaned(r) =>
       Orphaned(r)' /\ stepStatus'[r] = stepStatus[r] /\ jobWorker'[r] = jobWorker[r]]_vars

\* The API, the topic and the workers together keep to the abstract life of a
\* replay's rows.
RefinesLifecycle == Lifecycle!Spec

\* A claimed replay either finishes or has lost its worker; a worker that neither
\* crashes nor raises never gets stuck in it.
RunningEndsOrOrphaned ==
  \A r \in Replays :
    (jobStatus[r] = "running") ~> (jobStatus[r] \in Finished \/ Orphaned(r))

\* Once crashes and rebalances cease with a worker left running, a replay whose
\* message is stored is claimed, or some handler raised on it: the lock, a crash
\* of its holder and a skipped redelivery never leave it queued together.
UnclaimedIsNotLost ==
  (<>[][\A w \in Workers : ~Loop!Fault(w)]_vars /\ <>[](up # {}))
    => \A r \in Replays :
         Loop!Stored(r) ~> (jobStatus[r] # "queued" \/ \E o \in failed : log[o] = r)

\* replay_max_duration_sec: a claimed replay ends.
RunningEnds ==
  \A r \in Replays : (jobStatus[r] = "running") ~> (jobStatus[r] \in Finished)
=============================================================================
