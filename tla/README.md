# Agent Trace Replay: specification and proofs

This directory holds a TLA+ model of the Agent Trace Replay platform, the TLC
configurations that check it on small instances, and proofs, checked by TLAPS,
that hold for every instance. Paths of the source are given relative to the
repository's root.

## The system

An agent run is recorded as a *trace*. The API stores its events and announces
the batch; the normalizer compiles the events of a trace into a *manifest*, the
checklist of its tool calls; a client schedules a *replay* of a manifest, with
failure injections; a worker executes the replay step by step as local mocks and
writes the results; the client polls for them. The processes share PostgreSQL
and four Kafka topics: `trace.ingested`, `trace.normalized`, `replay.requested`,
`replay.progress`.

### Inventory

| Component | State it keeps | Operations | What makes it correct |
|---|---|---|---|
| API, replay scheduling (`src/api/services/replay_schedule.py`, `src/api/routes/replays.py`) | `replay_jobs`, `replay_steps`; the process's one Kafka producer | create (job and steps in one transaction, then publish, then flush), detail, list | rows before message; 202 only for a stored message; injections hit the steps they name; a torn read never lies about the end |
| API, trace ingest (`src/api/services/trace_ingest.py`, `src/api/routes/traces.py`) | `traces`, `trace_events`; the same producer | upsert of the trace, one insert per event that ignores known keys, commit, publish, flush; detail of a trace | each key once; counts true; every accepted batch is announced; no lock waited for for ever; no batch shown without its events |
| API, manifest query (`src/api/services/manifest_query.py`) | none | one SELECT | what was read stays a list of stored events |
| API shell (`src/api/main.py`, `dependencies.py`) | the producer, a session per request | start, stop, health, key check | sessions roll back |
| Normalizer (`src/normalizer/`) | `replay_manifests` | load, build, upsert, publish; a Kafka consumer loop | a manifest is whole batches in order; a handled batch stays compiled; every announced batch is compiled |
| Manifest builder (`src/normalizer/manifest_builder.py`) | none | sort, number and name the events | steps are ordered and named by their own event, so other events change neither; names clash only for a reason |
| Worker (`src/worker/`) | `replay_jobs`, `replay_steps`; counters and step number in memory | claim under a row lock, step loop, completion, progress, flush; a Kafka consumer loop | one executor per replay; a finished replay is complete; progress agrees with the rows |
| Mock executor (`src/worker/step_executor.py`) | none | one status and response per kind of injection | fails exactly on injections |
| Kafka producer (`src/shared/kafka/producer.py`) | librdkafka's queue, `_delivery_errors` | publish, flush, delivery callback | flush returns only when everything is out |
| Kafka consumer (`src/shared/kafka/consumer.py`) | fetch position, membership | poll, commit by hand | no message passed over, no commit that rewinds |
| Schemas (`src/shared/schemas/`), settings, metrics, deployment, scripts | none | validation, counters, configuration | inputs within bounds |

They interact through committed transactions (API to worker and back), through
messages (API to normalizer, API to worker), through the row lock of
`claim_replay_job` (worker to worker) and through the locks of upserts and unique
keys (request to request). What is hard: a transaction and a publish are two
steps; a message may come twice or, after an exception, not again; a consumer may
go on with a partition it has lost; what was read in one statement is stale in
the next; transactions wait for each other's uncommitted rows; flush may fail for
somebody else's message; a process may die between any two of these.
`PROJECT.json` lists these hazards at their lines with the properties that
address them.

## Modules

| Module | What it is |
|---|---|
| `ConsumerLoop` | One consumer group on one partition: assignment, rebalance, poll, handler, commit, crash, restart. The poll loops of the normalizer and the worker with an open handler. |
| `KafkaProducer` | One producer of a process: queue, noted errors, publish, flush, delivery. |
| `TraceStore` | Abstract: batches stored whole, each key to the batch that was first, then announced. |
| `TraceIngest` | Detailed: concurrent `ingest_trace` requests, statement by statement, with PostgreSQL's locks, deadlocks and rollbacks, the API's producer and crashes. |
| `TraceLifecycle` | Abstract: `TraceStore` and the manifests compiled from it. |
| `Normalizer` | Detailed: `normalize_trace` as handler of `ConsumerLoop`, over `TraceStore`. |
| `TraceDetail` | Clients reading a trace and its manifest against `TraceLifecycle`. |
| `ManifestBuilder` | Operators: how the events of a trace become numbered and named steps. |
| `ReplayPlan` | From the stored events over manifest and injection specs to the results of a replay. |
| `ReplayLifecycle` | Abstract: the life of a replay's rows as a reader of the database sees it, one transaction per action. |
| `ReplayService` | Detailed: `create_replay`, the API's producer, the topic `replay.requested`, the workers with `run_replay` as handler of `ConsumerLoop`, their producers, the topic `replay.progress`. |
| `ReplayDetail` | A client polling `GET /v1/replays/{id}` against `ReplayLifecycle`. |
| `ReplaySystem` | The replay half in one piece: `ReplayService` with the clients of `ReplayDetail` reading its rows. |
| `TraceSystem` | The trace half in one piece: `Normalizer` with the requests of `TraceIngest` as its API. |
| `MC...` | The instances TLC checks, with their symmetry and bounds. |
| `...Proofs` | The theorems and their proofs. |

How they compose, from the client's batch to the end of its replay:

```
TraceIngest --implements--> TraceStore <--extends-- TraceLifecycle <--implements-- Normalizer
   | instance                                           ^ extends                    | instance
KafkaProducer                                       TraceDetail                 ConsumerLoop
                                                                                     | instance
ManifestBuilder <--extends-- ReplayPlan      ReplayDetail --extends--> ReplayLifecycle <--implements-- ReplayService

TraceSystem  = Normalizer    + TraceIngest  (instance)   implements Normalizer
ReplaySystem = ReplayService + ReplayDetail (instance)   implements ReplayDetail
```

- `TraceIngest` and `TraceStore` share their variables, so `RefinesStore ==
  StoreSpec` is a refinement under the identity; `Normalizer` then runs over
  `TraceStore` instead of over the statements of the requests. The two halves meet
  in `topic`: `AcceptedIsAnnounced` says that an accepted batch is in it, and
  `AnnouncedIsCompiled` that a batch in it is compiled. `TraceSystem` runs both
  together, and `SystemNormalizes` proves that this is an instance of `Normalizer`.
- `ConsumerLoop` is instantiated twice, by `Normalizer` (`log <- topic`) and by
  `ReplayService` (`Messages <- Replays`): an action of a consumer is the
  conjunction of what its handler does and what its loop does.
- `ReplayService` implements `ReplayLifecycle` under the identity too, since the
  abstract variables are the database columns themselves. `ReplayDetail` and
  `TraceDetail` extend the abstract modules, so what they say of a reader holds
  over the whole service; for replays, `ReplaySystem` states it and
  `SystemAnswersAreFinal` proves it.
- The ingest and replay requests of an API process share its one producer, of which
  `TraceIngest` and `ReplayService` each see their own messages. A foreign message
  before one's own can only make the flush time out or find an error, and a flush
  that raises with one's own message stored is there already as a lost
  acknowledgement.
- `ReplayService` takes the injected steps as an arbitrary set and `TraceLifecycle`
  a manifest as a set of keys. `ReplayPlan` is what stands behind both: the
  manifest as a sequence, and the injected steps as `resolve_injections` and
  `_injection_for_step` determine them.

### State and actions against the code

`ConsumerLoop`. `position` is librdkafka's fetch position, which moves when
`poll` returns; `committed` moves only in `Commit` (`enable.auto.commit` is
off); `cursor[c]` is the offset of the message a loop body is handling. An
exception of the handler (`HandlerRaises`) changes neither. `handled` and
`failed` are history. The broker refuses the commit of a member that has lost
the partition, so `Commit` needs `owner = c` and such a commit is
`CommitRaises`. librdkafka serves rebalances inside `poll`, so a consumer is
assigned partitions only between messages (`Assign` needs `cursor[c] = 0`),
while it can lose them at any time. A `poll` error that is not retryable, or a
commit that raises inside the `except` branch, ends the process: `Crash`. Topics
are created with one partition (the compose file sets no `num.partitions`).

`ReplayService`. One action per transaction or per call between two awaits:

| Action | Code |
|---|---|
| `CreateReplay(r, P)` | `create_replay` up to `session.commit()`; `P` is the set of steps that `resolve_injections` and `_injection_for_step` mark |
| `Publish`, `PublishRaises` | `producer.publish`; a commit whose acknowledgement is lost, a full queue |
| `FlushAccepts`, `FlushRaises` | `producer.flush`, its two raises, the 202 or the 500 |
| `DeliverRequest`, `LoseRequest` | librdkafka and `_delivery_callback`; a lost acknowledgement notes an error for a message that is stored |
| `ApiCrash` | the process is killed and started again |
| `Receive` | `poll` returns a message, `handle_message` opens a session |
| `SelectJob` | `SELECT ... FOR UPDATE`, blocking while another holds the lock; not claimable is a skip that is acknowledged |
| `ClaimJob` | the claim's commit, then the steps are loaded |
| `StartStep`, `EndStep`, `Report` | the two commits of a step, then counters and progress message |
| `CompleteJob` | the final commit |
| `FlushReturns`, `FlushFails` | `producer.flush` of the worker |
| `Acknowledge` | `consumer.commit(message)`, which may raise |
| `Abort` | any other exception: the session closes, the loop polls on |
| `Crash`, `Regroup` | the process ends; assignment, rebalance, restart |
| `SendProgress`, `LoseProgress` | the worker's producer |

`publish` and `flush` do not await, so they block the API's event loop: `Publish`
waits until no other request is flushing. `AcceptedIsStored` rests on that, and
its mutant drops it. A request that fails before its commit (no manifest, bad
injection target, a rejected row) leaves nothing behind; which ones do is in
`ReplayPlan`. `SELECT` and the following read of steps see rows that nobody else
writes once the claim is committed, which `SoleExecutor` shows. The `worker_id`
of a row stands for the process; deployments that run several workers give each
its own `WORKER_ID`. A failed commit whose transaction is durable all the same
is the transaction's action followed by `Abort`, `PublishRaises` or
`CommitRaises`. `replay_jobs.status` never takes the value `cancelled` and a
step's never `skipped`: no code writes them.

`TraceIngest`. A request is a program counter over the statements:

| Action | Code |
|---|---|
| `Post` | the client's request arrives, with any body of `Batches` |
| `Upsert` | the upsert of the trace, which takes its row's lock and waits for another's |
| `InsertEvent` | one turn of the for loop; waits while an open transaction holds the key |
| `Commit` | `session.commit()`: what was inserted and upserted becomes visible, the locks go |
| `IngestRaises`, `BreakDeadlock` | a statement raises; PostgreSQL aborts a member of a cycle of waiting transactions; the route and the session roll back |
| `Publish`, `PublishRaises` | `producer.publish`; a full queue, a commit whose acknowledgement is lost |
| `FlushReturns`, `FlushRaises` | `producer.flush`, the 202 or the 500 |
| `Deliver`, `GiveUp` | librdkafka; a lost acknowledgement notes an error for a message that is stored |
| `ApiCrash` | the process is killed and started again |

An event is its idempotency key, which is unique over all traces. `open[q]` are
the rows a transaction has inserted; nobody else sees them, but an insert of the
same key waits for them. The effect of the upsert is applied at the commit, which
the lock makes the same thing. `Publish` and the flush block the event loop; the
model lets statements of other requests be taken meanwhile, which adds behaviours
and takes none away.

`Normalizer`. `LoadEvents` is the SELECT, `UpsertManifest` the upsert with its
commit, `EventsNotFound` the raise for a trace without events, `Acknowledge` the
end of publish and flush with the commit of the offset, `Abort` every other
exception. `outrun` is history: the traces whose manifest was last written by a
normalizer that no longer had the partition. `trace.normalized` has no reader, so
whether publish or flush raised is all that remains of it.

`ReplayPlan` over `ManifestBuilder`. `Loads` are the orders in which the SELECT
may return the events, since `ORDER BY sequence, event_ts` leaves ties to the
database; `Sorted` is Python's stable sort; `BuildManifest` numbers and names.
`CreateReplay` has the early returns in the code's order: no manifest (404), a
default spec that its own schema refuses because the span id is longer than 256
characters (500), a target that is no step (400), two steps of one name in the
unique constraint of `replay_steps` (500, rolled back). `Hits` and `InjectionFor`
are `_injection_for_step`, `Execute` is `execute_mock_step`. An empty span id is
replaced like a missing one and is therefore the same value. A manifest is never
empty when there is one, so the 400 for an empty manifest cannot happen: the
normalizer raises for a trace without events, and every event type that ingest
accepts is replayable.

`normalize_trace` is two steps here too: `LoadEvents(n)` is the SELECT with the
manifest built from it, kept in `draft[n]`; `UpsertManifest(n)` is the upsert with
its commit; `Abort(n)` is an exception or a crash in between. So an older manifest
may overwrite a newer one. `ReadManifest` is `get_manifest_detail`, whose answer
the client keeps in `seen`. `create_replay` and `run_replay` are one step each:
what the first reads besides the manifest does not change, and it keeps what it
read of the manifest to its commit, so all might as well happen at the read; the
rows that the second reads and writes nobody else touches (`SoleExecutor`).

`TraceDetail`. `SelectTrace` and `SelectEvents` are the two SELECTs of
`get_trace_detail`; `ReadManifest` is `get_manifest_detail` and the first SELECT
of `create_replay`.

## Runs

| Run | Instance | Shows |
|---|---|---|
| `consumer_loop` | 2 consumers, 3 messages, 70 454 states | `CommittedWasAttempted`, `CommittedNeverRewinds`, `EveryMessageAttempted` |
| `consumer_retry` | the same | finding: `FailedIsRetried` is violated |
| `replay_pair` | 2 workers, 2 replays of 1 step, 967 348 states | `SoleExecutor`, `PublishedHasRow`, `AcceptedIsStored` |
| `replay_steps` | 2 workers, 1 replay of 2 steps, 167 265 states | `FinishedIsComplete`, `ProgressFaithful`, `FlushedIsTold`, `HandledIsClaimed`, `OrphanNeverResumed`, `RefinesLifecycle` |
| `replay_liveness` | 2 workers, 1 replay of 1 step, 60 804 states | `RunningEndsOrOrphaned`, `UnclaimedIsNotLost` |
| `replay_duration` | the same | finding: `RunningEnds` is violated |
| `replay_detail` | 2 clients, 1 replay of 3 steps, 12 292 states | `EndedAnswerIsFinal` |
| `trace_ingest` | 3 requests of 2 events each, 2 traces, 2 keys, 245 956 states | `CountsAreTrue`, `DuplicateIsStored`, `DeadlockSpansTraces`, `AcceptedIsAnnounced`, `RefinesStore` |
| `ingest_liveness` | 2 requests, otherwise the same, 27 808 states | `EveryRequestEnds` |
| `normalizer` | 2 normalizers, 3 pairs of batches, 153 263 states | `HandledIsCompiled`, `MissingForGood`, `RefinesLifecycle`, `AnnouncedIsCompiled` |
| `trace_detail` | 1 client, 3 batches of one event, 2 traces, 2 keys, 30 265 states | `AnswerCoversRow`, `PlanIsBacked` |
| `replay_plan` | up to 3 events, 2 normalizers, 134 request bodies, 187 031 states | `RefusalsHaveAReason`, `RequestedFailuresHappen`, `OnlyRequestedFailuresHappen`, `NamesMeanWhatWasSeen`, `ManifestsNest` |

`ReplaySystem` and `TraceSystem` have no run of their own: their state space is the
product of two modules that are each checked above. What they state is proved. On
one replay of two steps, two workers and one client (2 201 410 states), and on the
instance of `normalizer` (949 956 states), TLC finds it true as well.

Every property has a mutant: a plausible bug in the code (no row lock, `SKIP
LOCKED`, a commit that is not fenced, flush off the event loop, counters that
outlive the call, swapped SELECTs, an upsert without its lock, a rollback that is
forgotten, a repeated batch that is not announced, a manifest built from one
batch, events read page by page, a failed step that is tried until it passes, the
last matching spec instead of the first, ...) under which the run finds
it violated.

Read together, `AcceptedIsAnnounced` and `AnnouncedIsCompiled` say that a client
that repeats its batch until it is accepted gets its trace compiled, with the
exceptions that the second names: a handler that raised (finding 1) or a
normalizer without the partition that wrote last. Both, like `HandledIsCompiled`,
speak of what a batch brought (`Brought`), not of what it added, so they say
something of the repetition, which adds nothing. `MissingForGood` shows that the
"not ready, will retry" of the loop has nothing to wait for: a batch is stored
before it is announced, so a trace without events then is one whose keys were all
used by other traces. `DeadlockSpansTraces` shows that the lock of the upsert
orders batches of one trace, so that only batches of different traces that share
keys can deadlock. `ManifestsNest` says what a late write can do to a manifest: it
takes the trace back to an earlier list or forward to a later one, but any two that
overwrite each other agree on the names and, but for ties, the order of what both
have. Numbers do move; names do not, and `NamesMeanWhatWasSeen` says what follows
for a client that names a step in an injection: it never hits a step that it did not
mean, though the request may be refused.

**Bounds.** Nothing is capped by a counter: a replay is requested once, a batch
posted once and a message produced once, so every instance is finite. A client's
retry is a further request with the same body, which the instances contain. Two
consumers are enough for one to hold a partition the other has lost; three
messages let a stale commit lie behind two others. Two replays let one request
meet the producer errors of another and one worker hold the lock of one job while
a second has another. Two steps let a replay be abandoned between steps and
progress be reordered. Three ingest requests let two batches of one trace meet a
third of another, with a repeated key in a batch (`PairBatches`). The batches of
the normalizer are limited by `Cases` to a batch and its repetition, a small and
a larger batch of one trace, and two traces that share a key: with two
normalizers, each is a way for the manifest to lose or to miss something. One
client of `TraceDetail` is enough because clients only read; three batches let a
row's first and last batch differ with one in between. Three events let a late
event come between two others; with three, `Cases` of `MCReplayPlan` limits the
spans to a shared and a missing one and lets one normalizer work at a time, while a
manifest of two events written before stays to be overwritten; what the client saw
is checked with two. `Rest` lets a replay be
requested when no manifest is being compiled, since `create_replay` looks at none
of that, and normalizers go on after it over two events. `replay_pair` is bounded by `PairBound` (no injections, no lost
progress message, at most one failure, of a handler or of a request, one worker
up): its properties say who may do what, and the other runs drop each of these
limits for one replay. Workers, replays, requests, traces and keys are symmetric
in the safety runs; the liveness runs use no symmetry.

**Fairness.** A process that does not crash takes its next step: the loops poll
with a timeout, flush has a timeout of ten seconds, the mock call sleeps a
bounded time, a lock's holder commits or is rolled back. A statement that waits
for no lock returns, and PostgreSQL breaks a deadlock after `deadlock_timeout`.
The coordinator assigns a free partition to some member that polls. librdkafka
delivers or gives up. No fairness makes a client post, a process crash or
restart. `EveryMessageAttempted`, `AnnouncedIsCompiled` and `UnclaimedIsNotLost`
assume that crashes and rebalances cease with some
process running; without that a message may be redelivered for ever.

**Findings.** (1) A handler that raises is logged as "will retry", but nothing
rewinds: the next commit passes the message (`consumer_retry`). (2)
`replay_max_duration_sec` is read by nothing: a replay whose worker crashes or
raises after the claim stays `running` (`replay_duration`). `OrphanNeverResumed`
is the other side of it, and the reason why at most one worker ever writes the
rows of a replay: claims are never taken back.

## Proofs

`ConsumerLoopProofs` (any sets of consumers and messages): `TypeCorrect`,
`NothingPassedOver`, `CommitsOnlyAdvance`. The invariant adds `Attached`: while
the partition is assigned, the owner's position is at or past the committed
offset, the message in hand is the last fetched, and all before it have been
through a handler. A commit writes what is in hand, so without it neither
property is inductive.

`ReplayServiceProofs` (any sets of replays and workers, any number of steps):
`TypeCorrect`, `OneExecutor`, `FinishedReplaysAreComplete`, `MessagesHaveRows`,
`AcceptedMeansStored`, `OrphansStay`, `ImplementsLifecycle`, `WorkersAreAGroup`,
`ProgressStaysFaithful`, `FlushTellsAll`, `HandledStaysClaimed`,
`CommittedIsClaimed`, and for the service with its clients
`SystemServesClients`, `SystemAnswersAreFinal`. The base is `IInv == TypeOK /\
WorkerInv /\ ApiInv`:

- `WorkerInv` ties rows to workers. A worker about to claim holds the only lock
  of a job that is still queued (`Claiming`); an executor's rows and counters
  are those of its place in the loop (`RowsSoFar`), because it started from
  pending rows (`NotStarted`) with fresh counters (`FreshStart`). From this, the
  claim has one winner and the final counters are the counts of the rows; the
  latter also gives the range of the counters, so even `TypeOK` needs it.
- `ApiInv` follows a request: rows exist from its commit on (`HasRow`), one
  request flushes at a time (`OneFlush`), and while it does, its message is
  queued, stored, or an error is noted (`FlushPending`).

Three further invariants are inductive relative to `IInv`, two on the progress
messages and one on what an acknowledgement means:

- `ProgressInv`: a message in a worker's queue or in the topic agrees with the rows
  of its step and with the counts up to it (`InQueue`, `InTopic`), and steps
  increase within the queue, within the topic, and from the topic to the queue
  (`QueueOrder`, `TopicOrder`, `TopicFirst`). Rows that a message speaks of have
  ended, and `ClaimedStep` gives the rest: of a claimed replay, nobody but its
  executor ever writes a row or produces a message, not even after the executor is
  gone. `OrphansStay` is its other consequence.
- `FlushInv`: a producer serves one replay after another, and neither its queue nor
  its list of errors is emptied in between. But of the replay in hand, each
  message up to the current step is in the topic, in the queue, or the list of
  errors is not empty (`NothingLost`), since only `flush` clears it; and a worker
  that flushes has done all steps (`FlushAtEnd`). So a flush that returns finds
  them all in the topic.
- `AckInv`: `run_replay` returns past its flush or past a job that is not queued,
  and on both ways the job is claimed (`ReturnsClaimed`), as no one unclaims it
  (`ClaimedStep`). So a worker that waits for a row lock never acknowledges a
  replay that the holder of the lock failed to claim.

`WorkersAreAGroup` carries the theorems of `ConsumerLoop` over to the workers. With
`NothingPassedOver` and `HandledStaysClaimed` it gives `CommittedIsClaimed`: the
group passes a replay over only when a handler raises on its message.
`SystemServesClients` shows, by the simulation of `ImplementsLifecycle`, that what
the clients of `ReplaySystem` read is a behaviour of `ReplayDetail`, and
`SystemAnswersAreFinal` is `EndedAnswersAreFinal` carried over.
`IInv`, `ProgressInv` and `FlushInv` were also checked with TLC on the instances
above.

`ReplayDetailProofs` (any clients, replays and steps): `EndedAnswersAreFinal`,
from two facts of `ReplayLifecycle`: the rows of an ended replay are true, and
no transaction touches them again.

`TraceIngestProofs` (any requests, traces, keys and batches):
`IngestTypeCorrect`, `CountsStayTrue`, `DuplicatesAreStored`,
`DeadlocksSpanTraces`, `AcceptedMeansAnnounced`, `ImplementsStore`. The
invariant is `TypeOK /\ TablesInv /\ QueueInv`. `TablesInv` says where a
transaction stands: the lock of a trace has one holder (`Alone`), no two open
transactions hold one key and no row is under one (`OpenApart`), and the counts
and open keys are those of the part of the batch that was inserted
(`LoopedSoFar`); without the last, nothing relates the counts at the commit to the
rows. `QueueInv` follows the message, as `ApiInv` does for replays.

`TraceStoreProofs`: `ManifestsStayBacked`, from `StoreInv` (rows and
announcements are of committed requests) and the fact that a set of whole batches
remains one, since a committed batch gets no more rows.

`NormalizerProofs` (any normalizers, traces and batches): `NormalizerTypeCorrect`,
`HandledStaysCompiled`, `MissingMeansNever`, `ImplementsLifecycle`,
`NormalizersAreAGroup`, `CommittedIsCompiled`. The point of the induction is
`Ahead`: what the owner of the partition has read contains the batch of every
message taken before, so its upsert loses none of them, although others write in
between; only a normalizer that has lost the partition may have read less, and then
`outrun` says so. It is about every event that a batch brought, whoever stored it
first: what a stored batch brings never changes (`Settled`), since its keys are
taken for good. `CommittedIsCompiled` says the same of all that the group has
committed past, by `NothingPassedOver`: apart from `outrun`, only an announcement on
which a handler raised is passed over.

For `TraceSystem`, where the API is `TraceIngest` with its locks, deadlocks,
rollbacks and producer: `SystemNormalizes`, by the steps of `ImplementsStore`, and
`AcceptedMeansCompiled`, which joins the two halves: an accepted batch is
announced (`QueueInv` of the ingest), its events are stored (`StoreInv`), and once
its message was handled they are in the manifest (`IInv` of the normalizers).

`TraceDetailProofs`: `AnswersCoverTheirRow`, `PlansStayBacked`, for any clients.

`ReplayPlanProofs` (any events, names, normalizers, requests and specs):
`PlanTypeCorrect`, `RefusalsAreReasoned`, `FailuresHappen`, `NoOtherFailures`,
`ManifestsStayNested`, `NamesKeepTheirMeaning`. The core is that sorting loses
nothing: the order of the builder is linear on the places of the list
(`UpToIsLinear`), so ranks are injective and, the list being finite, a permutation
(`RanksPermute`, by the theorems on finite sets). So what is built has one step for
each stored event, in order (`BuiltIsListed`). `ListsInv` says of all lists that are
about, in drafts, in the database, in the client's hands and in the replay's rows,
that each is still such a list of some stored events (`Listed`), as a later event has a
key of its own, and that of any two one has all events of the other: each was read
in one statement, and events are only added. The drafts have to be among them, since
what is written late may be older than everything else. `WellPlanned` says of a
replay's rows that they are numbered, named apart and carry the injection of the
first spec that hits them. `NamesKeepTheirMeaning` needs both: if the client saw
fewer events than the rows have, the constraint on names decides, and if it saw
more, it saw the row's event under the same name.

The assumptions are those of the modules: at least one step (a manifest is never
empty), batches that are not empty (the schema of the request), fallback names
`step_<n>` that are distinct and short, and `None` different from what it stands
beside.

Only model-checked: the liveness properties (`EveryMessageAttempted`,
`RunningEndsOrOrphaned`, `UnclaimedIsNotLost`, `EveryRequestEnds`,
`AnnouncedIsCompiled`), since liveness under fairness is beyond the prover. Every
invariant, action property and refinement that a run checks is proved.

## Not modelled

- Metrics, logging, health checks and the API key: they keep no state that any
  operation reads.
- `list_replays`: one SELECT with filters and a limit that changes nothing.
- Timestamps and durations, among them the comparison of timestamps with and
  without a time zone, latencies, and the delay of an injected step. That a long
  replay outlives the consumer's poll interval is the rebalance that
  `ReplayService` allows at any time.
- Contents of payloads and the fabricated responses of the mock executor.
- The other bounds of the schemas (lengths, ranges, number of events): they limit
  the inputs and no operation depends on them.
- The connection pool, the downgrade of the migration, cascades of foreign keys:
  nothing is ever deleted.
- Deployment, dashboards, scripts and fixtures, except where they say what a
  client does or what a message means (findings, `demo.sh` for `ReplayDetail`).

## Plan

What is left, in the order of its worth:

1. `ReplayService` with `KafkaProducer` as an instance for the API and one per
   worker; its proofs speak of the queues directly today.
2. `ReplayPlan` as what fixes the set of steps that `CreateReplay` of
   `ReplayService` leaves open, as a refinement.
