------------------------------ MODULE ReplayPlan ------------------------------
(***************************************************************************)
(* From the stored events of one trace to the outcome of its replay: the   *)
(* data that the other modules abstract to a set of keys and a set of      *)
(* steps.  Events arrive one by one, normalizers compile them to manifests *)
(* (ManifestBuilder), a client reads one and asks for a replay with        *)
(* failure injections (create_replay, resolve_injections,                  *)
(* _injection_for_step in api/services/replay_schedule.py and the          *)
(* validators of shared/schemas/replay.py), and a worker executes the rows *)
(* it finds (run_replay, execute_mock_step).                               *)
(*                                                                         *)
(* A normalizer reads the events in one statement and writes the manifest  *)
(* in a later one, under no lock, so an older manifest may overwrite a     *)
(* newer one.  Which normalizers run side by side is a matter of the       *)
(* consumer group (Normalizer); here any do.  create_replay and run_replay *)
(* are one step each: the one reads the manifest in one statement and      *)
(* nothing else that changes, the other alone touches the rows of its      *)
(* replay (SoleExecutor of ReplayService).                                 *)
(***************************************************************************)
EXTENDS ManifestBuilder

CONSTANTS
  Kinds,      \* FailureInjectionKind
  Timeout,    \* the kind of the default injection
  LongNames,  \* names of more than 256 characters
  Requests,   \* bodies of replay requests, as the client sends them
  Normalizers \* activations of normalize_trace for the trace

\* The specs that FailureInjectionSpec admits: the name is not too long, and
\* a target is given by name, by number or by both.
Specs ==
  {x \in [kind : Kinds, step_id : Names \cup {None},
          step_order : (Nat \ {0}) \cup {None}] :
     /\ x.step_id \notin LongNames
     /\ x.step_id # None \/ x.step_order # None}

\* What the client is answered.
Answers ==
  {"accepted", "no manifest", "no such spec", "no such step", "name taken twice"}

ASSUME RequestAssumption ==
  /\ Timeout \in Kinds /\ None \notin Kinds \cup Answers
  /\ LongNames \subseteq Names \ {StepName[n] : n \in Numbers}
  /\ \A q \in Requests :
       /\ q.failure_injection \in BOOLEAN
       /\ q.injections \in Seq(Specs)

\* A replay: its request and its rows, each a step and the injection it carries.
Jobs ==
  [request : Requests, steps : Seq([step : Steps, injection : Kinds \cup {None}])]

ASSUME NoJobAssumption == None \notin Jobs

VARIABLES
  events,    \* the stored events of the trace
  draft,     \* draft[n]: the manifest that n has built and not written, or <<>>
  manifest,  \* the steps of the trace's manifest, <<>> if it has none
  seen,      \* the manifest that the client read last, or <<>>
  job,       \* the replay, or None
  reply,     \* the answer to the request, None before it
  results    \* what the worker wrote to the rows, <<>> before it ran

vars == <<events, draft, manifest, seen, job, reply, results>>

Init ==
  /\ events = {}
  /\ draft = [n \in Normalizers |-> <<>>]
  /\ manifest = <<>>
  /\ seen = <<>>
  /\ job = None
  /\ reply = None
  /\ results = <<>>

-----------------------------------------------------------------------------
\* Variant: the idempotency key is not unique.
StoreEventAnyKey(e) ==
  /\ events' = events \cup {e}
  /\ UNCHANGED <<draft, manifest, seen, job, reply, results>>

\* Ingest stores an event under a key that no event has.
StoreEvent(e) ==
  /\ \A f \in events : f.key # e.key
  /\ events' = events \cup {e}
  /\ UNCHANGED <<draft, manifest, seen, job, reply, results>>

\* Variant: the events are read page by page, each in a statement of its own, so
\* an event that is stored behind the page read last is missed.
LoadPages(n) ==
  /\ draft[n] = <<>>
  /\ \E E \in SUBSET events \ {{}} :
       /\ \A m \in events \ E : \E e, f \in E : Before(e, m) /\ Before(m, f)
       /\ \E s \in Loads(E) : draft' = [draft EXCEPT ![n] = BuildManifest(s)]
  /\ UNCHANGED <<events, manifest, seen, job, reply, results>>

\* normalize_trace up to the built manifest: one SELECT sees all that is stored.
LoadEvents(n) ==
  /\ draft[n] = <<>> /\ events # {}
  /\ \E s \in Loads(events) : draft' = [draft EXCEPT ![n] = BuildManifest(s)]
  /\ UNCHANGED <<events, manifest, seen, job, reply, results>>

\* The manifest that was built is inserted or overwrites the trace's, committed.
UpsertManifest(n) ==
  /\ draft[n] # <<>>
  /\ manifest' = draft[n]
  /\ draft' = [draft EXCEPT ![n] = <<>>]
  /\ UNCHANGED <<events, seen, job, reply, results>>

\* An exception or a crash before the commit.
Abort(n) ==
  /\ draft[n] # <<>>
  /\ draft' = [draft EXCEPT ![n] = <<>>]
  /\ UNCHANGED <<events, manifest, seen, job, reply, results>>

\* get_manifest_detail: the client is shown the manifest, 404 if there is none.
ReadManifest ==
  /\ manifest # <<>>
  /\ seen' = manifest
  /\ UNCHANGED <<events, draft, manifest, job, reply, results>>

-----------------------------------------------------------------------------
\* normalize_injection_flag.
Injecting(q) == q.failure_injection \/ q.injections # <<>>

\* resolve_injections before it looks at the targets: the specs of the
\* request, or a timeout of the first step.
Resolved(q) ==
  IF ~Injecting(q) THEN <<>>
  ELSE IF q.injections # <<>> THEN q.injections
  ELSE <<[kind |-> Timeout, step_id |-> manifest[1].step_id, step_order |-> 1]>>

\* Variant: a spec is accepted when one of its two targets is a step.
KnowsEither(x) ==
  \E n \in 1..Len(manifest) :
    x.step_id = manifest[n].step_id \/ x.step_order = manifest[n].step_order

\* The targets of x are steps of the manifest.
Known(x) ==
  /\ x.step_id # None => \E n \in 1..Len(manifest) : manifest[n].step_id = x.step_id
  /\ x.step_order # None =>
       \E n \in 1..Len(manifest) : manifest[n].step_order = x.step_order

Hits(x, s) == x.step_id = s.step_id \/ x.step_order = s.step_order

\* Variant: of the specs that hit a step the last one counts.
LastInjectionFor(s, specs) ==
  LET hits == {i \in 1..Len(specs) : Hits(specs[i], s)}
  IN  IF hits = {} THEN None
      ELSE specs[CHOOSE i \in hits : \A j \in hits : j <= i].kind

\* _injection_for_step: the kind of the first spec that hits the step.
InjectionFor(s, specs) ==
  LET hits == {i \in 1..Len(specs) : Hits(specs[i], s)}
  IN  IF hits = {} THEN None
      ELSE specs[CHOOSE i \in hits : \A j \in hits : i <= j].kind

\* Variant: the constraint spans the number of the step as well.
NumberedApart(steps) ==
  \A m, n \in 1..Len(steps) :
    steps[m].step_id = steps[n].step_id /\ steps[m].step_order = steps[n].step_order => m = n

\* The rows of replay_steps fit uq_replay_steps_replay_step_attempt.
NamedApart(steps) ==
  \A m, n \in 1..Len(steps) : steps[m].step_id = steps[n].step_id => m = n

\* create_replay for request q, with what can end it early in the code's
\* order: no manifest (404), a default spec that its own schema refuses (500),
\* a target that is no step (400), two rows with one name (500, rolled back).
CreateReplay(q) ==
  /\ reply = None
  /\ reply' = IF manifest = <<>> THEN "no manifest"
              ELSE IF \E i \in 1..Len(Resolved(q)) : Resolved(q)[i] \notin Specs
                THEN "no such spec"
              ELSE IF \E i \in 1..Len(Resolved(q)) : ~Known(Resolved(q)[i])
                THEN "no such step"
              ELSE IF ~NamedApart(manifest) THEN "name taken twice"
              ELSE "accepted"
  /\ job' = IF reply' # "accepted" THEN job
            ELSE [request |-> q,
                  steps   |-> [n \in 1..Len(manifest) |->
                                 [step      |-> manifest[n],
                                  injection |-> InjectionFor(manifest[n], Resolved(q))]]]
  /\ UNCHANGED <<events, draft, manifest, seen, results>>

-----------------------------------------------------------------------------
\* execute_mock_step: a step with an injection fails with its kind as error,
\* if the replay injects failures; any other passes.
Execute(row, injecting) ==
  IF injecting /\ row.injection # None
  THEN [status |-> "failed", error |-> row.injection]
  ELSE [status |-> "passed", error |-> None]

\* run_replay over the rows in the order of their numbers.
RunReplay ==
  /\ job # None /\ results = <<>>
  /\ results' = [n \in 1..Len(job.steps) |->
                   Execute(job.steps[n], Injecting(job.request))]
  /\ UNCHANGED <<events, draft, manifest, seen, job, reply>>

Next ==
  \/ \E e \in Events : StoreEvent(e)
  \/ \E n \in Normalizers : LoadEvents(n) \/ UpsertManifest(n) \/ Abort(n)
  \/ ReadManifest
  \/ \E q \in Requests : CreateReplay(q)
  \/ RunReplay

Spec == Init /\ [][Next]_vars

-----------------------------------------------------------------------------
FailedSteps == {n \in 1..Len(results) : results[n].status = "failed"}

\* The status and the counts of the job are those of its rows.
JobStatus == IF FailedSteps = {} THEN "completed" ELSE "failed"

\* The rows that spec x names, by their name or by their number.
Targets(x) == {n \in 1..Len(job.steps) :
                 x.step_id = job.steps[n].step.step_id \/ x.step_order = n}

\* Two events with one step id: a span used twice, two events without a span
\* and with one sequence, or a span named like the step of such an event.
Clash(e, f) ==
  \/ e.span_id = f.span_id /\ e.span_id # None
  \/ e.span_id = f.span_id /\ e.sequence = f.sequence
  \/ e.span_id = None /\ f.span_id = StepName[e.sequence]

EventOf(k) == CHOOSE e \in events : e.key = k

\* Only the database orders them.
Tied(e, f) == e.sequence = f.sequence /\ e.event_ts = f.event_ts

\* Each step of the list is a step of a stored event, in its place.
Manifest(steps) ==
  \A n \in 1..Len(steps) :
    /\ steps[n] \in Steps
    /\ steps[n].step_order = n
    /\ \E e \in events : e.key = steps[n].source

\* The variables have their types, and a manifest has a step for each event it
\* was compiled from.
TypeOK ==
  /\ events \subseteq Events
  /\ \A e, f \in events : e.key = f.key => e = f
  /\ DOMAIN draft = Normalizers
  /\ \A n \in Normalizers : Manifest(draft[n])
  /\ Manifest(manifest) /\ Manifest(seen)
  /\ reply \in Answers \cup {None}
  /\ job \in Jobs \cup {None}
  /\ (job # None) = (reply = "accepted")
  /\ results # <<>> => job # None /\ Len(results) = Len(job.steps)

\* Manifest b has every step of a under the name it has in a, and any two of them
\* in the same order, unless sequence and timestamp of their events are equal.
Extends(b, a) ==
  /\ \A m \in 1..Len(a) :
       \E i \in 1..Len(b) : b[i].source = a[m].source /\ b[i].step_id = a[m].step_id
  /\ \A m, n \in 1..Len(a) :
       m < n /\ ~Tied(EventOf(a[m].source), EventOf(a[n].source)) =>
         \E i, j \in 1..Len(b) :
           i < j /\ b[i].source = a[m].source /\ b[j].source = a[n].source

\* A manifest is overwritten by a newer one or, when a slow normalizer writes late,
\* by an older one, never by one that mixes: one of the two has every step of the
\* other, under the same names and, but for ties, in the same order (load_trace_events
\* and upsert of normalize_trace, sorted() and step_id in build_manifest).
ManifestsNest ==
  [][Extends(manifest', manifest) \/ Extends(manifest, manifest')]_manifest

\* A step id keeps its meaning: if a row of the replay has a name that the client
\* saw, in whatever manifest was current before or after, then it is the step of an
\* event that the client saw under it.  Late events, late writes and clashing names
\* may get a request refused, but never make an injection by name hit a step the
\* client did not mean (resolve_injections, the constraint on step_id of replay_steps).
NamesMeanWhatWasSeen ==
  job # None =>
    \A n \in 1..Len(job.steps), m \in 1..Len(seen) :
      seen[m].step_id = job.steps[n].step.step_id =>
        \E k \in 1..Len(seen) : /\ seen[k].step_id = seen[m].step_id
                                /\ seen[k].source = job.steps[n].step.source

\* A replay is refused for a reason that lies in the events or the request:
\* for the unique constraint of replay_steps only if two events clash, for the
\* schema of the default injection only if a span id is too long for it.
RefusalsHaveAReason ==
  /\ reply = "name taken twice" =>
       \E e, f \in events : e.key # f.key /\ (Clash(e, f) \/ Clash(f, e))
  /\ reply = "no such spec" => \E e \in events : e.span_id \in LongNames

\* Every failure that was asked for happens: each target of each spec is a row
\* and fails, a request without specs fails the first step by a timeout, and
\* the replay ends as failed exactly if failures were asked for
\* (resolve_injections, _injection_for_step, execute_mock_step, run_replay).
RequestedFailuresHappen ==
  results # <<>> =>
    LET q == job.request
    IN  /\ JobStatus = "failed" <=> Injecting(q)
        /\ \A i \in 1..Len(q.injections) :
             LET x == q.injections[i]
             IN  /\ Targets(x) \subseteq FailedSteps
                 /\ x.step_id # None =>
                      \E n \in Targets(x) : job.steps[n].step.step_id = x.step_id
                 /\ x.step_order # None => x.step_order \in Targets(x)
        /\ Injecting(q) /\ q.injections = <<>> =>
             FailedSteps = {1} /\ results[1].error = Timeout

\* No other failure happens: a row that fails is named by a spec, and fails
\* with the kind of the first spec that names it (_injection_for_step).
OnlyRequestedFailuresHappen ==
  results # <<>> /\ job.request.injections # <<>> =>
    \A n \in FailedSteps :
      \E i \in 1..Len(job.request.injections) :
        /\ n \in Targets(job.request.injections[i])
        /\ results[n].error = job.request.injections[i].kind
        /\ \A j \in 1..(i - 1) : n \notin Targets(job.request.injections[j])
=============================================================================
