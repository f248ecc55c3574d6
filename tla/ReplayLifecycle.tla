-------------------------- MODULE ReplayLifecycle --------------------------
(***************************************************************************)
(* What the database shows of a replay, whoever reads it and whatever      *)
(* happens to the processes: the rows of replay_jobs and replay_steps, one *)
(* transaction at a time.  This is what the API promises its clients and   *)
(* what the dashboards count; ReplayService shows that the scheduler, the  *)
(* queue and the workers keep to it.                                       *)
(*                                                                         *)
(* Every action of this module is one committed transaction.               *)
(***************************************************************************)
EXTENDS Naturals, FiniteSets

CONSTANTS
  Replays,   \* replay identifiers
  NumSteps,  \* number of steps of the manifest
  None       \* "no summary yet"

ASSUME LifecycleAssumption == NumSteps \in Nat \ {0}

Steps == 1..NumSteps

VARIABLES
  jobStatus,   \* jobStatus[r]: replay_jobs.status, or "absent"
  plan,        \* plan[r]: the steps that carry a failure injection
  stepStatus,  \* stepStatus[r][i]: replay_steps.status, or "absent"
  summary      \* summary[r]: the counts of summary_json, or None

lifecycleVars == <<jobStatus, plan, stepStatus, summary>>

Finished == {"completed", "failed"}
Ended == {"passed", "failed"}

StepsWith(r, s) == {i \in Steps : stepStatus[r][i] = s}

CountOf(r) == [passed |-> Cardinality(StepsWith(r, "passed")),
               failed |-> Cardinality(StepsWith(r, "failed"))]

Init ==
  /\ jobStatus = [r \in Replays |-> "absent"]
  /\ plan = [r \in Replays |-> {}]
  /\ stepStatus = [r \in Replays |-> [i \in Steps |-> "absent"]]
  /\ summary = [r \in Replays |-> None]

\* A job and all its steps appear together, with the injection plan P.
Schedule(r, P) ==
  /\ jobStatus[r] = "absent"
  /\ jobStatus' = [jobStatus EXCEPT ![r] = "queued"]
  /\ plan' = [plan EXCEPT ![r] = P]
  /\ stepStatus' = [stepStatus EXCEPT ![r] = [i \in Steps |-> "pending"]]
  /\ UNCHANGED summary

\* A queued job is claimed once.
Claim(r) ==
  /\ jobStatus[r] = "queued"
  /\ jobStatus' = [jobStatus EXCEPT ![r] = "running"]
  /\ UNCHANGED <<plan, stepStatus, summary>>

\* The steps start one after the other.
StartStep(r, i) ==
  /\ jobStatus[r] = "running"
  /\ stepStatus[r][i] = "pending"
  /\ \A j \in 1..(i - 1) : stepStatus[r][j] \in Ended
  /\ stepStatus' = [stepStatus EXCEPT ![r][i] = "running"]
  /\ UNCHANGED <<jobStatus, plan, summary>>

\* A step ends as its plan says: an injected one fails, any other passes.
EndStep(r, i) ==
  /\ jobStatus[r] = "running"
  /\ stepStatus[r][i] = "running"
  /\ stepStatus' =
       [stepStatus EXCEPT ![r][i] = IF i \in plan[r] THEN "failed" ELSE "passed"]
  /\ UNCHANGED <<jobStatus, plan, summary>>

\* The job ends when every step has, with the true counts of its rows.
Complete(r) ==
  /\ jobStatus[r] = "running"
  /\ \A i \in Steps : stepStatus[r][i] \in Ended
  /\ jobStatus' =
       [jobStatus EXCEPT ![r] =
          IF StepsWith(r, "failed") = {} THEN "completed" ELSE "failed"]
  /\ summary' = [summary EXCEPT ![r] = CountOf(r)]
  /\ UNCHANGED <<plan, stepStatus>>

Next ==
  \E r \in Replays :
    \/ \E P \in SUBSET Steps : Schedule(r, P)
    \/ Claim(r)
    \/ \E i \in Steps : StartStep(r, i) \/ EndStep(r, i)
    \/ Complete(r)

Spec == Init /\ [][Next]_lifecycleVars
=============================================================================
