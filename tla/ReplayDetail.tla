---------------------------- MODULE ReplayDetail ----------------------------
(***************************************************************************)
(* GET /v1/replays/{id} (get_replay_detail, api/services/replay_schedule.py)*)
(* against the rows of ReplayLifecycle.  The job and its steps are read by *)
(* two SELECTs with an await between them; at PostgreSQL's default         *)
(* isolation each sees what is committed when it runs, so transactions of  *)
(* the worker may fall in between and the response may be of no one        *)
(* moment.                                                                 *)
(***************************************************************************)
EXTENDS ReplayLifecycle, Sequences

CONSTANT Clients   \* requests under way at a time, one per client

VARIABLES
  target,  \* target[c]: the replay c asks for, or None
  taken,   \* taken[c]: how many of the SELECTs of c's request have run
  job,     \* job[c]: the columns of the job row it read
  rows     \* rows[c]: the statuses of the step rows it read

readVars == <<target, taken, job, rows>>
detailVars == <<lifecycleVars, readVars>>

\* The columns of replay_jobs that the response carries.
JobRow(r) == [status |-> jobStatus[r], counts |-> summary[r]]

\* The SELECTs the other way round: the steps first, then the job.
SelectsStepsFirst == <<"steps", "job">>

\* The SELECTs of get_replay_detail, in their order.
Selects == <<"job", "steps">>

ReadInit ==
  /\ target = [c \in Clients |-> None]
  /\ taken = [c \in Clients |-> 0]
  /\ job = [c \in Clients |-> None]
  /\ rows = [c \in Clients |-> None]

DetailInit == Init /\ ReadInit

\* A client asks for the replay, again when it polls; its session is a new one.
Ask(c, r) ==
  /\ taken[c] \in {0, Len(Selects)}
  /\ target' = [target EXCEPT ![c] = r]
  /\ taken' = [taken EXCEPT ![c] = 0]
  /\ job' = [job EXCEPT ![c] = None]
  /\ rows' = [rows EXCEPT ![c] = None]
  /\ UNCHANGED lifecycleVars

\* The next SELECT of the request.
Select(c) ==
  /\ target[c] # None /\ taken[c] < Len(Selects)
  /\ jobStatus[target[c]] # "absent"
  /\ taken' = [taken EXCEPT ![c] = @ + 1]
  /\ \/ /\ Selects[taken'[c]] = "job"
        /\ job' = [job EXCEPT ![c] = JobRow(target[c])]
        /\ UNCHANGED rows
     \/ /\ Selects[taken'[c]] = "steps"
        /\ rows' = [rows EXCEPT ![c] = stepStatus[target[c]]]
        /\ UNCHANGED job
  /\ UNCHANGED <<lifecycleVars, target>>

\* No such job: ReplayNotFoundError, a 404.
NotFound(c) ==
  /\ target[c] # None /\ taken[c] = 0
  /\ jobStatus[target[c]] = "absent"
  /\ target' = [target EXCEPT ![c] = None]
  /\ UNCHANGED <<lifecycleVars, taken, job, rows>>

Read ==
  \E c \in Clients :
    \/ \E r \in Replays : Ask(c, r)
    \/ Select(c)
    \/ NotFound(c)

DetailNext == (Next /\ UNCHANGED readVars) \/ Read

DetailSpec == DetailInit /\ [][DetailNext]_detailVars

Answered(c) == target[c] # None /\ taken[c] = Len(Selects)

\* _first_failed_step_id of the rows read: a step number, or 0 for null.
FirstFailed(c) ==
  LET bad == {i \in Steps : rows[c][i] = "failed"}
  IN IF bad = {} THEN 0 ELSE CHOOSE i \in bad : \A j \in bad : i <= j

-----------------------------------------------------------------------------
\* A response that says the replay has ended is its last word: every step in it
\* has ended, its counts are those of its own rows, it names a first failed step
\* exactly when it says "failed", and nothing in it changes any more.  A client
\* stops polling on the status of a row read before the steps.
EndedAnswerIsFinal ==
  \A c \in Clients :
    Answered(c) /\ job[c].status \in Finished =>
      /\ \A i \in Steps : rows[c][i] \in Ended
      /\ job[c].status = "completed" <=> FirstFailed(c) = 0
      /\ job[c].counts.failed = Cardinality({i \in Steps : rows[c][i] = "failed"})
      /\ job[c] = JobRow(target[c]) /\ rows[c] = stepStatus[target[c]]
=============================================================================
