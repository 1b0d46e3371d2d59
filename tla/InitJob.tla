-------------------------------- MODULE InitJob --------------------------------
(***************************************************************************)
(* An init job: a script in a config map, the Kubernetes job that runs it  *)
(* and the condition that says it has completed.  The job is retried       *)
(* BackoffLimit times, then it has failed; a job that has finished, either *)
(* way, is deleted after a while (ttlSecondsAfterFinished), and one whose  *)
(* condition is not set by then is created again.                          *)
(***************************************************************************)
EXTENDS Naturals

CONSTANTS
  Jobs,          \* the init jobs
  BackoffLimit,  \* how often a job is retried
  MaxFailures    \* bound on failed attempts

ASSUME JobAssumption == BackoffLimit \in Nat /\ MaxFailures \in Nat

VARIABLES
  job,       \* job[j]: the Kubernetes job
  config,    \* the jobs whose config map exists
  tries,     \* tries[j]: failed attempts of the job
  ran,       \* the jobs whose script has run to its end
  failures   \* failed attempts so far

jobVars == <<job, config, tries, ran, failures>>

JobState == {"none", "active", "failed", "done"}

JobInit ==
  /\ job = [j \in Jobs |-> "none"] /\ tries = [j \in Jobs |-> 0]
  /\ config = {} /\ ran = {} /\ failures = 0

\* Mutant: a job that has failed counts as completed.
FinishedIsComplete(conditions, j) ==
  CASE j \in conditions -> "Ready"
    [] j \notin conditions /\ job[j] = "none" -> "Create"
    [] j \notin conditions /\ job[j] \in {"failed", "done"} -> "Complete"
    [] OTHER -> "Blocked"

\* What InitJob.Sync finds: the condition is set, the job does not exist, has
\* not succeeded, or has.
InitJobStatus(conditions, j) ==
  CASE j \in conditions -> "Ready"
    [] j \notin conditions /\ job[j] = "none" -> "Create"
    [] j \notin conditions /\ job[j] = "done" -> "Complete"
    [] OTHER -> "Blocked"

\* The config map is created first; an error or a crash may leave it alone.
CreateConfig(j) ==
  /\ config' = config \cup {j}
  /\ UNCHANGED <<job, tries, ran, failures>>

CreateJob(j) ==
  /\ config' = config \cup {j}
  /\ job' = [job EXCEPT ![j] = "active"]
  /\ tries' = [tries EXCEPT ![j] = 0]
  /\ UNCHANGED <<ran, failures>>

\* Mutant: one attempt too many.
AttemptFailsLate(j) ==
  /\ job[j] = "active" /\ failures < MaxFailures
  /\ failures' = failures + 1
  /\ ran' \in {ran, ran \cup {j}}
  /\ IF tries[j] > BackoffLimit
     THEN job' = [job EXCEPT ![j] = "failed"] /\ UNCHANGED tries
     ELSE tries' = [tries EXCEPT ![j] = @ + 1] /\ UNCHANGED job
  /\ UNCHANGED config

\* An attempt fails, before or after the script has had its effect.
AttemptFails(j) ==
  /\ job[j] = "active" /\ failures < MaxFailures
  /\ failures' = failures + 1
  /\ ran' \in {ran, ran \cup {j}}
  /\ IF tries[j] = BackoffLimit
     THEN job' = [job EXCEPT ![j] = "failed"] /\ UNCHANGED tries
     ELSE tries' = [tries EXCEPT ![j] = @ + 1] /\ UNCHANGED job
  /\ UNCHANGED config

\* A script needs its config map and succeeds if the cluster lets it.
JobSucceeds(j) ==
  /\ job[j] = "active" /\ j \in config
  /\ job' = [job EXCEPT ![j] = "done"]
  /\ ran' = ran \cup {j}
  /\ UNCHANGED <<config, tries, failures>>

\* Mutant: a failed job stays.
SucceededExpires(j) ==
  /\ job[j] = "done"
  /\ job' = [job EXCEPT ![j] = "none"]
  /\ UNCHANGED <<config, tries, ran, failures>>

JobExpires(j) ==
  /\ job[j] \in {"failed", "done"}
  /\ job' = [job EXCEPT ![j] = "none"]
  /\ UNCHANGED <<config, tries, ran, failures>>
================================================================================
