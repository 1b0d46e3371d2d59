----------------------------- MODULE Release_proofs -----------------------------
(***************************************************************************)
(* Proofs about the Chyt and Spyt reconcilers, for any bounds on edits,    *)
(* faults, stops and retries: types, the order of the init jobs, and what  *)
(* Finished means.                                                         *)
(***************************************************************************)
EXTENDS Release, TLAPS

\* TypeOK is inductive together with the types of what never changes.
TypeInv ==
  /\ TypeOK
  /\ kind \in {"chyt", "spyt"} /\ strawberry \in BOOLEAN
  /\ cache.makeDefault \in BOOLEAN

\* A condition, in the stored status and in the copy, and a job that is done,
\* stand for a script that has run.
Backed ==
  /\ cr.conditions \subseteq ran /\ cache.status.conditions \subseteq ran
  /\ \A j \in Jobs : job[j] = "done" => j \in ran

\* A copy that would be accepted is the stored resource; and after the release
\* has finished, the copy has nothing left to do, however old it is.
Settled ==
  /\ fresh => cache.makeDefault = spec /\ cache.status = cr
  /\ cr.release = "Finished" =>
       cache.status.release = "Finished" \/ (secret /\ Pending(cache) = {})

\* A job that has been created has its script; unless makeDefault was edited
\* since that was written, the script and every copy still to be read agree
\* with the spec, and what the script has done does.
Scripted ==
  /\ job["release"] = "active" => "release" \in config
  /\ "release" \in ran => "release" \in config
  /\ "release" \notin ran => ~made
  /\ "release" \in config /\ ~edited =>
       /\ script = spec /\ cache.makeDefault = spec
       /\ "release" \in ran => made = spec

\* The inductive invariant.
ReleaseInvariant == TypeInv /\ Backed /\ Settled /\ Scripted /\ JobsInOrder

-------------------------------------------------------------------------------
(* The jobs of a release.                                                  *)

\* doSync knows two lists of jobs for CHYT and one for SPYT.
LEMMA ListsOfJobs ==
  ASSUME NEW m
  PROVE \/ JobsOf(m) = <<"user", "release", "ch-public">>
        \/ JobsOf(m) = <<"user", "release">>
        \/ JobsOf(m) = <<"user", "spyt-environment">>
  BY DEF JobsOf, ChytJobs, SpytJobs

\* Every entry of a list is a job.
LEMMA ListsNameJobs ==
  ASSUME NEW m
  PROVE /\ Len(JobsOf(m)) \in Nat
        /\ \A i \in 1..Len(JobsOf(m)) : JobsOf(m)[i] \in Jobs
<1>1. \A i \in 1..3 : <<"user", "release", "ch-public">>[i] \in Jobs
  BY ReleaseAssumption
<1>2. \A i \in 1..2 : <<"user", "release">>[i] \in Jobs
  BY ReleaseAssumption
<1>3. \A i \in 1..2 : <<"user", "spyt-environment">>[i] \in Jobs
  BY ReleaseAssumption
<1> QED
  BY <1>1, <1>2, <1>3, ListsOfJobs

\* A job has the same predecessors in every list of a resource: an edit of
\* makeDefault only adds or drops the last one.
LEMMA SamePredecessors ==
  ASSUME NEW m, NEW k,
         NEW i \in 1..Len(JobsOf(m)), NEW h \in 1..Len(JobsOf(k)),
         JobsOf(m)[i] = JobsOf(k)[h]
  PROVE i = h /\ \A n \in 1..(i - 1) : JobsOf(m)[n] = JobsOf(k)[n]
<1>1. CASE kind = "chyt"
  BY <1>1 DEF JobsOf, ChytJobs
<1>2. CASE kind # "chyt"
  BY <1>2 DEF JobsOf, SpytJobs
<1> QED
  BY <1>1, <1>2

\* The jobs before the next one have their conditions.
LEMMA NextIsFirst ==
  ASSUME NEW v, NEW j, IsNext(v, j)
  PROVE /\ j \in Jobs /\ j \notin v.status.conditions
        /\ \E i \in 1..Len(JobsOf(v.makeDefault)) :
             /\ j = JobsOf(v.makeDefault)[i]
             /\ \A n \in 1..(i - 1) :
                  JobsOf(v.makeDefault)[n] \in v.status.conditions
<1>1. PICK i \in Pending(v) : /\ j = JobsOf(v.makeDefault)[i]
                              /\ \A n \in Pending(v) : i <= n
  BY DEF IsNext
<1>2. /\ Len(JobsOf(v.makeDefault)) \in Nat
      /\ \A n \in 1..Len(JobsOf(v.makeDefault)) : JobsOf(v.makeDefault)[n] \in Jobs
  BY ListsNameJobs
<1>3. i \in 1..Len(JobsOf(v.makeDefault)) /\ j \notin v.status.conditions
  BY <1>1 DEF Pending
<1>4. ASSUME NEW n \in 1..(i - 1)
      PROVE JobsOf(v.makeDefault)[n] \in v.status.conditions
  <2>1. n \in 1..Len(JobsOf(v.makeDefault)) /\ ~(i <= n)
    BY <1>2, <1>3
  <2> QED
    BY <1>1, <2>1 DEF Pending
<1> QED
  BY <1>1, <1>2, <1>3, <1>4

-------------------------------------------------------------------------------
(* Types.                                                                  *)

\* A release starts well typed.
LEMMA InitTyped == Init => TypeInv
<1> SUFFICES ASSUME Init PROVE TypeInv
  OBVIOUS
<1>1. /\ job \in [Jobs -> JobState] /\ config \subseteq Jobs /\ ran \subseteq Jobs
      /\ tries \in [Jobs -> 0..BackoffLimit] /\ failures \in 0..MaxFailures
  BY JobAssumption DEF Init, JobInit, JobState
<1>2. edits \in 0..MaxEdits /\ stops \in 0..MaxStops /\ faults \in 0..MaxFaults
  BY ReleaseAssumption DEF Init
<1>3. /\ spec \in BOOLEAN /\ secret \in BOOLEAN /\ fresh \in BOOLEAN
      /\ script \in BOOLEAN /\ made \in BOOLEAN /\ edited \in BOOLEAN
  BY Zenon DEF Init
<1>4. /\ cr.release = "None" /\ cr.conditions = {} /\ cache.status = cr
      /\ cache.makeDefault = spec
  BY DEF Init, Status
<1> QED
  BY <1>1, <1>2, <1>3, <1>4 DEF Init, TypeInv, TypeOK, ReleaseStatus

\* Saving a well-typed status keeps the stored one well typed.
LEMMA SavedTyped ==
  ASSUME TypeInv,
         NEW r \in ReleaseStatus, NEW C \in SUBSET Jobs, UpdateStatus(Status(r, C))
  PROVE /\ cr'.release \in ReleaseStatus /\ cr'.conditions \subseteq Jobs
        /\ fresh' \in BOOLEAN
<1>1. CASE cr' = Status(r, C) /\ fresh' = FALSE
  BY <1>1, Zenon DEF Status
<1>2. CASE UNCHANGED <<cr, fresh>>
  BY <1>2 DEF TypeInv, TypeOK
<1> QED
  BY <1>1, <1>2, Zenon DEF UpdateStatus

\* So do writing the release script and running it.
LEMMA ScriptTyped ==
  ASSUME TypeInv, NEW j,
         WriteScript(j) \/ RunScript(j) \/ UNCHANGED scripts
  PROVE script' \in BOOLEAN /\ made' \in BOOLEAN /\ edited' \in BOOLEAN
<1>1. /\ script \in BOOLEAN /\ made \in BOOLEAN /\ edited \in BOOLEAN
      /\ cache.makeDefault \in BOOLEAN
  BY DEF TypeInv, TypeOK
<1>2. CASE WriteScript(j)
  BY <1>1, <1>2, Zenon DEF WriteScript, scripts
<1>3. CASE RunScript(j)
  BY <1>1, <1>3, Zenon DEF RunScript
<1>4. CASE UNCHANGED scripts
  BY <1>1, <1>4 DEF scripts
<1> QED
  BY <1>2, <1>3, <1>4

\* What an init job goes through keeps its type.
LEMMA JobTyped ==
  ASSUME TypeInv, NEW j \in Jobs,
         \/ CreateConfig(j) \/ CreateJob(j) \/ AttemptFails(j)
         \/ JobSucceeds(j) \/ JobExpires(j)
  PROVE /\ job' \in [Jobs -> JobState] /\ config' \subseteq Jobs
        /\ ran' \subseteq Jobs /\ tries' \in [Jobs -> 0..BackoffLimit]
        /\ failures' \in 0..MaxFailures
<1> USE JobAssumption DEF TypeInv, TypeOK
<1>1. CASE CreateConfig(j)
  BY <1>1 DEF CreateConfig
<1>2. CASE CreateJob(j)
  BY <1>2 DEF CreateJob, JobState
<1>3. CASE AttemptFails(j)
  <2>1. failures' \in 0..MaxFailures /\ ran' \subseteq Jobs /\ config' \subseteq Jobs
    BY <1>3 DEF AttemptFails
  <2>2. tries[j] \in 0..BackoffLimit
    OBVIOUS
  <2>3. tries' \in [Jobs -> 0..BackoffLimit] /\ job' \in [Jobs -> JobState]
    BY <1>3, <2>2 DEF AttemptFails, JobState
  <2> QED
    BY <2>1, <2>3
<1>4. CASE JobSucceeds(j)
  BY <1>4 DEF JobSucceeds, JobState
<1>5. CASE JobExpires(j)
  BY <1>5 DEF JobExpires, JobState
<1> QED
  BY <1>1, <1>2, <1>3, <1>4, <1>5

\* Every step keeps the types.
LEMMA StepTyped == TypeInv /\ [Next]_vars => TypeInv'
<1> SUFFICES ASSUME TypeInv, [Next]_vars PROVE TypeInv'
  OBVIOUS
<1> USE ReleaseAssumption DEF vars, own, scripts, environment, jobVars
<1>1. CASE CreateSecret
  BY <1>1, SavedTyped DEF CreateSecret, TypeInv, TypeOK, ReleaseStatus
<1>2. CASE SyncJob
  <2>1. PICK j \in Jobs :
          \/ /\ CreateJob(j) /\ WriteScript(j)
             /\ UpdateStatus(Status(Stage(j), cache.status.conditions))
          \/ /\ UpdateStatus(Status(Stage(j), cache.status.conditions \cup {j}))
             /\ UNCHANGED <<jobVars, scripts>>
    BY <1>2, Zenon DEF SyncJob
  <2>2. Stage(j) \in ReleaseStatus
    BY DEF Stage, ReleaseStatus
  <2>3. /\ cr'.release \in ReleaseStatus /\ cr'.conditions \subseteq Jobs
        /\ fresh' \in BOOLEAN
    BY <2>1, <2>2, SavedTyped DEF TypeInv, TypeOK
  <2> QED
    BY <1>2, <2>1, <2>3, JobTyped, ScriptTyped DEF SyncJob, TypeInv, TypeOK
<1>3. CASE Finish
  BY <1>3, SavedTyped DEF Finish, TypeInv, TypeOK, ReleaseStatus
<1>4. CASE Fail
  <2>1. faults' \in 0..MaxFaults
    BY <1>4 DEF Fail, TypeInv, TypeOK
  <2> QED
    BY <1>4, <2>1, JobTyped, ScriptTyped, Zenon DEF Fail, TypeInv, TypeOK
<1>5. CASE Deliver \/ DeliverCluster
  <2>1. CASE Deliver
    <3>1. /\ cache'.makeDefault = spec /\ cache'.status = cr /\ fresh' = TRUE
          /\ UNCHANGED <<jobVars, kind, strawberry, spec, cr, secret, scripts,
                         environment>>
      BY <2>1 DEF Deliver
    <3> QED
      BY <3>1 DEF TypeInv, TypeOK
  <2>2. CASE DeliverCluster
    BY <2>2 DEF DeliverCluster, TypeInv, TypeOK
  <2> QED
    BY <1>5, <2>1, <2>2
<1>6. CASE EditMakeDefault
  <2>1. edits' \in 0..MaxEdits
    BY <1>6 DEF EditMakeDefault, TypeInv, TypeOK
  <2>2. spec' \in BOOLEAN /\ fresh' \in BOOLEAN /\ edited' \in BOOLEAN
    BY <1>6, Zenon DEF EditMakeDefault, TypeInv, TypeOK
  <2> QED
    BY <1>6, <2>1, <2>2 DEF EditMakeDefault, TypeInv, TypeOK
<1>7. CASE ClusterStops \/ ClusterRuns
  BY <1>7 DEF ClusterStops, ClusterRuns, TypeInv, TypeOK
<1>8. CASE \E j \in Jobs : Attempt(j) \/ Succeed(j) \/ Expire(j)
  BY <1>8, JobTyped, ScriptTyped DEF Attempt, Succeed, Expire, TypeInv, TypeOK
<1>9. CASE \E j \in Jobs : ExpireUnseen(j)
  BY <1>9, JobTyped DEF ExpireUnseen, TypeInv, TypeOK
<1>10. CASE UNCHANGED vars
  BY <1>10 DEF TypeInv, TypeOK
<1> QED
  BY <1>1, <1>2, <1>3, <1>4, <1>5, <1>6, <1>7, <1>8, <1>9, <1>10 DEF Next

-------------------------------------------------------------------------------
(* The order of the jobs.                                                  *)

\* The lists depend on the resource alone.
LEMMA SameLists ==
  ASSUME UNCHANGED <<kind, strawberry>>
  PROVE \A m : JobsOf(m)' = JobsOf(m)
  BY DEF JobsOf, ChytJobs, SpytJobs

\* A step that creates no job and takes nothing back keeps the order.
LEMMA OrderKept ==
  ASSUME JobsInOrder, UNCHANGED <<kind, strawberry>>,
         secret => secret', ran \subseteq ran',
         \A j \in Jobs : job'[j] # "none" => job[j] # "none"
  PROVE JobsInOrder'
<1> SUFFICES ASSUME NEW m \in BOOLEAN, NEW i \in 1..Len(JobsOf(m)),
                    job'[JobsOf(m)[i]] # "none"
             PROVE secret' /\ \A n \in 1..(i - 1) : JobsOf(m)[n] \in ran'
  BY SameLists DEF JobsInOrder
<1>1. JobsOf(m)[i] \in Jobs
  BY ListsNameJobs
<1>2. secret /\ \A n \in 1..(i - 1) : JobsOf(m)[n] \in ran
  BY <1>1 DEF JobsInOrder
<1> QED
  BY <1>2

\* InitJob.Sync creates a job only after the scripts before it have run: the
\* copy it reads says so, and no copy says more than has happened.
LEMMA OrderCreated ==
  ASSUME TypeInv, Backed, JobsInOrder, secret, UNCHANGED <<kind, strawberry, secret>>,
         NEW j \in Jobs, IsNext(cache, j), CreateJob(j)
  PROVE JobsInOrder'
<1> SUFFICES ASSUME NEW m \in BOOLEAN, NEW i \in 1..Len(JobsOf(m)),
                    job'[JobsOf(m)[i]] # "none"
             PROVE secret' /\ \A n \in 1..(i - 1) : JobsOf(m)[n] \in ran'
  BY SameLists DEF JobsInOrder
<1>1. JobsOf(m)[i] \in Jobs
  BY ListsNameJobs
<1>2. CASE JobsOf(m)[i] # j
  <2>1. job[JobsOf(m)[i]] # "none"
    BY <1>1, <1>2 DEF CreateJob, TypeInv, TypeOK
  <2> QED
    BY <2>1 DEF JobsInOrder, CreateJob
<1>3. CASE JobsOf(m)[i] = j
  <2>1. PICK h \in 1..Len(JobsOf(cache.makeDefault)) :
          /\ j = JobsOf(cache.makeDefault)[h]
          /\ \A n \in 1..(h - 1) :
               JobsOf(cache.makeDefault)[n] \in cache.status.conditions
    BY NextIsFirst
  <2>2. i = h /\ \A n \in 1..(i - 1) : JobsOf(m)[n] = JobsOf(cache.makeDefault)[n]
    BY <1>3, <2>1, SamePredecessors
  <2> QED
    BY <2>1, <2>2 DEF Backed, CreateJob
<1> QED
  BY <1>2, <1>3

-------------------------------------------------------------------------------
(* The invariant.                                                          *)

\* A release starts with nothing done.
LEMMA InitInvariant == Init => ReleaseInvariant
<1> SUFFICES ASSUME Init PROVE ReleaseInvariant
  OBVIOUS
<1>1. TypeInv
  BY InitTyped
<1>2. Backed /\ Settled /\ Scripted
  BY ReleaseAssumption DEF Init, JobInit, Status, Backed, Settled, Scripted
<1>3. JobsInOrder
  <2>1. \A j \in Jobs : job[j] = "none"
    BY Zenon DEF Init, JobInit
  <2> QED
    BY <2>1, ListsNameJobs DEF JobsInOrder
<1> QED
  BY <1>1, <1>2, <1>3 DEF ReleaseInvariant

\* A status is saved only over the one it was computed from, so a finished
\* release stays as it is.
LEMMA SavedSettled ==
  ASSUME Settled, Working, UNCHANGED <<kind, strawberry, spec, cache>>,
         secret => secret', NEW r, NEW C, UpdateStatus(Status(r, C)),
         r = "Finished" => secret' /\ Pending(cache) = {}
  PROVE Settled' /\ (cr.release = "Finished" => cr' = cr)
<1>1. fresh => cr.release # "Finished"
  BY DEF Settled, Working
<1>2. Pending(cache)' = Pending(cache)
  BY SameLists DEF Pending
<1>3. CASE fresh /\ cr' = Status(r, C) /\ fresh' = FALSE
  BY <1>1, <1>2, <1>3 DEF Settled, Status
<1>4. CASE UNCHANGED <<cr, fresh>>
  BY <1>2, <1>4 DEF Settled
<1> QED
  BY <1>3, <1>4, Zenon DEF UpdateStatus

\* A step that leaves the status and its copy alone keeps them settled.
LEMMA SettledKept ==
  ASSUME Settled, UNCHANGED <<kind, strawberry, spec, cr, cache, fresh>>,
         secret => secret'
  PROVE Settled'
<1>1. Pending(cache)' = Pending(cache)
  BY SameLists DEF Pending
<1> QED
  BY <1>1 DEF Settled

\* A condition is saved for a job that is done, whose script has run.
LEMMA SavedBacked ==
  ASSUME Backed, UNCHANGED cache, ran \subseteq ran',
         \A j \in Jobs : job'[j] = "done" => job[j] = "done",
         NEW r, NEW C, C \subseteq ran, UpdateStatus(Status(r, C))
  PROVE Backed'
<1>1. cr'.conditions \subseteq ran
  BY DEF Backed, UpdateStatus, Status
<1> QED
  BY <1>1 DEF Backed

\* What happens to a job outside the operator takes no script back.
LEMMA JobBacked ==
  ASSUME TypeInv, Backed, UNCHANGED <<cr, cache>>, NEW j \in Jobs,
         \/ CreateConfig(j) \/ CreateJob(j) \/ AttemptFails(j)
         \/ JobSucceeds(j) \/ JobExpires(j)
  PROVE Backed'
<1> USE DEF Backed, TypeInv, TypeOK
<1>1. CASE CreateConfig(j)
  BY <1>1 DEF CreateConfig
<1>2. CASE CreateJob(j)
  BY <1>2 DEF CreateJob
<1>3. CASE AttemptFails(j)
  <2>1. /\ ran \subseteq ran'
        /\ \A k \in Jobs : job'[k] = "done" => job[k] = "done"
    BY <1>3 DEF AttemptFails
  <2> QED
    BY <2>1
<1>4. CASE JobSucceeds(j)
  BY <1>4 DEF JobSucceeds
<1>5. CASE JobExpires(j)
  BY <1>5 DEF JobExpires
<1> QED
  BY <1>1, <1>2, <1>3, <1>4, <1>5

\* Nor does it make a job that was not there.
LEMMA JobOrder ==
  ASSUME TypeInv, JobsInOrder, UNCHANGED <<kind, strawberry, secret>>,
         NEW j \in Jobs,
         CreateConfig(j) \/ AttemptFails(j) \/ JobSucceeds(j) \/ JobExpires(j)
  PROVE JobsInOrder'
<1>1. ran \subseteq ran' /\ \A k \in Jobs : job'[k] # "none" => job[k] # "none"
  <2> USE DEF TypeInv, TypeOK
  <2>1. CASE CreateConfig(j)
    BY <2>1 DEF CreateConfig
  <2>2. CASE AttemptFails(j)
    BY <2>2 DEF AttemptFails
  <2>3. CASE JobSucceeds(j)
    BY <2>3 DEF JobSucceeds
  <2>4. CASE JobExpires(j)
    BY <2>4 DEF JobExpires
  <2> QED
    BY <2>1, <2>2, <2>3, <2>4
<1> QED
  BY <1>1, OrderKept

\* A release script is written once, from the spec as the copy shows it.
LEMMA WrittenScripted ==
  ASSUME TypeInv, Scripted, UNCHANGED <<spec, cache>>, NEW j \in Jobs,
         CreateConfig(j) \/ CreateJob(j), WriteScript(j)
  PROVE Scripted'
<1>1. /\ ran' = ran /\ config' = config \cup {j}
      /\ \A k \in Jobs : job'[k] = "active" => job[k] = "active" \/ k = j
  BY DEF CreateConfig, CreateJob, TypeInv, TypeOK
<1>2. CASE j # "release"
  BY <1>1, <1>2, ReleaseAssumption DEF WriteScript, Scripted, scripts
<1>3. CASE j = "release" /\ j \in config
  <2>1. made' = made /\ edited' = edited /\ script' \in {script, cache.makeDefault}
    BY <1>3 DEF WriteScript
  <2> QED
    BY <1>1, <1>3, <2>1 DEF Scripted
<1>4. CASE j = "release" /\ j \notin config
  <2>1. /\ made' = made /\ script' = cache.makeDefault
        /\ edited' = (cache.makeDefault # spec)
    BY <1>4 DEF WriteScript
  <2> QED
    BY <1>1, <1>4, <2>1, Zenon DEF Scripted
<1> QED
  BY <1>2, <1>3, <1>4

\* It makes CHYT the default just if it says so, however often it runs.
LEMMA RunScripted ==
  ASSUME TypeInv, Scripted, UNCHANGED <<spec, cache, config>>, NEW j \in Jobs,
         job[j] = "active", job'["release"] = "active" => job["release"] = "active",
         ran' = ran \cup {j}, RunScript(j)
  PROVE Scripted'
<1>1. /\ made' = (made \/ (j = "release" /\ script))
      /\ script' = script /\ edited' = edited
  BY DEF RunScript
<1>2. made \in BOOLEAN /\ script \in BOOLEAN /\ spec \in BOOLEAN
  BY DEF TypeInv, TypeOK
<1>3. CASE j # "release"
  <2>1. made' = made
    BY <1>1, <1>2, <1>3
  <2> QED
    BY <1>1, <1>3, <2>1 DEF Scripted
<1>4. CASE j = "release"
  <2>1. "release" \in config /\ "release" \in ran'
    BY <1>4 DEF Scripted
  <2>2. ASSUME ~edited PROVE made' = spec
    BY <1>1, <1>2, <1>4, <2>1, <2>2 DEF Scripted
  <2> QED
    BY <1>1, <2>1, <2>2 DEF Scripted
<1> QED
  BY <1>3, <1>4

\* A step that runs no script, makes no job and edits nothing keeps it.
LEMMA ScriptedKept ==
  ASSUME Scripted, UNCHANGED <<spec, config, ran, scripts>>,
         UNCHANGED cache \/ cache'.makeDefault = spec,
         job'["release"] = "active" => job["release"] = "active"
  PROVE Scripted'
  BY DEF Scripted, scripts

\* Every step keeps the invariant.
LEMMA StepInvariant == ReleaseInvariant /\ [Next]_vars => ReleaseInvariant'
<1> SUFFICES ASSUME ReleaseInvariant, [Next]_vars
             PROVE Backed' /\ Settled' /\ Scripted' /\ JobsInOrder'
  BY StepTyped DEF ReleaseInvariant
<1> USE DEF ReleaseInvariant, vars, own, environment, jobVars
<1>1. ASSUME UNCHANGED <<jobVars, kind, strawberry, secret>> PROVE JobsInOrder'
  BY <1>1, OrderKept
<1>0. ASSUME UNCHANGED <<spec, cache, scripts, jobVars>> PROVE Scripted'
  BY <1>0, ScriptedKept
<1>2. ASSUME UNCHANGED <<kind, strawberry, spec, cr, cache, fresh, secret>>
      PROVE Settled'
  BY <1>2, SettledKept
<1>3. CASE CreateSecret
  <2>1. cache.status.conditions \subseteq ran
    BY DEF Backed
  <2>2. Settled' /\ Backed'
    BY <1>3, <2>1, SavedSettled, SavedBacked DEF CreateSecret
  <2>3. JobsInOrder' /\ Scripted'
    BY <1>0, <1>3, OrderKept DEF CreateSecret
  <2> QED
    BY <2>2, <2>3
<1>4. CASE SyncJob
  <2>1. PICK j \in Jobs :
          /\ IsNext(cache, j)
          /\ \/ /\ CreateJob(j) /\ WriteScript(j)
                /\ UpdateStatus(Status(Stage(j), cache.status.conditions))
             \/ /\ InitJobStatus(cache.status.conditions, j) = "Complete"
                /\ UpdateStatus(Status(Stage(j), cache.status.conditions \cup {j}))
                /\ UNCHANGED <<jobVars, scripts>>
    BY <1>4, Zenon DEF SyncJob
  <2>2. Stage(j) # "Finished"
    BY DEF Stage
  <2>3. Working /\ secret /\ UNCHANGED <<kind, strawberry, spec, cache, secret>>
    BY <1>4 DEF SyncJob
  <2>4. Settled'
    BY <2>1, <2>2, <2>3, SavedSettled
  <2>5. CASE /\ CreateJob(j) /\ WriteScript(j)
             /\ UpdateStatus(Status(Stage(j), cache.status.conditions))
    <3>1. ran' = ran /\ \A k \in Jobs : job'[k] = "done" => job[k] = "done"
      BY <2>5 DEF CreateJob, TypeInv, TypeOK
    <3>2. Backed'
      BY <2>3, <2>5, <3>1, SavedBacked DEF Backed
    <3>3. Scripted'
      BY <2>3, <2>5, WrittenScripted
    <3> QED
      BY <2>1, <2>3, <2>4, <2>5, <3>2, <3>3, OrderCreated
  <2>6. CASE /\ InitJobStatus(cache.status.conditions, j) = "Complete"
             /\ UpdateStatus(Status(Stage(j), cache.status.conditions \cup {j}))
             /\ UNCHANGED <<jobVars, scripts>>
    <3>1. job[j] = "done"
      BY <2>6 DEF InitJobStatus
    <3>2. cache.status.conditions \cup {j} \subseteq ran
      BY <3>1 DEF Backed
    <3>3. Backed'
      BY <2>3, <2>6, <3>2, SavedBacked
    <3> QED
      BY <1>0, <1>1, <2>3, <2>4, <2>6, <3>3
  <2> QED
    BY <2>1, <2>5, <2>6
<1>5. CASE Finish
  <2>1. cache.status.conditions \subseteq ran
    BY DEF Backed
  <2>2. Settled' /\ Backed'
    BY <1>5, <2>1, SavedSettled, SavedBacked DEF Finish
  <2> QED
    BY <1>0, <1>1, <1>5, <2>2 DEF Finish
<1>6. CASE Fail
  <2>1. UNCHANGED <<kind, strawberry, spec, cr, cache, fresh>>
    BY <1>6 DEF Fail
  <2>2. CASE secret' = TRUE /\ UNCHANGED <<jobVars, scripts>>
    BY <1>0, <2>1, <2>2, OrderKept, SettledKept DEF Backed
  <2>3. CASE /\ secret /\ UNCHANGED secret
             /\ \E j \in Jobs : /\ IsNext(cache, j) /\ WriteScript(j)
                                /\ CreateConfig(j) \/ CreateJob(j)
    BY <1>2, <2>1, <2>3, JobBacked, JobOrder, OrderCreated, WrittenScripted
  <2> QED
    BY <1>6, <2>2, <2>3, Zenon DEF Fail
<1>7. CASE Deliver
  <2>1. cache' = [makeDefault |-> spec, status |-> cr]
        /\ UNCHANGED <<jobVars, kind, strawberry, spec, cr, secret, scripts>>
    BY <1>7 DEF Deliver
  <2>2. Settled' /\ Backed' /\ Scripted'
    BY <2>1, ScriptedKept DEF Settled, Backed
  <2> QED
    BY <1>1, <2>1, <2>2
<1>8. CASE DeliverCluster \/ ClusterStops \/ ClusterRuns \/ UNCHANGED vars
  BY <1>0, <1>1, <1>2, <1>8 DEF DeliverCluster, ClusterStops, ClusterRuns, Backed
<1>9. CASE EditMakeDefault
  <2>1. /\ fresh' = FALSE
        /\ UNCHANGED <<jobVars, kind, strawberry, cr, cache, secret>>
    BY <1>9 DEF EditMakeDefault
  <2>2. Pending(cache)' = Pending(cache)
    BY <2>1, SameLists DEF Pending
  <2>3. Scripted'
    BY <1>9, Zenon DEF EditMakeDefault, Scripted, jobVars
  <2> QED
    BY <1>1, <2>1, <2>2, <2>3 DEF Settled, Backed
<1>10. CASE \E j \in Jobs : \/ Attempt(j) \/ Succeed(j)
                            \/ Expire(j) \/ ExpireUnseen(j)
  <2>1. PICK j \in Jobs : /\ AttemptFails(j) \/ JobSucceeds(j) \/ JobExpires(j)
                          /\ UNCHANGED own
                          /\ \/ ran' = ran \cup {j} /\ RunScript(j) /\ job[j] = "active"
                             \/ UNCHANGED <<ran, scripts>>
    BY <1>10 DEF Attempt, Succeed, Expire, ExpireUnseen, AttemptFails,
                 JobSucceeds, JobExpires
  <2>2. /\ config' = config
        /\ \A k \in Jobs : job'[k] = "active" => job[k] = "active"
    BY <2>1 DEF AttemptFails, JobSucceeds, JobExpires, TypeInv, TypeOK
  <2>3. Scripted'
    BY <2>1, <2>2, RunScripted, ScriptedKept, ReleaseAssumption
  <2> QED
    BY <1>2, <2>1, <2>3, JobBacked, JobOrder
<1> QED
  BY <1>3, <1>4, <1>5, <1>6, <1>7, <1>8, <1>9, <1>10 DEF Next

\* The invariant holds in every behaviour of the reconcilers.
LEMMA AlwaysInvariant == Spec => []ReleaseInvariant
  BY InitInvariant, StepInvariant, PTL DEF Spec

\* Types are kept, whatever the bounds.
THEOREM TypeCorrect == Spec => []TypeOK
<1>1. ReleaseInvariant => TypeOK
  BY DEF ReleaseInvariant, TypeInv
<1> QED
  BY <1>1, AlwaysInvariant, PTL

\* No init job of a release exists before the secret does and the scripts it
\* builds on have run, although InitJob.Sync decides from a copy of the status
\* that may be old, jobs fail and expire, and the user edits makeDefault.
THEOREM InOrder == Spec => []JobsInOrder
<1>1. ReleaseInvariant => JobsInOrder
  BY DEF ReleaseInvariant
<1> QED
  BY <1>1, AlwaysInvariant, PTL

\* A reconciler that still works on a finished release finds nothing to do.
LEMMA NothingLeft ==
  ASSUME Settled, Working, cr.release = "Finished"
  PROVE secret /\ \A j : ~IsNext(cache, j)
  BY DEF Settled, Working, IsNext

\* Finished is saved only from the copy that is the stored resource, when each
\* of its jobs has its condition.
LEMMA FinishedNow ==
  ASSUME ReleaseInvariant, Next,
         cr'.release = "Finished", cr.release # "Finished"
  PROVE /\ \A i \in 1..Len(JobsOf(spec)) : JobsOf(spec)[i] \in ran
        /\ kind = "chyt" /\ ~edited => made = spec
<1> USE DEF ReleaseInvariant, own
<1>1. ASSUME NEW r, NEW C, UpdateStatus(Status(r, C)) PROVE r = "Finished" /\ fresh
  BY <1>1 DEF UpdateStatus, Status
<1>2. CASE CreateSecret
  BY <1>1, <1>2 DEF CreateSecret
<1>3. CASE SyncJob
  <2>1. \A j : Stage(j) # "Finished"
    BY DEF Stage
  <2> QED
    BY <1>1, <1>3, <2>1 DEF SyncJob
<1>4. CASE Finish
  <2>1. fresh /\ Pending(cache) = {}
    BY <1>1, <1>4 DEF Finish
  <2>2. cache.makeDefault = spec /\ cache.status.conditions \subseteq ran
    BY <2>1 DEF Settled, Backed
  <2>3. \A i \in 1..Len(JobsOf(spec)) : JobsOf(spec)[i] \in ran
    BY <2>1, <2>2 DEF Pending
  <2>4. kind = "chyt" => "release" \in ran
    <3>1. kind = "chyt" => 2 \in 1..Len(JobsOf(spec)) /\ JobsOf(spec)[2] = "release"
      BY DEF JobsOf, ChytJobs
    <3> QED
      BY <2>3, <3>1
  <2> QED
    BY <2>3, <2>4 DEF Scripted
<1>5. CASE Fail \/ Deliver \/ DeliverCluster \/ EditMakeDefault
           \/ ClusterStops \/ ClusterRuns
  BY <1>5 DEF Fail, Deliver, DeliverCluster, EditMakeDefault, ClusterStops, ClusterRuns
<1>6. CASE \E j \in Jobs : \/ Attempt(j) \/ Succeed(j)
                           \/ Expire(j) \/ ExpireUnseen(j)
  BY <1>6 DEF Attempt, Succeed, Expire, ExpireUnseen
<1> QED
  BY <1>2, <1>3, <1>4, <1>5, <1>6 DEF Next

\* Once it is, no reconcile changes the status or creates a job.
LEMMA FinishedStays ==
  ASSUME ReleaseInvariant, Next, cr.release = "Finished"
  PROVE cr' = cr /\ \A j \in Jobs : job'[j] = "active" => job[j] = "active"
<1> USE DEF ReleaseInvariant, own, jobVars
<1>1. CASE CreateSecret
  BY <1>1, NothingLeft DEF CreateSecret
<1>2. CASE SyncJob
  BY <1>2, NothingLeft DEF SyncJob
<1>3. CASE Finish
  BY <1>3, SavedSettled DEF Finish
<1>4. CASE Fail
  BY <1>4, NothingLeft DEF Fail
<1>5. CASE Deliver \/ DeliverCluster \/ EditMakeDefault \/ ClusterStops \/ ClusterRuns
  BY <1>5 DEF Deliver, DeliverCluster, EditMakeDefault, ClusterStops, ClusterRuns
<1>6. CASE \E k \in Jobs : \/ Attempt(k) \/ Succeed(k)
                           \/ Expire(k) \/ ExpireUnseen(k)
  <2>1. PICK k \in Jobs : /\ AttemptFails(k) \/ JobSucceeds(k) \/ JobExpires(k)
                          /\ UNCHANGED own
    BY <1>6 DEF Attempt, Succeed, Expire, ExpireUnseen
  <2>2. CASE AttemptFails(k)
    BY <2>1, <2>2 DEF AttemptFails, TypeInv, TypeOK
  <2>3. CASE JobSucceeds(k) \/ JobExpires(k)
    BY <2>1, <2>3 DEF JobSucceeds, JobExpires, TypeInv, TypeOK
  <2> QED
    BY <2>1, <2>2, <2>3
<1> QED
  BY <1>1, <1>2, <1>3, <1>4, <1>5, <1>6 DEF Next

\* A Chyt or Spyt resource is called Finished only when every job its spec asks
\* for at that moment has run, the release script with --make-default just if
\* the spec says so or was edited after the script was written; and it is then
\* left alone: a reconcile on an old copy neither overwrites the status nor
\* starts a job again.
THEOREM FinishedIsReleased == Spec => FinishedMeansReleased
<1>1. ReleaseInvariant /\ [Next]_vars =>
        [/\ cr'.release = "Finished" /\ cr.release # "Finished" =>
              /\ \A i \in 1..Len(JobsOf(spec)) : JobsOf(spec)[i] \in ran
              /\ kind = "chyt" /\ ~edited => made = spec
         /\ cr.release = "Finished" =>
              /\ cr' = cr
              /\ \A j \in Jobs : job'[j] = "active" => job[j] = "active"]_vars
  BY FinishedNow, FinishedStays
<1> QED
  BY <1>1, AlwaysInvariant, PTL DEF Spec, FinishedMeansReleased
================================================================================
