--------------------------- MODULE BackupProperties ---------------------------
(***************************************************************************)
(* What must be true of Backup: the promises of its jobs, of its services  *)
(* and of the data.                                                        *)
(***************************************************************************)
EXTENDS Backup

-----------------------------------------------------------------------------
(* Jobs                                                                    *)

Held == IF pc = "idle" THEN {} ELSE {frame.job, frame.rjob, frame.parent}

\* Live jobs of a service that the worker is not working on now.
Unattended(op, s) == JobsOf(jobs, op, s, LiveStatus) \ Held

\* Tasks of a kind for a service that are yet to look for their job: on the
\* queue, about to be put there, or just taken off it.
Coming(op, s) ==
    Cardinality({i \in DOMAIN queue : queue[i].kind = op /\ queue[i].svc = s})
    + (IF api.pc = "enqueue" /\ api.task.kind = op /\ api.task.svc = s THEN 1 ELSE 0)
    + (IF /\ pc \in {"find_backup", "find_restore"}
          /\ frame.kind = op /\ frame.svc = s /\ frame.rjob = NoJob THEN 1 ELSE 0)

\* Nobody waits in vain: for every backup or restore job a client still sees
\* as live there is a task that will end it, although tasks find their job by
\* type and may take each other's.  Only a crash can strand a job, one of each
\* type at most.  (get_job_by_type, add_backup_job, _ensure_queued_restore_job)
NoStrandedJob == \A s \in Services, op \in {"backup", "restore"} :
    Cardinality(Unattended(op, s)) =< Coming(op, s) + crashes

\* The job of a total backup or of an autobackup is carried by exactly its
\* task; without a crash it is live only while the task is.  (total_backup,
\* do_autobackup, back_up_multiple)
NoStrandedParent == \A j \in DOMAIN jobs :
    jobs[j].op \in {"total_backup", "autobackup"} /\ jobs[j].status \in LiveStatus =>
        \/ crashes > 0
        \/ j \in Held
        \/ api.pc = "enqueue" /\ api.task.job = j
        \/ \E i \in DOMAIN queue : queue[i].job = j

\* A job that says FINISHED tells the truth: a snapshot of that service was
\* made after the job was added, even when the worker took the job over for a
\* failsafe or an autobackup.  (back_up, get_backup_job)
FinishedBackupIsFresh ==
    [][\A j \in DOMAIN jobs \cap DOMAIN jobs' :
          /\ jobs[j].op = "backup"
          /\ jobs[j].status # "FINISHED" /\ jobs'[j].status = "FINISHED"
          => /\ frame.made \in Snapshots
             /\ frame.made.svc = jobs[j].svc
             /\ frame.made.id >= jobs[j].since]_vars

\* The jobs of Backup live by the rules that JobLifecycle promises, but for
\* rebuilds: when the API restarts it ends those behind the worker's back.
Promised == {j \in DOMAIN jobs : jobs[j].op # "rebuild"}

Lifecycle == INSTANCE JobLifecycle WITH
                 status <- [j \in Promised |-> jobs[j].status],
                 next   <- nextJob

LifecycleSpec == Lifecycle!Spec

-----------------------------------------------------------------------------
(* Services and data                                                       *)

Overwriting == {"await_failsafe", "wipe", "refill", "revert_error", "revert",
                "download", "overwrite", "post_restore"}

InBody == Overwriting \cup {"assert_dead", "start_service"}

\* Inside StoppedService the service is down, from assert_dead to the end of
\* the restore, unless a user starts it.  (StoppedService, assert_dead)
StoppedWhileRestored ==
    pc \in Overwriting /\ frame.svc # ConfigService => ~active[frame.svc]

StoppedUnlessStarted == "start" \notin Events => StoppedWhileRestored

\* An in-place restore wipes nothing that its failsafe snapshot does not hold,
\* and keeps that snapshot until the data is there again.  The configuration
\* is always in use and is left out.  (_inplace_restore, _prune_auto_snaps)
FailsafeCoversData ==
    /\ {"start", "forget"} \cap Events = {}
    /\ frame.kind = "restore" /\ frame.svc # ConfigService
    => /\ pc = "wipe" => frame.made.ver = data[frame.svc]
       /\ pc \in {"wipe", "refill", "revert_error", "revert"} =>
             /\ frame.made \in repo
             /\ frame.made.svc = frame.svc
             /\ frame.made.reason = "PRE_RESTORE"

-----------------------------------------------------------------------------
(* Progress                                                                *)

CONSTANT JobIds    \* the ids that an instance can reach

LiveJob(j) == j \in DOMAIN jobs /\ jobs[j].status \in LiveStatus

\* Nothing is promised of a rebuild, and a full restore without a snapshot of the
\* configuration leaves its job RUNNING.
Abandoned(j) ==
    /\ j \in DOMAIN jobs
    /\ \/ jobs[j].op = "rebuild"
       \/ jobs[j].op = "full_restore" /\ ConfigSnapshots = {}

\* Every other job that was accepted ends, or is removed: one that fails, one
\* whose task runs under another's job, one of many.  (the worker's loop)
EveryJobEnds == \A j \in JobIds : LiveJob(j) ~> (~LiveJob(j) \/ Abandoned(j))

\* A service the user wants running comes back.  (StoppedService.__aexit__)
EveryServiceReturns == \A s \in Services : up[s] ~> (active[s] \/ ~up[s])

=============================================================================
