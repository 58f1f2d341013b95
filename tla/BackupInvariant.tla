--------------------------- MODULE BackupInvariant ---------------------------
(***************************************************************************)
(* The inductive invariant of Backup: what the worker's stack, the jobs it *)
(* holds and the tasks in the queue have to do with one another.  TLC      *)
(* checks it on the small instances, BackupProofs proves it.               *)
(***************************************************************************)
EXTENDS BackupProperties

BackupLabels == {"find_backup", "add_backup", "run_backup", "progress", "upload",
                 "register", "finish_backup", "clear_failed", "backup_error"}

FailsafeLabels == {"await_failsafe", "wipe", "refill", "revert_error", "revert"}

RestoreLabels == FailsafeLabels \cup
    {"find_restore", "add_restore", "queue_restore", "check_restore",
     "stop_service", "assert_dead", "download", "overwrite", "post_restore",
     "start_service", "finish_restore", "restore_error"}

FullLabels == {"full_restore", "next_restore", "rebuild", "rebuild_end", "full_done"}

Several == {"total_backup", "autobackup", "full_restore"}

\* The label tells which task runs.
KindInv ==
    /\ pc = "idle" => frame = EmptyFrame
    /\ pc \in BackupLabels => frame.kind # "full_restore"
    /\ pc \in RestoreLabels => frame.kind \in {"restore", "full_restore"}
    /\ pc \in FailsafeLabels => frame.kind = "restore"
    /\ pc \in FullLabels => frame.kind = "full_restore"
    /\ pc \in {"autobackup", "pick_due"} => frame.kind = "autobackup"
    /\ pc \in {"run_parent", "next_backup"} => frame.kind \in {"total_backup", "autobackup"}
    /\ pc = "parent_error" => frame.kind \in Several
    /\ pc \in RestoreLabels /\ frame.kind = "full_restore" =>
          frame.strategy = "DOWNLOAD_VERIFY_OVERWRITE"

\* The locals hold what the label needs.
LocalsInv ==
    /\ pc \in BackupLabels \cup RestoreLabels => frame.svc \in Services
    /\ pc \in RestoreLabels \/ (pc \in BackupLabels /\ frame.kind = "restore") =>
          frame.snap \in Snapshots
    /\ pc \in {"register", "finish_backup", "clear_failed", "wipe", "refill",
               "revert_error", "revert"} => frame.made \in Snapshots
    /\ frame.kind \in {"total_backup", "autobackup"} => frame.todo \subseteq Services
    /\ frame.kind = "full_restore" => frame.todo \subseteq Snapshots

TaskOK(t) ==
    /\ t.kind \in {"backup", "restore"} => t.svc \in Services
    /\ t.kind = "restore" => t.snap \in Snapshots

QueueInv ==
    /\ api.pc # "idle" => TaskOK(api.task)
    /\ \A i \in 1 .. Len(queue) : TaskOK(queue[i])

\* The status the worker's restore job may have at a label, as long as the job
\* is there.
RestoreStatus ==
    CASE pc \in {"queue_restore", "check_restore"} -> LiveStatus
      [] pc \in BackupLabels \cup {"wipe"} -> {"CREATED"}
      [] pc = "revert" -> {"ERROR"}
      [] pc = "restore_error" -> {"CREATED", "RUNNING", "ERROR"}
      [] pc = "start_service" /\ frame.failed -> {"CREATED", "RUNNING", "ERROR"}
      [] OTHER -> {"RUNNING"}

\* The worker has found or added its restore job.
InRestore == /\ pc \in (RestoreLabels \ {"find_restore", "add_restore"}) \cup BackupLabels
             /\ frame.kind \in {"restore", "full_restore"}

\* The jobs the worker holds are of the right type and have not ended.
HeldBackup ==
    pc \in {"run_backup", "progress", "upload", "register", "finish_backup", "backup_error"}
    /\ frame.job \in DOMAIN jobs =>
       /\ jobs[frame.job].op = "backup"
       /\ jobs[frame.job].svc = frame.svc
       /\ jobs[frame.job].status \in (IF pc = "run_backup" THEN LiveStatus ELSE {"RUNNING"})

HeldRebuild ==
    pc \in {"rebuild", "rebuild_end"} /\ frame.job \in DOMAIN jobs =>
       jobs[frame.job].op = "rebuild"

HeldRestore ==
    InRestore /\ frame.rjob \in DOMAIN jobs =>
       /\ jobs[frame.rjob].op = "restore"
       /\ jobs[frame.rjob].status \in RestoreStatus

HeldParent ==
    frame.parent \in DOMAIN jobs =>
       /\ jobs[frame.parent].op \in Several
       /\ jobs[frame.parent].status =
             (IF pc \in {"run_parent", "full_restore"} THEN "CREATED" ELSE "RUNNING")

HeldInv == HeldBackup /\ HeldRebuild /\ HeldRestore /\ HeldParent

\* Ids are never ahead of the counter.
IdInv ==
    /\ frame.job < nextJob /\ frame.rjob < nextJob /\ frame.parent < nextJob
    /\ api.task.job < nextJob
    /\ \A i \in 1 .. Len(queue) : queue[i].job < nextJob
    /\ api.pc # "enqueue" => api.task.job = NoJob

\* The job of a task is its own, and waits with it.
OwnJobInv ==
    /\ \A i, k \in 1 .. Len(queue) :
          i # k => queue[i].job # queue[k].job \/ queue[i].job = NoJob
    /\ \A i \in 1 .. Len(queue) :
          queue[i].job # NoJob => queue[i].job \notin {api.task.job, frame.parent}
    /\ api.task.job # NoJob => api.task.job # frame.parent
    /\ \A i \in 1 .. Len(queue) :
          queue[i].kind \in Several /\ queue[i].job \in DOMAIN jobs =>
             /\ jobs[queue[i].job].op \in Several
             /\ jobs[queue[i].job].status = "CREATED"
    /\ api.task.kind \in Several /\ api.task.job \in DOMAIN jobs =>
          /\ jobs[api.task.job].op \in Several
          /\ jobs[api.task.job].status = "CREATED"

\* The body of StoppedService and the failsafe inside it see a stopped service.
StoppedInv ==
    /\ "start" \notin Events
    /\ frame.svc # ConfigService
    /\ pc \in Overwriting \/ (pc \in BackupLabels /\ frame.kind = "restore")
    => ~active[frame.svc]

\* From the upload of the failsafe on, it is in the repository; until the wipe it
\* holds what the service has.
FailsafeInv ==
    /\ {"start", "forget"} \cap Events = {}
    /\ frame.kind = "restore" /\ frame.svc # ConfigService
    => /\ pc \in {"register", "finish_backup", "clear_failed", "wipe"} =>
             frame.made.ver = data[frame.svc]
       /\ pc \in {"register", "finish_backup", "clear_failed",
                  "wipe", "refill", "revert_error", "revert"} =>
             /\ frame.made \in repo
             /\ frame.made.svc = frame.svc
             /\ frame.made.reason = "PRE_RESTORE"

\* What the worker does, and the jobs it holds while it does it.
WorkerInv == /\ TypeOK
             /\ KindInv
             /\ LocalsInv
             /\ QueueInv
             /\ HeldInv
             /\ IdInv
             /\ OwnJobInv
             /\ StoppedInv
             /\ FailsafeInv

\* The ids of jobs that the locals hold when no function is working on them are
\* of jobs that have ended.
EndedInv ==
    /\ pc \in {"find_backup", "add_backup"} => frame.job = NoJob
    /\ pc \in {"find_restore", "add_restore"} => frame.rjob = NoJob
    /\ pc \in {"find_restore", "add_restore", "queue_restore", "check_restore",
               "stop_service", "assert_dead", "await_failsafe"}
       /\ frame.kind = "restore" => frame.job = NoJob
    /\ pc \notin {"run_backup", "progress", "upload", "register", "finish_backup",
                  "backup_error"} /\ frame.job \in DOMAIN jobs =>
          jobs[frame.job].op = "rebuild" \/ jobs[frame.job].status \in TerminalStatus
    /\ ~InRestore /\ frame.rjob \in DOMAIN jobs =>
          /\ jobs[frame.rjob].op = "restore"
          /\ jobs[frame.rjob].status \in TerminalStatus
    /\ frame.kind \notin {"restore", "full_restore"} => frame.rjob = NoJob
    /\ InRestore => frame.rjob # NoJob

\* The job that a task carries is of the kind of the task; automatic_backup adds
\* its job itself, once it knows what is due.
CarriedInv ==
    /\ \A i \in 1 .. Len(queue) :
          /\ queue[i].job \in DOMAIN jobs => jobs[queue[i].job].op = queue[i].kind
          /\ queue[i].kind = "autobackup" => queue[i].job = NoJob
    /\ api.task.job \in DOMAIN jobs => jobs[api.task.job].op = api.task.kind
    /\ api.task.kind # "autobackup"
    /\ frame.parent \in DOMAIN jobs => jobs[frame.parent].op = frame.kind
    /\ frame.kind \in {"backup", "restore"} \/ pc \in {"autobackup", "pick_due"} =>
          frame.parent = NoJob

\* No job was added after snapshots that do not exist yet, and from the upload on
\* the snapshot is newer than the job it was made for.
FreshInv ==
    /\ \A j \in DOMAIN jobs : jobs[j].since =< nextSnap
    /\ pc \in {"register", "finish_backup"} =>
          /\ frame.made.svc = frame.svc
          /\ frame.job \in DOMAIN jobs => frame.made.id >= jobs[frame.job].since

IInv == /\ WorkerInv
        /\ EndedInv
        /\ CarriedInv
        /\ FreshInv
        /\ NoStrandedJob
        /\ NoStrandedParent
=============================================================================
