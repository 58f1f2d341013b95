-------------------------------- MODULE Backup --------------------------------
(***************************************************************************)
(* Backups and restores of SelfPrivacy services.                           *)
(*                                                                         *)
(* Actors:                                                                 *)
(*   - the API process, one asyncio thread: a mutation checks the jobs in  *)
(*     Redis, adds a job, and puts a task on the huey queue                *)
(*     (graphql/mutations/backup_mutations.py, job_mutations.py);          *)
(*   - the huey worker, one process that takes tasks in FIFO order and     *)
(*     runs each to its end (backup/tasks.py, backup/__init__.py); a task  *)
(*     is off the queue once it started, so a crash loses it;              *)
(*   - the services, stopped and started by the worker and by the user,    *)
(*     writing to their data while they run;                               *)
(*   - the repository of snapshots.                                        *)
(*                                                                         *)
(* An action of the worker is one call whose effect the other actors can   *)
(* see (a job update, a stop, an upload), so that they interleave between  *)
(* any two of them.  An exception is a disjunct of the action that may     *)
(* raise it.                                                               *)
(***************************************************************************)
EXTENDS JobTable, Sequences, FiniteSets

CONSTANTS
    Services,       \* ids of the services
    ConfigService,  \* the API itself: always active, restored last
    None,           \* no service, no snapshot
    Events,         \* what may happen outside the worker, a subset of AllEvents
    MaxRequests,    \* bound: how many such events
    MaxCrashes,     \* bound: how many crashes of either process
    MaxClock        \* bound: versions of the services' data

AllEvents ==
    {"backup", "restore", "total_backup", "full_restore", "autobackup",
     "remove", "expire", "period", "start", "stop", "forget", "timeout", "prune"}

ASSUME ConfigAssumption == ConfigService \in Services /\ None \notin Services
ASSUME EventsAssumption == Events \subseteq AllEvents
ASSUME BoundsAssumption ==
    MaxRequests \in Nat /\ MaxCrashes \in Nat /\ MaxClock \in Nat \ {0}

VARIABLES
    jobs, nextJob,     \* the table of jobs; the next id
    queue,             \* the huey queue
    api,               \* the mutation in progress between its awaits
    pc, frame,         \* where the worker is, and the locals of its task
    repo, nextSnap,    \* the snapshots; the next snapshot id
    active, up,        \* services that run; services the user wants running
    data, clock,       \* version of each service's data; newest version
    period, chosen,    \* is autobackup on; what the user last asked for
    requests, crashes  \* how many events and crashes so far

jobVars  == <<jobs, nextJob>>
workVars == <<pc, frame>>
repoVars == <<repo, nextSnap>>
svcVars  == <<active, up, data, clock>>
setVars  == <<period, chosen>>
countVars == <<requests, crashes>>
vars == <<jobVars, queue, api, workVars, repoVars, svcVars, setVars, countVars>>

\* All that an action of the worker leaves alone unless it says otherwise.
outside   == <<queue, api, repoVars, svcVars, setVars, countVars>>
notActive == <<queue, api, repoVars, up, data, clock, setVars, countVars>>
notData   == <<queue, api, repoVars, active, up, clock, setVars, countVars>>

-----------------------------------------------------------------------------
(* Types                                                                   *)

Kinds == {"backup", "restore", "total_backup", "autobackup", "full_restore"}
Ops   == Kinds \cup {"rebuild"}
Strategies == {"INPLACE", "DOWNLOAD_VERIFY_OVERWRITE"}
Reasons    == {"EXPLICIT", "AUTO", "PRE_RESTORE"}

\* Data that is wiped or half restored has version Damaged.
Damaged == 0

Snapshots == [id : Nat, svc : Services, ver : Nat, reason : Reasons]

\* `about` is the snapshot a restore job names in its description; `since` is
\* history: snapshots with a smaller id were made before the job was added.
JobRecords == [op : Ops, svc : Services \cup {None}, status : Status,
               about : Nat, since : Nat]

Tasks == [kind : Kinds, svc : Services \cup {None},
          snap : Snapshots \cup {None}, strategy : Strategies, job : Nat]

NoTask == [kind |-> "backup", svc |-> None, snap |-> None,
           strategy |-> "INPLACE", job |-> NoJob]

\* The locals of the functions on the worker's stack.
Frames == [kind : Kinds,                     \* the task
           svc : Services \cup {None},       \* back_up's or restore_snapshot's service
           snap : Snapshots \cup {None},     \* restore_snapshot's snapshot
           strategy : Strategies,
           parent : Nat,                     \* job of a task over several services
           todo : SUBSET (Services \cup Snapshots),
           job : Nat,                        \* back_up's job
           rjob : Nat,                       \* restore_snapshot's job
           made : Snapshots \cup {None},     \* what back_up returned
           was : BOOLEAN,                    \* StoppedService.original_status
           failed : BOOLEAN,                 \* an exception leaves the context manager
           disabled : BOOLEAN]               \* backups_were_disabled

EmptyFrame == [kind |-> "backup", svc |-> None, snap |-> None,
               strategy |-> "INPLACE", parent |-> NoJob, todo |-> {},
               job |-> NoJob, rjob |-> NoJob, made |-> None,
               was |-> FALSE, failed |-> FALSE, disabled |-> FALSE]

Labels == {"idle",
    "autobackup", "pick_due", "run_parent", "next_backup", "parent_error",
    "find_backup", "add_backup", "run_backup", "progress", "upload",
    "register", "finish_backup", "clear_failed", "backup_error",
    "full_restore", "next_restore", "rebuild", "rebuild_end", "full_done",
    "find_restore", "add_restore", "queue_restore", "check_restore",
    "stop_service", "assert_dead", "await_failsafe", "wipe", "refill",
    "revert_error", "revert", "download", "overwrite", "post_restore",
    "start_service", "finish_restore", "restore_error"}

JobsType == /\ DOMAIN jobs \subseteq 1 .. nextJob - 1
            /\ \A j \in DOMAIN jobs : jobs[j] \in JobRecords
            /\ nextJob \in Nat \ {0}

TasksType == /\ queue \in Seq(Tasks)
             /\ api \in [pc : {"idle", "add", "enqueue"}, task : Tasks]

WorkerType == pc \in Labels /\ frame \in Frames

RepoType == repo \in SUBSET Snapshots /\ nextSnap \in Nat

ServicesType == /\ active \in [Services -> BOOLEAN]
                /\ up \in [Services -> BOOLEAN]
                /\ data \in [Services -> Nat]
                /\ clock \in Nat

CountersType == /\ period \in BOOLEAN /\ chosen \in BOOLEAN
                /\ requests \in Nat /\ crashes \in Nat

TypeOK == JobsType /\ TasksType /\ WorkerType /\ RepoType /\ ServicesType /\ CountersType

\* A snapshot of a service made before the story begins.
OldSnapshot(s) == [id |-> 0, svc |-> s, ver |-> 1, reason |-> "EXPLICIT"]

Init ==
    /\ jobs = [j \in {} |-> NoTask]
    /\ nextJob = 1
    /\ queue = <<>>
    /\ api = [pc |-> "idle", task |-> NoTask]
    /\ pc = "idle"
    /\ frame = EmptyFrame
    /\ repo = {OldSnapshot(s) : s \in Services}
    /\ nextSnap = 1
    /\ active = [s \in Services |-> TRUE]
    /\ up = [s \in Services |-> TRUE]
    /\ data = [s \in Services |-> 1]
    /\ clock = 1
    /\ period \in BOOLEAN
    /\ period => "autobackup" \in Events
    /\ chosen = period
    /\ requests = 0
    /\ crashes = 0

NewJob(op, svc, about) == [op |-> op, svc |-> svc, status |-> "CREATED",
                           about |-> about, since |-> nextSnap]

\* Jobs.add.
AddJob(op, svc, about) == /\ jobs' = Add(jobs, nextJob, NewJob(op, svc, about))
                          /\ nextJob' = nextJob + 1

-----------------------------------------------------------------------------
(* The API process                                                         *)

Request(e) == /\ e \in Events
              /\ requests < MaxRequests
              /\ requests' = requests + 1
              /\ UNCHANGED crashes

\* A mutation passed its checks; it goes on to add a job.
Accept(task) == /\ api.pc = "idle"
                /\ Request(task.kind)
                /\ api' = [pc |-> "add", task |-> task]
                /\ UNCHANGED <<jobVars, queue, workVars, repoVars, svcVars, setVars>>

\* start_backup: refused while a job of the service is RUNNING.
RequestBackup == \E s \in Services :
    /\ ~RunningFor(jobs, s)
    /\ Accept([NoTask EXCEPT !.kind = "backup", !.svc = s])

\* restore_backup: the snapshot must be known, its service not busy.
RequestRestore == \E snap \in repo, strategy \in Strategies :
    /\ ~RunningFor(jobs, snap.svc)
    /\ Accept([NoTask EXCEPT !.kind = "restore", !.svc = snap.svc,
                             !.snap = snap, !.strategy = strategy])

\* total_backup and restore_all: no service is busy; the API itself may be.
RequestTotal == \E kind \in {"total_backup", "full_restore"} :
    /\ \A s \in Services \ {ConfigService} : ~RunningFor(jobs, s)
    /\ Accept([NoTask EXCEPT !.kind = kind])

\* Jobs.add.  Only the tasks over several services carry their job along.
ApiAddJob ==
    LET t == api.task
        about == IF t.kind = "restore" THEN t.snap.id ELSE 0
    IN /\ api.pc = "add"
       /\ AddJob(t.kind, t.svc, about)
       /\ api' = [pc |-> "enqueue", task |-> [t EXCEPT !.job = nextJob]]
       /\ UNCHANGED <<queue, workVars, repoVars, svcVars, setVars, countVars>>

ApiEnqueue ==
    /\ api.pc = "enqueue"
    /\ queue' = Append(queue, api.task)
    /\ api' = [pc |-> "idle", task |-> NoTask]
    /\ UNCHANGED <<jobVars, workVars, repoVars, svcVars, setVars, countVars>>

\* remove_job: any job may be removed, whatever its status.
RemoveJob == \E j \in DOMAIN jobs :
    /\ api.pc = "idle"
    /\ Request("remove")
    /\ jobs' = Remove(jobs, {j})
    /\ UNCHANGED <<nextJob, queue, api, workVars, repoVars, svcVars, setVars>>

\* set_autobackup_period: None and numbers below 1 switch autobackup off.
SetPeriod == \E on \in BOOLEAN :
    /\ api.pc = "idle"
    /\ Request("period")
    /\ period' = on
    /\ chosen' = on
    /\ UNCHANGED <<jobVars, queue, api, workVars, repoVars, svcVars>>

\* start_service and stop_service look at no job.
UserStarts == \E s \in Services \ {ConfigService} :
    /\ Request("start")
    /\ active' = [active EXCEPT ![s] = TRUE]
    /\ up' = [up EXCEPT ![s] = TRUE]
    /\ UNCHANGED <<jobVars, queue, api, workVars, repoVars, data, clock, setVars>>

UserStops == \E s \in Services \ {ConfigService} :
    /\ Request("stop")
    /\ active' = [active EXCEPT ![s] = FALSE]
    /\ up' = [up EXCEPT ![s] = FALSE]
    /\ UNCHANGED <<jobVars, queue, api, workVars, repoVars, data, clock, setVars>>

\* forget_snapshot.
ForgetSnapshot == \E snap \in repo :
    /\ api.pc = "idle"
    /\ Request("forget")
    /\ repo' = repo \ {snap}
    /\ UNCHANGED <<jobVars, queue, api, workVars, nextSnap, svcVars, setVars>>

-----------------------------------------------------------------------------
(* The services, the clock of Redis, the scheduler                         *)

ServiceWrites == \E s \in Services :
    /\ active[s]
    /\ clock < MaxClock
    /\ data' = [data EXCEPT ![s] = clock + 1]
    /\ clock' = clock + 1
    /\ UNCHANGED <<jobVars, queue, api, workVars, repoVars, active, up, setVars, countVars>>

\* Ended jobs expire, after ten days or an hour.
ExpireJob == \E j \in DOMAIN jobs :
    /\ Request("expire")
    /\ jobs[j].status \in TerminalStatus
    /\ jobs' = Remove(jobs, {j})
    /\ UNCHANGED <<nextJob, queue, api, workVars, repoVars, svcVars, setVars>>

\* The scheduler of huey asks validate_datetime and enqueues automatic_backup.
ScheduleAutobackup ==
    /\ period
    /\ Request("autobackup")
    /\ queue' = Append(queue, [NoTask EXCEPT !.kind = "autobackup"])
    /\ UNCHANGED <<jobVars, api, workVars, repoVars, svcVars, setVars>>

\* check_for_system_rebuild_jobs: an API that starts takes every rebuild for done.
EndRebuilds ==
    [j \in DOMAIN jobs |->
        IF jobs[j].op = "rebuild" /\ jobs[j].status \in LiveStatus
        THEN [jobs[j] EXCEPT !.status = "FINISHED"] ELSE jobs[j]]

\* The API process dies, maybe between two steps of a mutation, and starts
\* again: what was in memory is lost, Redis and disks stay.  Crashes that change
\* nothing are left out.
ApiCrash ==
    /\ crashes < MaxCrashes
    /\ api.pc # "idle" \/ EndRebuilds # jobs
    /\ crashes' = crashes + 1
    /\ api' = [pc |-> "idle", task |-> NoTask]
    /\ jobs' = EndRebuilds
    /\ UNCHANGED <<nextJob, queue, workVars, repoVars, svcVars, setVars, requests>>

\* The worker dies in the middle of a task, which is lost.
WorkerCrash ==
    /\ pc # "idle"
    /\ crashes < MaxCrashes
    /\ crashes' = crashes + 1
    /\ pc' = "idle"
    /\ frame' = EmptyFrame
    /\ UNCHANGED <<jobVars, queue, api, repoVars, svcVars, setVars, requests>>

-----------------------------------------------------------------------------
(* The worker: tasks over several services                                 *)

Idle == pc' = "idle" /\ frame' = EmptyFrame

SetStatus(j, status) == jobs' = Update(jobs, j, status)

\* A step that only updates a job, and one that only goes on.
Mark(from, j, status, to) == /\ pc = from
                             /\ SetStatus(j, status)
                             /\ pc' = to
                             /\ UNCHANGED <<nextJob, frame, outside>>

Skip(from, to) == pc = from /\ pc' = to /\ UNCHANGED <<jobVars, frame, outside>>

\* The worker pops a task; the function it runs is told by its kind.
TakeTask ==
    /\ pc = "idle"
    /\ queue # <<>>
    /\ LET t == Head(queue)
       IN /\ frame' = [EmptyFrame EXCEPT
                          !.kind = t.kind, !.svc = t.svc, !.snap = t.snap,
                          !.strategy = t.strategy,
                          !.parent = IF t.kind \in {"total_backup", "full_restore"}
                                     THEN t.job ELSE NoJob,
                          !.todo = IF t.kind = "total_backup" THEN Services ELSE {}]
          /\ pc' = CASE t.kind = "backup"       -> "find_backup"
                     [] t.kind = "restore"      -> "find_restore"
                     [] t.kind = "total_backup" -> "run_parent"
                     [] t.kind = "autobackup"   -> "autobackup"
                     [] t.kind = "full_restore" -> "full_restore"
    /\ queue' = Tail(queue)
    /\ UNCHANGED <<jobVars, api, repoVars, svcVars, setVars, countVars>>

\* do_autobackup: autobackup may have been disabled since the task was queued.
StartAutobackup ==
    /\ pc = "autobackup"
    /\ frame' = [frame EXCEPT !.disabled = ~period]
    /\ period' = TRUE
    /\ pc' = "pick_due"
    /\ UNCHANGED <<jobVars, queue, api, repoVars, svcVars, chosen, countVars>>

\* services_to_back_up: which services are due is a matter of time, and none
\* is while autobackup is off.
NothingDue == pc = "pick_due" /\ Idle /\ UNCHANGED <<jobVars, outside>>

PickDue == \E due \in (SUBSET Services) \ {{}} :
    /\ pc = "pick_due"
    /\ period
    /\ AddJob("autobackup", None, 0)
    /\ frame' = [frame EXCEPT !.todo = due, !.parent = nextJob]
    /\ pc' = "run_parent"
    /\ UNCHANGED outside

\* back_up_multiple.  The progress it reports after each service only repeats
\* that the job is RUNNING.
RunParent == Mark("run_parent", frame.parent, "RUNNING", "next_backup")

NextBackup == \E s \in frame.todo :
    /\ pc = "next_backup"
    /\ frame' = [frame EXCEPT !.svc = s, !.todo = @ \ {s}, !.job = NoJob, !.made = None]
    /\ pc' = "find_backup"
    /\ UNCHANGED <<jobVars, outside>>

\* All services are backed up.  do_autobackup switches autobackup off again
\* if it was off at the start.
FinishParent ==
    /\ pc = "next_backup"
    /\ frame.todo = {}
    /\ period' = (period /\ ~frame.disabled)
    /\ SetStatus(frame.parent, "FINISHED")
    /\ Idle
    /\ UNCHANGED <<nextJob, queue, api, repoVars, svcVars, chosen, countVars>>

\* Variant: the error of one service is raised and not reported to the job.
ParentErrorUnreported ==
    /\ pc = "parent_error"
    /\ Idle
    /\ UNCHANGED <<jobVars, outside>>

\* report_job_error.
ParentError ==
    /\ pc = "parent_error"
    /\ SetStatus(frame.parent, "ERROR")
    /\ Idle
    /\ UNCHANGED <<nextJob, outside>>

-----------------------------------------------------------------------------
(* The worker: Backups.back_up, for a task of its own, for one service of  *)
(* many, or as the failsafe of an in-place restore                         *)

BackupReason == CASE frame.kind = "autobackup" -> "AUTO"
                  [] frame.kind = "restore"    -> "PRE_RESTORE"
                  [] OTHER                     -> "EXPLICIT"

\* Where the caller goes on when back_up returns, and when it raises.
AfterBackup(made) ==
    CASE frame.kind = "backup"  -> Idle
      [] frame.kind = "restore" -> pc' = "wipe" /\ frame' = [frame EXCEPT !.made = made]
      [] OTHER                  -> pc' = "next_backup" /\ frame' = frame

BackupRaises ==
    CASE frame.kind = "backup"  -> Idle
      [] frame.kind = "restore" -> pc' = "start_service" /\ frame' = [frame EXCEPT !.failed = TRUE]
      [] OTHER                  -> pc' = "parent_error" /\ frame' = frame

\* get_backup_job: any backup job of the service that waits is taken over.
FindBackupJob == \E j \in DOMAIN jobs :
    /\ pc = "find_backup"
    /\ IsNewestLive(jobs, "backup", frame.svc, j)
    /\ frame' = [frame EXCEPT !.job = j]
    /\ pc' = "run_backup"
    /\ UNCHANGED <<jobVars, outside>>

NoBackupJob ==
    /\ JobsOf(jobs, "backup", frame.svc, LiveStatus) = {}
    /\ Skip("find_backup", "add_backup")

\* add_backup_job, outside the try block: raises if the service is busy.
AddBackupJob ==
    /\ pc = "add_backup"
    /\ ~RunningFor(jobs, frame.svc)
    /\ AddJob("backup", frame.svc, 0)
    /\ frame' = [frame EXCEPT !.job = nextJob]
    /\ pc' = "run_backup"
    /\ UNCHANGED outside

BackupRefused ==
    /\ pc = "add_backup"
    /\ RunningFor(jobs, frame.svc)
    /\ BackupRaises
    /\ UNCHANGED <<jobVars, outside>>

RunBackup == Mark("run_backup", frame.job, "RUNNING", "progress")

\* restic's start_backup looks the job up again, by type, and reports progress
\* to the one it finds, or restic has no progress to tell.
ReportProgress == \E j \in DOMAIN jobs :
    /\ IsNewestLive(jobs, "backup", frame.svc, j)
    /\ Mark("progress", j, "RUNNING", "upload")

NoProgress == Skip("progress", "upload")

Upload ==
    LET snap == [id |-> nextSnap, svc |-> frame.svc, ver |-> data[frame.svc],
                 reason |-> BackupReason]
    IN /\ pc = "upload"
       /\ repo' = repo \cup {snap}
       /\ nextSnap' = nextSnap + 1
       /\ frame' = [frame EXCEPT !.made = snap]
       /\ pc' = "register"
       /\ UNCHANGED <<jobVars, queue, api, svcVars, setVars, countVars>>

\* can_be_backed_up, pre_backup or restic raise.
UploadFails == Skip("upload", "backup_error")

\* _on_new_snapshot_created, and _prune_auto_snaps, which may drop any
\* automatic snapshot of the service, the new one included.
Register ==
    /\ pc = "register"
    /\ \E drop \in SUBSET {s \in repo : /\ "prune" \in Events
                                        /\ BackupReason = "AUTO"
                                        /\ s.svc = frame.svc
                                        /\ s.reason = "AUTO"} :
          repo' = repo \ drop
    /\ pc' \in {"finish_backup", "backup_error"}
    /\ UNCHANGED <<jobVars, queue, api, frame, nextSnap, svcVars, setVars, countVars>>

FinishBackup == Mark("finish_backup", frame.job, "FINISHED", "clear_failed")

\* clear_failed_backups, unless this was a failsafe; then sync_date_from_cache,
\* which raises if the cache lost the snapshot in the meantime.
ClearFailed ==
    /\ pc = "clear_failed"
    /\ jobs' = IF BackupReason = "PRE_RESTORE" THEN jobs
               ELSE Remove(jobs, JobsOf(jobs, "backup", frame.svc, {"ERROR"}))
    /\ AfterBackup(frame.made) \/ BackupRaises
    /\ UNCHANGED <<nextJob, outside>>

\* Variant: back_up raises without marking its job.
BackupErrorUnmarked ==
    /\ pc = "backup_error"
    /\ BackupRaises
    /\ UNCHANGED <<jobVars, outside>>

BackupError ==
    /\ pc = "backup_error"
    /\ SetStatus(frame.job, "ERROR")
    /\ BackupRaises
    /\ UNCHANGED <<nextJob, outside>>

-----------------------------------------------------------------------------
(* The worker: Backups.restore_snapshot, for a task of its own or as one   *)
(* step of a full restore                                                  *)

RestoreReturns == IF frame.kind = "full_restore"
                  THEN pc' = "next_restore" /\ frame' = frame
                  ELSE Idle

RestoreRaises == IF frame.kind = "full_restore"
                 THEN pc' = "parent_error" /\ frame' = frame
                 ELSE Idle

\* _ensure_queued_restore_job, outside the try block.
FindRestoreJob == \E j \in DOMAIN jobs :
    /\ pc = "find_restore"
    /\ IsNewestLive(jobs, "restore", frame.svc, j)
    /\ frame' = [frame EXCEPT !.rjob = j]
    /\ pc' = "queue_restore"
    /\ UNCHANGED <<jobVars, outside>>

NoRestoreJob ==
    /\ JobsOf(jobs, "restore", frame.svc, LiveStatus) = {}
    /\ Skip("find_restore", "add_restore")

AddRestoreJob ==
    /\ pc = "add_restore"
    /\ ~RunningFor(jobs, frame.svc)
    /\ AddJob("restore", frame.svc, frame.snap.id)
    /\ frame' = [frame EXCEPT !.rjob = nextJob]
    /\ pc' = "queue_restore"
    /\ UNCHANGED outside

RestoreRefused ==
    /\ pc = "add_restore"
    /\ RunningFor(jobs, frame.svc)
    /\ RestoreRaises
    /\ UNCHANGED <<jobVars, outside>>

QueueRestore == Mark("queue_restore", frame.rjob, "CREATED", "check_restore")

\* _assert_restorable asks the repository for the snapshot's size and compares
\* it with the free space; then the job runs.
CheckRestore ==
    /\ frame.snap \in repo
    /\ Mark("check_restore", frame.rjob, "RUNNING", "stop_service")

NotRestorable == Skip("check_restore", "restore_error")

\* Variant: an in-place restore works on the running service.
StopServiceUnlessInplace ==
    LET s == frame.svc
    IN /\ pc = "stop_service"
       /\ active' = IF s = ConfigService \/ frame.strategy = "INPLACE" THEN active
                    ELSE [active EXCEPT ![s] = FALSE]
       /\ frame' = [frame EXCEPT !.was = active[s]]
       /\ pc' = IF frame.strategy = "INPLACE" THEN "await_failsafe" ELSE "assert_dead"
       /\ UNCHANGED <<jobVars, notActive>>

\* StoppedService.__aenter__.
StopService ==
    LET s == frame.svc
    IN /\ pc = "stop_service"
       /\ active' = IF s = ConfigService THEN active ELSE [active EXCEPT ![s] = FALSE]
       /\ frame' = [frame EXCEPT !.was = active[s]]
       /\ pc' = "assert_dead"
       /\ UNCHANGED <<jobVars, notActive>>

\* The service does not stop in time: the error leaves __aenter__, so that
\* __aexit__ never runs, and the service may still go down later.
StopTimesOut ==
    /\ pc = "stop_service"
    /\ "timeout" \in Events
    /\ frame.svc # ConfigService
    /\ active[frame.svc]
    /\ \E up_still \in BOOLEAN : active' = [active EXCEPT ![frame.svc] = up_still]
    /\ pc' = "restore_error"
    /\ UNCHANGED <<jobVars, frame, notActive>>

\* assert_dead and pre_restore.
AssertDead ==
    /\ pc = "assert_dead"
    /\ frame.svc = ConfigService \/ ~active[frame.svc]
    /\ Skip("assert_dead", IF frame.strategy = "INPLACE" THEN "await_failsafe" ELSE "download")

NotDead ==
    /\ pc = "assert_dead"
    /\ pc' = "start_service"
    /\ frame' = [frame EXCEPT !.failed = TRUE]
    /\ UNCHANGED <<jobVars, outside>>

\* Variant: any snapshot of the service will do as the failsafe.
AwaitFailsafeReused == \E snap \in repo :
    /\ pc = "await_failsafe"
    /\ snap.svc = frame.svc
    /\ frame' = [frame EXCEPT !.made = [snap EXCEPT !.reason = "PRE_RESTORE"]]
    /\ pc' = "wipe"
    /\ UNCHANGED <<jobVars, outside>>

\* _inplace_restore: the job waits again while back_up makes the failsafe.
AwaitFailsafe == Mark("await_failsafe", frame.rjob, "CREATED", "find_backup")

\* restore_from_backup(verify=False): every folder is emptied, then restic
\* writes the snapshot to it.  A failure is taken to leave damaged data.
Wipe ==
    /\ pc = "wipe"
    /\ SetStatus(frame.rjob, "RUNNING")
    /\ data' = [data EXCEPT ![frame.svc] = Damaged]
    /\ pc' = "refill"
    /\ UNCHANGED <<nextJob, frame, notData>>

Refill ==
    /\ pc = "refill"
    /\ frame.snap \in repo
    /\ data' = [data EXCEPT ![frame.svc] = frame.snap.ver]
    /\ pc' = "post_restore"
    /\ UNCHANGED <<jobVars, frame, notData>>

RefillFails ==
    /\ pc = "refill"
    /\ data' = [data EXCEPT ![frame.svc] = Damaged]
    /\ pc' = "revert_error"
    /\ UNCHANGED <<jobVars, frame, notData>>

\* The job is marked before the data is reverted, and again after.
RevertError == Mark("revert_error", frame.rjob, "ERROR", "revert")

Revert ==
    /\ pc = "revert"
    /\ \/ /\ frame.made \in repo
          /\ data' = [data EXCEPT ![frame.svc] = frame.made.ver]
       \/ data' = [data EXCEPT ![frame.svc] = Damaged]
    /\ frame' = [frame EXCEPT !.failed = TRUE]
    /\ pc' = "start_service"
    /\ UNCHANGED <<jobVars, notData>>

\* restore_from_backup(verify=True): the snapshot is restored to a temporary
\* directory first, and each folder is synchronised with it only after that.
Download ==
    /\ pc = "download"
    /\ SetStatus(frame.rjob, "RUNNING")
    /\ \/ frame.snap \in repo /\ pc' = "overwrite" /\ frame' = frame
       \/ pc' = "start_service" /\ frame' = [frame EXCEPT !.failed = TRUE]
    /\ UNCHANGED <<nextJob, outside>>

Overwrite ==
    /\ pc = "overwrite"
    /\ \/ /\ data' = [data EXCEPT ![frame.svc] = frame.snap.ver]
          /\ pc' = "post_restore"
          /\ frame' = frame
       \/ /\ data' = [data EXCEPT ![frame.svc] = Damaged]
          /\ pc' = "start_service"
          /\ frame' = [frame EXCEPT !.failed = TRUE]
    /\ UNCHANGED <<jobVars, notData>>

PostRestore ==
    /\ pc = "post_restore"
    /\ \/ SetStatus(frame.rjob, "RUNNING") /\ frame' = frame
       \/ UNCHANGED jobs /\ frame' = [frame EXCEPT !.failed = TRUE]
    /\ pc' = "start_service"
    /\ UNCHANGED <<nextJob, outside>>

\* Variant: the service is started again only when nothing was raised.
StartServiceOnSuccess ==
    LET s == frame.svc
    IN /\ pc = "start_service"
       /\ active' = IF frame.was /\ s # ConfigService /\ ~frame.failed
                    THEN [active EXCEPT ![s] = TRUE] ELSE active
       /\ pc' = IF frame.failed THEN "restore_error" ELSE "finish_restore"
       /\ UNCHANGED <<jobVars, frame, notActive>>

\* StoppedService.__aexit__.
StartService ==
    LET s == frame.svc
    IN /\ pc = "start_service"
       /\ active' = IF frame.was /\ s # ConfigService
                    THEN [active EXCEPT ![s] = TRUE] ELSE active
       /\ pc' = IF frame.failed THEN "restore_error" ELSE "finish_restore"
       /\ UNCHANGED <<jobVars, frame, notActive>>

StartTimesOut ==
    /\ pc = "start_service"
    /\ "timeout" \in Events
    /\ frame.was /\ frame.svc # ConfigService
    /\ \E up_now \in BOOLEAN : active' = [active EXCEPT ![frame.svc] = up_now]
    /\ pc' = "restore_error"
    /\ UNCHANGED <<jobVars, frame, notActive>>

FinishRestore ==
    /\ pc = "finish_restore"
    /\ SetStatus(frame.rjob, "FINISHED")
    /\ RestoreReturns
    /\ UNCHANGED <<nextJob, outside>>

RestoreError ==
    /\ pc = "restore_error"
    /\ SetStatus(frame.rjob, "ERROR")
    /\ RestoreRaises
    /\ UNCHANGED <<nextJob, outside>>

-----------------------------------------------------------------------------
(* The worker: do_full_restore                                             *)

ConfigSnapshots == {s \in repo : s.svc = ConfigService}

Newest(snaps) == {s \in snaps : \A r \in snaps : r.id =< s.id}

\* last_backup_slice: the newest snapshot of the configuration, and of every
\* other service the newest, if it was made around the same time.
Slices ==
    LET others == UNION {Newest({r \in repo : r.svc = s}) : s \in Services \ {ConfigService}}
    IN {c \cup o : c \in {Newest(ConfigSnapshots)}, o \in SUBSET others}

StartFullRestore == \E slice \in Slices :
    /\ pc = "full_restore"
    /\ ConfigSnapshots # {}
    /\ SetStatus(frame.parent, "RUNNING")
    /\ frame' = [frame EXCEPT !.todo = slice]
    /\ pc' = "next_restore"
    /\ UNCHANGED <<nextJob, outside>>

\* which_snapshots_to_full_restore raises outside the try block: the task ends
\* and its job stays RUNNING.
NoConfigSnapshot ==
    /\ pc = "full_restore"
    /\ ConfigSnapshots = {}
    /\ SetStatus(frame.parent, "RUNNING")
    /\ Idle
    /\ UNCHANGED <<nextJob, outside>>

\* The configuration is restored at the very end of the list.
NextRestore == \E snap \in frame.todo :
    /\ pc = "next_restore"
    /\ snap.svc = ConfigService => frame.todo = {snap}
    /\ frame' = [frame EXCEPT !.snap = snap, !.svc = snap.svc, !.todo = @ \ {snap},
                              !.strategy = "DOWNLOAD_VERIFY_OVERWRITE",
                              !.rjob = NoJob, !.was = FALSE, !.failed = FALSE]
    /\ pc' = "find_restore"
    /\ UNCHANGED <<jobVars, outside>>

AddRebuild ==
    /\ pc = "next_restore"
    /\ frame.todo = {}
    /\ AddJob("rebuild", None, 0)
    /\ frame' = [frame EXCEPT !.job = nextJob]
    /\ pc' = "rebuild"
    /\ UNCHANGED outside

\* rebuild_system reports what it did by its job only, and not at all when the
\* status of the unit cannot be told.  That it may leave the task behind that
\* reports the log, which updates the job even later, is not modelled here.
StartRebuild == \/ Mark("rebuild", frame.job, "RUNNING", "rebuild_end")
                \/ Mark("rebuild", frame.job, "ERROR", "full_done")

EndRebuild == \E status \in {"RUNNING"} \cup TerminalStatus :
    Mark("rebuild_end", frame.job, status, "full_done")

FinishFullRestore ==
    /\ pc = "full_done"
    /\ SetStatus(frame.parent, "FINISHED")
    /\ Idle
    /\ UNCHANGED <<nextJob, outside>>

-----------------------------------------------------------------------------
ApiStep == ApiAddJob \/ ApiEnqueue

BackUp == \/ FindBackupJob \/ NoBackupJob \/ AddBackupJob \/ BackupRefused
          \/ RunBackup \/ ReportProgress \/ NoProgress \/ Upload \/ UploadFails
          \/ Register \/ FinishBackup \/ ClearFailed \/ BackupError

RestoreSnapshot ==
    \/ FindRestoreJob \/ NoRestoreJob \/ AddRestoreJob \/ RestoreRefused
    \/ QueueRestore \/ CheckRestore \/ NotRestorable
    \/ StopService \/ StopTimesOut \/ AssertDead \/ NotDead \/ AwaitFailsafe
    \/ Wipe \/ Refill \/ RefillFails \/ RevertError \/ Revert
    \/ Download \/ Overwrite \/ PostRestore
    \/ StartService \/ StartTimesOut \/ FinishRestore \/ RestoreError

TasksOverSeveral == \/ StartAutobackup \/ NothingDue \/ PickDue \/ RunParent
           \/ NextBackup \/ FinishParent \/ ParentError
           \/ StartFullRestore \/ NoConfigSnapshot \/ NextRestore
           \/ AddRebuild \/ StartRebuild \/ EndRebuild \/ FinishFullRestore

WorkerStep == TakeTask \/ BackUp \/ RestoreSnapshot \/ TasksOverSeveral

Environment ==
    \/ RequestBackup \/ RequestRestore \/ RequestTotal \/ RemoveJob \/ SetPeriod
    \/ UserStarts \/ UserStops \/ ForgetSnapshot \/ ServiceWrites \/ ExpireJob
    \/ ScheduleAutobackup \/ ApiCrash \/ WorkerCrash

Next == ApiStep \/ WorkerStep \/ Environment

Spec == Init /\ [][Next]_vars

\* Both processes are restarted by systemd and keep taking steps; nobody is
\* bound to send a request.
FairSpec == Spec /\ WF_vars(ApiStep) /\ WF_vars(WorkerStep)
=============================================================================
