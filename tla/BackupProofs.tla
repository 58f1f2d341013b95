----------------------------- MODULE BackupProofs -----------------------------
(***************************************************************************)
(* Proofs about Backup, for any services, any events and any bounds:       *)
(*   1. the types, with KindInv, LocalsInv and QueueInv (TypeInvariance);  *)
(*   2. restores work on stopped services and are covered by their         *)
(*      failsafe (RestoreOfStopped, FailsafeCovers);                       *)
(*   3. the jobs the worker holds (WorkerInvariance), from which Backup    *)
(*      implements JobLifecycle (ImplementsLifecycle);                     *)
(*   4. the jobs that wait: what the worker lets go of has ended           *)
(*      (HeldJobsAreLive), nobody waits in vain (NobodyWaitsInVain,        *)
(*      ParentsAreCarried), and what finished is fresh (FinishedIsFresh).  *)
(***************************************************************************)
EXTENDS BackupInvariant, FiniteSetTheorems, TLAPS

\* The initial state has the right types.
LEMMA InitType == Init => TypeOK
<1> SUFFICES ASSUME Init PROVE TypeOK
  OBVIOUS
<1> USE ConfigAssumption, BoundsAssumption
<1>1. jobs = [j \in {} |-> NoTask] /\ DOMAIN jobs = {}
  BY DEF Init
<1>2. api \in [pc : {"idle", "add", "enqueue"}, task : Tasks]
  BY DEF Init, NoTask, Tasks, Kinds, Strategies, NoJob
<1>3. frame \in Frames
  BY DEF Init, EmptyFrame, Frames, Kinds, Strategies, NoJob
<1>4. repo \in SUBSET Snapshots
  BY DEF Init, OldSnapshot, Snapshots, Reasons
<1>5. period \in BOOLEAN /\ chosen \in BOOLEAN
  BY DEF Init
<1>6. pc \in Labels /\ queue \in Seq(Tasks)
  BY DEF Init, Labels
<1>7. /\ nextJob \in Nat \ {0} /\ DOMAIN jobs \subseteq 1 .. nextJob - 1
      /\ \A j \in DOMAIN jobs : jobs[j] \in JobRecords
  BY <1>1 DEF Init
<1>8. /\ active \in [Services -> BOOLEAN] /\ up \in [Services -> BOOLEAN]
      /\ data \in [Services -> Nat]
  BY DEF Init
<1>9. nextSnap \in Nat /\ clock \in Nat /\ requests \in Nat /\ crashes \in Nat
  BY DEF Init
<1> QED
  BY <1>2, <1>3, <1>4, <1>5, <1>6, <1>7, <1>8, <1>9 DEF TypeOK, JobsType, TasksType, WorkerType, RepoType, ServicesType, CountersType

\* The parts of the type invariant, for the updates the actions are made of.

\* Jobs.add keeps the type of the table, if the job names what exists.
LEMMA AddType ==
  ASSUME TypeOK, NEW op \in Ops, NEW svc \in Services \cup {None}, NEW about \in Nat,
         AddJob(op, svc, about)
  PROVE  JobsType'
<1>1. NewJob(op, svc, about) \in JobRecords
  BY DEF NewJob, JobRecords, Status, LiveStatus, TypeOK, RepoType
<1>2. DOMAIN jobs' = DOMAIN jobs \cup {nextJob}
  BY DEF AddJob, Add
<1>3. \A j \in DOMAIN jobs' : jobs'[j] \in JobRecords
  BY <1>1, <1>2 DEF AddJob, Add, TypeOK, JobsType
<1> QED
  BY <1>2, <1>3 DEF AddJob, TypeOK, JobsType

\* Jobs.update keeps the type of the table.
LEMMA UpdateType ==
  ASSUME TypeOK, NEW id, NEW status \in Status, SetStatus(id, status), UNCHANGED nextJob
  PROVE  JobsType'
  BY DEF SetStatus, Update, TypeOK, JobsType, JobRecords

\* Jobs.remove and the expiry of jobs keep the type of the table.
LEMMA RemoveType ==
  ASSUME TypeOK, NEW ids, jobs' = Remove(jobs, ids), UNCHANGED nextJob
  PROVE  JobsType'
  BY DEF Remove, TypeOK, JobsType

\* The locals of a worker at rest are locals.
LEMMA EmptyFrameType == EmptyFrame \in Frames
  BY DEF EmptyFrame, Frames, Kinds, Strategies, NoJob

\* The task of an API process at rest is a task.
LEMMA NoTaskType == NoTask \in Tasks
  BY DEF NoTask, Tasks, Kinds, Strategies, NoJob

\* What the worker pops off the queue is a task with what its kind needs.
LEMMA HeadType ==
  ASSUME TypeOK, QueueInv, queue # <<>>
  PROVE  /\ Head(queue) \in Tasks /\ TaskOK(Head(queue))
         /\ Tail(queue) \in Seq(Tasks)
  BY DEF TypeOK, TasksType, QueueInv

\* A worker at rest has the right type.
LEMMA IdleType == ASSUME Idle PROVE WorkerType'
  BY EmptyFrameType DEF Idle, WorkerType, Labels

\* What is left to show of an action of the worker, by what it leaves alone.
LEMMA OutsideType ==
  ASSUME TypeOK, UNCHANGED outside, JobsType', WorkerType'
  PROVE  TypeOK'
  BY DEF TypeOK, outside, TasksType, RepoType, ServicesType, CountersType,
         repoVars, svcVars, setVars, countVars

\* The same for a step that writes to the data of a service.
LEMMA NotDataType ==
  ASSUME TypeOK, UNCHANGED <<jobVars, notData>>, WorkerType',
         data' \in [Services -> Nat]
  PROVE  TypeOK'
  BY DEF TypeOK, notData, jobVars, JobsType, TasksType, RepoType, ServicesType,
         CountersType, repoVars, setVars, countVars

\* The same for a step that stops or starts a service.
LEMMA NotActiveType ==
  ASSUME TypeOK, UNCHANGED <<jobVars, notActive>>, WorkerType',
         active' \in [Services -> BOOLEAN]
  PROVE  TypeOK'
  BY DEF TypeOK, notActive, jobVars, JobsType, TasksType, RepoType, ServicesType,
         CountersType, repoVars, setVars, countVars

\* A table of jobs that nobody touches keeps its type.
LEMMA SameJobs == ASSUME TypeOK, UNCHANGED jobVars PROVE JobsType'
  BY DEF TypeOK, jobVars, JobsType

\* A step that only updates a job keeps the types.
LEMMA MarkType ==
  ASSUME TypeOK, NEW from, NEW j, NEW status \in Status, NEW to \in Labels,
         Mark(from, j, status, to)
  PROVE  TypeOK'
<1>1. JobsType'
  BY UpdateType DEF Mark
<1>2. WorkerType'
  BY DEF Mark, TypeOK, WorkerType
<1> QED
  BY <1>1, <1>2, OutsideType DEF Mark

\* A step that only goes on keeps the types.
LEMMA SkipType ==
  ASSUME TypeOK, NEW from, NEW to \in Labels, Skip(from, to)
  PROVE  TypeOK'
<1>1. WorkerType'
  BY DEF Skip, TypeOK, WorkerType
<1> QED
  BY <1>1, OutsideType, SameJobs DEF Skip

\* A step of the worker that reads or ends: some jobs change, the rest of the
\* system does not.
LEMMA EndType ==
  ASSUME TypeOK, Idle, UNCHANGED outside, JobsType'
  PROVE  TypeOK'
  BY IdleType, OutsideType

\* A mutation that passed its checks with a task keeps the types.
LEMMA AcceptType ==
  ASSUME TypeOK, NEW t \in Tasks, Accept(t)
  PROVE  TypeOK'
<1>1. TasksType'
  BY DEF Accept, TypeOK, TasksType
<1> QED
  BY <1>1 DEF Accept, Request, TypeOK, JobsType, WorkerType, RepoType, ServicesType,
     CountersType, jobVars, workVars, repoVars, svcVars, setVars

\* The mutations that lead to a task, and what they do next, keep the types.
LEMMA ApiType ==
  ASSUME TypeOK, QueueInv,
         RequestBackup \/ RequestRestore \/ RequestTotal \/ ApiStep
  PROVE  TypeOK'
<1>1. CASE RequestBackup
  <2>1. PICK s \in Services : Accept([NoTask EXCEPT !.kind = "backup", !.svc = s])
    BY <1>1 DEF RequestBackup
  <2>2. [NoTask EXCEPT !.kind = "backup", !.svc = s] \in Tasks
    BY NoTaskType DEF Tasks, Kinds
  <2> QED
    BY <2>1, <2>2, AcceptType
<1>2. CASE RequestRestore
  <2>1. PICK snap \in repo, strategy \in Strategies :
           Accept([NoTask EXCEPT !.kind = "restore", !.svc = snap.svc,
                                 !.snap = snap, !.strategy = strategy])
    BY <1>2 DEF RequestRestore
  <2>2. snap \in Snapshots /\ snap.svc \in Services
    BY DEF TypeOK, RepoType, Snapshots
  <2>3. [NoTask EXCEPT !.kind = "restore", !.svc = snap.svc,
                       !.snap = snap, !.strategy = strategy] \in Tasks
    BY <2>2, NoTaskType DEF Tasks, Kinds
  <2> QED
    BY <2>1, <2>3, AcceptType
<1>3. CASE RequestTotal
  <2>1. PICK kind \in {"total_backup", "full_restore"} :
           Accept([NoTask EXCEPT !.kind = kind])
    BY <1>3 DEF RequestTotal
  <2>2. [NoTask EXCEPT !.kind = kind] \in Tasks
    BY NoTaskType DEF Tasks, Kinds
  <2> QED
    BY <2>1, <2>2, AcceptType
<1>4. CASE ApiAddJob
  <2> DEFINE t == api.task
             about == IF t.kind = "restore" THEN t.snap.id ELSE 0
  <2>1. t \in Tasks /\ TaskOK(t)
    BY <1>4 DEF ApiAddJob, TypeOK, TasksType, QueueInv
  <2>2. t.kind \in Ops /\ t.svc \in Services \cup {None} /\ about \in Nat
    BY <2>1 DEF TaskOK, Tasks, Ops, Kinds, Snapshots
  <2>3. JobsType'
    BY <1>4, <2>2, AddType DEF ApiAddJob
  <2>4. [t EXCEPT !.job = nextJob] \in Tasks
    BY <2>1 DEF Tasks, TypeOK, JobsType
  <2>5. TasksType'
    BY <1>4, <2>4 DEF ApiAddJob, TypeOK, TasksType
  <2> QED
    BY <1>4, <2>3, <2>5 DEF ApiAddJob, TypeOK, WorkerType, RepoType, ServicesType,
       CountersType, workVars, repoVars, svcVars, setVars, countVars
<1>5. CASE ApiEnqueue
  <2>1. queue' \in Seq(Tasks)
    BY <1>5 DEF ApiEnqueue, TypeOK, TasksType
  <2>2. api' \in [pc : {"idle", "add", "enqueue"}, task : Tasks]
    BY <1>5, NoTaskType DEF ApiEnqueue
  <2> QED
    BY <1>5, <2>1, <2>2 DEF ApiEnqueue, TypeOK, JobsType, TasksType, WorkerType, RepoType,
       ServicesType, CountersType, jobVars, workVars, repoVars, svcVars, setVars, countVars
<1> QED
  BY <1>1, <1>2, <1>3, <1>4, <1>5 DEF ApiStep

\* The rest of what happens outside the worker keeps the types.
LEMMA EnvironmentType ==
  ASSUME TypeOK,
         \/ RemoveJob \/ SetPeriod \/ UserStarts \/ UserStops \/ ForgetSnapshot
         \/ ServiceWrites \/ ExpireJob \/ ScheduleAutobackup \/ ApiCrash \/ WorkerCrash
  PROVE  TypeOK'
<1> USE DEF TypeOK, JobsType, TasksType, WorkerType, RepoType, ServicesType, CountersType,
            Request, jobVars, workVars, repoVars, svcVars, setVars, countVars
<1>1. CASE RemoveJob
  BY <1>1 DEF RemoveJob, Remove
<1>2. CASE SetPeriod
  BY <1>2 DEF SetPeriod
<1>3. CASE UserStarts
  BY <1>3 DEF UserStarts
<1>4. CASE UserStops
  BY <1>4 DEF UserStops
<1>5. CASE ForgetSnapshot
  BY <1>5 DEF ForgetSnapshot
<1>6. CASE ServiceWrites
  BY <1>6 DEF ServiceWrites
<1>7. CASE ExpireJob
  BY <1>7 DEF ExpireJob, Remove
<1>8. CASE ScheduleAutobackup
  <2>1. [NoTask EXCEPT !.kind = "autobackup"] \in Tasks
    BY NoTaskType DEF Tasks, Kinds
  <2> QED
    BY <1>8, <2>1 DEF ScheduleAutobackup
<1>9. CASE ApiCrash
  <2>1. jobs' = EndRebuilds /\ nextJob' = nextJob
    BY <1>9 DEF ApiCrash
  <2>2. ASSUME NEW j \in DOMAIN jobs PROVE EndRebuilds[j] \in JobRecords
    <3>1. jobs[j] \in JobRecords
      OBVIOUS
    <3>2. [jobs[j] EXCEPT !.status = "FINISHED"] \in JobRecords
      BY <3>1 DEF JobRecords, Status, TerminalStatus
    <3> QED
      BY <3>1, <3>2 DEF EndRebuilds
  <2>3. JobsType'
    BY <2>1, <2>2 DEF EndRebuilds
  <2> QED
    BY <1>9, <2>3, NoTaskType DEF ApiCrash
<1>10. CASE WorkerCrash
  BY <1>10, EmptyFrameType DEF WorkerCrash, Labels
<1> QED
  BY <1>1, <1>2, <1>3, <1>4, <1>5, <1>6, <1>7, <1>8, <1>9, <1>10

\* The worker's steps that only update a job, and those that only go on.
LEMMA MarksAndSkipsType ==
  ASSUME TypeOK,
         \/ RunParent \/ RunBackup \/ ReportProgress \/ FinishBackup \/ QueueRestore
         \/ CheckRestore \/ AwaitFailsafe \/ RevertError \/ StartRebuild \/ EndRebuild
         \/ NoBackupJob \/ NoProgress \/ UploadFails \/ NoRestoreJob
         \/ NotRestorable \/ AssertDead
  PROVE  TypeOK'
<1> USE DEF Labels, Status, LiveStatus, TerminalStatus
<1>1. CASE RunParent
  BY <1>1, MarkType DEF RunParent
<1>2. CASE RunBackup
  BY <1>2, MarkType DEF RunBackup
<1>3. CASE ReportProgress
  BY <1>3, MarkType DEF ReportProgress
<1>4. CASE FinishBackup
  BY <1>4, MarkType DEF FinishBackup
<1>5. CASE QueueRestore
  BY <1>5, MarkType DEF QueueRestore
<1>6. CASE CheckRestore
  BY <1>6, MarkType DEF CheckRestore
<1>7. CASE AwaitFailsafe
  BY <1>7, MarkType DEF AwaitFailsafe
<1>8. CASE RevertError
  BY <1>8, MarkType DEF RevertError
<1>9. CASE StartRebuild
  BY <1>9, MarkType DEF StartRebuild
<1>10. CASE EndRebuild
  BY <1>10, MarkType DEF EndRebuild
<1>11. CASE NoBackupJob
  BY <1>11, SkipType DEF NoBackupJob
<1>12. CASE NoProgress
  BY <1>12, SkipType DEF NoProgress
<1>13. CASE UploadFails
  BY <1>13, SkipType DEF UploadFails
<1>14. CASE NoRestoreJob
  BY <1>14, SkipType DEF NoRestoreJob
<1>15. CASE NotRestorable
  BY <1>15, SkipType DEF NotRestorable
<1>16. CASE AssertDead
  BY <1>16, SkipType DEF AssertDead
<1> QED
  BY <1>1, <1>2, <1>3, <1>4, <1>5, <1>6, <1>7, <1>8, <1>9, <1>10, <1>11, <1>12, <1>13, <1>14, <1>15, <1>16

\* How back_up and restore_snapshot return to their callers, or raise.
LEMMA ReturnsType ==
  ASSUME TypeOK,
         \/ BackupRaises \/ RestoreReturns \/ RestoreRaises \/ Idle
         \/ \E made \in Snapshots \cup {None} : AfterBackup(made)
  PROVE  WorkerType'
<1> USE DEF TypeOK, WorkerType, Labels, Frames
<1>1. CASE BackupRaises
  BY <1>1, IdleType DEF BackupRaises
<1>2. CASE RestoreReturns
  BY <1>2, IdleType DEF RestoreReturns
<1>3. CASE RestoreRaises
  BY <1>3, IdleType DEF RestoreRaises
<1>4. CASE \E made \in Snapshots \cup {None} : AfterBackup(made)
  BY <1>4, IdleType DEF AfterBackup
<1>5. CASE Idle
  BY <1>5, IdleType
<1> QED
  BY <1>1, <1>2, <1>3, <1>4, <1>5

\* The steps in which a function ends: its job gets its last status.
LEMMA EndsType ==
  ASSUME TypeOK,
         \/ ParentError \/ FinishRestore \/ RestoreError \/ NoConfigSnapshot
         \/ FinishFullRestore \/ NothingDue \/ BackupError \/ BackupRefused
         \/ RestoreRefused \/ ClearFailed
  PROVE  TypeOK'
<1> USE DEF Status, LiveStatus, TerminalStatus
<1>1. CASE ParentError
  <2>1. JobsType'
    BY <1>1, UpdateType DEF ParentError, outside
  <2>2. WorkerType'
    BY <1>1, ReturnsType DEF ParentError
  <2> QED
    BY <1>1, <2>1, <2>2, OutsideType DEF ParentError
<1>2. CASE FinishRestore
  <2>1. JobsType'
    BY <1>2, UpdateType DEF FinishRestore, outside
  <2>2. WorkerType'
    BY <1>2, ReturnsType DEF FinishRestore
  <2> QED
    BY <1>2, <2>1, <2>2, OutsideType DEF FinishRestore
<1>3. CASE RestoreError
  <2>1. JobsType'
    BY <1>3, UpdateType DEF RestoreError, outside
  <2>2. WorkerType'
    BY <1>3, ReturnsType DEF RestoreError
  <2> QED
    BY <1>3, <2>1, <2>2, OutsideType DEF RestoreError
<1>4. CASE NoConfigSnapshot
  <2>1. JobsType'
    BY <1>4, UpdateType DEF NoConfigSnapshot, outside
  <2>2. WorkerType'
    BY <1>4, ReturnsType DEF NoConfigSnapshot
  <2> QED
    BY <1>4, <2>1, <2>2, OutsideType DEF NoConfigSnapshot
<1>5. CASE FinishFullRestore
  <2>1. JobsType'
    BY <1>5, UpdateType DEF FinishFullRestore, outside
  <2>2. WorkerType'
    BY <1>5, ReturnsType DEF FinishFullRestore
  <2> QED
    BY <1>5, <2>1, <2>2, OutsideType DEF FinishFullRestore
<1>6. CASE BackupError
  <2>1. JobsType'
    BY <1>6, UpdateType DEF BackupError, outside
  <2>2. WorkerType'
    BY <1>6, ReturnsType DEF BackupError
  <2> QED
    BY <1>6, <2>1, <2>2, OutsideType DEF BackupError
<1>7. CASE NothingDue
  <2>1. WorkerType'
    BY <1>7, ReturnsType DEF NothingDue
  <2> QED
    BY <1>7, <2>1, SameJobs, OutsideType DEF NothingDue
<1>8. CASE BackupRefused
  <2>1. WorkerType'
    BY <1>8, ReturnsType DEF BackupRefused
  <2> QED
    BY <1>8, <2>1, SameJobs, OutsideType DEF BackupRefused
<1>9. CASE RestoreRefused
  <2>1. WorkerType'
    BY <1>9, ReturnsType DEF RestoreRefused
  <2> QED
    BY <1>9, <2>1, SameJobs, OutsideType DEF RestoreRefused
<1>10. CASE ClearFailed
  <2>1. JobsType'
    BY <1>10, RemoveType DEF ClearFailed, Remove, TypeOK, JobsType
  <2>2. frame.made \in Snapshots \cup {None}
    BY DEF TypeOK, WorkerType, Frames
  <2>3. WorkerType'
    BY <1>10, <2>2, ReturnsType DEF ClearFailed
  <2> QED
    BY <1>10, <2>1, <2>3, OutsideType DEF ClearFailed
<1> QED
  BY <1>1, <1>2, <1>3, <1>4, <1>5, <1>6, <1>7, <1>8, <1>9, <1>10

\* The steps that add a job, or find one.
LEMMA JobStepsType ==
  ASSUME TypeOK, KindInv, LocalsInv,
         \/ PickDue \/ AddBackupJob \/ AddRestoreJob \/ AddRebuild
         \/ FindBackupJob \/ FindRestoreJob
  PROVE  TypeOK'
<1> USE DEF Ops, Kinds, NoJob
<1>1. CASE PickDue
  <2>1. JobsType'
    BY <1>1, AddType DEF PickDue
  <2>2. nextJob \in Nat
    BY DEF TypeOK, JobsType
  <2>3. WorkerType'
    <3>1. PICK due \in SUBSET Services : frame' = [frame EXCEPT !.todo = due, !.parent = nextJob]
      BY <1>1 DEF PickDue
    <3>2. due \in SUBSET (Services \cup Snapshots)
      OBVIOUS
    <3>3. frame' \in Frames
      BY <3>1, <3>2, <2>2 DEF TypeOK, WorkerType, Frames
    <3> QED
      BY <1>1, <3>3 DEF PickDue, WorkerType, Labels
  <2> QED
    BY <1>1, <2>1, <2>3, OutsideType DEF PickDue
<1>2. CASE AddBackupJob
  <2>1. JobsType'
    BY <1>2, AddType DEF AddBackupJob, LocalsInv, BackupLabels
  <2>2. nextJob \in Nat
    BY DEF TypeOK, JobsType
  <2>3. WorkerType'
    BY <1>2, <2>2 DEF AddBackupJob, TypeOK, WorkerType, Frames, Labels
  <2> QED
    BY <1>2, <2>1, <2>3, OutsideType DEF AddBackupJob
<1>3. CASE AddRestoreJob
  <2>1. JobsType'
    BY <1>3, AddType DEF AddRestoreJob, LocalsInv, RestoreLabels, Snapshots
  <2>2. nextJob \in Nat
    BY DEF TypeOK, JobsType
  <2>3. WorkerType'
    BY <1>3, <2>2 DEF AddRestoreJob, TypeOK, WorkerType, Frames, Labels
  <2> QED
    BY <1>3, <2>1, <2>3, OutsideType DEF AddRestoreJob
<1>4. CASE AddRebuild
  <2>1. JobsType'
    BY <1>4, AddType DEF AddRebuild
  <2>2. nextJob \in Nat
    BY DEF TypeOK, JobsType
  <2>3. WorkerType'
    BY <1>4, <2>2 DEF AddRebuild, TypeOK, WorkerType, Frames, Labels
  <2> QED
    BY <1>4, <2>1, <2>3, OutsideType DEF AddRebuild
<1>5. CASE FindBackupJob
  <2>1. PICK j \in DOMAIN jobs : FindBackupJob!(j)
    BY <1>5 DEF FindBackupJob
  <2>2. j \in Nat
    BY <2>1 DEF TypeOK, JobsType
  <2>3. WorkerType'
    BY <2>1, <2>2 DEF TypeOK, WorkerType, Frames, Labels
  <2> QED
    BY <2>1, <2>3, SameJobs, OutsideType
<1>6. CASE FindRestoreJob
  <2>1. PICK j \in DOMAIN jobs : FindRestoreJob!(j)
    BY <1>6 DEF FindRestoreJob
  <2>2. j \in Nat
    BY <2>1 DEF TypeOK, JobsType
  <2>3. WorkerType'
    BY <2>1, <2>2 DEF TypeOK, WorkerType, Frames, Labels
  <2> QED
    BY <2>1, <2>3, SameJobs, OutsideType
<1> QED
  BY <1>1, <1>2, <1>3, <1>4, <1>5, <1>6

\* The steps that stop or start a service, or write to its data.
LEMMA ServiceStepsType ==
  ASSUME TypeOK, KindInv, LocalsInv,
         \/ StopService \/ StopTimesOut \/ StartService \/ StartTimesOut
         \/ Wipe \/ Refill \/ RefillFails \/ Revert \/ Overwrite
  PROVE  TypeOK'
<1> USE DEF Labels, Frames, Damaged
<1>1. CASE StopService
  <2>1. active' \in [Services -> BOOLEAN]
    BY <1>1 DEF StopService, TypeOK, ServicesType
  <2>2. WorkerType'
    BY <1>1 DEF StopService, TypeOK, WorkerType, ServicesType, LocalsInv, RestoreLabels
  <2> QED
    BY <1>1, <2>1, <2>2, NotActiveType DEF StopService
<1>2. CASE StopTimesOut
  <2>1. active' \in [Services -> BOOLEAN]
    BY <1>2 DEF StopTimesOut, TypeOK, ServicesType
  <2>2. WorkerType'
    BY <1>2 DEF StopTimesOut, TypeOK, WorkerType, ServicesType, LocalsInv, RestoreLabels
  <2> QED
    BY <1>2, <2>1, <2>2, NotActiveType DEF StopTimesOut
<1>3. CASE StartService
  <2>1. active' \in [Services -> BOOLEAN]
    BY <1>3 DEF StartService, TypeOK, ServicesType
  <2>2. WorkerType'
    BY <1>3 DEF StartService, TypeOK, WorkerType, ServicesType, LocalsInv, RestoreLabels
  <2> QED
    BY <1>3, <2>1, <2>2, NotActiveType DEF StartService
<1>4. CASE StartTimesOut
  <2>1. active' \in [Services -> BOOLEAN]
    BY <1>4 DEF StartTimesOut, TypeOK, ServicesType
  <2>2. WorkerType'
    BY <1>4 DEF StartTimesOut, TypeOK, WorkerType, ServicesType, LocalsInv, RestoreLabels
  <2> QED
    BY <1>4, <2>1, <2>2, NotActiveType DEF StartTimesOut
<1>5. CASE Refill
  <2>1. /\ frame.snap \in Snapshots => frame.snap.ver \in Nat
        /\ frame.made \in Snapshots => frame.made.ver \in Nat
    BY DEF Snapshots
  <2>2. data' \in [Services -> Nat]
    BY <1>5, <2>1 DEF Refill, TypeOK, ServicesType, LocalsInv, RestoreLabels, FailsafeLabels
  <2>3. WorkerType'
    BY <1>5 DEF Refill, TypeOK, WorkerType
  <2> QED
    BY <1>5, <2>2, <2>3, NotDataType DEF Refill
<1>6. CASE RefillFails
  <2>1. /\ frame.snap \in Snapshots => frame.snap.ver \in Nat
        /\ frame.made \in Snapshots => frame.made.ver \in Nat
    BY DEF Snapshots
  <2>2. data' \in [Services -> Nat]
    BY <1>6, <2>1 DEF RefillFails, TypeOK, ServicesType, LocalsInv, RestoreLabels, FailsafeLabels
  <2>3. WorkerType'
    BY <1>6 DEF RefillFails, TypeOK, WorkerType
  <2> QED
    BY <1>6, <2>2, <2>3, NotDataType DEF RefillFails
<1>7. CASE Revert
  <2>1. /\ frame.snap \in Snapshots => frame.snap.ver \in Nat
        /\ frame.made \in Snapshots => frame.made.ver \in Nat
    BY DEF Snapshots
  <2>2. data' \in [Services -> Nat]
    BY <1>7, <2>1 DEF Revert, TypeOK, ServicesType, LocalsInv, RestoreLabels, FailsafeLabels
  <2>3. WorkerType'
    BY <1>7 DEF Revert, TypeOK, WorkerType
  <2> QED
    BY <1>7, <2>2, <2>3, NotDataType DEF Revert
<1>8. CASE Overwrite
  <2>1. /\ frame.snap \in Snapshots => frame.snap.ver \in Nat
        /\ frame.made \in Snapshots => frame.made.ver \in Nat
    BY DEF Snapshots
  <2>2. data' \in [Services -> Nat]
    BY <1>8, <2>1 DEF Overwrite, TypeOK, ServicesType, LocalsInv, RestoreLabels, FailsafeLabels
  <2>3. WorkerType'
    BY <1>8 DEF Overwrite, TypeOK, WorkerType
  <2> QED
    BY <1>8, <2>2, <2>3, NotDataType DEF Overwrite
<1>9. CASE Wipe
  <2>1. JobsType'
    BY <1>9, UpdateType DEF Wipe, Status, LiveStatus
  <2>2. data' \in [Services -> Nat]
    BY <1>9 DEF Wipe, TypeOK, ServicesType
  <2>3. WorkerType'
    BY <1>9 DEF Wipe, TypeOK, WorkerType
  <2> QED
    BY <1>9, <2>1, <2>2, <2>3 DEF Wipe, notData, TypeOK, TasksType, RepoType, ServicesType,
       CountersType, repoVars, setVars, countVars
<1> QED
  BY <1>1, <1>2, <1>3, <1>4, <1>5, <1>6, <1>7, <1>8, <1>9

\* The other steps that only go on, with something new in a local.
LEMMA LocalStepsType ==
  ASSUME TypeOK, KindInv, LocalsInv,
         \/ NextBackup \/ NextRestore \/ StartFullRestore \/ NotDead \/ Download \/ PostRestore
  PROVE  TypeOK'
<1> USE DEF NoJob, Strategies
<1>1. CASE NextBackup
  <2>1. PICK s \in frame.todo : NextBackup!(s)
    BY <1>1 DEF NextBackup
  <2>2. s \in Services
    BY <2>1 DEF KindInv, LocalsInv
  <2>3. WorkerType'
    BY <2>1, <2>2 DEF TypeOK, WorkerType, Frames, Labels
  <2> QED
    BY <2>1, <2>3, SameJobs, OutsideType
<1>2. CASE NextRestore
  <2>1. PICK snap \in frame.todo : NextRestore!(snap)
    BY <1>2 DEF NextRestore
  <2>2. snap \in Snapshots /\ snap.svc \in Services
    BY <2>1 DEF KindInv, LocalsInv, FullLabels, Snapshots
  <2>3. frame' \in Frames
    BY <2>1, <2>2 DEF TypeOK, WorkerType, Frames
  <2>4. WorkerType'
    BY <2>1, <2>3 DEF WorkerType, Labels
  <2> QED
    BY <2>1, <2>4, SameJobs, OutsideType
<1>3. CASE StartFullRestore
  <2>1. PICK slice \in Slices : StartFullRestore!(slice)
    BY <1>3 DEF StartFullRestore
  <2>2. slice \subseteq Snapshots
    BY DEF Slices, Newest, ConfigSnapshots, TypeOK, RepoType
  <2>3. JobsType'
    BY <2>1, UpdateType DEF Status, LiveStatus
  <2>4. slice \in SUBSET (Services \cup Snapshots)
    BY <2>2
  <2>5. frame' \in Frames
    BY <2>1, <2>4 DEF TypeOK, WorkerType, Frames
  <2>6. WorkerType'
    BY <2>1, <2>5 DEF WorkerType, Labels
  <2> QED
    BY <2>1, <2>3, <2>6, OutsideType
<1>4. CASE NotDead
  <2>1. WorkerType'
    BY <1>4 DEF NotDead, TypeOK, WorkerType, Frames, Labels
  <2> QED
    BY <1>4, <2>1, SameJobs, OutsideType DEF NotDead
<1>5. CASE Download
  <2>1. JobsType'
    BY <1>5, UpdateType DEF Download, Status, LiveStatus
  <2>2. WorkerType'
    BY <1>5 DEF Download, TypeOK, WorkerType, Frames, Labels
  <2> QED
    BY <1>5, <2>1, <2>2, OutsideType DEF Download
<1>6. CASE PostRestore
  <2>1. JobsType'
    BY <1>6, UpdateType, SameJobs DEF PostRestore, Status, LiveStatus, jobVars
  <2>2. WorkerType'
    BY <1>6 DEF PostRestore, TypeOK, WorkerType, Frames, Labels
  <2> QED
    BY <1>6, <2>1, <2>2, OutsideType DEF PostRestore
<1> QED
  BY <1>1, <1>2, <1>3, <1>4, <1>5, <1>6

\* The steps that change the queue, the setting of autobackup or the snapshots.
LEMMA SharedStepsType ==
  ASSUME TypeOK, KindInv, LocalsInv, QueueInv,
         TakeTask \/ StartAutobackup \/ FinishParent \/ Upload \/ Register
  PROVE  TypeOK'
<1>1. CASE TakeTask
  <2>1. Head(queue) \in Tasks /\ Tail(queue) \in Seq(Tasks)
    BY <1>1, HeadType DEF TakeTask
  <2>2. frame' \in Frames
    BY <1>1, <2>1, EmptyFrameType DEF TakeTask, Frames, Tasks, NoJob
  <2>3. pc' \in Labels
    BY <1>1, <2>1 DEF TakeTask, Tasks, Kinds, Labels
  <2>4. TasksType'
    BY <1>1, <2>1 DEF TakeTask, TypeOK, TasksType
  <2> QED
    BY <1>1, <2>2, <2>3, <2>4 DEF TakeTask, TypeOK, JobsType, WorkerType, RepoType,
       ServicesType, CountersType, jobVars, repoVars, svcVars, setVars, countVars
<1>2. CASE StartAutobackup
  <2>1. WorkerType'
    BY <1>2 DEF StartAutobackup, TypeOK, WorkerType, Frames, Labels
  <2> QED
    BY <1>2, <2>1 DEF StartAutobackup, TypeOK, JobsType, TasksType, RepoType,
       ServicesType, CountersType, jobVars, repoVars, svcVars, countVars
<1>3. CASE FinishParent
  <2>1. JobsType'
    BY <1>3, UpdateType DEF FinishParent, Status, TerminalStatus
  <2>2. WorkerType'
    BY <1>3, IdleType DEF FinishParent
  <2> QED
    BY <1>3, <2>1, <2>2 DEF FinishParent, TypeOK, TasksType, RepoType,
       ServicesType, CountersType, repoVars, svcVars, countVars
<1>4. CASE Upload
  <2> DEFINE snap == [id |-> nextSnap, svc |-> frame.svc, ver |-> data[frame.svc],
                      reason |-> BackupReason]
  <2>1. frame.svc \in Services /\ data[frame.svc] \in Nat /\ nextSnap \in Nat
    BY <1>4 DEF Upload, LocalsInv, BackupLabels, TypeOK, ServicesType, RepoType
  <2>2. BackupReason \in Reasons
    BY DEF BackupReason, Reasons
  <2>3. snap \in Snapshots
    BY <2>1, <2>2 DEF Snapshots
  <2>4. RepoType'
    BY <1>4, <2>1, <2>3 DEF Upload, TypeOK, RepoType
  <2>5. WorkerType'
    BY <1>4, <2>3 DEF Upload, TypeOK, WorkerType, Frames, Labels
  <2> QED
    BY <1>4, <2>4, <2>5 DEF Upload, TypeOK, JobsType, TasksType, ServicesType,
       CountersType, jobVars, svcVars, setVars, countVars
<1>5. CASE Register
  <2>1. RepoType'
    BY <1>5 DEF Register, TypeOK, RepoType
  <2>2. WorkerType'
    BY <1>5 DEF Register, TypeOK, WorkerType, Labels
  <2> QED
    BY <1>5, <2>1, <2>2 DEF Register, TypeOK, JobsType, TasksType, ServicesType,
       CountersType, jobVars, svcVars, setVars, countVars
<1> QED
  BY <1>1, <1>2, <1>3, <1>4, <1>5

\* Every step keeps the types, given what the control points mean.
LEMMA TypeStep ==
  ASSUME TypeOK, KindInv, LocalsInv, QueueInv, [Next]_vars
  PROVE  TypeOK'
<1>1. CASE UNCHANGED vars
  BY <1>1 DEF vars, TypeOK, JobsType, TasksType, WorkerType, RepoType, ServicesType,
     CountersType, jobVars, workVars, repoVars, svcVars, setVars, countVars
<1>2. CASE ApiStep
  BY <1>2, ApiType
<1>3. CASE Environment
  BY <1>3, ApiType, EnvironmentType DEF Environment
<1>4. CASE TakeTask
  BY <1>4, SharedStepsType
<1>5. CASE BackUp
  BY <1>5, MarksAndSkipsType, EndsType, JobStepsType, SharedStepsType DEF BackUp
<1>6. CASE RestoreSnapshot
  BY <1>6, MarksAndSkipsType, EndsType, JobStepsType, ServiceStepsType, LocalStepsType
     DEF RestoreSnapshot
<1>7. CASE TasksOverSeveral
  BY <1>7, MarksAndSkipsType, EndsType, JobStepsType, LocalStepsType, SharedStepsType
     DEF TasksOverSeveral
<1> QED
  BY <1>1, <1>2, <1>3, <1>4, <1>5, <1>6, <1>7 DEF Next, WorkerStep

\* At rest nothing is asked of the locals.
LEMMA IdleControl == ASSUME Idle PROVE KindInv' /\ LocalsInv'
  BY DEF Idle, EmptyFrame, KindInv, LocalsInv, BackupLabels, RestoreLabels, FailsafeLabels,
         FullLabels, Several

\* back_up returns to a control point of its caller, whichever that is.
LEMMA BackupReturnsControl ==
  ASSUME TypeOK, KindInv, LocalsInv,
         pc \in {"add_backup", "clear_failed", "backup_error"},
         BackupRaises \/ (pc = "clear_failed" /\ AfterBackup(frame.made))
  PROVE  KindInv' /\ LocalsInv'
<1> USE DEF KindInv, LocalsInv, BackupLabels, RestoreLabels, FailsafeLabels, FullLabels, Several
<1>0. frame \in Frames /\ frame.kind \in Kinds /\ frame.svc \in Services
  BY DEF TypeOK, WorkerType, Frames
<1>1. CASE frame.kind = "backup"
  BY <1>1, IdleControl DEF BackupRaises, AfterBackup
<1>2. CASE frame.kind = "restore"
  <2>1. frame.snap \in Snapshots /\ (pc = "clear_failed" => frame.made \in Snapshots)
    BY <1>2
  <2>2. CASE BackupRaises
    <3>1. pc' = "start_service" /\ frame' = [frame EXCEPT !.failed = TRUE]
      BY <1>2, <2>2 DEF BackupRaises
    <3> QED
      BY <1>0, <1>2, <2>1, <3>1 DEF Frames
  <2>3. CASE pc = "clear_failed" /\ AfterBackup(frame.made)
    <3>1. pc' = "wipe" /\ frame' = [frame EXCEPT !.made = frame.made]
      BY <1>2, <2>3 DEF AfterBackup
    <3> QED
      BY <1>0, <1>2, <2>1, <2>3, <3>1 DEF Frames
  <2> QED
    BY <2>2, <2>3
<1>3. CASE frame.kind \notin {"backup", "restore"}
  <2>1. pc' \in {"parent_error", "next_backup"} /\ frame' = frame
    BY <1>3 DEF BackupRaises, AfterBackup
  <2>2. frame.kind \in {"total_backup", "autobackup"}
    BY <1>0, <1>3 DEF Kinds
  <2> QED
    BY <2>1, <2>2
<1> QED
  BY <1>1, <1>2, <1>3

\* Every step of the worker goes to a control point that fits the task and its
\* locals.
LEMMA ControlStep ==
  ASSUME TypeOK, KindInv, LocalsInv, QueueInv, WorkerStep
  PROVE  KindInv' /\ LocalsInv'
<1> USE DEF KindInv, LocalsInv, BackupLabels, RestoreLabels, FailsafeLabels, FullLabels, Several
<1>0. frame \in Frames
  BY DEF TypeOK, WorkerType
<1>1. CASE TakeTask
  <2>1. Head(queue) \in Tasks /\ TaskOK(Head(queue))
    BY <1>1, HeadType DEF TakeTask
  <2>2. /\ frame'.kind = Head(queue).kind
        /\ frame'.svc = Head(queue).svc
        /\ frame'.snap = Head(queue).snap
        /\ frame'.todo = IF Head(queue).kind = "total_backup" THEN Services ELSE {}
    BY <1>1 DEF TakeTask, EmptyFrame
  <2>3. pc' \in {"find_backup", "find_restore", "run_parent", "autobackup", "full_restore"}
    BY <1>1, <2>1 DEF TakeTask, Tasks, Kinds
  <2> QED
    BY <1>1, <2>1, <2>2, <2>3 DEF TakeTask, TaskOK, Tasks, Kinds
<1>2. CASE StartAutobackup
  BY <1>2, <1>0 DEF StartAutobackup, Frames
<1>3. CASE NothingDue
  BY <1>3, IdleControl DEF NothingDue
<1>4. CASE PickDue
  BY <1>4, <1>0 DEF PickDue, Frames
<1>5. CASE RunParent
  BY <1>5 DEF RunParent, Mark
<1>6. CASE NextBackup
  BY <1>6, <1>0 DEF NextBackup, Frames
<1>7. CASE FinishParent
  BY <1>7, IdleControl DEF FinishParent
<1>8. CASE ParentError
  BY <1>8, IdleControl DEF ParentError
<1>9. CASE FindBackupJob
  BY <1>9, <1>0 DEF FindBackupJob, Frames
<1>10. CASE NoBackupJob
  BY <1>10 DEF NoBackupJob, Skip
<1>11. CASE AddBackupJob
  BY <1>11, <1>0 DEF AddBackupJob, Frames
<1>12. CASE BackupRefused
  BY <1>12, BackupReturnsControl DEF BackupRefused
<1>13. CASE RunBackup
  BY <1>13 DEF RunBackup, Mark
<1>14. CASE ReportProgress
  BY <1>14 DEF ReportProgress, Mark
<1>15. CASE NoProgress
  BY <1>15 DEF NoProgress, Skip
<1>16. CASE Upload
  <2> DEFINE snap == [id |-> nextSnap, svc |-> frame.svc, ver |-> data[frame.svc],
                      reason |-> BackupReason]
  <2>1. frame.svc \in Services /\ data[frame.svc] \in Nat /\ nextSnap \in Nat
    BY <1>16 DEF Upload, TypeOK, ServicesType, RepoType
  <2>2. BackupReason \in Reasons
    BY DEF BackupReason, Reasons
  <2>3. snap \in Snapshots
    BY <2>1, <2>2 DEF Snapshots
  <2>4. pc = "upload" /\ pc' = "register" /\ frame' = [frame EXCEPT !.made = snap]
    BY <1>16 DEF Upload
  <2> QED
    BY <1>0, <2>1, <2>3, <2>4 DEF Frames
<1>17. CASE UploadFails
  BY <1>17 DEF UploadFails, Skip
<1>18. CASE Register
  BY <1>18, <1>0 DEF Register, Frames
<1>19. CASE FinishBackup
  BY <1>19 DEF FinishBackup, Mark
<1>20. CASE ClearFailed
  BY <1>20, BackupReturnsControl DEF ClearFailed
<1>21. CASE BackupError
  BY <1>21, BackupReturnsControl DEF BackupError
<1>22. CASE FindRestoreJob
  BY <1>22, <1>0 DEF FindRestoreJob, Frames
<1>23. CASE NoRestoreJob
  BY <1>23 DEF NoRestoreJob, Skip
<1>24. CASE AddRestoreJob
  BY <1>24, <1>0 DEF AddRestoreJob, Frames
<1>25. CASE RestoreRefused
  BY <1>25, <1>0, IdleControl DEF RestoreRefused, RestoreRaises, Frames
<1>26. CASE QueueRestore
  BY <1>26 DEF QueueRestore, Mark
<1>27. CASE CheckRestore
  BY <1>27 DEF CheckRestore, Mark
<1>28. CASE NotRestorable
  BY <1>28 DEF NotRestorable, Skip
<1>29. CASE StopService
  BY <1>29, <1>0 DEF StopService, Frames
<1>30. CASE StopTimesOut
  BY <1>30, <1>0 DEF StopTimesOut, Frames
<1>31. CASE AssertDead
  BY <1>31 DEF AssertDead, Skip
<1>32. CASE NotDead
  BY <1>32, <1>0 DEF NotDead, Frames
<1>33. CASE AwaitFailsafe
  BY <1>33 DEF AwaitFailsafe, Mark
<1>34. CASE Wipe
  BY <1>34, <1>0 DEF Wipe, Frames
<1>35. CASE Refill
  BY <1>35, <1>0 DEF Refill, Frames
<1>36. CASE RefillFails
  BY <1>36, <1>0 DEF RefillFails, Frames
<1>37. CASE RevertError
  BY <1>37 DEF RevertError, Mark
<1>38. CASE Revert
  BY <1>38, <1>0 DEF Revert, Frames
<1>39. CASE Download
  BY <1>39, <1>0 DEF Download, Frames
<1>40. CASE Overwrite
  BY <1>40, <1>0 DEF Overwrite, Frames
<1>41. CASE PostRestore
  BY <1>41, <1>0 DEF PostRestore, Frames
<1>42. CASE StartService
  BY <1>42, <1>0 DEF StartService, Frames
<1>43. CASE StartTimesOut
  BY <1>43, <1>0 DEF StartTimesOut, Frames
<1>44. CASE FinishRestore
  BY <1>44, <1>0, IdleControl DEF FinishRestore, RestoreReturns, Frames
<1>45. CASE RestoreError
  BY <1>45, <1>0, IdleControl DEF RestoreError, RestoreRaises, Frames
<1>46. CASE StartFullRestore
  <2>1. PICK slice \in Slices : StartFullRestore!(slice)
    BY <1>46 DEF StartFullRestore
  <2>2. slice \subseteq Snapshots
    BY DEF Slices, Newest, ConfigSnapshots, TypeOK, RepoType
  <2> QED
    BY <1>0, <2>1, <2>2 DEF Frames
<1>47. CASE NoConfigSnapshot
  BY <1>47, IdleControl DEF NoConfigSnapshot
<1>48. CASE NextRestore
  <2>1. PICK snap \in frame.todo : NextRestore!(snap)
    BY <1>48 DEF NextRestore
  <2>2. frame.kind = "full_restore" /\ frame.todo \subseteq Snapshots
    BY <2>1
  <2>3. snap \in Snapshots /\ snap.svc \in Services
    BY <2>1, <2>2 DEF Snapshots
  <2>4. /\ frame'.kind = "full_restore" /\ frame'.svc = snap.svc /\ frame'.snap = snap
        /\ frame'.todo = frame.todo \ {snap} /\ pc' = "find_restore"
        /\ frame'.strategy = "DOWNLOAD_VERIFY_OVERWRITE"
    BY <1>0, <2>1, <2>2 DEF Frames
  <2> QED
    BY <2>2, <2>3, <2>4
<1>49. CASE AddRebuild
  BY <1>49, <1>0 DEF AddRebuild, Frames
<1>50. CASE StartRebuild
  BY <1>50 DEF StartRebuild, Mark
<1>51. CASE EndRebuild
  BY <1>51 DEF EndRebuild, Mark
<1>52. CASE FinishFullRestore
  BY <1>52, IdleControl DEF FinishFullRestore
<1> QED
  BY <1>1, <1>2, <1>3, <1>4, <1>5, <1>6, <1>7, <1>8, <1>9, <1>10, <1>11, <1>12,
     <1>13, <1>14, <1>15, <1>16, <1>17, <1>18, <1>19, <1>20, <1>21, <1>22, <1>23, <1>24,
     <1>25, <1>26, <1>27, <1>28, <1>29, <1>30, <1>31, <1>32, <1>33, <1>34, <1>35, <1>36,
     <1>37, <1>38, <1>39, <1>40, <1>41, <1>42, <1>43, <1>44, <1>45, <1>46, <1>47, <1>48,
     <1>49, <1>50, <1>51, <1>52
     DEF WorkerStep, BackUp, RestoreSnapshot, TasksOverSeveral

\* Once it took a task, the worker touches neither the queue nor the API process.
LEMMA WorkerLeavesQueue ==
  ASSUME WorkerStep, ~TakeTask
  PROVE  UNCHANGED <<queue, api>>
<1> USE DEF outside, notActive, notData
<1>1. CASE StartAutobackup
  BY <1>1 DEF StartAutobackup
<1>2. CASE NothingDue
  BY <1>2 DEF NothingDue
<1>3. CASE PickDue
  BY <1>3 DEF PickDue
<1>4. CASE RunParent
  BY <1>4 DEF RunParent, Mark
<1>5. CASE NextBackup
  BY <1>5 DEF NextBackup
<1>6. CASE FinishParent
  BY <1>6 DEF FinishParent
<1>7. CASE ParentError
  BY <1>7 DEF ParentError
<1>8. CASE FindBackupJob
  BY <1>8 DEF FindBackupJob
<1>9. CASE NoBackupJob
  BY <1>9 DEF NoBackupJob, Skip
<1>10. CASE AddBackupJob
  BY <1>10 DEF AddBackupJob
<1>11. CASE BackupRefused
  BY <1>11 DEF BackupRefused
<1>12. CASE RunBackup
  BY <1>12 DEF RunBackup, Mark
<1>13. CASE ReportProgress
  BY <1>13 DEF ReportProgress, Mark
<1>14. CASE NoProgress
  BY <1>14 DEF NoProgress, Skip
<1>15. CASE Upload
  BY <1>15 DEF Upload
<1>16. CASE UploadFails
  BY <1>16 DEF UploadFails, Skip
<1>17. CASE Register
  BY <1>17 DEF Register
<1>18. CASE FinishBackup
  BY <1>18 DEF FinishBackup, Mark
<1>19. CASE ClearFailed
  BY <1>19 DEF ClearFailed
<1>20. CASE BackupError
  BY <1>20 DEF BackupError
<1>21. CASE FindRestoreJob
  BY <1>21 DEF FindRestoreJob
<1>22. CASE NoRestoreJob
  BY <1>22 DEF NoRestoreJob, Skip
<1>23. CASE AddRestoreJob
  BY <1>23 DEF AddRestoreJob
<1>24. CASE RestoreRefused
  BY <1>24 DEF RestoreRefused
<1>25. CASE QueueRestore
  BY <1>25 DEF QueueRestore, Mark
<1>26. CASE CheckRestore
  BY <1>26 DEF CheckRestore, Mark
<1>27. CASE NotRestorable
  BY <1>27 DEF NotRestorable, Skip
<1>28. CASE StopService
  BY <1>28 DEF StopService
<1>29. CASE StopTimesOut
  BY <1>29 DEF StopTimesOut
<1>30. CASE AssertDead
  BY <1>30 DEF AssertDead, Skip
<1>31. CASE NotDead
  BY <1>31 DEF NotDead
<1>32. CASE AwaitFailsafe
  BY <1>32 DEF AwaitFailsafe, Mark
<1>33. CASE Wipe
  BY <1>33 DEF Wipe
<1>34. CASE Refill
  BY <1>34 DEF Refill
<1>35. CASE RefillFails
  BY <1>35 DEF RefillFails
<1>36. CASE RevertError
  BY <1>36 DEF RevertError, Mark
<1>37. CASE Revert
  BY <1>37 DEF Revert
<1>38. CASE Download
  BY <1>38 DEF Download
<1>39. CASE Overwrite
  BY <1>39 DEF Overwrite
<1>40. CASE PostRestore
  BY <1>40 DEF PostRestore
<1>41. CASE StartService
  BY <1>41 DEF StartService
<1>42. CASE StartTimesOut
  BY <1>42 DEF StartTimesOut
<1>43. CASE FinishRestore
  BY <1>43 DEF FinishRestore
<1>44. CASE RestoreError
  BY <1>44 DEF RestoreError
<1>45. CASE StartFullRestore
  BY <1>45 DEF StartFullRestore
<1>46. CASE NoConfigSnapshot
  BY <1>46 DEF NoConfigSnapshot
<1>47. CASE NextRestore
  BY <1>47 DEF NextRestore
<1>48. CASE AddRebuild
  BY <1>48 DEF AddRebuild
<1>49. CASE StartRebuild
  BY <1>49 DEF StartRebuild, Mark
<1>50. CASE EndRebuild
  BY <1>50 DEF EndRebuild, Mark
<1>51. CASE FinishFullRestore
  BY <1>51 DEF FinishFullRestore
<1> QED
  BY <1>1, <1>2, <1>3, <1>4, <1>5, <1>6, <1>7, <1>8, <1>9, <1>10, <1>11, <1>12,
     <1>13, <1>14, <1>15, <1>16, <1>17, <1>18, <1>19, <1>20, <1>21, <1>22, <1>23, <1>24,
     <1>25, <1>26, <1>27, <1>28, <1>29, <1>30, <1>31, <1>32, <1>33, <1>34, <1>35, <1>36,
     <1>37, <1>38, <1>39, <1>40, <1>41, <1>42, <1>43, <1>44, <1>45, <1>46, <1>47, <1>48,
     <1>49, <1>50, <1>51
     DEF WorkerStep, BackUp, RestoreSnapshot, TasksOverSeveral

\* What is not the worker's leaves its control point alone, or puts it to rest.
LEMMA OthersControl ==
  ASSUME KindInv, LocalsInv, ApiStep \/ Environment \/ UNCHANGED vars
  PROVE  KindInv' /\ LocalsInv'
<1>1. UNCHANGED <<pc, frame>> \/ Idle
  BY DEF ApiStep, Environment, ApiAddJob, ApiEnqueue, RequestBackup, RequestRestore,
     RequestTotal, Accept, RemoveJob, SetPeriod, UserStarts, UserStops, ForgetSnapshot,
     ServiceWrites, ExpireJob, ScheduleAutobackup, ApiCrash, WorkerCrash, Idle, workVars, vars
<1>2. CASE UNCHANGED <<pc, frame>>
  BY <1>2 DEF KindInv, LocalsInv
<1> QED
  BY <1>1, <1>2, IdleControl

\* The tasks on the queue, and the one a mutation is about to put there, name
\* what their kind needs.
LEMMA QueueStep ==
  ASSUME TypeOK, QueueInv, [Next]_vars
  PROVE  QueueInv'
<1> USE DEF QueueInv
<1>0. queue \in Seq(Tasks) /\ api.task \in Tasks
  BY DEF TypeOK, TasksType
<1>1. CASE UNCHANGED <<queue, api>>
  BY <1>1
<1>2. CASE TakeTask
  <2>1. queue' = Tail(queue) /\ api' = api /\ queue # <<>>
    BY <1>2 DEF TakeTask
  <2>2. \A i \in 1 .. Len(queue') : queue'[i] = queue[i + 1] /\ i + 1 \in 1 .. Len(queue)
    BY <1>0, <2>1
  <2> QED
    BY <2>1, <2>2
<1>3. CASE ApiEnqueue
  <2>1. TaskOK(api.task) /\ queue' = Append(queue, api.task) /\ api'.pc = "idle"
    BY <1>3 DEF ApiEnqueue
  <2> QED
    BY <1>0, <2>1
<1>4. CASE ScheduleAutobackup
  <2> DEFINE t == [NoTask EXCEPT !.kind = "autobackup"]
  <2>1. TaskOK(t) /\ queue' = Append(queue, t) /\ api' = api
    BY <1>4 DEF ScheduleAutobackup, TaskOK, NoTask
  <2> QED
    BY <1>0, <2>1
<1>5. CASE ApiAddJob
  <2>1. /\ api'.task = [api.task EXCEPT !.job = nextJob]
        /\ queue' = queue /\ TaskOK(api.task)
    BY <1>5 DEF ApiAddJob
  <2>2. TaskOK(api'.task)
    BY <1>0, <2>1 DEF TaskOK, Tasks
  <2> QED
    BY <2>1, <2>2
<1>6. CASE RequestBackup \/ RequestRestore \/ RequestTotal
  <2>1. PICK t : Accept(t) /\ TaskOK(t)
    <3>1. CASE RequestBackup
      <4>1. PICK s \in Services : Accept([NoTask EXCEPT !.kind = "backup", !.svc = s])
        BY <3>1 DEF RequestBackup
      <4>2. TaskOK([NoTask EXCEPT !.kind = "backup", !.svc = s])
        BY DEF TaskOK, NoTask
      <4> QED
        BY <4>1, <4>2
    <3>2. CASE RequestRestore
      <4>1. PICK snap \in repo, strategy \in Strategies :
               Accept([NoTask EXCEPT !.kind = "restore", !.svc = snap.svc,
                                     !.snap = snap, !.strategy = strategy])
        BY <3>2 DEF RequestRestore
      <4>2. snap \in Snapshots /\ snap.svc \in Services
        BY DEF TypeOK, RepoType, Snapshots
      <4>3. TaskOK([NoTask EXCEPT !.kind = "restore", !.svc = snap.svc,
                                  !.snap = snap, !.strategy = strategy])
        BY <4>2 DEF TaskOK, NoTask
      <4> QED
        BY <4>1, <4>3
    <3>3. CASE RequestTotal
      BY <3>3 DEF RequestTotal, TaskOK, NoTask
    <3> QED
      BY <1>6, <3>1, <3>2, <3>3
  <2> QED
    BY <2>1 DEF Accept
<1>7. CASE ApiCrash
  BY <1>7 DEF ApiCrash
<1>8. CASE RemoveJob \/ SetPeriod \/ UserStarts \/ UserStops \/ ForgetSnapshot
           \/ ServiceWrites \/ ExpireJob \/ WorkerCrash
  BY <1>1, <1>8 DEF RemoveJob, SetPeriod, UserStarts, UserStops, ForgetSnapshot,
     ServiceWrites, ExpireJob, WorkerCrash
<1>9. CASE UNCHANGED vars
  BY <1>1, <1>9 DEF vars
<1>10. CASE WorkerStep
  BY <1>1, <1>2, <1>10, WorkerLeavesQueue
<1> QED
  BY <1>3, <1>4, <1>5, <1>6, <1>7, <1>8, <1>9, <1>10 DEF Next, ApiStep, Environment

\* TypeOK is no inductive invariant: what a step stores has its type only because
\* of what the control point, the locals and the queued tasks promise.
TypeInv == TypeOK /\ KindInv /\ LocalsInv /\ QueueInv

\* TypeInv holds initially.
LEMMA TypeInvInit == Init => TypeInv
<1> SUFFICES ASSUME Init PROVE TypeInv
  OBVIOUS
<1>1. pc = "idle" /\ frame = EmptyFrame
  BY DEF Init
<1>2. KindInv /\ LocalsInv
  BY <1>1 DEF EmptyFrame, KindInv, LocalsInv, BackupLabels, RestoreLabels,
     FailsafeLabels, FullLabels, Several
<1>3. QueueInv
  BY DEF Init, QueueInv
<1> QED
  BY <1>2, <1>3, InitType DEF TypeInv

\* Every step keeps TypeInv.
LEMMA TypeInvStep == TypeInv /\ [Next]_vars => TypeInv'
<1> SUFFICES ASSUME TypeInv, [Next]_vars PROVE TypeInv'
  OBVIOUS
<1>1. TypeOK'
  BY TypeStep DEF TypeInv
<1>2. KindInv' /\ LocalsInv'
  BY ControlStep, OthersControl DEF TypeInv, Next
<1>3. QueueInv'
  BY QueueStep DEF TypeInv
<1> QED
  BY <1>1, <1>2, <1>3 DEF TypeInv

\* Whatever the API process, the worker and the world around them do, every
\* variable keeps its type, and the locals of the worker's functions are defined
\* where they are used.
THEOREM TypeInvariance == Spec => [](TypeOK /\ KindInv /\ LocalsInv /\ QueueInv)
<1>1. Spec => []TypeInv
  BY TypeInvInit, TypeInvStep, PTL DEF Spec
<1> QED
  BY <1>1 DEF TypeInv

\* In particular every variable of Backup keeps its type.
THEOREM TypeCorrect == Spec => []TypeOK
<1>1. TypeOK /\ KindInv /\ LocalsInv /\ QueueInv => TypeOK
  OBVIOUS
<1> QED
  BY <1>1, TypeInvariance, PTL

\* At rest nothing is stopped and nothing is covered.
LEMMA IdleSafety == ASSUME Idle PROVE StoppedInv' /\ FailsafeInv'
  BY DEF Idle, StoppedInv, FailsafeInv, EmptyFrame, Overwriting, BackupLabels

\* A service is stopped before its data is touched, and the failsafe is made of
\* what the stopped service has: every step of the worker keeps that.
LEMMA WorkerSafety ==
  ASSUME TypeOK, KindInv, LocalsInv, QueueInv, StoppedInv, FailsafeInv, WorkerStep
  PROVE  StoppedInv' /\ FailsafeInv'
<1> USE DEF StoppedInv, FailsafeInv, Overwriting, BackupLabels
<1>0. frame \in Frames /\ frame.svc \in Services \cup {None} /\ frame.kind \in Kinds
  BY DEF TypeOK, WorkerType, Frames
<1>1. CASE TakeTask
  <2>1. Head(queue) \in Tasks /\ TaskOK(Head(queue))
    BY <1>1, HeadType DEF TakeTask
  <2>2. frame'.kind = Head(queue).kind
    BY <1>1 DEF TakeTask, EmptyFrame
  <2>3. /\ pc' \in {"find_backup", "find_restore", "run_parent", "autobackup", "full_restore"}
        /\ pc' = "find_backup" => Head(queue).kind = "backup"
    BY <1>1, <2>1 DEF TakeTask, Tasks, Kinds
  <2> QED
    BY <2>2, <2>3
<1>2. CASE StartAutobackup
  BY <1>2, <1>0 DEF StartAutobackup, Frames, outside, svcVars, repoVars
<1>3. CASE NothingDue
  BY <1>3, IdleSafety DEF NothingDue
<1>4. CASE PickDue
  BY <1>4, <1>0 DEF PickDue, Frames, outside, svcVars, repoVars
<1>5. CASE RunParent
  BY <1>5 DEF RunParent, Mark, outside, svcVars, repoVars
<1>6. CASE NextBackup
  <2>1. frame.kind \in {"total_backup", "autobackup"} /\ pc' = "find_backup"
    BY <1>6 DEF NextBackup, KindInv
  <2>2. frame'.kind = frame.kind
    BY <1>6, <1>0 DEF NextBackup, Frames
  <2> QED
    BY <2>1, <2>2
<1>7. CASE FinishParent
  BY <1>7, IdleSafety DEF FinishParent
<1>8. CASE ParentError
  BY <1>8, IdleSafety DEF ParentError
<1>9. CASE FindBackupJob
  BY <1>9, <1>0 DEF FindBackupJob, Frames, outside, svcVars, repoVars
<1>10. CASE NoBackupJob
  BY <1>10 DEF NoBackupJob, Skip, outside, svcVars, repoVars
<1>11. CASE AddBackupJob
  BY <1>11, <1>0 DEF AddBackupJob, Frames, outside, svcVars, repoVars
<1>12. CASE BackupRefused
  BY <1>12, <1>0, IdleSafety DEF BackupRefused, BackupRaises, Frames, outside, svcVars, repoVars
<1>13. CASE RunBackup
  BY <1>13 DEF RunBackup, Mark, outside, svcVars, repoVars
<1>14. CASE ReportProgress
  BY <1>14 DEF ReportProgress, Mark, outside, svcVars, repoVars
<1>15. CASE NoProgress
  BY <1>15 DEF NoProgress, Skip, outside, svcVars, repoVars
<1>16. CASE Upload
  <2> DEFINE snap == [id |-> nextSnap, svc |-> frame.svc, ver |-> data[frame.svc],
                      reason |-> BackupReason]
  <2>1. /\ pc = "upload" /\ pc' = "register"
        /\ frame'.made = snap /\ frame'.kind = frame.kind /\ frame'.svc = frame.svc
        /\ repo' = repo \cup {snap} /\ active' = active /\ data' = data
    BY <1>16, <1>0 DEF Upload, Frames, svcVars
  <2>2. frame.kind = "restore" => BackupReason = "PRE_RESTORE"
    BY DEF BackupReason
  <2>3. snap.ver = data[frame.svc] /\ snap.svc = frame.svc /\ snap.reason = BackupReason
    OBVIOUS
  <2> HIDE DEF snap
  <2> QED
    BY <2>1, <2>2, <2>3
<1>17. CASE UploadFails
  BY <1>17 DEF UploadFails, Skip, outside, svcVars, repoVars
<1>18. CASE Register
  BY <1>18, <1>0 DEF Register, Frames, outside, svcVars, repoVars
<1>19. CASE FinishBackup
  BY <1>19 DEF FinishBackup, Mark, outside, svcVars, repoVars
<1>20. CASE ClearFailed
  BY <1>20, <1>0, IdleSafety DEF ClearFailed, AfterBackup, BackupRaises, Frames, outside, svcVars, repoVars
<1>21. CASE BackupError
  BY <1>21, <1>0, IdleSafety DEF BackupError, BackupRaises, Frames, outside, svcVars, repoVars
<1>22. CASE FindRestoreJob
  BY <1>22, <1>0 DEF FindRestoreJob, Frames, outside, svcVars, repoVars
<1>23. CASE NoRestoreJob
  BY <1>23 DEF NoRestoreJob, Skip, outside, svcVars, repoVars
<1>24. CASE AddRestoreJob
  BY <1>24, <1>0 DEF AddRestoreJob, Frames, outside, svcVars, repoVars
<1>25. CASE RestoreRefused
  BY <1>25, <1>0, IdleSafety DEF RestoreRefused, RestoreRaises, Frames, outside, svcVars, repoVars
<1>26. CASE QueueRestore
  BY <1>26 DEF QueueRestore, Mark, outside, svcVars, repoVars
<1>27. CASE CheckRestore
  BY <1>27 DEF CheckRestore, Mark, outside, svcVars, repoVars
<1>28. CASE NotRestorable
  BY <1>28 DEF NotRestorable, Skip, outside, svcVars, repoVars
<1>29. CASE StopService
  BY <1>29, <1>0 DEF StopService, Frames, notActive, repoVars
<1>30. CASE StopTimesOut
  BY <1>30, <1>0 DEF StopTimesOut, Frames, notActive, repoVars
<1>31. CASE AssertDead
  BY <1>31 DEF AssertDead, Skip, outside, svcVars, repoVars
<1>32. CASE NotDead
  BY <1>32, <1>0 DEF NotDead, Frames, outside, svcVars, repoVars
<1>33. CASE AwaitFailsafe
  BY <1>33 DEF AwaitFailsafe, Mark, outside, svcVars, repoVars
<1>34. CASE Wipe
  BY <1>34, <1>0 DEF Wipe, Frames, notData, repoVars
<1>35. CASE Refill
  BY <1>35, <1>0 DEF Refill, Frames, notData, repoVars
<1>36. CASE RefillFails
  BY <1>36, <1>0 DEF RefillFails, Frames, notData, repoVars
<1>37. CASE RevertError
  BY <1>37 DEF RevertError, Mark, outside, svcVars, repoVars
<1>38. CASE Revert
  BY <1>38, <1>0 DEF Revert, Frames, notData, repoVars
<1>39. CASE Download
  BY <1>39, <1>0 DEF Download, Frames, outside, svcVars, repoVars
<1>40. CASE Overwrite
  BY <1>40, <1>0 DEF Overwrite, Frames, notData, repoVars
<1>41. CASE PostRestore
  BY <1>41, <1>0 DEF PostRestore, Frames, outside, svcVars, repoVars
<1>42. CASE StartService
  BY <1>42, <1>0 DEF StartService, Frames, notActive, repoVars
<1>43. CASE StartTimesOut
  BY <1>43, <1>0 DEF StartTimesOut, Frames, notActive, repoVars
<1>44. CASE FinishRestore
  BY <1>44, <1>0, IdleSafety DEF FinishRestore, RestoreReturns, Frames, outside, svcVars, repoVars
<1>45. CASE RestoreError
  BY <1>45, <1>0, IdleSafety DEF RestoreError, RestoreRaises, Frames, outside, svcVars, repoVars
<1>46. CASE StartFullRestore
  BY <1>46, <1>0 DEF StartFullRestore, Frames, outside, svcVars, repoVars
<1>47. CASE NoConfigSnapshot
  BY <1>47, IdleSafety DEF NoConfigSnapshot
<1>48. CASE NextRestore
  BY <1>48, <1>0 DEF NextRestore, Frames, outside, svcVars, repoVars
<1>49. CASE AddRebuild
  BY <1>49, <1>0 DEF AddRebuild, Frames, outside, svcVars, repoVars
<1>50. CASE StartRebuild
  BY <1>50 DEF StartRebuild, Mark, outside, svcVars, repoVars
<1>51. CASE EndRebuild
  BY <1>51 DEF EndRebuild, Mark, outside, svcVars, repoVars
<1>52. CASE FinishFullRestore
  BY <1>52, IdleSafety DEF FinishFullRestore
<1> QED
  BY <1>1, <1>2, <1>3, <1>4, <1>5, <1>6, <1>7, <1>8, <1>9, <1>10, <1>11, <1>12,
     <1>13, <1>14, <1>15, <1>16, <1>17, <1>18, <1>19, <1>20, <1>21, <1>22, <1>23, <1>24,
     <1>25, <1>26, <1>27, <1>28, <1>29, <1>30, <1>31, <1>32, <1>33, <1>34, <1>35, <1>36,
     <1>37, <1>38, <1>39, <1>40, <1>41, <1>42, <1>43, <1>44, <1>45, <1>46, <1>47, <1>48,
     <1>49, <1>50, <1>51, <1>52
     DEF WorkerStep, BackUp, RestoreSnapshot, TasksOverSeveral

\* Nobody else starts a service or touches its data while it is stopped, unless a
\* user does.
LEMMA OthersSafety ==
  ASSUME TypeOK, KindInv, LocalsInv, StoppedInv, FailsafeInv,
         ApiStep \/ Environment \/ UNCHANGED vars
  PROVE  StoppedInv' /\ FailsafeInv'
<1> USE DEF StoppedInv, FailsafeInv, Overwriting, BackupLabels
<1>1. CASE UNCHANGED <<pc, frame, active, data, repo>>
  BY <1>1
<1>2. CASE UserStarts
  BY <1>2 DEF UserStarts, Request
<1>3. CASE UserStops
  <2>1. /\ UNCHANGED <<pc, frame, data, repo>>
        /\ \A s \in Services : active'[s] => active[s]
    BY <1>3 DEF UserStops, workVars, repoVars, TypeOK, ServicesType
  <2>2. pc \in Overwriting \cup BackupLabels => frame.svc \in Services
    BY DEF LocalsInv, RestoreLabels, FailsafeLabels
  <2> QED
    BY <2>1, <2>2
<1>4. CASE ServiceWrites
  <2>1. PICK s \in Services : /\ active[s]
                             /\ data' = [data EXCEPT ![s] = clock + 1]
                             /\ UNCHANGED <<pc, frame, active, repo>>
    BY <1>4 DEF ServiceWrites, workVars, repoVars
  <2>2. frame.svc # s => data'[frame.svc] = data[frame.svc]
    BY <2>1 DEF TypeOK, ServicesType
  <2> QED
    BY <2>1, <2>2
<1>5. CASE ForgetSnapshot
  BY <1>5 DEF ForgetSnapshot, Request, workVars, svcVars
<1>6. CASE WorkerCrash
  BY <1>6, IdleSafety DEF WorkerCrash, Idle
<1> QED
  BY <1>1, <1>2, <1>3, <1>4, <1>5, <1>6
     DEF ApiStep, Environment, ApiAddJob, ApiEnqueue, RequestBackup, RequestRestore,
     RequestTotal, Accept, RemoveJob, SetPeriod, ExpireJob, ScheduleAutobackup, ApiCrash,
     workVars, repoVars, svcVars, vars

\* What the second part proves inductive.
SafetyInv == TypeInv /\ StoppedInv /\ FailsafeInv

\* SafetyInv is inductive: it holds initially and every step keeps it.
LEMMA SafetyInvInductive ==
  (Init => SafetyInv) /\ (SafetyInv /\ [Next]_vars => SafetyInv')
<1>1. Init => SafetyInv
  <2>1. Init => pc = "idle"
    BY DEF Init
  <2>2. pc = "idle" => StoppedInv /\ FailsafeInv
    BY DEF StoppedInv, FailsafeInv, Overwriting, BackupLabels
  <2> QED
    BY <2>1, <2>2, TypeInvInit DEF SafetyInv
<1>2. ASSUME SafetyInv, [Next]_vars PROVE SafetyInv'
  <2>1. TypeInv'
    BY <1>2, TypeInvStep DEF SafetyInv
  <2>2. StoppedInv' /\ FailsafeInv'
    BY <1>2, WorkerSafety, OthersSafety DEF SafetyInv, TypeInv, Next
  <2> QED
    BY <2>1, <2>2 DEF SafetyInv
<1> QED
  BY <1>1, <1>2

\* A restore works on a stopped service, from assert_dead to the end of the
\* `async with StoppedService`, its failsafe backup included, unless a user
\* starts the service behind its back.
THEOREM RestoreOfStopped == Spec => []StoppedUnlessStarted
<1>1. SafetyInv => StoppedUnlessStarted
  BY DEF SafetyInv, StoppedInv, StoppedUnlessStarted, StoppedWhileRestored
<1> QED
  BY <1>1, SafetyInvInductive, PTL DEF Spec

\* An in-place restore wipes only what its failsafe snapshot holds, and the
\* snapshot stays in the repository until the data is back.
THEOREM FailsafeCovers == Spec => []FailsafeCoversData
<1>1. SafetyInv => FailsafeCoversData
  BY DEF SafetyInv, FailsafeInv, FailsafeCoversData
<1> QED
  BY <1>1, SafetyInvInductive, PTL DEF Spec

\* What the three ways to change the table of jobs do to each job.
LEMMA UpdateFacts ==
  ASSUME TypeOK, NEW id, NEW status, SetStatus(id, status)
  PROVE  /\ DOMAIN jobs' = DOMAIN jobs
         /\ \A k \in DOMAIN jobs :
               /\ jobs'[k].op = jobs[k].op /\ jobs'[k].svc = jobs[k].svc
               /\ jobs'[k].status = IF k = id THEN status ELSE jobs[k].status
  BY DEF SetStatus, Update, TypeOK, JobsType, JobRecords

\* Jobs.add adds one job, CREATED, under an id that no job has.
LEMMA AddFacts ==
  ASSUME TypeOK, NEW op, NEW svc, NEW about, AddJob(op, svc, about)
  PROVE  /\ DOMAIN jobs' = DOMAIN jobs \cup {nextJob}
         /\ nextJob \notin DOMAIN jobs /\ nextJob' = nextJob + 1
         /\ \A k \in DOMAIN jobs : jobs'[k] = jobs[k]
         /\ jobs'[nextJob].op = op /\ jobs'[nextJob].svc = svc
         /\ jobs'[nextJob].status = "CREATED"
  BY DEF AddJob, Add, NewJob, TypeOK, JobsType

\* Jobs.remove leaves the other jobs as they are.
LEMMA RemoveFacts ==
  ASSUME NEW ids, jobs' = Remove(jobs, ids)
  PROVE  /\ DOMAIN jobs' \subseteq DOMAIN jobs
         /\ \A k \in DOMAIN jobs' : jobs'[k] = jobs[k]
  BY DEF Remove

\* A restart of the API changes rebuild jobs only, and their status only.
LEMMA EndRebuildsFacts ==
  ASSUME TypeOK, jobs' = EndRebuilds
  PROVE  /\ DOMAIN jobs' = DOMAIN jobs
         /\ \A k \in DOMAIN jobs :
               /\ jobs'[k].op = jobs[k].op
               /\ jobs[k].op # "rebuild" => jobs'[k] = jobs[k]
  BY DEF EndRebuilds, TypeOK, JobsType, JobRecords

\* The ids of the jobs that the worker holds, and 0 is no job's id.
LEMMA HeldIds ==
  ASSUME TypeOK
  PROVE  /\ frame \in Frames /\ frame.job \in Nat /\ frame.rjob \in Nat /\ frame.parent \in Nat
         /\ nextJob \in Nat \ {0} /\ NoJob \notin DOMAIN jobs
         /\ \A k \in DOMAIN jobs : k \in Nat /\ k < nextJob /\ jobs[k].op \in Ops
         /\ \A k \in DOMAIN jobs : jobs[k].status \in Status
  BY DEF TypeOK, WorkerType, Frames, JobsType, JobRecords, NoJob

\* A worker at rest holds no job.
LEMMA IdleHeld == ASSUME JobsType', Idle PROVE HeldInv'
  BY DEF Idle, EmptyFrame, JobsType, NoJob, HeldInv, HeldBackup, HeldRebuild, HeldRestore,
         HeldParent, InRestore, RestoreLabels, FailsafeLabels, BackupLabels

\* The worker's steps keep the jobs it holds as its control point wants them.
LEMMA HeldStep ==
  ASSUME TypeOK, KindInv, LocalsInv, QueueInv, HeldInv, IdInv, OwnJobInv, TypeOK', WorkerStep
  PROVE  HeldInv'
<1> USE DEF HeldInv, HeldBackup, HeldRebuild, HeldRestore, HeldParent, InRestore, RestoreStatus,
            KindInv, RestoreLabels, FailsafeLabels, BackupLabels, FullLabels, Several, NoJob,
            LiveStatus
<1>0. JobsType'
  BY DEF TypeOK
<1>1. CASE TakeTask
  <2>1. /\ Head(queue) \in Tasks /\ Head(queue) = queue[1] /\ 1 \in 1 .. Len(queue)
        /\ jobs' = jobs
    BY <1>1, HeadType DEF TakeTask, TypeOK, TasksType, jobVars
  <2>2. /\ frame'.job = NoJob /\ frame'.rjob = NoJob
        /\ frame'.parent = IF Head(queue).kind \in {"total_backup", "full_restore"}
                           THEN Head(queue).job ELSE NoJob
    BY <1>1 DEF TakeTask, EmptyFrame
  <2>3. /\ Head(queue).kind = "total_backup" => pc' = "run_parent"
        /\ Head(queue).kind = "full_restore" => pc' = "full_restore"
    BY <1>1 DEF TakeTask
  <2>4. Head(queue).kind \in Several /\ Head(queue).job \in DOMAIN jobs =>
           /\ jobs[Head(queue).job].op \in Several
           /\ jobs[Head(queue).job].status = "CREATED"
    BY <2>1 DEF OwnJobInv
  <2> QED
    BY <2>1, <2>2, <2>3, <2>4, HeldIds
<1>2. CASE StartAutobackup
  BY <1>2, HeldIds, UpdateFacts DEF StartAutobackup, Frames, jobVars
<1>3. CASE NothingDue
  BY <1>3, <1>0, IdleHeld DEF NothingDue
<1>4. CASE PickDue
  BY <1>4, HeldIds, AddFacts DEF PickDue, Frames, IdInv
<1>5. CASE RunParent
  BY <1>5, HeldIds, UpdateFacts DEF RunParent, Mark
<1>6. CASE NextBackup
  BY <1>6, HeldIds, UpdateFacts DEF NextBackup, Frames, jobVars
<1>7. CASE FinishParent
  BY <1>7, <1>0, IdleHeld DEF FinishParent
<1>8. CASE ParentError
  BY <1>8, <1>0, IdleHeld DEF ParentError
<1>9. CASE FindBackupJob
  BY <1>9, HeldIds DEF FindBackupJob, Frames, jobVars, IsNewestLive, JobsOf
<1>10. CASE NoBackupJob
  BY <1>10, HeldIds DEF NoBackupJob, Skip, jobVars
<1>11. CASE AddBackupJob
  BY <1>11, HeldIds, AddFacts DEF AddBackupJob, Frames, IdInv
<1>12. CASE BackupRefused
  BY <1>12, HeldIds, UpdateFacts, <1>0, IdleHeld DEF BackupRefused, Frames, BackupRaises, jobVars
<1>13. CASE RunBackup
  BY <1>13, HeldIds, UpdateFacts DEF RunBackup, Mark
<1>14. CASE ReportProgress
  BY <1>14, HeldIds, UpdateFacts DEF ReportProgress, Mark, IsNewestLive, JobsOf
<1>15. CASE NoProgress
  BY <1>15, HeldIds DEF NoProgress, Skip, jobVars
<1>16. CASE Upload
  BY <1>16, HeldIds, UpdateFacts DEF Upload, Frames, jobVars
<1>17. CASE UploadFails
  BY <1>17, HeldIds DEF UploadFails, Skip, jobVars
<1>18. CASE Register
  BY <1>18, HeldIds, UpdateFacts DEF Register, Frames, jobVars
<1>19. CASE FinishBackup
  BY <1>19, HeldIds, UpdateFacts DEF FinishBackup, Mark
<1>20. CASE ClearFailed
  BY <1>20, HeldIds, RemoveFacts, <1>0, IdleHeld DEF ClearFailed, Frames, AfterBackup, BackupRaises
<1>21. CASE BackupError
  BY <1>21, HeldIds, UpdateFacts, <1>0, IdleHeld DEF BackupError, Frames, BackupRaises, jobVars
<1>22. CASE FindRestoreJob
  BY <1>22, HeldIds DEF FindRestoreJob, Frames, jobVars, IsNewestLive, JobsOf
<1>23. CASE NoRestoreJob
  BY <1>23, HeldIds DEF NoRestoreJob, Skip, jobVars
<1>24. CASE AddRestoreJob
  BY <1>24, HeldIds, AddFacts DEF AddRestoreJob, Frames, IdInv
<1>25. CASE RestoreRefused
  BY <1>25, HeldIds, UpdateFacts, <1>0, IdleHeld DEF RestoreRefused, Frames, RestoreRaises, jobVars
<1>26. CASE QueueRestore
  BY <1>26, HeldIds, UpdateFacts DEF QueueRestore, Mark
<1>27. CASE CheckRestore
  BY <1>27, HeldIds, UpdateFacts DEF CheckRestore, Mark
<1>28. CASE NotRestorable
  BY <1>28, HeldIds DEF NotRestorable, Skip, jobVars
<1>29. CASE StopService
  BY <1>29, HeldIds, UpdateFacts DEF StopService, Frames, jobVars
<1>30. CASE StopTimesOut
  BY <1>30, HeldIds, UpdateFacts DEF StopTimesOut, Frames, jobVars
<1>31. CASE AssertDead
  BY <1>31, HeldIds DEF AssertDead, Skip, jobVars
<1>32. CASE NotDead
  BY <1>32, HeldIds, UpdateFacts DEF NotDead, Frames, jobVars
<1>33. CASE AwaitFailsafe
  BY <1>33, HeldIds, UpdateFacts DEF AwaitFailsafe, Mark
<1>34. CASE Wipe
  BY <1>34, HeldIds, UpdateFacts DEF Wipe, Frames, jobVars
<1>35. CASE Refill
  BY <1>35, HeldIds, UpdateFacts DEF Refill, Frames, jobVars
<1>36. CASE RefillFails
  BY <1>36, HeldIds, UpdateFacts DEF RefillFails, Frames, jobVars
<1>37. CASE RevertError
  BY <1>37, HeldIds, UpdateFacts DEF RevertError, Mark
<1>38. CASE Revert
  BY <1>38, HeldIds, UpdateFacts DEF Revert, Frames, jobVars
<1>39. CASE Download
  BY <1>39, HeldIds, UpdateFacts DEF Download, Frames, jobVars
<1>40. CASE Overwrite
  BY <1>40, HeldIds, UpdateFacts DEF Overwrite, Frames, jobVars
<1>41. CASE PostRestore
  BY <1>41, HeldIds, UpdateFacts DEF PostRestore, Frames, jobVars
<1>42. CASE StartService
  BY <1>42, HeldIds, UpdateFacts DEF StartService, Frames, jobVars
<1>43. CASE StartTimesOut
  BY <1>43, HeldIds, UpdateFacts DEF StartTimesOut, Frames, jobVars
<1>44. CASE FinishRestore
  BY <1>44, HeldIds, UpdateFacts, <1>0, IdleHeld DEF FinishRestore, Frames, RestoreReturns
<1>45. CASE RestoreError
  BY <1>45, HeldIds, UpdateFacts, <1>0, IdleHeld DEF RestoreError, Frames, RestoreRaises, jobVars
<1>46. CASE StartFullRestore
  BY <1>46, HeldIds, UpdateFacts DEF StartFullRestore, Frames, jobVars
<1>47. CASE NoConfigSnapshot
  BY <1>47, <1>0, IdleHeld DEF NoConfigSnapshot
<1>48. CASE NextRestore
  BY <1>48, HeldIds, UpdateFacts DEF NextRestore, Frames, jobVars
<1>49. CASE AddRebuild
  BY <1>49, HeldIds, AddFacts DEF AddRebuild, Frames, IdInv
<1>50. CASE StartRebuild
  BY <1>50, HeldIds, UpdateFacts DEF StartRebuild, Mark
<1>51. CASE EndRebuild
  BY <1>51, HeldIds, UpdateFacts DEF EndRebuild, Mark
<1>52. CASE FinishFullRestore
  BY <1>52, <1>0, IdleHeld DEF FinishFullRestore
<1> QED
  BY <1>1, <1>2, <1>3, <1>4, <1>5, <1>6, <1>7, <1>8, <1>9, <1>10, <1>11, <1>12,
     <1>13, <1>14, <1>15, <1>16, <1>17, <1>18, <1>19, <1>20, <1>21, <1>22, <1>23, <1>24,
     <1>25, <1>26, <1>27, <1>28, <1>29, <1>30, <1>31, <1>32, <1>33, <1>34, <1>35, <1>36,
     <1>37, <1>38, <1>39, <1>40, <1>41, <1>42, <1>43, <1>44, <1>45, <1>46, <1>47, <1>48,
     <1>49, <1>50, <1>51, <1>52
     DEF WorkerStep, BackUp, RestoreSnapshot, TasksOverSeveral

\* What a step of the worker, other than taking a task, does to the ids it holds
\* and to the jobs it does not hold.
LEMMA WorkerTable ==
  ASSUME TypeOK, KindInv, HeldInv, IdInv, WorkerStep, ~TakeTask
  PROVE  /\ nextJob' \in {nextJob, nextJob + 1}
         /\ frame'.job < nextJob' /\ frame'.rjob < nextJob' /\ frame'.parent < nextJob'
         /\ frame'.parent \in {frame.parent, NoJob, nextJob}
         /\ frame'.parent = nextJob => nextJob' = nextJob + 1
         /\ DOMAIN jobs' \subseteq DOMAIN jobs \cup {nextJob}
         /\ \A k \in DOMAIN jobs \cap DOMAIN jobs' :
               /\ jobs'[k].op = jobs[k].op
               /\ jobs[k].op \in Several /\ k # frame.parent =>
                     jobs'[k].status = jobs[k].status
<1> USE DEF HeldInv, HeldBackup, HeldRebuild, HeldRestore, HeldParent, InRestore, IdInv,
            KindInv, RestoreLabels, FailsafeLabels, BackupLabels, FullLabels, Several, NoJob
<1>0. Idle => frame'.job = NoJob /\ frame'.rjob = NoJob /\ frame'.parent = NoJob
  BY DEF Idle, EmptyFrame
<1>1. CASE StartAutobackup
  BY <1>1, <1>0, HeldIds, UpdateFacts DEF StartAutobackup, Frames, jobVars
<1>2. CASE NothingDue
  BY <1>2, <1>0, HeldIds, UpdateFacts DEF NothingDue, Frames, jobVars
<1>3. CASE PickDue
  BY <1>3, HeldIds, AddFacts DEF PickDue, Frames
<1>4. CASE RunParent
  BY <1>4, <1>0, HeldIds, UpdateFacts DEF RunParent, Mark
<1>5. CASE NextBackup
  BY <1>5, <1>0, HeldIds, UpdateFacts DEF NextBackup, Frames, jobVars
<1>6. CASE FinishParent
  BY <1>6, <1>0, HeldIds, UpdateFacts DEF FinishParent, Frames, jobVars
<1>7. CASE ParentError
  BY <1>7, <1>0, HeldIds, UpdateFacts DEF ParentError, Frames, jobVars
<1>8. CASE FindBackupJob
  BY <1>8, HeldIds DEF FindBackupJob, Frames, jobVars, IsNewestLive, JobsOf
<1>9. CASE NoBackupJob
  BY <1>9, HeldIds DEF NoBackupJob, Skip, jobVars
<1>10. CASE AddBackupJob
  BY <1>10, HeldIds, AddFacts DEF AddBackupJob, Frames
<1>11. CASE BackupRefused
  BY <1>11, <1>0, HeldIds, UpdateFacts DEF BackupRefused, Frames, BackupRaises, jobVars
<1>12. CASE RunBackup
  BY <1>12, <1>0, HeldIds, UpdateFacts DEF RunBackup, Mark
<1>13. CASE ReportProgress
  BY <1>13, <1>0, HeldIds, UpdateFacts DEF ReportProgress, Mark, IsNewestLive, JobsOf
<1>14. CASE NoProgress
  BY <1>14, HeldIds DEF NoProgress, Skip, jobVars
<1>15. CASE Upload
  BY <1>15, <1>0, HeldIds, UpdateFacts DEF Upload, Frames, jobVars
<1>16. CASE UploadFails
  BY <1>16, HeldIds DEF UploadFails, Skip, jobVars
<1>17. CASE Register
  BY <1>17, <1>0, HeldIds, UpdateFacts DEF Register, Frames, jobVars
<1>18. CASE FinishBackup
  BY <1>18, <1>0, HeldIds, UpdateFacts DEF FinishBackup, Mark
<1>19. CASE ClearFailed
  BY <1>19, <1>0, HeldIds, RemoveFacts DEF ClearFailed, Frames, AfterBackup, BackupRaises
<1>20. CASE BackupError
  BY <1>20, <1>0, HeldIds, UpdateFacts DEF BackupError, Frames, BackupRaises, jobVars
<1>21. CASE FindRestoreJob
  BY <1>21, HeldIds DEF FindRestoreJob, Frames, jobVars, IsNewestLive, JobsOf
<1>22. CASE NoRestoreJob
  BY <1>22, HeldIds DEF NoRestoreJob, Skip, jobVars
<1>23. CASE AddRestoreJob
  BY <1>23, HeldIds, AddFacts DEF AddRestoreJob, Frames
<1>24. CASE RestoreRefused
  BY <1>24, <1>0, HeldIds, UpdateFacts DEF RestoreRefused, Frames, RestoreRaises, jobVars
<1>25. CASE QueueRestore
  BY <1>25, <1>0, HeldIds, UpdateFacts DEF QueueRestore, Mark
<1>26. CASE CheckRestore
  BY <1>26, <1>0, HeldIds, UpdateFacts DEF CheckRestore, Mark
<1>27. CASE NotRestorable
  BY <1>27, HeldIds DEF NotRestorable, Skip, jobVars
<1>28. CASE StopService
  BY <1>28, <1>0, HeldIds, UpdateFacts DEF StopService, Frames, jobVars
<1>29. CASE StopTimesOut
  BY <1>29, <1>0, HeldIds, UpdateFacts DEF StopTimesOut, Frames, jobVars
<1>30. CASE AssertDead
  BY <1>30, HeldIds DEF AssertDead, Skip, jobVars
<1>31. CASE NotDead
  BY <1>31, <1>0, HeldIds, UpdateFacts DEF NotDead, Frames, jobVars
<1>32. CASE AwaitFailsafe
  BY <1>32, <1>0, HeldIds, UpdateFacts DEF AwaitFailsafe, Mark
<1>33. CASE Wipe
  BY <1>33, <1>0, HeldIds, UpdateFacts DEF Wipe, Frames, jobVars
<1>34. CASE Refill
  BY <1>34, <1>0, HeldIds, UpdateFacts DEF Refill, Frames, jobVars
<1>35. CASE RefillFails
  BY <1>35, <1>0, HeldIds, UpdateFacts DEF RefillFails, Frames, jobVars
<1>36. CASE RevertError
  BY <1>36, <1>0, HeldIds, UpdateFacts DEF RevertError, Mark
<1>37. CASE Revert
  BY <1>37, <1>0, HeldIds, UpdateFacts DEF Revert, Frames, jobVars
<1>38. CASE Download
  BY <1>38, <1>0, HeldIds, UpdateFacts DEF Download, Frames, jobVars
<1>39. CASE Overwrite
  BY <1>39, <1>0, HeldIds, UpdateFacts DEF Overwrite, Frames, jobVars
<1>40. CASE PostRestore
  BY <1>40, <1>0, HeldIds, UpdateFacts DEF PostRestore, Frames, jobVars
<1>41. CASE StartService
  BY <1>41, <1>0, HeldIds, UpdateFacts DEF StartService, Frames, jobVars
<1>42. CASE StartTimesOut
  BY <1>42, <1>0, HeldIds, UpdateFacts DEF StartTimesOut, Frames, jobVars
<1>43. CASE FinishRestore
  BY <1>43, <1>0, HeldIds, UpdateFacts DEF FinishRestore, Frames, RestoreReturns
<1>44. CASE RestoreError
  BY <1>44, <1>0, HeldIds, UpdateFacts DEF RestoreError, Frames, RestoreRaises, jobVars
<1>45. CASE StartFullRestore
  BY <1>45, <1>0, HeldIds, UpdateFacts DEF StartFullRestore, Frames, jobVars
<1>46. CASE NoConfigSnapshot
  BY <1>46, <1>0, HeldIds, UpdateFacts DEF NoConfigSnapshot, Frames, jobVars
<1>47. CASE NextRestore
  BY <1>47, <1>0, HeldIds, UpdateFacts DEF NextRestore, Frames, jobVars
<1>48. CASE AddRebuild
  BY <1>48, HeldIds, AddFacts DEF AddRebuild, Frames
<1>49. CASE StartRebuild
  BY <1>49, <1>0, HeldIds, UpdateFacts DEF StartRebuild, Mark
<1>50. CASE EndRebuild
  BY <1>50, <1>0, HeldIds, UpdateFacts DEF EndRebuild, Mark
<1>51. CASE FinishFullRestore
  BY <1>51, <1>0, HeldIds, UpdateFacts DEF FinishFullRestore, Frames, jobVars
<1> QED
  BY <1>1, <1>2, <1>3, <1>4, <1>5, <1>6, <1>7, <1>8, <1>9, <1>10, <1>11, <1>12,
     <1>13, <1>14, <1>15, <1>16, <1>17, <1>18, <1>19, <1>20, <1>21, <1>22, <1>23, <1>24,
     <1>25, <1>26, <1>27, <1>28, <1>29, <1>30, <1>31, <1>32, <1>33, <1>34, <1>35, <1>36,
     <1>37, <1>38, <1>39, <1>40, <1>41, <1>42, <1>43, <1>44, <1>45, <1>46, <1>47, <1>48,
     <1>49, <1>50, <1>51
     DEF WorkerStep, BackUp, RestoreSnapshot, TasksOverSeveral

\* The API process and the rest of the world leave the jobs that the worker holds
\* alone, or remove them.
LEMMA OthersHeld ==
  ASSUME TypeOK, TypeOK', HeldInv, IdInv, ApiStep \/ Environment \/ UNCHANGED vars
  PROVE  HeldInv'
<1> USE DEF HeldInv, HeldBackup, HeldRebuild, HeldRestore, HeldParent, InRestore, RestoreStatus
<1>1. CASE UNCHANGED <<jobs, pc, frame>>
  BY <1>1
<1>2. CASE ApiAddJob
  <2>1. PICK op, svc, about : AddJob(op, svc, about) /\ UNCHANGED <<pc, frame>>
    BY <1>2 DEF ApiAddJob, workVars
  <2>2. frame.job # nextJob /\ frame.rjob # nextJob /\ frame.parent # nextJob
    BY HeldIds DEF IdInv
  <2> QED
    BY <2>1, <2>2, AddFacts, HeldIds
<1>3. CASE RemoveJob \/ ExpireJob
  <2>1. PICK ids : jobs' = Remove(jobs, ids) /\ UNCHANGED <<pc, frame>>
    BY <1>3 DEF RemoveJob, ExpireJob, workVars
  <2> QED
    BY <2>1, RemoveFacts
<1>4. CASE WorkerCrash
  BY <1>4, IdleHeld DEF WorkerCrash, Idle, TypeOK
<1>5. CASE ApiCrash
  <2>1. jobs' = EndRebuilds /\ UNCHANGED <<pc, frame>>
    BY <1>5 DEF ApiCrash, workVars
  <2> QED
    BY <2>1, EndRebuildsFacts DEF Several
<1> QED
  BY <1>1, <1>2, <1>3, <1>4, <1>5
     DEF ApiStep, Environment, ApiEnqueue, RequestBackup, RequestRestore, RequestTotal, Accept,
     SetPeriod, UserStarts, UserStops, ForgetSnapshot, ServiceWrites, ScheduleAutobackup,
     jobVars, workVars, vars

\* The steps that put nothing on the queue keep the ownership of jobs, if they
\* respect the jobs they do not hold.
LEMMA OwnershipKept ==
  ASSUME TypeOK, IdInv, OwnJobInv, UNCHANGED <<queue, api>>,
         nextJob' \in {nextJob, nextJob + 1},
         frame'.job < nextJob', frame'.rjob < nextJob', frame'.parent < nextJob',
         frame'.parent \in {frame.parent, NoJob, nextJob},
         frame'.parent = nextJob => nextJob' = nextJob + 1,
         DOMAIN jobs' \subseteq DOMAIN jobs \cup {nextJob},
         \A k \in DOMAIN jobs \cap DOMAIN jobs' :
            /\ jobs'[k].op = jobs[k].op
            /\ jobs[k].op \in Several /\ k # frame.parent => jobs'[k].status = jobs[k].status
  PROVE  IdInv' /\ OwnJobInv'
<1> USE HeldIds DEF NoJob
<1>0. /\ \A i \in 1 .. Len(queue) : queue[i].job \in Nat /\ queue[i].job < nextJob
      /\ api.task.job \in Nat /\ api.task.job < nextJob
  <2>1. queue \in Seq(Tasks) /\ api.task \in Tasks
    BY DEF TypeOK, TasksType
  <2>2. \A i \in 1 .. Len(queue) : queue[i] \in Tasks
    BY <2>1
  <2>3. \A t \in Tasks : t.job \in Nat
    BY DEF Tasks
  <2> QED
    BY <2>1, <2>2, <2>3 DEF IdInv
<1>1. IdInv'
  BY <1>0 DEF IdInv
<1>2. /\ \A i \in 1 .. Len(queue) : queue[i].job # NoJob =>
               queue[i].job # frame.parent /\ queue[i].job # frame'.parent
      /\ api.task.job # NoJob => api.task.job # frame.parent /\ api.task.job # frame'.parent
  BY <1>0 DEF OwnJobInv
<1>3. \A i \in 1 .. Len(queue) :
         queue[i].kind \in Several /\ queue[i].job \in DOMAIN jobs' =>
            jobs'[queue[i].job].op \in Several /\ jobs'[queue[i].job].status = "CREATED"
  BY <1>0, <1>2 DEF OwnJobInv
<1>4. api.task.kind \in Several /\ api.task.job \in DOMAIN jobs' =>
         jobs'[api.task.job].op \in Several /\ jobs'[api.task.job].status = "CREATED"
  BY <1>0, <1>2 DEF OwnJobInv
<1> QED
  BY <1>1, <1>2, <1>3, <1>4 DEF OwnJobInv

\* A queue with one more task holds the old ones and the new one.
LEMMA AppendFacts ==
  ASSUME NEW q \in Seq(Tasks), NEW t
  PROVE  \A i \in 1 .. Len(Append(q, t)) :
            \/ i \in 1 .. Len(q) /\ Append(q, t)[i] = q[i]
            \/ i = Len(q) + 1 /\ Append(q, t)[i] = t
<1>1. Len(q) \in Nat /\ Len(Append(q, t)) = Len(q) + 1
  BY DEF Tasks
<1> QED
  BY <1>1

\* A task over several services owns its job from the moment it was added until
\* the worker takes the task.
LEMMA OwnershipStep ==
  ASSUME TypeOK, KindInv, QueueInv, HeldInv, IdInv, OwnJobInv, [Next]_vars
  PROVE  IdInv' /\ OwnJobInv'
<1> USE DEF NoJob
<1>0. /\ queue \in Seq(Tasks) /\ api.task \in Tasks /\ nextJob \in Nat \ {0}
      /\ \A i \in 1 .. Len(queue) : queue[i] \in Tasks
  BY DEF TypeOK, TasksType, JobsType
<1>1. CASE WorkerStep /\ ~TakeTask
  BY <1>1, WorkerTable, WorkerLeavesQueue, OwnershipKept
<1>2. CASE TakeTask
  <2>1. /\ UNCHANGED <<api, jobs, nextJob>> /\ queue' = Tail(queue) /\ queue # <<>>
        /\ Head(queue) = queue[1] /\ 1 \in 1 .. Len(queue)
    BY <1>0, <1>2 DEF TakeTask, jobVars
  <2>2. \A i \in 1 .. Len(queue') :
           queue'[i] = queue[i + 1] /\ i + 1 \in 1 .. Len(queue) /\ i + 1 # 1
    BY <1>0, <2>1
  <2>3. /\ frame'.job = NoJob /\ frame'.rjob = NoJob
        /\ frame'.parent \in {queue[1].job, NoJob}
    BY <1>2, <2>1 DEF TakeTask, EmptyFrame
  <2>4. IdInv'
    BY <1>0, <2>1, <2>2, <2>3 DEF IdInv
  <2>5. /\ \A i, k \in 1 .. Len(queue') :
              i # k => queue'[i].job # queue'[k].job \/ queue'[i].job = NoJob
        /\ \A i \in 1 .. Len(queue') :
              queue'[i].job # NoJob => queue'[i].job \notin {api.task.job, queue[1].job}
    <3>1. ASSUME NEW i \in 1 .. Len(queue'), NEW k \in 1 .. Len(queue'), i # k
          PROVE  queue'[i].job # queue'[k].job \/ queue'[i].job = NoJob
      <4>1. i + 1 # k + 1
        BY <3>1
      <4> QED
        BY <2>2, <4>1 DEF OwnJobInv
    <3>2. ASSUME NEW i \in 1 .. Len(queue'), queue'[i].job # NoJob
          PROVE  queue'[i].job \notin {api.task.job, queue[1].job}
      BY <2>1, <2>2, <3>2 DEF OwnJobInv
    <3> QED
      BY <3>1, <3>2
  <2>6. api.task.job # NoJob => api.task.job # queue[1].job
    BY <2>1 DEF OwnJobInv
  <2> QED
    BY <2>1, <2>2, <2>3, <2>4, <2>5, <2>6 DEF OwnJobInv
<1>3. CASE ApiEnqueue
  <2>1. /\ queue' = Append(queue, api.task) /\ api' = [pc |-> "idle", task |-> NoTask]
        /\ UNCHANGED <<jobs, nextJob, frame>>
    BY <1>3 DEF ApiEnqueue, jobVars, workVars
  <2>2. \A i \in 1 .. Len(queue') :
           \/ i \in 1 .. Len(queue) /\ queue'[i] = queue[i]
           \/ i = Len(queue) + 1 /\ queue'[i] = api.task
    <3>1. \A i \in 1 .. Len(Append(queue, api.task)) :
             \/ i \in 1 .. Len(queue) /\ Append(queue, api.task)[i] = queue[i]
             \/ i = Len(queue) + 1 /\ Append(queue, api.task)[i] = api.task
      BY <1>0, AppendFacts
    <3> QED
      BY <2>1, <3>1, Zenon
  <2>3. api'.task.job = NoJob /\ api'.task.kind = "backup"
    BY <2>1 DEF NoTask
  <2>4. IdInv'
    BY <1>0, <2>1, <2>2, <2>3 DEF IdInv
  <2> QED
    BY <1>0, <2>1, <2>2, <2>3, <2>4 DEF OwnJobInv, Several
<1>4. CASE ScheduleAutobackup
  <2> DEFINE t == [NoTask EXCEPT !.kind = "autobackup"]
  <2>1. /\ queue' = Append(queue, t) /\ UNCHANGED <<api, jobs, nextJob, frame>>
        /\ t.job = NoJob
    BY <1>4 DEF ScheduleAutobackup, jobVars, workVars, NoTask
  <2> HIDE DEF t
  <2>2. \A i \in 1 .. Len(queue') :
           \/ i \in 1 .. Len(queue) /\ queue'[i] = queue[i]
           \/ i = Len(queue) + 1 /\ queue'[i] = t
    <3>1. \A i \in 1 .. Len(Append(queue, t)) :
             \/ i \in 1 .. Len(queue) /\ Append(queue, t)[i] = queue[i]
             \/ i = Len(queue) + 1 /\ Append(queue, t)[i] = t
      BY <1>0, AppendFacts
    <3> QED
      BY <2>1, <3>1, Zenon
  <2>3. IdInv'
    BY <1>0, <2>1, <2>2 DEF IdInv
  <2> QED
    BY <1>0, <2>1, <2>2, <2>3, HeldIds DEF OwnJobInv
<1>5. CASE ApiAddJob
  <2>1. PICK op, svc, about :
           /\ AddJob(op, svc, about) /\ op = api.task.kind
           /\ api' = [pc |-> "enqueue", task |-> [api.task EXCEPT !.job = nextJob]]
           /\ UNCHANGED <<queue, frame>>
    BY <1>5 DEF ApiAddJob, workVars
  <2>2. api'.task.job = nextJob /\ api'.task.kind = api.task.kind /\ api'.pc = "enqueue"
    BY <1>0, <2>1 DEF Tasks
  <2>3. /\ DOMAIN jobs' = DOMAIN jobs \cup {nextJob} /\ nextJob' = nextJob + 1
        /\ \A k \in DOMAIN jobs : jobs'[k] = jobs[k]
        /\ jobs'[nextJob].op = api.task.kind /\ jobs'[nextJob].status = "CREATED"
    BY <2>1, AddFacts
  <2>4. \A i \in 1 .. Len(queue) : queue[i].job \in Nat /\ queue[i].job < nextJob
    BY <1>0 DEF IdInv, Tasks
  <2>5. IdInv'
    BY <1>0, <2>1, <2>2, <2>3, <2>4, HeldIds DEF IdInv
  <2> QED
    <3>1. /\ frame'.parent = frame.parent /\ frame.parent \in Nat /\ frame.parent < nextJob
          /\ nextJob # NoJob /\ queue' = queue
      BY <1>0, <2>1, HeldIds DEF IdInv
    <3>2. \A i \in 1 .. Len(queue) : queue[i].job # NoJob => queue[i].job \notin {nextJob, frame.parent}
      BY <1>0, <2>4, <3>1 DEF OwnJobInv
    <3>3. \A i \in 1 .. Len(queue) :
             queue[i].kind \in Several /\ queue[i].job \in DOMAIN jobs' =>
                jobs'[queue[i].job].op \in Several /\ jobs'[queue[i].job].status = "CREATED"
      BY <1>0, <2>3, <2>4 DEF OwnJobInv
    <3> QED
      BY <1>0, <2>2, <2>3, <2>5, <3>1, <3>2, <3>3 DEF OwnJobInv
<1>6. CASE RequestBackup \/ RequestRestore \/ RequestTotal
  <2>1. PICK t : Accept(t) /\ t.job = NoJob
    <3>1. CASE RequestBackup
      <4>1. PICK s \in Services : Accept([NoTask EXCEPT !.kind = "backup", !.svc = s])
        BY <3>1 DEF RequestBackup
      <4>2. [NoTask EXCEPT !.kind = "backup", !.svc = s].job = NoJob
        BY DEF NoTask
      <4> QED
        BY <4>1, <4>2
    <3>2. CASE RequestRestore
      <4>1. PICK snap \in repo, strategy \in Strategies :
               Accept([NoTask EXCEPT !.kind = "restore", !.svc = snap.svc,
                                     !.snap = snap, !.strategy = strategy])
        BY <3>2 DEF RequestRestore
      <4>2. [NoTask EXCEPT !.kind = "restore", !.svc = snap.svc,
                           !.snap = snap, !.strategy = strategy].job = NoJob
        BY DEF NoTask
      <4> QED
        BY <4>1, <4>2
    <3>3. CASE RequestTotal
      <4>1. PICK kind \in {"total_backup", "full_restore"} :
               Accept([NoTask EXCEPT !.kind = kind])
        BY <3>3 DEF RequestTotal
      <4>2. [NoTask EXCEPT !.kind = kind].job = NoJob
        BY DEF NoTask
      <4> QED
        BY <4>1, <4>2
    <3> QED
      BY <1>6, <3>1, <3>2, <3>3
  <2>2. api'.task.job = NoJob /\ UNCHANGED <<queue, jobs, nextJob, frame>>
    BY <2>1 DEF Accept, jobVars, workVars
  <2> QED
    BY <1>0, <2>2, HeldIds DEF IdInv, OwnJobInv
<1>7. CASE ApiCrash
  <2>1. /\ api'.task.job = NoJob /\ UNCHANGED <<queue, nextJob, frame>>
        /\ jobs' = EndRebuilds
    BY <1>7 DEF ApiCrash, workVars, NoTask
  <2>2. \A i \in 1 .. Len(queue) :
           queue[i].kind \in Several /\ queue[i].job \in DOMAIN jobs' =>
              jobs'[queue[i].job].op \in Several /\ jobs'[queue[i].job].status = "CREATED"
    BY <2>1, EndRebuildsFacts DEF OwnJobInv, Several
  <2>3. api'.task.job \notin DOMAIN jobs'
    BY <2>1, EndRebuildsFacts, HeldIds
  <2>4. IdInv'
    BY <1>0, <2>1, HeldIds DEF IdInv
  <2> QED
    BY <2>1, <2>2, <2>3, <2>4 DEF OwnJobInv
<1>8. CASE WorkerCrash
  <2>1. /\ UNCHANGED <<queue, api, jobs, nextJob>>
        /\ frame'.job = NoJob /\ frame'.rjob = NoJob /\ frame'.parent = NoJob
    BY <1>8 DEF WorkerCrash, EmptyFrame, jobVars
  <2> QED
    BY <1>0, <2>1, OwnershipKept
<1>9. CASE RemoveJob \/ ExpireJob
  <2>1. PICK ids : jobs' = Remove(jobs, ids) /\ UNCHANGED <<nextJob, frame, queue, api>>
    BY <1>9 DEF RemoveJob, ExpireJob, workVars
  <2>2. frame.job < nextJob /\ frame.rjob < nextJob /\ frame.parent < nextJob
    BY DEF IdInv
  <2> QED
    BY <1>0, <2>1, <2>2, RemoveFacts, OwnershipKept
<1>10. CASE SetPeriod \/ UserStarts \/ UserStops \/ ForgetSnapshot \/ ServiceWrites
            \/ UNCHANGED vars
  <2>1. UNCHANGED <<jobs, nextJob, frame, queue, api>>
    BY <1>10 DEF SetPeriod, UserStarts, UserStops, ForgetSnapshot, ServiceWrites,
       jobVars, workVars, vars
  <2> QED
    BY <2>1 DEF IdInv, OwnJobInv
<1> QED
  BY <1>1, <1>2, <1>3, <1>4, <1>5, <1>6, <1>7, <1>8, <1>9, <1>10
     DEF Next, ApiStep, Environment

\* WorkerInv is inductive.
LEMMA WorkerInvInit == Init => WorkerInv
<1> SUFFICES ASSUME Init PROVE WorkerInv
  OBVIOUS
<1>1. SafetyInv
  BY SafetyInvInductive
<1>3. HeldInv
  BY DEF Init, EmptyFrame, HeldInv, HeldBackup, HeldRebuild, HeldRestore, HeldParent,
     InRestore, RestoreLabels, FailsafeLabels, BackupLabels
<1>4. IdInv /\ OwnJobInv
  BY DEF Init, EmptyFrame, NoTask, IdInv, OwnJobInv, NoJob
<1> QED
  BY <1>1, <1>3, <1>4 DEF WorkerInv, SafetyInv, TypeInv

\* Every step keeps WorkerInv.
LEMMA WorkerInvStep == WorkerInv /\ [Next]_vars => WorkerInv'
<1> SUFFICES ASSUME WorkerInv, [Next]_vars PROVE WorkerInv'
  OBVIOUS
<1>1. SafetyInv'
  BY SafetyInvInductive DEF WorkerInv, SafetyInv, TypeInv
<1>2. HeldInv'
  BY <1>1, HeldStep, OthersHeld DEF WorkerInv, SafetyInv, TypeInv, Next
<1>3. IdInv' /\ OwnJobInv'
  BY OwnershipStep DEF WorkerInv
<1> QED
  BY <1>1, <1>2, <1>3 DEF WorkerInv, SafetyInv, TypeInv

\* WorkerInv holds always; HeldJobsAreLive below says more.
LEMMA WorkerInvariance == Spec => []WorkerInv
  BY WorkerInvInit, WorkerInvStep, PTL DEF Spec

\* The table of jobs and the one of JobLifecycle move together.
LEMMA AddIsCreate ==
  ASSUME TypeOK, NEW op, NEW svc, NEW about, AddJob(op, svc, about)
  PROVE  Lifecycle!Create \/ Lifecycle!Skip
<1>0. nextJob' = nextJob + 1 /\ \A k \in DOMAIN jobs : jobs'[k] = jobs[k]
  BY AddFacts
<1>1. CASE op = "rebuild"
  <2>1. Promised' = Promised
    BY <1>1, AddFacts DEF Promised
  <2> QED
    BY <1>0, <2>1 DEF Lifecycle!Skip, Promised
<1>2. CASE op # "rebuild"
  <2>1. Promised' = Promised \cup {nextJob} /\ nextJob \notin Promised
    BY <1>2, AddFacts DEF Promised
  <2>2. jobs'[nextJob].status = "CREATED"
    BY AddFacts
  <2> QED
    BY <1>0, <2>1, <2>2 DEF Lifecycle!Create, Promised
<1> QED
  BY <1>1, <1>2

\* Removed and expired jobs vanish.
LEMMA RemoveIsVanish ==
  ASSUME TypeOK, NEW ids, jobs' = Remove(jobs, ids), UNCHANGED nextJob
  PROVE  Lifecycle!Vanish
<1> DEFINE J == ids \cap Promised
<1>1. J \in SUBSET Promised /\ Promised' = Promised \ J
  BY DEF Remove, Promised
<1>2. \A k \in Promised' : jobs'[k] = jobs[k]
  BY DEF Remove, Promised
<1> QED
  BY <1>1, <1>2 DEF Lifecycle!Vanish

\* The moves that JobLifecycle allows a job that is there.
Allowed(from, to) == \/ from = to
                     \/ from \in LiveStatus /\ to \in {"CREATED", "RUNNING", "ERROR"}
                     \/ from = "RUNNING" /\ to = "FINISHED"

\* An allowed update moves one job, or none if the job is gone.
LEMMA SetStatusIsMove ==
  ASSUME TypeOK, NEW j, NEW status \in Status, SetStatus(j, status), UNCHANGED nextJob,
         j \in Promised => Allowed(jobs[j].status, status)
  PROVE  [Lifecycle!Next]_(Lifecycle!vars)
<1> DEFINE bar == [k \in Promised |-> jobs[k].status]
<1>1. Promised' = Promised
  BY UpdateFacts DEF Promised
<1>2. CASE j \notin Promised \/ jobs[j].status = status
  <2>1. \A k \in Promised : jobs'[k].status = jobs[k].status
    BY <1>2, UpdateFacts DEF Promised
  <2>2. [k \in Promised' |-> jobs'[k].status] = bar
    BY <1>1, <2>1
  <2> QED
    BY <2>2 DEF Lifecycle!vars
<1>3. CASE j \in Promised /\ jobs[j].status # status
  <2>1. [k \in Promised' |-> jobs'[k].status] = [bar EXCEPT ![j] = status]
    BY <1>1, <1>3, UpdateFacts DEF Promised
  <2>2. j \in DOMAIN bar /\ bar[j] = jobs[j].status /\ DOMAIN bar = Promised
    BY <1>3
  <2>3. \/ bar[j] \in LiveStatus /\ status \in {"CREATED", "RUNNING", "ERROR"}
        \/ bar[j] = "RUNNING" /\ status = "FINISHED"
    BY <1>3, <2>2 DEF Allowed, Promised
  <2>4. Lifecycle!Run(j) \/ Lifecycle!Requeue(j) \/ Lifecycle!Finish(j) \/ Lifecycle!Fail(j)
    BY <2>1, <2>2, <2>3 DEF Lifecycle!Run, Lifecycle!Requeue, Lifecycle!Finish,
       Lifecycle!Fail, Lifecycle!Move, Lifecycle!Live, LiveStatus
  <2> QED
    BY <1>3, <2>2, <2>4 DEF Lifecycle!Next
<1> QED
  BY <1>2, <1>3

\* A step that leaves the table alone does not concern JobLifecycle.
LEMMA SameIsStutter == ASSUME UNCHANGED jobVars PROVE UNCHANGED Lifecycle!vars
  BY DEF jobVars, Lifecycle!vars, Promised

\* Nor does a restart of the API.
LEMMA EndRebuildsIsStutter ==
  ASSUME TypeOK, jobs' = EndRebuilds, UNCHANGED nextJob
  PROVE  UNCHANGED Lifecycle!vars
<1>1. Promised' = Promised /\ \A k \in Promised : jobs'[k] = jobs[k]
  BY EndRebuildsFacts DEF Promised
<1> QED
  BY <1>1 DEF Lifecycle!vars, Promised

\* Every step of Backup is a step of JobLifecycle, or none of its business.
LEMMA LifecycleStep ==
  ASSUME WorkerInv, [Next]_vars
  PROVE  [Lifecycle!Next]_(Lifecycle!vars)
<1> USE DEF WorkerInv, HeldInv, HeldBackup, HeldRebuild, HeldRestore, HeldParent, InRestore,
            RestoreStatus, KindInv, RestoreLabels, FailsafeLabels, BackupLabels, FullLabels,
            Several, Status, LiveStatus, TerminalStatus, Promised
<1>1. CASE RunParent
  BY <1>1, SetStatusIsMove DEF RunParent, Mark, Allowed
<1>2. CASE FinishParent
  BY <1>2, SetStatusIsMove DEF FinishParent, Allowed
<1>3. CASE ParentError
  BY <1>3, SetStatusIsMove DEF ParentError, Allowed
<1>4. CASE RunBackup
  BY <1>4, SetStatusIsMove DEF RunBackup, Mark, Allowed
<1>5. CASE ReportProgress
  BY <1>5, SetStatusIsMove DEF ReportProgress, Mark, IsNewestLive, JobsOf, Allowed
<1>6. CASE FinishBackup
  BY <1>6, SetStatusIsMove DEF FinishBackup, Mark, Allowed
<1>7. CASE BackupError
  BY <1>7, SetStatusIsMove DEF BackupError, Allowed
<1>8. CASE QueueRestore
  BY <1>8, SetStatusIsMove DEF QueueRestore, Mark, Allowed
<1>9. CASE CheckRestore
  BY <1>9, SetStatusIsMove DEF CheckRestore, Mark, Allowed
<1>10. CASE AwaitFailsafe
  BY <1>10, SetStatusIsMove DEF AwaitFailsafe, Mark, Allowed
<1>11. CASE Wipe
  BY <1>11, SetStatusIsMove DEF Wipe, Allowed
<1>12. CASE RevertError
  BY <1>12, SetStatusIsMove DEF RevertError, Mark, Allowed
<1>13. CASE Download
  BY <1>13, SetStatusIsMove DEF Download, Allowed
<1>14. CASE FinishRestore
  BY <1>14, SetStatusIsMove DEF FinishRestore, Allowed
<1>15. CASE RestoreError
  BY <1>15, SetStatusIsMove DEF RestoreError, Allowed
<1>16. CASE StartFullRestore
  BY <1>16, SetStatusIsMove DEF StartFullRestore, Allowed
<1>17. CASE NoConfigSnapshot
  BY <1>17, SetStatusIsMove DEF NoConfigSnapshot, Allowed
<1>18. CASE StartRebuild
  BY <1>18, SetStatusIsMove DEF StartRebuild, Mark, Allowed
<1>19. CASE EndRebuild
  BY <1>19, SetStatusIsMove DEF EndRebuild, Mark, Allowed
<1>20. CASE FinishFullRestore
  BY <1>20, SetStatusIsMove DEF FinishFullRestore, Allowed
<1>21. CASE PostRestore
  BY <1>21, SetStatusIsMove, SameIsStutter DEF PostRestore, Allowed, jobVars
<1>22. CASE PickDue \/ AddBackupJob \/ AddRestoreJob \/ AddRebuild \/ ApiAddJob
  BY <1>22, AddIsCreate DEF PickDue, AddBackupJob, AddRestoreJob, AddRebuild, ApiAddJob,
     Lifecycle!Next
<1>23. CASE ClearFailed \/ RemoveJob \/ ExpireJob
  <2>1. \/ UNCHANGED jobVars
        \/ \E ids : jobs' = Remove(jobs, ids) /\ UNCHANGED nextJob
    BY <1>23 DEF ClearFailed, RemoveJob, ExpireJob, jobVars
  <2> QED
    BY <2>1, RemoveIsVanish, SameIsStutter DEF Lifecycle!Next
<1>24. CASE UNCHANGED jobVars
  BY <1>24, SameIsStutter
<1>25. CASE ApiCrash
  BY <1>25, EndRebuildsIsStutter DEF ApiCrash
<1> QED
  BY <1>1, <1>2, <1>3, <1>4, <1>5, <1>6, <1>7, <1>8, <1>9, <1>10, <1>11, <1>12,
     <1>13, <1>14, <1>15, <1>16, <1>17, <1>18, <1>19, <1>20, <1>21, <1>22, <1>23, <1>24,
     <1>25
     DEF Next, ApiStep, Environment, WorkerStep, BackUp, RestoreSnapshot, TasksOverSeveral,
     TakeTask, StartAutobackup, NothingDue, NextBackup, FindBackupJob,
     NoBackupJob, BackupRefused, NoProgress, Upload, UploadFails, Register,
     FindRestoreJob, NoRestoreJob, RestoreRefused, NotRestorable, StopService,
     StopTimesOut, AssertDead, NotDead, Refill, RefillFails, Revert, Overwrite,
     StartService, StartTimesOut, NextRestore, Skip, ApiEnqueue, RequestBackup,
     RequestRestore, RequestTotal, Accept, SetPeriod, UserStarts, UserStops,
     ForgetSnapshot, ServiceWrites, ScheduleAutobackup, WorkerCrash,
     vars

\* The jobs of Backup keep the promise of JobLifecycle: a job that ended never
\* changes again, and one finishes only from RUNNING, although the worker finds
\* jobs by type and anybody may remove them.
THEOREM ImplementsLifecycle == Spec => LifecycleSpec
<1>1. Init => Lifecycle!Init
  BY DEF Init, Lifecycle!Init, Promised
<1>2. Spec => []WorkerInv
  BY WorkerInvariance
<1>3. WorkerInv /\ [Next]_vars => [Lifecycle!Next]_(Lifecycle!vars)
  BY LifecycleStep
<1> QED
  BY <1>1, <1>2, <1>3, PTL DEF Spec, LifecycleSpec, Lifecycle!Spec

\* The jobs that the locals of the worker name.
Holds == {frame.job, frame.rjob, frame.parent}

\* What a step of the worker lets go of has ended, unless it is the job of a
\* rebuild or of a full restore.
LEMMA WorkerAttends ==
  ASSUME WorkerInv, EndedInv, CarriedInv, WorkerStep
  PROVE  \A k \in DOMAIN jobs' :
            /\ jobs'[k].op \notin {"rebuild", "full_restore"}
            /\ jobs'[k].status \in LiveStatus
            /\ k \notin Holds'
            => /\ k \in DOMAIN jobs \ Holds
               /\ jobs[k].op = jobs'[k].op /\ jobs[k].svc = jobs'[k].svc
               /\ jobs[k].status \in LiveStatus
<1> USE DEF WorkerInv, EndedInv, Holds, HeldInv, HeldBackup, HeldRebuild, HeldRestore, HeldParent,
            InRestore, RestoreStatus, KindInv, RestoreLabels, FailsafeLabels, BackupLabels,
            FullLabels, Several, NoJob, LiveStatus, TerminalStatus
<1>0. /\ Idle => frame'.job = NoJob /\ frame'.rjob = NoJob /\ frame'.parent = NoJob
      /\ frame.parent \in DOMAIN jobs => jobs[frame.parent].op = frame.kind
      /\ frame.kind \in {"backup", "restore"} \/ pc \in {"autobackup", "pick_due"} =>
             frame.parent = NoJob
  BY DEF Idle, EmptyFrame, CarriedInv
<1>1. CASE TakeTask
  <2>1. jobs' = jobs /\ frame.job = NoJob /\ frame.rjob = NoJob /\ frame.parent = NoJob
    BY <1>1 DEF TakeTask, jobVars, EmptyFrame
  <2> QED
    BY <2>1, HeldIds
<1>2. CASE StartAutobackup
  BY <1>2, <1>0, HeldIds, UpdateFacts DEF StartAutobackup, Frames, jobVars
<1>3. CASE NothingDue
  BY <1>3, <1>0, HeldIds DEF NothingDue, jobVars
<1>4. CASE PickDue
  BY <1>4, <1>0, HeldIds, AddFacts DEF PickDue, Frames, IdInv
<1>5. CASE RunParent
  BY <1>5, <1>0, HeldIds, UpdateFacts DEF RunParent, Mark
<1>6. CASE NextBackup
  BY <1>6, <1>0, HeldIds, UpdateFacts DEF NextBackup, Frames, jobVars
<1>7. CASE FinishParent
  BY <1>7, <1>0, HeldIds, UpdateFacts DEF FinishParent
<1>8. CASE ParentError
  BY <1>8, <1>0, HeldIds, UpdateFacts DEF ParentError
<1>9. CASE FindBackupJob
  BY <1>9, <1>0, HeldIds DEF FindBackupJob, Frames, jobVars, IsNewestLive, JobsOf
<1>10. CASE NoBackupJob
  BY <1>10, <1>0, HeldIds DEF NoBackupJob, Skip, jobVars
<1>11. CASE AddBackupJob
  BY <1>11, <1>0, HeldIds, AddFacts DEF AddBackupJob, Frames, IdInv
<1>12. CASE BackupRefused
  BY <1>12, <1>0, HeldIds, UpdateFacts DEF BackupRefused, Frames, BackupRaises, jobVars
<1>13. CASE RunBackup
  BY <1>13, <1>0, HeldIds, UpdateFacts DEF RunBackup, Mark
<1>14. CASE ReportProgress
  BY <1>14, <1>0, HeldIds, UpdateFacts DEF ReportProgress, Mark, IsNewestLive, JobsOf
<1>15. CASE NoProgress
  BY <1>15, <1>0, HeldIds DEF NoProgress, Skip, jobVars
<1>16. CASE Upload
  BY <1>16, <1>0, HeldIds, UpdateFacts DEF Upload, Frames, jobVars
<1>17. CASE UploadFails
  BY <1>17, <1>0, HeldIds DEF UploadFails, Skip, jobVars
<1>18. CASE Register
  BY <1>18, <1>0, HeldIds, UpdateFacts DEF Register, Frames, jobVars
<1>19. CASE FinishBackup
  BY <1>19, <1>0, HeldIds, UpdateFacts DEF FinishBackup, Mark
<1>20. CASE ClearFailed
  BY <1>20, <1>0, HeldIds, RemoveFacts DEF ClearFailed, Frames, AfterBackup, BackupRaises
<1>21. CASE BackupError
  BY <1>21, <1>0, HeldIds, UpdateFacts DEF BackupError, Frames, BackupRaises, jobVars
<1>22. CASE FindRestoreJob
  BY <1>22, <1>0, HeldIds DEF FindRestoreJob, Frames, jobVars, IsNewestLive, JobsOf
<1>23. CASE NoRestoreJob
  BY <1>23, <1>0, HeldIds DEF NoRestoreJob, Skip, jobVars
<1>24. CASE AddRestoreJob
  BY <1>24, <1>0, HeldIds, AddFacts DEF AddRestoreJob, Frames, IdInv
<1>25. CASE RestoreRefused
  BY <1>25, <1>0, HeldIds, UpdateFacts DEF RestoreRefused, Frames, RestoreRaises, jobVars
<1>26. CASE QueueRestore
  BY <1>26, <1>0, HeldIds, UpdateFacts DEF QueueRestore, Mark
<1>27. CASE CheckRestore
  BY <1>27, <1>0, HeldIds, UpdateFacts DEF CheckRestore, Mark
<1>28. CASE NotRestorable
  BY <1>28, <1>0, HeldIds DEF NotRestorable, Skip, jobVars
<1>29. CASE StopService
  BY <1>29, <1>0, HeldIds, UpdateFacts DEF StopService, Frames, jobVars
<1>30. CASE StopTimesOut
  BY <1>30, <1>0, HeldIds, UpdateFacts DEF StopTimesOut, Frames, jobVars
<1>31. CASE AssertDead
  BY <1>31, <1>0, HeldIds DEF AssertDead, Skip, jobVars
<1>32. CASE NotDead
  BY <1>32, <1>0, HeldIds, UpdateFacts DEF NotDead, Frames, jobVars
<1>33. CASE AwaitFailsafe
  BY <1>33, <1>0, HeldIds, UpdateFacts DEF AwaitFailsafe, Mark
<1>34. CASE Wipe
  BY <1>34, <1>0, HeldIds, UpdateFacts DEF Wipe, Frames, jobVars
<1>35. CASE Refill
  BY <1>35, <1>0, HeldIds, UpdateFacts DEF Refill, Frames, jobVars
<1>36. CASE RefillFails
  BY <1>36, <1>0, HeldIds, UpdateFacts DEF RefillFails, Frames, jobVars
<1>37. CASE RevertError
  BY <1>37, <1>0, HeldIds, UpdateFacts DEF RevertError, Mark
<1>38. CASE Revert
  BY <1>38, <1>0, HeldIds, UpdateFacts DEF Revert, Frames, jobVars
<1>39. CASE Download
  BY <1>39, <1>0, HeldIds, UpdateFacts DEF Download, Frames, jobVars
<1>40. CASE Overwrite
  BY <1>40, <1>0, HeldIds, UpdateFacts DEF Overwrite, Frames, jobVars
<1>41. CASE PostRestore
  BY <1>41, <1>0, HeldIds, UpdateFacts DEF PostRestore, Frames, jobVars
<1>42. CASE StartService
  BY <1>42, <1>0, HeldIds, UpdateFacts DEF StartService, Frames, jobVars
<1>43. CASE StartTimesOut
  BY <1>43, <1>0, HeldIds, UpdateFacts DEF StartTimesOut, Frames, jobVars
<1>44. CASE FinishRestore
  BY <1>44, <1>0, HeldIds, UpdateFacts DEF FinishRestore, Frames, RestoreReturns
<1>45. CASE RestoreError
  BY <1>45, <1>0, HeldIds, UpdateFacts DEF RestoreError, Frames, RestoreRaises, jobVars
<1>46. CASE StartFullRestore
  BY <1>46, <1>0, HeldIds, UpdateFacts DEF StartFullRestore, Frames, jobVars
<1>47. CASE NoConfigSnapshot
  BY <1>47, <1>0, HeldIds, UpdateFacts DEF NoConfigSnapshot
<1>48. CASE NextRestore
  BY <1>48, <1>0, HeldIds, UpdateFacts DEF NextRestore, Frames, jobVars
<1>49. CASE AddRebuild
  BY <1>49, <1>0, HeldIds, AddFacts DEF AddRebuild, Frames, IdInv
<1>50. CASE StartRebuild
  BY <1>50, <1>0, HeldIds, UpdateFacts DEF StartRebuild, Mark
<1>51. CASE EndRebuild
  BY <1>51, <1>0, HeldIds, UpdateFacts DEF EndRebuild, Mark
<1>52. CASE FinishFullRestore
  BY <1>52, <1>0, HeldIds, UpdateFacts DEF FinishFullRestore
<1> QED
  BY <1>1, <1>2, <1>3, <1>4, <1>5, <1>6, <1>7, <1>8, <1>9, <1>10, <1>11, <1>12,
     <1>13, <1>14, <1>15, <1>16, <1>17, <1>18, <1>19, <1>20, <1>21, <1>22, <1>23, <1>24,
     <1>25, <1>26, <1>27, <1>28, <1>29, <1>30, <1>31, <1>32, <1>33, <1>34, <1>35, <1>36,
     <1>37, <1>38, <1>39, <1>40, <1>41, <1>42, <1>43, <1>44, <1>45, <1>46, <1>47, <1>48,
     <1>49, <1>50, <1>51, <1>52
     DEF WorkerStep, BackUp, RestoreSnapshot, TasksOverSeveral


\* The worker's steps leave no live job behind in its locals, and the job of a
\* task over several services stays of that task's kind.
LEMMA WorkerEnded ==
  ASSUME WorkerInv, EndedInv, CarriedInv, WorkerStep
  PROVE  /\ EndedInv'
         /\ frame'.parent \in DOMAIN jobs' => jobs'[frame'.parent].op = frame'.kind
         /\ frame'.kind \in {"backup", "restore"} \/ pc' \in {"autobackup", "pick_due"} =>
               frame'.parent = NoJob
<1> USE DEF WorkerInv, EndedInv, HeldInv, HeldBackup, HeldRebuild, HeldRestore, HeldParent,
            InRestore, RestoreStatus, KindInv, RestoreLabels, FailsafeLabels, BackupLabels,
            FullLabels, Several, NoJob, LiveStatus, TerminalStatus
<1>0. /\ Idle => /\ frame'.job = NoJob /\ frame'.rjob = NoJob /\ frame'.parent = NoJob
                 /\ pc' = "idle"
      /\ frame.parent \in DOMAIN jobs => jobs[frame.parent].op = frame.kind
      /\ frame.kind \in {"backup", "restore"} \/ pc \in {"autobackup", "pick_due"} =>
             frame.parent = NoJob
      /\ NoJob \notin DOMAIN jobs'
  <2>1. NoJob \notin DOMAIN jobs'
    BY WorkerInvStep DEF Next, TypeOK, JobsType
  <2> QED
    BY <2>1 DEF Idle, EmptyFrame, CarriedInv
<1>1. CASE TakeTask
  <2>1. /\ Head(queue) = queue[1] /\ 1 \in 1 .. Len(queue) /\ jobs' = jobs
        /\ Head(queue).kind \in Kinds
    BY <1>1, HeadType DEF TakeTask, TypeOK, TasksType, jobVars, Tasks
  <2>2. /\ frame'.job = NoJob /\ frame'.rjob = NoJob /\ frame'.kind = Head(queue).kind
        /\ frame'.parent = IF Head(queue).kind \in {"total_backup", "full_restore"}
                           THEN Head(queue).job ELSE NoJob
        /\ pc' \in {"find_backup", "find_restore", "run_parent", "autobackup", "full_restore"}
        /\ pc' = "autobackup" => Head(queue).kind = "autobackup"
        /\ pc' = "find_backup" => Head(queue).kind = "backup"
    BY <1>1, <2>1 DEF TakeTask, EmptyFrame, Kinds
  <2>3. Head(queue).job \in DOMAIN jobs => jobs[Head(queue).job].op = Head(queue).kind
    BY <2>1 DEF CarriedInv
  <2> QED
    BY <1>0, <2>1, <2>2, <2>3, HeldIds
<1>2. CASE StartAutobackup
  BY <1>2, <1>0, HeldIds, UpdateFacts DEF StartAutobackup, Frames, jobVars
<1>3. CASE NothingDue
  BY <1>3, <1>0, HeldIds DEF NothingDue, jobVars
<1>4. CASE PickDue
  BY <1>4, <1>0, HeldIds, AddFacts DEF PickDue, Frames, IdInv
<1>5. CASE RunParent
  BY <1>5, <1>0, HeldIds, UpdateFacts DEF RunParent, Mark
<1>6. CASE NextBackup
  BY <1>6, <1>0, HeldIds, UpdateFacts DEF NextBackup, Frames, jobVars
<1>7. CASE FinishParent
  BY <1>7, <1>0, HeldIds, UpdateFacts DEF FinishParent
<1>8. CASE ParentError
  BY <1>8, <1>0, HeldIds, UpdateFacts DEF ParentError
<1>9. CASE FindBackupJob
  BY <1>9, <1>0, HeldIds DEF FindBackupJob, Frames, jobVars, IsNewestLive, JobsOf
<1>10. CASE NoBackupJob
  BY <1>10, <1>0, HeldIds DEF NoBackupJob, Skip, jobVars
<1>11. CASE AddBackupJob
  BY <1>11, <1>0, HeldIds, AddFacts DEF AddBackupJob, Frames, IdInv
<1>12. CASE BackupRefused
  BY <1>12, <1>0, HeldIds, UpdateFacts DEF BackupRefused, Frames, BackupRaises, jobVars
<1>13. CASE RunBackup
  BY <1>13, <1>0, HeldIds, UpdateFacts DEF RunBackup, Mark
<1>14. CASE ReportProgress
  BY <1>14, <1>0, HeldIds, UpdateFacts DEF ReportProgress, Mark, IsNewestLive, JobsOf
<1>15. CASE NoProgress
  BY <1>15, <1>0, HeldIds DEF NoProgress, Skip, jobVars
<1>16. CASE Upload
  BY <1>16, <1>0, HeldIds, UpdateFacts DEF Upload, Frames, jobVars
<1>17. CASE UploadFails
  BY <1>17, <1>0, HeldIds DEF UploadFails, Skip, jobVars
<1>18. CASE Register
  BY <1>18, <1>0, HeldIds, UpdateFacts DEF Register, Frames, jobVars
<1>19. CASE FinishBackup
  BY <1>19, <1>0, HeldIds, UpdateFacts DEF FinishBackup, Mark
<1>20. CASE ClearFailed
  BY <1>20, <1>0, HeldIds, RemoveFacts DEF ClearFailed, Frames, AfterBackup, BackupRaises
<1>21. CASE BackupError
  BY <1>21, <1>0, HeldIds, UpdateFacts DEF BackupError, Frames, BackupRaises, jobVars
<1>22. CASE FindRestoreJob
  BY <1>22, <1>0, HeldIds DEF FindRestoreJob, Frames, jobVars, IsNewestLive, JobsOf
<1>23. CASE NoRestoreJob
  BY <1>23, <1>0, HeldIds DEF NoRestoreJob, Skip, jobVars
<1>24. CASE AddRestoreJob
  BY <1>24, <1>0, HeldIds, AddFacts DEF AddRestoreJob, Frames, IdInv
<1>25. CASE RestoreRefused
  BY <1>25, <1>0, HeldIds, UpdateFacts DEF RestoreRefused, Frames, RestoreRaises, jobVars
<1>26. CASE QueueRestore
  BY <1>26, <1>0, HeldIds, UpdateFacts DEF QueueRestore, Mark
<1>27. CASE CheckRestore
  BY <1>27, <1>0, HeldIds, UpdateFacts DEF CheckRestore, Mark
<1>28. CASE NotRestorable
  BY <1>28, <1>0, HeldIds DEF NotRestorable, Skip, jobVars
<1>29. CASE StopService
  BY <1>29, <1>0, HeldIds, UpdateFacts DEF StopService, Frames, jobVars
<1>30. CASE StopTimesOut
  BY <1>30, <1>0, HeldIds, UpdateFacts DEF StopTimesOut, Frames, jobVars
<1>31. CASE AssertDead
  BY <1>31, <1>0, HeldIds DEF AssertDead, Skip, jobVars
<1>32. CASE NotDead
  BY <1>32, <1>0, HeldIds, UpdateFacts DEF NotDead, Frames, jobVars
<1>33. CASE AwaitFailsafe
  BY <1>33, <1>0, HeldIds, UpdateFacts DEF AwaitFailsafe, Mark
<1>34. CASE Wipe
  BY <1>34, <1>0, HeldIds, UpdateFacts DEF Wipe, Frames, jobVars
<1>35. CASE Refill
  BY <1>35, <1>0, HeldIds, UpdateFacts DEF Refill, Frames, jobVars
<1>36. CASE RefillFails
  BY <1>36, <1>0, HeldIds, UpdateFacts DEF RefillFails, Frames, jobVars
<1>37. CASE RevertError
  BY <1>37, <1>0, HeldIds, UpdateFacts DEF RevertError, Mark
<1>38. CASE Revert
  BY <1>38, <1>0, HeldIds, UpdateFacts DEF Revert, Frames, jobVars
<1>39. CASE Download
  BY <1>39, <1>0, HeldIds, UpdateFacts DEF Download, Frames, jobVars
<1>40. CASE Overwrite
  BY <1>40, <1>0, HeldIds, UpdateFacts DEF Overwrite, Frames, jobVars
<1>41. CASE PostRestore
  BY <1>41, <1>0, HeldIds, UpdateFacts DEF PostRestore, Frames, jobVars
<1>42. CASE StartService
  BY <1>42, <1>0, HeldIds, UpdateFacts DEF StartService, Frames, jobVars
<1>43. CASE StartTimesOut
  BY <1>43, <1>0, HeldIds, UpdateFacts DEF StartTimesOut, Frames, jobVars
<1>44. CASE FinishRestore
  BY <1>44, <1>0, HeldIds, UpdateFacts DEF FinishRestore, Frames, RestoreReturns
<1>45. CASE RestoreError
  BY <1>45, <1>0, HeldIds, UpdateFacts DEF RestoreError, Frames, RestoreRaises, jobVars
<1>46. CASE StartFullRestore
  BY <1>46, <1>0, HeldIds, UpdateFacts DEF StartFullRestore, Frames, jobVars
<1>47. CASE NoConfigSnapshot
  BY <1>47, <1>0, HeldIds, UpdateFacts DEF NoConfigSnapshot
<1>48. CASE NextRestore
  BY <1>48, <1>0, HeldIds, UpdateFacts DEF NextRestore, Frames, jobVars
<1>49. CASE AddRebuild
  BY <1>49, <1>0, HeldIds, AddFacts DEF AddRebuild, Frames, IdInv
<1>50. CASE StartRebuild
  BY <1>50, <1>0, HeldIds, UpdateFacts DEF StartRebuild, Mark
<1>51. CASE EndRebuild
  BY <1>51, <1>0, HeldIds, UpdateFacts DEF EndRebuild, Mark
<1>52. CASE FinishFullRestore
  BY <1>52, <1>0, HeldIds, UpdateFacts DEF FinishFullRestore
<1> QED
  BY <1>1, <1>2, <1>3, <1>4, <1>5, <1>6, <1>7, <1>8, <1>9, <1>10, <1>11, <1>12,
     <1>13, <1>14, <1>15, <1>16, <1>17, <1>18, <1>19, <1>20, <1>21, <1>22, <1>23, <1>24,
     <1>25, <1>26, <1>27, <1>28, <1>29, <1>30, <1>31, <1>32, <1>33, <1>34, <1>35, <1>36,
     <1>37, <1>38, <1>39, <1>40, <1>41, <1>42, <1>43, <1>44, <1>45, <1>46, <1>47, <1>48,
     <1>49, <1>50, <1>51, <1>52
     DEF WorkerStep, BackUp, RestoreSnapshot, TasksOverSeveral


\* The table of jobs changes in five ways.
LEMMA TableMoves ==
  ASSUME [Next]_vars
  PROVE  \/ UNCHANGED jobs
         \/ \E op, svc, about : AddJob(op, svc, about)
         \/ \E j, status : SetStatus(j, status)
         \/ \E ids : jobs' = Remove(jobs, ids)
         \/ jobs' = EndRebuilds
<1>1. CASE TakeTask \/ TasksOverSeveral
  BY <1>1 DEF TakeTask, TasksOverSeveral, StartAutobackup, NothingDue, PickDue, RunParent,
     NextBackup, FinishParent, ParentError, StartFullRestore, NoConfigSnapshot, NextRestore,
     AddRebuild, StartRebuild, EndRebuild, FinishFullRestore, Mark, Skip, jobVars
<1>2. CASE BackUp
  BY <1>2 DEF BackUp, FindBackupJob, NoBackupJob, AddBackupJob, BackupRefused, RunBackup,
     ReportProgress, NoProgress, Upload, UploadFails, Register, FinishBackup, ClearFailed,
     BackupError, Mark, Skip, jobVars
<1>3. CASE RestoreSnapshot
  BY <1>3 DEF RestoreSnapshot, FindRestoreJob, NoRestoreJob, AddRestoreJob, RestoreRefused,
     QueueRestore, CheckRestore, NotRestorable, StopService, StopTimesOut, AssertDead, NotDead,
     AwaitFailsafe, Wipe, Refill, RefillFails, RevertError, Revert, Download, Overwrite,
     PostRestore, StartService, StartTimesOut, FinishRestore, RestoreError, Mark, Skip, jobVars
<1>4. CASE ApiStep \/ Environment \/ UNCHANGED vars
  BY <1>4 DEF ApiStep, Environment, ApiAddJob, ApiEnqueue, RequestBackup, RequestRestore,
     RequestTotal, Accept, RemoveJob, SetPeriod, UserStarts, UserStops, ForgetSnapshot,
     ServiceWrites, ExpireJob, ScheduleAutobackup, ApiCrash, WorkerCrash, jobVars, vars
<1> QED
  BY <1>1, <1>2, <1>3, <1>4 DEF Next, WorkerStep

\* What a job was added for never changes, and the only new id is the counter's.
LEMMA TableStep ==
  ASSUME TypeOK, [Next]_vars
  PROVE  /\ DOMAIN jobs' \subseteq DOMAIN jobs \cup {nextJob}
         /\ \A k \in DOMAIN jobs \cap DOMAIN jobs' :
               /\ jobs'[k].op = jobs[k].op /\ jobs'[k].svc = jobs[k].svc
               /\ jobs'[k].since = jobs[k].since
         /\ nextJob \in DOMAIN jobs' => jobs'[nextJob].since = nextSnap
<1>0. nextJob \notin DOMAIN jobs
  BY HeldIds
<1>1. CASE \E op, svc, about : AddJob(op, svc, about)
  BY <1>0, <1>1 DEF AddJob, Add, NewJob
<1>2. CASE \E j, status : SetStatus(j, status)
  BY <1>0, <1>2 DEF SetStatus, Update, TypeOK, JobsType, JobRecords
<1>3. CASE \E ids : jobs' = Remove(jobs, ids)
  BY <1>0, <1>3 DEF Remove
<1>4. CASE jobs' = EndRebuilds
  BY <1>0, <1>4 DEF EndRebuilds, TypeOK, JobsType, JobRecords
<1>5. CASE UNCHANGED jobs
  BY <1>0, <1>5
<1> QED
  BY <1>1, <1>2, <1>3, <1>4, <1>5, TableMoves

\* A job that has ended stays as it is: JobLifecycle says so.
LEMMA TerminalKept ==
  ASSUME WorkerInv, [Next]_vars, NEW k \in DOMAIN jobs \cap DOMAIN jobs',
         jobs[k].op # "rebuild", jobs[k].status \in TerminalStatus
  PROVE  jobs'[k].status = jobs[k].status
<1> DEFINE bar == [j \in Promised |-> jobs[j].status]
           new == [j \in Promised' |-> jobs'[j].status]
<1>1. jobs'[k].op = jobs[k].op
  BY TableStep DEF WorkerInv
<1>2. k \in DOMAIN bar /\ k \in DOMAIN new /\ bar[k] = jobs[k].status /\ new[k] = jobs'[k].status
  BY <1>1 DEF Promised
<1>3. DOMAIN bar = Promised
  OBVIOUS
<1>4. nextJob \notin DOMAIN bar
  BY <1>3, HeldIds DEF WorkerInv, Promised
<1>5. \/ new = bar
      \/ new = [j \in DOMAIN bar \cup {nextJob} |-> IF j = nextJob THEN "CREATED" ELSE bar[j]]
      \/ \E j \in DOMAIN bar : \E to : bar[j] \in LiveStatus /\ new = [bar EXCEPT ![j] = to]
      \/ \E J : new = [j \in DOMAIN bar \ J |-> bar[j]]
  <2>1. CASE Lifecycle!Create
    BY <2>1 DEF Lifecycle!Create
  <2>2. CASE Lifecycle!Skip \/ UNCHANGED Lifecycle!vars
    BY <2>2 DEF Lifecycle!Skip, Lifecycle!vars
  <2>3. CASE \E j \in Promised : \/ Lifecycle!Run(j) \/ Lifecycle!Requeue(j)
                                \/ Lifecycle!Finish(j) \/ Lifecycle!Fail(j)
    <3>1. PICK j \in Promised : \/ Lifecycle!Run(j) \/ Lifecycle!Requeue(j)
                                \/ Lifecycle!Finish(j) \/ Lifecycle!Fail(j)
      BY <2>3
    <3>2. /\ j \in DOMAIN bar /\ bar[j] \in LiveStatus
          /\ \/ new = [bar EXCEPT ![j] = "RUNNING"] \/ new = [bar EXCEPT ![j] = "CREATED"]
             \/ new = [bar EXCEPT ![j] = "FINISHED"] \/ new = [bar EXCEPT ![j] = "ERROR"]
      BY <3>1 DEF Lifecycle!Run, Lifecycle!Requeue, Lifecycle!Finish, Lifecycle!Fail,
         Lifecycle!Move, Lifecycle!Live, LiveStatus
    <3> HIDE DEF bar, new
    <3> QED
      BY <3>2
  <2>4. CASE Lifecycle!Vanish
    BY <2>4 DEF Lifecycle!Vanish
  <2> QED
    BY <2>1, <2>2, <2>3, <2>4, LifecycleStep DEF Lifecycle!Next
<1> HIDE DEF bar, new
<1> QED
  BY <1>2, <1>4, <1>5 DEF LiveStatus, TerminalStatus

\* What is not the worker's leaves its locals alone, or puts it to rest, and brings
\* no ended job back to life.
LEMMA OthersEnded ==
  ASSUME WorkerInv, EndedInv, CarriedInv, ApiStep \/ Environment \/ UNCHANGED vars
  PROVE  /\ EndedInv'
         /\ frame'.parent \in DOMAIN jobs' => jobs'[frame'.parent].op = frame'.kind
         /\ frame'.kind \in {"backup", "restore"} \/ pc' \in {"autobackup", "pick_due"} =>
               frame'.parent = NoJob
<1>0. [Next]_vars /\ TypeOK
  BY DEF Next, WorkerInv
<1>1. CASE UNCHANGED <<pc, frame>>
  <2>1. \A k \in {frame.job, frame.rjob, frame.parent} : k \in DOMAIN jobs' =>
           /\ k \in DOMAIN jobs /\ jobs'[k].op = jobs[k].op
           /\ jobs[k].op # "rebuild" /\ jobs[k].status \in TerminalStatus =>
                 jobs'[k].status = jobs[k].status
    BY <1>0, TableStep, TerminalKept, HeldIds DEF WorkerInv, IdInv
  <2> QED
    BY <1>1, <2>1 DEF EndedInv, CarriedInv, InRestore
<1>2. CASE Idle
  <2>1. NoJob \notin DOMAIN jobs'
    BY <1>0, WorkerInvStep DEF TypeOK, JobsType, NoJob, WorkerInv
  <2> QED
    BY <1>2, <2>1 DEF Idle, EmptyFrame, EndedInv, InRestore, RestoreLabels, FailsafeLabels, BackupLabels
<1>3. UNCHANGED <<pc, frame>> \/ Idle
  BY DEF ApiStep, Environment, ApiAddJob, ApiEnqueue, RequestBackup, RequestRestore,
     RequestTotal, Accept, RemoveJob, SetPeriod, UserStarts, UserStops, ForgetSnapshot,
     ServiceWrites, ExpireJob, ScheduleAutobackup, ApiCrash, WorkerCrash, Idle, workVars, vars
<1> QED
  BY <1>1, <1>2, <1>3

\* The job of a task stays of the task's kind, on its way to the queue, on it, and
\* off it.
LEMMA CarriedStep ==
  ASSUME WorkerInv, EndedInv, CarriedInv, [Next]_vars
  PROVE  EndedInv' /\ CarriedInv'
<1> USE DEF NoJob
<1>0. /\ queue \in Seq(Tasks) /\ api.task \in Tasks /\ nextJob \in Nat \ {0} /\ TypeOK
      /\ \A i \in 1 .. Len(queue) : queue[i] \in Tasks /\ queue[i].job \in Nat /\ queue[i].job < nextJob
      /\ api.task.job \in Nat /\ api.task.job < nextJob
  <2>1. queue \in Seq(Tasks) /\ api.task \in Tasks /\ nextJob \in Nat \ {0} /\ TypeOK
    BY DEF WorkerInv, TypeOK, TasksType, JobsType
  <2>2. \A t \in Tasks : t.job \in Nat
    BY DEF Tasks
  <2> QED
    BY <2>1, <2>2 DEF WorkerInv, IdInv
<1>1. /\ EndedInv'
      /\ frame'.parent \in DOMAIN jobs' => jobs'[frame'.parent].op = frame'.kind
      /\ frame'.kind \in {"backup", "restore"} \/ pc' \in {"autobackup", "pick_due"} =>
            frame'.parent = NoJob
  BY WorkerEnded, OthersEnded DEF Next
<1> DEFINE OK(t) == /\ t.job \in DOMAIN jobs' => jobs'[t.job].op = t.kind
                    /\ t.kind = "autobackup" => t.job = NoJob
<1>2. SUFFICES (\A i \in 1 .. Len(queue') : OK(queue'[i])) /\ OK(api'.task)
               /\ api'.task.kind # "autobackup"
  BY <1>1 DEF CarriedInv
<1>3. (\A i \in 1 .. Len(queue) : OK(queue[i])) /\ OK(api.task) /\ api.task.kind # "autobackup"
  BY <1>0, TableStep DEF CarriedInv
<1>4. NoJob \notin DOMAIN jobs'
  BY WorkerInvStep DEF WorkerInv, TypeOK, JobsType
<1>5. CASE UNCHANGED <<queue, api>>
  BY <1>3, <1>5
<1>6. CASE TakeTask
  <2>1. queue' = Tail(queue) /\ queue # <<>> /\ api' = api
    BY <1>6 DEF TakeTask
  <2>2. \A i \in 1 .. Len(queue') : queue'[i] = queue[i + 1] /\ i + 1 \in 1 .. Len(queue)
    BY <1>0, <2>1
  <2> QED
    BY <1>3, <2>1, <2>2
<1>7. CASE \E t : queue' = Append(queue, t) /\ OK(t) /\ api' \in {api, [pc |-> "idle", task |-> NoTask]}
  <2>1. PICK t : queue' = Append(queue, t) /\ OK(t) /\ api' \in {api, [pc |-> "idle", task |-> NoTask]}
    BY <1>7
  <2>2. NoTask.job = NoJob /\ NoTask.kind = "backup"
    BY DEF NoTask
  <2>3. OK(NoTask)
    BY <1>4, <2>2
  <2>4. OK(api'.task) /\ api'.task.kind # "autobackup"
    BY <1>3, <2>1, <2>2, <2>3
  <2>5. \A i \in 1 .. Len(Append(queue, t)) :
           \/ i \in 1 .. Len(queue) /\ Append(queue, t)[i] = queue[i]
           \/ i = Len(queue) + 1 /\ Append(queue, t)[i] = t
    BY <1>0, AppendFacts
  <2>6. \A i \in 1 .. Len(queue') :
           \/ i \in 1 .. Len(queue) /\ queue'[i] = queue[i]
           \/ queue'[i] = t
    BY <2>1, <2>5, Zenon
  <2> HIDE DEF OK
  <2> QED
    BY <1>3, <2>1, <2>4, <2>6
<1>8. CASE UNCHANGED queue /\ api'.task.job = NoJob /\ api'.task.kind # "autobackup"
  BY <1>3, <1>4, <1>8
<1>9. CASE ApiAddJob
  <2>1. PICK svc, about :
           /\ AddJob(api.task.kind, svc, about) /\ queue' = queue
           /\ api' = [pc |-> "enqueue", task |-> [api.task EXCEPT !.job = nextJob]]
    BY <1>9 DEF ApiAddJob
  <2>2. api'.task.job = nextJob /\ api'.task.kind = api.task.kind
    BY <1>0, <2>1 DEF Tasks
  <2>3. jobs'[nextJob].op = api.task.kind
    BY <1>0, <2>1, AddFacts
  <2> QED
    BY <1>3, <2>1, <2>2, <2>3
<1>10. CASE ApiStep \/ Environment \/ UNCHANGED vars
  <2>1. CASE ApiEnqueue
    BY <1>3, <1>7, <2>1 DEF ApiEnqueue
  <2>2. CASE ScheduleAutobackup
    <3> DEFINE t == [NoTask EXCEPT !.kind = "autobackup"]
    <3>1. queue' = Append(queue, t) /\ api' = api /\ t.job = NoJob
      BY <2>2 DEF ScheduleAutobackup, NoTask
    <3>2. OK(t)
      BY <1>4, <3>1
    <3> QED
      BY <1>7, <3>1, <3>2
  <2>3. CASE ApiCrash
    BY <1>8, <2>3 DEF ApiCrash, NoTask
  <2>4. CASE RequestBackup
    <3>1. PICK s \in Services : Accept([NoTask EXCEPT !.kind = "backup", !.svc = s])
      BY <2>4 DEF RequestBackup
    <3>2. api'.task.job = NoJob /\ api'.task.kind = "backup" /\ queue' = queue
      BY <3>1 DEF Accept, NoTask
    <3> QED
      BY <1>8, <3>2
  <2>5. CASE RequestRestore
    <3>1. PICK snap \in repo, strategy \in Strategies :
             Accept([NoTask EXCEPT !.kind = "restore", !.svc = snap.svc,
                                   !.snap = snap, !.strategy = strategy])
      BY <2>5 DEF RequestRestore
    <3>2. api'.task.job = NoJob /\ api'.task.kind = "restore" /\ queue' = queue
      BY <3>1 DEF Accept, NoTask
    <3> QED
      BY <1>8, <3>2
  <2>6. CASE RequestTotal
    <3>1. PICK kind \in {"total_backup", "full_restore"} : Accept([NoTask EXCEPT !.kind = kind])
      BY <2>6 DEF RequestTotal
    <3>2. api'.task.job = NoJob /\ api'.task.kind = kind /\ queue' = queue
      BY <3>1 DEF Accept, NoTask
    <3> QED
      BY <1>8, <3>2
  <2>7. CASE RemoveJob \/ SetPeriod \/ UserStarts \/ UserStops \/ ForgetSnapshot
             \/ ServiceWrites \/ ExpireJob \/ WorkerCrash \/ UNCHANGED vars
    BY <1>5, <2>7 DEF RemoveJob, SetPeriod, UserStarts, UserStops, ForgetSnapshot,
       ServiceWrites, ExpireJob, WorkerCrash, vars
  <2> QED
    BY <1>9, <1>10, <2>1, <2>2, <2>3, <2>4, <2>5, <2>6, <2>7 DEF ApiStep, Environment
<1>11. CASE WorkerStep
  BY <1>5, <1>6, <1>11, WorkerLeavesQueue
<1> QED
  BY <1>10, <1>11 DEF Next

\* Only the upload makes a snapshot and leads to where a backup is finished.
LEMMA OnlyUploads ==
  ASSUME WorkerInv, [Next]_vars, ~Upload
  PROVE  /\ nextSnap' = nextSnap
         /\ pc' \in {"register", "finish_backup"} =>
               pc \in {"register", "finish_backup"} /\ frame' = frame
<1> USE DEF repoVars, outside, notActive, notData, Idle
<1>1. CASE TakeTask
  <2>1. Head(queue).kind \in Kinds
    BY <1>1, HeadType DEF TakeTask, WorkerInv, Tasks
  <2> QED
    BY <1>1, <2>1 DEF TakeTask, Kinds
<1>2. CASE TasksOverSeveral
  BY <1>2 DEF TasksOverSeveral, StartAutobackup, NothingDue, PickDue, RunParent,
     NextBackup, FinishParent, ParentError, StartFullRestore, NoConfigSnapshot, NextRestore,
     AddRebuild, StartRebuild, EndRebuild, FinishFullRestore, Mark, Skip
<1>3. CASE BackUp
  BY <1>3 DEF BackUp, FindBackupJob, NoBackupJob, AddBackupJob, BackupRefused, RunBackup,
     ReportProgress, NoProgress, UploadFails, Register, FinishBackup, ClearFailed,
     BackupError, Mark, Skip, AfterBackup, BackupRaises
<1>4. CASE RestoreSnapshot
  BY <1>4 DEF RestoreSnapshot, FindRestoreJob, NoRestoreJob, AddRestoreJob, RestoreRefused,
     QueueRestore, CheckRestore, NotRestorable, StopService, StopTimesOut, AssertDead, NotDead,
     AwaitFailsafe, Wipe, Refill, RefillFails, RevertError, Revert, Download, Overwrite,
     PostRestore, StartService, StartTimesOut, FinishRestore, RestoreError, Mark, Skip,
     RestoreReturns, RestoreRaises
<1>5. CASE ApiStep \/ Environment \/ UNCHANGED vars
  BY <1>5 DEF ApiStep, Environment, ApiAddJob, ApiEnqueue, RequestBackup, RequestRestore,
     RequestTotal, Accept, RemoveJob, SetPeriod, UserStarts, UserStops, ForgetSnapshot,
     ServiceWrites, ExpireJob, ScheduleAutobackup, ApiCrash, WorkerCrash, workVars, vars
<1> QED
  BY <1>1, <1>2, <1>3, <1>4, <1>5 DEF Next, WorkerStep

\* A snapshot is newer than the job it was made for, whoever added the job.
LEMMA FreshStep ==
  ASSUME WorkerInv, FreshInv, [Next]_vars
  PROVE  FreshInv'
<1>0. /\ TypeOK /\ nextSnap \in Nat
      /\ \A j \in DOMAIN jobs : jobs[j].since \in Nat
  BY DEF WorkerInv, TypeOK, RepoType, JobsType, JobRecords
<1>1. CASE Upload
  <2> DEFINE snap == [id |-> nextSnap, svc |-> frame.svc, ver |-> data[frame.svc],
                      reason |-> BackupReason]
  <2>1. /\ jobs' = jobs /\ nextSnap' = nextSnap + 1
        /\ frame' = [frame EXCEPT !.made = snap]
    BY <1>1 DEF Upload, jobVars
  <2>2. snap.id = nextSnap /\ snap.svc = frame.svc
    OBVIOUS
  <2> HIDE DEF snap
  <2>3. frame'.made = snap /\ frame'.svc = frame.svc /\ frame'.job = frame.job
    BY <1>0, <2>1, HeldIds DEF Frames
  <2> QED
    BY <1>0, <2>1, <2>2, <2>3 DEF FreshInv
<1>2. CASE ~Upload
  <2>1. frame.job # nextJob
    BY HeldIds DEF WorkerInv, IdInv
  <2>2. /\ DOMAIN jobs' \subseteq DOMAIN jobs \cup {nextJob}
        /\ \A k \in DOMAIN jobs \cap DOMAIN jobs' : jobs'[k].since = jobs[k].since
        /\ nextJob \in DOMAIN jobs' => jobs'[nextJob].since = nextSnap
    BY <1>0, TableStep
  <2> QED
    BY <1>0, <1>2, <2>1, <2>2, OnlyUploads DEF FreshInv
<1> QED
  BY <1>1, <1>2

\* Whoever finishes a backup job is back_up, with the snapshot in its hands: the
\* other functions finish jobs of their own types.
LEMMA OnlyBackupsFinish ==
  ASSUME WorkerInv, [Next]_vars, NEW j \in DOMAIN jobs \cap DOMAIN jobs',
         jobs[j].op = "backup", jobs[j].status # "FINISHED", jobs'[j].status = "FINISHED"
  PROVE  FinishBackup /\ j = frame.job
<1> USE DEF WorkerInv, HeldInv, HeldRebuild, HeldRestore, HeldParent, InRestore,
            KindInv, RestoreLabels, FailsafeLabels, FullLabels, Several
<1>0. /\ \A id, status : SetStatus(id, status) => status = "FINISHED" /\ j = id
      /\ ~UNCHANGED jobs
      /\ \A op, svc, about : ~AddJob(op, svc, about)
      /\ \A ids : jobs' # Remove(jobs, ids)
      /\ jobs' # EndRebuilds
  <2>1. TypeOK
    OBVIOUS
  <2> QED
    BY <2>1, UpdateFacts, AddFacts, RemoveFacts, EndRebuildsFacts
<1>1. CASE TasksOverSeveral
  BY <1>0, <1>1 DEF TasksOverSeveral, StartAutobackup, NothingDue, PickDue, RunParent,
     NextBackup, FinishParent, ParentError, StartFullRestore, NoConfigSnapshot, NextRestore,
     AddRebuild, StartRebuild, EndRebuild, FinishFullRestore, Mark, Skip, jobVars
<1>2. CASE BackUp
  BY <1>0, <1>2 DEF BackUp, FindBackupJob, NoBackupJob, AddBackupJob, BackupRefused, RunBackup,
     ReportProgress, NoProgress, Upload, UploadFails, Register, FinishBackup, ClearFailed,
     BackupError, Mark, Skip, jobVars
<1>3. CASE RestoreSnapshot
  BY <1>0, <1>3 DEF RestoreSnapshot, FindRestoreJob, NoRestoreJob, AddRestoreJob, RestoreRefused,
     QueueRestore, CheckRestore, NotRestorable, StopService, StopTimesOut, AssertDead, NotDead,
     AwaitFailsafe, Wipe, Refill, RefillFails, RevertError, Revert, Download, Overwrite,
     PostRestore, StartService, StartTimesOut, FinishRestore, RestoreError, Mark, Skip, jobVars
<1>4. CASE TakeTask \/ ApiStep \/ Environment \/ UNCHANGED vars
  BY <1>0, <1>4 DEF TakeTask, ApiStep, Environment, ApiAddJob, ApiEnqueue, RequestBackup,
     RequestRestore, RequestTotal, Accept, RemoveJob, SetPeriod, UserStarts, UserStops,
     ForgetSnapshot, ServiceWrites, ExpireJob, ScheduleAutobackup, ApiCrash, WorkerCrash,
     jobVars, vars
<1> QED
  BY <1>1, <1>2, <1>3, <1>4 DEF Next, WorkerStep

\* The jobs the worker holds, told without its control point.
HeldTold == \A k \in DOMAIN jobs : k \in Held <=> k \in Holds

\* At rest the worker holds none.
LEMMA HeldIsHolds == WorkerInv => HeldTold
  BY HeldIds DEF WorkerInv, KindInv, EmptyFrame, Held, Holds, HeldTold

\* So it is after a step.
LEMMA HeldIsHoldsNext == ASSUME WorkerInv, [Next]_vars PROVE HeldTold'
<1>1. WorkerInv'
  BY WorkerInvStep
<1>2. WorkerInv' => HeldTold'
  BY HeldIsHolds, PTL
<1> QED
  BY <1>1, <1>2

\* Crashes are counted, by nobody else, and nobody takes one back.
LEMMA CrashesCount ==
  ASSUME TypeOK, [Next]_vars
  PROVE  /\ crashes \in Nat
         /\ WorkerCrash \/ ApiCrash => crashes' = crashes + 1
         /\ crashes' = crashes \/ crashes' = crashes + 1
<1> USE DEF countVars, outside, notActive, notData
<1>0. crashes \in Nat
  BY DEF TypeOK, CountersType
<1>1. CASE TakeTask \/ TasksOverSeveral
  <2>1. crashes' = crashes
    BY <1>1 DEF TakeTask, TasksOverSeveral, StartAutobackup, NothingDue, PickDue, RunParent,
       NextBackup, FinishParent, ParentError, StartFullRestore, NoConfigSnapshot, NextRestore,
       AddRebuild, StartRebuild, EndRebuild, FinishFullRestore, Mark, Skip
  <2> QED
    BY <1>0, <2>1 DEF WorkerCrash, ApiCrash
<1>2. CASE BackUp
  <2>1. crashes' = crashes
    BY <1>2 DEF BackUp, FindBackupJob, NoBackupJob, AddBackupJob, BackupRefused, RunBackup,
       ReportProgress, NoProgress, Upload, UploadFails, Register, FinishBackup, ClearFailed,
       BackupError, Mark, Skip
  <2> QED
    BY <1>0, <2>1 DEF WorkerCrash, ApiCrash
<1>3. CASE RestoreSnapshot
  <2>1. crashes' = crashes
    BY <1>3 DEF RestoreSnapshot, FindRestoreJob, NoRestoreJob, AddRestoreJob, RestoreRefused,
       QueueRestore, CheckRestore, NotRestorable, StopService, StopTimesOut, AssertDead, NotDead,
       AwaitFailsafe, Wipe, Refill, RefillFails, RevertError, Revert, Download, Overwrite,
       PostRestore, StartService, StartTimesOut, FinishRestore, RestoreError, Mark, Skip
  <2> QED
    BY <1>0, <2>1 DEF WorkerCrash, ApiCrash
<1>4. CASE ApiStep \/ Environment \/ UNCHANGED vars
  <2>1. \/ crashes' = crashes
        \/ WorkerCrash \/ ApiCrash
    BY <1>4 DEF ApiStep, Environment, ApiAddJob, ApiEnqueue, RequestBackup, RequestRestore,
       RequestTotal, Accept, Request, RemoveJob, SetPeriod, UserStarts, UserStops,
       ForgetSnapshot, ServiceWrites, ExpireJob, ScheduleAutobackup, vars
  <2> QED
    BY <1>0, <2>1 DEF WorkerCrash, ApiCrash
<1> QED
  BY <1>1, <1>2, <1>3, <1>4 DEF Next, WorkerStep

\* The steps that are not the worker's, and what each does to jobs, tasks and the
\* worker.
LEMMA OthersEffects ==
  ASSUME ApiStep \/ Environment \/ UNCHANGED vars
  PROVE  \/ ApiAddJob
         \/ ApiEnqueue
         \/ ApiCrash
         \/ WorkerCrash
         \/ /\ UNCHANGED <<queue, api, pc, frame>>
            /\ \E ids : jobs' = Remove(jobs, ids)
         \/ UNCHANGED <<jobs, pc, frame, queue, api>>
         \/ UNCHANGED <<jobs, pc, frame, queue>> /\ api.pc = "idle" /\ api'.pc = "add"
         \/ /\ UNCHANGED <<jobs, pc, frame, api>>
            /\ queue' = Append(queue, [NoTask EXCEPT !.kind = "autobackup"])
<1> USE DEF jobVars, workVars
<1>1. CASE RequestBackup \/ RequestRestore \/ RequestTotal
  <2>1. PICK t : Accept(t)
    BY <1>1 DEF RequestBackup, RequestRestore, RequestTotal
  <2> QED
    BY <2>1 DEF Accept
<1>2. CASE RemoveJob \/ ExpireJob
  BY <1>2 DEF RemoveJob, ExpireJob
<1>3. CASE SetPeriod \/ UserStarts \/ UserStops \/ ForgetSnapshot \/ ServiceWrites
           \/ UNCHANGED vars
  BY <1>3 DEF SetPeriod, UserStarts, UserStops, ForgetSnapshot, ServiceWrites, vars
<1>4. CASE ScheduleAutobackup
  BY <1>4 DEF ScheduleAutobackup
<1> QED
  BY <1>1, <1>2, <1>3, <1>4 DEF ApiStep, Environment

\* The job of a total backup or of an autobackup stays with its task.
LEMMA ParentsStep ==
  ASSUME WorkerInv, EndedInv, CarriedInv, NoStrandedParent, [Next]_vars
  PROVE  NoStrandedParent'
<1> DEFINE Ops2 == {"total_backup", "autobackup"}
<1> SUFFICES ASSUME NEW j \in DOMAIN jobs', jobs'[j].op \in Ops2, jobs'[j].status \in LiveStatus
             PROVE  \/ crashes' > 0
                    \/ j \in Held'
                    \/ api'.pc = "enqueue" /\ api'.task.job = j
                    \/ \E i \in DOMAIN queue' : queue'[i].job = j
  BY DEF NoStrandedParent
<1>0. /\ queue \in Seq(Tasks) /\ TypeOK /\ api.task \in Tasks
      /\ \A i \in 1 .. Len(queue) : queue[i] \in Tasks
  BY DEF WorkerInv, TypeOK, TasksType
<1>1. j \in Held' <=> j \in Holds'
  BY HeldIsHoldsNext DEF HeldTold
<1>2. CASE crashes > 0 \/ WorkerCrash \/ ApiCrash
  BY <1>0, <1>2, CrashesCount
<1>3. CASE /\ crashes = 0
           /\ j \in DOMAIN jobs \ Holds /\ jobs[j].op \in Ops2 /\ jobs[j].status \in LiveStatus
  <2>1. \/ api.pc = "enqueue" /\ api.task.job = j
        \/ \E i \in DOMAIN queue : queue[i].job = j
    BY <1>3, HeldIsHolds DEF HeldTold, NoStrandedParent
  <2>2. CASE UNCHANGED <<queue, api>>
    BY <2>1, <2>2
  <2>3. CASE TakeTask
    <3>1. /\ api' = api /\ queue' = Tail(queue) /\ queue # <<>>
          /\ frame'.parent = IF queue[1].kind \in {"total_backup", "full_restore"}
                             THEN queue[1].job ELSE NoJob
          /\ 1 \in 1 .. Len(queue)
      BY <1>0, <2>3 DEF TakeTask, EmptyFrame
    <3>2. CASE queue[1].job = j
      <4>1. queue[1].kind = "total_backup"
        BY <1>3, <3>1, <3>2, HeldIds, <1>0 DEF CarriedInv, NoJob
      <4> QED
        BY <1>1, <3>1, <3>2, <4>1 DEF Holds
    <3>3. CASE \E i \in DOMAIN queue : i # 1 /\ queue[i].job = j
      <4>1. PICK i \in 1 .. Len(queue) : i # 1 /\ queue[i].job = j
        BY <1>0, <3>3
      <4>2. i - 1 \in 1 .. Len(queue') /\ queue'[i - 1] = queue[i]
        BY <1>0, <3>1, <4>1
      <4>3. DOMAIN queue' = 1 .. Len(queue')
        BY <1>0, <3>1
      <4> QED
        BY <4>1, <4>2, <4>3
    <3> QED
      BY <2>1, <3>1, <3>2, <3>3
  <2>4. CASE \E t : queue' = Append(queue, t) /\ (api' = api \/ t = api.task)
    <3>1. PICK t : queue' = Append(queue, t) /\ (api' = api \/ t = api.task)
      BY <2>4
    <3>2. /\ DOMAIN queue' = 1 .. Len(queue) + 1 /\ DOMAIN queue = 1 .. Len(queue)
          /\ queue'[Len(queue) + 1] = t /\ \A i \in 1 .. Len(queue) : queue'[i] = queue[i]
      BY <1>0, <3>1
    <3> QED
      BY <1>0, <2>1, <3>1, <3>2
  <2>5. CASE WorkerStep
    BY <2>2, <2>3, <2>5, WorkerLeavesQueue
  <2>6. CASE ApiStep \/ Environment \/ UNCHANGED vars
    <3>1. ApiAddJob => api.pc = "add" /\ queue' = queue
      BY DEF ApiAddJob
    <3>2. ApiEnqueue => queue' = Append(queue, api.task)
      BY DEF ApiEnqueue
    <3> QED
      BY <1>2, <2>1, <2>2, <2>4, <2>6, <3>1, <3>2, OthersEffects
  <2> QED
    BY <2>5, <2>6 DEF Next
<1>4. CASE WorkerStep
  <2>1. j \in Holds' \/ /\ j \in DOMAIN jobs \ Holds /\ jobs[j].op \in Ops2
                        /\ jobs[j].status \in LiveStatus
    BY <1>4, WorkerAttends
  <2> QED
    BY <1>0, <1>1, <1>2, <1>3, <2>1 DEF TypeOK, CountersType
<1>5. CASE ApiAddJob
  <2>1. /\ api'.pc = "enqueue" /\ api'.task.job = nextJob /\ frame' = frame
    BY <1>0, <1>5 DEF ApiAddJob, Tasks, workVars
  <2>2. j = nextJob \/ (j \in DOMAIN jobs /\ jobs'[j] = jobs[j])
    <3>1. PICK op, svc, about : AddJob(op, svc, about)
      BY <1>5 DEF ApiAddJob
    <3>2. /\ DOMAIN jobs' = DOMAIN jobs \cup {nextJob}
          /\ \A k \in DOMAIN jobs : jobs'[k] = jobs[k]
      BY <1>0, <3>1, AddFacts
    <3> QED
      BY <3>2
  <2>3. Holds' = Holds
    BY <2>1 DEF Holds
  <2> QED
    BY <1>0, <1>1, <1>2, <1>3, <2>1, <2>2, <2>3 DEF TypeOK, CountersType
<1>6. CASE UNCHANGED frame /\ (UNCHANGED jobs \/ \E ids : jobs' = Remove(jobs, ids))
  <2>1. j \in DOMAIN jobs /\ jobs'[j] = jobs[j]
    BY <1>6, RemoveFacts
  <2>2. Holds' = Holds
    BY <1>6 DEF Holds
  <2> QED
    BY <1>0, <1>1, <1>2, <1>3, <2>1, <2>2 DEF TypeOK, CountersType
<1>7. CASE ApiStep \/ Environment \/ UNCHANGED vars
  <2>1. ApiEnqueue => UNCHANGED <<frame, jobs>>
    BY DEF ApiEnqueue, workVars, jobVars
  <2> QED
    BY <1>2, <1>5, <1>6, <1>7, <2>1, OthersEffects
<1> QED
  BY <1>4, <1>7 DEF Next

\* The places in a queue of the tasks of a kind for a service.
Places(q, op, s) == {i \in DOMAIN q : q[i].kind = op /\ q[i].svc = s}

\* A queue has finitely many of them.
LEMMA PlacesFinite ==
  ASSUME NEW q \in Seq(Tasks), NEW op, NEW s
  PROVE  IsFiniteSet(Places(q, op, s)) /\ Cardinality(Places(q, op, s)) \in Nat
<1>1. Places(q, op, s) \in SUBSET (1 .. Len(q)) /\ Len(q) \in Nat
  BY DEF Places
<1>2. IsFiniteSet(1 .. Len(q))
  BY <1>1, FS_Interval
<1>3. IsFiniteSet(Places(q, op, s))
  BY <1>1, <1>2, FS_Subset
<1> QED
  BY <1>3, FS_CardinalityType

\* A task that goes to the end of the queue is one more, if it is one of them.
LEMMA PlacesAppend ==
  ASSUME NEW q \in Seq(Tasks), NEW t, NEW op, NEW s
  PROVE  Cardinality(Places(Append(q, t), op, s)) =
         Cardinality(Places(q, op, s)) + (IF t.kind = op /\ t.svc = s THEN 1 ELSE 0)
<1> DEFINE n == Len(q) + 1
<1>1. /\ DOMAIN Append(q, t) = 1 .. n /\ DOMAIN q = 1 .. Len(q) /\ Len(q) \in Nat
      /\ Append(q, t)[n] = t /\ \A i \in 1 .. Len(q) : Append(q, t)[i] = q[i]
  OBVIOUS
<1>2. n \notin Places(q, op, s)
  BY <1>1 DEF Places
<1>3. CASE t.kind = op /\ t.svc = s
  <2>1. Places(Append(q, t), op, s) = Places(q, op, s) \cup {n}
    BY <1>1, <1>3 DEF Places
  <2>2. IsFiniteSet(Places(q, op, s)) /\ Cardinality(Places(q, op, s)) \in Nat
    BY PlacesFinite
  <2>3. Cardinality(Places(q, op, s) \cup {n}) = Cardinality(Places(q, op, s)) + 1
    BY <1>2, <2>2, FS_AddElement
  <2> QED
    BY <1>3, <2>1, <2>3
<1>4. CASE ~(t.kind = op /\ t.svc = s)
  <2>1. Places(Append(q, t), op, s) = Places(q, op, s)
    BY <1>1, <1>4 DEF Places
  <2> QED
    BY <1>4, <2>1, PlacesFinite
<1> QED
  BY <1>3, <1>4

\* The one that is taken off its head is one less, if it is one of them.
LEMMA PlacesTail ==
  ASSUME NEW q \in Seq(Tasks), q # <<>>, NEW op, NEW s
  PROVE  Cardinality(Places(q, op, s)) =
         Cardinality(Places(Tail(q), op, s))
         + (IF q[1].kind = op /\ q[1].svc = s THEN 1 ELSE 0)
<1> DEFINE S == Places(Tail(q), op, s)
           T == Places(q, op, s) \ {1}
           f == [i \in S |-> i + 1]
<1>1. /\ DOMAIN q = 1 .. Len(q) /\ DOMAIN Tail(q) = 1 .. Len(q) - 1 /\ Len(q) \in Nat \ {0}
      /\ \A i \in 1 .. Len(q) - 1 : Tail(q)[i] = q[i + 1]
  OBVIOUS
<1>2. /\ \A i \in S : i \in Nat /\ i + 1 \in T
      /\ \A k \in T : k \in Nat /\ k - 1 \in S
  BY <1>1 DEF Places
<1>3. f \in Bijection(S, T)
  <2>1. f \in [S -> T] /\ \A i, k \in S : f[i] = f[k] => i = k
    BY <1>2
  <2>2. \A k \in T : \E i \in S : f[i] = k
    <3>1. \A k \in T : f[k - 1] = k
      BY <1>2
    <3> QED
      BY <1>2, <3>1
  <2> QED
    BY <2>1, <2>2 DEF Bijection, Injection, Surjection, IsInjective
<1>4. IsFiniteSet(S) /\ IsFiniteSet(Places(q, op, s)) /\ Cardinality(Places(q, op, s)) \in Nat
  <2>1. Tail(q) \in Seq(Tasks)
    OBVIOUS
  <2> QED
    BY <2>1, PlacesFinite
<1>5. Cardinality(T) = Cardinality(S)
  BY <1>3, <1>4, FS_Bijection DEF ExistsBijection
<1>6. Cardinality(T) = IF 1 \in Places(q, op, s) THEN Cardinality(Places(q, op, s)) - 1
                       ELSE Cardinality(Places(q, op, s))
  BY <1>4, FS_RemoveElement
<1>7. 1 \in Places(q, op, s) <=> q[1].kind = op /\ q[1].svc = s
  BY <1>1 DEF Places
<1> QED
  BY <1>4, <1>5, <1>6, <1>7

\* Waiting jobs and coming tasks stay in balance: a step adds a job with a task or
\* a crash, ends a job with a task, or finds none to end.
LEMMA Balance ==
  ASSUME NEW U, IsFiniteSet(U), NEW V, NEW c \in Nat, NEW d \in Nat, Cardinality(U) =< c,
         \/ V \subseteq U /\ c =< d
         \/ \E x : V \subseteq U \cup {x} /\ c + 1 =< d
         \/ \E x \in U : V \subseteq U \ {x} /\ c =< d + 1
         \/ V = {}
  PROVE  Cardinality(V) =< d
<1>0. Cardinality(U) \in Nat
  BY FS_CardinalityType
<1>1. CASE V \subseteq U /\ c =< d
  <2>1. Cardinality(V) =< Cardinality(U) /\ Cardinality(V) \in Nat
    BY <1>1, FS_Subset, FS_CardinalityType
  <2> QED
    BY <1>0, <1>1, <2>1
<1>2. CASE \E x : V \subseteq U \cup {x} /\ c + 1 =< d
  <2>1. PICK x : V \subseteq U \cup {x} /\ c + 1 =< d
    BY <1>2
  <2>2. IsFiniteSet(U \cup {x}) /\ Cardinality(U \cup {x}) =< Cardinality(U) + 1
        /\ Cardinality(U \cup {x}) \in Nat
    BY <1>0, FS_AddElement, FS_CardinalityType
  <2>3. Cardinality(V) =< Cardinality(U \cup {x}) /\ Cardinality(V) \in Nat
    BY <2>1, <2>2, FS_Subset, FS_CardinalityType
  <2> QED
    BY <1>0, <2>1, <2>2, <2>3
<1>3. CASE \E x \in U : V \subseteq U \ {x} /\ c =< d + 1
  <2>1. PICK x \in U : V \subseteq U \ {x} /\ c =< d + 1
    BY <1>3
  <2>2. IsFiniteSet(U \ {x}) /\ Cardinality(U \ {x}) = Cardinality(U) - 1
    BY FS_RemoveElement
  <2>3. Cardinality(V) =< Cardinality(U \ {x}) /\ Cardinality(V) \in Nat
    BY <2>1, <2>2, FS_Subset, FS_CardinalityType
  <2> QED
    BY <1>0, <2>1, <2>2, <2>3
<1>4. CASE V = {}
  BY <1>4, FS_EmptySet
<1> QED
  BY <1>1, <1>2, <1>3, <1>4

\* A mutation that is about to put a task of the kind for the service on the queue,
\* and a worker that just took one off it.
Brings(op, s) == api.pc = "enqueue" /\ api.task.kind = op /\ api.task.svc = s
Looks(op, s) == /\ pc \in {"find_backup", "find_restore"}
                /\ frame.kind = op /\ frame.svc = s /\ frame.rjob = NoJob

\* What NoStrandedJob compares, told by these.
ComingTold == \A op, s :
    /\ Coming(op, s) = Cardinality(Places(queue, op, s))
                       + (IF Brings(op, s) THEN 1 ELSE 0) + (IF Looks(op, s) THEN 1 ELSE 0)
    /\ Cardinality(Places(queue, op, s)) \in Nat

UnattendedTold == \A op, s :
    /\ Unattended(op, s) = {k \in DOMAIN jobs : /\ jobs[k].op = op /\ jobs[k].svc = s
                                                /\ jobs[k].status \in LiveStatus
                                                /\ k \notin Holds}
    /\ IsFiniteSet(Unattended(op, s))

\* Both are so in every state.
LEMMA ToldAlways == WorkerInv => ComingTold /\ UnattendedTold
<1> SUFFICES ASSUME WorkerInv PROVE ComingTold /\ UnattendedTold
  OBVIOUS
<1>0. queue \in Seq(Tasks) /\ JobsType
  BY DEF WorkerInv, TypeOK, TasksType
<1>1. ASSUME NEW op, NEW s
      PROVE  /\ Coming(op, s) = Cardinality(Places(queue, op, s))
                + (IF Brings(op, s) THEN 1 ELSE 0) + (IF Looks(op, s) THEN 1 ELSE 0)
             /\ Cardinality(Places(queue, op, s)) \in Nat
  <2>1. Places(queue, op, s) = {i \in DOMAIN queue : queue[i].kind = op /\ queue[i].svc = s}
    BY DEF Places
  <2>2. Coming(op, s) = Cardinality(Places(queue, op, s))
                        + (IF Brings(op, s) THEN 1 ELSE 0) + (IF Looks(op, s) THEN 1 ELSE 0)
    BY <2>1 DEF Coming, Brings, Looks
  <2> QED
    BY <1>0, <2>2, PlacesFinite
<1>2. ASSUME NEW op, NEW s
      PROVE  /\ Unattended(op, s) = {k \in DOMAIN jobs : /\ jobs[k].op = op /\ jobs[k].svc = s
                                                         /\ jobs[k].status \in LiveStatus
                                                         /\ k \notin Holds}
             /\ IsFiniteSet(Unattended(op, s))
  <2>1. Unattended(op, s) = {k \in DOMAIN jobs : /\ jobs[k].op = op /\ jobs[k].svc = s
                                                 /\ jobs[k].status \in LiveStatus
                                                 /\ k \notin Holds}
    BY HeldIsHolds DEF HeldTold, Unattended, JobsOf
  <2>2. Unattended(op, s) \in SUBSET (1 .. nextJob - 1) /\ nextJob - 1 \in Int
    BY <1>0, <2>1 DEF JobsType
  <2>3. IsFiniteSet(1 .. nextJob - 1)
    BY <2>2, FS_Interval
  <2> QED
    BY <2>1, <2>2, <2>3, FS_Subset
<1> QED
  BY <1>1, <1>2 DEF ComingTold, UnattendedTold

\* And after every step.
LEMMA ToldNext == ASSUME WorkerInv, [Next]_vars PROVE ComingTold' /\ UnattendedTold'
<1>1. WorkerInv'
  BY WorkerInvStep
<1>2. WorkerInv' => ComingTold' /\ UnattendedTold'
  BY ToldAlways, PTL
<1> QED
  BY <1>1, <1>2

\* A worker that looks for the job of its own task finds one that waited, or there
\* is none.
LEMMA LookedFor ==
  ASSUME WorkerInv, EndedInv, CarriedInv, NEW s \in Services, NEW op \in {"backup", "restore"},
         Looks(op, s), WorkerStep
  PROVE  /\ ~TakeTask
         /\ \/ \E j \in DOMAIN jobs :
                  /\ jobs[j].op = op /\ jobs[j].svc = s /\ jobs[j].status \in LiveStatus
                  /\ j \notin Holds /\ j \in Holds'
            \/ UNCHANGED <<jobs, frame>> /\ JobsOf(jobs, op, s, LiveStatus) = {}
<1>1. \/ pc = "find_backup" /\ op = "backup"
      \/ pc = "find_restore" /\ op = "restore"
  BY DEF Looks, EndedInv, InRestore, WorkerInv, KindInv, RestoreLabels, BackupLabels
<1>2. /\ frame.svc = s /\ frame.rjob = NoJob /\ frame \in Frames
      /\ NoJob \notin DOMAIN jobs /\ frame.kind = op
  BY HeldIds DEF Looks, WorkerInv
<1>3. frame.parent = NoJob
  BY <1>2 DEF CarriedInv
<1>4. frame.job = NoJob
  BY <1>1, <1>2 DEF EndedInv
<1>5. Holds = {NoJob}
  BY <1>2, <1>3, <1>4 DEF Holds
<1>6. \/ FindBackupJob \/ NoBackupJob \/ FindRestoreJob \/ NoRestoreJob
  BY <1>1 DEF WorkerStep, BackUp, RestoreSnapshot, TasksOverSeveral, TakeTask,
     StartAutobackup, NothingDue, PickDue, RunParent, NextBackup, FinishParent, ParentError,
     StartFullRestore, NoConfigSnapshot, NextRestore, AddRebuild, StartRebuild, EndRebuild,
     FinishFullRestore, AddBackupJob, BackupRefused, RunBackup, ReportProgress, NoProgress,
     Upload, UploadFails, Register, FinishBackup, ClearFailed, BackupError, AddRestoreJob,
     RestoreRefused, QueueRestore, CheckRestore, NotRestorable, StopService, StopTimesOut,
     AssertDead, NotDead, AwaitFailsafe, Wipe, Refill, RefillFails, RevertError, Revert,
     Download, Overwrite, PostRestore, StartService, StartTimesOut, FinishRestore,
     RestoreError, Mark, Skip
<1>7. CASE FindBackupJob
  <2>1. PICK j \in DOMAIN jobs : /\ IsNewestLive(jobs, "backup", s, j)
                                 /\ frame' = [frame EXCEPT !.job = j]
    BY <1>2, <1>7 DEF FindBackupJob
  <2>2. frame'.job = j
    BY <1>2, <2>1 DEF Frames
  <2>3. jobs[j].op = "backup" /\ jobs[j].svc = s /\ jobs[j].status \in LiveStatus
    BY <2>1 DEF IsNewestLive, JobsOf
  <2> QED
    BY <1>1, <1>2, <1>5, <1>7, <2>2, <2>3 DEF Holds, FindBackupJob, TakeTask
<1>8. CASE FindRestoreJob
  <2>1. PICK j \in DOMAIN jobs : /\ IsNewestLive(jobs, "restore", s, j)
                                 /\ frame' = [frame EXCEPT !.rjob = j]
    BY <1>2, <1>8 DEF FindRestoreJob
  <2>2. frame'.rjob = j
    BY <1>2, <2>1 DEF Frames
  <2>3. jobs[j].op = "restore" /\ jobs[j].svc = s /\ jobs[j].status \in LiveStatus
    BY <2>1 DEF IsNewestLive, JobsOf
  <2> QED
    BY <1>1, <1>2, <1>5, <1>8, <2>2, <2>3 DEF Holds, FindRestoreJob, TakeTask
<1>9. CASE NoBackupJob
  BY <1>1, <1>2, <1>9 DEF NoBackupJob, Skip, TakeTask, jobVars
<1>10. CASE NoRestoreJob
  BY <1>1, <1>2, <1>10 DEF NoRestoreJob, Skip, TakeTask, jobVars
<1> QED
  BY <1>6, <1>7, <1>8, <1>9, <1>10

\* A worker that takes the task off the queue looks for its job next.
LEMMA TakenLooks ==
  ASSUME WorkerInv, TakeTask, NEW s, NEW op \in {"backup", "restore"}
  PROVE  /\ api' = api /\ queue # <<>> /\ queue' = Tail(queue) /\ jobs' = jobs /\ ~Looks(op, s)
         /\ queue[1].kind = op /\ queue[1].svc = s => Looks(op, s)'
<1>0. Head(queue) = queue[1] /\ queue # <<>>
  BY DEF TakeTask, WorkerInv, TypeOK, TasksType
<1>1. /\ pc = "idle"
      /\ queue[1].kind = "backup" => pc' = "find_backup"
      /\ queue[1].kind = "restore" => pc' = "find_restore"
  BY <1>0 DEF TakeTask
<1>2. frame'.kind = queue[1].kind /\ frame'.svc = queue[1].svc /\ frame'.rjob = NoJob
  BY <1>0 DEF TakeTask, EmptyFrame
<1> QED
  BY <1>0, <1>1, <1>2 DEF Looks, TakeTask, jobVars

\* Nobody waits in vain.
LEMMA StrandedStep ==
  ASSUME WorkerInv, EndedInv, CarriedInv, NoStrandedJob, [Next]_vars
  PROVE  NoStrandedJob'
<1> SUFFICES ASSUME NEW s \in Services, NEW op \in {"backup", "restore"}
             PROVE  Cardinality(Unattended(op, s)') =< Coming(op, s)' + crashes'
  BY DEF NoStrandedJob
<1> DEFINE U == Unattended(op, s)
           V == Unattended(op, s)'
           n == Cardinality(Places(queue, op, s))
           m == Cardinality(Places(queue', op, s))
           b == IF Brings(op, s) THEN 1 ELSE 0
           l == IF Looks(op, s) THEN 1 ELSE 0
           c == n + b + l + crashes
           d == m + b' + l' + crashes'
           Good == \/ V \subseteq U /\ c =< d
                   \/ \E x : V \subseteq U \cup {x} /\ c + 1 =< d
                   \/ \E x \in U : V \subseteq U \ {x} /\ c =< d + 1
                   \/ V = {}
<1>0. /\ queue \in Seq(Tasks) /\ TypeOK /\ api.task \in Tasks
      /\ crashes \in Nat /\ crashes' \in Nat
      /\ crashes' = crashes \/ crashes' = crashes + 1
  BY CrashesCount DEF WorkerInv, TypeOK, TasksType
<1>1. /\ n \in Nat /\ m \in Nat /\ b \in {0, 1} /\ b' \in {0, 1} /\ l \in {0, 1} /\ l' \in {0, 1}
      /\ Coming(op, s) = n + b + l /\ Coming(op, s)' = m + b' + l'
  BY ToldAlways, ToldNext DEF ComingTold
<1>2. c \in Nat /\ d \in Nat
  BY <1>0, <1>1
<1>3. /\ U = {k \in DOMAIN jobs : /\ jobs[k].op = op /\ jobs[k].svc = s
                                  /\ jobs[k].status \in LiveStatus /\ k \notin Holds}
      /\ V = {k \in DOMAIN jobs' : /\ jobs'[k].op = op /\ jobs'[k].svc = s
                                   /\ jobs'[k].status \in LiveStatus /\ k \notin Holds'}
      /\ IsFiniteSet(U)
  BY ToldAlways, ToldNext DEF UnattendedTold
<1>4. Cardinality(U) =< c
  <2>1. Cardinality(U) =< Coming(op, s) + crashes
    BY DEF NoStrandedJob
  <2> QED
    BY <1>1, <2>1
<1>5. Good => Cardinality(V) =< d
  <2> HIDE DEF U, V, c, d
  <2> QED
    BY <1>2, <1>3, <1>4, Balance
<1>6. SUFFICES Good
  BY <1>0, <1>1, <1>5
<1>7. ASSUME WorkerStep PROVE Good
  <2>1. V \subseteq U
    BY <1>3, <1>7, WorkerAttends
  <2>2. CASE TakeTask
    <3>1. /\ api' = api /\ queue # <<>> /\ queue' = Tail(queue) /\ ~Looks(op, s)
          /\ queue[1].kind = op /\ queue[1].svc = s => Looks(op, s)'
      BY <2>2, TakenLooks
    <3>2. b' = b /\ l = 0
      BY <3>1 DEF Brings
    <3>3. n = m + (IF queue[1].kind = op /\ queue[1].svc = s THEN 1 ELSE 0)
      BY <1>0, <3>1, PlacesTail
    <3>4. n + l =< m + l'
      BY <1>1, <3>1, <3>2, <3>3
    <3>5. c =< d
      BY <1>0, <1>1, <3>2, <3>4
    <3> QED
      BY <2>1, <3>5
  <2>3. CASE ~TakeTask
    <3>1. queue' = queue /\ api' = api
      BY <1>7, <2>3, WorkerLeavesQueue
    <3>2. m = n /\ b' = b
      BY <3>1 DEF Brings
    <3>3. CASE ~Looks(op, s)
      <4>1. c =< d
        BY <1>0, <1>1, <3>2, <3>3
      <4> QED
        BY <2>1, <4>1
    <3>4. CASE Looks(op, s)
      <4>1. c =< d + 1
        BY <1>0, <1>1, <3>2
      <4>2. CASE \E j \in DOMAIN jobs :
                    /\ jobs[j].op = op /\ jobs[j].svc = s /\ jobs[j].status \in LiveStatus
                    /\ j \notin Holds /\ j \in Holds'
        <5>1. \E x \in U : V \subseteq U \ {x}
          BY <1>3, <2>1, <4>2
        <5> QED
          BY <4>1, <5>1
      <4>3. CASE UNCHANGED <<jobs, frame>> /\ JobsOf(jobs, op, s, LiveStatus) = {}
        <5>1. U = {}
          BY <1>3, <4>3 DEF JobsOf
        <5> QED
          BY <2>1, <5>1
      <4> QED
        BY <1>7, <3>4, <4>2, <4>3, LookedFor
    <3> QED
      BY <3>3, <3>4
  <2> QED
    BY <2>2, <2>3
<1>8. ASSUME ApiAddJob PROVE Good
  <2>1. PICK svc, about :
           /\ AddJob(api.task.kind, svc, about) /\ svc = api.task.svc /\ api.pc = "add"
           /\ api' = [pc |-> "enqueue", task |-> [api.task EXCEPT !.job = nextJob]]
           /\ UNCHANGED <<queue, pc, frame>>
    BY <1>8 DEF ApiAddJob, workVars
  <2>2. api'.pc = "enqueue" /\ api'.task.kind = api.task.kind /\ api'.task.svc = api.task.svc
    BY <1>0, <2>1 DEF Tasks
  <2>3. /\ DOMAIN jobs' = DOMAIN jobs \cup {nextJob}
        /\ \A k \in DOMAIN jobs : jobs'[k] = jobs[k]
        /\ jobs'[nextJob].op = api.task.kind /\ jobs'[nextJob].svc = api.task.svc
    BY <1>0, <2>1, AddFacts
  <2>4. Holds' = Holds /\ l' = l /\ m = n /\ b = 0 /\ crashes' = crashes
    BY <1>8, <2>1 DEF Holds, Looks, Brings, ApiAddJob, countVars
  <2>5. CASE api.task.kind = op /\ api.task.svc = s
    <3>1. b' = 1
      BY <2>2, <2>5 DEF Brings
    <3>2. V \subseteq U \cup {nextJob}
      BY <1>3, <2>3, <2>4
    <3>3. c + 1 =< d
      BY <1>0, <1>1, <2>4, <3>1
    <3> QED
      BY <3>2, <3>3
  <2>6. CASE ~(api.task.kind = op /\ api.task.svc = s)
    <3>1. V \subseteq U
      BY <1>3, <2>3, <2>4, <2>6
    <3>2. c =< d
      BY <1>0, <1>1, <2>4
    <3> QED
      BY <3>1, <3>2
  <2> QED
    BY <2>5, <2>6
<1>9. ASSUME UNCHANGED <<jobs, pc, frame>>, NEW t, queue' = Append(queue, t),
             Brings(op, s) => Brings(op, s)' \/ (t.kind = op /\ t.svc = s)
      PROVE  Good
  <2>1. Holds' = Holds /\ l' = l
    BY <1>9 DEF Holds, Looks
  <2>2. V \subseteq U
    BY <1>3, <1>9, <2>1
  <2>3. m = n + (IF t.kind = op /\ t.svc = s THEN 1 ELSE 0)
    BY <1>0, <1>9, PlacesAppend
  <2>4. n + b =< m + b'
    BY <1>1, <1>9, <2>3
  <2>5. c =< d
    BY <1>0, <1>1, <2>1, <2>4
  <2> QED
    BY <2>2, <2>5
<1>10. ASSUME UNCHANGED <<queue, pc, frame>>, \A k \in DOMAIN jobs' :
                 k \in DOMAIN jobs /\ (jobs[k].op # "rebuild" => jobs'[k] = jobs[k])
                 /\ jobs'[k].op = jobs[k].op,
              Brings(op, s) => Brings(op, s)' \/ crashes' = crashes + 1
       PROVE  Good
  <2>1. Holds' = Holds /\ l' = l /\ m = n
    BY <1>10 DEF Holds, Looks
  <2>2. V \subseteq U
    BY <1>3, <1>10, <2>1
  <2>3. b =< b' \/ crashes' = crashes + 1
    BY <1>1, <1>10
  <2>4. c =< d
    BY <1>0, <1>1, <2>1, <2>3
  <2> QED
    BY <2>2, <2>4
<1>11. ASSUME WorkerCrash PROVE Good
  <2>1. UNCHANGED <<jobs, queue, api>> /\ crashes' = crashes + 1
    BY <1>11, <1>0 DEF WorkerCrash, jobVars
  <2>2. m = n /\ b' = b
    BY <2>1 DEF Brings
  <2>3. CASE Looks(op, s)
    <3>1. frame.parent = NoJob /\ frame.rjob = NoJob /\ NoJob \notin DOMAIN jobs
      BY <1>0, <2>3, HeldIds DEF Looks, CarriedInv
    <3>2. frame.job = NoJob
      BY <2>3 DEF Looks, EndedInv, WorkerInv, KindInv, RestoreLabels
    <3>3. V \subseteq U
      BY <1>3, <2>1, <3>1, <3>2 DEF Holds
    <3>4. c =< d
      BY <1>0, <1>1, <2>1, <2>2
    <3> QED
      BY <3>3, <3>4
  <2>4. CASE ~Looks(op, s)
    <3>1. \E x : V \subseteq U \cup {x}
      <4>1. frame.parent \in DOMAIN jobs => jobs[frame.parent].op \in Several
        BY DEF WorkerInv, HeldInv, HeldParent
      <4>2. frame.rjob \in DOMAIN jobs => jobs[frame.rjob].op = "restore"
        BY DEF WorkerInv, HeldInv, HeldRestore, EndedInv
      <4>3. frame.job \in DOMAIN jobs => \/ jobs[frame.job].op \in {"backup", "rebuild"}
                                         \/ jobs[frame.job].status \in TerminalStatus
        BY DEF WorkerInv, HeldInv, HeldBackup, EndedInv
      <4>4. CASE op = "backup"
        <5>1. V \subseteq U \cup {frame.job}
          BY <1>3, <2>1, <4>1, <4>2, <4>4 DEF Holds, Several
        <5> QED
          BY <5>1
      <4>5. CASE op = "restore"
        <5>1. V \subseteq U \cup {frame.rjob}
          BY <1>3, <2>1, <4>1, <4>3, <4>5 DEF Holds, Several, LiveStatus, TerminalStatus
        <5> QED
          BY <5>1
      <4> QED
        BY <4>4, <4>5
    <3>2. c + 1 =< d
      BY <1>0, <1>1, <2>1, <2>2, <2>4
    <3> QED
      BY <3>1, <3>2
  <2> QED
    BY <2>3, <2>4
<1>12. ASSUME ApiStep \/ Environment \/ UNCHANGED vars PROVE Good
  <2>1. CASE ApiEnqueue
    <3>1. UNCHANGED <<jobs, pc, frame>> /\ queue' = Append(queue, api.task)
      BY <2>1 DEF ApiEnqueue, jobVars, workVars
    <3> QED
      BY <1>9, <3>1 DEF Brings
  <2>2. CASE ApiCrash
    <3>1. UNCHANGED <<queue, pc, frame>> /\ jobs' = EndRebuilds /\ crashes' = crashes + 1
      BY <2>2 DEF ApiCrash, workVars
    <3> QED
      BY <1>0, <1>10, <3>1, EndRebuildsFacts
  <2>3. CASE UNCHANGED <<queue, api, pc, frame>> /\ \E ids : jobs' = Remove(jobs, ids)
    BY <1>10, <2>3, RemoveFacts DEF Brings
  <2>4. CASE UNCHANGED <<jobs, pc, frame, queue, api>>
    BY <1>10, <2>4 DEF Brings
  <2>5. CASE UNCHANGED <<jobs, pc, frame, queue>> /\ api.pc = "idle" /\ api'.pc = "add"
    BY <1>10, <2>5 DEF Brings
  <2>6. CASE /\ UNCHANGED <<jobs, pc, frame, api>>
             /\ queue' = Append(queue, [NoTask EXCEPT !.kind = "autobackup"])
    BY <1>9, <2>6 DEF Brings
  <2> QED
    BY <1>8, <1>11, <1>12, <2>1, <2>2, <2>3, <2>4, <2>5, <2>6, OthersEffects
<1> QED
  BY <1>7, <1>12 DEF Next

\* At first nobody waits and no task is on its way.
LEMMA IInvInit == Init => IInv
<1> SUFFICES ASSUME Init PROVE IInv
  OBVIOUS
<1>0. WorkerInv
  BY WorkerInvInit
<1>1. /\ DOMAIN jobs = {} /\ frame = EmptyFrame /\ pc = "idle" /\ Len(queue) = 0
      /\ api.task = NoTask /\ crashes = 0
  BY DEF Init
<1>2. EndedInv
  BY <1>1 DEF EndedInv, EmptyFrame, InRestore, RestoreLabels, FailsafeLabels, BackupLabels
<1>3. CarriedInv
  BY <1>1 DEF CarriedInv, EmptyFrame, NoTask
<1>4. FreshInv /\ NoStrandedParent
  BY <1>1 DEF FreshInv, NoStrandedParent
<1>5. NoStrandedJob
  <2>1. ASSUME NEW s \in Services, NEW op \in {"backup", "restore"}
        PROVE  Cardinality(Unattended(op, s)) =< Coming(op, s) + crashes
    <3>1. Unattended(op, s) = {}
      BY <1>1 DEF Unattended, JobsOf
    <3>2. Coming(op, s) \in Nat
      BY <1>0, ToldAlways DEF ComingTold
    <3>3. Cardinality({}) = 0
      BY FS_EmptySet
    <3> QED
      BY <1>1, <3>1, <3>2, <3>3
  <2> QED
    BY <2>1 DEF NoStrandedJob
<1> QED
  BY <1>0, <1>2, <1>3, <1>4, <1>5 DEF IInv

\* IInv is inductive.
LEMMA IInvStep == IInv /\ [Next]_vars => IInv'
<1> SUFFICES ASSUME IInv, [Next]_vars PROVE IInv'
  OBVIOUS
<1>1. WorkerInv'
  BY WorkerInvStep DEF IInv
<1>2. EndedInv' /\ CarriedInv'
  BY CarriedStep DEF IInv
<1>3. FreshInv'
  BY FreshStep DEF IInv
<1>4. NoStrandedJob'
  BY StrandedStep DEF IInv
<1>5. NoStrandedParent'
  BY ParentsStep DEF IInv
<1> QED
  BY <1>1, <1>2, <1>3, <1>4, <1>5 DEF IInv

\* The jobs that the worker holds are of the type it believes, have not ended
\* behind its back, and belong to no other task; what it let go of has ended.
THEOREM HeldJobsAreLive == Spec => []IInv
  BY IInvInit, IInvStep, PTL DEF Spec

\* Nobody waits in vain: for every backup or restore job that is live and not in
\* the worker's hands a task of that kind for that service is to come, but for one
\* of each kind and service per crash, although tasks take each other's jobs.
THEOREM NobodyWaitsInVain == Spec => []NoStrandedJob
<1>1. IInv => NoStrandedJob
  BY DEF IInv
<1> QED
  BY <1>1, HeldJobsAreLive, PTL

\* The job of a total backup or of an autobackup is live only while its own task
\* carries it, unless a crash lost the task.
THEOREM ParentsAreCarried == Spec => []NoStrandedParent
<1>1. IInv => NoStrandedParent
  BY DEF IInv
<1> QED
  BY <1>1, HeldJobsAreLive, PTL

\* A backup job that becomes FINISHED has a snapshot of its service that was made
\* after the job was added, whichever task worked on it.
THEOREM FinishedIsFresh == Spec => FinishedBackupIsFresh
<1>1. ASSUME IInv, [Next]_vars, NEW j \in DOMAIN jobs \cap DOMAIN jobs',
             jobs[j].op = "backup", jobs[j].status # "FINISHED", jobs'[j].status = "FINISHED"
      PROVE  /\ frame.made \in Snapshots
             /\ frame.made.svc = jobs[j].svc
             /\ frame.made.id >= jobs[j].since
  <2>1. j = frame.job /\ pc = "finish_backup"
    BY <1>1, OnlyBackupsFinish DEF IInv, FinishBackup, Mark
  <2> QED
    BY <1>1, <2>1 DEF IInv, WorkerInv, FreshInv, LocalsInv, HeldInv, HeldBackup
<1>2. IInv /\ [Next]_vars =>
         [\A j \in DOMAIN jobs \cap DOMAIN jobs' :
             /\ jobs[j].op = "backup"
             /\ jobs[j].status # "FINISHED" /\ jobs'[j].status = "FINISHED"
             => /\ frame.made \in Snapshots
                /\ frame.made.svc = jobs[j].svc
                /\ frame.made.id >= jobs[j].since]_vars
  BY <1>1
<1> QED
  BY <1>2, HeldJobsAreLive, PTL DEF Spec, FinishedBackupIsFresh
=============================================================================
