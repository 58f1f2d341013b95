-------------------------- MODULE SystemTasksProofs --------------------------
(***************************************************************************)
(* SystemInv is inductive; hence, whatever the events and the bounds, no   *)
(* rebuild is stranded and the jobs that ended expire.  With the order of  *)
(* the runs of a unit (RebuiltInv), "System rebuilt." is said only when it *)
(* was; with the place of each task (FinalInv), an end is final.           *)
(***************************************************************************)
EXTENDS SystemTasksProperties, TLAPS

Statuses == Live \cup Terminal

\* A step of the coroutine or of the collection within the current task: at most
\* it begins to write to the job of that task, and it says how the job ended
\* before the task is over, unless it gives up.
WorkStep ==
    /\ UNCHANGED <<jobs, nextJob, adding, queue, task>>
    /\ pc # "idle" /\ pc' # "idle"
    /\ forsaken \subseteq forsaken'
    /\ \/ UNCHANGED upd
       \/ Quiet(Writer) /\ \E s \in Statuses : Update(Writer, task, s)
    /\ pc' = "finish" => \/ task.id \in forsaken'
                         \/ \E s \in Terminal : Update(Writer, task, s)
    /\ pc = "finish" => pc' = "finish" /\ UNCHANGED upd

-----------------------------------------------------------------------------
(* The writers                                                             *)

\* Each way to change `upd` keeps its type.
LEMMA UpdateType ==
    ASSUME upd \in [Writers -> Updates], NEW w \in Writers, NEW t \in Tasks,
           NEW s \in Statuses, Update(w, t, s)
    PROVE  upd' \in [Writers -> Updates]
  BY DEF Update, Updates, Statuses

LEMMA DoneType ==
    ASSUME upd \in [Writers -> Updates], NEW w \in Writers, Done(w)
    PROVE  upd' \in [Writers -> Updates]
<1>1. NoUpdate \in Updates
  BY DEF NoUpdate, NoTask, Updates, Tasks, Ops, Live
<1> QED BY <1>1 DEF Done

LEMMA GotoType ==
    ASSUME upd \in [Writers -> Updates], NEW w \in Writers,
           NEW g \in {"store", "expire"}, Goto(w, g)
    PROVE  upd' \in [Writers -> Updates]
  BY DEF Goto, Updates

\* An update in progress concerns a task.
LEMMA WriterType ==
    ASSUME TypeOK
    PROVE  /\ Writer \in Writers
           /\ \A w \in Writers : /\ upd[w] \in Updates
                                 /\ upd[w].task \in Tasks
                                 /\ upd[w].task.id \in Nat
           /\ NoTask \in Tasks /\ task.id \in Nat /\ adding.id \in Nat
           /\ NoUpdate \in Updates
<1>1. \A w \in Writers : upd[w] \in Updates
  BY DEF TypeOK
<1>2. NoTask \in Tasks /\ NoUpdate \in Updates
  BY DEF NoUpdate, NoTask, Updates, Tasks, Ops, Live
<1> QED BY <1>1, <1>2 DEF TypeOK, Updates, Tasks, Writers, Writer

-----------------------------------------------------------------------------
(* Types                                                                   *)

\* A step of the worker keeps the types when the program counter is one of
\* those of the task, and the last conjuncts are looked at.
LEMMA TypeOfWork ==
    ASSUME SystemInv, WorkStep, UNCHANGED <<apiVars, unit, countVars, assumed>>,
           pc' \in Pcs, phase' \in {1, 2}, changed' \in BOOLEAN, starting' \subseteq Units,
           joined' \subseteq Nat, forsaken' \subseteq Nat,
           DOMAIN logs' \subseteq DOMAIN logs \cup {task},
           \A t \in DOMAIN logs' : t.op \in Units /\ logs'[t] \in {"quiet", "entry", "dead"},
           pc' \in {"start", "read", "subscribe", "listen", "follow", "stop_log", "status"}
              => task.op \in Units
    PROVE  TypeOK'
<1>1. upd' \in [Writers -> Updates]
  BY UpdateType, WriterType DEF SystemInv, TypeOK, WorkStep
<1> QED BY <1>1 DEF SystemInv, TypeOK, WorkStep, apiVars, countVars

\* The steps of rebuild_system.
LEMMA RebuildIsWork ==
    ASSUME SystemInv, Rebuild
    PROVE  /\ WorkStep /\ TypeOK' /\ KindInv' /\ LogInv'
<1> USE DEF outside, tableVars, apiVars, waitVars, unitVars, countVars, historyVars, At
<1>0. /\ TypeOK /\ KindInv /\ LogInv
      /\ task.op \in Units /\ Writer = "loop" /\ task.id \in Nat
  BY WriterType DEF SystemInv, TypeOK, Writer, Rebuild, StartUnit, StartUnitFails, Read,
     Subscribe, Listen, Follow, StopLog, Status, WaitTimesOut, WaitRaises, Waits, Units
<1>s. /\ "RUNNING" \in Statuses /\ "FINISHED" \in Statuses /\ "ERROR" \in Statuses
      /\ "FINISHED" \in Terminal /\ "ERROR" \in Terminal
  BY DEF Statuses, Live, Terminal
<1> USE <1>0, <1>s
<1>1. CASE StartUnit
  <2>1. WorkStep
    BY <1>1 DEF StartUnit, WorkStep
  <2>2. joined' \subseteq Nat
    BY <1>1 DEF StartUnit, TypeOK
  <2>3. TypeOK'
    BY <1>1, <2>1, <2>2, TypeOfWork DEF StartUnit, TypeOK, Pcs
  <2> QED BY <1>1, <2>1, <2>3 DEF StartUnit, KindInv, LogInv
<1>2. CASE StartUnitFails
  <2>1. WorkStep
    BY <1>2 DEF StartUnitFails, EndJob, WorkStep
  <2>2. TypeOK'
    BY <1>2, <2>1, TypeOfWork DEF StartUnitFails, EndJob, TypeOK, Pcs
  <2> QED BY <1>2, <2>1, <2>2 DEF StartUnitFails, EndJob, KindInv, LogInv
<1>3. CASE Read
  <2>1. WorkStep
    BY <1>3 DEF Read, Reached, WorkStep
  <2>2. TypeOK'
    BY <1>3, <2>1, TypeOfWork DEF Read, Reached, TypeOK, Pcs
  <2> QED BY <1>3, <2>1, <2>2 DEF Read, Reached, KindInv, LogInv
<1>4. CASE Subscribe
  <2>1. WorkStep
    BY <1>4 DEF Subscribe, WorkStep
  <2>2. TypeOK'
    BY <1>4, <2>1, TypeOfWork DEF Subscribe, TypeOK, Pcs
  <2> QED BY <1>4, <2>1, <2>2 DEF Subscribe, KindInv, LogInv
<1>5. CASE Listen
  <2>1. WorkStep
    BY <1>5 DEF Listen, Reached, WorkStep
  <2>2. TypeOK'
    BY <1>5, <2>1, TypeOfWork DEF Listen, Reached, TypeOK, Pcs
  <2> QED BY <1>5, <2>1, <2>2 DEF Listen, Reached, KindInv, LogInv
<1>6. CASE Follow
  <2>1. WorkStep
    BY <1>6 DEF Follow, WorkStep
  <2>2. TypeOK'
    BY <1>6, <2>1, TypeOfWork DEF Follow, TypeOK, Pcs
  <2> QED BY <1>6, <2>1, <2>2 DEF Follow, KindInv, LogInv
<1>7. CASE StopLog
  <2>1. WorkStep
    BY <1>7 DEF StopLog, EndJob, WorkStep
  <2>2. TypeOK'
    BY <1>7, <2>1, TypeOfWork DEF StopLog, CancelLog, EndJob, TypeOK, Pcs
  <2> QED BY <1>7, <2>1, <2>2 DEF StopLog, CancelLog, EndJob, KindInv, LogInv
<1>8. CASE Status
  <2>1. WorkStep
    BY <1>8 DEF Status, EndJob, Forsake, WorkStep
  <2>2. TypeOK'
    BY <1>8, <2>1, TypeOfWork DEF Status, EndJob, Forsake, TypeOK, Pcs
  <2> QED BY <1>8, <2>1, <2>2 DEF Status, EndJob, Forsake, KindInv, LogInv
<1>9. CASE WaitTimesOut
  <2>1. WorkStep
    BY <1>9 DEF WaitTimesOut, TimeoutError, Waits, EndJob, WorkStep
  <2>2. TypeOK'
    BY <1>9, <2>1, TypeOfWork DEF WaitTimesOut, TimeoutError, CancelLog, EndJob, TypeOK, Pcs
  <2> QED BY <1>9, <2>1, <2>2
          DEF WaitTimesOut, TimeoutError, CancelLog, EndJob, KindInv, LogInv
<1>10. CASE WaitRaises
  <2>1. WorkStep
    BY <1>10 DEF WaitRaises, Waits, EndJob, Forsake, WorkStep
  <2>2. TypeOK'
    BY <1>10, <2>1, TypeOfWork DEF WaitRaises, EndJob, Forsake, TypeOK, Pcs
  <2> QED BY <1>10, <2>1, <2>2 DEF WaitRaises, EndJob, Forsake, KindInv, LogInv
<1> QED BY <1>1, <1>2, <1>3, <1>4, <1>5, <1>6, <1>7, <1>8, <1>9, <1>10 DEF Rebuild

\* The steps of nix_collect_garbage_task.
LEMMA CollectGarbageIsWork ==
    ASSUME SystemInv, CollectGarbage
    PROVE  /\ WorkStep /\ TypeOK' /\ KindInv' /\ LogInv'
<1> USE DEF outside, tableVars, apiVars, waitVars, unitVars, countVars, historyVars, At
<1>0. /\ TypeOK /\ KindInv /\ LogInv
      /\ task.op = "gc" /\ Writer = "consumer" /\ task.id \in Nat
  BY WriterType DEF SystemInv, KindInv, Writer, CollectGarbage, GcBegin, GcBreaksOff, GcCount,
     GcClean, GcResult
<1>s. /\ "RUNNING" \in Statuses /\ "FINISHED" \in Statuses /\ "ERROR" \in Statuses
      /\ "FINISHED" \in Terminal /\ "ERROR" \in Terminal
  BY DEF Statuses, Live, Terminal
<1> USE <1>0, <1>s
<1>1. CASE GcBegin
  <2>1. WorkStep
    BY <1>1 DEF GcBegin, WorkStep
  <2>2. TypeOK'
    BY <1>1, <2>1, TypeOfWork DEF GcBegin, TypeOK, Pcs
  <2> QED BY <1>1, <2>1, <2>2 DEF GcBegin, KindInv, LogInv
<1>2. CASE GcBreaksOff
  <2>1. WorkStep
    BY <1>2 DEF GcBreaksOff, Forsake, WorkStep
  <2>2. TypeOK'
    BY <1>2, <2>1, TypeOfWork DEF GcBreaksOff, Forsake, TypeOK, Pcs
  <2> QED BY <1>2, <2>1, <2>2 DEF GcBreaksOff, Forsake, KindInv, LogInv
<1>3. CASE GcCount
  <2>1. WorkStep
    BY <1>3 DEF GcCount, EndJob, WorkStep
  <2>2. TypeOK'
    BY <1>3, <2>1, TypeOfWork DEF GcCount, EndJob, TypeOK, Pcs
  <2> QED BY <1>3, <2>1, <2>2 DEF GcCount, EndJob, KindInv, LogInv
<1>4. CASE GcClean
  <2>1. WorkStep
    BY <1>4 DEF GcClean, WorkStep
  <2>2. TypeOK'
    BY <1>4, <2>1, TypeOfWork DEF GcClean, TypeOK, Pcs
  <2> QED BY <1>4, <2>1, <2>2 DEF GcClean, KindInv, LogInv
<1>5. CASE GcResult
  <2>1. WorkStep
    BY <1>5 DEF GcResult, EndJob, WorkStep
  <2>2. TypeOK'
    BY <1>5, <2>1, TypeOfWork DEF GcResult, EndJob, TypeOK, Pcs
  <2> QED BY <1>5, <2>1, <2>2 DEF GcResult, EndJob, KindInv, LogInv
<1> QED BY <1>1, <1>2, <1>3, <1>4, <1>5 DEF CollectGarbage

-----------------------------------------------------------------------------
(* The invariant, group by group                                           *)

\* The work on a task.
LEMMA WorkKeepsInv ==
    ASSUME SystemInv, WorkStep, TypeOK', KindInv', LogInv'
    PROVE  SystemInv'
<1>0. /\ TypeOK /\ IdInv /\ WriterInv /\ FinishInv /\ NoStrandedRebuild /\ EndedJobsExpire
      /\ Writer' = Writer /\ Writer \in {"loop", "consumer"} /\ Writers = {"loop", "consumer", "api"}
  BY DEF SystemInv, WorkStep, Writer, Writers
<1>1. \/ UNCHANGED upd
      \/ \E st \in Statuses :
             /\ upd[Writer].stage = "none"
             /\ upd' = [upd EXCEPT ![Writer] =
                           [stage |-> "exists", task |-> task, status |-> st]]
  BY DEF WorkStep, Quiet, Update
<1>2. IdInv'
  BY <1>0, <1>1 DEF IdInv, WorkStep, TypeOK
<1>3. WriterInv'
  <2>1. CASE UNCHANGED upd
    BY <2>1, <1>0 DEF WriterInv, WorkStep, Quiet
  <2>2. ASSUME NEW st \in Statuses,
               upd' = [upd EXCEPT ![Writer] =
                          [stage |-> "exists", task |-> task, status |-> st]]
        PROVE  WriterInv'
    <3>1. upd'[Writer].task = task /\ \A w \in Writers \ {Writer} : upd'[w] = upd[w]
      BY <2>2, <1>0 DEF TypeOK
    <3>2. upd'["api"] = upd["api"]
      BY <3>1, <1>0
    <3>3. ASSUME NEW w \in {"loop", "consumer"}, ~Quiet(w)'
          PROVE  \/ upd'[w].task.id \in forsaken'
                 \/ pc' # "idle" /\ w = Writer' /\ upd'[w].task = task'
      BY <3>1, <3>3, <1>0 DEF WriterInv, WorkStep, Quiet
    <3> QED BY <3>2, <3>3, <1>0 DEF WriterInv, Quiet
  <2> QED BY <1>1, <2>1, <2>2
<1>4. FinishInv'
  <2> SUFFICES ASSUME pc' = "finish", task.id \notin forsaken'
               PROVE  FinishInv'
    BY DEF FinishInv, WorkStep
  <2>1. CASE pc = "finish"
    BY <2>1, <1>0 DEF FinishInv, WorkStep
  <2>2. CASE pc # "finish"
    BY <2>2, <1>0 DEF FinishInv, WorkStep, Update, TypeOK
  <2> QED BY <2>1, <2>2
<1>5. NoStrandedRebuild'
  BY <1>0 DEF NoStrandedRebuild, Served, WorkStep
<1>6. EndedJobsExpire'
  BY <1>0, <1>1 DEF EndedJobsExpire, WorkStep, TypeOK
<1> QED BY <1>2, <1>3, <1>4, <1>5, <1>6 DEF SystemInv

\* What systemd and the log tasks do that the jobs do not see.
LEMMA UnseenKeepsInv ==
    ASSUME SystemInv, UNCHANGED <<tableVars, upd, adding, queue, pc, task, forsaken>>,
           TypeOK', LogInv'
    PROVE  SystemInv'
<1>1. IdInv' /\ KindInv' /\ WriterInv'
  BY DEF SystemInv, IdInv, KindInv, WriterInv, Quiet, Writer, tableVars
<1>2. FinishInv'
  BY DEF SystemInv, FinishInv, Writer, tableVars
<1>3. NoStrandedRebuild' /\ EndedJobsExpire'
  BY DEF SystemInv, NoStrandedRebuild, EndedJobsExpire, Served, tableVars
<1> QED BY <1>1, <1>2, <1>3 DEF SystemInv

\* The steps of systemd.
LEMMA SystemdKeepsInv ==
    ASSUME SystemInv, Systemd
    PROVE  SystemInv'
<1> USE DEF notUnits, tableVars, apiVars, unitVars, countVars, historyVars
<1>0. TypeOK /\ LogInv
  BY DEF SystemInv
<1>1. UNCHANGED <<tableVars, upd, apiVars, queue, pc, task, phase, countVars, historyVars>>
  BY DEF Systemd, UnitStarts, UnitReady, UnitSucceeds, UnitFails, UnitLogs
<1>2. unit' \in [Units -> UnitStates] /\ changed' \in BOOLEAN /\ starting' \subseteq Units
  <2>1. ASSUME NEW u \in Units, UnitStarts(u)
        PROVE  <1>2!:
    <3>1. ASSUME NEW st \in {"activating", "active"}
          PROVE  [unit[u] EXCEPT !.state = st, !.run = nextJob] \in UnitStates
      <4>1. unit[u] \in UnitStates /\ nextJob \in Nat
        BY <1>0 DEF TypeOK
      <4> QED BY <4>1 DEF UnitStates
    <3> QED BY <2>1, <3>1, <1>0 DEF UnitStarts, SetUnit, TypeOK
  <2>2. ASSUME UnitReady
        PROVE  <1>2!:
    <3>1. "upgrade" \in Units
      BY DEF Units
    <3>2. [unit["upgrade"] EXCEPT !.state = "active"] \in UnitStates
      <4>1. unit["upgrade"] \in UnitStates
        BY <3>1, <1>0 DEF TypeOK
      <4> QED BY <4>1 DEF UnitStates
    <3> QED BY <2>2, <3>1, <3>2, <1>0 DEF UnitReady, SetUnit, TypeOK
  <2>3. ASSUME NEW u \in Units, UnitSucceeds(u)
        PROVE  <1>2!:
    BY <2>3, <1>0 DEF UnitSucceeds, SetUnit, TypeOK, UnitStates
  <2>4. ASSUME NEW u \in Units, UnitFails(u)
        PROVE  <1>2!:
    BY <2>4, <1>0 DEF UnitFails, SetUnit, TypeOK, UnitStates
  <2>5. ASSUME NEW u \in Units, UnitLogs(u)
        PROVE  <1>2!:
    BY <2>5, <1>0 DEF UnitLogs, TypeOK
  <2> QED BY <2>1, <2>2, <2>3, <2>4, <2>5 DEF Systemd
<1>3. /\ DOMAIN logs' = DOMAIN logs
      /\ \A t \in DOMAIN logs : logs'[t] \in {logs[t], "entry"}
  BY DEF Systemd, UnitStarts, UnitReady, UnitSucceeds, UnitFails, UnitLogs
<1>4. TypeOK'
  BY <1>0, <1>1, <1>2, <1>3 DEF TypeOK
<1>5. LogInv'
  BY <1>0, <1>1, <1>3 DEF LogInv
<1> QED BY <1>1, <1>4, <1>5, UnseenKeepsInv

\* A log task ends with an exception.
LEMMA LogDiesKeepsInv ==
    ASSUME SystemInv, NEW t \in DOMAIN logs, LogDies(t)
    PROVE  SystemInv'
<1> USE DEF outside, tableVars, apiVars, waitVars, unitVars, countVars, historyVars
<1>1. TypeOK' /\ LogInv'
  BY DEF SystemInv, LogDies, Log, TypeOK, LogInv
<1> QED BY <1>1, UnseenKeepsInv DEF LogDies

\* A log task begins to write to the job of its task.
LEMMA LogUpdateKeepsInv ==
    ASSUME SystemInv, NEW t \in DOMAIN logs, LogUpdate(t)
    PROVE  SystemInv'
<1> USE DEF outside, tableVars, apiVars, waitVars, unitVars, countVars, historyVars
<1>0. /\ TypeOK /\ IdInv /\ KindInv /\ WriterInv /\ LogInv /\ FinishInv
      /\ NoStrandedRebuild /\ EndedJobsExpire
      /\ Writers = {"loop", "consumer", "api"} /\ t \in Tasks /\ t.op \in Units
      /\ Writer' = Writer /\ Writer \in Writers
  BY DEF SystemInv, Writers, TypeOK, LogUpdate, Writer
<1>1. /\ upd["loop"].stage = "none"
      /\ upd' = [upd EXCEPT !["loop"] =
                    [stage |-> "exists", task |-> t, status |-> "RUNNING"]]
  BY DEF LogUpdate, Quiet, Update
<1>2. upd' \in [Writers -> Updates]
  BY <1>0, <1>1, UpdateType DEF LogUpdate, TypeOK, Statuses, Live
<1>3. TypeOK'
  BY <1>0, <1>2 DEF LogUpdate, Log, TypeOK
<1>4. IdInv' /\ KindInv'
  BY <1>0, <1>1 DEF LogUpdate, IdInv, KindInv, TypeOK
<1>5. LogInv'
  BY <1>0 DEF LogUpdate, Log, LogInv
<1>6. /\ upd'["loop"].task = t /\ upd'["loop"].stage = "exists"
      /\ upd'["consumer"] = upd["consumer"] /\ upd'["api"] = upd["api"]
  BY <1>0, <1>1 DEF TypeOK
<1>7. \/ t.id \in forsaken
      \/ t = task /\ pc \in {"read", "subscribe", "listen", "stop_log"}
  BY <1>0 DEF LogInv
<1>8. WriterInv'
  BY <1>0, <1>6, <1>7 DEF WriterInv, LogUpdate, Quiet, Writer, Units
<1>9. FinishInv'
  BY <1>0, <1>1, <1>6, <1>7 DEF FinishInv, LogUpdate, Writer
<1>10. NoStrandedRebuild' /\ EndedJobsExpire'
  BY <1>0, <1>1, <1>6 DEF NoStrandedRebuild, EndedJobsExpire, Served, LogUpdate
<1> QED BY <1>0, <1>3, <1>4, <1>5, <1>8, <1>9, <1>10 DEF SystemInv

-----------------------------------------------------------------------------
(* The API and the queue                                                   *)

\* A new job has a new id, and its task is about to be enqueued.
LEMMA RequestKeepsInv ==
    ASSUME SystemInv, NEW op \in Ops, Request(op)
    PROVE  SystemInv'
<1> USE DEF outside, tableVars, apiVars, waitVars, unitVars, countVars, historyVars
<1>0. /\ TypeOK /\ IdInv /\ KindInv /\ WriterInv /\ LogInv /\ FinishInv
      /\ NoStrandedRebuild /\ EndedJobsExpire
      /\ nextJob \in Nat \ {0} /\ nextJob \notin DOMAIN jobs
      /\ adding = NoTask /\ NoTask.id = 0
  BY DEF SystemInv, TypeOK, Request, ApiServes, NoTask
<1> DEFINE t == [id |-> nextJob, op |-> op]
<1>1. /\ t \in Tasks /\ t.id = nextJob
      /\ DOMAIN jobs' = DOMAIN jobs \cup {nextJob}
      /\ jobs'[nextJob] = [task |-> t, status |-> "CREATED", ttl |-> FALSE]
      /\ \A j \in DOMAIN jobs : jobs'[j] = jobs[j]
      /\ nextJob' = nextJob + 1 /\ adding' = t
      /\ requests' = requests + 1
      /\ UNCHANGED <<upd, todo, queue, pc, task, waitVars, logs, unitVars, restarts,
                     historyVars>>
  BY <1>0 DEF Request, Tasks
<1>2. TypeOK'
  <2>1. jobs'[nextJob] \in Jobs
    BY <1>1 DEF Jobs, Live
  <2>2. \A j \in DOMAIN jobs' : jobs'[j] \in Jobs /\ jobs'[j].task.id = j
    <3>1. ASSUME NEW j \in DOMAIN jobs
          PROVE  jobs'[j] \in Jobs /\ jobs'[j].task.id = j
      BY <1>0, <1>1 DEF TypeOK
    <3>2. jobs'[nextJob].task.id = nextJob
      BY <1>1
    <3> QED BY <1>1, <2>1, <3>1, <3>2
  <2>4. DOMAIN jobs' \subseteq 1 .. nextJob' - 1
    <3>1. \A j \in DOMAIN jobs : j \in 1 .. nextJob - 1
      BY <1>0 DEF TypeOK
    <3> QED BY <1>0, <1>1, <3>1
  <2>3. requests' \in Nat /\ nextJob' \in Nat \ {0} /\ adding' \in Tasks
    BY <1>0, <1>1 DEF TypeOK
  <2> QED BY <1>0, <1>1, <2>2, <2>3, <2>4 DEF TypeOK
<1>3. IdInv'
  <2>1. /\ task.id \in Nat
        /\ \A i \in DOMAIN queue : queue[i].id \in Nat
    <3>1. task \in Tasks /\ \A i \in DOMAIN queue : queue[i] \in Tasks
      BY <1>0 DEF TypeOK
    <3> QED BY <3>1 DEF Tasks
  <2> QED BY <1>0, <1>1, <2>1 DEF IdInv
<1>4. KindInv' /\ WriterInv' /\ LogInv'
  BY <1>0, <1>1 DEF KindInv, WriterInv, LogInv, Quiet, Writer
<1>5. FinishInv'
  BY <1>0, <1>1 DEF FinishInv, IdInv, Writer
<1>6. NoStrandedRebuild'
  BY <1>0, <1>1 DEF NoStrandedRebuild, Served, TypeOK
<1>7. EndedJobsExpire'
  BY <1>0, <1>1 DEF EndedJobsExpire, Terminal
<1> QED BY <1>2, <1>3, <1>4, <1>5, <1>6, <1>7 DEF SystemInv

\* The task of a new job goes to the end of the queue.
LEMMA EnqueueKeepsInv ==
    ASSUME SystemInv, Enqueue
    PROVE  SystemInv'
<1> USE DEF tableVars, apiVars, waitVars, unitVars, countVars, historyVars
<1>0. /\ TypeOK /\ IdInv /\ NoStrandedRebuild /\ NoTask \in Tasks
      /\ NoTask.id = 0 /\ nextJob \in Nat \ {0}
  BY WriterType DEF SystemInv, TypeOK, NoTask
<1>1. /\ queue' = Append(queue, adding) /\ adding' = NoTask
      /\ UNCHANGED <<tableVars, upd, todo, pc, task, waitVars, logs, unitVars, countVars,
                     historyVars>>
  BY DEF Enqueue
<1>2. /\ queue' \in Seq(Tasks)
      /\ DOMAIN queue' = DOMAIN queue \cup {Len(queue) + 1}
      /\ queue'[Len(queue) + 1] = adding
      /\ \A i \in DOMAIN queue : queue'[i] = queue[i]
  BY <1>0, <1>1 DEF TypeOK
<1>3. TypeOK' /\ IdInv'
  BY <1>0, <1>1, <1>2 DEF TypeOK, IdInv
<1>4. KindInv' /\ WriterInv' /\ LogInv' /\ FinishInv' /\ EndedJobsExpire'
  BY <1>1 DEF SystemInv, KindInv, WriterInv, LogInv, FinishInv, EndedJobsExpire, Quiet, Writer
<1>5. Served \subseteq Served'
  BY <1>1, <1>2 DEF Served
<1>6. NoStrandedRebuild'
  BY <1>0, <1>1, <1>5 DEF NoStrandedRebuild
<1> QED BY <1>3, <1>4, <1>6 DEF SystemInv

\* A job that is gone needs nothing.
LEMMA RemoveJobKeepsInv ==
    ASSUME SystemInv, NEW j \in DOMAIN jobs, RemoveJob(j)
    PROVE  SystemInv'
<1> USE DEF tableVars, apiVars, waitVars, unitVars, countVars, historyVars, SystemInv, RemoveJob
<1>1. TypeOK'
  BY DEF TypeOK
<1>2. IdInv' /\ KindInv' /\ WriterInv' /\ LogInv'
  BY DEF IdInv, KindInv, WriterInv, LogInv, Quiet, Writer
<1>3. FinishInv'
  BY DEF FinishInv, Writer
<1>4. NoStrandedRebuild' /\ EndedJobsExpire'
  BY DEF NoStrandedRebuild, EndedJobsExpire, Served
<1> QED BY <1>1, <1>2, <1>3, <1>4

\* The restart forsakes the job of the request, and of the update, it breaks off.
LEMMA ApiRestartsKeepsInv ==
    ASSUME SystemInv, ApiRestarts
    PROVE  SystemInv'
<1> USE DEF tableVars, apiVars, waitVars, unitVars, countVars, historyVars
<1>0. /\ TypeOK /\ IdInv /\ KindInv /\ WriterInv /\ LogInv /\ FinishInv
      /\ NoStrandedRebuild /\ EndedJobsExpire
      /\ NoTask \in Tasks /\ NoTask.id = 0 /\ nextJob \in Nat \ {0}
      /\ Writers = {"loop", "consumer", "api"} /\ Writer \in {"loop", "consumer"}
      /\ NoUpdate \in Updates /\ NoUpdate.stage = "none"
      /\ upd["api"].task \in Tasks
  BY WriterType DEF SystemInv, TypeOK, NoTask, Writers, Writer, NoUpdate
<1>1. /\ restarts' = restarts + 1 /\ adding' = NoTask
      /\ todo' = {jobs[j].task : j \in UnfinishedRebuilds}
      /\ upd' = [upd EXCEPT !["api"] = NoUpdate]
      /\ forsaken' = forsaken \cup {t.id : t \in {adding, upd["api"].task} \ {NoTask}}
      /\ UNCHANGED <<tableVars, queue, pc, task, waitVars, logs, unitVars, requests,
                     assumed, joined>>
  BY DEF ApiRestarts
<1>2. /\ upd' \in [Writers -> Updates]
      /\ upd'["api"] = NoUpdate
      /\ \A w \in {"loop", "consumer"} : upd'[w] = upd[w]
  BY <1>0, <1>1, DoneType DEF TypeOK, Done
<1>3. forsaken' \subseteq Nat
  <2>1. /\ adding.id \in Nat /\ upd["api"].task.id \in Nat
        /\ forsaken \subseteq Nat
    BY <1>0, WriterType DEF TypeOK
  <2> QED BY <1>1, <2>1
<1>4. todo' \subseteq Tasks
  BY <1>0, <1>1 DEF TypeOK, Jobs, UnfinishedRebuilds
<1>5. TypeOK'
  BY <1>0, <1>1, <1>2, <1>3, <1>4 DEF TypeOK
<1>6. IdInv'
  BY <1>0, <1>1, <1>2 DEF IdInv
<1>7. KindInv' /\ WriterInv' /\ LogInv'
  BY <1>0, <1>1, <1>2 DEF KindInv, WriterInv, LogInv, Quiet, Writer
<1>8. FinishInv'
  BY <1>0, <1>1, <1>2 DEF FinishInv, Writer
<1>9. adding.id \in forsaken' \cup {0} /\ upd["api"].task.id \in forsaken' \cup {0}
  BY <1>0, <1>1
<1>10. NoStrandedRebuild'
  BY <1>0, <1>1, <1>9 DEF NoStrandedRebuild, Served, TypeOK
<1>11. EndedJobsExpire'
  <2> SUFFICES ASSUME NEW j \in DOMAIN jobs, jobs[j].status \in Terminal, ~jobs[j].ttl,
                      j \notin forsaken'
               PROVE  \E w \in Writers : upd'[w].stage = "expire" /\ upd'[w].task.id = j
    BY <1>1 DEF EndedJobsExpire
  <2>1. PICK w \in Writers : upd[w].stage = "expire" /\ upd[w].task.id = j
    BY <1>0, <1>1 DEF EndedJobsExpire
  <2>2. w # "api"
    BY <2>1, <1>0, <1>9 DEF TypeOK
  <2> QED BY <2>1, <2>2, <1>0, <1>2
<1> QED BY <1>5, <1>6, <1>7, <1>8, <1>10, <1>11 DEF SystemInv

\* A starting API begins to write to a job it read.
LEMMA MigrateKeepsInv ==
    ASSUME SystemInv, Migrate
    PROVE  SystemInv'
<1> USE DEF tableVars, apiVars, waitVars, unitVars, countVars, historyVars
<1>0. /\ TypeOK /\ IdInv /\ KindInv /\ WriterInv /\ LogInv /\ FinishInv
      /\ NoStrandedRebuild /\ EndedJobsExpire
      /\ Writers = {"loop", "consumer", "api"} /\ Writer \in {"loop", "consumer"}
  BY DEF SystemInv, Writers, Writer
<1>1. PICK t \in todo : todo' = todo \ {t} /\ Update("api", t, "FINISHED")
  BY DEF Migrate
<1>2. /\ upd["api"].stage = "none"
      /\ UNCHANGED <<tableVars, adding, queue, pc, task, waitVars, logs, unitVars,
                     countVars, historyVars>>
  BY DEF Migrate, Quiet
<1>3. /\ upd' \in [Writers -> Updates]
      /\ upd'["api"].stage = "exists" /\ upd'["api"].status = "FINISHED"
      /\ \A w \in {"loop", "consumer"} : upd'[w] = upd[w]
  BY <1>0, <1>1, UpdateType DEF TypeOK, Update, Statuses, Terminal
<1>4. TypeOK'
  BY <1>0, <1>1, <1>2, <1>3 DEF TypeOK
<1>5. IdInv' /\ KindInv' /\ WriterInv' /\ LogInv'
  BY <1>0, <1>2, <1>3 DEF IdInv, KindInv, WriterInv, LogInv, Quiet, Writer
<1>6. FinishInv'
  BY <1>0, <1>2, <1>3 DEF FinishInv, Writer
<1>7. NoStrandedRebuild' /\ EndedJobsExpire'
  BY <1>0, <1>2, <1>3 DEF NoStrandedRebuild, EndedJobsExpire, Served
<1> QED BY <1>4, <1>5, <1>6, <1>7 DEF SystemInv

-----------------------------------------------------------------------------
(* The worker                                                              *)

\* The task leaves the queue, and is served by the worker from then on.
LEMMA TakeKeepsInv ==
    ASSUME SystemInv, Take
    PROVE  SystemInv'
<1> USE DEF tableVars, apiVars, waitVars, unitVars, countVars, historyVars
<1>0. /\ TypeOK /\ IdInv /\ KindInv /\ WriterInv /\ LogInv /\ FinishInv
      /\ NoStrandedRebuild /\ EndedJobsExpire
      /\ pc = "idle" /\ task = NoTask /\ NoTask.id = 0
  BY DEF SystemInv, KindInv, Take, NoTask
<1>1. /\ queue # <<>> /\ queue \in Seq(Tasks)
      /\ task' = Head(queue) /\ queue' = Tail(queue)
      /\ pc' = (IF Head(queue).op = "gc" THEN "gc_begin" ELSE "start")
      /\ UNCHANGED <<tableVars, upd, apiVars, waitVars, logs, unitVars, countVars,
                     historyVars>>
  BY <1>0 DEF Take, FirstStep, TypeOK
<1>2. /\ task' \in Tasks /\ task' = queue[1] /\ 1 \in DOMAIN queue
      /\ queue' \in Seq(Tasks)
      /\ \A i \in DOMAIN queue' : i + 1 \in DOMAIN queue /\ queue'[i] = queue[i + 1]
      /\ \A i \in DOMAIN queue : i = 1 \/ (i - 1 \in DOMAIN queue' /\ queue'[i - 1] = queue[i])
  BY <1>1
<1>3. TypeOK'
  <2>1. pc' \in Pcs /\ (pc' = "start" => task'.op \in Units) /\ pc' \in {"start", "gc_begin"}
    BY <1>1, <1>2 DEF Pcs, Tasks, Ops
  <2> QED BY <1>0, <1>1, <1>2, <2>1 DEF TypeOK
<1>4. IdInv' /\ KindInv'
  BY <1>0, <1>1, <1>2 DEF IdInv, KindInv
<1>5. WriterInv' /\ LogInv' /\ FinishInv'
  BY <1>0, <1>1 DEF WriterInv, LogInv, FinishInv, Quiet
<1>6. NoStrandedRebuild'
  <2>1. Served \subseteq Served' \cup {0}
    <3>1. ASSUME NEW i \in DOMAIN queue
          PROVE  queue[i].id \in Served'
      <4>1. CASE i = 1
        BY <4>1, <1>2 DEF Served
      <4>2. CASE i # 1
        BY <4>2, <1>2 DEF Served
      <4> QED BY <4>1, <4>2
    <3>2. adding.id \in Served' /\ task.id = 0
      BY <1>0, <1>1 DEF Served
    <3> QED BY <3>1, <3>2 DEF Served
  <2> QED BY <1>0, <1>1, <2>1 DEF NoStrandedRebuild, TypeOK
<1>7. EndedJobsExpire'
  BY <1>0, <1>1 DEF EndedJobsExpire
<1> QED BY <1>3, <1>4, <1>5, <1>6, <1>7 DEF SystemInv

\* A task that ends has written how its job ended, or is forsaken.
LEMMA FinishKeepsInv ==
    ASSUME SystemInv, Finish
    PROVE  SystemInv'
<1> USE DEF outside, tableVars, apiVars, waitVars, unitVars, countVars, historyVars
<1>0. /\ TypeOK /\ IdInv /\ KindInv /\ WriterInv /\ LogInv /\ FinishInv
      /\ NoStrandedRebuild /\ EndedJobsExpire
      /\ NoTask \in Tasks /\ NoTask.id = 0 /\ nextJob \in Nat \ {0}
      /\ Writer \in {"loop", "consumer"} /\ upd[Writer].stage = "none"
  BY WriterType DEF SystemInv, TypeOK, NoTask, Writer, Finish, At, Quiet
<1>1. /\ pc = "finish" /\ pc' = "idle" /\ task' = NoTask /\ phase' = 1 /\ changed' = FALSE
      /\ UNCHANGED <<outside, upd, logs, historyVars>>
  BY DEF Finish, At
<1>2. TypeOK'
  BY <1>0, <1>1 DEF TypeOK, Pcs
<1>3. IdInv' /\ KindInv' /\ FinishInv' /\ EndedJobsExpire'
  BY <1>0, <1>1 DEF IdInv, KindInv, FinishInv, EndedJobsExpire
<1>4. WriterInv' /\ LogInv'
  BY <1>0, <1>1 DEF WriterInv, LogInv, Quiet
<1>5. \/ task.id \in forsaken
      \/ task.id \notin DOMAIN jobs
      \/ jobs[task.id].status \in Terminal
  BY <1>0, <1>1 DEF FinishInv
<1>6. NoStrandedRebuild'
  BY <1>0, <1>1, <1>5 DEF NoStrandedRebuild, Served, Live, Terminal
<1> QED BY <1>2, <1>3, <1>4, <1>6 DEF SystemInv

\* The restart forsakes the job of the task, and thereby those of its updates.
LEMMA WorkerRestartsKeepsInv ==
    ASSUME SystemInv, WorkerRestarts
    PROVE  SystemInv'
<1> USE DEF tableVars, apiVars, waitVars, unitVars, countVars, historyVars
<1>0. /\ TypeOK /\ IdInv /\ KindInv /\ WriterInv /\ LogInv /\ FinishInv
      /\ NoStrandedRebuild /\ EndedJobsExpire
      /\ NoTask \in Tasks /\ NoTask.id = 0 /\ nextJob \in Nat \ {0}
      /\ Writers = {"loop", "consumer", "api"} /\ task.id \in Nat
      /\ NoUpdate \in Updates /\ NoUpdate.stage = "none"
  BY WriterType DEF SystemInv, TypeOK, NoTask, Writers, NoUpdate
<1>1. /\ restarts' = restarts + 1
      /\ pc' = "idle" /\ task' = NoTask /\ phase' = 1 /\ changed' = FALSE
      /\ logs' = <<>>
      /\ upd' = [upd EXCEPT !["loop"] = NoUpdate, !["consumer"] = NoUpdate]
      /\ forsaken' = forsaken \cup {t.id : t \in {task} \ {NoTask}}
      /\ UNCHANGED <<tableVars, apiVars, queue, unitVars, requests, assumed, joined>>
  BY DEF WorkerRestarts
<1>2. /\ upd' \in [Writers -> Updates]
      /\ upd'["api"] = upd["api"]
      /\ \A w \in {"loop", "consumer"} : upd'[w] = NoUpdate
  BY <1>0, <1>1 DEF TypeOK
<1>3. forsaken \subseteq forsaken' /\ forsaken' \subseteq Nat /\ task.id \in forsaken' \cup {0}
  BY <1>0, <1>1 DEF TypeOK
<1>4. TypeOK'
  <2>1. DOMAIN logs' = {}
    BY <1>1
  <2>2. pc' \in Pcs /\ restarts' \in Nat
    BY <1>0, <1>1 DEF TypeOK, Pcs
  <2> QED BY <1>0, <1>1, <1>2, <1>3, <2>1, <2>2 DEF TypeOK
<1>5. IdInv'
  BY <1>0, <1>1, <1>2 DEF IdInv
<1>6. KindInv' /\ WriterInv' /\ LogInv' /\ FinishInv'
  BY <1>0, <1>1, <1>2 DEF KindInv, WriterInv, LogInv, FinishInv, Quiet
<1>7. NoStrandedRebuild'
  BY <1>0, <1>1, <1>3 DEF NoStrandedRebuild, Served, TypeOK
<1>8. EndedJobsExpire'
  <2> SUFFICES ASSUME NEW j \in DOMAIN jobs, jobs[j].status \in Terminal, ~jobs[j].ttl,
                      j \notin forsaken'
               PROVE  \E w \in Writers : upd'[w].stage = "expire" /\ upd'[w].task.id = j
    BY <1>1 DEF EndedJobsExpire
  <2>1. PICK w \in Writers : upd[w].stage = "expire" /\ upd[w].task.id = j
    BY <1>0, <1>3 DEF EndedJobsExpire
  <2>2. w = "api"
    <3> SUFFICES ASSUME w \in {"loop", "consumer"}
                 PROVE  FALSE
      BY <1>0
    <3>1. upd[w].task.id \in forsaken \/ upd[w].task = task
      BY <2>1, <1>0 DEF WriterInv, Quiet
    <3>2. j # 0
      BY <1>0 DEF TypeOK
    <3> QED BY <2>1, <3>1, <3>2, <1>3
  <2> QED BY <2>1, <2>2, <1>0, <1>2
<1> QED BY <1>4, <1>5, <1>6, <1>7, <1>8 DEF SystemInv

-----------------------------------------------------------------------------
(* Jobs.update                                                             *)

\* `exists` of a job that is gone ends the update.
LEMMA UpdateExistsKeepsInv ==
    ASSUME SystemInv, NEW w \in Writers, UpdateExists(w)
    PROVE  SystemInv'
<1> USE DEF outside, tableVars, apiVars, waitVars, unitVars, countVars, historyVars
<1>0. /\ TypeOK /\ IdInv /\ KindInv /\ WriterInv /\ LogInv /\ FinishInv
      /\ NoStrandedRebuild /\ EndedJobsExpire
      /\ Writers = {"loop", "consumer", "api"} /\ Writer \in {"loop", "consumer"}
      /\ Writer' = Writer /\ NoUpdate.stage = "none"
      /\ upd[w].stage = "exists" /\ upd[w] \in Updates
      /\ UNCHANGED <<outside, pc, task, waitVars, logs, historyVars>>
  BY WriterType DEF SystemInv, Writers, Writer, NoUpdate, UpdateExists
<1>1. \A v \in Writers \ {w} : upd'[v] = upd[v]
  BY <1>0 DEF UpdateExists, Goto, Done, TypeOK
<1>2. \/ /\ upd[w].task.id \in DOMAIN jobs
         /\ upd'[w].stage = "store" /\ upd'[w].task = upd[w].task
         /\ upd'[w].status = upd[w].status
      \/ /\ upd[w].task.id \notin DOMAIN jobs
         /\ upd'[w] = NoUpdate
  <2>1. CASE upd[w].task.id \in DOMAIN jobs
    BY <2>1, <1>0 DEF UpdateExists, Goto, TypeOK, Updates
  <2>2. CASE upd[w].task.id \notin DOMAIN jobs
    BY <2>2, <1>0 DEF UpdateExists, Done, TypeOK
  <2> QED BY <2>1, <2>2
<1>3. TypeOK'
  <2>1. upd' \in [Writers -> Updates]
    BY <1>0, GotoType, DoneType DEF TypeOK, UpdateExists
  <2> QED BY <2>1, <1>0 DEF TypeOK
<1>4. IdInv' /\ KindInv'
  BY <1>0, <1>1, <1>2 DEF IdInv, KindInv, TypeOK
<1>5. WriterInv' /\ LogInv'
  BY <1>0, <1>1, <1>2 DEF WriterInv, LogInv, Quiet
<1>6. FinishInv'
  <2> SUFFICES ASSUME pc = "finish", task.id \notin forsaken
               PROVE  FinishInv'
    BY <1>0 DEF FinishInv
  <2>1. CASE w = Writer
    BY <2>1, <1>0, <1>2 DEF FinishInv
  <2>2. CASE w # Writer
    <3>1. upd'[Writer] = upd[Writer]
      BY <2>2, <1>0, <1>1
    <3> QED BY <3>1, <1>0 DEF FinishInv
  <2> QED BY <2>1, <2>2
<1>7. NoStrandedRebuild'
  BY <1>0 DEF NoStrandedRebuild, Served
<1>8. EndedJobsExpire'
  BY <1>0, <1>1 DEF EndedJobsExpire
<1> QED BY <1>3, <1>4, <1>5, <1>6, <1>7, <1>8 DEF SystemInv

\* `hset` makes a job that is gone anew, and goes on to its expiry if it ended.
LEMMA UpdateStoreKeepsInv ==
    ASSUME SystemInv, NEW w \in Writers, UpdateStore(w)
    PROVE  SystemInv'
<1> USE DEF tableVars, apiVars, waitVars, unitVars, countVars, historyVars
<1> DEFINE id == upd[w].task.id
<1>0. /\ TypeOK /\ IdInv /\ KindInv /\ WriterInv /\ LogInv /\ FinishInv
      /\ NoStrandedRebuild /\ EndedJobsExpire
      /\ Writers = {"loop", "consumer", "api"} /\ Writer \in {"loop", "consumer"}
      /\ Writer' = Writer /\ NoUpdate.stage = "none"
      /\ upd[w].stage = "store" /\ upd[w] \in Updates /\ upd[w].task \in Tasks
      /\ id \in Nat
      /\ UNCHANGED <<nextJob, apiVars, queue, pc, task, waitVars, logs, unitVars,
                     countVars, joined, forsaken>>
  BY WriterType DEF SystemInv, Writers, Writer, NoUpdate, UpdateStore
<1>1. /\ DOMAIN jobs' = DOMAIN jobs \cup {id}
      /\ \A j \in DOMAIN jobs \ {id} : jobs'[j] = jobs[j]
      /\ jobs'[id] = [task |-> upd[w].task, status |-> upd[w].status,
                      ttl |-> id \in DOMAIN jobs /\ jobs[id].ttl]
  BY <1>0 DEF UpdateStore
<1>2. \A v \in Writers \ {w} : upd'[v] = upd[v]
  BY <1>0 DEF UpdateStore, Goto, Done, TypeOK
<1>3. \/ /\ upd[w].status \in Terminal
         /\ upd'[w].stage = "expire" /\ upd'[w].task = upd[w].task
         /\ upd'[w].status = upd[w].status
      \/ /\ upd[w].status \in Live
         /\ upd'[w] = NoUpdate
  <2>1. CASE upd[w].status \in Terminal
    BY <2>1, <1>0 DEF UpdateStore, Goto, Expires, TypeOK, Updates
  <2>2. CASE upd[w].status \notin Terminal
    <3>1. upd[w].status \in Live
      BY <2>2, <1>0 DEF Updates
    <3> QED BY <2>2, <3>1, <1>0 DEF UpdateStore, Done, Expires, TypeOK
  <2> QED BY <2>1, <2>2
<1>4. TypeOK'
  <2>1. upd' \in [Writers -> Updates]
    BY <1>0, GotoType, DoneType DEF TypeOK, UpdateStore
  <2>2. jobs'[id] \in Jobs /\ jobs'[id].task.id = id
    <3>1. (id \in DOMAIN jobs /\ jobs[id].ttl) \in BOOLEAN
      BY <1>0 DEF TypeOK, Jobs
    <3>2. upd[w].status \in Live \cup Terminal
      BY <1>0 DEF Updates
    <3> QED BY <1>0, <1>1, <3>1, <3>2 DEF Jobs
  <2>3. \A j \in DOMAIN jobs' : jobs'[j] \in Jobs /\ jobs'[j].task.id = j
    BY <1>0, <1>1, <2>2 DEF TypeOK
  <2>4. DOMAIN jobs' \subseteq 1 .. nextJob' - 1
    BY <1>0, <1>1 DEF TypeOK, IdInv
  <2>5. assumed' \subseteq Nat
    BY <1>0 DEF UpdateStore, TypeOK
  <2> QED BY <2>1, <2>3, <2>4, <2>5, <1>0 DEF TypeOK
<1>5. IdInv' /\ KindInv'
  <2>1. \A v \in Writers : upd'[v].stage = "store" => upd[v].stage = "store" /\ upd'[v] = upd[v]
    BY <1>0, <1>2, <1>3
  <2> QED BY <2>1, <1>0 DEF IdInv, KindInv
<1>6. WriterInv' /\ LogInv'
  <2>1. \A v \in Writers : ~Quiet(v)' =>
            ~Quiet(v) /\ upd'[v].task = upd[v].task /\ upd'[v].status = upd[v].status
    BY <1>0, <1>2, <1>3 DEF Quiet
  <2> QED BY <2>1, <1>0 DEF WriterInv, LogInv
<1>7. FinishInv'
  <2> SUFFICES ASSUME pc = "finish", task.id \notin forsaken
               PROVE  FinishInv'
    BY <1>0 DEF FinishInv
  <2>1. CASE w = Writer
    <3>1. CASE upd[w].task = task
      BY <2>1, <3>1, <1>0, <1>1, <1>3 DEF FinishInv
    <3>2. CASE upd[w].task # task
      <4>1. id # task.id
        BY <2>1, <3>2, <1>0 DEF WriterInv, Quiet
      <4> QED BY <2>1, <3>2, <4>1, <1>0, <1>1, <1>3 DEF FinishInv
    <3> QED BY <3>1, <3>2
  <2>2. CASE w # Writer
    <3>1. upd'[Writer] = upd[Writer]
      BY <2>2, <1>0, <1>2
    <3>2. CASE id = task.id
      <4>1. upd[w].status \in Terminal
        BY <2>2, <3>2, <1>0 DEF WriterInv, Quiet, Terminal
      <4> QED BY <3>1, <3>2, <4>1, <1>0, <1>1 DEF FinishInv
    <3>3. CASE id # task.id
      BY <3>1, <3>3, <1>0, <1>1 DEF FinishInv
    <3> QED BY <3>2, <3>3
  <2> QED BY <2>1, <2>2
<1>8. NoStrandedRebuild'
  <2>1. upd[w].status \in Live => id \in Served \cup forsaken
    BY <1>0 DEF WriterInv, Quiet, Served, Live
  <2> QED BY <2>1, <1>0, <1>1 DEF NoStrandedRebuild, Served
<1>9. EndedJobsExpire'
  <2> SUFFICES ASSUME NEW j \in DOMAIN jobs', jobs'[j].status \in Terminal, ~jobs'[j].ttl,
                      j \notin forsaken
               PROVE  \E v \in Writers : upd'[v].stage = "expire" /\ upd'[v].task.id = j
    BY <1>0 DEF EndedJobsExpire
  <2>1. CASE j = id
    BY <2>1, <1>0, <1>1, <1>3 DEF Live, Terminal
  <2>2. CASE j # id
    <3>1. PICK v \in Writers : upd[v].stage = "expire" /\ upd[v].task.id = j
      BY <2>2, <1>0, <1>1 DEF EndedJobsExpire
    <3> QED BY <2>2, <3>1, <1>0, <1>2
  <2> QED BY <2>1, <2>2
<1> QED BY <1>4, <1>5, <1>6, <1>7, <1>8, <1>9 DEF SystemInv

\* `expire` ends the update.
LEMMA UpdateExpireKeepsInv ==
    ASSUME SystemInv, NEW w \in Writers, UpdateExpire(w)
    PROVE  SystemInv'
<1> USE DEF tableVars, apiVars, waitVars, unitVars, countVars, historyVars
<1> DEFINE id == upd[w].task.id
<1>0. /\ TypeOK /\ IdInv /\ KindInv /\ WriterInv /\ LogInv /\ FinishInv
      /\ NoStrandedRebuild /\ EndedJobsExpire
      /\ Writers = {"loop", "consumer", "api"} /\ Writer \in {"loop", "consumer"}
      /\ Writer' = Writer /\ NoUpdate.stage = "none"
      /\ upd[w].stage = "expire"
      /\ UNCHANGED <<nextJob, apiVars, queue, pc, task, waitVars, logs, unitVars,
                     countVars, historyVars>>
  BY DEF SystemInv, Writers, Writer, NoUpdate, UpdateExpire
<1>1. /\ DOMAIN jobs' = DOMAIN jobs
      /\ \A j \in DOMAIN jobs :
            jobs'[j] = IF j = id THEN [jobs[j] EXCEPT !.ttl = TRUE] ELSE jobs[j]
  BY DEF UpdateExpire
<1>2. \A j \in DOMAIN jobs : /\ jobs'[j] \in Jobs
                             /\ jobs'[j].task = jobs[j].task
                             /\ jobs'[j].status = jobs[j].status
                             /\ jobs'[j].ttl = (j = id \/ jobs[j].ttl)
  <2> TAKE j \in DOMAIN jobs
  <2>1. jobs[j] \in Jobs
    BY <1>0 DEF TypeOK
  <2> QED BY <2>1, <1>1 DEF Jobs
<1>3. /\ upd'[w] = NoUpdate /\ upd' \in [Writers -> Updates]
      /\ \A v \in Writers \ {w} : upd'[v] = upd[v]
  BY <1>0, DoneType DEF UpdateExpire, Done, TypeOK
<1>4. TypeOK'
  BY <1>0, <1>1, <1>2, <1>3 DEF TypeOK
<1>5. IdInv' /\ KindInv' /\ WriterInv' /\ LogInv'
  BY <1>0, <1>3 DEF IdInv, KindInv, WriterInv, LogInv, Quiet
<1>6. FinishInv'
  <2>1. upd'[Writer] \in {upd[Writer], NoUpdate}
    BY <1>0, <1>3
  <2>2. upd'[Writer] # upd[Writer] => upd[Writer].stage = "expire"
    BY <1>0, <1>3
  <2> QED BY <2>1, <2>2, <1>0, <1>1, <1>2 DEF FinishInv
<1>7. NoStrandedRebuild'
  BY <1>0, <1>1, <1>2 DEF NoStrandedRebuild, Served
<1>8. EndedJobsExpire'
  <2> SUFFICES ASSUME NEW j \in DOMAIN jobs, jobs[j].status \in Terminal, ~jobs'[j].ttl,
                      j \notin forsaken
               PROVE  \E v \in Writers : upd'[v].stage = "expire" /\ upd'[v].task.id = j
    BY <1>0, <1>1, <1>2 DEF EndedJobsExpire
  <2>1. j # id /\ ~jobs[j].ttl
    BY <1>2
  <2>2. PICK v \in Writers : upd[v].stage = "expire" /\ upd[v].task.id = j
    BY <2>1, <1>0 DEF EndedJobsExpire
  <2> QED BY <2>1, <2>2, <1>3
<1> QED BY <1>4, <1>5, <1>6, <1>7, <1>8 DEF SystemInv

-----------------------------------------------------------------------------
(* The theorems                                                            *)

\* Nothing has been asked for yet.
LEMMA InitEstablishesInv == Init => SystemInv
<1> SUFFICES ASSUME Init PROVE SystemInv
  OBVIOUS
<1>1. NoUpdate \in Updates /\ NoTask \in Tasks /\ NoTask.id = 0 /\ NoUpdate.stage = "none"
  BY DEF NoUpdate, NoTask, Updates, Tasks, Ops, Live
<1>2. /\ DOMAIN jobs = {} /\ DOMAIN logs = {} /\ DOMAIN queue = {} /\ queue \in Seq(Tasks)
      /\ \A w \in Writers : upd[w] = NoUpdate
  BY DEF Init
<1>3. TypeOK
  <2>1. upd \in [Writers -> Updates]
    BY <1>1 DEF Init
  <2>2. unit \in [Units -> UnitStates]
    BY DEF Init, UnitStates
  <2>3. nextJob \in Nat \ {0} /\ requests \in Nat /\ restarts \in Nat
    BY DEF Init
  <2>4. /\ pc = "idle" /\ pc \in Pcs /\ phase \in {1, 2} /\ changed \in BOOLEAN
        /\ adding = NoTask /\ task = NoTask /\ todo = {} /\ starting = {}
        /\ assumed = {} /\ joined = {} /\ forsaken = {}
    BY DEF Init, Pcs
  <2> QED BY <1>1, <1>2, <2>1, <2>2, <2>3, <2>4 DEF TypeOK
<1>4. IdInv /\ KindInv /\ WriterInv /\ LogInv /\ FinishInv
  BY <1>1, <1>2 DEF Init, IdInv, KindInv, WriterInv, LogInv, FinishInv, Quiet, Writers
<1>5. NoStrandedRebuild /\ EndedJobsExpire
  BY <1>2 DEF NoStrandedRebuild, EndedJobsExpire
<1> QED BY <1>3, <1>4, <1>5 DEF SystemInv

\* A step that changes nothing.
LEMMA StutteringKeepsInv ==
    ASSUME SystemInv, UNCHANGED vars
    PROVE  SystemInv'
<1> USE DEF vars, tableVars, apiVars, waitVars, unitVars, countVars, historyVars
<1>1. TypeOK' /\ LogInv'
  BY DEF SystemInv, TypeOK, LogInv
<1> QED BY <1>1, UnseenKeepsInv

\* Every step of the system keeps the invariant.
LEMMA NextKeepsInv == SystemInv /\ [Next]_vars => SystemInv'
<1> SUFFICES ASSUME SystemInv, [Next]_vars PROVE SystemInv'
  OBVIOUS
<1>1. CASE Api
  BY <1>1, RequestKeepsInv, EnqueueKeepsInv, RemoveJobKeepsInv, ApiRestartsKeepsInv,
     MigrateKeepsInv DEF Api
<1>2. CASE Worker
  <2>1. CASE Rebuild \/ CollectGarbage
    BY <2>1, RebuildIsWork, CollectGarbageIsWork, WorkKeepsInv
  <2>2. CASE ~(Rebuild \/ CollectGarbage)
    BY <1>2, <2>2, TakeKeepsInv, FinishKeepsInv, LogUpdateKeepsInv, LogDiesKeepsInv,
       WorkerRestartsKeepsInv DEF Worker
  <2> QED BY <2>1, <2>2
<1>3. CASE Systemd
  BY <1>3, SystemdKeepsInv
<1>4. CASE \E w \in Writers : UpdateStep(w)
  BY <1>4, UpdateExistsKeepsInv, UpdateStoreKeepsInv, UpdateExpireKeepsInv DEF UpdateStep
<1>5. CASE UNCHANGED vars
  BY <1>5, StutteringKeepsInv
<1> QED BY <1>1, <1>2, <1>3, <1>4, <1>5 DEF Next

\* SystemInv is an invariant, whatever the events and the bounds.
THEOREM SystemInvariance == Spec => []SystemInv
<1> QED BY InitEstablishesInv, NextKeepsInv, PTL DEF Spec

\* No interleaving of the commands of Jobs.update with removals, log lines and
\* restarts of the API leaves a rebuild, an upgrade or a garbage collection
\* without a task that will say how it ended.
THEOREM NoStrandedRebuildHolds == Spec => []NoStrandedRebuild
<1>1. SystemInv => NoStrandedRebuild
  BY DEF SystemInv
<1> QED BY <1>1, SystemInvariance, PTL

\* Every job that ended has its expiry, or a writer is about to set it.
THEOREM EndedJobsExpireHolds == Spec => []EndedJobsExpire
<1>1. SystemInv => EndedJobsExpire
  BY DEF SystemInv
<1> QED BY <1>1, SystemInvariance, PTL

-----------------------------------------------------------------------------
(* A job that says that the system is rebuilt                                *)

\* What every actor but systemd leaves alone.
LEMMA OutsideSystemd ==
    ASSUME Api \/ Worker \/ (\E w \in Writers : UpdateStep(w)) \/ UNCHANGED vars
    PROVE  /\ UNCHANGED unit /\ starting \subseteq starting' /\ joined \subseteq joined'
           /\ assumed \subseteq assumed' /\ nextJob' \in {nextJob, nextJob + 1}
<1> USE DEF outside, tableVars, apiVars, waitVars, unitVars, countVars, historyVars
<1>1. CASE Api
  BY <1>1 DEF Api, Request, Enqueue, RemoveJob, ApiRestarts, Migrate
<1>2. CASE Rebuild
  BY <1>2 DEF Rebuild, StartUnit, StartUnitFails, Read, Subscribe, Listen, Follow, StopLog,
              Status, Forsake, WaitTimesOut, WaitRaises
<1>3. CASE CollectGarbage
  BY <1>3 DEF CollectGarbage, GcBegin, GcBreaksOff, GcCount, GcClean, GcResult, Forsake
<1>4. CASE Worker /\ ~Rebuild /\ ~CollectGarbage
  BY <1>4 DEF Worker, Take, Finish, LogUpdate, LogDies, WorkerRestarts
<1>5. CASE \E w \in Writers : UpdateStep(w)
  BY <1>5 DEF UpdateStep, UpdateExists, UpdateStore, UpdateExpire
<1>6. CASE UNCHANGED vars BY <1>6 DEF vars
<1> QED BY <1>1, <1>2, <1>3, <1>4, <1>5, <1>6

\* What systemd leaves alone.
LEMMA SystemdApart ==
    ASSUME Systemd
    PROVE  UNCHANGED <<jobs, nextJob, upd, pc, task, phase, joined, assumed, forsaken,
                       adding, queue>>
BY DEF Systemd, UnitStarts, UnitReady, UnitSucceeds, UnitFails, UnitLogs, notUnits, tableVars,
       apiVars, countVars, historyVars

\* How systemd changes a unit: it begins a run, or goes on with it.
LEMMA UnitSteps ==
    ASSUME SystemInv, Systemd, NEW u \in Units
    PROVE  \/ /\ unit'[u] = unit[u]
              /\ u \in starting => u \in starting' \/ unit[u].state \in Busy
           \/ /\ unit[u].state \notin Busy /\ unit'[u].state \in Busy
              /\ unit'[u].run = nextJob /\ unit'[u].good = unit[u].good
           \/ /\ unit[u].state \in Busy /\ unit'[u].run = unit[u].run
              /\ \/ unit'[u].good = unit[u].good /\ unit'[u].state # "inactive"
                 \/ unit'[u].good = unit[u].run
<1>0. unit \in [Units -> UnitStates] /\ unit[u] \in UnitStates BY DEF SystemInv, TypeOK
<1> USE DEF Busy, UnitStates, unitVars
<1> DEFINE Goal == \/ /\ unit'[u] = unit[u]
                      /\ u \in starting => u \in starting' \/ unit[u].state \in Busy
                   \/ /\ unit[u].state \notin Busy /\ unit'[u].state \in Busy
                      /\ unit'[u].run = nextJob /\ unit'[u].good = unit[u].good
                   \/ /\ unit[u].state \in Busy /\ unit'[u].run = unit[u].run
                      /\ \/ unit'[u].good = unit[u].good /\ unit'[u].state # "inactive"
                         \/ unit'[u].good = unit[u].run
<1>2. ASSUME NEW v \in Units, UnitStarts(v) PROVE Goal
  <2>1. CASE v # u \/ unit[v].state \in Busy
    <3>1. unit'[u] = unit[u] BY <1>0, <1>2, <2>1 DEF UnitStarts, SetUnit
    <3>2. starting' = starting \ {v} BY <1>2 DEF UnitStarts
    <3>3. QED BY <2>1, <3>1, <3>2
  <2>2. CASE v = u /\ unit[u].state \notin Busy
    <3>1. unit' = [unit EXCEPT ![u] = [unit[u] EXCEPT
                      !.state = IF u = "upgrade" THEN "activating" ELSE "active",
                      !.run = nextJob]]
      BY <1>2, <2>2 DEF UnitStarts, SetUnit
    <3>2. unit'[u] = [unit[u] EXCEPT !.state = IF u = "upgrade" THEN "activating" ELSE "active",
                                     !.run = nextJob]
      BY <1>0, <3>1
    <3>3. QED BY <1>0, <2>2, <3>2
  <2>3. QED BY <2>1, <2>2
<1>3. ASSUME UnitReady PROVE Goal
  <2>1. unit' = [unit EXCEPT !["upgrade"] = [unit["upgrade"] EXCEPT !.state = "active"]]
        /\ starting' = starting /\ unit["upgrade"].state = "activating"
    BY <1>3 DEF UnitReady, SetUnit
  <2>2. CASE u = "upgrade"
    <3>1. unit'[u] = [unit[u] EXCEPT !.state = "active"] BY <1>0, <2>1, <2>2
    <3>2. QED BY <1>0, <2>1, <2>2, <3>1
  <2>3. CASE u # "upgrade" BY <1>0, <2>1, <2>3
  <2>4. QED BY <2>2, <2>3
<1>4. ASSUME NEW v \in Units, UnitSucceeds(v) \/ UnitFails(v) PROVE Goal
  <2>1. PICK new : /\ unit' = [unit EXCEPT ![v] = new] /\ starting' = starting
                   /\ unit[v].state \in Busy
                   /\ \/ new = [state |-> "inactive", run |-> unit[v].run, good |-> unit[v].run]
                      \/ new = [unit[v] EXCEPT !.state = "failed"]
    BY <1>4 DEF UnitSucceeds, UnitFails, SetUnit
  <2>2. CASE u = v
    <3>1. unit'[u] = new BY <1>0, <2>1, <2>2
    <3>2. QED BY <1>0, <2>1, <2>2, <3>1
  <2>3. CASE u # v BY <1>0, <2>1, <2>3
  <2>4. QED BY <2>2, <2>3
<1>5. ASSUME NEW v \in Units, UnitLogs(v) PROVE Goal BY <1>5 DEF UnitLogs
<1>6. QED BY <1>2, <1>3, <1>4, <1>5 DEF Systemd

\* The runs of a unit are counted on, and none that was good is forgotten.
LEMMA UnitInvKept ==
    ASSUME SystemInv, UnitInv, [Next]_vars
    PROVE  /\ UnitInv' /\ joined \subseteq joined' /\ assumed \subseteq assumed'
           /\ \A u \in Units : unit[u].run <= unit'[u].run /\ unit[u].good <= unit'[u].good
<1>0. nextJob \in Nat /\ \A u \in Units : unit[u].run \in Nat /\ unit[u].good \in Nat
  <2>1. \A u \in Units : unit[u] \in UnitStates BY DEF SystemInv, TypeOK
  <2>2. QED BY <2>1 DEF SystemInv, TypeOK, UnitStates
<1>1. CASE Systemd
  <2>1. nextJob' = nextJob /\ joined' = joined /\ assumed' = assumed BY <1>1, SystemdApart
  <2>2. ASSUME NEW u \in Units
        PROVE  /\ unit[u].run <= unit'[u].run /\ unit[u].good <= unit'[u].good
               /\ unit'[u].good <= unit'[u].run /\ unit'[u].run <= nextJob
               /\ unit'[u].state = "inactive" => unit'[u].good = unit'[u].run
    BY <1>0, <1>1, UnitSteps DEF UnitInv, Busy
  <2>3. QED BY <2>1, <2>2 DEF UnitInv
<1>2. CASE ~Systemd
  <2>1. unit' = unit /\ nextJob' \in {nextJob, nextJob + 1} /\ joined \subseteq joined'
        /\ assumed \subseteq assumed'
    BY <1>2, OutsideSystemd DEF Next
  <2>2. QED BY <1>0, <2>1 DEF UnitInv
<1>3. QED BY <1>1, <1>2

LEMMA RebuildsKept ==
    ASSUME SystemInv, UnitInv, [Next]_vars, NEW t \in Tasks, t.op \in Units, Rebuilds(t)
    PROVE  t.id \in joined' \/ t.id < unit'[t.op].good
<1>1. unit[t.op].good \in Nat /\ unit'[t.op].good \in Nat
  <2>1. unit[t.op] \in UnitStates /\ unit'[t.op] \in UnitStates
    BY NextKeepsInv DEF SystemInv, TypeOK
  <2>2. QED BY <2>1 DEF UnitStates
<1>2. unit[t.op].good <= unit'[t.op].good /\ joined \subseteq joined' BY UnitInvKept
<1>3. t.id \in Nat BY DEF Tasks
<1>4. QED BY <1>1, <1>2, <1>3 DEF Rebuilds

\* Where the coroutine is in its two waits.
LEMMA RunInvRebuild ==
    ASSUME SystemInv, UnitInv, RunInv, Rebuild PROVE RunInv'
<1> USE DEF outside, tableVars, apiVars, waitVars, unitVars, countVars, historyVars, At
<1>0. /\ unit' = unit /\ starting \subseteq starting' /\ joined \subseteq joined' /\ task' = task
      /\ Unit' = Unit
  <2>1. unit' = unit /\ starting \subseteq starting' /\ joined \subseteq joined'
    BY OutsideSystemd DEF Worker
  <2>2. task' = task
    BY DEF Rebuild, StartUnit, StartUnitFails, Read, Subscribe, Listen, Follow, StopLog,
           Status, WaitTimesOut, WaitRaises
  <2>3. QED BY <2>1, <2>2 DEF Unit
<1>1. CASE StartUnit
  <2>1. /\ pc' = "read" /\ phase' = 1 /\ starting' = starting \cup {task.op}
        /\ task.id \in joined' \/ Unit.state \notin Busy
    BY <1>1 DEF StartUnit, RunInv
  <2>2. QED BY <1>0, <2>1 DEF RunInv
<1>2. CASE pc' = "finish" BY <1>2 DEF RunInv
<1>3. CASE Read \/ Listen
  <2>1. pc \in {"read", "listen"} /\ phase' = phase /\ starting' = starting /\ joined' = joined
    BY <1>3 DEF Read, Listen
  <2>2. CASE pc' \in {"read", "subscribe", "listen"} BY <1>0, <2>1, <2>2 DEF RunInv
  <2>3. CASE pc' \notin {"read", "subscribe", "listen"}
    <3>1. Unit.state \in Awaited /\ Reached BY <1>3, <2>1, <2>3 DEF Read, Listen
    <3>2. pc' \in {"follow", "stop_log"} BY <3>1 DEF Reached
    <3>3. phase = 1 => Unit.state \in Busy BY <3>1 DEF Awaited, Busy
    <3>4. phase \in {1, 2} BY DEF SystemInv, TypeOK
    <3>5. task.id \in joined \/ task.id < Unit.run BY <2>1, <3>3, <3>4 DEF RunInv
    <3>6. QED BY <1>0, <2>1, <3>2, <3>5 DEF RunInv
  <2>4. QED BY <2>2, <2>3
<1>4. CASE Subscribe
  <2>1. pc = "subscribe" /\ pc' = "listen" /\ UNCHANGED <<phase, starting, joined>>
    BY <1>4 DEF Subscribe
  <2>2. QED BY <1>0, <2>1 DEF RunInv
<1>5. CASE Follow
  <2>1. pc = "follow" /\ pc' = "read" /\ phase' = 2 /\ UNCHANGED <<starting, joined>>
    BY <1>5 DEF Follow
  <2>2. QED BY <1>0, <2>1 DEF RunInv
<1>6. CASE StopLog /\ pc' # "finish"
  <2>1. pc = "stop_log" /\ pc' = "status" /\ UNCHANGED <<starting, joined>>
    BY <1>6 DEF StopLog, EndJob
  <2>2. QED BY <1>0, <2>1 DEF RunInv
<1>7. QED BY <1>1, <1>2, <1>3, <1>4, <1>5, <1>6
          DEF Rebuild, StartUnitFails, Status, WaitTimesOut, TimeoutError, WaitRaises, EndJob

LEMMA RunInvKept ==
    ASSUME SystemInv, UnitInv, RunInv, [Next]_vars PROVE RunInv'
<1> USE DEF outside, tableVars, apiVars, waitVars, unitVars, countVars, historyVars
<1>1. CASE Rebuild BY <1>1, RunInvRebuild
<1>2. CASE Systemd
  <2>1. UNCHANGED <<pc, task, phase, joined>> BY <1>2, SystemdApart
  <2>2. CASE task.op \in Units
    <3>1. Unit' = unit'[task.op] BY <2>1 DEF Unit
    <3>2. task.id < nextJob /\ task.id \in Nat BY WriterType DEF SystemInv, IdInv
    <3>3. task.id < Unit.run => task.id < Unit'.run
      <4>1. unit[task.op] \in UnitStates /\ unit'[task.op] \in UnitStates
        BY <1>2, <2>2, NextKeepsInv DEF SystemInv, TypeOK, Next
      <4>2. Unit.run \in Nat /\ Unit'.run \in Nat BY <3>1, <4>1 DEF Unit, UnitStates
      <4>3. Unit.run <= Unit'.run BY <1>2, <2>2, <3>1, UnitInvKept DEF Unit, Next
      <4>4. QED BY <3>2, <4>2, <4>3
    <3>4. task.op \in starting /\ Unit.state \notin Busy =>
              \/ task.op \in starting' /\ Unit'.state \notin Busy
              \/ task.id < Unit'.run
      BY <1>2, <2>2, <3>1, <3>2, UnitSteps DEF Unit
    <3>5. QED BY <2>1, <3>3, <3>4 DEF RunInv
  <2>3. CASE task.op \notin Units
    <3>1. pc \notin {"start", "read", "subscribe", "listen", "follow", "stop_log", "status"}
      BY <2>3 DEF SystemInv, TypeOK
    <3>2. QED BY <2>1, <3>1 DEF RunInv
  <2>4. QED BY <2>2, <2>3
<1>3. CASE Take
  <2>1. phase' = phase /\ pc = "idle" /\ pc' \in {"start", "gc_begin"}
    BY <1>3 DEF Take, FirstStep
  <2>2. QED BY <2>1 DEF RunInv
<1>4. CASE Finish \/ WorkerRestarts BY <1>4 DEF Finish, WorkerRestarts, RunInv
<1>5. CASE CollectGarbage
  <2>1. pc' \in {"gc_count", "gc_clean", "gc_result", "finish"}
    BY <1>5 DEF CollectGarbage, GcBegin, GcBreaksOff, GcCount, GcClean, GcResult, EndJob
  <2>2. QED BY <2>1 DEF RunInv
<1>6. CASE Api \/ (\E w \in Writers : UpdateStep(w)) \/ UNCHANGED vars
           \/ \E t \in DOMAIN logs : LogUpdate(t) \/ LogDies(t)
  <2>1. UNCHANGED <<pc, task, phase, unit, starting, joined>>
    BY <1>6 DEF Api, Request, Enqueue, RemoveJob, ApiRestarts, Migrate, UpdateStep, vars,
                UpdateExists, UpdateStore, UpdateExpire, LogUpdate, LogDies
  <2>2. QED BY <2>1 DEF RunInv, Unit
<1>7. QED BY <1>1, <1>2, <1>3, <1>4, <1>5, <1>6 DEF Next, Worker

-----------------------------------------------------------------------------
(* What the writers of the worker say                                        *)

\* What a task in progress begins to write: that it goes on, or how it ended.
TaskWrites ==
    \/ UNCHANGED upd
    \/ \E s \in Statuses :
          /\ Update(Writer, task, s)
          /\ s = "RUNNING" \/ pc' = "finish"
          /\ s = "FINISHED" /\ task.op \in Units => pc = "status" /\ Unit.state = "inactive"

LEMMA WorkWrites == ASSUME SystemInv, Rebuild \/ CollectGarbage PROVE TaskWrites
<1>1. "RUNNING" \in Statuses /\ "FINISHED" \in Statuses /\ "ERROR" \in Statuses
  BY DEF Statuses, Live, Terminal
<1>2. CASE Rebuild
  <2>1. Writer = "loop"
    BY <1>2 DEF SystemInv, TypeOK, Writer, Rebuild, StartUnit, StartUnitFails, Read, Subscribe,
       Listen, Follow, StopLog, Status, WaitTimesOut, WaitRaises, Waits, Units, At
  <2>2. QED BY <1>1, <1>2, <2>1
            DEF TaskWrites, Rebuild, StartUnit, StartUnitFails, Read, Reached, Subscribe, Listen,
                Follow, StopLog, Status, WaitTimesOut, TimeoutError, WaitRaises, EndJob, Rebuilt,
                outside, At
<1>3. CASE CollectGarbage
  <2>1. task.op = "gc" /\ Writer = "consumer"
    BY <1>3 DEF SystemInv, KindInv, Writer, CollectGarbage, GcBegin, GcBreaksOff, GcCount,
                GcClean, GcResult, At
  <2>2. QED BY <1>1, <1>3, <2>1
            DEF TaskWrites, CollectGarbage, GcBegin, GcBreaksOff, GcCount, GcClean, GcResult,
                EndJob, Units
<1>4. QED BY <1>2, <1>3

\* How an update of the worker changes in a step.
WriterStep(w) ==
    \/ upd'[w] \in {upd[w], NoUpdate}
    \/ /\ ~Quiet(w) /\ upd'[w].task = upd[w].task /\ upd'[w].status = upd[w].status
       /\ upd'[w].stage \in {"store", "expire"} /\ (upd'[w].stage = "store" => upd[w].stage = "exists")
       /\ UNCHANGED <<pc, task>>
    \/ /\ w = Writer /\ pc # "finish" /\ upd'[w].task = task /\ task' = task
       /\ upd'[w].status = "RUNNING" \/ pc' = "finish"
       /\ upd'[w].status = "FINISHED" /\ task.op \in Units =>
             pc = "status" /\ Unit.state = "inactive"
    \/ /\ w = "loop" /\ upd'[w].status = "RUNNING" /\ UNCHANGED <<pc, task>>
       /\ upd'[w].task.id \in forsaken \/ pc # "finish"

LEMMA WriterSteps ==
    ASSUME SystemInv, [Next]_vars, NEW w \in {"loop", "consumer"} PROVE WriterStep(w)
<1> USE DEF outside, tableVars, apiVars, waitVars, unitVars, countVars, historyVars
<1>0. /\ upd \in [Writers -> Updates] /\ w \in Writers /\ Writer \in Writers
      /\ Writers = {"loop", "consumer", "api"}
  BY DEF SystemInv, TypeOK, Writers, Writer
<1>1. CASE Rebuild \/ CollectGarbage
  <2>1. task' = task /\ TaskWrites /\ (pc = "finish" => UNCHANGED upd)
    BY <1>1, WorkWrites, RebuildIsWork, CollectGarbageIsWork DEF WorkStep
  <2>2. CASE UNCHANGED upd BY <2>2 DEF WriterStep
  <2>3. CASE \E s \in Statuses :
                /\ Update(Writer, task, s)
                /\ s = "RUNNING" \/ pc' = "finish"
                /\ s = "FINISHED" /\ task.op \in Units =>
                      pc = "status" /\ Unit.state = "inactive"
    <3>1. PICK s \in Statuses :
                /\ Update(Writer, task, s)
                /\ s = "RUNNING" \/ pc' = "finish"
                /\ s = "FINISHED" /\ task.op \in Units =>
                      pc = "status" /\ Unit.state = "inactive"
      BY <2>3
    <3>2. w # Writer => upd'[w] = upd[w] BY <1>0, <3>1 DEF Update
    <3>3. w = Writer => upd'[w] = [stage |-> "exists", task |-> task, status |-> s]
      BY <1>0, <3>1 DEF Update
    <3>4. QED BY <2>1, <3>1, <3>2, <3>3 DEF WriterStep
  <2>4. QED BY <2>1, <2>2, <2>3 DEF TaskWrites
<1>2. CASE Api
  <2>1. upd'[w] = upd[w]
    BY <1>0, <1>2 DEF Api, Request, Enqueue, RemoveJob, ApiRestarts, Migrate, Update
  <2>2. QED BY <2>1 DEF WriterStep
<1>3. CASE Systemd BY <1>3, SystemdApart DEF WriterStep
<1>4. CASE Take \/ Finish BY <1>4 DEF Take, Finish, WriterStep
<1>5. CASE WorkerRestarts
  <2>1. upd'[w] = NoUpdate BY <1>0, <1>5 DEF WorkerRestarts
  <2>2. QED BY <2>1 DEF WriterStep
<1>6. ASSUME NEW t \in DOMAIN logs, LogUpdate(t) \/ LogDies(t) PROVE WriterStep(w)
  <2>1. UNCHANGED <<pc, task>> BY <1>6 DEF LogUpdate, LogDies
  <2>2. \/ upd' = upd
        \/ upd' = [upd EXCEPT !["loop"] = [stage |-> "exists", task |-> t, status |-> "RUNNING"]]
    BY <1>6 DEF LogUpdate, LogDies, Update
  <2>3. w # "loop" => upd'[w] = upd[w] BY <1>0, <2>2
  <2>4. w = "loop" => upd'[w] = upd[w] \/ (upd'[w].status = "RUNNING" /\ upd'[w].task = t)
    BY <1>0, <2>2
  <2>5. t.id \in forsaken \/ pc # "finish" BY DEF SystemInv, LogInv
  <2>6. QED BY <2>1, <2>3, <2>4, <2>5 DEF WriterStep
<1>7. ASSUME NEW v \in Writers, UpdateStep(v) PROVE WriterStep(w)
  <2>1. UNCHANGED <<pc, task>> /\ ~Quiet(v)
    BY <1>7 DEF UpdateStep, UpdateExists, UpdateStore, UpdateExpire, Quiet
  <2>2. PICK g \in {"store", "expire"} :
           Done(v) \/ (Goto(v, g) /\ (g = "store" => upd[v].stage = "exists"))
    BY <1>7 DEF UpdateStep, UpdateExists, UpdateStore, UpdateExpire
  <2>3. v # w => upd'[w] = upd[w] BY <1>0, <2>2 DEF Done, Goto
  <2>4. CASE v = w /\ Done(v)
    <3>1. upd'[w] = NoUpdate BY <1>0, <2>4 DEF Done
    <3>2. QED BY <3>1 DEF WriterStep
  <2>5. CASE v = w /\ Goto(v, g) /\ (g = "store" => upd[v].stage = "exists")
    <3>1. upd'[w] = [upd[w] EXCEPT !.stage = g] /\ upd[w] \in Updates
      BY <1>0, <2>5 DEF Goto
    <3>2. upd'[w].task = upd[w].task /\ upd'[w].status = upd[w].status /\ upd'[w].stage = g
      BY <3>1 DEF Updates
    <3>3. QED BY <2>1, <2>5, <3>2 DEF WriterStep
  <2>6. QED BY <2>2, <2>3, <2>4, <2>5 DEF WriterStep
<1>8. CASE UNCHANGED vars BY <1>8 DEF vars, WriterStep
<1>9. QED BY <1>1, <1>2, <1>3, <1>4, <1>5, <1>6, <1>7, <1>8 DEF Next, Worker

\* "System rebuilt." is said only after a run that succeeded.
LEMMA SaidInvKept ==
    ASSUME SystemInv, UnitInv, RunInv, SaidInv, [Next]_vars PROVE SaidInv'
<1> SUFFICES ASSUME NEW w \in {"loop", "consumer"}, upd'[w].status = "FINISHED",
                    upd'[w].task.op \in Units
             PROVE  LET t == upd'[w].task IN t.id \in joined' \/ t.id < unit'[t.op].good
  BY DEF SaidInv, Rebuilds
<1>1. WriterStep(w) BY WriterSteps
<1>2. upd[w].task \in Tasks BY WriterType DEF SystemInv, Writers
<1>3. CASE upd'[w].task = upd[w].task /\ upd'[w].status = upd[w].status
  <2>1. Rebuilds(upd[w].task) BY <1>3 DEF SaidInv
  <2>2. upd[w].task.op \in Units BY <1>3
  <2>3. QED BY <1>2, <1>3, <2>1, <2>2, RebuildsKept
<1>4. CASE upd'[w].task = task /\ pc = "status" /\ Unit.state = "inactive"
  <2>1. task \in Tasks /\ task.op \in Units BY <1>4 DEF SystemInv, TypeOK
  <2>2. task.id \in joined \/ task.id < Unit.run BY <1>4 DEF RunInv
  <2>3. Rebuilds(task) BY <1>4, <2>1, <2>2 DEF UnitInv, Unit, Rebuilds
  <2>4. QED BY <1>4, <2>1, <2>3, RebuildsKept
<1>5. QED BY <1>1, <1>3, <1>4 DEF WriterStep, NoUpdate

\* What becomes of the jobs in a step: only the second command of an update changes
\* what a job says, and only it and a request make one.
StoredBy(w, j) == /\ UpdateStore(w) /\ j = upd[w].task.id
                  /\ jobs'[j].task = upd[w].task /\ jobs'[j].status = upd[w].status
                  /\ w = "api" => j \in assumed'

LEMMA JobSteps ==
    ASSUME SystemInv, [Next]_vars, NEW j \in DOMAIN jobs'
    PROVE  \/ /\ j \in DOMAIN jobs /\ jobs'[j].task = jobs[j].task
              /\ jobs'[j].status = jobs[j].status
           \/ j = nextJob /\ jobs'[j].status = "CREATED"
           \/ \E w \in Writers : StoredBy(w, j)
<1> USE DEF outside, tableVars, apiVars, waitVars, unitVars, countVars, historyVars
<1> DEFINE Good == \/ /\ j \in DOMAIN jobs /\ jobs'[j].task = jobs[j].task
                      /\ jobs'[j].status = jobs[j].status
                   \/ j = nextJob /\ jobs'[j].status = "CREATED"
                   \/ \E w \in Writers : StoredBy(w, j)
<1>1. CASE jobs' = jobs BY <1>1
<1>2. ASSUME NEW w \in Writers, UpdateStep(w), jobs' # jobs PROVE Good
  <2>1. CASE UpdateStore(w)
    <3>1. jobs' = [k \in DOMAIN jobs \cup {upd[w].task.id} |->
                      IF k # upd[w].task.id THEN jobs[k]
                      ELSE [task |-> upd[w].task, status |-> upd[w].status,
                            ttl |-> upd[w].task.id \in DOMAIN jobs /\ jobs[upd[w].task.id].ttl]]
      BY <2>1 DEF UpdateStore
    <3>2. w = "api" => upd[w].task.id \in assumed' BY <2>1 DEF UpdateStore
    <3>3. CASE j = upd[w].task.id
      <4>1. jobs'[j].task = upd[w].task /\ jobs'[j].status = upd[w].status
        BY <3>1, <3>3
      <4>2. QED BY <2>1, <3>2, <3>3, <4>1 DEF StoredBy
    <3>4. CASE j # upd[w].task.id BY <3>1, <3>4
    <3>5. QED BY <3>3, <3>4
  <2>2. CASE UpdateExpire(w)
    <3>1. jobs' = [k \in DOMAIN jobs |->
                      IF k = upd[w].task.id THEN [jobs[k] EXCEPT !.ttl = TRUE] ELSE jobs[k]]
      BY <2>2 DEF UpdateExpire
    <3>2. j \in DOMAIN jobs /\ jobs[j] \in Jobs BY <3>1 DEF SystemInv, TypeOK
    <3>3. QED BY <3>1, <3>2 DEF Jobs
  <2>3. QED BY <1>2, <2>1, <2>2 DEF UpdateStep, UpdateExists
<1>3. CASE Api /\ jobs' # jobs
  <2>1. ASSUME NEW op \in Ops, Request(op) PROVE Good BY <2>1 DEF Request
  <2>2. ASSUME NEW k \in DOMAIN jobs, RemoveJob(k) PROVE Good BY <2>2 DEF RemoveJob
  <2>3. QED BY <1>3, <2>1, <2>2 DEF Api, Enqueue, ApiRestarts, Migrate
<1>4. CASE Worker
  <2>1. jobs' = jobs
    BY <1>4, RebuildIsWork, CollectGarbageIsWork
       DEF Worker, WorkStep, Take, Finish, LogUpdate, LogDies, WorkerRestarts
  <2>2. QED BY <1>1, <2>1
<1>5. CASE Systemd BY <1>1, <1>5, SystemdApart
<1>6. CASE UNCHANGED vars BY <1>1, <1>6 DEF vars
<1>7. QED BY <1>1, <1>2, <1>3, <1>4, <1>5, <1>6 DEF Next

LEMMA FinishedKept ==
    ASSUME SystemInv, RebuiltInv, [Next]_vars PROVE FinishedMeansRebuilt'
<1> SUFFICES ASSUME NEW j \in DOMAIN jobs', jobs'[j].status = "FINISHED",
                    jobs'[j].task.op \in Units, j \notin assumed'
             PROVE  j \in joined' \/ j < unit'[jobs'[j].task.op].good
  BY DEF FinishedMeansRebuilt
<1>1. UnitInv /\ SaidInv /\ FinishedMeansRebuilt BY DEF RebuiltInv
<1>2. assumed \subseteq assumed' BY <1>1, UnitInvKept
<1>3. CASE j \in DOMAIN jobs /\ jobs'[j].task = jobs[j].task /\ jobs'[j].status = jobs[j].status
  <2>1. jobs[j].task \in Tasks /\ jobs[j].task.id = j BY <1>3 DEF SystemInv, TypeOK, Jobs
  <2>2. Rebuilds(jobs[j].task) BY <1>1, <1>2, <1>3, <2>1 DEF FinishedMeansRebuilt, Rebuilds
  <2>3. QED BY <1>1, <1>3, <2>1, <2>2, RebuildsKept
<1>4. ASSUME NEW w \in Writers, StoredBy(w, j) PROVE j \in joined' \/ j < unit'[jobs'[j].task.op].good
  <2>1. w \in {"loop", "consumer"} BY <1>4 DEF StoredBy, Writers
  <2>2. upd[w].task \in Tasks BY WriterType DEF SystemInv
  <2>3. jobs'[j].task = upd[w].task /\ upd[w].status = "FINISHED" /\ j = upd[w].task.id
    BY <1>4 DEF StoredBy
  <2>4. Rebuilds(upd[w].task) BY <1>1, <2>1, <2>3 DEF SaidInv
  <2>5. QED BY <1>1, <2>2, <2>3, <2>4, RebuildsKept
<1>5. QED BY <1>3, <1>4, JobSteps

\* A job that says "System rebuilt." had a run of its unit that began after the request
\* and succeeded, but for those that a starting API finished or that joined a run that
\* was under way; and every step of the coroutine prepares for it (rebuild_system).
THEOREM RebuiltInvariance == Spec => [](SystemInv /\ RebuiltInv)
<1>1. Init => SystemInv /\ RebuiltInv
  <2> SUFFICES ASSUME Init PROVE RebuiltInv BY InitEstablishesInv
  <2>1. UnitInv /\ RunInv BY DEF Init, UnitInv, RunInv, Units
  <2>2. SaidInv BY DEF Init, SaidInv, NoUpdate, Writers
  <2>3. FinishedMeansRebuilt BY DEF Init, FinishedMeansRebuilt
  <2>4. QED BY <2>1, <2>2, <2>3 DEF RebuiltInv
<1>2. SystemInv /\ RebuiltInv /\ [Next]_vars => (SystemInv /\ RebuiltInv)'
  <2> SUFFICES ASSUME SystemInv, RebuiltInv, [Next]_vars PROVE SystemInv' /\ RebuiltInv'
    OBVIOUS
  <2>1. UnitInv' /\ RunInv' /\ SaidInv'
    BY UnitInvKept, RunInvKept, SaidInvKept DEF RebuiltInv
  <2>2. QED BY <2>1, FinishedKept, NextKeepsInv DEF RebuiltInv
<1>3. QED BY <1>1, <1>2, PTL DEF Spec

\* In particular, "System rebuilt." is said of runs that succeeded (rebuild_system).
THEOREM FinishedMeansRebuiltHolds == Spec => []FinishedMeansRebuilt
<1>1. RebuiltInv => FinishedMeansRebuilt BY DEF RebuiltInv
<1>2. QED BY <1>1, RebuiltInvariance, PTL

-----------------------------------------------------------------------------
(* The end of a job is its end                                               *)

\* How tasks move: from the API to the queue to the worker, and away.
TaskMoves ==
    \/ UNCHANGED <<adding, queue, task>>
    \/ adding.id = 0 /\ adding'.id = nextJob /\ UNCHANGED <<queue, task>>
    \/ adding.id # 0 /\ adding' = NoTask /\ queue' = Append(queue, adding) /\ UNCHANGED task
    \/ adding' = NoTask /\ UNCHANGED <<queue, task>>
    \/ /\ pc = "idle" /\ task = NoTask /\ queue # <<>>
       /\ task' = queue[1] /\ queue' = Tail(queue) /\ UNCHANGED adding
    \/ pc' = "idle" /\ task' = NoTask /\ UNCHANGED <<adding, queue>>

LEMMA TasksMove ==
    ASSUME SystemInv, OnceInv, [Next]_vars
    PROVE  /\ TaskMoves
           /\ task' = task /\ pc = "finish" => pc' \in {"finish", "idle"}
           /\ forsaken \subseteq forsaken'
<1> USE DEF outside, tableVars, apiVars, waitVars, unitVars, countVars, historyVars
<1> DEFINE Rest == /\ task' = task /\ pc = "finish" => pc' \in {"finish", "idle"}
                   /\ forsaken \subseteq forsaken'
<1>1. CASE Rebuild \/ CollectGarbage
  <2>1. WorkStep BY <1>1, RebuildIsWork, CollectGarbageIsWork
  <2>2. QED BY <2>1 DEF WorkStep, TaskMoves
<1>2. ASSUME NEW op \in Ops, Request(op) PROVE TaskMoves /\ Rest
  <2>1. adding' = [id |-> nextJob, op |-> op] /\ adding = NoTask
        /\ UNCHANGED <<queue, task, pc, forsaken>>
    BY <1>2 DEF Request, ApiServes
  <2>2. QED BY <2>1 DEF TaskMoves, NoTask
<1>3. CASE Enqueue
  <2>1. adding.id # 0 BY <1>3 DEF Enqueue, OnceInv
  <2>2. QED BY <1>3, <2>1 DEF Enqueue, TaskMoves
<1>4. CASE ApiRestarts \/ Migrate \/ \E j \in DOMAIN jobs : RemoveJob(j)
  BY <1>4 DEF ApiRestarts, Migrate, RemoveJob, TaskMoves
<1>5. CASE Take
  <2>1. pc = "idle" /\ task = NoTask BY <1>5 DEF Take, SystemInv, KindInv
  <2>2. queue \in Seq(Tasks) BY DEF SystemInv, TypeOK
  <2>3. Head(queue) = queue[1] BY <1>5, <2>2 DEF Take
  <2>4. QED BY <1>5, <2>1, <2>3 DEF Take, TaskMoves
<1>6. CASE Finish \/ WorkerRestarts BY <1>6 DEF Finish, WorkerRestarts, TaskMoves
<1>7. CASE \/ \E t \in DOMAIN logs : LogUpdate(t) \/ LogDies(t)
           \/ \E w \in Writers : UpdateStep(w)
           \/ UNCHANGED vars
  BY <1>7 DEF LogUpdate, LogDies, UpdateStep, UpdateExists, UpdateStore, UpdateExpire, vars,
              TaskMoves
<1>8. CASE Systemd
  <2>1. UNCHANGED <<adding, queue, task, pc, forsaken>> BY <1>8, SystemdApart
  <2>2. QED BY <2>1 DEF TaskMoves
<1>9. QED BY <1>1, <1>2, <1>3, <1>4, <1>5, <1>6, <1>7, <1>8 DEF Next, Api, Worker

\* A task is in one place.
LEMMA OnceInvKept == ASSUME SystemInv, OnceInv, [Next]_vars PROVE OnceInv'
<1>1. TaskMoves BY TasksMove
<1>2. /\ queue \in Seq(Tasks) /\ nextJob \in Nat \ {0} /\ NoTask.id = 0
      /\ adding.id < nextJob /\ task.id < nextJob /\ adding.id \in Nat /\ task.id \in Nat
      /\ \A i \in DOMAIN queue : queue[i].id < nextJob /\ queue[i].id \in Nat
  <2>1. \A i \in DOMAIN queue : queue[i] \in Tasks BY DEF SystemInv, TypeOK
  <2>2. \A i \in DOMAIN queue : queue[i].id \in Nat BY <2>1 DEF Tasks
  <2>3. QED BY <2>2, WriterType DEF SystemInv, TypeOK, IdInv, NoTask
<1>3. CASE UNCHANGED <<adding, queue, task>> BY <1>3 DEF OnceInv
<1>4. CASE adding.id = 0 /\ adding'.id = nextJob /\ UNCHANGED <<queue, task>>
  BY <1>2, <1>4 DEF OnceInv
<1>5. CASE adding.id # 0 /\ adding' = NoTask /\ queue' = Append(queue, adding) /\ UNCHANGED task
  <2>1. /\ DOMAIN queue' = DOMAIN queue \cup {Len(queue) + 1}
        /\ queue'[Len(queue) + 1] = adding
        /\ \A i \in DOMAIN queue : queue'[i] = queue[i]
    BY <1>2, <1>5
  <2>2. QED BY <1>2, <1>5, <2>1 DEF OnceInv
<1>6. CASE adding' = NoTask /\ UNCHANGED <<queue, task>> BY <1>2, <1>6 DEF OnceInv
<1>7. CASE /\ pc = "idle" /\ task = NoTask /\ queue # <<>>
           /\ task' = queue[1] /\ queue' = Tail(queue) /\ UNCHANGED adding
  <2>1. /\ 1 \in DOMAIN queue
        /\ \A i \in DOMAIN queue' :
              i + 1 \in DOMAIN queue /\ i + 1 # 1 /\ queue'[i] = queue[i + 1]
        /\ \A i, k \in DOMAIN queue' : i # k => i + 1 # k + 1
    BY <1>2, <1>7
  <2>2. \A i \in DOMAIN queue' : queue'[i].id \notin {0, adding.id, queue[1].id}
    BY <2>1 DEF OnceInv
  <2>3. \A i, k \in DOMAIN queue' : i # k => queue'[i].id # queue'[k].id
    BY <2>1 DEF OnceInv
  <2>4. adding.id # queue[1].id BY <2>1 DEF OnceInv
  <2>5. QED BY <1>7, <2>2, <2>3, <2>4 DEF OnceInv
<1>8. CASE pc' = "idle" /\ task' = NoTask /\ UNCHANGED <<adding, queue>>
  BY <1>2, <1>8 DEF OnceInv
<1>9. QED BY <1>1, <1>3, <1>4, <1>5, <1>6, <1>7, <1>8 DEF TaskMoves

\* Until the end the task in progress says that it goes on.
LEMMA SpeaksKept == ASSUME SystemInv, FinalInv, [Next]_vars PROVE SpeaksInv'
<1> SUFFICES ASSUME NEW w \in {"loop", "consumer"}, ~Quiet(w)', upd'[w].task = task',
                    pc' # "finish", task'.id \notin forsaken'
             PROVE  upd'[w].status = "RUNNING"
  BY DEF SpeaksInv
<1>1. /\ WriterStep(w) /\ TaskMoves /\ forsaken \subseteq forsaken'
      /\ task' = task /\ pc = "finish" => pc' \in {"finish", "idle"}
  BY WriterSteps, TasksMove DEF FinalInv
<1>2. pc' # "idle" BY NextKeepsInv DEF SystemInv, WriterInv
<1>3. CASE ~Quiet(w) /\ upd'[w].task = upd[w].task /\ upd'[w].status = upd[w].status
  <2>1. pc # "idle" /\ task = upd[w].task BY <1>1, <1>3 DEF SystemInv, WriterInv
  <2>2. pc # "finish" BY <1>1, <1>2, <1>3, <2>1
  <2>3. QED BY <1>1, <1>3, <2>1, <2>2 DEF FinalInv, SpeaksInv
<1>4. CASE upd'[w] = upd[w] /\ Quiet(w) BY <1>4 DEF Quiet
<1>5. CASE upd'[w] = NoUpdate BY <1>5 DEF Quiet, NoUpdate
<1>6. QED BY <1>1, <1>3, <1>4, <1>5 DEF WriterStep

LEMMA EndedKept == ASSUME SystemInv, FinalInv, [Next]_vars PROVE EndedInv'
<1> DEFINE Good(j) ==
      /\ j # adding'.id /\ \A i \in DOMAIN queue' : j # queue'[i].id
      /\ j = task'.id =>
            /\ pc' = "finish"
            /\ ~(upd'[Writer'].stage \in {"exists", "store"} /\ upd'[Writer'].task = task')
<1> SUFFICES ASSUME NEW j \in DOMAIN jobs', jobs'[j].status \in Terminal,
                    j \notin assumed' \cup forsaken'
             PROVE  Good(j)
  BY DEF EndedInv
<1>0. SystemInv' BY NextKeepsInv
<1>1. /\ TaskMoves /\ forsaken \subseteq forsaken'
      /\ task' = task /\ pc = "finish" => pc' \in {"finish", "idle"}
      /\ OnceInv /\ SpeaksInv /\ EndedInv
  BY TasksMove DEF FinalInv
<1>2. assumed \subseteq assumed'
  <2>1. CASE Systemd BY <2>1, SystemdApart
  <2>2. CASE ~Systemd BY <2>2, OutsideSystemd DEF Next
  <2>3. QED BY <2>1, <2>2
<1>3. CASE j \in DOMAIN jobs /\ jobs'[j].status = jobs[j].status
  <2>1. j \in Nat /\ j # 0 /\ j < nextJob /\ nextJob \in Nat BY <1>3 DEF SystemInv, TypeOK
  <2>2. /\ j # adding.id /\ \A i \in DOMAIN queue : j # queue[i].id
        /\ j = task.id =>
              /\ pc = "finish"
              /\ ~(upd[Writer].stage \in {"exists", "store"} /\ upd[Writer].task = task)
    BY <1>1, <1>2, <1>3 DEF EndedInv
  <2>3. queue \in Seq(Tasks) /\ NoTask.id = 0 BY DEF SystemInv, TypeOK, NoTask
  <2>4. j # adding'.id BY <1>1, <2>1, <2>2, <2>3 DEF TaskMoves
  <2>5. \A i \in DOMAIN queue' : j # queue'[i].id
    <3>1. CASE queue' = queue BY <2>2, <3>1
    <3>2. CASE queue' = Append(queue, adding)
      <4>1. \A i \in DOMAIN queue' :
               (i \in DOMAIN queue /\ queue'[i] = queue[i]) \/ queue'[i] = adding
        BY <2>3, <3>2
      <4>2. QED BY <2>2, <4>1
    <3>3. CASE queue # <<>> /\ queue' = Tail(queue)
      <4>1. \A i \in DOMAIN queue' : i + 1 \in DOMAIN queue /\ queue'[i] = queue[i + 1]
        BY <2>3, <3>3
      <4>2. QED BY <2>2, <4>1
    <3>4. QED BY <1>1, <3>1, <3>2, <3>3 DEF TaskMoves
  <2>6. ASSUME j = task'.id
        PROVE  /\ pc' = "finish"
               /\ ~(upd'[Writer'].stage \in {"exists", "store"} /\ upd'[Writer'].task = task')
    <3>1. task' = task
      <4>1. queue # <<>> => 1 \in DOMAIN queue BY <2>3
      <4>2. QED BY <1>1, <2>1, <2>2, <2>3, <2>6, <4>1 DEF TaskMoves
    <3>2. /\ pc = "finish"
          /\ ~(upd[Writer].stage \in {"exists", "store"} /\ upd[Writer].task = task)
      BY <2>2, <2>6, <3>1
    <3>3. pc' # "idle" BY <1>0, <2>1, <2>3, <2>6 DEF SystemInv, KindInv
    <3>4. pc' = "finish" BY <1>1, <3>1, <3>2, <3>3
    <3>5. Writer' = Writer /\ Writer \in {"loop", "consumer"} BY <3>1 DEF Writer
    <3>6. WriterStep(Writer) BY <3>5, WriterSteps
    <3>7. j \notin forsaken BY <1>1
    <3>8. ~(upd'[Writer].stage \in {"exists", "store"} /\ upd'[Writer].task = task)
      BY <2>6, <3>1, <3>2, <3>6, <3>7 DEF WriterStep, NoUpdate
    <3>9. QED BY <3>1, <3>4, <3>5, <3>8
  <2>7. QED BY <2>4, <2>5, <2>6
<1>4. ASSUME NEW w \in Writers, StoredBy(w, j) PROVE Good(j)
  <2>1. /\ upd[w].stage = "store" /\ j = upd[w].task.id /\ upd[w].status \in Terminal
        /\ UNCHANGED <<adding, queue, pc, task, forsaken>>
    BY <1>4 DEF StoredBy, UpdateStore, apiVars
  <2>2. w \in {"loop", "consumer"} BY <1>4 DEF StoredBy, Writers
  <2>3. j # 0 /\ j \notin forsaken BY <1>1, <1>4, <2>1 DEF SystemInv, IdInv
  <2>4. pc # "idle" /\ w = Writer /\ upd[w].task = task
    BY <2>1, <2>2, <2>3 DEF SystemInv, WriterInv, Quiet
  <2>5. pc = "finish" BY <1>1, <2>1, <2>2, <2>3, <2>4 DEF SpeaksInv, Quiet, Terminal
  <2>6. j # adding.id /\ \A i \in DOMAIN queue : j # queue[i].id
    BY <1>1, <2>1, <2>3, <2>4 DEF OnceInv
  <2>7. upd'[w].stage \in {"expire", "none"}
    <3>1. upd \in [Writers -> Updates] BY DEF SystemInv, TypeOK
    <3>2. upd[w] \in Updates BY <3>1
    <3>3. Goto(w, "expire") \/ Done(w) BY <1>4 DEF StoredBy, UpdateStore
    <3>4. QED BY <3>1, <3>2, <3>3 DEF Goto, Done, NoUpdate, Updates
  <2>8. Writer' = Writer BY <2>1 DEF Writer
  <2>9. QED BY <2>1, <2>4, <2>5, <2>6, <2>7, <2>8
<1>5. QED BY <1>3, <1>4, JobSteps DEF Terminal

\* A task is in one place at a time and says its last word once: what EndedIsFinal needs.
THEOREM FinalInvariance == Spec => [](SystemInv /\ FinalInv)
<1>1. Init => SystemInv /\ FinalInv
  <2> SUFFICES ASSUME Init PROVE FinalInv BY InitEstablishesInv
  <2>1. OnceInv BY DEF Init, OnceInv, NoTask
  <2>2. SpeaksInv BY DEF Init, SpeaksInv, Quiet, NoUpdate, Writers
  <2>3. EndedInv BY DEF Init, EndedInv
  <2>4. QED BY <2>1, <2>2, <2>3 DEF FinalInv
<1>2. SystemInv /\ FinalInv /\ [Next]_vars => (SystemInv /\ FinalInv)'
  <2> SUFFICES ASSUME SystemInv, FinalInv, [Next]_vars PROVE SystemInv' /\ FinalInv'
    OBVIOUS
  <2>1. OnceInv' BY OnceInvKept DEF FinalInv
  <2>2. QED BY <2>1, SpeaksKept, EndedKept, NextKeepsInv DEF FinalInv
<1>3. QED BY <1>1, <1>2, PTL DEF Spec

\* A job that ended keeps its status, but for those that a starting API finished or
\* whose task broke off: no late line of the log sets it RUNNING again, and no task
\* ends it twice (rebuild_system, report_active_rebuild_log).
THEOREM EndedIsFinalHolds == Spec => EndedIsFinal
<1>1. ASSUME SystemInv, FinalInv, [Next]_vars,
             NEW j \in DOMAIN jobs \cap DOMAIN jobs',
             jobs[j].status \in Terminal, jobs'[j].status # jobs[j].status
      PROVE  j \in assumed' \cup forsaken
  <2>1. j # nextJob BY <1>1 DEF SystemInv, TypeOK
  <2>2. PICK w \in Writers : StoredBy(w, j) BY <1>1, <2>1, JobSteps
  <2>3. upd[w].stage = "store" /\ j = upd[w].task.id /\ assumed \subseteq assumed'
    BY <2>2 DEF StoredBy, UpdateStore
  <2>4. CASE w = "api" BY <2>2, <2>4 DEF StoredBy
  <2>5. CASE w \in {"loop", "consumer"} /\ j \notin forsaken
    <3>1. w = Writer /\ upd[w].task = task BY <1>1, <2>3, <2>5 DEF SystemInv, WriterInv, Quiet
    <3>2. j = task.id BY <2>3, <3>1
    <3>3. j \in assumed BY <1>1, <2>3, <2>5, <3>1, <3>2 DEF FinalInv, EndedInv
    <3>4. QED BY <2>3, <3>3
  <2>6. QED BY <2>4, <2>5 DEF Writers
<1>2. SystemInv /\ FinalInv /\ [Next]_vars =>
          [\A j \in DOMAIN jobs \cap DOMAIN jobs' :
              jobs[j].status \in Terminal /\ jobs'[j].status # jobs[j].status =>
                  j \in assumed' \cup forsaken]_vars
  BY <1>1
<1>3. QED BY <1>2, FinalInvariance, PTL DEF Spec, EndedIsFinal
=============================================================================
