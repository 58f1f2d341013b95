----------------------------- MODULE SystemTasks -----------------------------
(***************************************************************************)
(* Rebuilds and upgrades of the system, and the collection of nix garbage. *)
(*                                                                         *)
(* Actors:                                                                 *)
(*   - the API, which adds a job and enqueues its task, removes jobs, and  *)
(*     when it starts ends the rebuild jobs it finds under way             *)
(*     (migrations/check_for_system_rebuild_jobs.py);                      *)
(*   - the thread of the worker that takes tasks from the queue;           *)
(*   - the event loop of the worker, in a thread of its own: the coroutine *)
(*     that starts a systemd unit and follows it, and the log tasks, which *)
(*     outlive the coroutine unless it cancels them (upgrade_system.py);   *)
(*   - systemd, whose signals are missed by one who subscribes too late.   *)
(*                                                                         *)
(* Jobs.update is three Redis commands (exists, hset, expire), and those   *)
(* of different writers interleave.  A writer blocks its own thread.       *)
(***************************************************************************)
EXTENDS Naturals, Sequences

CONSTANTS
    Events,        \* what may be asked for and what may go wrong
    MaxRequests,   \* bound: how many requests and removals
    MaxRestarts    \* bound: how many restarts of either process

AllEvents == {"rebuild", "upgrade", "gc", "remove", "timeout", "dbus",
              "unknown", "log_dies", "gc_fails", "restart_api", "restart_worker"}

ASSUME SystemEventsAssumption == Events \subseteq AllEvents
ASSUME SystemBoundsAssumption == MaxRequests \in Nat /\ MaxRestarts \in Nat

VARIABLES
    jobs, nextJob,   \* the table of jobs; the next id
    upd,             \* for each writer, its Jobs.update in progress
    adding,          \* the task that the API is about to enqueue
    todo,            \* the jobs that the starting API read and is to finish
    queue,           \* the huey queue
    pc, task,        \* where the worker is in which task
    phase,           \* 1: waits for the unit to start; 2: for it to end
    changed,         \* a signal came since the coroutine subscribed
    logs,            \* the log tasks
    unit, starting,  \* the units; their start jobs in systemd
    requests, restarts,
    assumed,         \* history: jobs finished by a starting API
    joined,          \* history: jobs whose unit was already running
    forsaken         \* history: jobs whose task broke off without a last word

tableVars   == <<jobs, nextJob>>
apiVars     == <<adding, todo>>
waitVars    == <<phase, changed>>
unitVars    == <<unit, starting>>
countVars   == <<requests, restarts>>
historyVars == <<assumed, joined, forsaken>>
vars == <<tableVars, upd, apiVars, queue, pc, task, waitVars, logs, unitVars,
          countVars, historyVars>>

\* What an action of the worker leaves alone unless it says otherwise.
outside == <<tableVars, apiVars, queue, unitVars, countVars>>

-----------------------------------------------------------------------------
(* Jobs and units                                                          *)

Live     == {"CREATED", "RUNNING"}
Terminal == {"FINISHED", "ERROR"}

Units == {"rebuild", "upgrade"}
Ops   == Units \cup {"gc"}

\* A task is the job it carries.
Tasks  == [id : Nat, op : Ops]
NoTask == [id |-> 0, op |-> "gc"]

Jobs == [task : Tasks, status : Live \cup Terminal, ttl : BOOLEAN]

\* History: jobs below `run` were there when the last run of the unit began,
\* those below `good` when the last run that succeeded began.
UnitStates == [state : {"inactive", "activating", "active", "failed"},
               run : Nat, good : Nat]

Writers == {"loop", "consumer", "api"}
Updates == [stage : {"none", "exists", "store", "expire"}, task : Tasks,
            status : Live \cup Terminal]
NoUpdate == [stage |-> "none", task |-> NoTask, status |-> "CREATED"]

Pcs == {"idle", "start", "read", "subscribe", "listen", "follow", "stop_log",
        "status", "gc_begin", "gc_count", "gc_clean", "gc_result", "finish"}

TypeOK ==
    /\ DOMAIN jobs \subseteq 1 .. nextJob - 1
    /\ nextJob \in Nat \ {0}
    /\ \A j \in DOMAIN jobs : jobs[j] \in Jobs /\ jobs[j].task.id = j
    /\ upd \in [Writers -> Updates]
    /\ adding \in Tasks /\ task \in Tasks
    /\ todo \subseteq Tasks
    /\ queue \in Seq(Tasks)
    /\ pc \in Pcs /\ phase \in {1, 2} /\ changed \in BOOLEAN
    /\ DOMAIN logs \subseteq Tasks
    /\ \A t \in DOMAIN logs : t.op \in Units /\ logs[t] \in {"quiet", "entry", "dead"}
    /\ unit \in [Units -> UnitStates]
    /\ starting \subseteq Units
    /\ requests \in Nat /\ restarts \in Nat
    /\ assumed \subseteq Nat /\ joined \subseteq Nat /\ forsaken \subseteq Nat
    /\ pc \in {"start", "read", "subscribe", "listen", "follow", "stop_log", "status"}
          => task.op \in Units

Init ==
    /\ jobs = <<>> /\ nextJob = 1
    /\ upd = [w \in Writers |-> NoUpdate]
    /\ adding = NoTask /\ todo = {} /\ queue = <<>>
    /\ pc = "idle" /\ task = NoTask /\ phase = 1 /\ changed = FALSE
    /\ logs = <<>>
    /\ unit = [u \in Units |-> [state |-> "inactive", run |-> 0, good |-> 0]]
    /\ starting = {}
    /\ requests = 0 /\ restarts = 0
    /\ assumed = {} /\ joined = {} /\ forsaken = {}

-----------------------------------------------------------------------------
(* Jobs.update                                                             *)

Quiet(w) == upd[w].stage = "none"

\* Variant: only a job that FINISHED is given an expiry.
ExpiresIfFinished(status) == status = "FINISHED"

Expires(status) == status \in Terminal

Update(w, t, status) ==
    upd' = [upd EXCEPT ![w] = [stage |-> "exists", task |-> t, status |-> status]]

Goto(w, stage) == upd' = [upd EXCEPT ![w].stage = stage]

Done(w) == upd' = [upd EXCEPT ![w] = NoUpdate]

UpdateExists(w) ==
    /\ upd[w].stage = "exists"
    /\ IF upd[w].task.id \in DOMAIN jobs THEN Goto(w, "store") ELSE Done(w)
    /\ UNCHANGED <<outside, pc, task, waitVars, logs, historyVars>>

\* The writer's copy of the job is written whole, which makes the key anew if
\* it is gone by now; a key that exists keeps its expiry.
UpdateStore(w) ==
    LET id == upd[w].task.id IN
    /\ upd[w].stage = "store"
    /\ jobs' = [j \in DOMAIN jobs \cup {id} |->
                   IF j # id THEN jobs[j]
                   ELSE [task |-> upd[w].task, status |-> upd[w].status,
                         ttl |-> id \in DOMAIN jobs /\ jobs[id].ttl]]
    /\ IF Expires(upd[w].status) THEN Goto(w, "expire") ELSE Done(w)
    /\ assumed' = IF w = "api" THEN assumed \cup {id} ELSE assumed
    /\ UNCHANGED <<nextJob, apiVars, queue, pc, task, waitVars, logs, unitVars,
                   countVars, joined, forsaken>>

UpdateExpire(w) ==
    LET id == upd[w].task.id IN
    /\ upd[w].stage = "expire"
    /\ jobs' = [j \in DOMAIN jobs |->
                   IF j = id THEN [jobs[j] EXCEPT !.ttl = TRUE] ELSE jobs[j]]
    /\ Done(w)
    /\ UNCHANGED <<nextJob, apiVars, queue, pc, task, waitVars, logs, unitVars,
                   countVars, historyVars>>

UpdateStep(w) == UpdateExists(w) \/ UpdateStore(w) \/ UpdateExpire(w)

-----------------------------------------------------------------------------
(* The API                                                                 *)

\* It serves requests when its migrations are done.
ApiServes == adding = NoTask /\ todo = {} /\ Quiet("api")

\* rebuild_system, upgrade_system, start_nix_collect_garbage: first the job,
Request(op) ==
    LET t == [id |-> nextJob, op |-> op] IN
    /\ op \in Events
    /\ ApiServes
    /\ requests < MaxRequests
    /\ jobs' = [j \in DOMAIN jobs \cup {nextJob} |->
                   IF j = nextJob THEN [task |-> t, status |-> "CREATED", ttl |-> FALSE]
                   ELSE jobs[j]]
    /\ nextJob' = nextJob + 1
    /\ adding' = t
    /\ requests' = requests + 1
    /\ UNCHANGED <<upd, todo, queue, pc, task, waitVars, logs, unitVars, restarts,
                   historyVars>>

\* then the task.
Enqueue ==
    /\ adding # NoTask
    /\ queue' = Append(queue, adding)
    /\ adding' = NoTask
    /\ UNCHANGED <<tableVars, upd, todo, pc, task, waitVars, logs, unitVars, countVars,
                   historyVars>>

\* remove_job; a job that expires goes the same way.
RemoveJob(j) ==
    /\ "remove" \in Events
    /\ ApiServes
    /\ requests < MaxRequests
    /\ requests' = requests + 1
    /\ jobs' = [k \in DOMAIN jobs \ {j} |-> jobs[k]]
    /\ UNCHANGED <<nextJob, upd, apiVars, queue, pc, task, waitVars, logs, unitVars,
                   restarts, historyVars>>

UnfinishedRebuilds == {j \in DOMAIN jobs : /\ jobs[j].task.op \in Units
                                           /\ jobs[j].status \in Live}

\* The API dies, between adding a job and its task or in the middle of an
\* update, and starts again: the migration reads the jobs that are not finished.
ApiRestarts ==
    /\ "restart_api" \in Events
    /\ restarts < MaxRestarts
    /\ restarts' = restarts + 1
    /\ adding' = NoTask
    /\ todo' = {jobs[j].task : j \in UnfinishedRebuilds}
    /\ upd' = [upd EXCEPT !["api"] = NoUpdate]
    /\ forsaken' = forsaken \cup {t.id : t \in {adding, upd["api"].task} \ {NoTask}}
    /\ UNCHANGED <<tableVars, queue, pc, task, waitVars, logs, unitVars, requests,
                   assumed, joined>>

\* Then it finishes them, whatever became of them since it read them.
Migrate ==
    /\ Quiet("api")
    /\ \E t \in todo : todo' = todo \ {t} /\ Update("api", t, "FINISHED")
    /\ UNCHANGED <<tableVars, adding, queue, pc, task, waitVars, logs, unitVars,
                   countVars, historyVars>>

-----------------------------------------------------------------------------
(* The worker takes tasks                                                  *)

FirstStep(t) == IF t.op = "gc" THEN "gc_begin" ELSE "start"

Take ==
    /\ pc = "idle"
    /\ queue # <<>>
    /\ task' = Head(queue)
    /\ queue' = Tail(queue)
    /\ pc' = FirstStep(Head(queue))
    /\ UNCHANGED <<tableVars, upd, apiVars, waitVars, logs, unitVars, countVars,
                   historyVars>>

\* Garbage is collected in the worker's own thread, the rest in the loop's.
Writer == IF task.op = "gc" THEN "consumer" ELSE "loop"
At(p)  == pc = p /\ Quiet(Writer)

Forsake(j) == forsaken' = forsaken \cup {j} /\ UNCHANGED <<assumed, joined>>

\* The last Jobs.update of a task.
EndJob(status) == Update(Writer, task, status) /\ pc' = "finish"

Finish ==
    /\ At("finish")
    /\ pc' = "idle" /\ task' = NoTask /\ phase' = 1 /\ changed' = FALSE
    /\ UNCHANGED <<outside, upd, logs, historyVars>>

-----------------------------------------------------------------------------
(* rebuild_system                                                          *)

Unit == unit[task.op]
Busy == {"activating", "active"}

\* The call returns when the start job is queued, not when the unit runs.
StartUnit ==
    /\ At("start")
    /\ starting' = starting \cup {task.op}
    /\ joined' = IF Unit.state \in Busy \/ task.op \in starting
                 THEN joined \cup {task.id} ELSE joined
    /\ Update("loop", task, "RUNNING")
    /\ pc' = "read"
    /\ UNCHANGED <<tableVars, apiVars, queue, task, waitVars, logs, unit, countVars,
                   assumed, forsaken>>

StartUnitFails ==
    /\ At("start")
    /\ "dbus" \in Events
    /\ EndJob("ERROR")
    /\ UNCHANGED <<outside, task, waitVars, logs, historyVars>>

Awaited == IF phase = 1 THEN {"active"} ELSE {"failed", "inactive"}

\* wait_for_unit_state returns.
Reached ==
    \/ /\ phase = 1
       /\ Update("loop", task, "RUNNING")
       /\ pc' = "follow"
    \/ /\ phase = 2
       /\ pc' = "stop_log"
       /\ UNCHANGED upd

Read ==
    /\ At("read")
    /\ \/ Unit.state \in Awaited /\ Reached
       \/ /\ Unit.state \notin Awaited
          /\ pc' = "subscribe"
          /\ UNCHANGED upd
    /\ UNCHANGED <<outside, task, waitVars, logs, historyVars>>

\* What changed since Read is not signalled any more.
Subscribe ==
    /\ At("subscribe")
    /\ pc' = "listen" /\ changed' = FALSE
    /\ UNCHANGED <<outside, upd, task, phase, logs, historyVars>>

Listen ==
    /\ At("listen")
    /\ changed
    /\ changed' = FALSE
    /\ \/ Unit.state \in Awaited /\ Reached
       \/ Unit.state \notin Awaited /\ UNCHANGED <<upd, pc>>
    /\ UNCHANGED <<outside, task, phase, logs, historyVars>>

Follow ==
    /\ At("follow")
    /\ logs' = [t \in DOMAIN logs \cup {task} |-> IF t = task THEN "quiet" ELSE logs[t]]
    /\ phase' = 2 /\ pc' = "read"
    /\ UNCHANGED <<outside, upd, task, changed, historyVars>>

\* Variant: the log task is left running.
CancelLogNot == UNCHANGED logs

CancelLog == logs' = [t \in DOMAIN logs \ {task} |-> logs[t]]

\* Waiting for the cancelled log task raises what the log task raised.
StopLog ==
    /\ At("stop_log")
    /\ CancelLog
    /\ IF logs[task] = "dead" THEN EndJob("ERROR") ELSE pc' = "status" /\ UNCHANGED upd
    /\ UNCHANGED <<outside, task, waitVars, historyVars>>

\* Variant: whatever is not active any more was rebuilt.
RebuiltIfNotActive(state) == state # "active"

Rebuilt(state) == state = "inactive"

Status ==
    /\ At("status")
    /\ \/ Rebuilt(Unit.state) /\ EndJob("FINISHED") /\ UNCHANGED historyVars
       \/ ~Rebuilt(Unit.state) /\ Unit.state = "failed" /\ EndJob("ERROR")
                               /\ UNCHANGED historyVars
       \* It runs again, or the call raised and the status is OFF: no update.
       \/ /\ Unit.state \in Busy \/ "unknown" \in Events
          /\ pc' = "finish"
          /\ Forsake(task.id)
          /\ UNCHANGED upd
    /\ UNCHANGED <<outside, task, waitVars, logs>>

Waits == At("read") \/ At("subscribe") \/ At("listen")

\* Variant: only the second wait has a timeout.
TimedPhasesRunOnly == {2}

\* Variant: a timeout ends the task but not its job.
TimeoutUnmarked == pc' = "finish" /\ UNCHANGED upd

\* START_TIMEOUT and RUN_TIMEOUT.
TimedPhases == {1, 2}

TimeoutError == EndJob("ERROR")

\* In phase 1 there is no log task to cancel.
WaitTimesOut ==
    /\ Waits
    /\ "timeout" \in Events
    /\ phase \in TimedPhases
    /\ CancelLog
    /\ TimeoutError
    /\ UNCHANGED <<outside, task, waitVars, historyVars>>

\* Any other exception leaves the log task of phase 2 behind.
WaitRaises ==
    /\ Waits
    /\ "dbus" \in Events
    /\ EndJob("ERROR")
    /\ IF phase = 2 THEN Forsake(task.id) ELSE UNCHANGED historyVars
    /\ UNCHANGED <<outside, task, waitVars, logs>>

Rebuild == \/ StartUnit \/ StartUnitFails \/ Read \/ Subscribe \/ Listen \/ Follow
           \/ StopLog \/ Status \/ WaitTimesOut \/ WaitRaises

-----------------------------------------------------------------------------
(* report_active_rebuild_log                                               *)

Log(t, s) == logs' = [logs EXCEPT ![t] = s]

LogUpdate(t) ==
    /\ logs[t] = "entry"
    /\ Quiet("loop")
    /\ Log(t, "quiet")
    /\ Update("loop", t, "RUNNING")
    /\ UNCHANGED <<outside, pc, task, waitVars, historyVars>>

LogDies(t) ==
    /\ logs[t] = "entry"
    /\ "log_dies" \in Events
    /\ Quiet("loop")
    /\ Log(t, "dead")
    /\ UNCHANGED <<outside, upd, pc, task, waitVars, historyVars>>

-----------------------------------------------------------------------------
(* nix_collect_garbage_task                                                *)

GcBegin ==
    /\ At("gc_begin")
    /\ Update("consumer", task, "RUNNING")
    /\ pc' = "gc_count"
    /\ UNCHANGED <<outside, task, waitVars, logs, historyVars>>

\* An error of nix-store is not caught; output without a result is not noticed.
GcBreaksOff ==
    /\ At("gc_count") \/ At("gc_result")
    /\ "gc_fails" \in Events
    /\ pc' = "finish"
    /\ Forsake(task.id)
    /\ UNCHANGED <<outside, upd, task, waitVars, logs>>

GcCount ==
    /\ At("gc_count")
    /\ \/ EndJob("FINISHED")                                  \* nothing to clear
       \/ Update("consumer", task, "RUNNING") /\ pc' = "gc_clean"
    /\ UNCHANGED <<outside, task, waitVars, logs, historyVars>>

\* Progress is reported now and then; one report stands for all.
GcClean ==
    /\ At("gc_clean")
    /\ pc' = "gc_result"
    /\ Update("consumer", task, "RUNNING") \/ UNCHANGED upd
    /\ UNCHANGED <<outside, task, waitVars, logs, historyVars>>

\* The line with the result, which parse_line may fail to understand.
GcResult ==
    /\ At("gc_result")
    /\ EndJob("FINISHED") \/ EndJob("ERROR")
    /\ UNCHANGED <<outside, task, waitVars, logs, historyVars>>

CollectGarbage == GcBegin \/ GcBreaksOff \/ GcCount \/ GcClean \/ GcResult

-----------------------------------------------------------------------------
(* The worker restarts: its tasks are lost, those of the loop included.    *)

WorkerRestarts ==
    /\ "restart_worker" \in Events
    /\ restarts < MaxRestarts
    /\ restarts' = restarts + 1
    /\ pc' = "idle" /\ task' = NoTask /\ phase' = 1 /\ changed' = FALSE
    /\ logs' = <<>>
    /\ upd' = [upd EXCEPT !["loop"] = NoUpdate, !["consumer"] = NoUpdate]
    /\ forsaken' = forsaken \cup {t.id : t \in {task} \ {NoTask}}
    /\ UNCHANGED <<tableVars, apiVars, queue, unitVars, requests, assumed, joined>>

-----------------------------------------------------------------------------
(* systemd and the units                                                   *)

notUnits == <<tableVars, upd, apiVars, queue, pc, task, phase, countVars, historyVars>>

SetUnit(u, new) ==
    /\ unit' = [unit EXCEPT ![u] = new]
    /\ changed' = (changed \/ (pc = "listen" /\ task.op = u))

\* The upgrade unit has a step of its own before the switch, and starts after a
\* rebuild that is still to start; a unit that runs is not started again.
UnitStarts(u) ==
    /\ u \in starting
    /\ u = "upgrade" => "rebuild" \notin starting
    /\ starting' = starting \ {u}
    /\ IF unit[u].state \in Busy
       THEN UNCHANGED <<unit, changed>>
       ELSE SetUnit(u, [unit[u] EXCEPT
                           !.state = IF u = "upgrade" THEN "activating" ELSE "active",
                           !.run = nextJob])
    /\ UNCHANGED <<notUnits, logs>>

UnitReady ==
    /\ unit["upgrade"].state = "activating"
    /\ SetUnit("upgrade", [unit["upgrade"] EXCEPT !.state = "active"])
    /\ UNCHANGED <<notUnits, logs, starting>>

UnitSucceeds(u) ==
    /\ unit[u].state = "active"
    /\ SetUnit(u, [state |-> "inactive", run |-> unit[u].run, good |-> unit[u].run])
    /\ UNCHANGED <<notUnits, logs, starting>>

UnitFails(u) ==
    /\ unit[u].state \in Busy
    /\ SetUnit(u, [unit[u] EXCEPT !.state = "failed"])
    /\ UNCHANGED <<notUnits, logs, starting>>

UnitLogs(u) ==
    /\ unit[u].state \in Busy
    /\ \E t \in DOMAIN logs : t.op = u /\ logs[t] = "quiet"
    /\ logs' = [t \in DOMAIN logs |->
                   IF t.op = u /\ logs[t] = "quiet" THEN "entry" ELSE logs[t]]
    /\ UNCHANGED <<notUnits, unitVars, changed>>

-----------------------------------------------------------------------------
Api == \/ \E op \in Ops : Request(op)
       \/ Enqueue
       \/ \E j \in DOMAIN jobs : RemoveJob(j)
       \/ ApiRestarts
       \/ Migrate

Worker == \/ Take
          \/ Rebuild
          \/ CollectGarbage
          \/ Finish
          \/ \E t \in DOMAIN logs : LogUpdate(t) \/ LogDies(t)
          \/ WorkerRestarts

Systemd == \/ \E u \in Units : \/ UnitStarts(u) \/ UnitSucceeds(u)
                               \/ UnitFails(u) \/ UnitLogs(u)
           \/ UnitReady

Next == \/ Api
        \/ Worker
        \/ Systemd
        \/ \E w \in Writers : UpdateStep(w)

Spec == Init /\ [][Next]_vars

\* Both processes keep going; the loop runs what is ready in FIFO order, so the
\* log tasks do not keep the coroutine from running.  Nothing is asked of systemd.
Fairness == /\ WF_vars(Enqueue) /\ WF_vars(Migrate) /\ WF_vars(Take)
            /\ SF_vars(Rebuild \/ Finish)
            /\ WF_vars(CollectGarbage)
            /\ \A w \in Writers : WF_vars(UpdateStep(w))

FairSpec == Spec /\ Fairness
=============================================================================
