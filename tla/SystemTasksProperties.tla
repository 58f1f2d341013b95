------------------------ MODULE SystemTasksProperties ------------------------
(* What rebuilds, upgrades and garbage collections of SystemTasks promise.   *)
EXTENDS SystemTasks

\* The jobs of a task that is still to come, or under way.
Served == {adding.id, task.id} \cup {queue[i].id : i \in DOMAIN queue}

\* A job that has not ended has a task that will end it: neither a removal
\* between the two commands of Jobs.update, nor a late line of the log, nor the
\* restart of the API leaves a job behind that nobody updates any more.
NoStrandedRebuild ==
    \A j \in DOMAIN jobs :
        jobs[j].status \in Live => j \in Served \cup forsaken

\* A job that ended expires, or is about to get its expiry: also a job that
\* Jobs.update brought back after it was removed (jobs/__init__.py:256-259).
EndedJobsExpire ==
    \A j \in DOMAIN jobs :
        jobs[j].status \in Terminal /\ ~jobs[j].ttl =>
            \/ j \in forsaken
            \/ \E w \in Writers : upd[w].stage = "expire" /\ upd[w].task.id = j

\* The inductive invariant from which both follow.
IdInv ==
    /\ adding.id < nextJob /\ task.id < nextJob
    /\ \A i \in DOMAIN queue : queue[i].id < nextJob
    /\ \A w \in Writers : upd[w].stage = "store" => upd[w].task.id \in 1 .. nextJob - 1

KindInv ==
    /\ pc \in {"gc_begin", "gc_count", "gc_clean", "gc_result"} => task.op = "gc"
    /\ pc = "idle" => task = NoTask

\* A starting API only finishes jobs; the worker writes to the job of its task,
\* or for a log task that was left behind.
WriterInv ==
    /\ ~Quiet("api") => upd["api"].status = "FINISHED"
    /\ \A w \in {"loop", "consumer"} :
          ~Quiet(w) => \/ upd[w].task.id \in forsaken
                       \/ pc # "idle" /\ w = Writer /\ upd[w].task = task

LogInv ==
    \A t \in DOMAIN logs :
        \/ t.id \in forsaken
        \/ /\ t = task /\ phase = 2
           /\ pc \in {"read", "subscribe", "listen", "stop_log"}

\* A task that is over has written, or is writing, how its job ended.
FinishInv ==
    (pc = "finish" /\ task.id \notin forsaken) =>
        LET u == upd[Writer] IN
        /\ u.stage # "none" /\ u.task = task => u.status \in Terminal
        /\ \/ u.stage \in {"exists", "store"} /\ u.task = task
           \/ task.id \notin DOMAIN jobs
           \/ jobs[task.id].status \in Terminal

SystemInv == /\ TypeOK /\ IdInv /\ KindInv /\ WriterInv /\ LogInv /\ FinishInv
             /\ NoStrandedRebuild /\ EndedJobsExpire

\* A job that says "System rebuilt." had a run of its unit that began after the
\* request, and succeeded; but for a job that a starting API finished, or whose
\* unit was already running for somebody else when its task came to start it.
FinishedMeansRebuilt ==
    \A j \in DOMAIN jobs :
        LET t == jobs[j].task IN
        (jobs[j].status = "FINISHED" /\ t.op \in Units) =>
            j \in assumed \cup joined \/ j < unit[t.op].good

\* What FinishedMeansRebuilt rests on: the order of the runs of a unit, and that a
\* coroutine past its first wait has seen a run that began after its request.
Rebuilds(t)  == t.id \in joined \/ t.id < unit[t.op].good
UnitInv ==
    \A u \in Units : /\ unit[u].good <= unit[u].run /\ unit[u].run <= nextJob
                     /\ unit[u].state = "inactive" => unit[u].good = unit[u].run

RunInv ==
    /\ pc \in {"idle", "start"} => phase = 1
    /\ pc \in {"read", "subscribe", "listen"} /\ phase = 1 =>
          \/ task.id \in joined \/ task.id < Unit.run
          \/ task.op \in starting /\ Unit.state \notin Busy
    /\ \/ pc \in {"read", "subscribe", "listen"} /\ phase = 2
       \/ pc \in {"follow", "stop_log", "status"}
       => task.id \in joined \/ task.id < Unit.run

SaidInv ==
    \A w \in {"loop", "consumer"} :
        upd[w].status = "FINISHED" /\ upd[w].task.op \in Units => Rebuilds(upd[w].task)

RebuiltInv == UnitInv /\ RunInv /\ SaidInv /\ FinishedMeansRebuilt

\* A job that ended keeps its status: the log task of a unit, which sets RUNNING
\* for each line, is over when the coroutine says how the rebuild ended
\* (jobs/upgrade_system.py:107-111).  A starting API may break this both ways.
EndedIsFinal ==
    [][\A j \in DOMAIN jobs \cap DOMAIN jobs' :
          jobs[j].status \in Terminal /\ jobs'[j].status # jobs[j].status =>
              j \in assumed' \cup forsaken]_vars

\* What EndedIsFinal rests on: a task is taken once, and a job has ended only when
\* the last word of its task is stored.
OnceInv ==
    /\ \A i, k \in DOMAIN queue : i # k => queue[i].id # queue[k].id
    /\ \A i \in DOMAIN queue : queue[i].id \notin {0, adding.id, task.id}
    /\ adding.id = task.id => adding.id = 0
    /\ adding.id = 0 => adding = NoTask

SpeaksInv ==
    \A w \in {"loop", "consumer"} :
        ~Quiet(w) /\ upd[w].task = task /\ pc # "finish" =>
            upd[w].status = "RUNNING" \/ task.id \in forsaken

EndedInv ==
    \A j \in DOMAIN jobs :
        jobs[j].status \in Terminal /\ j \notin assumed \cup forsaken =>
            /\ j # adding.id /\ \A i \in DOMAIN queue : j # queue[i].id
            /\ j = task.id =>
                  /\ pc = "finish"
                  /\ ~(upd[Writer].stage \in {"exists", "store"} /\ upd[Writer].task = task)

FinalInv == OnceInv /\ SpeaksInv /\ EndedInv

\* Every job ends for good, is gone, or its task broke off: whatever systemd
\* does, missed signals included, and however the API restarts.
EveryRebuildEnds ==
    \A j \in 1 .. MaxRequests :
        j \in DOMAIN jobs ~>
            [](j \in DOMAIN jobs => jobs[j].status \in Terminal \/ j \in forsaken)
=============================================================================
