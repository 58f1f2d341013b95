------------------------------- MODULE JobTable -------------------------------
(***************************************************************************)
(* The table of jobs that the API process and the worker share in Redis    *)
(* (selfprivacy_api/jobs/__init__.py) and the queries the backup code asks *)
(* of it (selfprivacy_api/backup/jobs.py).                                 *)
(*                                                                         *)
(* A table is a function from job ids to job records; a job that was never *)
(* added, was removed, or has expired is outside its domain.  Ids are      *)
(* handed out in order, so the id stands for `created_at`.                 *)
(***************************************************************************)
EXTENDS Naturals

NoJob == 0

\* Variant: a job that FINISHED still passes for one that is under way.
LiveStatusAndFinished == {"CREATED", "RUNNING", "FINISHED"}

LiveStatus     == {"CREATED", "RUNNING"}
TerminalStatus == {"FINISHED", "ERROR"}
Status         == LiveStatus \cup TerminalStatus

\* Jobs.add: the record is written whole, in status CREATED.
Add(table, id, job) ==
    [k \in DOMAIN table \cup {id} |-> IF k = id THEN job ELSE table[k]]

\* Jobs.update: overwrite the record, unless it is gone by now.
Update(table, id, status) ==
    [k \in DOMAIN table |->
        IF k = id THEN [table[k] EXCEPT !.status = status] ELSE table[k]]

\* Jobs.remove and the expiry of a key.
Remove(table, ids) == [k \in DOMAIN table \ ids |-> table[k]]

\* The jobs of one type (services.<svc>.<op>) in one of the given statuses.
JobsOf(table, op, svc, statuses) ==
    {k \in DOMAIN table : /\ table[k].op = op
                          /\ table[k].svc = svc
                          /\ table[k].status \in statuses}

\* Variant: the job is looked up by its operation, whatever the service.
IsNewestLiveOfAny(table, op, svc, id) ==
    /\ id \in DOMAIN table
    /\ table[id].op = op
    /\ table[id].status \in LiveStatus

\* get_backup_job, get_restore_job: the newest job of the type that has not
\* ended; false of every id when there is none.
IsNewestLive(table, op, svc, id) ==
    /\ id \in JobsOf(table, op, svc, LiveStatus)
    /\ \A k \in JobsOf(table, op, svc, LiveStatus) : k =< id

\* is_something_running_for: any job whose type starts with services.<svc>
\* and is RUNNING; a job that only waits does not count.  No id of a service is
\* taken to be the beginning of another's.
RunningFor(table, svc) ==
    \E k \in DOMAIN table : table[k].svc = svc /\ table[k].status = "RUNNING"
=============================================================================
