------------------------------ MODULE Snapshots ------------------------------
(***************************************************************************)
(* What the server remembers of its backups, and what it does by itself:   *)
(* the provider, the mark of an initialised repository, the cache of the   *)
(* list of snapshots, the time of the last backup of each service          *)
(* (backup/storage.py), the schedule of automatic backups and the pruning  *)
(* of their snapshots by quotas (backup/__init__.py).                      *)
(*                                                                         *)
(* The API and the worker both write these, with no lock.  A request of    *)
(* the API runs to its end before the next one, for it never awaits while  *)
(* restic runs; the worker takes one task at a time.  Reloading the cache  *)
(* is: list the repository, delete the cached snapshots, store each.  The  *)
(* steps of a backup itself are those of Backup.tla; here one is: upload,  *)
(* store the time, reload, prune, finish.                                  *)
(***************************************************************************)
EXTENDS Integers, Sequences, FiniteSets

CONSTANTS
    Services,                   \* a sequence: the order of get_all_services
    Broken,                     \* the services whose backup always fails
    Repos, FirstRepo, None,
    Timeframes, Calendar,       \* the day, week, month or year of each time, as a number
    QuotaChoices, Periods,      \* what may be asked for
    ErrorExpiry,                \* AUTOBACKUP_JOB_EXPIRATION_SECONDS
    Old, StartTime,             \* automatic snapshots there are at the start
    MaxClock, MaxRequests, MaxFaults   \* bounds

Names   == {Services[n] : n \in DOMAIN Services}
Buckets == Timeframes \cup {"last"}
Times   == 0 .. MaxClock

ASSUME SnapshotsAssumption ==
    /\ Services \in Seq(Names) /\ Services # <<>>      \* this API is one of them
    /\ Broken \subseteq Names /\ None \notin Repos /\ FirstRepo \in Repos
    /\ IsFiniteSet(Timeframes) /\ Calendar \in [Timeframes -> [Times -> Nat]]
    /\ QuotaChoices \subseteq [Buckets -> Int]
    /\ Periods \subseteq Nat \ {0} /\ ErrorExpiry \in Nat
    /\ Old \subseteq [at : Times, service : Names, auto : {TRUE}]
    /\ StartTime \in Times /\ \A x \in Old : x.at < StartTime
    /\ MaxClock \in Nat /\ MaxRequests \in Nat /\ MaxFaults \in Nat

VARIABLES
    repo, exists,      \* the snapshots in each repository; the initialised ones
    provider, mark,    \* in redis: the provider, REDIS_INITTED_CACHE
    cache,             \* the cached snapshots
    last,              \* the time of the last backup of each service
    period, quotas,
    live, running,     \* the times of the live backup jobs; whether the newest runs
    failed,            \* the time of the newest failed backup job
    tasks,             \* the queue of the worker
    proc,              \* what the API and the worker are doing
    staleLock,         \* restic's lock is left behind
    clock, requests, faults,
    excused            \* history: the cache may be out of date, and why is not the code's order

store   == <<provider, mark, period, quotas>>
journal == <<live, running, failed>>
bounds  == <<clock, requests, faults>>
vars    == <<repo, exists, store, cache, last, journal, tasks, proc, staleLock, bounds, excused>>

Procs == {"api", "worker"}
Snaps == [at : Times, service : Names, auto : BOOLEAN]

Rest == [pc |-> "idle", seen |-> {}, left |-> {}, mixed |-> FALSE, then |-> "idle",
         todo |-> <<>>, auto |-> FALSE, made |-> None, doomed |-> {}]

StandardQuota(i) == IF i <= -1 THEN -1 ELSE i
Unlimited == [b \in Buckets |-> -1]      \* autobackup_quotas when none are stored

Listing(r) == IF r = None THEN {} ELSE repo[r]      \* NoneBackupper lists nothing

LastMade(s, snaps) ==
    LET of == {x \in snaps : x.service = s}
    IN  IF of = {} THEN None ELSE (CHOOSE x \in of : \A y \in of : y.at <= x.at).at

Init ==
    /\ repo = [r \in Repos |-> IF r = FirstRepo THEN Old ELSE {}] /\ cache = Old
    /\ exists = {FirstRepo} /\ provider = FirstRepo
    /\ mark = TRUE
    /\ last = [s \in Names |-> LastMade(s, cache)]
    /\ period \in Periods
    /\ quotas \in {[b \in Buckets |-> StandardQuota(q[b])] : q \in QuotaChoices}
    /\ live = [s \in Names |-> <<>>] /\ running = [s \in Names |-> FALSE]
    /\ failed = [s \in Names |-> None]
    /\ tasks = <<>> /\ proc = [p \in Procs |-> Rest] /\ staleLock = FALSE
    /\ clock = StartTime /\ requests = 0 /\ faults = 0 /\ excused = FALSE

-----------------------------------------------------------------------------
(* Pruning: _prune_snaps_with_quotas, bucket by bucket                     *)

AutoSnaps(snaps, s) == {x \in snaps : x.service = s /\ x.auto}

Newer(x, snaps) == {y \in snaps : y.at > x.at}
\* The n-th newest, the newest being the first.
Nth(n, snaps)   == CHOOSE x \in snaps : Cardinality(Newer(x, snaps)) = n - 1

\* Variant: the quota does not count.
StepNoLimit(b, n, snaps, was) ==
    LET x   == Nth(n, snaps)
        val == IF b = "last" THEN n - 1 ELSE Calendar[b][x.at]
    IN  IF val # was.last \/ n = Cardinality(snaps)
        THEN [counter |-> IF was.counter > 0 THEN was.counter - 1 ELSE was.counter,
              last |-> val, kept |-> was.kept \cup {x}]
        ELSE was

\* What the n-th snapshot, newest first, makes of a bucket.  It is kept when the bucket
\* is not used up and it is the first of its period, or the last one.
PassStep(b, n, snaps, was) ==
    LET x   == Nth(n, snaps)
        val == IF b = "last" THEN n - 1 ELSE Calendar[b][x.at]
    IN  IF /\ was.counter > 0 \/ was.counter = -1
           /\ val # was.last \/ n = Cardinality(snaps)
        THEN [counter |-> IF was.counter > 0 THEN was.counter - 1 ELSE -1,
              last |-> val, kept |-> was.kept \cup {x}]
        ELSE was

\* The state of one bucket after all of them.
Pass(b, limit, snaps) ==
    LET f[n \in 0 .. Cardinality(snaps)] ==
          IF n = 0 THEN [counter |-> limit, last |-> -1, kept |-> {}]
          ELSE PassStep(b, n, snaps, f[n - 1])
    IN  f[Cardinality(snaps)]

Kept(q, snaps) == UNION {Pass(b, q[b], snaps).kept : b \in Buckets}

-----------------------------------------------------------------------------
(* The schedule                                                            *)

\* is_time_to_backup_service; the services are enabled.  Variant: a failure does not
\* put it off.
DueDespiteFailure(s) ==
    /\ period # None
    /\ \/ last[s] = None
       \/ last[s] # None /\ clock > last[s] + period

Due(s) ==
    /\ period # None
    /\ failed[s] = None \/ (failed[s] # None /\ clock >= failed[s] + ErrorExpiry)
    /\ \/ last[s] = None
       \/ last[s] # None /\ clock > last[s] + period

\* services_to_back_up
DueServices ==
    LET due[n \in 0 .. Len(Services)] ==
          IF n = 0 THEN <<>>
          ELSE IF Due(Services[n]) THEN Append(due[n - 1], Services[n]) ELSE due[n - 1]
    IN  due[Len(Services)]

-----------------------------------------------------------------------------
(* Reloading the cache                                                     *)

Goto(p, pc) == proc' = [proc EXCEPT ![p].pc = pc]
Other(p)    == CHOOSE q \in Procs : q # p
Listed(p)   == proc[p].pc \in {"clear", "fill"}

\* The other process sees that another list than its own got into the cache.
Mixing(p) ==
    [proc EXCEPT ![Other(p)].mixed = @ \/ (Listed(Other(p)) /\ proc[Other(p)].seen # proc[p].seen)]

\* A stale lock is removed and the command repeated: unlocked_repo.
Unlocked == staleLock' = FALSE

List(p) ==
    /\ proc[p].pc = "list" /\ Unlocked
    /\ provider = None \/ provider \in exists
    /\ proc' = [proc EXCEPT ![p].pc = "clear", ![p].seen = Listing(provider),
                            ![p].left = Listing(provider), ![p].mixed = FALSE]
    /\ UNCHANGED <<repo, exists, store, cache, last, journal, tasks, bounds, excused>>

\* Variant: what is cached stays.
Keep(p) ==
    /\ proc[p].pc = "clear"
    /\ proc' = [Mixing(p) EXCEPT ![p].pc = "fill"]
    /\ UNCHANGED <<repo, exists, store, cache, last, journal, tasks, staleLock, bounds, excused>>

\* invalidate_snapshot_storage
Clear(p) ==
    /\ proc[p].pc = "clear"
    /\ cache' = {}
    /\ proc' = [Mixing(p) EXCEPT ![p].pc = "fill"]
    /\ UNCHANGED <<repo, exists, store, last, journal, tasks, staleLock, bounds, excused>>

\* cache_snapshot, in the order of the list
Fill(p) ==
    /\ proc[p].pc = "fill" /\ proc[p].left # {}
    /\ LET x == CHOOSE x \in proc[p].left : \A y \in proc[p].left : x.at <= y.at
       IN
         /\ cache' = cache \cup {x}
         /\ proc' = [Mixing(p) EXCEPT ![p].left = @ \ {x}]
    /\ UNCHANGED <<repo, exists, store, last, journal, tasks, staleLock, bounds, excused>>

Filled(p) ==
    /\ proc[p].pc = "fill" /\ proc[p].left = {}
    /\ excused' = (proc[p].mixed \/ proc[p].seen # Listing(provider))
    /\ proc' = [proc EXCEPT ![p].pc = proc[p].then, ![p].seen = {}, ![p].mixed = FALSE]
    /\ UNCHANGED <<repo, exists, store, cache, last, journal, tasks, staleLock, bounds>>

-----------------------------------------------------------------------------
(* Forgetting snapshots                                                    *)

\* restic forget: what is there is removed, and what is not is an error.
RemovedFrom(r, snaps) == [repo EXCEPT ![r] = @ \ snaps]

Forget(p, snaps) ==
    /\ provider # None /\ snaps \subseteq repo[provider] /\ Unlocked
    /\ repo' = RemovedFrom(provider, snaps)

ForgetError(p, snaps) ==
    /\ provider = None \/ (provider # None /\ ~(snaps \subseteq repo[provider]))
    /\ UNCHANGED staleLock
    /\ IF provider = None THEN UNCHANGED repo ELSE repo' = RemovedFrom(provider, snaps)

-----------------------------------------------------------------------------
(* The API                                                                 *)

Requesting == /\ proc["api"].pc = "idle" /\ requests < MaxRequests
              /\ requests' = requests + 1 /\ UNCHANGED <<clock, faults>>

ApiReload ==
    /\ Requesting /\ Goto("api", "list")
    /\ UNCHANGED <<repo, exists, store, cache, last, journal, tasks, staleLock, excused>>

\* restic will not forget while it uploads: the lock is not stale.
ApiForget ==
    /\ Requesting /\ proc["worker"].pc # "upload"
    /\ \E x \in cache :
         \/ Forget("api", {x}) /\ Goto("api", "list") /\ UNCHANGED excused
         \/ ForgetError("api", {x}) /\ excused' = TRUE /\ UNCHANGED proc
    /\ UNCHANGED <<exists, store, cache, last, journal, tasks>>

SetQuotas ==
    /\ Requesting
    /\ \E q \in QuotaChoices : quotas' = [b \in Buckets |-> StandardQuota(q[b])]
    /\ tasks' = Append(tasks, [op |-> "prune"])
    /\ UNCHANGED <<repo, exists, provider, mark, period, cache, last, journal, proc, staleLock, excused>>

\* None, zero and less turn automatic backups off.
SetPeriod ==
    /\ Requesting
    /\ \E m \in Periods \cup {None} : period' = m
    /\ UNCHANGED <<repo, exists, provider, mark, quotas, cache, last, journal, tasks, proc,
                   staleLock, excused>>

\* add_backup_job looks for a job that runs, not for one that waits.
StartBackup ==
    /\ Requesting
    /\ \E s \in Names :
         /\ ~running[s]
         /\ live' = [live EXCEPT ![s] = Append(@, clock)]
         /\ tasks' = Append(tasks, [op |-> "backup", service |-> s])
    /\ UNCHANGED <<repo, exists, store, cache, last, running, failed, proc, staleLock, excused>>

\* initialize_repository: a new one, or with a secret that exists already.
Initialize ==
    /\ Requesting
    /\ \E r \in Repos : provider' = r
    /\ \E pc \in {"init", "list"} : Goto("api", pc)
    /\ excused' = TRUE
    /\ UNCHANGED <<repo, exists, mark, period, quotas, cache, last, journal, tasks, staleLock>>

\* What fails leaves the new provider stored.
InitRepo ==
    /\ proc["api"].pc = "init" /\ Goto("api", "idle")
    /\ IF provider \in exists THEN UNCHANGED <<exists, mark>>
       ELSE exists' = exists \cup {provider} /\ mark' = TRUE
    /\ UNCHANGED <<repo, provider, period, quotas, cache, last, journal, tasks, staleLock, bounds, excused>>

\* is_initted, which the queries ask
CheckInit ==
    /\ proc["api"].pc = "idle" /\ ~mark /\ provider \in exists
    /\ mark' = TRUE
    /\ UNCHANGED <<repo, exists, provider, period, quotas, cache, last, journal, tasks, proc,
                   staleLock, bounds, excused>>

Remove ==
    /\ Requesting
    /\ provider' = None /\ mark' = FALSE /\ period' = None /\ quotas' = Unlimited
    /\ cache' = {} /\ last' = [s \in Names |-> None]
    /\ proc' = [proc EXCEPT !["worker"].mixed = @ \/ Listed("worker")]
    /\ UNCHANGED <<repo, exists, journal, tasks, staleLock, excused>>

ApiStep ==
    \/ ApiReload \/ ApiForget \/ SetQuotas \/ SetPeriod \/ StartBackup
    \/ Initialize \/ InitRepo \/ CheckInit \/ Remove
    \/ List("api") \/ Clear("api") \/ Fill("api") \/ Filled("api")

-----------------------------------------------------------------------------
(* The worker                                                              *)

Worker == proc["worker"]
At(pc) == Worker.pc = pc
Turn(record) == proc' = [proc EXCEPT !["worker"] = record]
Service == Head(Worker.todo)

TakeBackup ==
    /\ At("idle") /\ tasks # <<>> /\ Head(tasks).op = "backup"
    /\ tasks' = Tail(tasks)
    /\ Turn([Rest EXCEPT !.pc = "start", !.todo = <<Head(tasks).service>>])
    /\ UNCHANGED <<repo, exists, store, cache, last, journal, staleLock, bounds, excused>>

TakePrune ==
    /\ At("idle") /\ tasks # <<>> /\ Head(tasks).op = "prune"
    /\ tasks' = Tail(tasks)
    /\ Turn([Rest EXCEPT !.pc = "prune", !.todo = Services])
    /\ UNCHANGED <<repo, exists, store, cache, last, journal, staleLock, bounds, excused>>

Autobackup ==
    /\ At("idle") /\ DueServices # <<>>
    /\ Turn([Rest EXCEPT !.pc = "start", !.todo = DueServices, !.auto = TRUE])
    /\ UNCHANGED <<repo, exists, store, cache, last, journal, tasks, staleLock, bounds, excused>>

PeriodicReload ==
    /\ At("idle") /\ Turn([Rest EXCEPT !.pc = "list"])
    /\ cache # Listing(provider)      \* else it changes nothing but the time it takes
    /\ UNCHANGED <<repo, exists, store, cache, last, journal, tasks, staleLock, bounds, excused>>

\* back_up finds the newest live job of the service or adds one.
RunJob ==
    /\ At("start") /\ Goto("worker", "upload")
    /\ live' = [live EXCEPT ![Service] = IF @ = <<>> THEN <<clock>> ELSE @]
    /\ running' = [running EXCEPT ![Service] = TRUE]
    /\ UNCHANGED <<repo, exists, store, cache, last, failed, tasks, staleLock, bounds, excused>>

Upload ==
    /\ At("upload") /\ Service \notin Broken /\ provider \in exists /\ Unlocked
    /\ LET x == [at |-> clock, service |-> Service, auto |-> Worker.auto]
       IN  /\ repo' = [repo EXCEPT ![provider] = @ \cup {x}]
           /\ Turn([Worker EXCEPT !.pc = "stamp", !.made = x])
    /\ UNCHANGED <<exists, store, cache, last, journal, tasks, bounds, excused>>

StoreTime ==
    /\ At("stamp")
    /\ last' = [last EXCEPT ![Service] = Worker.made.at]
    /\ Turn([Worker EXCEPT !.pc = "list", !.then = IF Worker.auto THEN "prune" ELSE "finish"])
    /\ UNCHANGED <<repo, exists, store, cache, journal, tasks, staleLock, bounds, excused>>

AllFront(q) == SubSeq(q, 1, Len(q) - 1)
Newest(q)   == q[Len(q)]

\* Any error of a backup fails its job and gives up the services after it.
JobFails ==
    /\ LET at == Newest(live[Service])
       IN  failed' = [failed EXCEPT ![Service] = IF @ # None THEN (IF @ > at THEN @ ELSE at) ELSE at]
    /\ live' = [live EXCEPT ![Service] = AllFront(@)]
    /\ running' = [running EXCEPT ![Service] = FALSE]
    /\ Turn(Rest)

Backing == Worker.made # None \/ At("upload")      \* it runs a backup, not the other tasks

UploadFails ==
    /\ At("upload")
    /\ \/ (Service \in Broken \/ provider \notin exists) /\ UNCHANGED faults
       \/ faults < MaxFaults /\ faults' = faults + 1
    /\ JobFails
    /\ UNCHANGED <<repo, exists, store, cache, last, tasks, staleLock, clock, requests, excused>>

\* _prune_auto_snaps: what it deletes it takes from the cache, right or not.
Prune ==
    /\ At("prune")
    /\ LET auto   == AutoSnaps(cache, Service)
           doomed == auto \ Kept(quotas, auto)
       IN  Turn([Worker EXCEPT !.doomed = doomed,
                               !.pc = IF doomed = {} THEN "finish" ELSE "forget"])
    /\ UNCHANGED <<repo, exists, store, cache, last, journal, tasks, staleLock, bounds, excused>>

WorkerForget ==
    /\ At("forget") /\ Forget("worker", Worker.doomed)
    /\ Turn([Worker EXCEPT !.pc = "list", !.then = "finish", !.doomed = {}])
    /\ UNCHANGED <<exists, store, cache, last, journal, tasks, bounds, excused>>

\* The prune task fails as a whole; a backup fails though its snapshot is there.
GiveUp ==
    IF Backing THEN JobFails ELSE Turn(Rest) /\ UNCHANGED journal

WorkerForgetError ==
    /\ At("forget") /\ ForgetError("worker", Worker.doomed) /\ GiveUp
    /\ excused' = TRUE
    /\ UNCHANGED <<exists, store, cache, last, tasks, bounds>>

\* The job is finished, the failed ones are removed.  Then back_up looks up the
\* snapshot in the cache, and raises if it is not there.
FinishBackup ==
    /\ At("finish") /\ Backing
    /\ live' = [live EXCEPT ![Service] = AllFront(@)]
    /\ running' = [running EXCEPT ![Service] = FALSE]
    /\ failed' = [failed EXCEPT ![Service] = None]
    /\ Turn(IF Worker.made \notin cache \/ Len(Worker.todo) = 1 THEN Rest
            ELSE [Rest EXCEPT !.pc = "start", !.todo = Tail(Worker.todo), !.auto = Worker.auto])
    /\ UNCHANGED <<repo, exists, store, cache, last, tasks, staleLock, bounds, excused>>

FinishPrune ==
    /\ At("finish") /\ ~Backing
    /\ Turn(IF Len(Worker.todo) = 1 THEN Rest
            ELSE [Rest EXCEPT !.pc = "prune", !.todo = Tail(Worker.todo)])
    /\ UNCHANGED <<repo, exists, store, cache, last, journal, tasks, staleLock, bounds, excused>>

WorkerStep ==
    \/ TakeBackup \/ TakePrune \/ Autobackup
    \/ RunJob \/ Upload \/ StoreTime \/ UploadFails
    \/ Prune \/ WorkerForget \/ WorkerForgetError \/ FinishBackup \/ FinishPrune
    \/ List("worker") \/ Clear("worker") \/ Fill("worker") \/ Filled("worker")

-----------------------------------------------------------------------------
(* Faults and time                                                         *)

\* There is no repository, or the command fails: the request or the task ends.
ListFails ==
    /\ \/ provider # None /\ provider \notin exists /\ UNCHANGED bounds
       \/ faults < MaxFaults /\ faults' = faults + 1 /\ UNCHANGED <<clock, requests>>
    /\ excused' = TRUE
    /\ \/ /\ proc["api"].pc = "list"
          /\ proc' = [proc EXCEPT !["api"] = Rest] /\ UNCHANGED journal
       \/ At("list") /\ GiveUp
    /\ UNCHANGED <<repo, exists, store, cache, last, tasks, staleLock>>

\* The worker is restarted: its task is gone, its job runs for ever.
Crash ==
    /\ ~At("idle") /\ faults < MaxFaults /\ faults' = faults + 1
    /\ excused' = (excused \/ Worker.pc \in {"stamp", "list", "clear", "fill"})
    /\ staleLock' = (staleLock \/ Worker.pc \in {"upload", "forget", "list"})
    /\ proc' = [proc EXCEPT !["worker"] = Rest, !["api"].mixed = @ \/ Listed("api")]
    /\ UNCHANGED <<repo, exists, store, cache, last, journal, tasks, clock, requests>>

\* The time is read only when services become due and when a backup is made.
Tick ==
    /\ clock < MaxClock /\ clock' = clock + 1
    /\ Worker.pc \in {"idle", "upload"} /\ proc["api"].pc = "idle"
    /\ UNCHANGED <<repo, exists, store, cache, last, journal, tasks, proc, staleLock,
                   requests, faults, excused>>

Next == ApiStep \/ WorkerStep \/ PeriodicReload \/ ListFails \/ Crash \/ Tick

\* The worker goes on with its task and takes the next, and a request goes on.  Huey
\* looks every minute whether a backup is due, and reloads the cache twice a day.
Fairness ==
    /\ WF_vars(WorkerStep)
    /\ SF_vars(Autobackup)
    /\ WF_vars(List("api") \/ Clear("api") \/ Fill("api") \/ Filled("api") \/ InitRepo)
    /\ WF_vars(proc["worker"].pc = "list" /\ ListFails)

Spec == Init /\ [][Next]_vars /\ Fairness
==============================================================================
