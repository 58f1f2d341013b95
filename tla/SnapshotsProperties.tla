------------------------- MODULE SnapshotsProperties -------------------------
(* What the cache, the quotas and the schedule of Snapshots.tla keep to.     *)
EXTENDS Snapshots, FiniteSetsExt

Updating(p) == proc[p].pc \in {"stamp", "list", "clear", "fill"}

\* When nobody is updating the cache, it lists what the repository has, unless two
\* processes reloaded it at once, a command of restic failed, the worker was restarted
\* in the middle, or the provider was changed (force_snapshot_cache_reload,
\* backup/__init__.py:641-653).
CacheMatchesRepository ==
    (\A p \in Procs : ~Updating(p)) => excused \/ cache = Listing(provider)

Tasks == [op : {"prune"}] \cup [op : {"backup"}, service : Names]

Processes ==
    [pc : {"idle", "list", "clear", "fill", "init", "start", "upload", "stamp", "prune",
           "forget", "finish"},
     seen : SUBSET Snaps, left : SUBSET Snaps, mixed : BOOLEAN,
     then : {"idle", "prune", "finish"}, todo : Seq(Names), auto : BOOLEAN,
     made : Snaps \cup {None}, doomed : SUBSET Snaps]

TypeOK ==
    /\ repo \in [Repos -> SUBSET Snaps] /\ exists \subseteq Repos
    /\ provider \in Repos \cup {None} /\ mark \in BOOLEAN
    /\ cache \subseteq Snaps
    /\ last \in [Names -> Times \cup {None}] /\ failed \in [Names -> Times \cup {None}]
    /\ period \in Periods \cup {None}
    /\ quotas \in [Buckets -> Int] /\ \A b \in Buckets : quotas[b] >= -1
    /\ live \in [Names -> Seq(Times)] /\ running \in [Names -> BOOLEAN]
    /\ tasks \in Seq(Tasks) /\ proc \in [Procs -> Processes]
    /\ staleLock \in BOOLEAN /\ clock \in Times
    /\ requests \in Nat /\ faults \in Nat /\ excused \in BOOLEAN

Reloading(p) == proc[p].pc \in {"list", "clear", "fill"}

\* The API reloads for itself alone; the worker has a service to go on with but when it
\* reloads for itself, and a job that runs while it backs that service up.
TurnsInv ==
    /\ proc["api"].pc \in {"idle", "list", "clear", "fill", "init"} /\ proc["api"].then = "idle"
    /\ ~At("init")
    /\ ~At("idle") /\ (Reloading("worker") => Worker.then # "idle") => Worker.todo # <<>>
    /\ At("stamp") => Worker.made \in Snaps
    /\ Backing => Worker.todo # <<>> /\ running[Service]

\* What a reload has yet to store.
Unstored(p) == IF proc[p].pc = "fill" THEN proc[p].left ELSE {}

\* A reload that no other list mixed with stores that list: what is cached is of the
\* list, and what is not is still to come, from this reload or from one like it.
ReloadInv ==
    \A p \in Procs :
        /\ proc[p].left \subseteq proc[p].seen
        /\ proc[p].pc = "clear" => proc[p].left = proc[p].seen
        /\ proc[p].pc = "fill" /\ ~proc[p].mixed =>
             /\ cache \subseteq proc[p].seen
             /\ proc[p].seen \subseteq cache \cup proc[p].left \cup Unstored(Other(p))

\* The invariant: the types; whose turn it is; a job that runs is a live one; without a
\* provider there is no initialised repository (backup/storage.py:50-198); a reload
\* stores only what it listed, and all of it; and the cache lists what the repository
\* has.
SnapshotsInv ==
    /\ TypeOK /\ TurnsInv
    /\ \A s \in Names : running[s] => live[s] # <<>>
    /\ provider = None => ~mark /\ proc["api"].pc # "init"
    /\ ReloadInv
    /\ CacheMatchesRepository

-----------------------------------------------------------------------------
\* The snapshots that are the newest of their period, in one timeframe.
FirstOfPeriod(b, snaps) ==
    IF b = "last" THEN snaps
    ELSE {x \in snaps : \A y \in Newer(x, snaps) : Calendar[b][y.at] # Calendar[b][x.at]}

\* A period has no gaps: what lies between two times of it belongs to it.  So it is with
\* days, months and years; the number of a week is the year with the ISO week of the date
\* (backup/__init__.py:344), and 30 December 2024 has that of the first week of 2024.
NoGaps(b) ==
    b = "last" \/ \A t, u, v \in Times :
        t <= u /\ u <= v /\ Calendar[b][t] = Calendar[b][v] => Calendar[b][u] = Calendar[b][t]

\* What the quotas promise of a set of automatic snapshots of one service: those of
\* the newest periods, as many as the quota says.
PromisedBy(b, limit, snaps) ==
    LET first == FirstOfPeriod(b, snaps)
    IN  {x \in first : limit = -1 \/ Cardinality(Newer(x, first)) < limit}

Promised(q, snaps) == UNION {PromisedBy(b, q[b], snaps) : b \in {c \in Buckets : NoGaps(c)}}

Pruning == At("prune") /\ Worker'.pc \in {"finish", "forget"}
Has     == AutoSnaps(Listing(provider), Service)
Read    == AutoSnaps(cache, Service)

\* Pruning takes none of what the quotas promise of the snapshots that exist, where the
\* periods have no gaps, even while the cache is being reloaded and shows a part of them,
\* unless it shows some that are gone; and when it shows them all, no more stay than the
\* quotas allow (_prune_auto_snaps, backup/__init__.py:324-384).
PruneFollowsQuotas ==
    [][Pruning /\ Read \subseteq Has =>
         /\ Worker'.doomed \cap Promised(quotas, Has) = {}
         /\ Read = Has /\ (\A b \in Buckets : quotas[b] # -1) =>
              Cardinality(Has \ Worker'.doomed) <= MapThenSumSet(LAMBDA b : quotas[b], Buckets)]_vars

\* A service whose backups succeed is backed up when it is due, though another one
\* fails every time (do_autobackup and back_up_multiple, backup/tasks.py:111-166;
\* is_time_to_backup_service, backup/__init__.py:742-775).
OthersAreServed ==
    \A s \in Names \ Broken : Due(s) ~> ~Due(s)

-----------------------------------------------------------------------------
\* What set_autobackup_quotas says of the quotas: "Values <=0 for any timeframe mean no
\* limits for that timeframe" (graphql/mutations/backup_mutations.py:159).
AsDocumented(q) == [b \in Buckets |-> IF q[b] <= 0 THEN -1 ELSE q[b]]

ZeroMeansNoLimit ==
    [][Pruning => Worker'.doomed \cap Promised(AsDocumented(quotas), Read) = {}]_vars
==============================================================================
