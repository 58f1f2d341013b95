------------------------------ MODULE Settings ------------------------------
(***************************************************************************)
(* The settings of the server: the user data and the secrets, two JSON     *)
(* files that the API and the worker write in place under a lock           *)
(* (utils/__init__.py), and the flake that names the installed modules,    *)
(* which only the API writes, with no lock (services/                      *)
(* flake_service_manager.py).  A backup of the API itself copies the files *)
(* and a restore copies them back, both without the lock                   *)
(* (services/__init__.py).                                                 *)
(*                                                                         *)
(* A request of the API runs up to its next await before any other does,   *)
(* but the worker writes whenever the lock is free.  A write is: lock and  *)
(* load, dump, truncate and unlock.                                        *)
(***************************************************************************)
EXTENDS Naturals, Sequences, FiniteSets

CONSTANTS
    Services, Movable, Suggested,        \* the modules there are
    Volumes, Root, KernelName,           \* KernelName[v] is what the kernel calls volume v
    Subdomains, ReservedSubdomains, DefaultSubdomain,
    Owners, Keys, Timezones, Switch, Channels, Providers, Mountable,  \* what may be asked for
    None,
    Moves,          \* the moves of services that end in this instance
    Start, Old,     \* the user data and their provider now, and in an old snapshot
    MaxRequests, MaxTasks, MaxDemands,   \* bounds: MaxDemands is on both together
    MaxCrashes, MaxCoincidences

Files == {"userdata", "secrets"}

\* The user data: what they say of a service is below its module.
Plain(d) ==
    /\ DOMAIN d = {"modules", "enabled", "location", "subdomain", "keys", "timezone", "ssh",
                   "upgrade", "reboot", "volumes", "provider"}
    /\ d.modules \subseteq Services /\ d.enabled \subseteq d.modules
    /\ d.location \in [Services -> Volumes \cup {None}]
    /\ d.subdomain \in [Services -> Subdomains \cup {None}]
    /\ \A s \in Services : d.subdomain[s] # None => s \in d.modules
    /\ d.volumes \subseteq Volumes

\* No two services are given one name.
Distinct(d) ==
    \A s, t \in Services : s # t /\ d.subdomain[s] # None => d.subdomain[s] # d.subdomain[t]

ASSUME SettingsAssumption ==
    /\ Movable \subseteq Services /\ Suggested \subseteq Services
    /\ Root \in Volumes /\ KernelName \in [Volumes -> Volumes]
    /\ Moves \subseteq Services \X Volumes
    /\ ReservedSubdomains \subseteq Subdomains /\ Mountable \subseteq Volumes
    /\ Switch \subseteq BOOLEAN
    /\ DefaultSubdomain \in [Services -> Subdomains \cup {None}]
    /\ None \notin Files \cup Volumes \cup Subdomains \cup Channels
    /\ MaxRequests \in Nat /\ MaxTasks \in Nat /\ MaxDemands \in Nat
    /\ MaxCrashes \in Nat /\ MaxCoincidences \in Nat

\* The files are sound where the model begins, and were in the old snapshot.
ASSUME FilesAssumption ==
    \A f \in {Start, Old} :
        /\ Plain(f["userdata"]) /\ Distinct(f["userdata"])
        /\ f["userdata"].provider = f["secrets"]

VARIABLES
    file,        \* the content of each file when last whole, and whether it is
    writer,      \* the write each process is in: it holds the lock of the file
    todo,        \* the writes it has yet to do before anything else of its thread runs
    cache,       \* the user data it read last, None when their file has another stamp
    req,         \* the requests so far
    flake,       \* the channel of the system and of each module, and whether it is whole
    defined,     \* the services of the system that was built last
    snapshot,    \* the files in the snapshot of the settings
    worker,      \* where the worker is
    tasks, crashes, coincidences,
    coincided,   \* history: a write of another left the cache's stamp as it was
    raced,       \* history: the API wrote while the worker copied without the lock
    overlapped   \* history: two requests edited the flake at the same time

files   == <<file, writer, todo, cache, coincidences, coincided>>
history == <<raced, overlapped>>
vars    == <<files, req, flake, defined, snapshot, worker, tasks, crashes, history>>

Procs == {"api", "worker"}
Copied == <<"userdata", "secrets">>      \* in the order of the copies

Other(p) == CHOOSE q \in Procs : q # p
NoWriter == [file |-> None, data |-> None, dumped |-> FALSE, mixed |-> FALSE]
Rest     == [pc |-> "idle", n |-> 1, was |-> [s \in {} |-> None],
             drives |-> [s \in {} |-> None], left |-> {}]

Installed(s)  == flake.modules[s] # None
Copying(w)    == w.pc \in {"truncate", "fill", "stash"}

Init ==
    /\ file = [f \in Files |-> [data |-> Start[f], whole |-> TRUE]]
    /\ writer = [p \in Procs |-> NoWriter] /\ todo = [p \in Procs |-> <<>>]
    /\ cache = [p \in Procs |-> None]
    /\ req = <<>>
    /\ \E c \in Channels :
         flake = [channel |-> c, whole |-> TRUE,
                  modules |-> [s \in Services |-> IF s \in Start["userdata"].modules
                                                  THEN c ELSE None]]
    /\ defined = {s \in Services : Installed(s)}
    /\ snapshot = [f \in Files |-> [data |-> Old[f], whole |-> TRUE]]
    /\ worker = Rest
    /\ tasks = 0 /\ crashes = 0 /\ coincidences = 0
    /\ coincided = [p \in Procs |-> FALSE] /\ raced = FALSE /\ overlapped = FALSE

-----------------------------------------------------------------------------
(* What a write does to the data                                           *)

SetEnable(d, s, on) ==
    [d EXCEPT !.modules = @ \cup {s}, !.enabled = IF on THEN @ \cup {s} ELSE @ \ {s}]

\* Enabling a module gives it a place unless it has one.
DefaultLocation(d, s) ==
    [d EXCEPT !.modules = @ \cup {s}, !.location[s] = IF @ = None THEN Root ELSE @]

SetLocation(d, s, v)  == [d EXCEPT !.modules = @ \cup {s}, !.location[s] = KernelName[v]]
SetSubdomain(d, s, x) == [d EXCEPT !.modules = @ \cup {s}, !.subdomain[s] = x]

AddKey(d, u, key)       == [d EXCEPT !.keys[u] = @ \cup {key}]
RemoveKey(d, u, key)    == [d EXCEPT !.keys[u] = @ \ {key}]
SetTimezone(d, zone)    == [d EXCEPT !.timezone = zone]
SetSsh(d, on)           == [d EXCEPT !.ssh = on]
SetAutoUpgrade(d, on, reboot) ==        \* what is not given stays
    [d EXCEPT !.upgrade = IF on = None THEN @ ELSE on,
              !.reboot  = IF reboot = None THEN @ ELSE reboot]

\* A volume that is there, or is not, makes no difference to the file.
Mount(d, v)   == [d EXCEPT !.volumes = @ \cup {v}]
Unmount(d, v) == [d EXCEPT !.volumes = @ \ {v}]

Apply(w, d) ==
    CASE w.op = "enable"      -> SetEnable(d, w.service, TRUE)
      [] w.op = "disable"     -> SetEnable(d, w.service, FALSE)
      [] w.op = "place"       -> DefaultLocation(d, w.service)
      [] w.op = "location"    -> SetLocation(d, w.service, w.volume)
      [] w.op = "configure"   -> SetSubdomain(d, w.service, w.subdomain)
      [] w.op = "add key"     -> AddKey(d, w.owner, w.key)
      [] w.op = "remove key"  -> RemoveKey(d, w.owner, w.key)
      [] w.op = "timezone"    -> SetTimezone(d, w.zone)
      [] w.op = "ssh"         -> SetSsh(d, w.on)
      [] w.op = "upgrade"     -> SetAutoUpgrade(d, w.on, w.reboot)
      [] w.op = "mount"       -> Mount(d, w.volume)
      [] w.op = "unmount"     -> Unmount(d, w.volume)
      [] w.op = "provider"    -> [d EXCEPT !.provider = w.provider]
      [] w.op = "token"       -> w.provider

KeysOf(d, u) == IF u \in DOMAIN d.keys THEN d.keys[u] ELSE {}

\* What raises inside the block leaves the file as it was: a key that is there, or
\* is not, and a user that is not.
Raises(w, d) ==
    /\ w.op \in {"add key", "remove key"}
    /\ \/ w.owner \notin DOMAIN d.keys
       \/ (w.key \in KeysOf(d, w.owner)) = (w.op = "add key")

FileOf(w) == IF w.op = "token" THEN "secrets" ELSE "userdata"

\* Variant: a new DNS provider keeps the old token.
BlocksOfUserData(what) ==
    IF what.op = "dns" THEN <<[op |-> "provider", provider |-> what.provider]>> ELSE <<what>>

\* The blocks that a request runs without an await in between.
Blocks(what) ==
    CASE what.op = "enable" /\ what.service \in Movable ->
           <<[op |-> "place", service |-> what.service], what>>
      [] what.op = "dns" -> <<[op |-> "provider", provider |-> what.provider],
                              [op |-> "token", provider |-> what.provider]>>
      [] OTHER -> <<what>>

-----------------------------------------------------------------------------
(* Locks, caches and reading                                               *)

Locked(f, p) == writer[Other(p)].file = f

\* A cached reading needs no lock: the stamp of the file is that of the entry.
Hit(p)      == cache[p] # None /\ file["userdata"].whole
CanRead(p)  == Hit(p) \/ ~Locked("userdata", p)
Garbled(p)  == ~Hit(p) /\ ~file["userdata"].whole
Reading(p)  == IF Hit(p) THEN cache[p] ELSE file["userdata"].data
Remember(p) == /\ cache' = [cache EXCEPT ![p] = Reading(p)]
               /\ UNCHANGED <<file, writer, todo, coincidences, coincided>>

\* The file has a new stamp.  It is the old one when both writes fall into one
\* tick of the clock and leave as many bytes.
Restamp(f, forgets) ==
    IF f # "userdata" THEN UNCHANGED <<cache, coincidences, coincided>>
    ELSE \E kept \in SUBSET {p \in Procs \ forgets : cache[p] # None} :
           /\ Cardinality(kept) + coincidences <= MaxCoincidences
           /\ coincidences' = coincidences + Cardinality(kept)
           /\ coincided' = [p \in Procs |-> p \in kept]
           /\ cache' = [p \in Procs |-> IF p \in kept THEN cache[p] ELSE None]


-----------------------------------------------------------------------------
(* A write                                                                 *)

Saving == {i \in DOMAIN req : req[i].pc = "save"}      \* at most one

\* The thread is through with its blocks.
Ends(p, pc) ==
    /\ todo' = [todo EXCEPT ![p] = <<>>]
    /\ IF p = "api"
       THEN /\ req' = [i \in DOMAIN req |-> IF i \in Saving THEN [req[i] EXCEPT !.pc = pc]
                                           ELSE req[i]]
            /\ UNCHANGED worker
       ELSE /\ worker' = IF pc = "done" THEN [worker EXCEPT !.pc = "relocate"] ELSE Rest
            /\ UNCHANGED req

Block(p)   == Head(todo[p])
Unlock(p)  == writer' = [writer EXCEPT ![p] = NoWriter]

\* Variant: the file is loaded before the lock is waited for.
BeginUnlocked(p) ==
    /\ todo[p] # <<>> /\ writer[p] = NoWriter
    /\ file[FileOf(Block(p))].whole
    /\ writer' = [writer EXCEPT ![p] = [NoWriter EXCEPT !.file = FileOf(Block(p)),
                                        !.data = file[FileOf(Block(p))].data]]
    /\ UNCHANGED <<file, todo, cache, coincidences, coincided, req, worker>>

Begin(p) ==
    /\ todo[p] # <<>> /\ writer[p] = NoWriter
    /\ LET f == FileOf(Block(p)) IN
         /\ ~Locked(f, p)
         /\ \/ /\ file[f].whole
               /\ writer' = [writer EXCEPT ![p] = [NoWriter EXCEPT !.file = f,
                                                   !.data = file[f].data]]
               /\ UNCHANGED <<todo, req, worker>>
            \/ ~file[f].whole /\ Ends(p, "failed") /\ UNCHANGED writer
    /\ UNCHANGED <<file, cache, coincidences, coincided>>

Refuse(p) ==
    /\ writer[p].file # None /\ ~writer[p].dumped
    /\ Raises(Block(p), writer[p].data)
    /\ Unlock(p) /\ Ends(p, "failed")
    /\ cache' = [cache EXCEPT ![p] = None] /\ coincided' = [coincided EXCEPT ![p] = FALSE]
    /\ UNCHANGED <<file, coincidences>>

Dump(p) ==
    /\ writer[p].file # None /\ ~writer[p].dumped
    /\ ~Raises(Block(p), writer[p].data)
    /\ file' = [file EXCEPT ![writer[p].file].whole = FALSE]
    /\ writer' = [writer EXCEPT ![p].dumped = TRUE]
    /\ UNCHANGED <<todo, cache, coincidences, coincided, req, worker>>

\* Variant: the rest of a longer content is not cut off.
FinishUncut(p) ==
    /\ writer[p].dumped
    /\ \E whole \in BOOLEAN :
         file' = [file EXCEPT ![writer[p].file] =
                    [data |-> Apply(Block(p), writer[p].data), whole |-> whole]]
    /\ Unlock(p)
    /\ Restamp(writer[p].file, {p})
    /\ IF Len(todo[p]) = 1 THEN Ends(p, "done")
       ELSE todo' = [todo EXCEPT ![p] = Tail(@)] /\ UNCHANGED <<req, worker>>

\* A file that was copied over in the middle of the dump may be a mixture.
Finish(p) ==
    /\ writer[p].dumped
    /\ \E whole \in IF writer[p].mixed THEN BOOLEAN ELSE {TRUE} :
         file' = [file EXCEPT ![writer[p].file] =
                    [data |-> Apply(Block(p), writer[p].data), whole |-> whole]]
    /\ Unlock(p)
    /\ Restamp(writer[p].file, {p})
    /\ IF Len(todo[p]) = 1 THEN Ends(p, "done")
       ELSE todo' = [todo EXCEPT ![p] = Tail(@)] /\ UNCHANGED <<req, worker>>

Write(p) ==
    /\ Begin(p) \/ Refuse(p) \/ Dump(p) \/ Finish(p)
    /\ UNCHANGED <<flake, defined, snapshot, tasks, crashes>>

-----------------------------------------------------------------------------
(* The API                                                                 *)

IdleLoop == todo["api"] = <<>>

Effective(d, s)    == IF d.subdomain[s] = None THEN DefaultSubdomain[s] ELSE d.subdomain[s]
SubdomainTaken(d, x) ==
    x \in ReservedSubdomains \/ \E s \in d.modules : Effective(d, s) = x

Valid(what) ==
    what.op = "configure" => ~Garbled("api") /\ ~SubdomainTaken(Reading("api"), what.subdomain)

Known(what) ==
    what.op \in {"enable", "disable", "configure"} => what.service \in defined \cup Suggested

\* What the request does first: evaluate the flake, or run its blocks.
FirstStep(what) ==
    IF ~Known(what) \/ ~Valid(what) THEN "failed"
    ELSE IF what.op = "enable" THEN "look"
    ELSE IF what.op = "channel" THEN "edit" ELSE "save"

Ask(what) ==
    /\ IdleLoop
    /\ Len(req) < MaxRequests /\ Len(req) + tasks < MaxDemands
    /\ req' = Append(req, [what |-> what, pc |-> FirstStep(what),
                           channel |-> None, modules |-> None])
    /\ todo' = [todo EXCEPT !["api"] = IF FirstStep(what) = "save" THEN Blocks(what) ELSE <<>>]
    /\ IF what.op = "configure" /\ Known(what)
       THEN /\ CanRead("api")
            /\ cache' = [cache EXCEPT !["api"] = IF Garbled("api") THEN @ ELSE Reading("api")]
       ELSE UNCHANGED cache
    /\ UNCHANGED <<file, writer, coincidences, coincided, flake, defined, snapshot, worker,
                   tasks, crashes>>

EnableService(s)      == Ask([op |-> "enable", service |-> s])
DisableService(s)     == Ask([op |-> "disable", service |-> s])
SetServiceConfiguration(s, x) == Ask([op |-> "configure", service |-> s, subdomain |-> x])
ChangeTimezone(z)     == Ask([op |-> "timezone", zone |-> z])
ChangeSshSettings(on) == Ask([op |-> "ssh", on |-> on])
ChangeAutoUpgradeSettings(on, reboot) == Ask([op |-> "upgrade", on |-> on, reboot |-> reboot])
AddSshKey(u, k)       == Ask([op |-> "add key", owner |-> u, key |-> k])
RemoveSshKey(u, k)    == Ask([op |-> "remove key", owner |-> u, key |-> k])
MountVolume(v)        == Ask([op |-> "mount", volume |-> v])
UnmountVolume(v)      == Ask([op |-> "unmount", volume |-> v])
SetDnsProvider(p)     == Ask([op |-> "dns", provider |-> p])
SetUpdateChannel(c)   == Ask([op |-> "channel", channel |-> c])

Request ==
    \/ \E s \in Services : \/ EnableService(s) \/ DisableService(s)
                          \/ \E x \in Subdomains : SetServiceConfiguration(s, x)
    \/ \E z \in Timezones : ChangeTimezone(z)
    \/ \E on \in Switch : ChangeSshSettings(on) \/ ChangeAutoUpgradeSettings(None, on)
    \/ \E u \in Owners, k \in Keys : AddSshKey(u, k) \/ RemoveSshKey(u, k)
    \/ \E v \in Mountable : MountVolume(v) \/ UnmountVolume(v)
    \/ \E p \in Providers : SetDnsProvider(p)
    \/ \E c \in Channels : SetUpdateChannel(c)

GoTo(i, pc) == req' = [req EXCEPT ![i].pc = pc]
Service(i)  == req[i].what.service

Otherwise == UNCHANGED <<file, writer, cache, coincidences, coincided, defined, snapshot,
                         worker, tasks, crashes>>

\* is_installed, and the list of suggested modules.
Look(i) ==
    /\ IdleLoop /\ req[i].pc = "look"
    /\ IF flake.whole /\ Installed(Service(i))
       THEN GoTo(i, "save") /\ todo' = [todo EXCEPT !["api"] = Blocks(req[i].what)]
       ELSE /\ GoTo(i, IF flake.whole /\ Service(i) \in Suggested THEN "edit" ELSE "failed")
            /\ UNCHANGED todo
    /\ UNCHANGED flake /\ Otherwise

\* The flake as it is read, with one module more, from the channel of the system.
WithModule(s) == [channel |-> flake.channel,
                  modules |-> [flake.modules EXCEPT ![s] = flake.channel]]

ComesFromChannel(s) == flake.modules[s] = flake.channel

\* The flake as it is read, with the system and its modules from another channel.
WithChannel(c) == [channel |-> c,
                   modules |-> [s \in Services |-> IF ComesFromChannel(s) THEN c
                                                   ELSE flake.modules[s]]]

Edited(i) == IF req[i].what.op = "enable" THEN WithModule(Service(i))
             ELSE WithChannel(req[i].what.channel)

\* The request is through with the flake.
Through(i) ==
    IF req[i].what.op = "enable"
    THEN GoTo(i, "save") /\ todo' = [todo EXCEPT !["api"] = Blocks(req[i].what)]
    ELSE GoTo(i, "done") /\ UNCHANGED todo

\* Entering FlakeServiceManager, and its body; a flake that stays as it is is
\* not written.
Edit(i) ==
    /\ IdleLoop /\ req[i].pc = "edit"
    /\ \/ ~flake.whole /\ GoTo(i, "failed") /\ UNCHANGED todo
       \/ /\ flake.whole
          /\ Edited(i) = [channel |-> flake.channel, modules |-> flake.modules]
          /\ Through(i)
       \/ /\ flake.whole
          /\ Edited(i) # [channel |-> flake.channel, modules |-> flake.modules]
          /\ req' = [req EXCEPT ![i].pc = "format", ![i].channel = Edited(i).channel,
                                ![i].modules = Edited(i).modules]
          /\ UNCHANGED todo
    /\ UNCHANGED flake /\ Otherwise

\* Opening the file for writing empties it.
Empty(i) ==
    /\ IdleLoop /\ req[i].pc = "format"
    /\ GoTo(i, "put")
    /\ flake' = [flake EXCEPT !.whole = FALSE]
    /\ UNCHANGED todo /\ Otherwise

\* What another request has put there since may stick out at the end.
Put(i) ==
    /\ IdleLoop /\ req[i].pc = "put"
    /\ \E whole \in IF flake.whole THEN BOOLEAN ELSE {TRUE} :
         flake' = [channel |-> req[i].channel, modules |-> req[i].modules, whole |-> whole]
    /\ Through(i) /\ Otherwise

-----------------------------------------------------------------------------
(* The worker                                                              *)

Kept == UNCHANGED <<req, flake, defined, crashes>>
Step(pc) == worker' = [worker EXCEPT !.pc = pc]

Take(pc) ==
    /\ worker.pc = "idle" /\ todo["worker"] = <<>>
    /\ tasks < MaxTasks /\ Len(req) + tasks < MaxDemands /\ tasks' = tasks + 1
    /\ Step(pc)
    /\ UNCHANGED <<files, snapshot>> /\ Kept

\* The end of a move of a service.
MoveEnds(s, v) ==
    /\ worker.pc = "idle" /\ todo["worker"] = <<>>
    /\ tasks < MaxTasks /\ Len(req) + tasks < MaxDemands /\ tasks' = tasks + 1
    /\ Step("save")
    /\ todo' = [todo EXCEPT !["worker"] = <<[op |-> "location", service |-> s, volume |-> v]>>]
    /\ UNCHANGED <<file, writer, cache, coincidences, coincided, snapshot>> /\ Kept

\* stash_a_path for each file, then the backup of the copies.
Stash ==
    /\ worker.pc = "stash"
    /\ LET f == Copied[worker.n] IN snapshot' = [snapshot EXCEPT ![f] = file[f]]
    /\ worker' = IF worker.n = Len(Copied) THEN Rest ELSE [worker EXCEPT !.n = @ + 1]
    /\ UNCHANGED <<files, tasks>> /\ Kept

GetDrive(d, s) == IF s \in Movable /\ d.location[s] # None THEN d.location[s] ELSE Root

\* Variant: only services that the copied settings enable go back.
EnabledServices == defined \cap Movable \cap file["userdata"].data.enabled

\* get_services without the remote ones, those that can move.
MovableServices == defined \cap Movable

\* merge_settings: remember where the services are ...
Locate ==
    /\ worker.pc = "locate"
    /\ CanRead("worker")
    /\ IF Garbled("worker")
       THEN worker' = Rest /\ UNCHANGED files
       ELSE /\ worker' = [worker EXCEPT !.pc = "truncate",
                 !.was    = [s \in MovableServices |-> GetDrive(Reading("worker"), s)],
                 !.drives = [s \in MovableServices |-> GetDrive(file["userdata"].data, s)]]
            /\ Remember("worker")
    /\ UNCHANGED <<snapshot, tasks>> /\ Kept

Mixed(f) == writer' = [p \in Procs |-> [writer[p] EXCEPT !.mixed = @ \/ (writer[p].file = f
                                                                    /\ writer[p].dumped)]]

\* ... copy the files over those in use, whoever holds the lock ...
Truncate ==
    /\ worker.pc = "truncate"
    /\ LET f == Copied[worker.n] IN file' = [file EXCEPT ![f].whole = FALSE] /\ Mixed(f)
    /\ Step("fill")
    /\ UNCHANGED <<todo, cache, coincidences, coincided, snapshot, tasks>> /\ Kept

\* (a write of the API that ended since may stick out at the end)
Fill ==
    /\ worker.pc = "fill"
    /\ LET f == Copied[worker.n]
           dumping == writer["api"].file = f /\ writer["api"].dumped
           wholes == IF dumping \/ ~snapshot[f].whole THEN {FALSE}
                     ELSE IF file[f].whole THEN BOOLEAN ELSE {TRUE}
       IN /\ \E whole \in wholes :
               file' = [file EXCEPT ![f] = [data |-> snapshot[f].data, whole |-> whole]]
          /\ Mixed(f)
          /\ Restamp(f, {})
    /\ worker' = IF worker.n < Len(Copied)
                 THEN [worker EXCEPT !.pc = "truncate", !.n = @ + 1]
                 ELSE [worker EXCEPT !.pc = "relocate", !.left = MovableServices]
    /\ UNCHANGED <<todo, snapshot, tasks>> /\ Kept

\* ... and put the services where they were: a service that came meanwhile has
\* no place to go back to, a volume is looked up by its name in the user data.
Relocate(s) ==
    /\ worker.pc = "relocate" /\ s \in worker.left
    /\ LET left == worker.left \ {s} IN
         IF s \notin DOMAIN worker.was
         THEN worker' = Rest /\ UNCHANGED todo
         ELSE IF worker.was[s] \notin Volumes
         THEN worker' = [worker EXCEPT !.left = left] /\ UNCHANGED todo
         ELSE /\ worker' = [worker EXCEPT !.pc = "save", !.left = left]
              /\ todo' = [todo EXCEPT !["worker"] =
                            <<[op |-> "location", service |-> s, volume |-> worker.was[s]]>>]
    /\ UNCHANGED <<file, writer, cache, coincidences, coincided, snapshot, tasks>> /\ Kept

TaskEnds ==
    /\ worker.pc = "relocate" /\ worker.left = {}
    /\ worker' = Rest
    /\ UNCHANGED <<files, snapshot, tasks>> /\ Kept

-----------------------------------------------------------------------------
(* The environment                                                         *)

\* A rebuild installs the definitions of the modules of the flake.
Rebuild ==
    /\ flake.whole /\ defined' = {s \in Services : Installed(s)} /\ defined' # defined
    /\ UNCHANGED <<files, req, flake, snapshot, worker, tasks, crashes>>

\* A process dies and starts again: its lock goes, its file stays as it is.
Crash(p) ==
    /\ crashes < MaxCrashes /\ crashes' = crashes + 1
    /\ writer' = [writer EXCEPT ![p] = NoWriter]
    /\ todo' = [todo EXCEPT ![p] = <<>>]
    /\ cache' = [cache EXCEPT ![p] = None] /\ coincided' = [coincided EXCEPT ![p] = FALSE]
    /\ IF p = "api"
       THEN /\ req' = [i \in DOMAIN req |-> IF req[i].pc \in {"done", "failed"} THEN req[i]
                                           ELSE [req[i] EXCEPT !.pc = "lost"]]
            /\ UNCHANGED worker
       ELSE worker' = Rest /\ UNCHANGED req
    /\ UNCHANGED <<file, coincidences, flake, defined, snapshot, tasks>>

Flaking(r) == {i \in DOMAIN r : r[i].pc \in {"format", "put"}}

Next ==
    /\ \/ \E p \in Procs : Write(p) \/ Crash(p)
       \/ Request
       \/ \E i \in DOMAIN req : Look(i) \/ Edit(i) \/ Empty(i) \/ Put(i)
       \/ Take("stash") \/ Take("locate") \/ \E m \in Moves : MoveEnds(m[1], m[2])
       \/ Stash \/ Locate \/ Truncate \/ Fill \/ TaskEnds
       \/ \E s \in Services : Relocate(s)
       \/ Rebuild
    /\ raced' = (raced \/ (todo'["api"] # <<>> /\ Copying(worker')))
    /\ overlapped' = (overlapped \/ Cardinality(Flaking(req')) > 1)

Spec == Init /\ [][Next]_vars
=============================================================================
