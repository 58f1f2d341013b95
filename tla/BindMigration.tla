---------------------------- MODULE BindMigration ----------------------------
(***************************************************************************)
(* The migration of the data of five services from the system disk to bind *)
(* mounts of the volumes the user chose (jobs/migrate_to_binds.py).        *)
(*                                                                         *)
(* The request is refused once the user data say useBinds.  The task says  *)
(* so first and moves the folders after, one service at a time: it asks    *)
(* systemd to stop the units, does not wait for it, moves, mounts, starts. *)
(* No error is caught but those of the last steps of a folder, so that     *)
(* others end the task with its job RUNNING.                               *)
(***************************************************************************)
EXTENDS Naturals, Sequences

CONSTANTS
    Volumes,                 \* the volumes there may be, by their canonical names
    None,
    Configs,                 \* the volumes that a request may name
    Catalogues, Attachments, \* sets of installed services, of mounted volumes, at the start
    Leftovers,               \* the directories there may be on volumes at the start
    Missing,                 \* the folders there may be no data of
    Events, MaxRequests, MaxEvents    \* bounds

Services == {"nextcloud", "bitwarden", "gitea", "email", "pleroma"}
Root     == "sda1"
Checked  == {"sda1", "sdb"}  \* the volumes on which an old directory is looked for

Do(op, x) == [op |-> op, on |-> x]

\* What the task does, in its order.
Plan ==
    <<Do("stop", "nextcloud"), Do("move", "nextcloud"), Do("start", "nextcloud"),
      Do("stop", "bitwarden"), Do("move", "bitwarden"), Do("move", "bitwarden_rs"),
      Do("start", "bitwarden"),
      Do("stop", "gitea"), Do("move", "gitea"), Do("start", "gitea"),
      Do("stop", "email"), Do("move", "vmail"), Do("move", "sieve"), Do("start", "email"),
      Do("stop", "pleroma"), Do("move", "pleroma"), Do("move", "postgresql"),
      Do("start", "pleroma")>>

Folders   == {"nextcloud", "bitwarden", "bitwarden_rs", "gitea", "vmail", "sieve",
              "pleroma", "postgresql"}
OwnerOf   == [f \in Folders |-> CASE f = "bitwarden_rs"       -> "bitwarden"
                                  [] f \in {"vmail", "sieve"} -> "email"
                                  [] f = "postgresql"         -> "pleroma"
                                  [] OTHER                    -> f]
AllEvents == {"raise", "copy", "mkdir", "mount", "user", "detach", "crash"}

ASSUME BindsAssumption ==
    /\ Checked \subseteq Volumes /\ None \notin Volumes
    /\ Configs \subseteq [Services -> Volumes]
    /\ \A c \in Catalogues : c \subseteq Services /\ "email" \in c
    /\ \A a \in Attachments : Root \in a /\ a \subseteq Volumes
    /\ \A l \in Leftovers : l \subseteq Folders \X Volumes
    /\ \A m \in Missing : m \subseteq Folders
    /\ Events \subseteq AllEvents /\ MaxRequests \in Nat /\ MaxEvents \in Nat

VARIABLES
    jobs, taken,          \* the jobs in the order of their tasks; how many were taken
    phase, n,             \* what the worker does, at which step of the plan
    migrated, location,   \* in the user data: useBinds, the location of each service
    installed,
    attached, listed,     \* the mounted volumes; those in the worker's BlockDevices
    data,                 \* the directory of each folder where its service expects it
    dir,                  \* on each volume, and in the mountpoint of an absent one
    mounted,              \* the volume from which each folder is mounted
    unit,
    events,
    had, torn, skewed, broken, halted
       \* history: folders with data; written to while they were copied; not moved and
       \* mounted as they should; jobs whose task died; services others stopped

work  == <<jobs, taken, phase, n>>
said  == <<migrated, location>>
disks == <<attached, listed, data, dir, mounted>>
past  == <<had, torn, skewed, broken, halted>>
vars  == <<work, said, installed, disks, unit, events, past>>

Init ==
    /\ jobs = <<>> /\ taken = 0 /\ phase = "idle" /\ n = 1
    /\ migrated = FALSE /\ location = [s \in Services |-> None]
    /\ installed \in Catalogues
    /\ attached \in Attachments /\ listed = None
    /\ \E m \in Missing :
         /\ data = [f \in Folders |-> IF f \in m THEN "none" ELSE "whole"]
         /\ had = Folders \ m
    /\ \E l \in Leftovers :
         /\ dir = [f \in Folders |-> [p \in Volumes \cup {"under"} |->
                                        IF <<f, p>> \in l THEN "old" ELSE "none"]]
         /\ skewed = {x[1] : x \in l}
    /\ mounted = [f \in Folders |-> None]
    /\ unit = [s \in Services |-> "on"]
    /\ events = 0 /\ torn = {} /\ broken = {} /\ halted = {}

-----------------------------------------------------------------------------
Event(e) == e \in Events /\ events < MaxEvents /\ events' = events + 1

Config      == jobs[taken].config
SetStatus(st) == jobs' = [jobs EXCEPT ![taken].status = st]
At(op)      == phase = "step" /\ n <= Len(Plan) /\ Plan[n].op = op
Service     == Plan[n].on
Folder      == Plan[n].on
NextStep    == phase' = "step" /\ n' = n + 1

Die == phase' = "idle" /\ broken' = broken \cup {taken} /\ UNCHANGED <<jobs, taken, n>>

(* The request: the mutation migrate_to_binds                              *)
Request ==
    /\ Len(jobs) < MaxRequests /\ ~migrated
    /\ \E c \in Configs : jobs' = Append(jobs, [config |-> c, status |-> "CREATED"])
    /\ UNCHANGED <<taken, phase, n, said, installed, disks, unit, events, past>>

(* The task                                                                *)

\* Variant: only the request looks whether the migration is done.
TakeAnyway ==
    /\ phase = "idle" /\ taken < Len(jobs)
    /\ taken' = taken + 1
    /\ jobs' = [jobs EXCEPT ![taken + 1].status = "RUNNING"] /\ phase' = "check"
    /\ UNCHANGED <<n, said, installed, disks, unit, events, past>>

Take ==
    /\ phase = "idle" /\ taken < Len(jobs)
    /\ taken' = taken + 1
    /\ IF migrated
       THEN jobs' = [jobs EXCEPT ![taken + 1].status = "ERROR"] /\ UNCHANGED phase
       ELSE jobs' = [jobs EXCEPT ![taken + 1].status = "RUNNING"] /\ phase' = "check"
    /\ UNCHANGED <<n, said, installed, disks, unit, events, past>>

\* The list of devices is made when a process first uses it, and not again.
ListDevices ==
    /\ listed = None /\ listed' = attached
    /\ UNCHANGED <<work, said, installed, attached, data, dir, mounted, unit, events, past>>

Required == {Config[s] : s \in Services} \ {Root}

Check ==
    /\ phase = "check" /\ listed # None
    /\ IF installed = Services /\ Required \subseteq listed
       THEN phase' = "activate" /\ UNCHANGED jobs
       ELSE phase' = "idle" /\ SetStatus("ERROR")
    /\ UNCHANGED <<taken, n, said, installed, disks, unit, events, past>>

\* activate_binds: one write, before any folder is moved
Activate ==
    /\ phase = "activate"
    /\ location' = Config /\ migrated' = TRUE
    /\ phase' = "step" /\ n' = 1
    /\ UNCHANGED <<jobs, taken, installed, disks, unit, events, past>>

Stop ==
    /\ At("stop") /\ NextStep
    /\ unit' = [unit EXCEPT ![Service] = IF @ = "on" THEN "stopping" ELSE @]
    /\ UNCHANGED <<jobs, taken, said, installed, disks, events, past>>

\* A unit that is still stopping is started after that.
Start ==
    /\ At("start") /\ NextStep
    /\ unit' = [unit EXCEPT ![Service] = "on"]
    /\ halted' = halted \ {Service}
    /\ UNCHANGED <<jobs, taken, said, installed, disks, events, had, torn, skewed, broken>>

Raise ==
    /\ At("stop") \/ At("start")
    /\ Event("raise") /\ Die
    /\ UNCHANGED <<said, installed, disks, unit, had, torn, skewed, halted>>

Finish ==
    /\ phase = "step" /\ n > Len(Plan)
    /\ SetStatus("FINISHED") /\ phase' = "idle"
    /\ UNCHANGED <<taken, n, said, installed, disks, unit, events, past>>

-----------------------------------------------------------------------------
(* move_folder                                                             *)

Volume == Config[OwnerOf[Folder]]
\* The path /volumes/<name> leads to the volume only while that is mounted.
Target == IF Volume \in attached THEN Volume ELSE "under"

AlreadyThere == \E v \in Checked \cap attached : dir[Folder][v] # "none"

Skip ==
    /\ At("move") /\ (AlreadyThere \/ data[Folder] = "none")
    /\ NextStep
    /\ UNCHANGED <<jobs, taken, said, installed, disks, unit, events, past>>

Moving == At("move") /\ ~AlreadyThere /\ data[Folder] # "none"

\* shutil.move moves into a directory that is there.
Landed == IF dir[Folder][Target] = "none" THEN "whole" ELSE "nested"
Put(state) == dir' = [dir EXCEPT ![Folder][Target] = state]
LooksAside == skewed' = IF Target = Volume THEN skewed ELSE skewed \cup {Folder}

\* On the same disk a folder is renamed.
Rename ==
    /\ Moving /\ Target \in {Root, "under"}
    /\ Put(Landed) /\ data' = [data EXCEPT ![Folder] = "none"] /\ LooksAside
    /\ phase' = "mkdir"
    /\ UNCHANGED <<jobs, taken, n, said, installed, attached, listed, mounted, unit, events,
                   had, torn, broken, halted>>

StartCopy ==
    /\ Moving /\ Target \notin {Root, "under"}
    /\ phase' = IF Landed = "whole" THEN "copy" ELSE "nest"
    /\ Put("part")
    /\ UNCHANGED <<jobs, taken, n, said, installed, attached, listed, data, mounted, unit,
                   events, past>>

Copied ==
    /\ phase \in {"copy", "nest"}
    /\ Put(IF phase = "copy" THEN "whole" ELSE "nested") /\ phase' = "remove"
    /\ UNCHANGED <<jobs, taken, n, said, installed, attached, listed, data, mounted, unit,
                   events, past>>

\* The service, not down yet, writes: what was copied lacks it.
ServiceWrites ==
    /\ phase \in {"copy", "nest", "remove"} /\ unit[OwnerOf[Folder]] # "off"
    /\ torn' = torn \cup {Folder}
    /\ UNCHANGED <<work, said, installed, disks, unit, events, had, skewed, broken, halted>>

\* Variant: what could not be copied is removed all the same.
CopyFailsRemoves ==
    /\ phase \in {"copy", "nest"} /\ Event("copy") /\ phase' = "remove"
    /\ UNCHANGED <<jobs, taken, n, said, installed, disks, unit, past>>

CopyFails ==
    /\ phase \in {"copy", "nest"} /\ Event("copy") /\ Die
    /\ UNCHANGED <<said, installed, disks, unit, had, torn, skewed, halted>>

Remove ==
    /\ phase = "remove"
    /\ data' = [data EXCEPT ![Folder] = "none"] /\ phase' = "mkdir"
    /\ UNCHANGED <<jobs, taken, n, said, installed, attached, listed, dir, mounted, unit,
                   events, past>>

RemoveFails ==
    /\ phase = "remove" /\ Event("copy") /\ Die
    /\ data' = [data EXCEPT ![Folder] = "part"]
    /\ UNCHANGED <<said, installed, attached, listed, dir, mounted, unit, had, torn, skewed,
                   halted>>

MakeDir ==
    /\ phase = "mkdir"
    /\ data' = [data EXCEPT ![Folder] = "empty"] /\ phase' = "mount"
    /\ UNCHANGED <<jobs, taken, n, said, installed, attached, listed, dir, mounted, unit,
                   events, past>>

\* Logged, and the folder is left at that.
MakeDirFails ==
    /\ phase = "mkdir" /\ Event("mkdir")
    /\ NextStep /\ skewed' = skewed \cup {Folder}
    /\ UNCHANGED <<jobs, taken, said, installed, disks, unit, had, torn, broken, halted>>

Mount ==
    /\ phase = "mount" /\ NextStep
    /\ mounted' = [mounted EXCEPT ![Folder] = Volume]
    /\ UNCHANGED <<jobs, taken, said, installed, attached, listed, data, dir, unit, events, past>>

MountFails ==
    /\ phase = "mount" /\ Event("mount")
    /\ NextStep /\ skewed' = skewed \cup {Folder}
    /\ UNCHANGED <<jobs, taken, said, installed, disks, unit, had, torn, broken, halted>>

-----------------------------------------------------------------------------
(* Systemd, users, volumes, crashes                                        *)

UnitStops ==
    /\ \E s \in Services : unit[s] = "stopping" /\ unit' = [unit EXCEPT ![s] = "off"]
    /\ UNCHANGED <<work, said, installed, disks, events, past>>

UserStarts ==
    /\ Event("user")
    /\ \E s \in Services : /\ unit[s] # "on" /\ unit' = [unit EXCEPT ![s] = "on"]
                           /\ halted' = halted \ {s}
    /\ UNCHANGED <<work, said, installed, disks, had, torn, skewed, broken>>

UserStops ==
    /\ Event("user")
    /\ \E s \in Services : /\ unit[s] = "on" /\ unit' = [unit EXCEPT ![s] = "stopping"]
                           /\ halted' = halted \cup {s}
    /\ UNCHANGED <<work, said, installed, disks, had, torn, skewed, broken>>

\* A rebuild unmounts a volume that the user data do not name any more, unless it is
\* busy.  What was moved there and waits to be mounted is gone with it.
Detach ==
    /\ Event("detach")
    /\ \E v \in attached \ {Root} :
         LET left == phase \in {"remove", "mkdir", "mount"} /\ Volume = v
         IN  /\ \A f \in Folders : mounted[f] # v
             /\ phase \in {"copy", "nest"} => Volume # v
             /\ attached' = attached \ {v}
             /\ skewed' = IF left THEN skewed \cup {Folder} ELSE skewed
    /\ UNCHANGED <<work, said, installed, listed, data, dir, mounted, unit, had, torn, broken,
                   halted>>

\* What is being removed may be gone in part.
Crash ==
    /\ phase # "idle" /\ Event("crash") /\ Die
    /\ listed' = None
    /\ \/ UNCHANGED data
       \/ phase = "remove" /\ data' = [data EXCEPT ![Folder] = "part"]
    /\ UNCHANGED <<said, installed, attached, dir, mounted, unit, had, torn, skewed, halted>>

Task ==
    \/ Take \/ Check \/ Activate \/ Stop \/ Start \/ Finish
    \/ Skip \/ Rename \/ StartCopy \/ Copied \/ Remove \/ MakeDir \/ Mount

Fault ==
    \/ Raise \/ CopyFails \/ RemoveFails \/ MakeDirFails \/ MountFails
    \/ Detach \/ Crash

Next ==
    \/ Request \/ Task \/ ListDevices \/ Fault
    \/ ServiceWrites \/ UnitStops \/ UserStarts \/ UserStops

Spec == Init /\ [][Next]_vars
==============================================================================
