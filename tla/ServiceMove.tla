----------------------------- MODULE ServiceMove -----------------------------
(***************************************************************************)
(* Moving the data of a service to another volume.                         *)
(*                                                                         *)
(* The worker stops the service, unmounts its folders, moves them, mounts  *)
(* them from the new volume, writes the new location to the user data and  *)
(* rebuilds the system (services/service.py, moving.py, owned_path.py).    *)
(* Any step may fail, and none is undone.  Meanwhile users ask for further *)
(* moves, start and stop services, and the worker or the server restarts.  *)
(***************************************************************************)
EXTENDS Naturals, Sequences

CONSTANTS
    Services, NumFolders,    \* each service has that many folders
    Volumes, Root,           \* volumes, by the names of their devices
    Names, CanonicalName,    \* canonical_name of each volume
    None,
    Events,                  \* what may go wrong
    MaxRequests, MaxEvents   \* bounds

AllEvents == {"check", "timeout", "unbind", "copy", "rmtree", "chown", "bind",
              "rebuild", "user", "crash", "reboot"}

ASSUME MoveVolumesAssumption ==
    /\ Root \in Volumes /\ None \notin Volumes
    /\ Volumes \subseteq Names
    /\ CanonicalName \in [Volumes -> Names]
    /\ \A v, w \in Volumes : CanonicalName[v] = CanonicalName[w] => v = w
ASSUME MoveFoldersAssumption == NumFolders \in Nat \ {0}
ASSUME MoveBoundsAssumption ==
    Events \subseteq AllEvents /\ MaxRequests \in Nat /\ MaxEvents \in Nat

VARIABLES
    jobs, taken,          \* the jobs in the order of their tasks; how many were taken
    pc, i,                \* where the worker is, and at which folder
    fresh,                \* the folder did not exist on the new volume
    was, failed,          \* original_status of StoppedService; an exception is raised
    dir,                  \* the directory of each folder on each volume
    mounted,              \* the volume from which each folder is mounted
    location, built,      \* in the user data; in the system that was built last
    active,               \* the services that run
    initialised,          \* the services whose folders exist
    events,
    started, stopped,     \* history: started by others, stopped by the worker
    hurt,                 \* history: services with a move that broke off
    faults, lost          \* history: jobs with a failed step; with a lost task

local == <<pc, i, fresh, was, failed>>
disk  == <<dir, mounted>>
place == <<location, built>>
past  == <<started, stopped, hurt, faults, lost>>
vars  == <<jobs, taken, local, disk, place, active, initialised, events, past>>

-----------------------------------------------------------------------------
Folders == 1 .. NumFolders

\* "part": an incomplete copy, or what a removal left; "nested": the data lies
\* in a directory within an incomplete copy.
DirStates == {"none", "part", "whole", "nested"}

Job == [svc : Services, to : Volumes,
        status : {"CREATED", "RUNNING", "FINISHED", "ERROR"}, error : BOOLEAN]

Pcs == {"idle", "check", "stop", "unbind", "move", "copy", "own", "mount", "bind",
        "register", "rebuild", "finish", "start", "fail"}

TypeOK ==
    /\ jobs \in Seq(Job) /\ taken \in 0 .. Len(jobs)
    /\ pc \in Pcs /\ i \in Folders
    /\ fresh \in BOOLEAN /\ was \in BOOLEAN /\ failed \in BOOLEAN
    /\ dir \in [Services -> [Folders -> [Volumes -> DirStates]]]
    /\ mounted \in [Services -> [Folders -> Volumes \cup {None}]]
    /\ location \in [Services -> Names] /\ built \in [Services -> Names]
    /\ active \in [Services -> BOOLEAN]
    /\ initialised \subseteq Services
    /\ events \in Nat
    /\ started \subseteq Services /\ stopped \subseteq Services /\ hurt \subseteq Services
    /\ faults \subseteq Nat /\ lost \subseteq Nat
    /\ pc # "idle" => taken > 0

Init ==
    /\ jobs = <<>> /\ taken = 0
    /\ pc = "idle" /\ i = 1 /\ fresh = FALSE /\ was = FALSE /\ failed = FALSE
    /\ initialised \in SUBSET Services
    /\ dir = [s \in Services |-> [f \in Folders |-> [v \in Volumes |->
                 IF v = Root /\ s \in initialised THEN "whole" ELSE "none"]]]
    /\ mounted = [s \in Services |-> [f \in Folders |->
                 IF s \in initialised THEN Root ELSE None]]
    /\ location = [s \in Services |-> CanonicalName[Root]]
    /\ built = location
    /\ active = [s \in Services |-> s \in initialised]
    /\ events = 0
    /\ started = {} /\ stopped = {} /\ hurt = {} /\ faults = {} /\ lost = {}

-----------------------------------------------------------------------------
(* Requests                                                                *)

\* get_block_device_by_canonical_name
Named(name) == {v \in Volumes : CanonicalName[v] = name}
Drive(s)    == CHOOSE v \in Volumes : CanonicalName[v] = location[s]

\* Variant: the volume may be the one where the service is.
CanMoveInPlace(s, v) ==
    /\ Named(location[s]) # {}
    /\ s \in initialised => \A f \in Folders : dir[s][f][Drive(s)] # "none"

\* assert_can_move; that there is space on the volume is left open.
CanMove(s, v) ==
    /\ location[s] # CanonicalName[v]
    /\ Named(location[s]) # {}
    /\ s \in initialised => \A f \in Folders : dir[s][f][Drive(s)] # "none"

Request(s, v) ==
    /\ Len(jobs) < MaxRequests
    /\ CanMove(s, v)
    /\ jobs' = Append(jobs, [svc |-> s, to |-> v, status |-> "CREATED", error |-> FALSE])
    /\ UNCHANGED <<taken, local, disk, place, active, initialised, events, past>>

-----------------------------------------------------------------------------
(* The task                                                                *)

S   == jobs[taken].svc
To  == jobs[taken].to
Old == Drive(S)

\* Jobs.update, which overwrites the error too.
Mark(status, error) ==
    jobs' = [jobs EXCEPT ![taken].status = status, ![taken].error = error]

Progress == Mark("RUNNING", FALSE)

Leave == pc' = "idle" /\ i' = 1 /\ fresh' = FALSE /\ was' = FALSE /\ failed' = FALSE

Take ==
    /\ pc = "idle"
    /\ taken < Len(jobs)
    /\ taken' = taken + 1
    /\ jobs' = [jobs EXCEPT ![taken + 1].status = "RUNNING"]
    /\ pc' = "check"
    /\ UNCHANGED <<i, fresh, was, failed, disk, place, active, initialised, events, past>>

Check ==
    /\ pc = "check"
    /\ \/ CanMove(S, To) /\ S \in initialised /\ pc' = "stop" /\ Progress
       \/ (~CanMove(S, To) \/ "check" \in Events) /\ pc' = "fail" /\ UNCHANGED jobs
    /\ UNCHANGED <<taken, i, fresh, was, failed, disk, place, active, initialised,
                   events, past>>

\* Variant: the location is not written.
SetLocationNot == UNCHANGED location

\* set_location writes the name of the device; get_drive reads a canonical name.
SetLocation == location' = [location EXCEPT ![S] = To]

\* A service without folders is only registered anew.
Reregister ==
    /\ pc = "check"
    /\ CanMove(S, To) /\ S \notin initialised
    /\ SetLocation
    /\ Mark("FINISHED", FALSE)
    /\ Leave
    /\ UNCHANGED <<taken, disk, built, active, initialised, events, past>>

SetActive(b) == active' = [active EXCEPT ![S] = b]

\* Variant: the service is told to stop, and not waited for.
StopServiceUnawaited ==
    /\ pc = "stop"
    /\ was' = active[S]
    /\ started' = started \ {S}
    /\ stopped' = IF active[S] THEN stopped \cup {S} ELSE stopped
    /\ Progress
    /\ pc' = "unbind"
    /\ UNCHANGED <<taken, i, fresh, failed, disk, place, active, initialised, events,
                   hurt, faults, lost>>

StopService ==
    /\ pc = "stop"
    /\ was' = active[S]
    /\ SetActive(FALSE)
    /\ started' = started \ {S}
    /\ stopped' = IF active[S] THEN stopped \cup {S} ELSE stopped
    /\ Progress
    /\ pc' = "unbind"
    /\ UNCHANGED <<taken, i, fresh, failed, disk, place, initialised, events,
                   hurt, faults, lost>>

\* The context is not entered, and so never left.
StopTimesOut ==
    /\ pc = "stop"
    /\ active[S] /\ "timeout" \in Events
    /\ \E b \in BOOLEAN : SetActive(b)
    /\ pc' = "fail"
    /\ UNCHANGED <<jobs, taken, i, fresh, was, failed, disk, place, initialised, events,
                   past>>

\* The next folder, or the next loop.
NextFolder(again, after) ==
    IF i < NumFolders THEN i' = i + 1 /\ pc' = again ELSE i' = 1 /\ pc' = after

\* Variant: an exception does not pass through __aexit__.
ExitPastStart == "fail"

Exit == "start"

Raise == /\ pc' = Exit /\ failed' = TRUE /\ i' = 1
         /\ hurt' = hurt \cup {S}
         /\ UNCHANGED <<jobs, taken, fresh, was, place, active, initialised, events,
                        started, stopped, faults, lost>>

SetMount(v) == mounted' = [mounted EXCEPT ![S][i] = v]

Unbind ==
    /\ pc = "unbind"
    /\ mounted[S][i] # None
    /\ SetMount(None)
    /\ NextFolder("unbind", "move")
    /\ UNCHANGED <<jobs, taken, fresh, was, failed, dir, place, active, initialised,
                   events, past>>

UnbindFails ==
    /\ pc = "unbind"
    /\ mounted[S][i] = None \/ "unbind" \in Events
    /\ Raise
    /\ UNCHANGED disk

SetDirs(old, new) == dir' = [dir EXCEPT ![S][i] = [@ EXCEPT ![Old] = old, ![To] = new]]

\* shutil.move to another file system copies, then removes.
StartCopy ==
    /\ pc = "move"
    /\ fresh' = (dir[S][i][To] = "none")
    /\ SetDirs(dir[S][i][Old], IF dir[S][i][To] = "none" THEN "part" ELSE dir[S][i][To])
    /\ pc' = "copy"
    /\ UNCHANGED <<jobs, taken, i, was, failed, mounted, place, active, initialised,
                   events, past>>

\* The directory exists and has one of that name in it.
MoveRefused ==
    /\ pc = "move"
    /\ dir[S][i][To] # "none"
    /\ Raise
    /\ UNCHANGED disk

\* Variant: a directory that exists is taken for moved.
ArrivedUnlessThere(x, y) == IF fresh THEN x ELSE y

\* x comes to where y is: into it, if it was there before.
Arrived(x, y) ==
    CASE fresh                                     -> x
      [] ~fresh /\ y = "part" /\ x = "whole"       -> "nested"
      [] ~fresh /\ ~(y = "part" /\ x = "whole")    -> IF y = "part" THEN x ELSE y

FinishCopy ==
    /\ pc = "copy"
    /\ SetDirs("none", Arrived(dir[S][i][Old], dir[S][i][To]))
    /\ Progress
    /\ NextFolder("move", "own")
    /\ UNCHANGED <<taken, fresh, was, failed, mounted, place, active, initialised,
                   events, past>>

CopyFails ==
    /\ pc = "copy"
    /\ "copy" \in Events
    /\ Raise
    /\ UNCHANGED disk

RemoveFails ==
    /\ pc = "copy"
    /\ "rmtree" \in Events
    /\ SetDirs("part", Arrived(dir[S][i][Old], dir[S][i][To]))
    /\ Raise
    /\ UNCHANGED mounted

\* ensure_folder_ownership; an error is put in the job, and the move goes on.
Own ==
    /\ pc = "own"
    /\ pc' = "mount"
    /\ \/ UNCHANGED <<jobs, faults>>
       \/ "chown" \in Events /\ Mark("RUNNING", TRUE) /\ faults' = faults \cup {taken}
    /\ UNCHANGED <<taken, i, fresh, was, failed, disk, place, active, initialised,
                   events, started, stopped, hurt, lost>>

ReportMount ==
    /\ pc = "mount"
    /\ Progress
    /\ pc' = "bind"
    /\ UNCHANGED <<taken, i, fresh, was, failed, disk, place, active, initialised,
                   events, past>>

\* Variant: the folders are mounted from where they were.
BindSourceOld == Old

BindSource == To

Bind ==
    /\ pc = "bind"
    /\ SetMount(BindSource)
    /\ NextFolder("bind", "register")
    /\ UNCHANGED <<jobs, taken, fresh, was, failed, dir, place, active, initialised,
                   events, past>>

BindFails ==
    /\ pc = "bind"
    /\ "bind" \in Events
    /\ Raise
    /\ UNCHANGED disk

Register ==
    /\ pc = "register"
    /\ SetLocation
    /\ Progress
    /\ pc' = "rebuild"
    /\ UNCHANGED <<taken, i, fresh, was, failed, disk, built, active, initialised,
                   events, past>>

\* What a system that was built with these locations mounts.
Source(s, f, loc) ==
    IF \E v \in Named(loc) : dir[s][f][v] # "none"
    THEN CHOOSE v \in Volumes : CanonicalName[v] = loc
    ELSE None

\* rebuild_system says in the job how it went, and raises nothing.
Rebuild ==
    /\ pc = "rebuild"
    /\ \/ /\ Mark("FINISHED", FALSE)
          /\ built' = location
          /\ mounted' = [s \in Services |-> [f \in Folders |->
                            IF mounted[s][f] # None THEN mounted[s][f]
                            ELSE Source(s, f, location[s])]]
          /\ UNCHANGED faults
       \/ /\ "rebuild" \in Events
          /\ Mark("ERROR", TRUE)
          /\ faults' = faults \cup {taken}
          /\ UNCHANGED <<built, mounted>>
    /\ pc' = "finish"
    /\ UNCHANGED <<taken, i, fresh, was, failed, dir, location, active, initialised,
                   events, started, stopped, hurt, lost>>

Finish ==
    /\ pc = "finish"
    /\ Mark("FINISHED", FALSE)
    /\ pc' = "start"
    /\ UNCHANGED <<taken, i, fresh, was, failed, disk, place, active, initialised,
                   events, past>>

Start ==
    /\ pc = "start"
    /\ SetActive(active[S] \/ was)
    /\ stopped' = stopped \ {S}
    /\ IF failed THEN pc' = "fail" /\ UNCHANGED <<i, fresh, was, failed>> ELSE Leave
    /\ UNCHANGED <<jobs, taken, disk, place, initialised, events, started, hurt, faults,
                   lost>>

StartTimesOut ==
    /\ pc = "start"
    /\ was /\ "timeout" \in Events
    /\ \E b \in BOOLEAN : SetActive(b)
    /\ stopped' = stopped \ {S}
    /\ pc' = "fail"
    /\ UNCHANGED <<jobs, taken, i, fresh, was, failed, disk, place, initialised, events,
                   started, hurt, faults, lost>>

\* Variant: the error is not put in the job.
FailUnmarked ==
    /\ pc = "fail"
    /\ Leave
    /\ UNCHANGED <<jobs, taken, disk, place, active, initialised, events, past>>

Fail ==
    /\ pc = "fail"
    /\ Mark("ERROR", TRUE)
    /\ Leave
    /\ UNCHANGED <<taken, disk, place, active, initialised, events, past>>

MoveService ==
    \/ Take \/ Check \/ Reregister \/ StopService \/ StopTimesOut
    \/ Unbind \/ UnbindFails \/ StartCopy \/ MoveRefused \/ FinishCopy \/ CopyFails
    \/ RemoveFails \/ Own \/ ReportMount \/ Bind \/ BindFails \/ Register
    \/ Rebuild \/ Finish \/ Start \/ StartTimesOut \/ Fail

-----------------------------------------------------------------------------
(* Users, crashes and reboots                                              *)

Happens(e) == e \in Events /\ events < MaxEvents /\ events' = events + 1

UserStarts(s) ==
    /\ Happens("user")
    /\ ~active[s]
    /\ active' = [active EXCEPT ![s] = TRUE]
    /\ started' = started \cup {s}
    /\ UNCHANGED <<jobs, taken, local, disk, place, initialised, stopped, hurt, faults,
                   lost>>

UserStops(s) ==
    /\ Happens("user")
    /\ active[s]
    /\ active' = [active EXCEPT ![s] = FALSE]
    /\ UNCHANGED <<jobs, taken, local, disk, place, initialised, past>>

\* The task is lost, and what it did is not undone.
LoseTask ==
    /\ Leave
    /\ IF pc = "idle" THEN UNCHANGED <<stopped, hurt, lost>>
       ELSE /\ stopped' = stopped \ {S}
            /\ hurt' = hurt \cup {S}
            /\ lost' = lost \cup {taken}

WorkerCrashes ==
    /\ Happens("crash")
    /\ pc # "idle"
    /\ LoseTask
    /\ UNCHANGED <<jobs, taken, disk, place, active, initialised, started, faults>>

Reboot ==
    /\ Happens("reboot")
    /\ LoseTask
    /\ mounted' = [s \in Services |-> [f \in Folders |-> Source(s, f, built[s])]]
    /\ active' = [s \in Services |-> s \in initialised]
    /\ started' = initialised
    /\ UNCHANGED <<jobs, taken, dir, place, initialised, faults>>

Next ==
    \/ \E s \in Services, v \in Volumes : Request(s, v)
    \/ MoveService
    \/ \E s \in Services : UserStarts(s) \/ UserStops(s)
    \/ WorkerCrashes
    \/ Reboot

Spec == Init /\ [][Next]_vars

\* The worker takes tasks for ever, and every step of a task ends.
FairSpec == Spec /\ WF_vars(MoveService)
=============================================================================
