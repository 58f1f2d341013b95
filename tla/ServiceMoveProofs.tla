-------------------------- MODULE ServiceMoveProofs --------------------------
(***************************************************************************)
(* MoveInv is inductive; hence, for every number of services, folders,     *)
(* volumes and moves and whatever goes wrong, no folder is lost, services  *)
(* are down while they are moved, and the user data tell where they are.   *)
(***************************************************************************)
EXTENDS ServiceMoveProperties, TLAPS, SequenceTheorems

-----------------------------------------------------------------------------
(* Jobs                                                                    *)

\* The worker at a task has its job at hand.
LEMMA JobAtHand ==
    ASSUME TypeOK, pc # "idle"
    PROVE  taken \in 1 .. Len(jobs) /\ S \in Services /\ To \in Volumes
<1>1. taken \in 1 .. Len(jobs)
  BY DEF TypeOK
<1>2. jobs[taken] \in Job
  BY <1>1, ElementOfSeq DEF TypeOK
<1> QED BY <1>1, <1>2 DEF Job, S, To

\* A change of the status and the error of one job.
LEMMA MarkType ==
    ASSUME TypeOK, pc # "idle", NEW st \in {"RUNNING", "FINISHED", "ERROR"},
           NEW e \in BOOLEAN, Mark(st, e)
    PROVE  /\ jobs' \in Seq(Job) /\ Len(jobs') = Len(jobs)
           /\ \A j \in 1 .. Len(jobs) :
                 jobs'[j].svc = jobs[j].svc /\ jobs'[j].to = jobs[j].to
<1> DEFINE new == [[jobs[taken] EXCEPT !.status = st] EXCEPT !.error = e]
<1>1. taken \in 1 .. Len(jobs) /\ jobs \in Seq(Job)
  BY JobAtHand DEF TypeOK
<1>2. jobs[taken] \in Job
  BY <1>1, ElementOfSeq
<1>3. new \in Job /\ new.svc = jobs[taken].svc /\ new.to = jobs[taken].to
  BY <1>2 DEF Job
<1>4. jobs' = [jobs EXCEPT ![taken] = new]
  BY <1>1, <1>2 DEF Mark
<1>5. jobs' \in Seq(Job) /\ Len(jobs') = Len(jobs)
  BY <1>1, <1>3, <1>4, ExceptSeq
<1> QED BY <1>1, <1>3, <1>4, <1>5

LEMMA UnchangedJobs ==
    ASSUME TypeOK, UNCHANGED jobs
    PROVE  /\ jobs' \in Seq(Job) /\ Len(jobs') = Len(jobs)
           /\ \A j \in 1 .. Len(jobs) :
                 jobs'[j].svc = jobs[j].svc /\ jobs'[j].to = jobs[j].to
  BY DEF TypeOK

\* The table of jobs after any step.
LEMMA JobsStep ==
    ASSUME TypeOK, Next
    PROVE  /\ jobs' \in Seq(Job) /\ Len(jobs') >= Len(jobs)
           /\ taken' \in 0 .. Len(jobs') /\ (pc' # "idle" => taken' > 0)
           /\ pc # "idle" => taken' = taken /\ S' = S /\ To' = To
<1> USE DEF local, disk, place, past, Progress
<1>0. jobs \in Seq(Job) /\ taken \in 0 .. Len(jobs) /\ Len(jobs) \in Nat
      /\ (pc # "idle" => taken > 0)
  BY DEF TypeOK
<1> DEFINE Same == /\ jobs' \in Seq(Job) /\ Len(jobs') = Len(jobs)
                   /\ \A j \in 1 .. Len(jobs) :
                         jobs'[j].svc = jobs[j].svc /\ jobs'[j].to = jobs[j].to
<1>1. ASSUME Same, taken' = taken, pc # "idle" \/ UNCHANGED pc
      PROVE  /\ jobs' \in Seq(Job) /\ Len(jobs') >= Len(jobs)
             /\ taken' \in 0 .. Len(jobs') /\ (pc' # "idle" => taken' > 0)
             /\ pc # "idle" => taken' = taken /\ S' = S /\ To' = To
  BY <1>0, <1>1 DEF S, To
<1>2. ASSUME NEW s \in Services, NEW v \in Volumes, Request(s, v)
      PROVE  /\ jobs' \in Seq(Job) /\ Len(jobs') >= Len(jobs)
             /\ taken' \in 0 .. Len(jobs') /\ (pc' # "idle" => taken' > 0)
             /\ pc # "idle" => taken' = taken /\ S' = S /\ To' = To
  <2> DEFINE new == [svc |-> s, to |-> v, status |-> "CREATED", error |-> FALSE]
  <2>1. new \in Job
    BY DEF Job
  <2>2. jobs' = Append(jobs, new) /\ UNCHANGED <<taken, pc>>
    BY <1>2 DEF Request
  <2>3. /\ jobs' \in Seq(Job) /\ Len(jobs') = Len(jobs) + 1
        /\ \A j \in 1 .. Len(jobs) : jobs'[j] = jobs[j]
    BY <1>0, <2>1, <2>2, AppendProperties
  <2> QED BY <1>0, <2>2, <2>3 DEF S, To
<1>3. CASE Take
  <2>1. taken + 1 \in 1 .. Len(jobs) /\ pc = "idle" /\ taken' = taken + 1
    BY <1>0, <1>3 DEF Take
  <2> DEFINE new == [jobs[taken + 1] EXCEPT !.status = "RUNNING"]
  <2>2. new \in Job
    <3>1. jobs[taken + 1] \in Job
      BY <1>0, <2>1, ElementOfSeq
    <3> QED BY <3>1 DEF Job
  <2>3. jobs' = [jobs EXCEPT ![taken + 1] = new]
    BY <1>3 DEF Take
  <2>4. jobs' \in Seq(Job) /\ Len(jobs') = Len(jobs)
    BY <1>0, <2>1, <2>2, <2>3, ExceptSeq
  <2> QED BY <1>0, <2>1, <2>4
<1>4. CASE Check \/ Reregister \/ StopService \/ FinishCopy \/ Own \/ ReportMount
           \/ Register \/ Rebuild \/ Finish \/ Fail
  <2>1. pc # "idle" /\ taken' = taken
    BY <1>4 DEF Check, Reregister, StopService, FinishCopy, Own, ReportMount, Register,
       Rebuild, Finish, Fail
  <2>2. \/ UNCHANGED jobs
        \/ \E st \in {"RUNNING", "FINISHED", "ERROR"}, e \in BOOLEAN : Mark(st, e)
    BY <1>4 DEF Check, Reregister, StopService, FinishCopy, Own, ReportMount, Register,
       Rebuild, Finish, Fail
  <2>3. Same
    BY <2>1, <2>2, MarkType, UnchangedJobs
  <2> QED BY <1>1, <2>1, <2>3
<1>5. CASE StopTimesOut \/ Unbind \/ UnbindFails \/ StartCopy \/ MoveRefused \/ CopyFails
           \/ RemoveFails \/ Bind \/ BindFails \/ Start \/ StartTimesOut
  <2>1. pc # "idle" /\ taken' = taken /\ UNCHANGED jobs
    BY <1>5 DEF StopTimesOut, Unbind, UnbindFails, StartCopy, MoveRefused, CopyFails,
       RemoveFails, Bind, BindFails, Start, StartTimesOut, Raise
  <2> QED BY <1>1, <2>1, UnchangedJobs
<1>6. ASSUME NEW s \in Services, UserStarts(s) \/ UserStops(s)
      PROVE  Same /\ UNCHANGED <<taken, pc>>
  BY <1>6, UnchangedJobs DEF UserStarts, UserStops
<1>7. CASE WorkerCrashes \/ Reboot
  <2>1. UNCHANGED <<jobs, taken>> /\ pc' = "idle"
    BY <1>7 DEF WorkerCrashes, Reboot, LoseTask, Leave
  <2> QED BY <1>0, <2>1, UnchangedJobs DEF S, To
<1> QED BY <1>1, <1>2, <1>3, <1>4, <1>5, <1>6, <1>7 DEF Next, MoveService

-----------------------------------------------------------------------------
(* Directories                                                             *)

\* A change of one folder on the volumes of a move.
LEMMA SetDirsEffect ==
    ASSUME TypeOK, TargetInv, pc \in {"move", "copy"},
           NEW old \in DirStates, NEW new \in DirStates, SetDirs(old, new)
    PROVE  /\ dir' \in [Services -> [Folders -> [Volumes -> DirStates]]]
           /\ \A s \in Services, f \in Folders :
                 ~(s = S /\ f = i) => dir'[s][f] = dir[s][f]
           /\ dir'[S][i] = [v \in Volumes |-> IF v = To THEN new
                                             ELSE IF v = Old THEN old
                                             ELSE dir[S][i][v]]
<1>1. S \in Services /\ To \in Volumes /\ Old \in Volumes /\ Old # To /\ i \in Folders
  BY JobAtHand DEF TargetInv, TypeOK
<1> DEFINE d == [dir[S][i] EXCEPT ![Old] = old, ![To] = new]
<1>2. /\ dir \in [Services -> [Folders -> [Volumes -> DirStates]]]
      /\ dir[S] \in [Folders -> [Volumes -> DirStates]]
      /\ dir[S][i] \in [Volumes -> DirStates]
  BY <1>1 DEF TypeOK
<1>3. /\ d \in [Volumes -> DirStates]
      /\ d = [v \in Volumes |-> IF v = To THEN new
                               ELSE IF v = Old THEN old ELSE dir[S][i][v]]
  BY <1>1, <1>2
<1>4. dir' = [dir EXCEPT ![S][i] = d]
  BY <1>2 DEF SetDirs
<1> HIDE DEF d
<1>5. dir' \in [Services -> [Folders -> [Volumes -> DirStates]]]
  BY <1>1, <1>2, <1>3, <1>4
<1>6. /\ \A s \in Services, f \in Folders : ~(s = S /\ f = i) => dir'[s][f] = dir[s][f]
      /\ dir'[S][i] = d
  BY <1>1, <1>2, <1>4
<1> QED BY <1>3, <1>5, <1>6

\* Where the copy arrives, the data of the folder is whole.
LEMMA ArrivedType ==
    ASSUME NEW x \in DirStates, NEW y \in DirStates, fresh \in BOOLEAN
    PROVE  /\ Arrived(x, y) \in DirStates
           /\ fresh => Arrived(x, y) = x
           /\ ~fresh /\ y \in {"whole", "nested"} => Arrived(x, y) = y
           /\ x \in {"whole", "nested"} /\ ~fresh /\ y = "part"
                 => Arrived(x, y) \in {"whole", "nested"}
<1>1. CASE fresh
  BY <1>1 DEF Arrived, DirStates
<1>2. CASE ~fresh /\ y = "part" /\ x = "whole"
  BY <1>2 DEF Arrived, DirStates
<1>3. CASE ~fresh /\ ~(y = "part" /\ x = "whole")
  BY <1>3 DEF Arrived, DirStates
<1> QED BY <1>1, <1>2, <1>3

-----------------------------------------------------------------------------
(* Types                                                                   *)

LEMMA TypeStep ==
    ASSUME TypeOK, TargetInv, Next
    PROVE  TypeOK'
<1> USE DEF local, disk, place, past
<1>0. /\ jobs' \in Seq(Job) /\ taken' \in 0 .. Len(jobs')
      /\ (pc' # "idle" => taken' > 0)
  BY JobsStep
<1>1. pc # "idle" => S \in Services /\ To \in Volumes /\ taken \in Nat
  BY JobAtHand
<1>v. Volumes \subseteq Names /\ 1 \in Folders /\ NumFolders \in Nat
  BY MoveVolumesAssumption, MoveFoldersAssumption DEF Folders
<1> USE <1>0, <1>1, <1>v
<1>2. ASSUME NEW s \in Services, NEW v \in Volumes, Request(s, v)
      PROVE  TypeOK'
  BY <1>2 DEF TypeOK, Request
<1>3. CASE Take
  BY <1>3 DEF TypeOK, Take, Pcs
<1>4. CASE Check \/ ReportMount \/ Finish \/ Fail
  BY <1>4 DEF TypeOK, Check, ReportMount, Finish, Fail, Leave, Pcs
<1>5. CASE Reregister \/ Register
  BY <1>5 DEF TypeOK, Reregister, Register, SetLocation, Leave, Pcs
<1>6. CASE StopService \/ StopTimesOut
  BY <1>6 DEF TypeOK, StopService, StopTimesOut, SetActive, Pcs
<1>7. ASSUME Raise, pc # "idle"
      PROVE  /\ pc' \in Pcs /\ i' \in Folders /\ fresh' = fresh /\ was' = was
             /\ failed' \in BOOLEAN /\ place' = place /\ active' = active
             /\ initialised' = initialised /\ events' = events /\ hurt' \subseteq Services
             /\ UNCHANGED <<started, stopped, faults, lost>>
  BY <1>7 DEF TypeOK, Raise, Exit, Pcs
<1>8. CASE Unbind \/ Bind
  <2>1. ASSUME NEW v \in Volumes \cup {None}, SetMount(v), pc # "idle"
        PROVE  mounted' \in [Services -> [Folders -> Volumes \cup {None}]]
    BY <2>1 DEF SetMount, TypeOK
  <2>2. mounted' \in [Services -> [Folders -> Volumes \cup {None}]]
    BY <1>8, <2>1 DEF Unbind, Bind, BindSource
  <2>3. i' \in Folders /\ pc' \in Pcs
    BY <1>8 DEF TypeOK, Unbind, Bind, NextFolder, Folders, Pcs
  <2> QED BY <1>8, <2>2, <2>3 DEF TypeOK, Unbind, Bind
<1>9. CASE UnbindFails \/ MoveRefused \/ CopyFails \/ BindFails
  <2>1. Raise /\ pc # "idle" /\ UNCHANGED disk
    BY <1>9 DEF UnbindFails, MoveRefused, CopyFails, BindFails
  <2> QED BY <1>7, <2>1 DEF TypeOK, Raise
<1>10. pc \in {"move", "copy"} => /\ dir[S][i][Old] \in DirStates
                                  /\ dir[S][i][To] \in DirStates
  BY DEF TypeOK, TargetInv
<1>11. CASE StartCopy
  <2>1. dir' \in [Services -> [Folders -> [Volumes -> DirStates]]]
    BY <1>10, <1>11, SetDirsEffect DEF StartCopy, DirStates
  <2> QED BY <1>11, <2>1 DEF TypeOK, StartCopy, Pcs
<1>12. CASE FinishCopy
  <2>1. dir' \in [Services -> [Folders -> [Volumes -> DirStates]]]
    <3>1. "none" \in DirStates /\ Arrived(dir[S][i][Old], dir[S][i][To]) \in DirStates
      BY <1>10, <1>12, ArrivedType DEF FinishCopy, DirStates, TypeOK
    <3> QED BY <1>12, <3>1, SetDirsEffect DEF FinishCopy
  <2> QED BY <1>12, <2>1 DEF TypeOK, FinishCopy, NextFolder, Folders, Pcs
<1>13. CASE RemoveFails
  <2>1. dir' \in [Services -> [Folders -> [Volumes -> DirStates]]]
    <3>1. "part" \in DirStates /\ Arrived(dir[S][i][Old], dir[S][i][To]) \in DirStates
      BY <1>10, <1>13, ArrivedType DEF RemoveFails, DirStates, TypeOK
    <3> QED BY <1>13, <3>1, SetDirsEffect DEF RemoveFails
  <2> QED BY <1>7, <1>13, <2>1 DEF TypeOK, RemoveFails, Raise
<1>14. CASE Own
  BY <1>14 DEF TypeOK, Own, Pcs
<1>s. \A s, f, loc : Source(s, f, loc) \in Volumes \cup {None}
  BY DEF Source, Named
<1>15. CASE Rebuild
  <2>1. mounted' \in [Services -> [Folders -> Volumes \cup {None}]]
    <3>1. \A s \in Services, f \in Folders : mounted[s][f] \in Volumes \cup {None}
      BY DEF TypeOK
    <3>2. \/ mounted' = [s \in Services |-> [f \in Folders |->
                            IF mounted[s][f] # None THEN mounted[s][f]
                            ELSE Source(s, f, location[s])]]
          \/ mounted' = mounted
      BY <1>15 DEF Rebuild
    <3>3. \A s \in Services, f \in Folders :
             (IF mounted[s][f] # None THEN mounted[s][f] ELSE Source(s, f, location[s]))
                \in Volumes \cup {None}
      BY <3>1, <1>s
    <3>4. mounted \in [Services -> [Folders -> Volumes \cup {None}]]
      BY DEF TypeOK
    <3> QED BY <3>2, <3>3, <3>4
  <2>2. built' \in [Services -> Names] /\ faults' \subseteq Nat /\ pc' \in Pcs
    BY <1>15 DEF TypeOK, Rebuild, Pcs
  <2> QED BY <1>15, <2>1, <2>2 DEF TypeOK, Rebuild
<1>16. CASE Start \/ StartTimesOut
  BY <1>16 DEF TypeOK, Start, StartTimesOut, SetActive, Leave, Pcs
<1>17. ASSUME NEW s \in Services, UserStarts(s) \/ UserStops(s)
       PROVE  TypeOK'
  <2>1. active' \in [Services -> BOOLEAN] /\ started' \subseteq Services
    BY <1>17 DEF TypeOK, UserStarts, UserStops
  <2>2. events' \in Nat
    BY <1>17 DEF TypeOK, UserStarts, UserStops, Happens
  <2> QED BY <1>17, <2>1, <2>2 DEF TypeOK, UserStarts, UserStops
<1>18. ASSUME LoseTask
       PROVE  /\ pc' \in Pcs /\ i' \in Folders /\ fresh' \in BOOLEAN /\ was' \in BOOLEAN
              /\ failed' \in BOOLEAN /\ stopped' \subseteq Services
              /\ hurt' \subseteq Services /\ lost' \subseteq Nat
  <2>1. /\ pc' = "idle" /\ i' = 1 /\ fresh' = FALSE /\ was' = FALSE /\ failed' = FALSE
    BY <1>18 DEF LoseTask, Leave
  <2>2. CASE pc = "idle"
    BY <1>18, <2>1, <2>2 DEF LoseTask, TypeOK, Pcs
  <2>3. CASE pc # "idle"
    <3>1. /\ stopped' = stopped \ {S} /\ hurt' = hurt \cup {S}
          /\ lost' = lost \cup {taken}
      BY <1>18, <2>3 DEF LoseTask
    <3>2. stopped' \subseteq Services /\ hurt' \subseteq Services /\ lost' \subseteq Nat
      BY <2>3, <3>1 DEF TypeOK
    <3> QED BY <2>1, <3>2 DEF Pcs
  <2> QED BY <2>2, <2>3
<1>19. CASE WorkerCrashes
  BY <1>18, <1>19 DEF TypeOK, WorkerCrashes, Happens
<1>20. CASE Reboot
  <2>1. /\ mounted' \in [Services -> [Folders -> Volumes \cup {None}]]
        /\ active' \in [Services -> BOOLEAN] /\ started' \subseteq Services
        /\ events' \in Nat
    BY <1>20, <1>s DEF TypeOK, Reboot, Happens
  <2>2. UNCHANGED <<jobs, taken, dir, location, built, initialised, faults>> /\ LoseTask
    BY <1>20 DEF Reboot
  <2> QED BY <1>18, <2>1, <2>2 DEF TypeOK
<1> QED BY <1>2, <1>3, <1>4, <1>5, <1>6, <1>8, <1>9, <1>11, <1>12, <1>13, <1>14, <1>15,
           <1>16, <1>17, <1>19, <1>20 DEF Next, MoveService

-----------------------------------------------------------------------------
(* The control of the worker                                               *)

\* What any step may do to the control and to the location.
LEMMA ControlStep ==
    ASSUME Next
    PROVE  /\ UNCHANGED initialised
           /\ pc' \in {"stop", "unbind", "move", "copy"} =>
                 /\ pc # "idle" /\ UNCHANGED location
                 /\ \/ pc \in {"stop", "unbind", "move", "copy"}
                    \/ pc = "check" /\ CanMove(S, To) /\ S \in initialised
<1> USE DEF local, disk, place, past
<1>1. ASSUME NEW s \in Services, NEW v \in Volumes, Request(s, v)
      PROVE  UNCHANGED <<pc, location, initialised>>
  BY <1>1 DEF Request
<1>2. ASSUME NEW s \in Services, UserStarts(s) \/ UserStops(s)
      PROVE  UNCHANGED <<pc, location, initialised>>
  BY <1>2 DEF UserStarts, UserStops
<1>3. CASE Take \/ Reregister \/ Rebuild \/ Finish \/ Start \/ StartTimesOut \/ Fail
           \/ WorkerCrashes \/ Reboot
  BY <1>3 DEF Take, Reregister, Rebuild, Finish, Start, StartTimesOut, Fail, WorkerCrashes,
     Reboot, LoseTask, Leave
<1>4. CASE Check \/ StopService \/ StopTimesOut
  BY <1>4 DEF Check, StopService, StopTimesOut
<1>5. CASE Unbind \/ StartCopy \/ FinishCopy
  BY <1>5 DEF Unbind, StartCopy, FinishCopy, NextFolder
<1>6. CASE UnbindFails \/ MoveRefused \/ CopyFails \/ RemoveFails \/ BindFails
  BY <1>6 DEF UnbindFails, MoveRefused, CopyFails, RemoveFails, BindFails, Raise, Exit
<1>7. CASE Own \/ ReportMount \/ Bind \/ Register
  BY <1>7 DEF Own, ReportMount, Bind, Register, NextFolder
<1> QED BY <1>1, <1>2, <1>3, <1>4, <1>5, <1>6, <1>7 DEF Next, MoveService

\* The volume that a service leaves, and stays on while its location does.
LEMMA OldOfMove ==
    ASSUME CanMove(S, To), To \in Volumes
    PROVE  Old \in Volumes /\ CanonicalName[Old] = location[S] /\ Old # To
  BY DEF CanMove, Named, Old, Drive

LEMMA OldStep ==
    ASSUME UNCHANGED location, S' = S
    PROVE  Old' = Old
  BY DEF Old, Drive

LEMMA TargetStep ==
    ASSUME TypeOK, TargetInv, Next
    PROVE  TargetInv'
<1> SUFFICES ASSUME pc' \in {"stop", "unbind", "move", "copy"}
             PROVE  /\ S' \in initialised'
                    /\ Old' \in Volumes /\ CanonicalName[Old'] = location'[S'] /\ Old' # To'
  BY DEF TargetInv
<1>1. /\ pc # "idle" /\ UNCHANGED <<location, initialised>>
      /\ \/ pc \in {"stop", "unbind", "move", "copy"}
         \/ pc = "check" /\ CanMove(S, To) /\ S \in initialised
  BY ControlStep
<1>2. S' = S /\ To' = To /\ Old' = Old /\ To \in Volumes
  BY <1>1, JobsStep, OldStep, JobAtHand
<1> QED BY <1>1, <1>2, OldOfMove DEF TargetInv

-----------------------------------------------------------------------------
(* Services that run                                                       *)

LEMMA DownStep ==
    ASSUME TypeOK, DownWhileMoved, Next
    PROVE  DownWhileMoved'
<1> DEFINE Pcs7 == {"unbind", "move", "copy", "own", "mount", "bind", "register"}
<1> USE DEF local, disk, place, past
<1> SUFFICES ASSUME pc' \in Pcs7, active'[S']
             PROVE  S' \in started'
  BY DEF DownWhileMoved
<1>1. pc # "idle" => S' = S /\ S \in Services
  BY JobsStep, JobAtHand
<1>2. pc \in Pcs7 /\ active[S] => S \in started
  BY DEF DownWhileMoved
<1>3. ASSUME NEW s \in Services, NEW v \in Volumes, Request(s, v)
      PROVE  S' \in started'
  BY <1>1, <1>2, <1>3 DEF Request
<1>4. ASSUME NEW s \in Services, UserStarts(s) \/ UserStops(s)
      PROVE  S' \in started'
  <2>1. active' = [active EXCEPT ![s] = TRUE] \/ active' = [active EXCEPT ![s] = FALSE]
    BY <1>4 DEF UserStarts, UserStops
  <2>2. /\ UNCHANGED pc /\ (UserStarts(s) => started' = started \cup {s})
        /\ (UserStops(s) => started' = started /\ ~active'[s])
    BY <1>4 DEF UserStarts, UserStops, TypeOK
  <2>3. S # s => active'[S] = active[S]
    BY <1>1, <2>1, <2>2 DEF TypeOK
  <2> QED BY <1>1, <1>2, <1>4, <2>2, <2>3
<1>5. CASE Take \/ Check \/ Reregister \/ StopTimesOut \/ Rebuild \/ Finish \/ Start
           \/ StartTimesOut \/ Fail \/ WorkerCrashes \/ Reboot
  BY <1>5 DEF Take, Check, Reregister, StopTimesOut, Rebuild, Finish, Start, StartTimesOut,
     Fail, WorkerCrashes, Reboot, LoseTask, Leave
<1>6. CASE StopService
  BY <1>1, <1>6 DEF StopService, SetActive, TypeOK
<1>7. CASE Unbind \/ StartCopy \/ FinishCopy \/ Own \/ ReportMount \/ Bind
  <2>1. pc \in Pcs7 /\ UNCHANGED <<active, started>>
    BY <1>7 DEF Unbind, StartCopy, FinishCopy, Own, ReportMount, Bind
  <2> QED BY <1>1, <1>2, <2>1
<1>8. CASE UnbindFails \/ MoveRefused \/ CopyFails \/ RemoveFails \/ BindFails \/ Register
  BY <1>8 DEF UnbindFails, MoveRefused, CopyFails, RemoveFails, BindFails, Register,
     Raise, Exit
<1> QED BY <1>3, <1>4, <1>5, <1>6, <1>7, <1>8 DEF Next, MoveService

LEMMA StoppedStep ==
    ASSUME TypeOK, StoppedInv, Next
    PROVE  StoppedInv'
<1> USE DEF local, disk, place, past, Entered
<1>0. pc # "idle" => S' = S
  BY JobsStep
<1>1. /\ pc \in Entered => stopped \subseteq {S}
      /\ pc \notin Entered => stopped = {}
  BY DEF StoppedInv
<1> SUFFICES /\ pc' \in Entered => stopped' \subseteq {S'}
             /\ pc' \notin Entered => stopped' = {}
  BY DEF StoppedInv
<1>2. ASSUME NEW s \in Services, NEW v \in Volumes, Request(s, v)
      PROVE  UNCHANGED <<pc, stopped>>
  BY <1>2 DEF Request
<1>3. ASSUME NEW s \in Services, UserStarts(s) \/ UserStops(s)
      PROVE  UNCHANGED <<pc, stopped>>
  BY <1>3 DEF UserStarts, UserStops
<1>4. CASE UNCHANGED <<pc, stopped>>
  BY <1>0, <1>1, <1>4
<1>5. CASE Take \/ Check \/ Reregister \/ StopTimesOut \/ Fail
  BY <1>1, <1>5 DEF Take, Check, Reregister, StopTimesOut, Fail, Leave
<1>6. CASE StopService
  BY <1>0, <1>1, <1>6 DEF StopService
<1>7. CASE Unbind \/ StartCopy \/ FinishCopy \/ Own \/ ReportMount \/ Bind \/ Register
           \/ Rebuild \/ Finish
  BY <1>0, <1>1, <1>7 DEF Unbind, StartCopy, FinishCopy, Own, ReportMount, Bind, Register,
     Rebuild, Finish, NextFolder
<1>8. CASE UnbindFails \/ MoveRefused \/ CopyFails \/ RemoveFails \/ BindFails
  BY <1>0, <1>1, <1>8 DEF UnbindFails, MoveRefused, CopyFails, RemoveFails, BindFails,
     Raise, Exit
<1>9. CASE Start \/ StartTimesOut
  BY <1>1, <1>9 DEF Start, StartTimesOut, Leave
<1>10. CASE WorkerCrashes \/ Reboot
  BY <1>1, <1>10 DEF WorkerCrashes, Reboot, LoseTask, Leave
<1> QED BY <1>2, <1>3, <1>4, <1>5, <1>6, <1>7, <1>8, <1>9, <1>10 DEF Next, MoveService

-----------------------------------------------------------------------------
(* Data                                                                    *)

\* Only a copy changes directories, and it begins with StartCopy.
LEMMA DirStep ==
    ASSUME Next
    PROVE  /\ UNCHANGED dir \/ StartCopy \/ FinishCopy \/ RemoveFails
           /\ pc' = "copy" =>
                StartCopy \/ (pc = "copy" /\ UNCHANGED <<dir, i, fresh>>)
<1> USE DEF local, disk, place, past
<1>1. ASSUME NEW s \in Services, NEW v \in Volumes, Request(s, v)
      PROVE  UNCHANGED <<pc, i, fresh, dir>>
  BY <1>1 DEF Request
<1>2. ASSUME NEW s \in Services, UserStarts(s) \/ UserStops(s)
      PROVE  UNCHANGED <<pc, i, fresh, dir>>
  BY <1>2 DEF UserStarts, UserStops
<1>3. CASE Take \/ Check \/ Reregister \/ StopService \/ StopTimesOut \/ Rebuild \/ Finish
           \/ Start \/ StartTimesOut \/ Fail \/ WorkerCrashes \/ Reboot
  BY <1>3 DEF Take, Check, Reregister, StopService, StopTimesOut, Rebuild, Finish, Start,
     StartTimesOut, Fail, WorkerCrashes, Reboot, LoseTask, Leave
<1>4. CASE UnbindFails \/ MoveRefused \/ CopyFails \/ BindFails
  BY <1>4 DEF UnbindFails, MoveRefused, CopyFails, BindFails, Raise, Exit
<1>5. CASE Unbind \/ Own \/ ReportMount \/ Bind \/ Register
  BY <1>5 DEF Unbind, Own, ReportMount, Bind, Register, NextFolder
<1>6. CASE FinishCopy \/ RemoveFails
  BY <1>6 DEF FinishCopy, RemoveFails, NextFolder, Raise, Exit
<1>7. CASE StartCopy
  BY <1>7
<1> QED BY <1>1, <1>2, <1>3, <1>4, <1>5, <1>6, <1>7 DEF Next, MoveService

LEMMA DataStep ==
    ASSUME TypeOK, TargetInv, CopyInv, NoDataLost, Next
    PROVE  NoDataLost' /\ CopyInv'
<1> DEFINE Whole == {"whole", "nested"}
<1>0. UNCHANGED initialised /\ initialised \subseteq Services
  BY ControlStep DEF TypeOK
<1>1. pc \in {"move", "copy"} =>
         /\ S \in Services /\ To \in Volumes /\ Old \in Volumes /\ Old # To /\ i \in Folders
         /\ S \in initialised
         /\ dir[S][i][Old] \in DirStates /\ dir[S][i][To] \in DirStates
         /\ S' = S /\ To' = To
  BY JobAtHand, JobsStep DEF TypeOK, TargetInv
<1>c. "none" \in DirStates /\ "part" \in DirStates /\ fresh \in BOOLEAN
  BY DEF DirStates, TypeOK
<1>2. ASSUME NEW old \in DirStates, NEW new \in DirStates, SetDirs(old, new),
             pc \in {"move", "copy"},
             new \in Whole \/ old \in Whole \/
                /\ dir[S][i][Old] \notin Whole /\ dir[S][i][To] \notin Whole
      PROVE  NoDataLost'
  <2> SUFFICES ASSUME NEW s \in initialised, NEW f \in Folders
               PROVE  \E v \in Volumes : dir'[s][f][v] \in Whole
    BY <1>0 DEF NoDataLost
  <2>1. PICK v \in Volumes : dir[s][f][v] \in Whole
    BY DEF NoDataLost
  <2>2. CASE ~(s = S /\ f = i)
    BY <1>0, <1>2, <2>1, <2>2, SetDirsEffect
  <2>3. CASE s = S /\ f = i
    <3>1. dir'[S][i] = [w \in Volumes |-> IF w = To THEN new
                                         ELSE IF w = Old THEN old ELSE dir[S][i][w]]
      BY <1>2, SetDirsEffect
    <3>2. CASE new \in Whole
      BY <1>1, <1>2, <2>3, <3>1, <3>2
    <3>3. CASE old \in Whole
      BY <1>1, <1>2, <2>3, <3>1, <3>3
    <3>4. CASE dir[S][i][Old] \notin Whole /\ dir[S][i][To] \notin Whole
      BY <2>1, <2>3, <3>1, <3>4
    <3> QED BY <1>2, <3>2, <3>3, <3>4
  <2> QED BY <2>2, <2>3
<1>3. CASE StartCopy
  <2> DEFINE new == IF dir[S][i][To] = "none" THEN "part" ELSE dir[S][i][To]
  <2>1. /\ pc = "move" /\ SetDirs(dir[S][i][Old], new)
        /\ fresh' = (dir[S][i][To] = "none") /\ i' = i /\ pc' = "copy"
    BY <1>3 DEF StartCopy
  <2>2. new \in DirStates /\ (dir[S][i][To] \in Whole => new \in Whole) /\ new # "none"
    BY <1>1, <1>c, <2>1
  <2>3. NoDataLost'
    BY <1>1, <1>2, <2>1, <2>2
  <2>4. dir'[S][i][To] = new
    BY <1>1, <2>1, <2>2, SetDirsEffect
  <2>5. CopyInv'
    BY <1>1, <2>1, <2>2, <2>4 DEF CopyInv
  <2> QED BY <2>3, <2>5
<1>4. CASE FinishCopy \/ RemoveFails
  <2> DEFINE x == dir[S][i][Old]
             y == dir[S][i][To]
  <2>1. /\ pc = "copy" /\ pc' # "copy"
        /\ SetDirs("none", Arrived(x, y)) \/ SetDirs("part", Arrived(x, y))
    <3>1. /\ pc = "copy"
          /\ SetDirs("none", Arrived(x, y)) \/ SetDirs("part", Arrived(x, y))
      BY <1>4 DEF FinishCopy, RemoveFails
    <3>2. FinishCopy => pc' # "copy"
      BY DEF FinishCopy, NextFolder
    <3>3. RemoveFails => pc' # "copy"
      BY DEF RemoveFails, Raise, Exit
    <3> QED BY <1>4, <3>1, <3>2, <3>3
  <2>2. x \in DirStates /\ y \in DirStates /\ (fresh => y = "part") /\ (~fresh => y # "none")
    BY <1>1, <2>1 DEF CopyInv
  <2>3. Arrived(x, y) \in DirStates
    BY <1>c, <2>2, ArrivedType
  <2>4. x \in Whole \/ y \in Whole => Arrived(x, y) \in Whole
    <3>1. y \in Whole \/ y = "part" \/ y = "none"
      BY <2>2 DEF DirStates
    <3> QED BY <1>c, <2>2, <3>1, ArrivedType
  <2>5. NoDataLost'
    BY <1>2, <1>c, <2>1, <2>3, <2>4
  <2> QED BY <2>1, <2>5 DEF CopyInv
<1>5. CASE UNCHANGED dir /\ ~StartCopy
  <2>1. NoDataLost'
    BY <1>0, <1>5 DEF NoDataLost
  <2>2. CopyInv'
    BY <1>1, <1>5, DirStep DEF CopyInv
  <2> QED BY <2>1, <2>2
<1> QED BY <1>3, <1>4, <1>5, DirStep

-----------------------------------------------------------------------------
(* Folders                                                                 *)

FoldersTypeOK == TypeOK /\ TargetInv /\ FoldersInv

\* A service that is not at hand keeps its folders.
LEMMA OtherFolder ==
    ASSUME FoldersInv, NEW s \in Intact, NEW f \in Folders, ~Moving(s), ~Moving(s)',
           dir'[s][f] = dir[s][f]
    PROVE  FolderInv(s, f)'
<1>1. PICK v \in Volumes : Alone(s, f, v)
  BY DEF FoldersInv, FolderInv
<1>2. Alone(s, f, v)'
  BY <1>1 DEF Alone
<1> QED BY <1>2 DEF FolderInv

\* So does the service at hand when its move is over, or has not begun.
LEMMA FolderAtRest ==
    ASSUME FoldersInv, NEW s \in Intact, NEW f \in Folders, ~Copying(f),
           pc' \in {"idle", "check", "start", "fail"}, UNCHANGED dir
    PROVE  FolderInv(s, f)'
<1>1. PICK v \in Volumes : Alone(s, f, v)
  BY DEF FoldersInv, FolderInv
<1>2. Alone(s, f, v)'
  BY <1>1 DEF Alone
<1> QED BY <1>2 DEF FolderInv, Waiting, Copying, Moved, Bound

\* A step of a move that leaves the service at hand intact.
LEMMA MoveStep ==
    ASSUME FoldersTypeOK, pc # "idle", pc' # "idle", UNCHANGED <<initialised, hurt>>,
           S' = S,
           \A s \in Services, f \in Folders : s # S => dir'[s][f] = dir[s][f],
           S \in Intact => \A f \in Folders : FolderInv(S, f)',
           pc' \in {"own", "mount"} => i' = 1,
           pc' \in {"rebuild", "finish"} => location'[S] = To'
    PROVE  FoldersInv'
<1>1. Intact' = Intact /\ Intact \subseteq Services
  BY DEF Intact, FoldersTypeOK, TypeOK
<1>2. ASSUME NEW s \in Intact, NEW f \in Folders, s # S
      PROVE  FolderInv(s, f)'
  BY <1>1, <1>2, OtherFolder DEF Moving, FoldersTypeOK
<1>3. \A s \in Intact, f \in Folders : FolderInv(s, f)'
  BY <1>2
<1> QED BY <1>1, <1>3 DEF FoldersInv

\* A step that ends a task, or breaks off its move.
LEMMA RestStep ==
    ASSUME FoldersTypeOK, pc' \in {"idle", "check", "start", "fail"},
           UNCHANGED <<initialised>>,
           pc = "idle" \/ S' = S,
           \/ UNCHANGED <<dir, hurt>> /\ pc # "copy"
           \/ /\ pc # "idle" /\ hurt' = hurt \cup {S}
              /\ \A s \in Services, f \in Folders : s # S => dir'[s][f] = dir[s][f]
    PROVE  FoldersInv'
<1>1. Intact' \subseteq Intact /\ Intact \subseteq Services
  BY DEF Intact, FoldersTypeOK, TypeOK
<1>2. ASSUME NEW s \in Intact', NEW f \in Folders
      PROVE  FolderInv(s, f)'
  <2>1. CASE UNCHANGED <<dir, hurt>> /\ pc # "copy"
    BY <1>1, <2>1, FolderAtRest DEF Copying, FoldersTypeOK
  <2>2. CASE /\ pc # "idle" /\ hurt' = hurt \cup {S}
             /\ \A t \in Services, g \in Folders : t # S => dir'[t][g] = dir[t][g]
    <3>1. s # S /\ s \in Intact
      BY <1>1, <2>2 DEF Intact
    <3> QED BY <1>1, <2>2, <3>1, OtherFolder DEF Moving, FoldersTypeOK
  <2> QED BY <2>1, <2>2
<1> QED BY <1>2 DEF FoldersInv

\* The service at hand, phase by phase.
LEMMA FolderOfMove ==
    ASSUME FoldersTypeOK, pc # "idle", S \in Intact
    PROVE  \A f \in Folders :
              /\ Waiting(f) => Alone(S, f, Old)
              /\ Copying(f) => fresh
              /\ Copying(f) => dir[S][f] = [w \in Volumes |-> IF w = Old THEN "whole"
                                     ELSE IF w = To THEN "part" ELSE "none"]
              /\ Moved(f) => Alone(S, f, To)
              /\ Bound(f) => mounted[S][f] = To
              /\ ~Copying(f) => \E v \in Volumes : Alone(S, f, v)
  BY DEF FoldersTypeOK, FoldersInv, FolderInv, Moving

\* A folder that no copy touches, when its phase is the same or a later one of
\* the same kind.
LEMMA FolderKept ==
    ASSUME FoldersTypeOK, pc # "idle", S \in Intact, NEW f \in Folders,
           S' = S, To' = To, Waiting(f)' => Waiting(f) /\ Old' = Old,
           Copying(f)' => Copying(f) /\ UNCHANGED fresh /\ Old' = Old,
           Copying(f) => Copying(f)', Moved(f)' => Moved(f),
           Bound(f)' => mounted'[S][f] = To, dir'[S][f] = dir[S][f]
    PROVE  FolderInv(S, f)'
<1>1. /\ Waiting(f) => Alone(S, f, Old)
      /\ Copying(f) => fresh
      /\ Copying(f) => dir[S][f] = [w \in Volumes |-> IF w = Old THEN "whole"
                                     ELSE IF w = To THEN "part" ELSE "none"]
      /\ Moved(f) => Alone(S, f, To)
      /\ ~Copying(f) => \E v \in Volumes : Alone(S, f, v)
  BY FolderOfMove
<1>2. Waiting(f)' => Alone(S, f, Old)'
  BY <1>1 DEF Alone
<1>3. Copying(f)' => /\ fresh'
                     /\ dir'[S][f] = [w \in Volumes |-> IF w = Old' THEN "whole"
                                     ELSE IF w = To' THEN "part" ELSE "none"]
  BY <1>1
<1>4. Moved(f)' => Alone(S, f, To)'
  BY <1>1 DEF Alone
<1>5. ASSUME ~Copying(f)'
      PROVE  \E v \in Volumes : Alone(S, f, v)'
  <2>1. PICK v \in Volumes : Alone(S, f, v)
    BY <1>1, <1>5
  <2> QED BY <2>1 DEF Alone
<1>6. Copying(f)' => Moving(S)'
  BY DEF Copying, Moving
<1> QED BY <1>2, <1>3, <1>4, <1>5, <1>6 DEF FolderInv

LEMMA FoldersStep ==
    ASSUME FoldersTypeOK, Next
    PROVE  FoldersInv'
<1> USE DEF local, disk, place, past
<1>0. /\ UNCHANGED initialised /\ Intact \subseteq Services
      /\ NumFolders \in Nat /\ i \in Folders /\ 1 \in Folders
      /\ Folders = 1 .. NumFolders /\ None \notin Volumes
  BY ControlStep, MoveVolumesAssumption, MoveFoldersAssumption
     DEF Intact, FoldersTypeOK, TypeOK, Folders
<1>1. pc # "idle" => /\ S \in Services /\ To \in Volumes
                     /\ S' = S /\ To' = To /\ (location' = location => Old' = Old)
  BY JobAtHand, JobsStep, OldStep DEF FoldersTypeOK
<1>2. pc \in {"stop", "unbind", "move", "copy"} => Old \in Volumes /\ Old # To
  BY DEF FoldersTypeOK, TargetInv
<1> USE <1>0, <1>1
<1>3. ASSUME UNCHANGED <<pc, i, fresh, dir, mounted, location, hurt>>
      PROVE  FoldersInv'
  <2>1. pc = "idle" => FoldersInv'
    BY <1>3, RestStep DEF FoldersTypeOK
  <2>2. ASSUME pc # "idle"
        PROVE  FoldersInv'
    <3>1. ASSUME S \in Intact, NEW f \in Folders
          PROVE  FolderInv(S, f)'
      <4>1. Bound(f) => mounted[S][f] = To
        BY <2>2, <3>1, FolderOfMove
      <4> QED BY <1>3, <2>2, <3>1, <4>1, FolderKept DEF Waiting, Copying, Moved, Bound
    <3> QED BY <1>3, <2>2, <3>1, MoveStep DEF FoldersTypeOK, FoldersInv
  <2> QED BY <2>1, <2>2
<1>4. ASSUME NEW s \in Services, NEW v \in Volumes, Request(s, v)
      PROVE  FoldersInv'
  BY <1>3, <1>4 DEF Request
<1>5. ASSUME NEW s \in Services, UserStarts(s) \/ UserStops(s)
      PROVE  FoldersInv'
  BY <1>3, <1>5 DEF UserStarts, UserStops
<1>6. CASE Take \/ StopTimesOut \/ Start \/ StartTimesOut \/ Fail \/ Finish
  <2>1. /\ UNCHANGED <<dir, hurt>> /\ pc # "copy"
        /\ pc' \in {"idle", "check", "start", "fail"}
    BY <1>6 DEF Take, StopTimesOut, Start, StartTimesOut, Fail, Finish, Leave
  <2> QED BY <2>1, RestStep
<1>7. CASE Reregister
  <2>1. UNCHANGED <<dir, hurt>> /\ pc = "check" /\ pc' = "idle"
    BY <1>7 DEF Reregister, Leave
  <2> QED BY <2>1, RestStep
<1>8. CASE Check
  <2>1. CASE pc' = "fail"
    BY <1>8, <2>1, RestStep DEF Check
  <2>2. CASE pc' = "stop"
    <3>1. /\ pc = "check" /\ CanMove(S, To) /\ S \in initialised
          /\ UNCHANGED <<dir, mounted, location, hurt>>
      BY <1>8, <2>2 DEF Check
    <3>2. Old \in Volumes
      BY <3>1, OldOfMove
    <3>3. ASSUME S \in Intact, NEW f \in Folders
          PROVE  FolderInv(S, f)'
      <4>1. PICK v \in Volumes : Alone(S, f, v)
        BY <3>1, <3>3, FolderOfMove DEF Copying
      <4>2. dir[S][f][Old] # "none"
        BY <3>1 DEF CanMove, Old
      <4>3. v = Old
        BY <3>2, <4>1, <4>2 DEF Alone
      <4> QED BY <2>2, <3>1, <3>2, <4>1, <4>3
              DEF FolderInv, Waiting, Copying, Moved, Bound, Alone
    <3> QED BY <2>2, <3>1, <3>3, MoveStep
  <2> QED BY <1>8, <2>1, <2>2 DEF Check
<1>9. CASE StopService
  <2>1. /\ pc = "stop" /\ pc' = "unbind" /\ UNCHANGED <<dir, mounted, location, hurt, i>>
    BY <1>9 DEF StopService
  <2>2. ASSUME S \in Intact, NEW f \in Folders
        PROVE  FolderInv(S, f)'
    BY <2>1, <2>2, FolderKept DEF Waiting, Copying, Moved, Bound
  <2> QED BY <2>1, <2>2, MoveStep
<1>10. CASE Unbind
  <2>1. /\ pc = "unbind" /\ (pc' = "unbind" \/ (pc' = "move" /\ i' = 1))
        /\ UNCHANGED <<dir, location, hurt>>
    BY <1>10 DEF Unbind, NextFolder
  <2>2. ASSUME S \in Intact, NEW f \in Folders
        PROVE  FolderInv(S, f)'
    BY <2>1, <2>2, FolderKept DEF Waiting, Copying, Moved, Bound
  <2> QED BY <2>1, <2>2, MoveStep
<1>11. CASE UnbindFails \/ MoveRefused \/ CopyFails \/ BindFails
  <2>1. Raise /\ UNCHANGED dir /\ pc # "idle"
    BY <1>11 DEF UnbindFails, MoveRefused, CopyFails, BindFails
  <2> QED BY <2>1, RestStep DEF Raise, Exit
<1>12. CASE StartCopy
  <2> DEFINE new == IF dir[S][i][To] = "none" THEN "part" ELSE dir[S][i][To]
  <2>1. /\ pc = "move" /\ pc' = "copy" /\ SetDirs(dir[S][i][Old], new)
        /\ fresh' = (dir[S][i][To] = "none")
        /\ UNCHANGED <<i, mounted, location, hurt>>
    BY <1>12 DEF StartCopy
  <2>2. dir[S][i][Old] \in DirStates /\ new \in DirStates
    BY <1>2, <2>1 DEF FoldersTypeOK, TypeOK, DirStates
  <2>3. /\ \A s \in Services, f \in Folders : ~(s = S /\ f = i) => dir'[s][f] = dir[s][f]
        /\ dir'[S][i] = [v \in Volumes |-> IF v = To THEN new
                              ELSE IF v = Old THEN dir[S][i][Old] ELSE dir[S][i][v]]
    BY <2>1, <2>2, SetDirsEffect DEF FoldersTypeOK
  <2>4. ASSUME S \in Intact, NEW f \in Folders
        PROVE  FolderInv(S, f)'
    <3>1. CASE f = i
      <4>1. Alone(S, i, Old)
        <5>1. Waiting(i)
          BY <2>1 DEF Waiting
        <5> QED BY <2>1, <2>4, <5>1, FolderOfMove
      <4>2. /\ \A w \in Volumes : dir[S][i][w] = IF w = Old THEN "whole" ELSE "none"
            /\ new = "part" /\ fresh'
        BY <1>2, <2>1, <4>1 DEF Alone
      <4>3. dir'[S][i] = [w \in Volumes |-> IF w = Old THEN "whole"
                                         ELSE IF w = To THEN "part" ELSE "none"]
        BY <1>2, <2>1, <2>3, <4>2
      <4> QED BY <2>1, <3>1, <4>2, <4>3
              DEF FolderInv, Moving, Waiting, Copying, Moved, Bound
    <3>2. CASE f # i
      <4>1. /\ f > i => Alone(S, f, Old)
            /\ f < i => Alone(S, f, To)
            /\ \E v \in Volumes : Alone(S, f, v)
        BY <2>1, <2>4, FolderOfMove DEF Waiting, Moved, Copying
      <4>2. dir'[S][f] = dir[S][f]
        BY <2>1, <2>3, <3>2
      <4> QED BY <2>1, <3>2, <4>1, <4>2
              DEF FolderInv, Moving, Waiting, Copying, Moved, Bound, Alone
    <3> QED BY <3>1, <3>2
  <2> QED BY <2>1, <2>3, <2>4, MoveStep
<1>13. CASE FinishCopy
  <2> DEFINE x == dir[S][i][Old]
             y == dir[S][i][To]
  <2>1. /\ pc = "copy" /\ SetDirs("none", Arrived(x, y))
        /\ UNCHANGED <<mounted, location, hurt>>
        /\ \/ pc' = "move" /\ i < NumFolders /\ i' = i + 1
           \/ pc' = "own" /\ i = NumFolders /\ i' = 1
    BY <1>13 DEF FinishCopy, NextFolder, Folders
  <2>2. x \in DirStates /\ y \in DirStates /\ "none" \in DirStates /\ fresh \in BOOLEAN
    BY <1>2, <2>1 DEF FoldersTypeOK, TypeOK, DirStates
  <2>3. /\ \A s \in Services, f \in Folders : ~(s = S /\ f = i) => dir'[s][f] = dir[s][f]
        /\ dir'[S][i] = [v \in Volumes |-> IF v = To THEN Arrived(x, y)
                              ELSE IF v = Old THEN "none" ELSE dir[S][i][v]]
    <3>1. Arrived(x, y) \in DirStates
      BY <2>2, ArrivedType
    <3> QED BY <2>1, <2>2, <3>1, SetDirsEffect DEF FoldersTypeOK
  <2>4. ASSUME S \in Intact, NEW f \in Folders
        PROVE  FolderInv(S, f)'
    <3>1. CASE f = i
      <4>1. /\ fresh
            /\ dir[S][i] = [w \in Volumes |-> IF w = Old THEN "whole"
                                         ELSE IF w = To THEN "part" ELSE "none"]
        BY <2>1, <2>4, <3>1, FolderOfMove DEF Copying
      <4>2. /\ x = "whole"
            /\ \A w \in Volumes : w # Old /\ w # To => dir[S][i][w] = "none"
        BY <1>2, <2>1, <4>1
      <4>3. Arrived(x, y) = "whole"
        BY <2>2, <4>1, <4>2, ArrivedType
      <4>4. dir'[S][i] = [w \in Volumes |-> IF w = To THEN "whole" ELSE "none"]
        BY <2>3, <4>2, <4>3
      <4> QED BY <2>1, <3>1, <4>4
              DEF FolderInv, Moving, Waiting, Copying, Moved, Bound, Alone
    <3>2. CASE f # i
      <4>1. /\ f > i => Alone(S, f, Old)
            /\ f < i => Alone(S, f, To)
            /\ \E v \in Volumes : Alone(S, f, v)
        BY <2>1, <2>4, <3>2, FolderOfMove DEF Waiting, Moved, Copying
      <4>2. dir'[S][f] = dir[S][f]
        BY <2>1, <2>3, <3>2
      <4> QED BY <2>1, <3>2, <4>1, <4>2
              DEF FolderInv, Moving, Waiting, Copying, Moved, Bound, Alone
    <3> QED BY <3>1, <3>2
  <2> QED BY <2>1, <2>3, <2>4, MoveStep
<1>14. CASE RemoveFails
  <2>1. /\ pc = "copy" /\ Raise
        /\ SetDirs("part", Arrived(dir[S][i][Old], dir[S][i][To]))
    BY <1>14 DEF RemoveFails
  <2>2. \A s \in Services, f \in Folders : s # S => dir'[s][f] = dir[s][f]
    <3>1. /\ dir[S][i][Old] \in DirStates /\ dir[S][i][To] \in DirStates
          /\ fresh \in BOOLEAN /\ "part" \in DirStates
      BY <1>2, <2>1 DEF FoldersTypeOK, TypeOK, DirStates
    <3>2. Arrived(dir[S][i][Old], dir[S][i][To]) \in DirStates
      BY <3>1, ArrivedType
    <3> QED BY <2>1, <3>1, <3>2, SetDirsEffect DEF FoldersTypeOK
  <2> QED BY <2>1, <2>2, RestStep DEF Raise, Exit
<1>15. CASE Own \/ ReportMount
  <2>1. /\ \/ pc = "own" /\ pc' = "mount"
           \/ pc = "mount" /\ pc' = "bind"
        /\ UNCHANGED <<dir, mounted, location, hurt, i>>
    BY <1>15 DEF Own, ReportMount
  <2>2. i = 1
    BY <2>1 DEF FoldersTypeOK, FoldersInv
  <2>3. ASSUME S \in Intact, NEW f \in Folders
        PROVE  FolderInv(S, f)'
    BY <2>1, <2>2, <2>3, FolderKept DEF Waiting, Copying, Moved, Bound
  <2> QED BY <2>1, <2>2, <2>3, MoveStep
<1>16. CASE Bind
  <2>1. /\ pc = "bind" /\ mounted' = [mounted EXCEPT ![S][i] = To]
        /\ UNCHANGED <<dir, location, hurt>>
        /\ \/ pc' = "bind" /\ i' = i + 1
           \/ pc' = "register" /\ i = NumFolders
    BY <1>16 DEF Bind, SetMount, BindSource, NextFolder, Folders
  <2>2. ASSUME S \in Intact, NEW f \in Folders
        PROVE  FolderInv(S, f)'
    <3>1. f < i => mounted[S][f] = To
      BY <2>1, <2>2, FolderOfMove DEF Bound
    <3>2. Bound(f)' => mounted'[S][f] = To
      BY <2>1, <3>1 DEF Bound, FoldersTypeOK, TypeOK
    <3> QED BY <2>1, <2>2, <3>2, FolderKept DEF Waiting, Copying, Moved
  <2> QED BY <2>1, <2>2, MoveStep
<1>17. CASE Register
  <2>1. /\ pc = "register" /\ pc' = "rebuild" /\ location' = [location EXCEPT ![S] = To]
        /\ UNCHANGED <<dir, mounted, hurt, i>>
    BY <1>17 DEF Register, SetLocation
  <2>2. ASSUME S \in Intact, NEW f \in Folders
        PROVE  FolderInv(S, f)'
    <3>1. mounted[S][f] = To
      BY <2>1, <2>2, FolderOfMove DEF Bound
    <3> QED BY <2>1, <2>2, <3>1, FolderKept DEF Waiting, Copying, Moved
  <2>3. location'[S] = To'
    BY <2>1 DEF FoldersTypeOK, TypeOK
  <2> QED BY <2>1, <2>2, <2>3, MoveStep
<1>18. CASE Rebuild
  <2>1. /\ pc = "rebuild" /\ pc' = "finish" /\ UNCHANGED <<dir, location, hurt, i>>
        /\ location[S] = To
        /\ \/ mounted' = mounted
           \/ mounted' = [s \in Services |-> [f \in Folders |->
                             IF mounted[s][f] # None THEN mounted[s][f]
                             ELSE Source(s, f, location[s])]]
    BY <1>18 DEF Rebuild, FoldersTypeOK, FoldersInv
  <2>2. ASSUME S \in Intact, NEW f \in Folders
        PROVE  FolderInv(S, f)'
    <3>1. mounted[S][f] = To
      BY <2>1, <2>2, FolderOfMove DEF Bound
    <3>2. mounted'[S][f] = To
      BY <2>1, <3>1
    <3> QED BY <2>1, <2>2, <3>2, FolderKept DEF Waiting, Copying, Moved
  <2> QED BY <2>1, <2>2, MoveStep
<1>19. CASE WorkerCrashes \/ Reboot
  <2>1. /\ pc' = "idle" /\ UNCHANGED dir
        /\ IF pc = "idle" THEN UNCHANGED hurt ELSE hurt' = hurt \cup {S}
    BY <1>19 DEF WorkerCrashes, Reboot, LoseTask, Leave
  <2> QED BY <2>1, RestStep
<1> QED BY <1>4, <1>5, <1>6, <1>7, <1>8, <1>9, <1>10, <1>11, <1>12, <1>13, <1>14, <1>15,
           <1>16, <1>17, <1>18, <1>19 DEF Next, MoveService

-----------------------------------------------------------------------------
(* Home                                                                    *)

Canonical == \A v \in Volumes : CanonicalName[v] = v

LEMMA HomeKept ==
    ASSUME Canonical, HomeInv, NEW s \in Intact, NEW f \in Folders,
           ~(Moving(s) /\ pc \in Away), dir'[s][f] = dir[s][f],
           mounted'[s][f] = mounted[s][f], location'[s] = location[s], built'[s] = built[s]
    PROVE  AtHome(s, f)'
<1>1. AtHome(s, f)
  BY DEF HomeInv, Canonical
<1> QED BY <1>1 DEF AtHome, Alone

LEMMA HomeStep ==
    ASSUME FoldersTypeOK, HomeInv, Next
    PROVE  HomeInv'
<1> USE DEF local, disk, place, past
<1> DEFINE HomeNext ==
       /\ \A s \in Services : location'[s] \in Volumes /\ built'[s] \in Volumes
       /\ \A s \in Intact', f \in Folders :
             ~(Moving(s)' /\ pc' \in Away) => AtHome(s, f)'
<1> SUFFICES ASSUME Canonical
             PROVE  HomeNext
  BY DEF HomeInv, Canonical
<1>0. /\ UNCHANGED initialised /\ Intact \subseteq Services /\ None \notin Volumes
      /\ location \in [Services -> Volumes] /\ built \in [Services -> Volumes]
      /\ mounted \in [Services -> [Folders -> Volumes \cup {None}]]
  BY ControlStep, MoveVolumesAssumption
     DEF Intact, FoldersTypeOK, TypeOK, HomeInv, Canonical
<1>1. pc # "idle" => /\ S \in Services /\ To \in Volumes /\ i \in Folders
                     /\ S' = S /\ To' = To
  BY JobAtHand, JobsStep DEF FoldersTypeOK, TypeOK
<1> USE <1>0, <1>1
\* Nothing moves, and the service at hand is not away.
<1>2. ASSUME UNCHANGED <<dir, mounted, location, built>>, Intact' \subseteq Intact,
             \A s \in Intact' : ~(Moving(s)' /\ pc' \in Away) => ~(Moving(s) /\ pc \in Away)
      PROVE  HomeNext
  BY <1>2, HomeKept DEF HomeInv
\* Only the service at hand is touched, and it is away or broken off.
<1>3. ASSUME pc # "idle", UNCHANGED <<location, built>>, Intact' \subseteq Intact,
             \A s \in Services, f \in Folders :
                s # S => dir'[s][f] = dir[s][f] /\ mounted'[s][f] = mounted[s][f],
             pc' \in Away \/ S \notin Intact'
      PROVE  HomeNext
  BY <1>3, HomeKept DEF HomeInv, Moving, Away
<1>4. ASSUME NEW s \in Services, NEW v \in Volumes, Request(s, v)
      PROVE  HomeNext
  BY <1>2, <1>4 DEF Request, Moving, Intact, Away
<1>5. ASSUME NEW s \in Services, UserStarts(s) \/ UserStops(s)
      PROVE  HomeNext
  BY <1>2, <1>5 DEF UserStarts, UserStops, Moving, Intact, Away
<1>6. CASE Take \/ Check \/ StopTimesOut \/ Start \/ StartTimesOut \/ Fail \/ Finish
  <2>1. UNCHANGED <<dir, mounted, location, built, hurt>> /\ pc \notin Away
    BY <1>6 DEF Take, Check, StopTimesOut, Start, StartTimesOut, Fail, Finish, Away
  <2> QED BY <1>2, <2>1 DEF Intact
<1>7. CASE StopService \/ Own \/ ReportMount
  <2>1. UNCHANGED <<dir, mounted, location, built, hurt>> /\ pc # "idle" /\ pc' \in Away
    BY <1>7 DEF StopService, Own, ReportMount, Away
  <2> QED BY <1>3, <2>1 DEF Intact
<1>8. CASE Unbind \/ Bind
  <2>1. /\ UNCHANGED <<dir, location, built, hurt>> /\ pc # "idle" /\ pc' \in Away
        /\ \E v : mounted' = [mounted EXCEPT ![S][i] = v]
    BY <1>8 DEF Unbind, Bind, SetMount, NextFolder, Away
  <2>2. \A s \in Services, f \in Folders : s # S => mounted'[s][f] = mounted[s][f]
    BY <2>1
  <2> QED BY <1>3, <2>1, <2>2 DEF Intact
<1>9. CASE StartCopy \/ FinishCopy \/ RemoveFails
  <2>1. /\ pc \in {"move", "copy"} /\ UNCHANGED <<mounted, location, built>>
        /\ \E old, new : SetDirs(old, new)
    BY <1>9 DEF StartCopy, FinishCopy, RemoveFails, Raise
  <2>2. \A s \in Services, f \in Folders : s # S => dir'[s][f] = dir[s][f]
    <3>1. dir \in [Services -> [Folders -> [Volumes -> DirStates]]]
      BY DEF FoldersTypeOK, TypeOK
    <3> QED BY <2>1, <3>1 DEF SetDirs
  <2>3. /\ Intact' \subseteq Intact
        /\ pc' \in Away \/ S \notin Intact'
    <3>1. (hurt' = hurt /\ pc' \in Away) \/ hurt' = hurt \cup {S}
      BY <1>9 DEF StartCopy, FinishCopy, RemoveFails, Raise, NextFolder, Away
    <3> QED BY <2>1, <3>1 DEF Intact
  <2> QED BY <1>3, <2>1, <2>2, <2>3
<1>10. CASE UnbindFails \/ MoveRefused \/ CopyFails \/ BindFails
  <2>1. /\ pc # "idle" /\ UNCHANGED <<dir, mounted, location, built>>
        /\ hurt' = hurt \cup {S}
    BY <1>10 DEF UnbindFails, MoveRefused, CopyFails, BindFails, Raise
  <2> QED BY <1>3, <2>1 DEF Intact
<1>11. CASE Reregister
  <2>1. /\ pc = "check" /\ S \notin initialised /\ location' = [location EXCEPT ![S] = To]
        /\ UNCHANGED <<dir, mounted, built, hurt>>
    BY <1>11 DEF Reregister, SetLocation
  <2>2. Intact' = Intact /\ S \notin Intact
    BY <2>1 DEF Intact
  <2>3. \A s \in Intact, f \in Folders : AtHome(s, f)'
    BY <2>1, <2>2, HomeKept DEF Away
  <2>4. \A s \in Services : location'[s] \in Volumes /\ built'[s] \in Volumes
    BY <2>1
  <2> QED BY <2>2, <2>3, <2>4
<1>12. CASE Register
  <2>1. /\ pc = "register" /\ location' = [location EXCEPT ![S] = To]
        /\ UNCHANGED <<dir, mounted, built, hurt>>
    BY <1>12 DEF Register, SetLocation
  <2>2. Intact' = Intact
    BY <2>1 DEF Intact
  <2>3. ASSUME NEW s \in Intact, NEW f \in Folders
        PROVE  AtHome(s, f)'
    <3>1. CASE s # S
      BY <2>1, <3>1, HomeKept DEF Moving
    <3>2. CASE s = S
      <4>1. Alone(S, f, To) /\ mounted[S][f] = To
        BY <2>1, <2>3, <3>2, FolderOfMove DEF Moved, Bound
      <4>2. location'[S] = To
        BY <2>1
      <4> QED BY <2>1, <3>2, <4>1, <4>2 DEF AtHome, Alone
    <3> QED BY <3>1, <3>2
  <2>4. \A s \in Services : location'[s] \in Volumes /\ built'[s] \in Volumes
    BY <2>1
  <2> QED BY <2>2, <2>3, <2>4
\* What a built system mounts, for a service that is at home.
<1>13. ASSUME NEW s \in Intact, NEW f \in Folders, AtHome(s, f),
              NEW loc \in Volumes
       PROVE  Source(s, f, loc) = IF loc = location[s] THEN loc ELSE None
  <2>1. Named(loc) = {loc}
    BY DEF Named, Canonical
  <2>2. dir[s][f][loc] # "none" <=> loc = location[s]
    BY <1>13 DEF AtHome, Alone
  <2> QED BY <2>1, <2>2 DEF Source, Named, Canonical
<1>14. CASE Rebuild
  <2>1. /\ pc = "rebuild" /\ pc' = "finish" /\ UNCHANGED <<dir, location, hurt>>
        /\ \/ UNCHANGED <<mounted, built>>
           \/ /\ built' = location
              /\ mounted' = [s \in Services |-> [f \in Folders |->
                                IF mounted[s][f] # None THEN mounted[s][f]
                                ELSE Source(s, f, location[s])]]
    BY <1>14 DEF Rebuild
  <2>2. Intact' = Intact
    BY <2>1 DEF Intact
  <2>3. CASE UNCHANGED <<mounted, built>>
    BY <1>2, <2>1, <2>2, <2>3 DEF Away
  <2>4. CASE /\ built' = location
             /\ mounted' = [s \in Services |-> [f \in Folders |->
                                IF mounted[s][f] # None THEN mounted[s][f]
                                ELSE Source(s, f, location[s])]]
    <3>1. ASSUME NEW s \in Intact, NEW f \in Folders
          PROVE  AtHome(s, f)'
      <4>1. AtHome(s, f)
        BY <2>1, <3>1 DEF HomeInv, Canonical, Away
      <4>2. mounted'[s][f] = location[s]
        BY <2>4, <4>1, <1>13 DEF AtHome
      <4> QED BY <2>1, <4>1, <4>2 DEF AtHome, Alone
    <3>2. \A s \in Services : location'[s] \in Volumes /\ built'[s] \in Volumes
      BY <2>1, <2>4
    <3> QED BY <2>2, <3>1, <3>2
  <2> QED BY <2>1, <2>3, <2>4
<1>15. CASE WorkerCrashes
  <2>1. /\ UNCHANGED <<dir, mounted, location, built>> /\ hurt' = hurt \cup {S} /\ pc # "idle"
    BY <1>15 DEF WorkerCrashes, LoseTask
  <2> QED BY <1>3, <2>1 DEF Intact
<1>16. CASE Reboot
  <2>1. /\ UNCHANGED <<dir, location, built>> /\ pc' = "idle"
        /\ mounted' = [s \in Services |-> [f \in Folders |-> Source(s, f, built[s])]]
        /\ IF pc = "idle" THEN UNCHANGED hurt ELSE hurt' = hurt \cup {S}
    BY <1>16 DEF Reboot, LoseTask, Leave
  <2>2. \A s \in Intact' : s \in Intact /\ ~Moving(s)
    BY <2>1 DEF Intact, Moving
  <2>3. ASSUME NEW s \in Intact', NEW f \in Folders
        PROVE  AtHome(s, f)'
    <3>1. s \in Intact /\ AtHome(s, f)
      BY <2>2 DEF HomeInv, Canonical
    <3>2. mounted'[s][f] = IF built[s] = location[s] THEN built[s] ELSE None
      BY <2>1, <3>1, <1>13
    <3> QED BY <2>1, <3>1, <3>2 DEF AtHome, Alone
  <2>4. \A s \in Services : location'[s] \in Volumes /\ built'[s] \in Volumes
    BY <2>1
  <2> QED BY <2>3, <2>4
<1> QED BY <1>4, <1>5, <1>6, <1>7, <1>8, <1>9, <1>10, <1>11, <1>12, <1>14, <1>15, <1>16
        DEF Next, MoveService

-----------------------------------------------------------------------------
(* The theorems                                                            *)

LEMMA MoveInit == Init => MoveInv
<1> SUFFICES ASSUME Init
             PROVE  MoveInv
  OBVIOUS
<1> USE DEF Init
<1>0. /\ Root \in Volumes /\ Volumes \subseteq Names /\ CanonicalName[Root] \in Names
      /\ None \notin Volumes /\ 1 \in Folders
  BY MoveVolumesAssumption, MoveFoldersAssumption DEF Folders
<1>1. TypeOK
  <2>1. jobs \in Seq(Job) /\ Len(jobs) = 0
    BY EmptySeq
  <2>2. dir \in [Services -> [Folders -> [Volumes -> DirStates]]]
    BY DEF DirStates
  <2>3. mounted \in [Services -> [Folders -> Volumes \cup {None}]]
    BY <1>0
  <2>4. location \in [Services -> Names] /\ built \in [Services -> Names]
    BY <1>0
  <2>5. active \in [Services -> BOOLEAN]
    <3>1. ASSUME NEW s \in Services
          PROVE  (s \in initialised) \in BOOLEAN
      <4>1. CASE s \in initialised
        <5>1. (s \in initialised) = TRUE
          BY <4>1
        <5> QED BY ONLY <5>1
      <4>2. CASE s \notin initialised
        <5>1. (s \in initialised) = FALSE
          BY <4>2
        <5> QED BY ONLY <5>1
      <4> QED BY ONLY <4>1, <4>2
    <3>2. active = [s \in Services |-> s \in initialised]
      OBVIOUS
    <3> QED BY ONLY <3>1, <3>2
  <2>6. /\ fresh \in BOOLEAN /\ was \in BOOLEAN /\ failed \in BOOLEAN
        /\ pc \in Pcs /\ i \in Folders /\ pc = "idle"
    BY <1>0 DEF Pcs
  <2>7. /\ started \subseteq Services /\ stopped \subseteq Services /\ hurt \subseteq Services
        /\ faults \subseteq Nat /\ lost \subseteq Nat
    OBVIOUS
  <2>8. initialised \subseteq Services /\ events \in Nat /\ taken \in 0 .. 0
    OBVIOUS
  <2> QED BY ONLY <2>1, <2>2, <2>3, <2>4, <2>5, <2>6, <2>7, <2>8 DEF TypeOK
<1>2. \A s \in initialised, f \in Folders : Alone(s, f, Root)
  BY <1>0, <1>1 DEF Alone, TypeOK
<1>3. NoDataLost
  BY <1>0, <1>2 DEF NoDataLost, Alone
<1>4. DownWhileMoved /\ TargetInv /\ CopyInv /\ StoppedInv
  BY DEF DownWhileMoved, TargetInv, CopyInv, StoppedInv
<1>5. FoldersInv
  BY <1>0, <1>2 DEF FoldersInv, FolderInv, Moving, Intact
<1>6. HomeInv
  BY <1>0, <1>1, <1>2 DEF HomeInv, AtHome, Moving, Intact, TypeOK
<1> QED BY <1>1, <1>3, <1>4, <1>5, <1>6 DEF MoveInv

LEMMA MoveNext == MoveInv /\ [Next]_vars => MoveInv'
<1> SUFFICES ASSUME MoveInv, [Next]_vars
             PROVE  MoveInv'
  OBVIOUS
<1>1. CASE Next
  BY <1>1, TypeStep, TargetStep, DownStep, StoppedStep, DataStep, FoldersStep, HomeStep
     DEF MoveInv, FoldersTypeOK
<1>2. CASE UNCHANGED vars
  <2> USE <1>2 DEF vars, local, disk, place, past, MoveInv
  <2>1. TypeOK'
    BY DEF TypeOK
  <2>2. S' = S /\ To' = To /\ Old' = Old
    BY DEF S, To, Old, Drive
  <2>3. NoDataLost' /\ DownWhileMoved' /\ TargetInv' /\ CopyInv' /\ StoppedInv'
    BY <2>2 DEF NoDataLost, DownWhileMoved, TargetInv, CopyInv, StoppedInv
  <2>4. Intact' = Intact
    BY DEF Intact
  <2>5. ASSUME NEW s, NEW f
        PROVE  FolderInv(s, f)' = FolderInv(s, f) /\ AtHome(s, f)' = AtHome(s, f)
    BY <2>2 DEF FolderInv, AtHome, Alone, Moving, Waiting, Copying, Moved, Bound
  <2>6. FoldersInv'
    BY <2>2, <2>4, <2>5 DEF FoldersInv
  <2>7. HomeInv'
    BY <2>2, <2>4, <2>5 DEF HomeInv, Moving
  <2> QED BY <2>1, <2>3, <2>6, <2>7
<1> QED BY <1>1, <1>2

\* Every move keeps its invariant: the phases of the worker, the folders on the
\* volumes and the user data agree, whatever fails in between.
THEOREM MoveInvariance == Spec => []MoveInv
  BY MoveInit, MoveNext, PTL DEF Spec

\* No sequence of failed copies, failed removals, crashes and further moves loses
\* a folder: shutil.move removes the source only when the data has arrived.
THEOREM NoDataLostHolds == Spec => []NoDataLost
<1>1. MoveInv => NoDataLost
  BY DEF MoveInv
<1> QED BY <1>1, MoveInvariance, PTL

\* A service is down from the unmounting of its folders to their mounting.
THEOREM DownWhileMovedHolds == Spec => []DownWhileMoved
<1>1. MoveInv => DownWhileMoved
  BY DEF MoveInv
<1> QED BY <1>1, MoveInvariance, PTL

\* StoppedService starts on every way out what it stopped.
THEOREM StartedAfterMoveHolds == Spec => []StartedAfterMove
<1>1. MoveInv => StartedAfterMove
  BY DEF MoveInv, StoppedInv, Entered, StartedAfterMove
<1> QED BY <1>1, MoveInvariance, PTL

\* With canonical device names, the location in the user data is where the folders
\* are, and where they are mounted from.
THEOREM LocationFollowsDataHolds == Spec => []LocationFollowsData
<1>1. MoveInv => LocationFollowsData
  <2> SUFFICES ASSUME MoveInv, Canonical, NEW s \in Intact, NEW f \in Folders, ~Moving(s)
               PROVE  /\ dir[s][f][location[s]] = "whole"
                      /\ \/ mounted[s][f] = location[s]
                         \/ mounted[s][f] = None /\ built[s] # location[s]
    BY DEF LocationFollowsData, Canonical, Intact
  <2>1. s \in Services /\ location[s] \in Volumes /\ AtHome(s, f)
    BY DEF MoveInv, TypeOK, HomeInv, Canonical, Intact
  <2> QED BY <2>1 DEF AtHome, Alone
<1> QED BY <1>1, MoveInvariance, PTL

\* What a change of one job does to the statuses of all.
LEMMA MarkStatus ==
    ASSUME TypeOK, pc # "idle", NEW st, NEW e, Mark(st, e)
    PROVE  \A j \in DOMAIN jobs : jobs'[j].status = IF j = taken THEN st ELSE jobs[j].status
<1>1. taken \in 1 .. Len(jobs) /\ jobs \in Seq(Job) /\ DOMAIN jobs = 1 .. Len(jobs)
  BY JobAtHand, LenProperties DEF TypeOK
<1>2. jobs[taken] \in Job
  BY <1>1, ElementOfSeq
<1> QED BY <1>1, <1>2 DEF Mark, Job

\* Only a move that has arrived ends its job with FINISHED.
LEMMA FinishedStep ==
    ASSUME MoveInv, Next, NEW j \in DOMAIN jobs,
           jobs[j].status # "FINISHED", jobs'[j].status = "FINISHED"
    PROVE  /\ pc \in {"rebuild", "finish"} \/ S \notin initialised
           /\ pc # "idle" /\ j = taken
           /\ pc \in {"rebuild", "finish"} => UNCHANGED <<dir, location>>
           /\ pc \in {"rebuild", "finish"} =>
                 \A f \in Folders : mounted[S][f] # None => mounted'[S][f] = mounted[S][f]
<1> USE DEF local, disk, place, past, Progress
<1>0. TypeOK /\ jobs \in Seq(Job) /\ DOMAIN jobs = 1 .. Len(jobs)
      /\ mounted \in [Services -> [Folders -> Volumes \cup {None}]]
      /\ (pc # "idle" => S \in Services)
  BY JobAtHand, LenProperties DEF MoveInv, TypeOK
<1>1. jobs' # jobs
  OBVIOUS
<1>2. ASSUME NEW s \in Services, NEW v \in Volumes, Request(s, v)
      PROVE  FALSE
  <2> DEFINE new == [svc |-> s, to |-> v, status |-> "CREATED", error |-> FALSE]
  <2>1. new \in Job /\ jobs' = Append(jobs, new)
    BY <1>2 DEF Job, Request
  <2> HIDE DEF new
  <2>2. jobs'[j] = jobs[j]
    BY <1>0, <2>1, AppendProperties
  <2> QED BY <2>2
<1>3. CASE Take
  <2>1. jobs'[j].status \in {jobs[j].status, "RUNNING"}
    <3>1. jobs[j] \in Job
      BY <1>0, ElementOfSeq
    <3>2. jobs' = [jobs EXCEPT ![taken + 1] = [jobs[taken + 1] EXCEPT !.status = "RUNNING"]]
      BY <1>3 DEF Take
    <3> QED BY <1>0, <3>1, <3>2 DEF Job
  <2> QED BY <2>1
<1>4. ASSUME Mark("RUNNING", FALSE) \/ Mark("RUNNING", TRUE) \/ Mark("ERROR", TRUE),
             pc # "idle"
      PROVE  FALSE
  <2>1. PICK st \in {"RUNNING", "ERROR"}, e \in BOOLEAN : Mark(st, e)
    BY <1>4
  <2>2. jobs'[j].status \in {st, jobs[j].status}
    BY <1>0, <1>4, <2>1, MarkStatus
  <2> QED BY <2>2
<1>5. CASE Check \/ StopService \/ FinishCopy \/ Own \/ ReportMount \/ Register \/ Fail
  BY <1>1, <1>4, <1>5 DEF Check, StopService, FinishCopy, Own, ReportMount, Register, Fail
<1>6. ASSUME Mark("FINISHED", FALSE), pc # "idle"
      PROVE  j = taken
  BY <1>0, <1>6, MarkStatus
<1>7. CASE Reregister
  BY <1>6, <1>7 DEF Reregister
<1>8. CASE Rebuild
  <2>1. /\ pc = "rebuild" /\ Mark("FINISHED", FALSE) /\ UNCHANGED <<dir, location>>
        /\ mounted' = [s \in Services |-> [f \in Folders |->
                          IF mounted[s][f] # None THEN mounted[s][f]
                          ELSE Source(s, f, location[s])]]
    BY <1>4, <1>8 DEF Rebuild
  <2> QED BY <1>0, <1>6, <2>1
<1>9. CASE Finish
  BY <1>6, <1>9 DEF Finish
<1>10. CASE StopTimesOut \/ Unbind \/ UnbindFails \/ StartCopy \/ MoveRefused \/ CopyFails
            \/ RemoveFails \/ Bind \/ BindFails \/ Start \/ StartTimesOut \/ WorkerCrashes
            \/ Reboot
  BY <1>1, <1>10 DEF StopTimesOut, Unbind, UnbindFails, StartCopy, MoveRefused, CopyFails,
     RemoveFails, Bind, BindFails, Start, StartTimesOut, WorkerCrashes, Reboot, Raise
<1>11. ASSUME NEW s \in Services, UserStarts(s) \/ UserStops(s)
       PROVE  FALSE
  BY <1>1, <1>11 DEF UserStarts, UserStops
<1> QED BY <1>2, <1>3, <1>5, <1>7, <1>8, <1>9, <1>10, <1>11 DEF Next, MoveService

\* A job that says FINISHED tells the truth: the folders are whole on the volume
\* asked for, mounted from there, and the user data name it.
THEOREM FinishedMeansMovedHolds == Spec => FinishedMeansMoved
<1>1. ASSUME MoveInv, Next, NEW j \in DOMAIN jobs,
             jobs[j].status # "FINISHED", jobs'[j].status = "FINISHED",
             jobs[j].svc \in Intact
      PROVE  /\ location'[jobs[j].svc] = jobs[j].to
             /\ \A f \in Folders : /\ dir'[jobs[j].svc][f][jobs[j].to] = "whole"
                                   /\ mounted'[jobs[j].svc][f] = jobs[j].to
  <2>1. /\ pc \in {"rebuild", "finish"} /\ j = taken /\ S = jobs[j].svc /\ To = jobs[j].to
        /\ UNCHANGED <<dir, location>> /\ S \in Intact
        /\ \A f \in Folders : mounted[S][f] # None => mounted'[S][f] = mounted[S][f]
    BY <1>1, FinishedStep DEF S, To, Intact
  <2>2. To \in Volumes /\ location[S] = To /\ None \notin Volumes
    BY <1>1, <2>1, JobAtHand, MoveVolumesAssumption DEF MoveInv, FoldersInv
  <2>3. ASSUME NEW f \in Folders
        PROVE  Alone(S, f, To) /\ mounted[S][f] = To
    BY <1>1, <2>1, FolderOfMove DEF MoveInv, FoldersTypeOK, Moved, Bound
  <2> QED BY <2>1, <2>2, <2>3 DEF Alone
<1>2. MoveInv /\ [Next]_vars =>
        [\A j \in DOMAIN jobs :
          LET s == jobs[j].svc
              v == jobs[j].to
          IN  (/\ jobs[j].status # "FINISHED" /\ jobs'[j].status = "FINISHED"
               /\ s \in initialised \ hurt)
              => /\ location'[s] = v
                 /\ \A f \in Folders : dir'[s][f][v] = "whole" /\ mounted'[s][f] = v]_vars
  BY <1>1 DEF Intact
<1> QED BY <1>2, MoveInvariance, PTL DEF Spec, FinishedMeansMoved
=============================================================================
