------------------------- MODULE BindMigrationProofs -------------------------
(***************************************************************************)
(* The invariant of BindMigration is inductive: for any number of volumes, *)
(* requests and failures the migration loses no data.  The argument is the *)
(* order of the plan: each folder has one turn, before it nothing touches  *)
(* its data, and in it the data go only when they have arrived.  While no  *)
(* task was cut off, the user data then name the place of each folder.     *)
(***************************************************************************)
EXTENDS BindMigrationProperties, TLAPS

\* Where the worker is, without the data.
Place ==
    /\ phase # "idle" => taken # 0 /\ jobs[taken].status = "RUNNING"
    /\ phase \in {"check", "activate"} => ~migrated
    /\ phase \notin {"idle", "check", "activate"} => migrated /\ location = Config
    /\ phase \in {"copy", "nest", "remove", "mkdir", "mount"} =>
         n <= Len(Plan) /\ Plan[n].op = "move"

\* What it has done to the folder whose turn it is.
Turn ==
    /\ phase \in {"copy", "nest", "remove"} => data[Folder] # "none"
    /\ phase \in {"remove", "mkdir", "mount"} => Arrived(Folder)

Binds == \A f \in Folders : mounted[f] # None => migrated

LEMMA Parts == DataInv <=> TypeOK /\ Place /\ Turn /\ Binds /\ Untouched /\ NothingLost
BY DEF DataInv, Place, Turn, Binds

LEMMA PartsNext ==
    DataInv' <=> TypeOK' /\ Place' /\ Turn' /\ Binds' /\ Untouched' /\ NothingLost'
BY Parts, PTL

-----------------------------------------------------------------------------
(* The plan                                                                  *)

\* Every step of the plan moves a folder, or stops or starts a service.
LEMMA PlanSteps ==
    /\ Len(Plan) = 18
    /\ \A k \in 1 .. Len(Plan) :
          /\ Plan[k].op \in {"stop", "move", "start"}
          /\ Plan[k].op = "move" => Plan[k].on \in Folders
BY DEF Plan, Do, Folders

\* Each folder has one turn.
LEMMA OneTurn ==
    \A j, k \in 1 .. Len(Plan) :
        Plan[j].op = "move" /\ Plan[k].op = "move" /\ j # k => Plan[j].on # Plan[k].on
<1>1. \A j, k \in 1 .. 18 :
         Plan[j].op = "move" /\ Plan[k].op = "move" /\ j # k => Plan[j].on # Plan[k].on
  BY DEF Plan, Do
<1>2. QED BY <1>1, PlanSteps

LEMMA PlanRecords == \A k \in 1 .. Len(Plan) : Plan[k] = Do(Plan[k].op, Plan[k].on)
<1>1. \A k \in 1 .. 18 : Plan[k] = Do(Plan[k].op, Plan[k].on) BY DEF Plan, Do
<1>2. QED BY <1>1, PlanSteps

\* No folder is forgotten.
LEMMA EveryTurn ==
    \A f \in Folders : \E k \in 1 .. 18 : Plan[k].op = "move" /\ Plan[k].on = f
<1> SUFFICES ASSUME NEW f \in Folders
             PROVE  \E k \in {2, 5, 6, 9, 12, 13, 16, 17} : Plan[k].op = "move" /\ Plan[k].on = f
  OBVIOUS
<1>1. QED BY DEF Plan, Do, Folders

\* What the plan stops it starts later.
LEMMA StoppedIsStarted ==
    \A k \in 1 .. Len(Plan), s \in Services :
        Plan[k] = Do("stop", s) => \E j \in k + 1 .. Len(Plan) : Plan[j] = Do("start", s)
<1>1. \A k \in 1 .. 18 : \A s \in Services :
         Plan[k] = Do("stop", s) =>
            \/ k = 1 /\ Plan[3] = Do("start", s)
            \/ k = 4 /\ Plan[7] = Do("start", s)
            \/ k = 8 /\ Plan[10] = Do("start", s)
            \/ k = 11 /\ Plan[14] = Do("start", s)
            \/ k = 15 /\ Plan[18] = Do("start", s)
  BY DEF Plan, Do
<1>2. QED BY <1>1, PlanSteps

LEMMA OwnerTyped == \A f \in Folders : OwnerOf[f] \in Services
BY DEF OwnerOf, Folders, Services

-----------------------------------------------------------------------------
(* What is common to several steps                                           *)

JobRecords == [config : [Services -> Volumes],
               status : {"CREATED", "RUNNING", "ERROR", "FINISHED"}]
DirStates  == {"none", "old", "part", "whole", "nested"}

JobsTyped ==
    /\ jobs \in Seq(JobRecords) /\ taken \in 0 .. Len(jobs)
    /\ Len(jobs) <= MaxRequests /\ broken \subseteq 1 .. taken
StepTyped == phase \in Phases /\ n \in 1 .. Len(Plan) + 1
FoldersTyped ==
    /\ migrated \in BOOLEAN /\ attached \subseteq Volumes /\ had \subseteq Folders
    /\ data \in [Folders -> {"whole", "part", "none", "empty"}]
    /\ dir \in [Folders -> [Volumes \cup {"under"} -> DirStates]]
    /\ mounted \in [Folders -> Volumes \cup {None}]

LEMMA TypeParts == TypeOK <=> JobsTyped /\ StepTyped /\ FoldersTyped
BY Zenon DEF TypeOK, JobsTyped, StepTyped, FoldersTyped, JobRecords, DirStates

LEMMA TypePartsNext == TypeOK' <=> JobsTyped' /\ StepTyped' /\ FoldersTyped'
BY TypeParts, PTL

\* While the task runs, its job is in the list.
LEMMA RunningJob ==
    ASSUME TypeOK, Place, phase # "idle"
    PROVE  /\ taken \in 1 .. Len(jobs) /\ jobs[taken] \in JobRecords
           /\ Config \in [Services -> Volumes]
<1>1. taken \in 1 .. Len(jobs) /\ jobs \in Seq(JobRecords)
  BY TypeParts DEF JobsTyped, Place
<1>2. jobs[taken] \in JobRecords BY <1>1
<1>3. QED BY <1>1, <1>2 DEF Config, JobRecords

\* A status is set in a list of jobs.
LEMMA StatusTyped ==
    ASSUME NEW js \in Seq(JobRecords), NEW i \in 1 .. Len(js),
           NEW st \in {"CREATED", "RUNNING", "ERROR", "FINISHED"},
           NEW js2, js2 = [js EXCEPT ![i].status = st]
    PROVE  js2 \in Seq(JobRecords) /\ Len(js2) = Len(js) /\ js2[i].status = st
<1>1. js[i] \in JobRecords OBVIOUS
<1>2. [js[i] EXCEPT !.status = st] \in JobRecords BY <1>1 DEF JobRecords
<1>3. [js EXCEPT ![i] = [js[i] EXCEPT !.status = st]] \in Seq(JobRecords) BY <1>2
<1>4. QED BY <1>1, <1>2, <1>3 DEF JobRecords

\* Nothing is lost where nothing is moved.
LEMMA DataStill ==
    ASSUME NothingLost, UNCHANGED <<data, dir, had>>, torn \subseteq torn'
    PROVE  NothingLost'
BY DEF NothingLost, Arrived

\* A step beside the task.
LEMMA AsideKeeps ==
    ASSUME DataInv, UNCHANGED <<work, said, data, dir, mounted, had>>,
           attached' \subseteq attached, torn \subseteq torn', UNCHANGED broken
    PROVE  DataInv'
<1>1. TypeOK /\ Place /\ Turn /\ Binds /\ Untouched /\ NothingLost BY Parts
<1>2. TypeOK' BY <1>1 DEF TypeOK, work, said
<1>3. Place' BY <1>1 DEF Place, Config, work, said
<1>4. Turn' BY <1>1 DEF Turn, Folder, Arrived, work
<1>5. Binds' BY <1>1 DEF Binds, said
<1>6. Untouched' BY <1>1 DEF Untouched, work, said
<1>7. QED BY <1>1, <1>2, <1>3, <1>4, <1>5, <1>6, DataStill, PartsNext

\* The task dies; a folder that was being removed may have lost its old place.
LEMMA DiesKeeps ==
    ASSUME DataInv, phase # "idle", Die,
           UNCHANGED <<said, attached, dir, mounted, had, torn>>,
           \/ UNCHANGED data
           \/ phase = "remove" /\ data' = [data EXCEPT ![Folder] = "part"]
    PROVE  DataInv'
<1>1. TypeOK /\ Place /\ Turn /\ Binds /\ Untouched /\ NothingLost BY Parts
<1>2. taken \in 1 .. Len(jobs) BY <1>1, RunningJob
<1>3. phase = "remove" => migrated /\ Arrived(Folder) BY <1>1 DEF Place, Turn
<1>4. JobsTyped /\ StepTyped /\ FoldersTyped BY <1>1, TypeParts
<1>5. TypeOK'
  <2>1. JobsTyped' BY <1>2, <1>4 DEF JobsTyped, Die
  <2>2. StepTyped' BY <1>4 DEF StepTyped, Die, Phases
  <2>3. data' \in [Folders -> {"whole", "part", "none", "empty"}] BY <1>4 DEF FoldersTyped
  <2>4. FoldersTyped' BY <1>4, <2>3 DEF FoldersTyped, said
  <2>5. QED BY <2>1, <2>2, <2>4, TypePartsNext
<1>6. Place' /\ Turn' BY DEF Place, Turn, Die
<1>7. Binds' BY <1>1 DEF Binds, said
<1>8. Untouched'
  <2>1. ~migrated' => data' = data BY <1>3 DEF said
  <2>2. QED BY <1>1, <2>1 DEF Untouched, Die, said
<1>9. NothingLost'
  <2> SUFFICES ASSUME NEW f \in had \ torn PROVE data'[f] = "whole" \/ Arrived(f)'
    BY DEF NothingLost
  <2>1. Arrived(f)' <=> Arrived(f) BY DEF Arrived
  <2>2. data[f] = "whole" \/ Arrived(f) BY <1>1 DEF NothingLost
  <2>3. data'[f] = data[f] \/ (f = Folder /\ phase = "remove") BY <1>1 DEF TypeOK
  <2>4. QED BY <1>3, <2>1, <2>2, <2>3
<1>10. QED BY <1>5, <1>6, <1>7, <1>8, <1>9, PartsNext

\* The task goes on to the next step of the plan.
LEMMA NextStepKeeps ==
    ASSUME DataInv, n <= Len(Plan), phase \in {"step", "mkdir", "mount"}, NextStep,
           UNCHANGED <<jobs, taken, said, attached, data, dir, had, torn, broken>>,
           mounted' \in [Folders -> Volumes \cup {None}]
    PROVE  DataInv'
<1>1. TypeOK /\ Place /\ Turn /\ Binds /\ Untouched /\ NothingLost BY Parts
<1>2. Len(Plan) = 18 BY PlanSteps
<1>3. migrated BY <1>1 DEF Place
<1>4. TypeOK'
  <2>1. JobsTyped /\ StepTyped /\ FoldersTyped BY <1>1, TypeParts
  <2>2. JobsTyped' BY <2>1 DEF JobsTyped
  <2>3. StepTyped' BY <1>2, <2>1 DEF StepTyped, NextStep, Phases
  <2>4. FoldersTyped' BY <2>1 DEF FoldersTyped, said
  <2>5. QED BY <2>2, <2>3, <2>4, TypePartsNext
<1>5. Place' BY <1>1 DEF Place, NextStep, Config, said
<1>6. Turn' BY DEF Turn, NextStep
<1>7. Binds' BY <1>3 DEF Binds, said
<1>8. Untouched'
  <2>1. ASSUME NEW k \in n + 1 .. Len(Plan), Plan[k].op = "move", Plan[k].on \in had
        PROVE  data[Plan[k].on] = "whole"
    <3>1. k \in n .. Len(Plan) /\ k # n BY <1>1, <1>2 DEF TypeOK
    <3>2. QED BY <1>1, <2>1, <3>1 DEF Untouched
  <2>2. QED BY <1>3, <2>1 DEF Untouched, NextStep, said
<1>9. QED BY <1>1, <1>4, <1>5, <1>6, <1>7, <1>8, DataStill, PartsNext

\* A call of move_folder touches only the folder whose turn it is.
LEMMA FolderKeeps ==
    ASSUME DataInv, n <= Len(Plan), Plan[n].op = "move",
           phase \in {"step", "copy", "nest", "remove", "mkdir"},
           phase' \in {"copy", "nest", "remove", "mkdir", "mount"},
           UNCHANGED <<jobs, taken, n, said, attached, mounted, had, torn, broken>>,
           NEW d \in {"whole", "part", "none", "empty"}, NEW r \in [Volumes \cup {"under"} -> DirStates],
           data' = [data EXCEPT ![Folder] = d], dir' = [dir EXCEPT ![Folder] = r],
           phase = "mkdir" => phase' = "mount",
           phase' \in {"copy", "nest", "remove"} => d = data[Folder] /\ d # "none",
           phase' \in {"remove", "mkdir", "mount"} =>
               \E p \in Volumes \cup {"under"} : r[p] \in {"whole", "nested"}
    PROVE  DataInv'
<1>1. TypeOK /\ Place /\ Turn /\ Binds /\ Untouched /\ NothingLost BY Parts
<1>2. Len(Plan) = 18 /\ n \in 1 .. Len(Plan) BY <1>1, PlanSteps DEF TypeOK
<1>3. Folder \in Folders /\ Folder' = Folder BY <1>2, PlanSteps DEF Folder
<1>4. migrated BY <1>1 DEF Place
<1>5. data \in [Folders -> {"whole", "part", "none", "empty"}]
      /\ dir \in [Folders -> [Volumes \cup {"under"} -> DirStates]] /\ had \subseteq Folders
  BY <1>1 DEF TypeOK, DirStates
<1>6. TypeOK' BY <1>1, <1>3, <1>5 DEF TypeOK, said, Phases, DirStates
<1>7. Place' BY <1>1 DEF Place, Config, said
<1>8. data'[Folder] = d /\ dir'[Folder] = r /\ DOMAIN r = Volumes \cup {"under"}
  BY <1>3, <1>5
<1>9. phase' \in {"remove", "mkdir", "mount"} => Arrived(Folder)' BY <1>3, <1>8 DEF Arrived
<1>10. Turn' BY <1>3, <1>8, <1>9 DEF Turn, Arrived
<1>11. Binds' BY <1>1 DEF Binds, said
<1>12. phase' \notin {"mkdir", "mount"} /\ Folder \in had => d = "whole"
  BY <1>1, <1>2 DEF Untouched, Folder
<1>13. Untouched'
  <2>1. ASSUME NEW k \in n .. Len(Plan), Plan[k].op = "move", Plan[k].on \in had,
               k # n \/ phase' \notin {"mkdir", "mount"}
        PROVE  data'[Plan[k].on] = "whole"
    <3>1. CASE k = n BY <1>8, <1>12, <2>1, <3>1 DEF Folder
    <3>2. CASE k # n
      <4>1. Plan[k].on # Folder /\ Plan[k].on \in Folders
        BY <1>2, <2>1, <3>2, OneTurn, PlanSteps DEF Folder
      <4>2. data[Plan[k].on] = "whole" BY <1>1, <2>1, <3>2 DEF Untouched
      <4>3. QED BY <1>5, <4>1, <4>2
    <3>3. QED BY <3>1, <3>2
  <2>2. QED BY <1>4, <2>1 DEF Untouched, said
<1>14. NothingLost'
  <2> SUFFICES ASSUME NEW f \in had \ torn PROVE data'[f] = "whole" \/ Arrived(f)'
    BY DEF NothingLost
  <2>1. CASE f = Folder BY <1>3, <1>8, <1>9, <1>12, <2>1
  <2>2. CASE f # Folder
    <3>1. data'[f] = data[f] /\ dir'[f] = dir[f] BY <1>5, <2>2
    <3>2. QED BY <1>1, <3>1 DEF NothingLost, Arrived
  <2>3. QED BY <2>1, <2>2
<1>15. QED BY <1>6, <1>7, <1>10, <1>11, <1>13, <1>14, PartsNext

\* The place that a folder is moved to.
LEMMA TargetTyped ==
    ASSUME DataInv, phase # "idle", n <= Len(Plan), Plan[n].op = "move"
    PROVE  /\ Folder \in Folders /\ Volume \in Volumes /\ Target \in Volumes \cup {"under"}
           /\ dir \in [Folders -> [Volumes \cup {"under"} -> DirStates]]
           /\ data \in [Folders -> {"whole", "part", "none", "empty"}]
<1>1. TypeOK /\ Place BY Parts
<1>2. n \in 1 .. Len(Plan) BY <1>1, PlanSteps DEF TypeOK
<1>3. Folder \in Folders BY <1>2, PlanSteps DEF Folder
<1>4. Config \in [Services -> Volumes] BY <1>1, RunningJob
<1>5. Volume \in Volumes BY <1>3, <1>4, OwnerTyped DEF Volume
<1>6. QED BY <1>1, <1>3, <1>5 DEF TypeOK, DirStates, Target

-----------------------------------------------------------------------------
(* The steps of the task                                                     *)

LEMMA RequestKeeps == ASSUME DataInv, Request PROVE DataInv'
<1>1. TypeOK /\ Place /\ Turn /\ Binds /\ Untouched /\ NothingLost BY Parts
<1>2. PICK c \in Configs : jobs' = Append(jobs, [config |-> c, status |-> "CREATED"])
  BY DEF Request
<1>3. c \in [Services -> Volumes] BY BindsAssumption
<1>4. [config |-> c, status |-> "CREATED"] \in JobRecords BY <1>3 DEF JobRecords
<1>5. jobs \in Seq(JobRecords) /\ Len(jobs) < MaxRequests /\ MaxRequests \in Nat
  BY <1>1, BindsAssumption DEF TypeOK, JobRecords, Request
<1>6. /\ jobs' \in Seq(JobRecords) /\ Len(jobs') = Len(jobs) + 1
      /\ \A i \in 1 .. Len(jobs) : jobs'[i] = jobs[i]
  BY <1>2, <1>4, <1>5
<1>7. TypeOK'
  <2>1. JobsTyped /\ StepTyped /\ FoldersTyped BY <1>1, TypeParts
  <2>2. UNCHANGED <<taken, phase, n, migrated, attached, had, data, dir, mounted, broken>>
    BY DEF Request, said, disks, past
  <2>3. JobsTyped' BY <1>5, <1>6, <2>1, <2>2 DEF JobsTyped
  <2>4. StepTyped' /\ FoldersTyped' BY <2>1, <2>2 DEF StepTyped, FoldersTyped
  <2>5. QED BY <2>3, <2>4, TypePartsNext
<1>8. phase # "idle" => jobs'[taken] = jobs[taken] BY <1>1, <1>6, RunningJob
<1>9. Place' BY <1>1, <1>8 DEF Place, Request, Config, said
<1>10. Turn' BY <1>1 DEF Turn, Request, Folder, Arrived, disks
<1>11. Binds' BY <1>1 DEF Binds, Request, said, disks
<1>12. Untouched' BY <1>1 DEF Untouched, Request, said, disks, past
<1>13. UNCHANGED <<data, dir, had, torn>> BY DEF Request, disks, past
<1>14. QED BY <1>1, <1>7, <1>9, <1>10, <1>11, <1>12, <1>13, DataStill, PartsNext

LEMMA TakeKeeps == ASSUME DataInv, Take PROVE DataInv'
<1>1. TypeOK /\ Place /\ Turn /\ Binds /\ Untouched /\ NothingLost BY Parts
<1> DEFINE i == taken + 1
<1>2. jobs \in Seq(JobRecords) /\ i \in 1 .. Len(jobs) /\ taken \in Nat
  BY <1>1 DEF TypeOK, JobRecords, Take
<1>3. PICK st \in {"ERROR", "RUNNING"} :
          /\ jobs' = [jobs EXCEPT ![i].status = st]
          /\ st = "ERROR" => phase' = "idle"
          /\ st = "RUNNING" => phase' = "check" /\ ~migrated
  BY DEF Take
<1>4. jobs' \in Seq(JobRecords) /\ Len(jobs') = Len(jobs) /\ jobs'[i].status = st
  <2>1. st \in {"CREATED", "RUNNING", "ERROR", "FINISHED"} BY <1>3
  <2>2. QED BY <1>2, <1>3, <2>1, StatusTyped
<1>5. taken' = i /\ UNCHANGED <<n, said, disks, past>> /\ phase' \in {"idle", "check"}
  BY <1>3 DEF Take
<1>6. TypeOK'
  <2>1. JobsTyped /\ StepTyped /\ FoldersTyped BY <1>1, TypeParts
  <2>2. UNCHANGED <<n, migrated, attached, had, data, dir, mounted, broken>>
    BY <1>5 DEF said, disks, past
  <2>3. JobsTyped' BY <1>2, <1>4, <1>5, <2>1, <2>2 DEF JobsTyped
  <2>4. StepTyped' BY <1>5, <2>1, <2>2 DEF StepTyped, Phases
  <2>5. FoldersTyped' BY <2>1, <2>2 DEF FoldersTyped
  <2>6. QED BY <2>3, <2>4, <2>5, TypePartsNext
<1>7. Place' BY <1>2, <1>3, <1>4, <1>5 DEF Place, said
<1>8. Turn' BY <1>5 DEF Turn
<1>9. Binds' BY <1>1, <1>5 DEF Binds, said, disks
<1>10. Untouched' BY <1>1, <1>5 DEF Untouched, said, disks, past
<1>11. UNCHANGED <<data, dir, had, torn>> BY <1>5 DEF disks, past
<1>12. QED BY <1>1, <1>6, <1>7, <1>8, <1>9, <1>10, <1>11, DataStill, PartsNext

\* The task is refused, or ends.
LEMMA EndKeeps ==
    ASSUME DataInv, phase # "idle", phase' = "idle",
           NEW st \in {"ERROR", "FINISHED"}, SetStatus(st),
           UNCHANGED <<taken, n, said, disks, past>>
    PROVE  DataInv'
<1>1. TypeOK /\ Place /\ Turn /\ Binds /\ Untouched /\ NothingLost BY Parts
<1>2. jobs \in Seq(JobRecords) /\ taken \in 1 .. Len(jobs)
  BY <1>1, RunningJob DEF TypeOK, JobRecords
<1>3. jobs' \in Seq(JobRecords) /\ Len(jobs') = Len(jobs)
  <2>1. jobs' = [jobs EXCEPT ![taken].status = st] BY DEF SetStatus
  <2>2. st \in {"CREATED", "RUNNING", "ERROR", "FINISHED"} OBVIOUS
  <2>3. QED BY <1>2, <2>1, <2>2, StatusTyped
<1>4. TypeOK'
  <2>1. JobsTyped /\ StepTyped /\ FoldersTyped BY <1>1, TypeParts
  <2>2. UNCHANGED <<taken, n, migrated, attached, had, data, dir, mounted, broken>>
    BY DEF said, disks, past
  <2>3. JobsTyped' BY <1>3, <2>1, <2>2 DEF JobsTyped
  <2>4. StepTyped' BY <2>1, <2>2 DEF StepTyped, Phases
  <2>5. FoldersTyped' BY <2>1, <2>2 DEF FoldersTyped
  <2>6. QED BY <2>3, <2>4, <2>5, TypePartsNext
<1>5. Place' /\ Turn' BY DEF Place, Turn
<1>6. Binds' BY <1>1 DEF Binds, said, disks
<1>7. Untouched' BY <1>1 DEF Untouched, said, disks, past
<1>8. UNCHANGED <<data, dir, had, torn>> BY DEF disks, past
<1>9. QED BY <1>1, <1>4, <1>5, <1>6, <1>7, <1>8, DataStill, PartsNext

LEMMA CheckKeeps == ASSUME DataInv, Check PROVE DataInv'
<1>1. CASE phase' = "idle" /\ SetStatus("ERROR") BY <1>1, EndKeeps DEF Check
<1>2. CASE phase' = "activate" /\ UNCHANGED jobs
  <2>1. TypeOK /\ Place /\ Turn /\ Binds /\ Untouched /\ NothingLost BY Parts
  <2>2. TypeOK' BY <1>2, <2>1 DEF TypeOK, Check, said, disks, past, Phases
  <2>3. Place' BY <1>2, <2>1 DEF Place, Check, said
  <2>4. Turn' BY <1>2 DEF Turn
  <2>5. Binds' BY <2>1 DEF Binds, Check, said, disks
  <2>6. Untouched' BY <1>2, <2>1 DEF Untouched, Check, said, disks, past
  <2>7. UNCHANGED <<data, dir, had, torn>> BY DEF Check, disks, past
  <2>8. QED BY <2>1, <2>2, <2>3, <2>4, <2>5, <2>6, <2>7, DataStill, PartsNext
<1>3. QED BY <1>1, <1>2 DEF Check

\* The binds are activated while every folder is still where it was.
LEMMA ActivateKeeps == ASSUME DataInv, Activate PROVE DataInv'
<1>1. TypeOK /\ Place /\ Turn /\ Binds /\ Untouched /\ NothingLost BY Parts
<1>2. Len(Plan) = 18 /\ ~migrated BY <1>1, PlanSteps DEF Place, Activate
<1>3. TypeOK'
  <2>1. JobsTyped /\ StepTyped /\ FoldersTyped BY <1>1, TypeParts
  <2>2. JobsTyped' BY <2>1 DEF JobsTyped, Activate, past
  <2>3. StepTyped' BY <1>2 DEF StepTyped, Activate, Phases
  <2>4. FoldersTyped' BY <2>1 DEF FoldersTyped, Activate, disks, past
  <2>5. QED BY <2>2, <2>3, <2>4, TypePartsNext
<1>4. Place' BY <1>1 DEF Place, Activate, Config
<1>5. Turn' BY DEF Turn, Activate
<1>6. Binds' BY DEF Binds, Activate
<1>7. \A f \in had : data[f] = "whole" BY <1>1, <1>2 DEF Untouched
<1>8. Untouched' BY <1>7 DEF Untouched, Activate, disks, past
<1>9. UNCHANGED <<data, dir, had, torn>> BY DEF Activate, disks, past
<1>10. QED BY <1>1, <1>3, <1>4, <1>5, <1>6, <1>8, <1>9, DataStill, PartsNext

\* Stop, Start, Skip, Mount, and the failures that leave a folder at that.
LEMMA GoOnKeeps ==
    ASSUME DataInv, Stop \/ Start \/ Skip \/ Mount \/ MakeDirFails \/ MountFails
    PROVE  DataInv'
<1>1. TypeOK /\ Place BY Parts
<1>2. n <= Len(Plan) /\ phase \in {"step", "mkdir", "mount"} /\ NextStep
  BY <1>1 DEF Place, Stop, Start, Skip, Mount, MakeDirFails, MountFails, At
<1>3. UNCHANGED <<jobs, taken, said, attached, data, dir, had, torn, broken>>
  BY DEF Stop, Start, Skip, Mount, MakeDirFails, MountFails, disks, past
<1>4. mounted' \in [Folders -> Volumes \cup {None}]
  <2>1. CASE Mount
    <3>1. Volume \in Volumes BY <1>1, <2>1, TargetTyped DEF Mount, Place
    <3>2. QED BY <1>1, <2>1, <3>1 DEF TypeOK, Mount
  <2>2. CASE ~Mount
    <3>1. mounted' = mounted BY <2>2 DEF Stop, Start, Skip, MakeDirFails, MountFails, disks
    <3>2. QED BY <1>1, <3>1 DEF TypeOK
  <2>3. QED BY <2>1, <2>2
<1>5. QED BY <1>2, <1>3, <1>4, NextStepKeeps

\* A folder is renamed: at once it is where it should be, or beside it.
LEMMA RenameKeeps == ASSUME DataInv, Rename PROVE DataInv'
<1>1. n <= Len(Plan) /\ Plan[n].op = "move" /\ phase = "step" BY DEF Rename, Moving, At
<1>2. /\ Folder \in Folders /\ Target \in Volumes \cup {"under"}
      /\ dir \in [Folders -> [Volumes \cup {"under"} -> DirStates]]
  BY <1>1, TargetTyped
<1> DEFINE r == [dir[Folder] EXCEPT ![Target] = Landed]
<1>3. Landed \in {"whole", "nested"} BY DEF Landed
<1>4. r \in [Volumes \cup {"under"} -> DirStates] /\ r[Target] \in {"whole", "nested"}
  BY <1>2, <1>3 DEF DirStates
<1>5. dir' = [dir EXCEPT ![Folder] = r] BY <1>2 DEF Rename, Put
<1>6. data' = [data EXCEPT ![Folder] = "none"] /\ phase' = "mkdir"
      /\ UNCHANGED <<jobs, taken, n, said, attached, mounted, had, torn, broken>>
  BY DEF Rename
<1> HIDE DEF r
<1>7. QED BY <1>1, <1>2, <1>4, <1>5, <1>6, FolderKeeps

LEMMA StartCopyKeeps == ASSUME DataInv, StartCopy PROVE DataInv'
<1>1. n <= Len(Plan) /\ Plan[n].op = "move" /\ phase = "step" /\ data[Folder] # "none"
  BY DEF StartCopy, Moving, At
<1>2. /\ Folder \in Folders /\ Target \in Volumes \cup {"under"}
      /\ dir \in [Folders -> [Volumes \cup {"under"} -> DirStates]]
      /\ data \in [Folders -> {"whole", "part", "none", "empty"}]
  BY <1>1, TargetTyped
<1> DEFINE r == [dir[Folder] EXCEPT ![Target] = "part"]
<1>3. r \in [Volumes \cup {"under"} -> DirStates] BY <1>2 DEF DirStates
<1>4. dir' = [dir EXCEPT ![Folder] = r] BY <1>2 DEF StartCopy, Put
<1>5. data' = [data EXCEPT ![Folder] = data[Folder]] /\ phase' \in {"copy", "nest"}
      /\ UNCHANGED <<jobs, taken, n, said, attached, mounted, had, torn, broken>>
  BY <1>2 DEF StartCopy, past
<1>6. data[Folder] \in {"whole", "part", "none", "empty"} BY <1>2
<1> HIDE DEF r
<1>7. QED BY <1>1, <1>3, <1>4, <1>5, <1>6, FolderKeeps

LEMMA CopiedKeeps == ASSUME DataInv, Copied PROVE DataInv'
<1>1. Place /\ Turn BY Parts
<1>2. /\ n <= Len(Plan) /\ Plan[n].op = "move" /\ data[Folder] # "none"
      /\ phase \in {"copy", "nest"}
  BY <1>1 DEF Place, Turn, Copied
<1>3. /\ Folder \in Folders /\ Target \in Volumes \cup {"under"}
      /\ dir \in [Folders -> [Volumes \cup {"under"} -> DirStates]]
      /\ data \in [Folders -> {"whole", "part", "none", "empty"}]
  BY <1>2, TargetTyped
<1>4. PICK st \in {"whole", "nested"} : Put(st) BY DEF Copied
<1> DEFINE r == [dir[Folder] EXCEPT ![Target] = st]
<1>5. r \in [Volumes \cup {"under"} -> DirStates] /\ r[Target] \in {"whole", "nested"}
  BY <1>3 DEF DirStates
<1>6. dir' = [dir EXCEPT ![Folder] = r] BY <1>3, <1>4 DEF Put
<1>7. data' = [data EXCEPT ![Folder] = data[Folder]] /\ phase' = "remove"
      /\ UNCHANGED <<jobs, taken, n, said, attached, mounted, had, torn, broken>>
  BY <1>3 DEF Copied, past
<1>8. data[Folder] \in {"whole", "part", "none", "empty"} BY <1>3
<1> HIDE DEF r
<1>9. QED BY <1>2, <1>3, <1>5, <1>6, <1>7, <1>8, FolderKeeps

\* The old place is emptied, and made again, when the data have arrived.
LEMMA RemoveKeeps == ASSUME DataInv, Remove \/ MakeDir PROVE DataInv'
<1>1. Place /\ Turn BY Parts
<1>2. /\ n <= Len(Plan) /\ Plan[n].op = "move" /\ phase \in {"remove", "mkdir"}
      /\ Arrived(Folder)
  BY <1>1 DEF Place, Turn, Remove, MakeDir
<1>3. Folder \in Folders /\ dir \in [Folders -> [Volumes \cup {"under"} -> DirStates]]
  BY <1>2, TargetTyped
<1> DEFINE r == dir[Folder]
<1>4. r \in [Volumes \cup {"under"} -> DirStates] /\ dir' = [dir EXCEPT ![Folder] = r]
  BY <1>3 DEF Remove, MakeDir
<1>5. \E p \in Volumes \cup {"under"} : r[p] \in {"whole", "nested"}
  BY <1>2, <1>3 DEF Arrived
<1>6. PICK d \in {"none", "empty"} : data' = [data EXCEPT ![Folder] = d]
  BY DEF Remove, MakeDir
<1>7. phase' \in {"mkdir", "mount"} /\ (phase = "mkdir" => phase' = "mount")
      /\ UNCHANGED <<jobs, taken, n, said, attached, mounted, had, torn, broken>>
  BY DEF Remove, MakeDir, past
<1> HIDE DEF r
<1>8. QED BY <1>2, <1>4, <1>5, <1>6, <1>7, FolderKeeps

LEMMA TaskKeeps == ASSUME DataInv, Task PROVE DataInv'
<1>1. CASE Take BY <1>1, TakeKeeps
<1>2. CASE Check BY <1>2, CheckKeeps
<1>3. CASE Activate BY <1>3, ActivateKeeps
<1>4. CASE Stop \/ Start \/ Skip \/ Mount BY <1>4, GoOnKeeps
<1>5. CASE Finish BY <1>5, EndKeeps DEF Finish
<1>6. CASE Rename BY <1>6, RenameKeeps
<1>7. CASE StartCopy BY <1>7, StartCopyKeeps
<1>8. CASE Copied BY <1>8, CopiedKeeps
<1>9. CASE Remove \/ MakeDir BY <1>9, RemoveKeeps
<1>10. QED BY <1>1, <1>2, <1>3, <1>4, <1>5, <1>6, <1>7, <1>8, <1>9 DEF Task

-----------------------------------------------------------------------------
(* What goes wrong, and what others do                                       *)

LEMMA FaultKeeps == ASSUME DataInv, Fault PROVE DataInv'
<1>1. CASE Raise \/ CopyFails \/ RemoveFails \/ Crash
  <2>1. phase # "idle" /\ Die /\ UNCHANGED <<said, attached, dir, mounted, had, torn>>
    BY <1>1 DEF Raise, CopyFails, RemoveFails, Crash, At, disks
  <2>2. \/ UNCHANGED data
        \/ phase = "remove" /\ data' = [data EXCEPT ![Folder] = "part"]
    BY <1>1 DEF Raise, CopyFails, RemoveFails, Crash, disks
  <2>3. QED BY <2>1, <2>2, DiesKeeps
<1>2. CASE MakeDirFails \/ MountFails BY <1>2, GoOnKeeps
<1>3. CASE Detach BY <1>3, AsideKeeps DEF Detach
<1>4. QED BY <1>1, <1>2, <1>3 DEF Fault

LEMMA OthersKeep ==
    ASSUME DataInv, ListDevices \/ ServiceWrites \/ UnitStops \/ UserStarts \/ UserStops
    PROVE  DataInv'
<1>1. /\ UNCHANGED <<work, said, data, dir, mounted, had>> /\ UNCHANGED broken
      /\ attached' \subseteq attached /\ torn \subseteq torn'
  BY DEF ListDevices, ServiceWrites, UnitStops, UserStarts, UserStops, disks, past
<1>2. QED BY <1>1, AsideKeeps

LEMMA DataInvStep == DataInv /\ [Next]_vars => DataInv'
<1> SUFFICES ASSUME DataInv, [Next]_vars PROVE DataInv' OBVIOUS
<1>1. CASE Request BY <1>1, RequestKeeps
<1>2. CASE Task BY <1>2, TaskKeeps
<1>3. CASE Fault BY <1>3, FaultKeeps
<1>4. CASE ListDevices \/ ServiceWrites \/ UnitStops \/ UserStarts \/ UserStops
  BY <1>4, OthersKeep
<1>5. CASE UNCHANGED vars BY <1>5, AsideKeeps DEF vars, disks, past
<1>6. QED BY <1>1, <1>2, <1>3, <1>4, <1>5 DEF Next

LEMMA DataInvInit == Init => DataInv
<1> SUFFICES ASSUME Init PROVE DataInv OBVIOUS
<1>1. /\ jobs = <<>> /\ taken = 0 /\ phase = "idle" /\ n = 1 /\ migrated = FALSE
      /\ broken = {} /\ had \subseteq Folders /\ mounted = [f \in Folders |-> None]
  BY DEF Init
<1>2. data \in [Folders -> {"whole", "none"}] /\ \A f \in had : data[f] = "whole"
  BY DEF Init
<1>3. attached \subseteq Volumes BY BindsAssumption DEF Init
<1>4. dir \in [Folders -> [Volumes \cup {"under"} -> {"none", "old"}]] BY DEF Init
<1>5. MaxRequests \in Nat BY BindsAssumption
<1>6. TypeOK
  <2>1. JobsTyped BY <1>1, <1>5 DEF JobsTyped
  <2>2. StepTyped BY <1>1, PlanSteps DEF StepTyped, Phases
  <2>3. data \in [Folders -> {"whole", "part", "none", "empty"}] BY <1>2
  <2>4. dir \in [Folders -> [Volumes \cup {"under"} -> DirStates]] BY <1>4 DEF DirStates
  <2>5. FoldersTyped BY <1>1, <1>3, <2>3, <2>4 DEF FoldersTyped
  <2>6. QED BY <2>1, <2>2, <2>5, TypeParts
<1>7. Place /\ Turn /\ Binds BY <1>1 DEF Place, Turn, Binds
<1>8. Untouched /\ NothingLost BY <1>1, <1>2 DEF Untouched, NothingLost
<1>9. QED BY <1>6, <1>7, <1>8, Parts

\* Whatever the volumes, the requests, the old directories and the failures: the job,
\* the user data and the folders stay in step (migrate_to_binds).
THEOREM DataInvariance == Spec => []DataInv
BY DataInvInit, DataInvStep, PTL DEF Spec

\* No failure, crash or lost volume costs the data of a folder, but for what a
\* service writes while it is copied (move_folder).
THEOREM NothingLostHolds == Spec => []NothingLost
<1>1. DataInv => NothingLost BY DEF DataInv
<1>2. QED BY <1>1, DataInvariance, PTL

-----------------------------------------------------------------------------
(* Where the folders end up                                                  *)

\* A step beside the task leaves each folder where the plan has brought it.
LEMMA AsidePlaces ==
    ASSUME DataInv, PlacesInv,
           UNCHANGED <<phase, n, taken, said, dir, mounted, had, broken>>,
           phase # "idle" => Config' = Config, skewed \subseteq skewed',
           \A s \in Services : Runs(s) => Runs(s)',
           phase = "copy" => (Volume \in attached <=> Volume \in attached')
    PROVE  PlacesInv'
<1> SUFFICES ASSUME broken = {} PROVE PlacesInv' BY DEF PlacesInv
<1>1. UNCHANGED <<migrated, location>> BY DEF said
<1>2. \A f \in Folders : (Fresh(f)' <=> Fresh(f)) /\ (Home(f)' <=> Home(f))
  BY <1>1 DEF Fresh, Home
<1>3. Folder' = Folder /\ (phase # "idle" => Volume' = Volume)
  BY DEF Folder, Volume
<1>4. had \subseteq Folders /\ had' = had BY Parts DEF TypeOK
<1>5. Before => Before' BY <1>2 DEF Before
<1>6. After => After' BY <1>2, <1>4 DEF After
<1>7. ASSUME Between, phase # "idle" PROVE Between'
  <2>1. \A k \in 1 .. n - 1 :
           Plan[k].op = "move" /\ Plan[k].on \in had' \ skewed' => Home(Plan[k].on)'
    BY <1>2, <1>4, <1>7 DEF Between
  <2>2. n \in 1 .. Len(Plan) + 1 /\ Len(Plan) = 18 BY Parts, PlanSteps DEF TypeOK
  <2>3. ASSUME NEW k \in n .. Len(Plan), Plan[k].op = "move", Plan[k].on \notin skewed',
               k # n \/ phase = "step"
        PROVE  Fresh(Plan[k].on)'
    <3>1. Plan[k].on \in Folders BY <2>2, <2>3, PlanSteps
    <3>2. Fresh(Plan[k].on) BY <1>7, <2>3 DEF Between
    <3>3. QED BY <1>2, <3>1, <3>2
  <2>4. \A s \in Services :
           Runs(s)' \/ \E k \in n .. Len(Plan) : Plan[k] = Do("start", s)
    BY <1>7 DEF Between
  <2>5. /\ phase = "copy" => Volume' \in attached'
        /\ phase = "nest" => Folder' \in skewed'
        /\ phase \in {"remove", "mkdir", "mount"} /\ Folder' \notin skewed' =>
              dir'[Folder'][Volume'] = "whole"
    BY <1>3, <1>7 DEF Between
  <2>6. QED BY <2>1, <2>3, <2>4, <2>5 DEF Between
<1>8. QED BY <1>1, <1>5, <1>6, <1>7 DEF PlacesInv

\* A step that begins or ends a task that is not let to move anything.
LEMMA RefusedPlaces ==
    ASSUME PlacesInv, UNCHANGED <<said, dir, mounted, had, skewed, unit, halted, broken>>,
           migrated => phase = "idle" /\ phase' = "idle"
    PROVE  PlacesInv'
<1>1. UNCHANGED <<migrated, location>> BY DEF said
<1>2. \A f : (Fresh(f)' <=> Fresh(f)) /\ (Home(f)' <=> Home(f)) BY <1>1 DEF Fresh, Home
<1>3. \A s : Runs(s)' <=> Runs(s) BY DEF Runs
<1>4. (Before => Before') /\ (After => After') BY <1>2, <1>3 DEF Before, After
<1>5. QED BY <1>1, <1>4 DEF PlacesInv

\* With the binds activated every folder's turn is still to come.
LEMMA ActivatePlaces == ASSUME DataInv, PlacesInv, Activate PROVE PlacesInv'
<1> SUFFICES ASSUME broken = {} PROVE PlacesInv' BY DEF PlacesInv, Activate, past
<1>1. phase' = "step" /\ n' = 1 /\ migrated' = TRUE
      /\ UNCHANGED <<dir, had, skewed, unit, halted>>
  BY DEF Activate, disks, past
<1>2. ~migrated BY Parts DEF Place, Activate
<1>3. Before BY <1>2 DEF PlacesInv
<1>4. ASSUME NEW k \in 1 .. Len(Plan), Plan[k].op = "move", Plan[k].on \notin skewed
      PROVE  Fresh(Plan[k].on)'
  BY <1>1, <1>3, <1>4, PlanSteps DEF Before, Fresh
<1>5. \A s \in Services : Runs(s)' BY <1>1, <1>3 DEF Before, Runs
<1>6. Between' BY <1>1, <1>4, <1>5 DEF Between
<1>7. QED BY <1>1, <1>6 DEF PlacesInv

\* The plan goes on, with the folder of the step it leaves in its place.
LEMMA NextPlaces ==
    ASSUME DataInv, PlacesInv, n <= Len(Plan), phase \in {"step", "mkdir", "mount"}, NextStep,
           UNCHANGED <<jobs, taken, said, dir, had, broken>>, skewed \subseteq skewed',
           \A f \in Folders : Plan[n].op # "move" \/ f # Plan[n].on => mounted'[f] = mounted[f],
           broken = {} /\ Plan[n].op = "move" /\ Folder \in had \ skewed' =>
               dir[Folder][Volume] = "whole" /\ mounted'[Folder] = Volume,
           \A s \in Services : Runs(s)' \/ Plan[n] = Do("stop", s)
                                        \/ (~Runs(s) /\ Plan[n] # Do("start", s))
    PROVE  PlacesInv'
<1> SUFFICES ASSUME broken = {} PROVE PlacesInv' BY DEF PlacesInv
<1>1. n \in 1 .. 18 /\ n' = n + 1 /\ Len(Plan) = 18 /\ had \subseteq Folders
  BY Parts, PlanSteps DEF TypeOK, NextStep
<1>2. migrated /\ location = Config /\ Between BY Parts DEF Place, PlacesInv
<1>3. migrated' /\ location' = location /\ phase' = "step" BY <1>2 DEF said, NextStep
<1>4. ASSUME NEW k \in 1 .. n, Plan[k].op = "move", Plan[k].on \in had' \ skewed'
      PROVE  Home(Plan[k].on)'
  <2>1. CASE k = n BY <1>2, <1>3, <1>4, <2>1 DEF Home, Folder, Volume
  <2>2. CASE k # n
    <3>1. k \in 1 .. n - 1 /\ Plan[k].on \in Folders BY <1>1, <1>4, <2>2
    <3>2. Home(Plan[k].on) BY <1>2, <1>4, <3>1 DEF Between
    <3>3. mounted'[Plan[k].on] = mounted[Plan[k].on]
      BY <1>1, <1>4, <2>2, <3>1, OneTurn
    <3>4. QED BY <1>3, <3>2, <3>3 DEF Home
  <2>3. QED BY <2>1, <2>2
<1>5. ASSUME NEW k \in n + 1 .. Len(Plan), Plan[k].op = "move", Plan[k].on \notin skewed'
      PROVE  Fresh(Plan[k].on)'
  <2>1. k \in n .. Len(Plan) /\ k # n BY <1>1
  <2>2. Fresh(Plan[k].on) BY <1>2, <1>5, <2>1 DEF Between
  <2>3. QED BY <2>2 DEF Fresh
<1>6. ASSUME NEW s \in Services
      PROVE  Runs(s)' \/ \E k \in n + 1 .. Len(Plan) : Plan[k] = Do("start", s)
  <2>1. CASE Plan[n] = Do("stop", s) BY <1>1, <2>1, StoppedIsStarted
  <2>2. CASE ~Runs(s) /\ Plan[n] # Do("start", s)
    <3>1. PICK k \in n .. Len(Plan) : Plan[k] = Do("start", s) BY <1>2, <2>2 DEF Between
    <3>2. k \in n + 1 .. Len(Plan) BY <1>1, <2>2, <3>1
    <3>3. QED BY <3>1, <3>2
  <2>3. QED BY <2>1, <2>2
<1>7. Between' BY <1>1, <1>3, <1>4, <1>5, <1>6 DEF Between
<1>8. QED BY <1>3, <1>7 DEF PlacesInv

\* A call of move_folder that is under way.
LEMMA CallPlaces ==
    ASSUME DataInv, PlacesInv, n <= Len(Plan), Plan[n].op = "move",
           phase \in {"step", "copy", "nest", "remove", "mkdir"},
           phase' \in {"copy", "nest", "remove", "mkdir", "mount"},
           UNCHANGED <<jobs, taken, n, said, attached, mounted, had, unit, halted, broken>>,
           skewed \subseteq skewed', NEW r, dir' = [dir EXCEPT ![Folder] = r],
           broken = {} =>
              /\ phase' = "copy" => Volume \in attached
              /\ phase' = "nest" => Folder \in skewed'
              /\ phase' \in {"remove", "mkdir", "mount"} /\ Folder \notin skewed' =>
                    r[Volume] = "whole"
    PROVE  PlacesInv'
<1> SUFFICES ASSUME broken = {} PROVE PlacesInv' BY DEF PlacesInv
<1>1. n \in 1 .. 18 /\ Len(Plan) = 18 /\ had \subseteq Folders /\ DOMAIN dir = Folders
  BY Parts, PlanSteps DEF TypeOK
<1>2. migrated /\ Between BY Parts DEF Place, PlacesInv
<1>3. UNCHANGED <<migrated, location>> BY DEF said
<1>4. Folder \in Folders /\ Folder' = Folder /\ Volume' = Volume
  BY <1>1, PlanSteps DEF Folder, Volume, Config
<1>5. \A f \in Folders : f # Folder => dir'[f] = dir[f] BY <1>1
<1>6. ASSUME NEW k \in 1 .. Len(Plan), Plan[k].op = "move", k # n
      PROVE  Plan[k].on \in Folders /\ dir'[Plan[k].on] = dir[Plan[k].on]
  <2>1. Plan[k].on \in Folders /\ Plan[k].on # Folder
    BY <1>1, <1>6, OneTurn, PlanSteps DEF Folder
  <2>2. QED BY <1>5, <2>1
<1>7. ASSUME NEW k \in 1 .. n - 1, Plan[k].op = "move", Plan[k].on \in had' \ skewed'
      PROVE  Home(Plan[k].on)'
  <2>1. k \in 1 .. Len(Plan) /\ k # n BY <1>1
  <2>2. Home(Plan[k].on) BY <1>2, <1>7 DEF Between
  <2>3. dir'[Plan[k].on] = dir[Plan[k].on] BY <1>6, <1>7, <2>1
  <2>4. QED BY <1>3, <2>2, <2>3 DEF Home
<1>8. ASSUME NEW k \in n .. Len(Plan), Plan[k].op = "move", Plan[k].on \notin skewed', k # n
      PROVE  Fresh(Plan[k].on)'
  <2>1. k \in 1 .. Len(Plan) BY <1>1
  <2>2. Fresh(Plan[k].on) BY <1>2, <1>8 DEF Between
  <2>3. dir'[Plan[k].on] = dir[Plan[k].on] BY <1>6, <1>8, <2>1
  <2>4. QED BY <2>2, <2>3 DEF Fresh
<1>9. \A s \in Services : Runs(s)' \/ \E k \in n .. Len(Plan) : Plan[k] = Do("start", s)
  BY <1>2 DEF Between, Runs
<1>10. dir'[Folder] = r BY <1>1, <1>4
<1>11. /\ phase' = "copy" => Volume' \in attached'
       /\ phase' = "nest" => Folder' \in skewed'
       /\ phase' \in {"remove", "mkdir", "mount"} /\ Folder' \notin skewed' =>
             dir'[Folder'][Volume'] = "whole"
  BY <1>4, <1>10
<1>12. Between' BY <1>7, <1>8, <1>9, <1>11 DEF Between
<1>13. QED BY <1>2, <1>3, <1>12 DEF PlacesInv

\* Before its turn a folder that is not marked is on no volume.
LEMMA FreshAtItsTurn ==
    ASSUME DataInv, PlacesInv, broken = {}, At("move"), Folder \notin skewed
    PROVE  /\ \A v \in Volumes \cup {"under"} : dir[Folder][v] = "none"
           /\ ~AlreadyThere
           /\ Folder \in had => data[Folder] = "whole"
<1>1. n \in 1 .. 18 /\ Len(Plan) = 18 BY Parts, PlanSteps DEF TypeOK, At
<1>2. migrated /\ phase = "step" /\ Between BY Parts DEF Place, PlacesInv, At
<1>3. n \in n .. Len(Plan) BY <1>1
<1>4. Fresh(Folder) BY <1>2, <1>3 DEF Between, At, Folder
<1>5. Folder \in Folders /\ dir \in [Folders -> [Volumes \cup {"under"} -> DirStates]]
  BY <1>2, TargetTyped DEF At
<1>6. \A v \in Volumes \cup {"under"} : dir[Folder][v] = "none" BY <1>4, <1>5 DEF Fresh
<1>7. ~AlreadyThere BY <1>6, BindsAssumption DEF AlreadyThere
<1>8. Folder \in had => data[Folder] = "whole"
  BY <1>2, <1>3, Parts DEF Untouched, At, Folder
<1>9. QED BY <1>6, <1>7, <1>8

LEMMA RenamePlaces == ASSUME DataInv, PlacesInv, Rename PROVE PlacesInv'
<1>1. n <= Len(Plan) /\ Plan[n].op = "move" /\ phase = "step" /\ At("move")
  BY DEF Rename, Moving, At
<1>2. /\ Folder \in Folders /\ Volume \in Volumes /\ Target \in Volumes \cup {"under"}
      /\ dir \in [Folders -> [Volumes \cup {"under"} -> DirStates]]
  BY <1>1, TargetTyped
<1> DEFINE r == [dir[Folder] EXCEPT ![Target] = Landed]
<1>3. dir' = [dir EXCEPT ![Folder] = r] BY <1>2 DEF Rename, Put
<1>4. skewed' = IF Target = Volume THEN skewed ELSE skewed \cup {Folder}
  BY DEF Rename, LooksAside
<1>5. ASSUME broken = {}, Folder \notin skewed' PROVE r[Volume] = "whole"
  <2>1. Target = Volume /\ Folder \notin skewed BY <1>4, <1>5
  <2>2. dir[Folder][Target] = "none" BY <1>1, <1>2, <1>5, <2>1, FreshAtItsTurn
  <2>3. QED BY <1>2, <2>1, <2>2 DEF Landed
<1>6. /\ phase' = "mkdir"
      /\ UNCHANGED <<jobs, taken, n, said, attached, mounted, had, unit, halted, broken>>
  BY DEF Rename
<1> HIDE DEF r
<1>7. QED BY <1>1, <1>3, <1>4, <1>5, <1>6, CallPlaces

LEMMA StartCopyPlaces == ASSUME DataInv, PlacesInv, StartCopy PROVE PlacesInv'
<1>1. n <= Len(Plan) /\ Plan[n].op = "move" /\ phase = "step" /\ At("move")
  BY DEF StartCopy, Moving, At
<1>2. /\ Folder \in Folders /\ Volume \in Volumes /\ Target \in Volumes \cup {"under"}
      /\ dir \in [Folders -> [Volumes \cup {"under"} -> DirStates]]
  BY <1>1, TargetTyped
<1> DEFINE r == [dir[Folder] EXCEPT ![Target] = "part"]
<1>3. dir' = [dir EXCEPT ![Folder] = r] BY <1>2 DEF StartCopy, Put
<1>4. phase' \in {"copy", "nest"} /\ (phase' = "nest" <=> dir[Folder][Target] # "none")
  BY DEF StartCopy, Landed
<1>5. Volume \in attached BY DEF StartCopy, Target
<1>6. broken = {} /\ phase' = "nest" => Folder \in skewed
  BY <1>1, <1>2, <1>4, FreshAtItsTurn
<1>7. UNCHANGED <<jobs, taken, n, said, attached, mounted, had, unit, skewed, halted, broken>>
  BY DEF StartCopy, past
<1> HIDE DEF r
<1>8. QED BY <1>1, <1>3, <1>4, <1>5, <1>6, <1>7, CallPlaces

LEMMA CopiedPlaces == ASSUME DataInv, PlacesInv, Copied PROVE PlacesInv'
<1>1. n <= Len(Plan) /\ Plan[n].op = "move" /\ phase \in {"copy", "nest"} /\ migrated
  BY Parts DEF Place, Copied
<1>2. /\ Folder \in Folders /\ Volume \in Volumes /\ Target \in Volumes \cup {"under"}
      /\ dir \in [Folders -> [Volumes \cup {"under"} -> DirStates]]
  BY <1>1, TargetTyped
<1> DEFINE r == [dir[Folder] EXCEPT ![Target] = IF phase = "copy" THEN "whole" ELSE "nested"]
<1>3. dir' = [dir EXCEPT ![Folder] = r] BY <1>2 DEF Copied, Put
<1>4. ASSUME broken = {}, Folder \notin skewed PROVE r[Volume] = "whole"
  <2>1. phase = "copy" /\ Volume \in attached BY <1>1, <1>4 DEF PlacesInv, Between
  <2>2. QED BY <1>2, <2>1 DEF Target
<1>5. /\ phase' = "remove"
      /\ UNCHANGED <<jobs, taken, n, said, attached, mounted, had, unit, skewed, halted, broken>>
  BY DEF Copied, past
<1> HIDE DEF r
<1>6. QED BY <1>1, <1>3, <1>4, <1>5, CallPlaces

LEMMA RemovePlaces == ASSUME DataInv, PlacesInv, Remove \/ MakeDir PROVE PlacesInv'
<1>1. n <= Len(Plan) /\ Plan[n].op = "move" /\ phase \in {"remove", "mkdir"} /\ migrated
  BY Parts DEF Place, Remove, MakeDir
<1>2. Folder \in Folders /\ dir \in [Folders -> [Volumes \cup {"under"} -> DirStates]]
  BY <1>1, TargetTyped
<1> DEFINE r == dir[Folder]
<1>3. dir' = [dir EXCEPT ![Folder] = r] BY <1>2 DEF Remove, MakeDir
<1>4. broken = {} /\ Folder \notin skewed => r[Volume] = "whole"
  BY <1>1 DEF PlacesInv, Between
<1>5. /\ phase' \in {"mkdir", "mount"}
      /\ UNCHANGED <<jobs, taken, n, said, attached, mounted, had, unit, skewed, halted, broken>>
  BY DEF Remove, MakeDir, past
<1> HIDE DEF r
<1>6. QED BY <1>1, <1>3, <1>4, <1>5, CallPlaces

LEMMA GoOnPlaces ==
    ASSUME DataInv, PlacesInv, DOMAIN unit = Services,
           Stop \/ Start \/ Skip \/ Mount \/ MakeDirFails \/ MountFails
    PROVE  PlacesInv'
<1>1. /\ n <= Len(Plan) /\ phase \in {"step", "mkdir", "mount"} /\ NextStep
      /\ phase # "idle" /\ n \in 1 .. Len(Plan)
  BY Parts, PlanSteps
     DEF TypeOK, Place, Stop, Start, Skip, Mount, MakeDirFails, MountFails, At
<1>2. UNCHANGED <<jobs, taken, said, dir, had, broken>> /\ skewed \subseteq skewed'
  BY DEF Stop, Start, Skip, Mount, MakeDirFails, MountFails, disks, past
<1> DEFINE Others  == \A f \in Folders : Plan[n].op # "move" \/ f # Plan[n].on =>
                                            mounted'[f] = mounted[f]
           Arrives == broken = {} /\ Plan[n].op = "move" /\ Folder \in had \ skewed' =>
                         dir[Folder][Volume] = "whole" /\ mounted'[Folder] = Volume
           Going   == \A s \in Services : Runs(s)' \/ Plan[n] = Do("stop", s)
                                          \/ (~Runs(s) /\ Plan[n] # Do("start", s))
<1> SUFFICES Others /\ Arrives /\ Going BY <1>1, <1>2, NextPlaces
<1>3. CASE Stop
  <2>1. Plan[n] = Do("stop", Service) /\ mounted' = mounted
    BY <1>1, <1>3, PlanRecords DEF Stop, At, Service, disks
  <2>2. ASSUME NEW s \in Services, s # Service PROVE Runs(s)' <=> Runs(s)
    <3>1. unit' = [unit EXCEPT ![Service] = IF @ = "on" THEN "stopping" ELSE @]
          /\ halted' = halted
      BY <1>3 DEF Stop, past
    <3>2. unit'[s] = unit[s] BY <2>2, <3>1
    <3>3. QED BY <3>1, <3>2 DEF Runs
  <2>3. Going BY <2>1, <2>2 DEF Do
  <2>4. QED BY <2>1, <2>3 DEF Do
<1>4. CASE Start
  <2>1. Plan[n] = Do("start", Service) /\ mounted' = mounted
    BY <1>1, <1>4, PlanRecords DEF Start, At, Service, disks
  <2>2. ASSUME NEW s \in Services PROVE Runs(s)' \/ (~Runs(s) /\ s # Service)
    <3>1. unit' = [unit EXCEPT ![Service] = "on"] /\ halted' = halted \ {Service}
      BY <1>4 DEF Start
    <3>2. CASE s = Service
      <4>1. unit'[s] = "on" BY <3>1, <3>2
      <4>2. QED BY <4>1 DEF Runs
    <3>3. CASE s # Service
      <4>1. unit'[s] = unit[s] /\ (s \in halted' <=> s \in halted) BY <3>1, <3>3
      <4>2. QED BY <3>3, <4>1 DEF Runs
    <3>4. QED BY <3>2, <3>3
  <2>3. Going BY <2>1, <2>2 DEF Do
  <2>4. QED BY <2>1, <2>3 DEF Do
<1>5. CASE Skip \/ Mount \/ MakeDirFails \/ MountFails
  <2>1. Plan[n].op = "move"
    BY <1>5, Parts DEF Place, Skip, Mount, MakeDirFails, MountFails, At
  <2>2. UNCHANGED <<unit, halted>>
    BY <1>5 DEF Skip, Mount, MakeDirFails, MountFails, past
  <2>3. Going BY <2>1, <2>2 DEF Runs, Do
  <2>4. Folder \in Folders /\ Volume \in Volumes BY <1>1, <2>1, TargetTyped
  <2>5. mounted \in [Folders -> Volumes \cup {None}] BY Parts DEF TypeOK
  <2>6. Others
    <3>1. mounted' = mounted \/ mounted' = [mounted EXCEPT ![Folder] = Volume]
      BY <1>5 DEF Skip, Mount, MakeDirFails, MountFails, disks
    <3>2. QED BY <2>1, <2>5, <3>1 DEF Folder
  <2>7. Arrives
    <3> SUFFICES ASSUME broken = {}, Folder \in had \ skewed'
                 PROVE  dir[Folder][Volume] = "whole" /\ mounted'[Folder] = Volume
      OBVIOUS
    <3>1. CASE Skip
      <4>1. data[Folder] = "whole" /\ ~AlreadyThere
        BY <3>1, FreshAtItsTurn, <1>2 DEF Skip
      <4>2. QED BY <3>1, <4>1 DEF Skip
    <3>2. CASE Mount
      <4>1. mounted'[Folder] = Volume BY <2>4, <2>5, <3>2 DEF Mount
      <4>2. Between /\ Folder \notin skewed
        BY <1>2, <3>2, Parts DEF Place, PlacesInv, Mount
      <4>3. QED BY <3>2, <4>1, <4>2 DEF Between, Mount
    <3>3. CASE MakeDirFails \/ MountFails BY <3>3 DEF MakeDirFails, MountFails
    <3>4. QED BY <1>5, <3>1, <3>2, <3>3
  <2>8. QED BY <2>3, <2>6, <2>7
<1>6. QED BY <1>3, <1>4, <1>5

\* When the plan is done, every turn is over.
LEMMA FinishPlaces == ASSUME DataInv, PlacesInv, Finish PROVE PlacesInv'
<1> SUFFICES ASSUME broken = {} PROVE PlacesInv' BY DEF PlacesInv, Finish, past
<1>1. /\ migrated /\ phase # "idle" /\ n = 19 /\ Len(Plan) = 18 /\ had \subseteq Folders
  <2>1. TypeOK /\ Place /\ phase = "step" /\ n > Len(Plan) BY Parts DEF Finish
  <2>2. n \in 1 .. Len(Plan) + 1 /\ had \subseteq Folders BY <2>1 DEF TypeOK
  <2>3. QED BY <2>1, <2>2, PlanSteps DEF Place
<1>2. Between BY <1>1 DEF PlacesInv
<1>3. ASSUME NEW f \in had \ skewed PROVE Home(f)
  <2>1. PICK k \in 1 .. 18 : Plan[k].op = "move" /\ Plan[k].on = f BY <1>1, EveryTurn
  <2>2. k \in 1 .. n - 1 BY <1>1
  <2>3. QED BY <1>2, <1>3, <2>1, <2>2 DEF Between
<1>4. \A s \in Services : Runs(s) BY <1>1, <1>2 DEF Between
<1>5. /\ UNCHANGED <<migrated, location, dir, mounted, had, skewed, unit, halted>>
      /\ phase' = "idle"
  BY DEF Finish, said, disks, past
<1>6. After' BY <1>3, <1>4, <1>5 DEF After, Home, Runs
<1>7. QED BY <1>1, <1>5, <1>6 DEF PlacesInv

\* A cut off task leaves no promise.
LEMMA FaultPlaces == ASSUME DataInv, PlacesInv, DOMAIN unit = Services, Fault PROVE PlacesInv'
<1>1. CASE Raise \/ CopyFails \/ RemoveFails \/ Crash
  <2>1. Die BY <1>1 DEF Raise, CopyFails, RemoveFails, Crash
  <2>2. QED BY <2>1 DEF Die, PlacesInv
<1>2. CASE MakeDirFails \/ MountFails BY <1>2, GoOnPlaces
<1>3. CASE Detach
  <2>1. UNCHANGED <<work, said, dir, mounted, unit, had, broken, halted>> BY <1>3 DEF Detach
  <2>2. PICK v \in attached \ {Root} :
           /\ phase \in {"copy", "nest"} => Volume # v
           /\ attached' = attached \ {v}
    BY <1>3 DEF Detach
  <2>3. skewed \subseteq skewed' BY <1>3 DEF Detach
  <2>4. phase = "copy" => (Volume \in attached <=> Volume \in attached') BY <2>2
  <2>5. (\A s \in Services : Runs(s) => Runs(s)') /\ Config' = Config
    BY <2>1 DEF Runs, Config, work
  <2>6. UNCHANGED <<phase, n, taken>> BY <2>1 DEF work
  <2>7. QED BY <2>1, <2>3, <2>4, <2>5, <2>6, AsidePlaces
<1>4. QED BY <1>1, <1>2, <1>3 DEF Fault

LEMMA OthersPlaces ==
    ASSUME DataInv, PlacesInv, DOMAIN unit = Services,
           ListDevices \/ ServiceWrites \/ UnitStops \/ UserStarts \/ UserStops
    PROVE  PlacesInv'
<1>1. UNCHANGED <<work, said, attached, dir, mounted, had, skewed, broken>>
  BY DEF ListDevices, ServiceWrites, UnitStops, UserStarts, UserStops, disks, past
<1>2. ASSUME NEW t \in Services, Runs(t) PROVE Runs(t)'
  <2>1. CASE ListDevices \/ ServiceWrites
    BY <1>2, <2>1 DEF ListDevices, ServiceWrites, Runs, past
  <2>2. CASE UnitStops
    <3>1. PICK s \in Services : unit[s] = "stopping" /\ unit' = [unit EXCEPT ![s] = "off"]
      BY <2>2 DEF UnitStops
    <3>2. halted' = halted /\ (t # s => unit'[t] = unit[t]) BY <2>2, <3>1 DEF UnitStops, past
    <3>3. QED BY <1>2, <3>1, <3>2 DEF Runs
  <2>3. CASE UserStarts
    <3>1. PICK s \in Services : unit' = [unit EXCEPT ![s] = "on"] /\ halted' = halted \ {s}
      BY <2>3 DEF UserStarts
    <3>2. QED BY <1>2, <3>1 DEF Runs
  <2>4. CASE UserStops
    <3>1. PICK s \in Services :
             unit' = [unit EXCEPT ![s] = "stopping"] /\ halted' = halted \cup {s}
      BY <2>4 DEF UserStops
    <3>2. t # s => unit'[t] = unit[t] BY <3>1
    <3>3. QED BY <1>2, <3>1, <3>2 DEF Runs
  <2>5. QED BY <2>1, <2>2, <2>3, <2>4
<1>3. QED BY <1>1, <1>2, AsidePlaces DEF work, Config

LEMMA TaskPlaces ==
    ASSUME DataInv, PlacesInv, DOMAIN unit = Services, Task PROVE PlacesInv'
<1>1. CASE Take \/ Check
  <2>1. UNCHANGED <<said, dir, mounted, had, skewed, unit, halted, broken>>
    BY <1>1 DEF Take, Check, disks, past
  <2>2. migrated => phase = "idle" /\ phase' = "idle"
    BY <1>1, Parts DEF Take, Check, Place
  <2>3. QED BY <2>1, <2>2, RefusedPlaces
<1>2. CASE Activate BY <1>2, ActivatePlaces
<1>3. CASE Stop \/ Start \/ Skip \/ Mount BY <1>3, GoOnPlaces
<1>4. CASE Finish BY <1>4, FinishPlaces
<1>5. CASE Rename BY <1>5, RenamePlaces
<1>6. CASE StartCopy BY <1>6, StartCopyPlaces
<1>7. CASE Copied BY <1>7, CopiedPlaces
<1>8. CASE Remove \/ MakeDir BY <1>8, RemovePlaces
<1>9. QED BY <1>1, <1>2, <1>3, <1>4, <1>5, <1>6, <1>7, <1>8 DEF Task

\* A request does not change the job that runs.
LEMMA RequestPlaces == ASSUME DataInv, PlacesInv, Request PROVE PlacesInv'
<1>1. UNCHANGED <<taken, phase, n, said, attached, dir, mounted, unit, had, skewed, broken, halted>>
  BY DEF Request, disks, past
<1>2. PICK c \in Configs : jobs' = Append(jobs, [config |-> c, status |-> "CREATED"])
  BY DEF Request
<1>3. phase # "idle" => taken \in 1 .. Len(jobs) BY Parts, RunningJob
<1>4. jobs \in Seq(JobRecords) BY Parts, TypeParts DEF JobsTyped
<1>5. phase # "idle" => Config' = Config
  <2>1. phase # "idle" => jobs'[taken] = jobs[taken] BY <1>2, <1>3, <1>4
  <2>2. QED BY <1>1, <2>1 DEF Config
<1>6. \A s \in Services : Runs(s) => Runs(s)' BY <1>1 DEF Runs
<1>7. QED BY <1>1, <1>5, <1>6, AsidePlaces

LEMMA UnitsStep ==
    ASSUME unit \in [Services -> {"on", "stopping", "off"}], [Next]_vars
    PROVE  unit' \in [Services -> {"on", "stopping", "off"}]
<1>1. \/ unit' = unit
      \/ unit' = [unit EXCEPT ![Service] = IF @ = "on" THEN "stopping" ELSE @]
      \/ unit' = [unit EXCEPT ![Service] = "on"]
      \/ \E s \in Services, st \in {"on", "stopping", "off"} : unit' = [unit EXCEPT ![s] = st]
  <2>1. CASE Request \/ ListDevices \/ ServiceWrites \/ UnitStops \/ UserStarts \/ UserStops
    BY <2>1 DEF Request, ListDevices, ServiceWrites, UnitStops, UserStarts, UserStops
  <2>2. CASE Task
    BY <2>2 DEF Task, Take, Check, Activate, Stop, Start, Finish, Skip, Rename, StartCopy,
                Copied, Remove, MakeDir, Mount
  <2>3. CASE Fault
    BY <2>3 DEF Fault, Raise, CopyFails, RemoveFails, MakeDirFails, MountFails, Detach, Crash
  <2>4. QED BY <2>1, <2>2, <2>3 DEF Next, vars
<1>2. QED BY <1>1

LEMMA BindsInvStep == BindsInv /\ [Next]_vars => BindsInv'
<1> SUFFICES ASSUME BindsInv, [Next]_vars PROVE BindsInv' OBVIOUS
<1>1. DataInv /\ PlacesInv /\ unit \in [Services -> {"on", "stopping", "off"}] BY DEF BindsInv
<1>2. DataInv' BY <1>1, DataInvStep
<1>3. unit' \in [Services -> {"on", "stopping", "off"}] BY <1>1, UnitsStep
<1>4. DOMAIN unit = Services BY <1>1
<1>5. PlacesInv'
  <2>1. CASE Request BY <1>1, <2>1, RequestPlaces
  <2>2. CASE Task BY <1>1, <1>4, <2>2, TaskPlaces
  <2>3. CASE Fault BY <1>1, <1>4, <2>3, FaultPlaces
  <2>4. CASE ListDevices \/ ServiceWrites \/ UnitStops \/ UserStarts \/ UserStops
    BY <1>1, <1>4, <2>4, OthersPlaces
  <2>5. CASE UNCHANGED vars
    <3>1. UNCHANGED <<phase, n, taken, jobs, said, attached, dir, mounted, had, unit, skewed, broken, halted>>
      BY <2>5 DEF vars, work, disks, past
    <3>2. QED BY <1>1, <3>1, AsidePlaces DEF Config, Runs
  <2>6. QED BY <2>1, <2>2, <2>3, <2>4, <2>5 DEF Next
<1>6. QED BY <1>2, <1>3, <1>5 DEF BindsInv

LEMMA BindsInvInit == Init => BindsInv
<1> SUFFICES ASSUME Init PROVE BindsInv OBVIOUS
<1>1. ~migrated /\ unit = [s \in Services |-> "on"] BY DEF Init
<1>2. \A f \in Folders \ skewed : Fresh(f)
  <2>1. PICK l \in Leftovers :
           /\ dir = [f \in Folders |-> [p \in Volumes \cup {"under"} |->
                                          IF <<f, p>> \in l THEN "old" ELSE "none"]]
           /\ skewed = {x[1] : x \in l}
    BY DEF Init
  <2>2. ASSUME NEW f \in Folders \ skewed, NEW p \in Volumes \cup {"under"}
        PROVE  dir[f][p] = "none"
    <3>1. <<f, p>> \notin l
      <4>1. <<f, p>> \in l => <<f, p>>[1] \in skewed BY <2>1
      <4>2. QED BY <2>2, <4>1
    <3>2. QED BY <2>1, <2>2, <3>1
  <2>3. \A f \in Folders : DOMAIN dir[f] = Volumes \cup {"under"} BY <2>1
  <2>4. QED BY <2>2, <2>3 DEF Fresh
<1>3. Before BY <1>1, <1>2 DEF Before, Runs
<1>4. QED BY <1>1, <1>3, DataInvInit DEF BindsInv, PlacesInv

\* The whole invariant, with where the folders end up: as long as no task was cut off,
\* folders whose turn is over are in their places, those to come not begun, and what was
\* stopped is still to be started (migrate_to_binds).
THEOREM BindsInvariance == Spec => []BindsInv
BY BindsInvInit, BindsInvStep, PTL DEF Spec

\* When no task was cut off, the user data name the volume that the data of each folder
\* are on and mounted from, and no service is left stopped (migrate_to_binds).
THEOREM LocationTellsWhereHolds == Spec => []LocationTellsWhere
<1>1. BindsInv => LocationTellsWhere
  BY DEF BindsInv, PlacesInv, Before, After, Home, Runs, LocationTellsWhere
<1>2. QED BY <1>1, BindsInvariance, PTL
=============================================================================
