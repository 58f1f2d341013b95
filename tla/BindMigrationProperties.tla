----------------------- MODULE BindMigrationProperties -----------------------
(* What the migration to binds promises.                                     *)
EXTENDS BindMigration

Arrived(f) == \E p \in DOMAIN dir[f] : dir[f][p] \in {"whole", "nested"}

(* Whatever fails, and wherever the worker is restarted, the data of every   *)
(* folder are whole in some place, unless their service, which was asked to  *)
(* stop but did not stop yet or was started by others, wrote to them while   *)
(* they were copied (move_folder).                                           *)
NothingLost ==
    \A f \in had \ torn :
        data[f] = "whole" \/ Arrived(f)

Phases == {"idle", "check", "activate", "step", "copy", "nest", "remove", "mkdir", "mount"}

TypeOK ==
    /\ jobs \in Seq([config : [Services -> Volumes],
                     status : {"CREATED", "RUNNING", "ERROR", "FINISHED"}])
    /\ taken \in 0 .. Len(jobs) /\ Len(jobs) <= MaxRequests /\ broken \subseteq 1 .. taken
    /\ phase \in Phases /\ n \in 1 .. Len(Plan) + 1
    /\ migrated \in BOOLEAN /\ attached \subseteq Volumes /\ had \subseteq Folders
    /\ data \in [Folders -> {"whole", "part", "none", "empty"}]
    /\ dir \in [Folders -> [Volumes \cup {"under"} ->
                               {"none", "old", "part", "whole", "nested"}]]
    /\ mounted \in [Folders -> Volumes \cup {None}]

(* The data of a folder are where they were until its turn comes: before the *)
(* migration, and in the steps of the task that are still to come.           *)
Untouched ==
    /\ ~migrated => \A f \in had : data[f] = "whole"
    /\ phase \in {"step", "copy", "nest", "remove", "mkdir", "mount"} =>
         \A k \in n .. Len(Plan) :
            (/\ Plan[k].op = "move" /\ Plan[k].on \in had
             /\ k # n \/ phase \notin {"mkdir", "mount"})
            => data[Plan[k].on] = "whole"

(* What keeps the data: the job that the worker is at is RUNNING and its     *)
(* locations are in the user data before the first folder is touched; a      *)
(* folder is removed only when its data have arrived; one that is mounted    *)
(* was asked for; and no data are lost (migrate_to_binds).                   *)
DataInv ==
    /\ TypeOK
    /\ phase # "idle" => taken # 0 /\ jobs[taken].status = "RUNNING"
    /\ phase \in {"check", "activate"} => ~migrated
    /\ phase \notin {"idle", "check", "activate"} => migrated /\ location = Config
    /\ phase \in {"copy", "nest", "remove", "mkdir", "mount"} =>
         n <= Len(Plan) /\ Plan[n].op = "move"
    /\ phase \in {"copy", "nest", "remove"} => data[Folder] # "none"
    /\ phase \in {"remove", "mkdir", "mount"} => Arrived(Folder)
    /\ \A f \in Folders : mounted[f] # None => migrated
    /\ Untouched
    /\ NothingLost

Fresh(f) == \A p \in DOMAIN dir[f] : dir[f][p] = "none"
Home(f)  == LET v == location[OwnerOf[f]] IN dir[f][v] = "whole" /\ mounted[f] = v
Runs(s)  == unit[s] = "on" \/ s \in halted

\* Before the migration, after it, and in the call of move_folder under way.
Before   == (\A f \in Folders \ skewed : Fresh(f)) /\ \A s \in Services : Runs(s)
After    == (\A f \in had \ skewed : Home(f)) /\ \A s \in Services : Runs(s)
Between  ==
    /\ \A k \in 1 .. n - 1 :
          Plan[k].op = "move" /\ Plan[k].on \in had \ skewed => Home(Plan[k].on)
    /\ \A k \in n .. Len(Plan) :
          Plan[k].op = "move" /\ Plan[k].on \notin skewed /\ (k # n \/ phase = "step")
          => Fresh(Plan[k].on)
    /\ \A s \in Services :
          Runs(s) \/ \E k \in n .. Len(Plan) : Plan[k] = Do("start", s)
    /\ phase = "copy" => Volume \in attached
    /\ phase = "nest" => Folder \in skewed
    /\ phase \in {"remove", "mkdir", "mount"} /\ Folder \notin skewed =>
          dir[Folder][Volume] = "whole"

(* As long as no task was cut off: before the migration no volume has a      *)
(* directory of a folder that is not marked for it; in the task the folders  *)
(* whose turn is over are where the user data say, those to come are not     *)
(* begun, and a stopped service is one the plan still starts; after it every *)
(* folder is in its place and every service runs (migrate_to_binds).         *)
PlacesInv ==
    broken = {} =>
        /\ ~migrated => Before
        /\ migrated /\ phase = "idle" => After
        /\ migrated /\ phase # "idle" => Between

(* The invariant of the migration (migrate_to_binds).                        *)
BindsInv ==
    /\ DataInv
    /\ unit \in [Services -> {"on", "stopping", "off"}]
    /\ PlacesInv

(* When no task was cut off, the user data name the volume on which the data *)
(* of each folder are and from which they are mounted, also when two         *)
(* migrations to different volumes were accepted before the first began; a   *)
(* folder is excepted when an old directory of its name was on a volume, its *)
(* volume was unmounted or its mount failed.  And no service is left stopped *)
(* unless somebody else stopped it (migrate_to_binds).                       *)
LocationTellsWhere ==
    phase = "idle" /\ broken = {} =>
        /\ migrated => \A f \in had \ skewed :
               LET v == location[OwnerOf[f]]
               IN  dir[f][v] = "whole" /\ mounted[f] = v
        /\ \A s \in Services : unit[s] = "on" \/ s \in halted
==============================================================================
