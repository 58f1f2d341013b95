------------------------ MODULE ServiceMoveProperties ------------------------
(* What a move promises, whatever fails on the way.                          *)
EXTENDS ServiceMove

\* Every folder is whole on some volume at every moment: no sequence of failed
\* copies, failed removals, crashes and further moves loses it.
NoDataLost ==
    \A s \in initialised, f \in Folders :
        \E v \in Volumes : dir[s][f][v] \in {"whole", "nested"}

\* From the unmounting of its folders to their mounting the service is down,
\* unless somebody else started it meanwhile.
DownWhileMoved ==
    pc \in {"unbind", "move", "copy", "own", "mount", "bind", "register"} =>
        (active[S] => S \in started)

\* Every way out of a move, but for a crash, starts the service that it stopped.
StartedAfterMove == pc = "idle" => stopped = {}

Moving(s) == pc # "idle" /\ s = S

\* With device names that are canonical, the user data name the volume where the
\* folders are, and they are mounted from there: but for a service with a move
\* that broke off, or when the server came up with a system built before.
LocationFollowsData ==
    (\A v \in Volumes : CanonicalName[v] = v) =>
        \A s \in initialised \ hurt, f \in Folders :
            Moving(s) \/ /\ dir[s][f][location[s]] = "whole"
                         /\ \/ mounted[s][f] = location[s]
                            \/ mounted[s][f] = None /\ built[s] # location[s]

\* When a job becomes FINISHED all folders are whole on the volume asked for and
\* mounted from there, unless an earlier move of the service broke off: a copy that
\* it left is taken for a directory to move into.
FinishedMeansMoved ==
    [][\A j \in DOMAIN jobs :
          LET s == jobs[j].svc
              v == jobs[j].to
          IN  (/\ jobs[j].status # "FINISHED" /\ jobs'[j].status = "FINISHED"
               /\ s \in initialised \ hurt)
              => /\ location'[s] = v
                 /\ \A f \in Folders : dir'[s][f][v] = "whole" /\ mounted'[s][f] = v]_vars

\* Every job of a move ends, and stays so, unless its task was lost.
Ended(j) == j \in DOMAIN jobs /\ jobs[j].status \in {"FINISHED", "ERROR"}

EveryMoveEnds ==
    \A j \in 1 .. MaxRequests : j \in DOMAIN jobs ~> [](Ended(j) \/ j \in lost)

-----------------------------------------------------------------------------
(* The inductive invariant                                                   *)

\* The folder is whole on volume v and nowhere else.
Alone(s, f, v) == dir[s][f] = [w \in Volumes |-> IF w = v THEN "whole" ELSE "none"]

Intact == initialised \ hurt

\* The worker moves from one volume to another.
TargetInv ==
    pc \in {"stop", "unbind", "move", "copy"} =>
        /\ S \in initialised
        /\ Old \in Volumes /\ CanonicalName[Old] = location[S] /\ Old # To

\* `fresh` tells whether the copy is into a directory of its own.
CopyInv ==
    pc = "copy" => IF fresh THEN dir[S][i][To] = "part" ELSE dir[S][i][To] # "none"

Entered == {"unbind", "move", "copy", "own", "mount", "bind", "register", "rebuild",
            "finish", "start"}

StoppedInv == stopped \subseteq IF pc \in Entered THEN {S} ELSE {}

\* How far a move has come, folder by folder.
Waiting(f) == \/ pc \in {"stop", "unbind"}
              \/ pc = "move" /\ f >= i
              \/ pc = "copy" /\ f > i
Copying(f) == pc = "copy" /\ f = i
Moved(f)   == \/ pc \in {"own", "mount", "bind", "register", "rebuild", "finish"}
              \/ pc \in {"move", "copy"} /\ f < i
Bound(f)   == \/ pc \in {"register", "rebuild", "finish"}
              \/ pc = "bind" /\ f < i

FolderInv(s, f) ==
    /\ Moving(s) /\ Waiting(f) => Alone(s, f, Old)
    /\ Moving(s) /\ Copying(f) =>
          /\ fresh
          /\ dir[s][f] = [w \in Volumes |-> IF w = Old THEN "whole"
                                           ELSE IF w = To THEN "part" ELSE "none"]
    /\ Moving(s) /\ Moved(f) => Alone(s, f, To)
    /\ Moving(s) /\ Bound(f) => mounted[s][f] = To
    /\ ~(Moving(s) /\ Copying(f)) => \E v \in Volumes : Alone(s, f, v)

FoldersInv ==
    /\ \A s \in Intact, f \in Folders : FolderInv(s, f)
    /\ pc \in {"own", "mount"} => i = 1
    /\ pc \in {"rebuild", "finish"} => location[S] = To

\* Between moves, with canonical names, folders are where the user data have them.
AtHome(s, f) ==
    /\ Alone(s, f, location[s])
    /\ \/ mounted[s][f] = location[s]
       \/ mounted[s][f] = None /\ built[s] # location[s]

Away == {"unbind", "move", "copy", "own", "mount", "bind", "register"}

HomeInv ==
    (\A v \in Volumes : CanonicalName[v] = v) =>
        /\ \A s \in Services : location[s] \in Volumes /\ built[s] \in Volumes
        /\ \A s \in Intact, f \in Folders :
              ~(Moving(s) /\ pc \in Away) => AtHome(s, f)

MoveInv ==
    /\ TypeOK /\ NoDataLost /\ DownWhileMoved
    /\ TargetInv /\ CopyInv /\ StoppedInv /\ FoldersInv /\ HomeInv
=============================================================================
