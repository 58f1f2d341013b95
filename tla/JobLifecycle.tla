----------------------------- MODULE JobLifecycle -----------------------------
(***************************************************************************)
(* What a client of the `jobs` API may rely on, whatever the worker and    *)
(* the other API handlers do: a job is created once, runs before it        *)
(* finishes, may be put back to CREATED only while it is live, and once it *)
(* is FINISHED or ERROR it never changes again; a job that disappeared     *)
(* (removed or expired) never comes back.                                  *)
(***************************************************************************)
EXTENDS Naturals

VARIABLES status,   \* function from the jobs that exist to their status
          next      \* the next id to be handed out

vars == <<status, next>>

Live     == {"CREATED", "RUNNING"}
Terminal == {"FINISHED", "ERROR"}

TypeOK == /\ \A j \in DOMAIN status : status[j] \in Live \cup Terminal
          /\ DOMAIN status \subseteq 1 .. next - 1
          /\ next \in Nat \ {0}

Init == /\ status = [j \in {} |-> "CREATED"]
        /\ next = 1

\* A new job gets an id that was never used.
Create == /\ next' = next + 1
          /\ status' = [k \in DOMAIN status \cup {next} |->
                           IF k = next THEN "CREATED" ELSE status[k]]

Move(j, from, to) == /\ j \in DOMAIN status
                     /\ status[j] \in from
                     /\ status' = [status EXCEPT ![j] = to]
                     /\ UNCHANGED next

Run(j)     == Move(j, Live, "RUNNING")
Requeue(j) == Move(j, Live, "CREATED")
Finish(j)  == Move(j, {"RUNNING"}, "FINISHED")
Fail(j)    == Move(j, Live, "ERROR")

Vanish == \E J \in SUBSET DOMAIN status :
             /\ status' = [k \in DOMAIN status \ J |-> status[k]]
             /\ UNCHANGED next

\* The id goes to a job of another kind, of which nothing is promised here.
Skip == next' = next + 1 /\ UNCHANGED status

Next == \/ Create
        \/ Skip
        \/ \E j \in DOMAIN status : Run(j) \/ Requeue(j) \/ Finish(j) \/ Fail(j)
        \/ Vanish

Spec == Init /\ [][Next]_vars
=============================================================================
