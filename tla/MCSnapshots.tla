---------------------------- MODULE MCSnapshots ----------------------------
(* The instance that TLC checks: a day is two ticks of the clock, a week     *)
(* four.  The service git fails, mail has automatic snapshots from before.   *)
EXTENDS SnapshotsProperties

CONSTANTS git, mail

Ordered == <<git, mail>>
Days    == [b \in {"daily", "weekly"} |->
              [t \in 0 .. MaxClock |-> IF b = "daily" THEN t \div 2 ELSE t \div 4]]

Quota(l, d, w) == [b \in {"last", "daily", "weekly"} |->
                     IF b = "last" THEN l ELSE IF b = "daily" THEN d ELSE w]
SomeQuotas == {Quota(1, 0, 1), Quota(0, 2, -5)}

OldSnaps == {[at |-> t, service |-> mail, auto |-> TRUE] : t \in {1, 3}}
=============================================================================
