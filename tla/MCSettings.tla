----------------------------- MODULE MCSettings -----------------------------
(* The instance that TLC checks.  The old snapshot has the service git       *)
(* elsewhere and the service vpn, which is not there now.                    *)
EXTENDS SettingsProperties

CONSTANTS git, vpn, vda, sdb, short, long, utc, A, B

Same   == [v \in {vda, sdb} |-> v]
Defaults == [s \in {git, vpn} |-> IF s = git THEN short ELSE None]

Now ==
    [modules   |-> {git}, enabled |-> {git},
     location  |-> [s \in {git, vpn} |-> IF s = git THEN sdb ELSE None],
     subdomain |-> [s \in {git, vpn} |-> None],
     keys      |-> [o \in {"root"} |-> {}],
     timezone  |-> utc, ssh |-> TRUE, upgrade |-> TRUE, reboot |-> FALSE,
     volumes   |-> {sdb}, provider |-> A]

Then == [Now EXCEPT !.modules = {git, vpn}, !.enabled = {vpn},
                    !.location = [s \in {git, vpn} |-> IF s = git THEN vda ELSE sdb],
                    !.provider = B]

StartFiles == [f \in {"userdata", "secrets"} |-> IF f = "userdata" THEN Now ELSE A]
OldFiles   == [f \in {"userdata", "secrets"} |-> IF f = "userdata" THEN Then ELSE B]

AllMoves == {<<git, vda>>}
=============================================================================
