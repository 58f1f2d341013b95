--------------------------- MODULE MCBindMigration ---------------------------
(* The instance that TLC checks: the five services with their eight folders, *)
(* three volumes, two requests for different ones.                           *)
EXTENDS BindMigrationProperties

Only(moved, v) == [s \in Services |-> IF s \in moved THEN v ELSE "sda1"]
SomeConfigs == {Only({"gitea", "email"}, "sdb"), Only({"email"}, "sdc")}

SomeCatalogues  == {Services, Services \ {"pleroma"}}
SomeAttachments == {Volumes, Volumes \ {"sdc"}}
SomeLeftovers   == {{}, {<<"vmail", "sdc">>, <<"gitea", "sdb">>}}
SomeMissing     == {{"bitwarden"}}
==============================================================================
