------------------------- MODULE AccountsProperties -------------------------
(* What the three stores of users promise together.                          *)
EXTENDS Accounts

(* A user who was deleted with success, by a request that no other one about *)
(* the same name overlapped, is gone from all three stores and stays gone,   *)
(* whatever had failed before and through any restart, until somebody asks   *)
(* something of that name again (delete_user, migrate_users_from_json).  The *)
(* entry of the first user is protected, and brings the account back.        *)
DeletedIsGone ==
    \A u \in deleted \ {Primary} :
        ~Exists(u) /\ u \notin json /\ passwords[u] = {}

\* Nothing is under way for a name, and nothing failed or overlapped.
Settled(u) == Busy(u) = {} /\ u \notin dirty /\ ~Starting

(* When no request about a name has failed, been cut off or met another, the *)
(* stores agree on it: an account has its entry, and exactly the groups that *)
(* were last asked for; a name without an account has no entry, but for the  *)
(* first user (create_user, update_user, delete_user).                       *)
StoresAgree ==
    \A u \in Users : Settled(u) =>
        IF Exists(u) THEN u \in json /\ kanidm[u] = asked[u]
                     ELSE u \notin json \ {Primary}

(* A start at which no query failed leaves every entry with its account; the *)
(* first one has given each its password of older days, too                  *)
(* (migrate_users_from_json).                                                *)
MigrationIsComplete ==
    migrated /\ ~Starting =>
        /\ json \subseteq DOMAIN kanidm
        /\ restarts = 0 => \A u \in json : ZeroUuid \in passwords[u]

-----------------------------------------------------------------------------
(* What makes them inductive                                                 *)

\* Which step belongs to which request.
StepsOf(c) ==
    IF c = Starter
    THEN /\ req[c].pc \in {"idle", "read", "post", "members", "hash"}
         /\ Starting => req[c].op = "migrate" /\ req[c].groups # Keep
         /\ req[c].pc \in {"post", "members", "hash"} => req[c].groups # {}
    ELSE /\ req[c].op # "migrate" /\ req[c].pc \notin {"read", "hash"}
         /\ req[c].pc \in {"lookup", "erase"} <=> req[c].op = "delete"
         /\ req[c].pc \in {"diff", "patch"} => req[c].op = "update"
         /\ At(c, "post") => req[c].op = "create"
         /\ At(c, "diff") => req[c].groups # Keep
         /\ req[c].op = "create" => req[c].groups # Keep

\* The start has looked which entries have no account.
Looked == Starting /\ req[Starter].groups # {}

\* New passwords get numbers of their own; zero is that of older days.
Numbered == next # 0 /\ \A u \in Users : \A p \in passwords[u] : p < next

\* Nobody asks for anything during the start, so that its list stays true.
StartInv ==
    /\ Starting \/ migrated => \A c \in Clients : At(c, "idle")
    /\ toMigrate \subseteq json \ DOMAIN kanidm /\ (toMigrate # {} => Looked)
    /\ Looked /\ ~At(Starter, "read") => User(Starter) \in json \ toMigrate
    /\ Starting /\ ~Looked => ~migrated /\ (restarts = 0 => DOMAIN kanidm = {})
    /\ Looked /\ migrated =>
         /\ \A u \in json \ (DOMAIN kanidm \cup toMigrate) : At(Starter, "post") /\ u = User(Starter)
         /\ restarts = 0 => \A u \in json \ toMigrate :
              ZeroUuid \in passwords[u] \/ (~At(Starter, "read") /\ u = User(Starter))

\* A request that was alone so far shares its name with no other.
AloneInv == \A u \in Users : \A c \in Busy(u) : req[c].alone => Busy(u) = {c}

\* A name is erased last from Kanidm.
EraseInv ==
    /\ \A c \in Actors : At(c, "erase") /\ req[c].alone =>
         User(c) \notin json \ {Primary} /\ passwords[User(c)] = {}
    /\ \A u \in deleted \ {Primary} : Busy(u) = {}

\* The stores agree on a name, but for an entry that the start will come to.
Agree(u) ==
    IF Exists(u) THEN u \in json /\ kanidm[u] = asked[u]
    ELSE u \notin json \ {Primary} \/ (Starting /\ ~Looked) \/ u \in toMigrate

\* The groups that a request will leave.
Goal(c) ==
    IF req[c].op = "migrate" THEN DefaultGroups(User(c))
    ELSE IF req[c].groups = Keep THEN asked[User(c)] ELSE req[c].groups

\* How far a request that is alone has brought the stores.
Headed(c) ==
    /\ req[c].pc \in {"lookup", "diff"} => Agree(User(c))
    /\ At(c, "post") => User(c) \in json /\ req[c].add = Goal(c) /\ req[c].remove = {}
    /\ req[c].pc \in {"patch", "members"} =>
         IF Exists(User(c))
         THEN /\ User(c) \in json /\ req[c].add \cap req[c].remove = {}
              /\ (kanidm[User(c)] \cup req[c].add) \ req[c].remove = Goal(c)
         ELSE req[c].groups = Keep /\ User(c) \notin json \ {Primary}
    /\ At(c, "hash") => Exists(User(c)) /\ User(c) \in json /\ kanidm[User(c)] = Goal(c)

AgreeInv ==
    \A u \in Users \ dirty :
        /\ Busy(u) = {} => Agree(u)
        /\ \A c \in Busy(u) : req[c].alone => Headed(c)

(* The invariant: the types, passwords numbered so far, which step belongs   *)
(* to which request, and what the start, a deletion and a request that is    *)
(* alone have brought the stores to.                                         *)
AccountsInv ==
    /\ TypeOK
    /\ Numbered
    /\ \A c \in Actors : StepsOf(c)
    /\ StartInv /\ MigrationIsComplete
    /\ AloneInv /\ EraseInv /\ DeletedIsGone
    /\ AgreeInv
=============================================================================
