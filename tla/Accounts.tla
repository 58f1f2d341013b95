------------------------------ MODULE Accounts ------------------------------
(***************************************************************************)
(* The users of the server, kept in three places: Kanidm has the account   *)
(* and its groups, the user data have an entry (with a hashed password of  *)
(* older days and SSH keys), Redis has the passwords for mail              *)
(* (actions/users.py, actions/email_passwords.py and the repositories they *)
(* use; the user panel; migrations/migrate_users_from_json.py).            *)
(*                                                                         *)
(* Requests run in the event loop of the API.  The user data and the       *)
(* passwords are read and written without an await, Kanidm is asked with   *)
(* one, so one action is the answer of Kanidm with all that follows it up  *)
(* to the next query.  A query may fail, applied or not; how it gets its   *)
(* token is in KanidmToken.  Groups are those that are not default ones.   *)
(***************************************************************************)
EXTENDS Naturals, Functions

CONSTANTS
    Users, Primary,           \* names, and the one the server was set up with
    Groups, SP_ADMIN_GROUPS, SP_DEFAULT_GROUPS,
    Clients, Starter,         \* requests, and the migrations at start-up
    MaxRequests, MaxFaults, MaxRestarts   \* bounds

ASSUME AccountsAssumption ==
    /\ Primary \in Users /\ Starter \notin Clients
    /\ SP_ADMIN_GROUPS \subseteq Groups /\ SP_DEFAULT_GROUPS \subseteq Groups
    /\ Groups # {} /\ "keep" \notin Groups
    /\ MaxRequests \in Nat /\ MaxFaults \in Nat /\ MaxRestarts \in Nat

VARIABLES
    kanidm,       \* the groups of each account
    json,         \* names with an entry in the user data
    passwords,    \* the passwords of each name, by their uuid
    sessions,     \* names with a session of the user panel
    req,          \* for each client, its request
    toMigrate,    \* names that the start of the API has yet to migrate
    next, requests, faults, restarts,
    dirty,        \* history: names whose last requests failed or overlapped
    asked,        \* history: the groups last asked for, with success
    deleted,      \* history: names deleted with success and left alone since
    migrated      \* history: no migration failed at this start, nothing came since

stores   == <<kanidm, json, passwords, sessions>>
counts   == <<next, requests, faults, restarts>>
history  == <<dirty, asked, deleted, migrated>>
vars     == <<stores, req, toMigrate, counts, history>>

-----------------------------------------------------------------------------

Actors    == Clients \cup {Starter}
ZeroUuid  == 0
AllGroups == SUBSET Groups
Keep      == Groups \cup {"keep"}      \* an update that leaves the groups alone

Requests == [op : {"create", "delete", "update", "migrate"}, user : Users,
             pc : {"idle", "read", "post", "lookup", "erase", "diff", "patch",
                   "members", "hash"},
             groups : AllGroups \cup {Keep}, add : AllGroups, remove : AllGroups,
             password : BOOLEAN, name : BOOLEAN, alone : BOOLEAN]
Idle == [op |-> "create", user |-> Primary, pc |-> "idle", groups |-> {},
         add |-> {}, remove |-> {}, password |-> FALSE, name |-> FALSE, alone |-> TRUE]

TypeOK ==
    /\ DOMAIN kanidm \subseteq Users /\ \A u \in DOMAIN kanidm : kanidm[u] \subseteq Groups
    /\ json \subseteq Users /\ sessions \subseteq Users
    /\ passwords \in [Users -> SUBSET Nat]
    /\ req \in [Actors -> Requests] /\ toMigrate \subseteq Users
    /\ next \in Nat /\ requests \in Nat /\ faults \in Nat /\ restarts \in Nat
    /\ dirty \subseteq Users /\ asked \in [Users -> AllGroups]
    /\ deleted \subseteq Users /\ migrated \in BOOLEAN

\* The first start of an API that keeps its users in Kanidm.
Init ==
    /\ kanidm = [u \in {} |-> {}]
    /\ json \in {j \in SUBSET Users : Primary \in j}
    /\ passwords = [u \in Users |-> {}] /\ sessions = {}
    /\ req = [[c \in Actors |-> Idle] EXCEPT ![Starter] =
                    [Idle EXCEPT !.op = "migrate", !.pc = "read"]]
    /\ toMigrate = {}
    /\ next = 1 /\ requests = 0 /\ faults = 0 /\ restarts = 0
    /\ dirty = {} /\ asked = [u \in Users |-> {}] /\ deleted = {} /\ migrated = FALSE

At(c, pc)    == req[c].pc = pc
Busy(u)      == {c \in Actors : req[c].pc \notin {"idle", "read"} /\ req[c].user = u}
User(c)      == req[c].user
Exists(u)    == u \in DOMAIN kanidm
Starting     == ~At(Starter, "idle")
GoTo(c, pc)  == req' = [req EXCEPT ![c].pc = pc]

SetGroups(u, g) ==
    kanidm' = [v \in DOMAIN kanidm \cup {u} |-> IF v = u THEN g ELSE kanidm[v]]

-----------------------------------------------------------------------------
(* The end of a request                                                    *)

\* Variant: the start migrates one name.
EndOfOne(c) == req' = [req EXCEPT ![c] = Idle] /\ UNCHANGED toMigrate

\* The start goes on with the next name, whatever became of this one.
EndOf(c) ==
    /\ req' = [req EXCEPT ![c] = IF c = Starter THEN [req[c] EXCEPT !.pc = "read"] ELSE Idle]
    /\ UNCHANGED toMigrate

Succeed(c, groups) ==
    /\ EndOf(c)
    /\ dirty' = IF ~req[c].alone THEN dirty \cup {User(c)}
                ELSE IF req[c].op = "delete" THEN dirty \ {User(c)} ELSE dirty
    /\ asked' = IF groups = Keep THEN asked ELSE [asked EXCEPT ![User(c)] = groups]
    /\ deleted' = IF req[c].op = "delete" /\ req[c].alone
                  THEN deleted \cup {User(c)} ELSE deleted
    /\ UNCHANGED migrated

FailRequest(c) ==
    /\ EndOf(c)
    /\ dirty' = dirty \cup {User(c)}
    /\ migrated' = (migrated /\ c # Starter)
    /\ UNCHANGED <<asked, deleted>>

\* A query that gets no answer, or an error, may have been applied.
QueryFails(c, applied) ==
    /\ faults < MaxFaults /\ faults' = faults + 1
    /\ kanidm' \in {kanidm, applied}
    /\ FailRequest(c)
    /\ UNCHANGED <<sessions, next, requests, restarts>>

-----------------------------------------------------------------------------
(* Requests                                                                *)

\* What comes for a name: requests about it that are under way are not alone.
Come(u) ==
    /\ ~Starting
    /\ requests < MaxRequests /\ requests' = requests + 1
    /\ deleted' = deleted \ {u} /\ migrated' = FALSE
    /\ UNCHANGED <<toMigrate, asked, faults, restarts>>

Others(u) == [d \in Actors |-> IF d \in Busy(u) THEN [req[d] EXCEPT !.alone = FALSE]
                               ELSE req[d]]

Accept(c, r) ==
    /\ At(c, "idle")
    /\ Come(r.user)
    /\ req' = [Others(r.user) EXCEPT ![c] = [r EXCEPT !.alone = (Busy(r.user) = {})]]

\* What is done without asking Kanidm is never half done.
AtOnce(u) == Come(u) /\ req' = Others(u) /\ UNCHANGED <<kanidm, json, sessions>>

AddPassword(u, uuid) == passwords' = [passwords EXCEPT ![u] = @ \cup {uuid}]

CreateEntry(u) == json' = json \cup {u}

\* create_user up to Kanidm: the password, then the check of the displayed
\* name, then the entry in the user data.
CreateUser(c) ==
    \E u \in Users, g \in AllGroups, p \in BOOLEAN :
        /\ Accept(c, [Idle EXCEPT !.user = u, !.pc = "post", !.groups = g, !.add = g,
                                  !.password = p])
        /\ IF p THEN AddPassword(u, next) /\ next' = next + 1
                ELSE UNCHANGED <<passwords, next>>
        /\ CreateEntry(u)
        /\ UNCHANGED <<kanidm, sessions, dirty>>

\* A displayed name that is too long is refused once the password is there.
CreateRefused(u) ==
    /\ AtOnce(u)
    /\ AddPassword(u, next) /\ next' = next + 1
    /\ dirty' = dirty \cup {u}

\* POST person.
PostPerson(c) ==
    /\ At(c, "post")
    /\ \/ /\ ~Exists(User(c))
          /\ SetGroups(User(c), {})
          /\ GoTo(c, "members")
          /\ UNCHANGED <<json, passwords, sessions, toMigrate, counts, history>>
       \/ /\ Exists(User(c))
          /\ FailRequest(c)
          /\ UNCHANGED <<stores, counts>>
       \/ /\ QueryFails(c, [v \in DOMAIN kanidm \cup {User(c)} |->
                              IF Exists(v) THEN kanidm[v] ELSE {}])
          /\ UNCHANGED <<json, passwords>>

DeleteUser(c) ==
    \E u \in Users :
        /\ Accept(c, [Idle EXCEPT !.op = "delete", !.user = u, !.pc = "lookup"])
        /\ UNCHANGED <<stores, next, dirty>>

\* Variant: the entry stays when the account goes.
DeleteEntryNot(u) == UNCHANGED json

\* The entry of the first user is protected.
DeleteEntry(u) == json' = json \ ({u} \ {Primary})

\* GET person: the entry is deleted whatever the answer, the passwords when
\* there is an account.
LookUp(c) ==
    /\ At(c, "lookup")
    /\ DeleteEntry(User(c))
    /\ \/ /\ Exists(User(c))
          /\ passwords' = [passwords EXCEPT ![User(c)] = {}]
          /\ GoTo(c, "erase")
          /\ UNCHANGED <<kanidm, sessions, toMigrate, counts, history>>
       \/ /\ ~Exists(User(c))
          /\ FailRequest(c)
          /\ UNCHANGED <<kanidm, passwords, sessions, counts>>
       \/ /\ QueryFails(c, kanidm)
          /\ UNCHANGED passwords

\* DELETE person.
ErasePerson(c) ==
    /\ At(c, "erase")
    /\ \/ /\ Exists(User(c))
          /\ kanidm' = Restrict(kanidm, DOMAIN kanidm \ {User(c)})
          /\ Succeed(c, {})
          /\ UNCHANGED <<json, passwords, sessions, counts>>
       \/ /\ ~Exists(User(c))
          /\ FailRequest(c)
          /\ UNCHANGED <<stores, counts>>
       \/ /\ QueryFails(c, Restrict(kanidm, DOMAIN kanidm \ {User(c)}))
          /\ UNCHANGED <<json, passwords>>

-----------------------------------------------------------------------------
(* update_user                                                             *)

\* update_legacy_email_password_hash: the legacy password goes, the new one
\* has a uuid of its own.
ReplaceLegacyPassword(u, p) ==
    IF p THEN /\ passwords' = [passwords EXCEPT ![u] = (@ \ {ZeroUuid}) \cup {next}]
              /\ next' = next + 1
         ELSE UNCHANGED <<passwords, next>>

AfterPassword(r) == IF r.name THEN "patch" ELSE "members"

UpdateUser(c) ==
    \E u \in Users, g \in AllGroups \cup {Keep}, p \in BOOLEAN, n \in BOOLEAN :
        LET r == [Idle EXCEPT !.op = "update", !.user = u, !.groups = g,
                              !.password = p, !.name = n]
        IN /\ Accept(c, [r EXCEPT !.pc = IF g = Keep THEN AfterPassword(r) ELSE "diff"])
           /\ ReplaceLegacyPassword(u, g = Keep /\ p)
           /\ UNCHANGED <<kanidm, json, sessions, dirty>>

\* Variant: the groups to leave are forgotten.
GroupChangesAddOnly(u, g) == <<g \ kanidm[u], {}>>

\* _get_user_group_changes: the groups to join and the groups to leave.
GroupChanges(u, g) == <<g \ kanidm[u], kanidm[u] \ g>>

ReadGroups(c) ==
    /\ At(c, "diff")
    /\ \/ /\ Exists(User(c))
          /\ ReplaceLegacyPassword(User(c), req[c].password)
          /\ LET changes == GroupChanges(User(c), req[c].groups) IN
             req' = [req EXCEPT ![c].pc = AfterPassword(req[c]),
                                ![c].add = changes[1], ![c].remove = changes[2]]
          /\ UNCHANGED <<kanidm, json, sessions, toMigrate, requests, faults, restarts,
                         history>>
       \/ /\ ~Exists(User(c))
          /\ FailRequest(c)
          /\ UNCHANGED <<stores, counts>>
       \/ /\ QueryFails(c, kanidm)
          /\ UNCHANGED <<json, passwords>>

\* PATCH person, with the displayed name.
PatchPerson(c) ==
    /\ At(c, "patch")
    /\ \/ /\ Exists(User(c))
          /\ GoTo(c, "members")
          /\ UNCHANGED <<stores, toMigrate, counts, history>>
       \/ /\ ~Exists(User(c))
          /\ FailRequest(c)
          /\ UNCHANGED <<stores, counts>>
       \/ /\ QueryFails(c, kanidm)
          /\ UNCHANGED <<json, passwords>>

\* POST and DELETE group/_attr/member, one group after the other.
ChangeMember(c, g, groups) ==
    \/ /\ Exists(User(c))
       /\ SetGroups(User(c), groups)
       /\ req' = [req EXCEPT ![c].add = @ \ {g}, ![c].remove = @ \ {g}]
       /\ UNCHANGED <<json, passwords, sessions, toMigrate, counts, history>>
    \/ /\ ~Exists(User(c))
       /\ FailRequest(c)
       /\ UNCHANGED <<stores, counts>>
    \/ /\ QueryFails(c, [v \in DOMAIN kanidm |-> IF v = User(c) THEN groups ELSE kanidm[v]])
       /\ UNCHANGED <<json, passwords>>

JoinGroup(c) ==
    /\ At(c, "members")
    /\ \E g \in req[c].add : ChangeMember(c, g, (IF Exists(User(c)) THEN kanidm[User(c)] ELSE {}) \cup {g})

LeaveGroup(c) ==
    /\ At(c, "members") /\ req[c].add = {}
    /\ \E g \in req[c].remove : ChangeMember(c, g, (IF Exists(User(c)) THEN kanidm[User(c)] ELSE {}) \ {g})

MembersDone(c) ==
    /\ At(c, "members") /\ req[c].add = {} /\ req[c].remove = {}
    /\ IF req[c].op = "migrate"
       THEN GoTo(c, "hash") /\ UNCHANGED <<toMigrate, history>>
       ELSE Succeed(c, req[c].groups)
    /\ UNCHANGED <<stores, counts>>

-----------------------------------------------------------------------------
(* The user panel and the passwords                                        *)

\* auth_via_kanidm: Kanidm has authenticated the user.
LogIn(u) ==
    /\ ~Starting /\ Exists(u) /\ u \notin sessions
    /\ sessions' = sessions \cup {u}
    /\ UNCHANGED <<kanidm, json, passwords, req, toMigrate, counts, history>>

\* A session ends by its age only, not with its user and not at logout.
SessionExpires(u) ==
    /\ sessions' = sessions \ {u} /\ u \in sessions
    /\ UNCHANGED <<kanidm, json, passwords, req, toMigrate, counts, history>>

CreateEmailPassword(u) ==
    /\ u \in sessions
    /\ AddPassword(u, next) /\ next' = next + 1
    /\ AtOnce(u)
    /\ UNCHANGED dirty

\* From the panel or with the mutation; also when it expires in Redis.
DeleteEmailPassword(u) ==
    /\ \E p \in passwords[u] : passwords' = [passwords EXCEPT ![u] = @ \ {p}]
    /\ AtOnce(u)
    /\ UNCHANGED <<next, dirty>>

-----------------------------------------------------------------------------
(* migrate_users_from_json, at every start                                 *)

Restart ==
    /\ restarts < MaxRestarts /\ restarts' = restarts + 1
    /\ dirty' = dirty \cup {u \in Users : Busy(u) # {}}
    /\ req' = [[c \in Actors |-> Idle] EXCEPT ![Starter] =
                    [Idle EXCEPT !.op = "migrate", !.pc = "read"]]
    /\ toMigrate' = {} /\ migrated' = FALSE
    /\ UNCHANGED <<stores, next, requests, faults, asked, deleted>>

JsonUsers   == json
KanidmUsers == DOMAIN kanidm

\* The entries without an account are found once, at the beginning; `groups`
\* of the starter tells that it has looked.
FindUsersToMigrate ==
    /\ At(Starter, "read") /\ req[Starter].groups = {}
    /\ \/ /\ toMigrate' = JsonUsers \ KanidmUsers
          /\ req' = [req EXCEPT ![Starter].groups = Groups]
          /\ migrated' = TRUE
          /\ UNCHANGED <<stores, counts, dirty, asked, deleted>>
       \/ /\ faults < MaxFaults /\ faults' = faults + 1
          /\ req' = [req EXCEPT ![Starter] = Idle]
          /\ dirty' = dirty \cup (JsonUsers \ KanidmUsers)
          /\ UNCHANGED <<stores, toMigrate, next, requests, restarts, asked, deleted,
                         migrated>>

DefaultGroups(u) == IF u = Primary THEN SP_ADMIN_GROUPS ELSE SP_DEFAULT_GROUPS

MigrateUser ==
    /\ At(Starter, "read") /\ req[Starter].groups # {}
    /\ \E u \in toMigrate :
          /\ toMigrate' = toMigrate \ {u}
          /\ req' = [req EXCEPT ![Starter] =
                        [@ EXCEPT !.user = u, !.pc = "post", !.add = DefaultGroups(u),
                                  !.remove = {}]]
    /\ UNCHANGED <<stores, counts, history>>

\* The password of older days comes last.
MigratePassword ==
    /\ At(Starter, "hash")
    /\ AddPassword(User(Starter), ZeroUuid)
    /\ Succeed(Starter, DefaultGroups(User(Starter)))
    /\ UNCHANGED <<kanidm, json, sessions, counts>>

MigrationDone ==
    /\ At(Starter, "read") /\ req[Starter].groups # {} /\ toMigrate = {}
    /\ req' = [req EXCEPT ![Starter] = Idle]
    /\ UNCHANGED <<stores, toMigrate, counts, history>>

-----------------------------------------------------------------------------

Ask(c) == CreateUser(c) \/ DeleteUser(c) \/ UpdateUser(c)

Handle(c) ==
    \/ PostPerson(c) \/ LookUp(c) \/ ErasePerson(c) \/ ReadGroups(c) \/ PatchPerson(c)
    \/ JoinGroup(c) \/ LeaveGroup(c) \/ MembersDone(c)

Brief(u) ==
    \/ CreateRefused(u) \/ LogIn(u) \/ SessionExpires(u)
    \/ CreateEmailPassword(u) \/ DeleteEmailPassword(u)

Next ==
    \/ \E c \in Clients : Ask(c)
    \/ \E c \in Actors : Handle(c)
    \/ \E u \in Users : Brief(u)
    \/ FindUsersToMigrate \/ MigrateUser \/ MigratePassword \/ MigrationDone
    \/ Restart

Spec == Init /\ [][Next]_vars
=============================================================================
