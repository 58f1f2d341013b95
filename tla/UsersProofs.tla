----------------------------- MODULE UsersProofs -----------------------------
(***************************************************************************)
(* Users, groups and Kanidm.                                               *)
(*                                                                         *)
(* The stores of users agree, for any number of users, groups, requests,   *)
(* faults and restarts.  The argument: what a request that is alone with   *)
(* its name has brought about is known at each of its steps; a request     *)
(* that comes for the same name is noted in both, and either leaves the    *)
(* name dirty.  Nothing is asked during the start, so that the list it     *)
(* made stays true.                                                        *)
(*                                                                         *)
(* The invariant of KanidmToken is inductive: whatever queries overlap and *)
(* fail, the password of idm_admin does not stay in the environment, and   *)
(* a query that is alone knows what its tokens are worth.                  *)
(***************************************************************************)
EXTENDS AccountsProperties, KanidmTokenProperties, TLAPS

(***************************************************************************)
(* The stores of users: Accounts                                           *)
(***************************************************************************)

\* The types of all but the requests.
StoresTyped ==
    /\ DOMAIN kanidm \subseteq Users /\ \A u \in DOMAIN kanidm : kanidm[u] \subseteq Groups
    /\ json \subseteq Users /\ sessions \subseteq Users
    /\ passwords \in [Users -> SUBSET Nat] /\ toMigrate \subseteq Users
    /\ next \in Nat /\ requests \in Nat /\ faults \in Nat /\ restarts \in Nat
    /\ dirty \subseteq Users /\ asked \in [Users -> AllGroups]
    /\ deleted \subseteq Users /\ migrated \in BOOLEAN

Steps == \A c \in Actors : StepsOf(c)

LEMMA Parts ==
    AccountsInv <=> /\ StoresTyped /\ req \in [Actors -> Requests] /\ Numbered /\ Steps
                    /\ StartInv /\ MigrationIsComplete /\ AloneInv /\ EraseInv
                    /\ DeletedIsGone /\ AgreeInv
BY DEF AccountsInv, TypeOK, StoresTyped, Steps

LEMMA PartsNext ==
    AccountsInv' <=> /\ StoresTyped' /\ (req \in [Actors -> Requests])' /\ Numbered' /\ Steps'
                     /\ StartInv' /\ MigrationIsComplete' /\ AloneInv' /\ EraseInv'
                     /\ DeletedIsGone' /\ AgreeInv'
BY Parts, PTL

-----------------------------------------------------------------------------
(* What the requests look like                                               *)

LEMMA StarterIsNoClient == Starter \in Actors /\ Starter \notin Clients
BY AccountsAssumption DEF Actors

LEMMA IdleTyped == Idle \in Requests /\ Idle.pc = "idle" /\ Idle.op = "create"
                   /\ Idle.groups = {} /\ Idle.alone /\ Idle.add = {} /\ Idle.remove = {}
BY AccountsAssumption DEF Idle, Requests, AllGroups, Keep

\* A set of groups is not the mark that leaves the groups alone.
LEMMA KeepIsNone == Keep \notin AllGroups /\ {} # Keep
BY AccountsAssumption DEF Keep, AllGroups

LEMMA DefaultsTyped == \A u \in Users : DefaultGroups(u) \in AllGroups
BY AccountsAssumption DEF DefaultGroups, AllGroups

\* A request that is under way.
Under(r) == r.pc \notin {"idle", "read"}

LEMMA BusyIs ==
    ASSUME NEW u, NEW c
    PROVE  c \in Busy(u) <=> c \in Actors /\ Under(req[c]) /\ req[c].user = u
BY DEF Busy, Under

LEMMA BusyNext ==
    ASSUME NEW u, NEW c
    PROVE  c \in Busy(u)' <=> c \in Actors /\ Under(req'[c]) /\ req'[c].user = u
BY DEF Busy, Under

-----------------------------------------------------------------------------
(* A step of a request, about its own name                                   *)

\* Nothing happens to other names.
Elsewhere(u) ==
    \A v \in Users \ {u} :
        /\ (v \in DOMAIN kanidm') = (v \in DOMAIN kanidm)
        /\ v \in DOMAIN kanidm => kanidm'[v] = kanidm[v]
        /\ (v \in json') = (v \in json) /\ passwords'[v] = passwords[v]
        /\ asked'[v] = asked[v] /\ (v \in dirty') = (v \in dirty)
        /\ (v \in deleted') => v \in deleted

\* The request is over: the start goes on with another name.
Over(c, r) == r = IF c = Starter THEN [req[c] EXCEPT !.pc = "read"] ELSE Idle

\* It goes on, the same request.
Goes(c, r) == /\ Under(r) /\ r.user = req[c].user /\ r.alone = req[c].alone
              /\ r.op = req[c].op /\ r.groups = req[c].groups

\* Request c for the name u becomes r; for u the step keeps the invariant.
OwnStep(c, u, r) ==
    /\ Under(req[c]) /\ u = req[c].user /\ req' = [req EXCEPT ![c] = r]
    /\ UNCHANGED <<toMigrate, restarts>>
    /\ migrated' => migrated
    /\ Elsewhere(u)
    /\ r.pc = "erase" /\ r.alone => u \notin json' \ {Primary} /\ passwords'[u] = {}
    /\ u \in deleted' =>
         \/ u \in deleted
         \/ Over(c, r) /\ req[c].alone /\ u \notin DOMAIN kanidm'
            /\ u \notin json' \ {Primary} /\ passwords'[u] = {}
    /\ c = Starter =>
         /\ UNCHANGED json
         /\ migrated' => u \in DOMAIN kanidm'
         /\ migrated' /\ r.pc = "read" => ZeroUuid \in passwords'[u]
    /\ \/ Over(c, r) /\ (u \notin dirty' => req[c].alone /\ Agree(u)')
       \/ /\ Goes(c, r) /\ UNCHANGED dirty
          /\ u \notin dirty /\ req[c].alone /\ Headed(c) => Headed(c)'

LEMMA OwnStepFacts ==
    ASSUME AccountsInv, NEW c \in Actors, NEW u, NEW r \in Requests, OwnStep(c, u, r)
    PROVE  /\ u \in Users /\ c \in Busy(u)
           /\ \A d \in Actors : req'[d] = IF d = c THEN r ELSE req[d]
           /\ \A v \in Users : v # u => Busy(v)' = Busy(v)
           /\ Over(c, r) => ~Under(r) /\ Busy(u)' = Busy(u) \ {c}
           /\ Goes(c, r) => Busy(u)' = Busy(u)
           /\ (Starting <=> Starting') /\ (Looked <=> Looked')
           /\ c # Starter => c \in Clients /\ ~Starting /\ ~migrated
           /\ c = Starter => Looked
<1>1. req \in [Actors -> Requests] /\ Steps /\ StartInv BY Parts
<1>2. req[c] \in Requests /\ u \in Users /\ Under(req[c]) BY <1>1 DEF Requests, OwnStep
<1>3. \A d \in Actors : req'[d] = IF d = c THEN r ELSE req[d] BY <1>1 DEF OwnStep
<1>4. Over(c, r) => ~Under(r) BY <1>1, <1>2, IdleTyped DEF Over, Under, Requests
<1>5. Over(c, r) \/ Goes(c, r) BY DEF OwnStep
<1>6. Goes(c, r) => Under(r) /\ r.user = u BY DEF Goes, OwnStep
<1>7. c \in Busy(u) BY <1>2, BusyIs DEF OwnStep
<1>8. \A v \in Users : v # u => Busy(v)' = Busy(v)
  <2>1. ASSUME NEW v \in Users, v # u, NEW d PROVE d \in Busy(v)' <=> d \in Busy(v)
    <3>1. d \in Actors => d \in Busy(v) \/ d # c \/ d = c OBVIOUS
    <3>2. CASE d \in Actors /\ d # c BY <1>3, <3>2, BusyIs, BusyNext
    <3>3. CASE d = c BY <1>3, <1>4, <1>5, <1>6, <2>1, <3>3, BusyIs, BusyNext DEF OwnStep
    <3>4. CASE d \notin Actors BY <3>4, BusyIs, BusyNext
    <3>5. QED BY <3>2, <3>3, <3>4
  <2>2. QED BY <2>1 DEF Busy
<1>9. Over(c, r) => Busy(u)' = Busy(u) \ {c}
  <2>1. ASSUME Over(c, r), NEW d PROVE d \in Busy(u)' <=> d \in Busy(u) \ {c}
    <3>1. CASE d \in Actors /\ d # c BY <1>3, <3>1, BusyIs, BusyNext
    <3>2. CASE d = c BY <1>3, <1>4, <2>1, <3>2, BusyNext
    <3>3. CASE d \notin Actors BY <3>3, BusyIs, BusyNext
    <3>4. QED BY <3>1, <3>2, <3>3
  <2>2. QED BY <2>1 DEF Busy
<1>10. Goes(c, r) => Busy(u)' = Busy(u)
  <2>1. ASSUME Goes(c, r), NEW d PROVE d \in Busy(u)' <=> d \in Busy(u)
    <3>1. CASE d \in Actors /\ d # c BY <1>3, <3>1, BusyIs, BusyNext
    <3>2. CASE d = c BY <1>3, <1>6, <1>7, <2>1, <3>2, BusyNext
    <3>3. CASE d \notin Actors BY <3>3, BusyIs, BusyNext
    <3>4. QED BY <3>1, <3>2, <3>3
  <2>2. QED BY <2>1 DEF Busy
<1>11. c = Starter => r.pc # "idle" /\ r.groups = req[c].groups
  BY <1>1, <1>2, <1>5 DEF Over, Goes, Under, Requests
<1>12. Starting <=> Starting'
  BY <1>2, <1>3, <1>11, StarterIsNoClient DEF Starting, At, Under
<1>13. Looked <=> Looked' BY <1>3, <1>11, <1>12, StarterIsNoClient DEF Looked
<1>14. c # Starter => c \in Clients /\ ~Starting /\ ~migrated
  BY <1>1, <1>2 DEF StartInv, At, Under, Actors
<1>15. c = Starter => Looked
  BY <1>1, <1>2 DEF Steps, StepsOf, Looked, Starting, At, Under
<1>16. QED BY <1>2, <1>3, <1>4, <1>7, <1>8, <1>9, <1>10, <1>12, <1>13, <1>14, <1>15

\* A step of a request about its own name keeps the invariant.
LEMMA OwnStepKeeps ==
    ASSUME AccountsInv, StoresTyped', Numbered',
           NEW c \in Actors, NEW u, NEW r \in Requests, OwnStep(c, u, r), StepsOf(c)'
    PROVE  AccountsInv'
<1>1. /\ StoresTyped /\ req \in [Actors -> Requests] /\ Numbered /\ Steps /\ StartInv
      /\ MigrationIsComplete /\ AloneInv /\ EraseInv /\ DeletedIsGone /\ AgreeInv
  BY Parts
<1>2. /\ u \in Users /\ c \in Busy(u)
      /\ \A d \in Actors : req'[d] = IF d = c THEN r ELSE req[d]
      /\ \A v \in Users : v # u => Busy(v)' = Busy(v)
      /\ Over(c, r) => ~Under(r) /\ Busy(u)' = Busy(u) \ {c}
      /\ Goes(c, r) => Busy(u)' = Busy(u)
      /\ (Starting <=> Starting') /\ (Looked <=> Looked')
      /\ c # Starter => c \in Clients /\ ~Starting /\ ~migrated
      /\ c = Starter => Looked
  BY OwnStepFacts
<1>3. Over(c, r) \/ Goes(c, r) BY DEF OwnStep
<1>4. \A v \in Users \ {u} :
         /\ (v \in DOMAIN kanidm') = (v \in DOMAIN kanidm)
         /\ v \in DOMAIN kanidm => kanidm'[v] = kanidm[v]
         /\ (v \in json') = (v \in json) /\ passwords'[v] = passwords[v]
         /\ asked'[v] = asked[v] /\ (v \in dirty') = (v \in dirty)
         /\ (v \in deleted') => v \in deleted
  BY DEF OwnStep, Elsewhere
<1>5. UNCHANGED <<toMigrate, restarts>> /\ (migrated' => migrated) /\ u = req[c].user
      /\ Under(req[c])
  BY DEF OwnStep
<1>6. (req \in [Actors -> Requests])' BY <1>1 DEF OwnStep
<1>7. Steps'
  <2>1. ASSUME NEW d \in Actors, d # c PROVE StepsOf(d)'
    <3>1. req'[d] = req[d] BY <1>2, <2>1
    <3>2. StepsOf(d) BY <1>1 DEF Steps
    <3>3. QED BY <1>2, <3>1, <3>2 DEF StepsOf, At
  <2>2. QED BY <2>1 DEF Steps
<1>8. StartInv'
  <2>1. CASE c # Starter
    <3>1. ~Starting' /\ ~migrated' /\ ~Looked' /\ ~Looked /\ toMigrate' = {}
      BY <1>1, <1>2, <1>5, <2>1 DEF Looked, StartInv
    <3>2. QED BY <3>1 DEF StartInv
  <2>2. CASE c = Starter
    <3>1. /\ json' = json /\ (migrated' => u \in DOMAIN kanidm')
          /\ (migrated' /\ r.pc = "read" => ZeroUuid \in passwords'[u])
      BY <2>2 DEF OwnStep
    <3>2. Looked /\ Looked' /\ Starting' /\ u \in json \ toMigrate /\ ~At(Starter, "read")
      BY <1>1, <1>2, <1>5, <2>2 DEF StartInv, At, Under, User, Looked
    <3>3. \A d \in Clients : At(d, "idle") /\ At(d, "idle")'
      BY <1>1, <1>2, <2>2, <3>2, StarterIsNoClient DEF StartInv, At, Actors, Looked
    <3>4. toMigrate' \subseteq json' \ DOMAIN kanidm'
      BY <1>1, <1>4, <1>5, <3>1, <3>2 DEF StartInv, StoresTyped
    <3>5. ~At(Starter, "read")' => User(Starter)' \in json' \ toMigrate'
      <4>1. ~At(Starter, "read")' => r.user = u
        BY <1>1, <1>2, <1>3, <1>5, <2>2 DEF At, Over, Goes, Requests
      <4>2. QED BY <1>2, <1>5, <2>2, <3>1, <3>2, <4>1 DEF User
    <3>6. migrated' => /\ \A v \in json' : v \in DOMAIN kanidm' \/ v \in toMigrate'
                       /\ restarts' = 0 => \A v \in json' \ toMigrate' :
                            ZeroUuid \in passwords'[v]
                            \/ (~At(Starter, "read")' /\ v = User(Starter)')
      <4>1. SUFFICES ASSUME migrated', NEW v \in json'
                     PROVE  /\ v \in DOMAIN kanidm' \/ v \in toMigrate'
                            /\ restarts' = 0 /\ v \notin toMigrate' =>
                                 ZeroUuid \in passwords'[v]
                                 \/ (~At(Starter, "read")' /\ v = User(Starter)')
        OBVIOUS
      <4>2. migrated /\ v \in json /\ v \in Users BY <1>1, <1>5, <3>1, <4>1 DEF StoresTyped
      <4>3. CASE v # u
        BY <1>1, <1>2, <1>4, <1>5, <2>2, <3>2, <4>2, <4>3 DEF StartInv, User
      <4>4. CASE v = u
        <5>1. r.pc # "read" => r.user = u BY <1>1, <1>3, <1>5, <2>2 DEF Over, Goes, Requests
        <5>2. QED BY <1>2, <2>2, <3>1, <4>1, <4>4, <5>1, StarterIsNoClient DEF At, User
      <4>5. QED BY <4>3, <4>4
    <3>7. QED BY <3>2, <3>3, <3>4, <3>5, <3>6 DEF StartInv
  <2>3. QED BY <2>1, <2>2
<1>9. MigrationIsComplete' BY <1>1, <1>2, <1>5 DEF MigrationIsComplete, Looked
<1>10. AloneInv'
  <2>1. SUFFICES ASSUME NEW v \in Users, NEW d \in Busy(v)', req'[d].alone
                 PROVE  Busy(v)' = {d}
    BY DEF AloneInv
  <2>2. d \in Actors BY BusyNext
  <2>3. CASE v # u
    <3>1. d \in Busy(v) /\ d # c BY <1>2, <1>5, <2>3, BusyIs
    <3>2. QED BY <1>1, <1>2, <2>1, <2>2, <2>3, <3>1 DEF AloneInv
  <2>4. CASE v = u
    <3>1. CASE Over(c, r)
      <4>1. d \in Busy(u) /\ d # c BY <1>2, <2>4, <3>1
      <4>2. Busy(u) = {d} BY <1>1, <1>2, <2>1, <2>2, <4>1 DEF AloneInv
      <4>3. QED BY <1>2, <4>1, <4>2
    <3>2. CASE Goes(c, r)
      <4>1. d \in Busy(u) /\ req[d].alone BY <1>2, <2>1, <2>2, <2>4, <3>2 DEF Goes
      <4>2. QED BY <1>1, <1>2, <2>4, <3>2, <4>1 DEF AloneInv
    <3>3. QED BY <1>3, <3>1, <3>2
  <2>5. QED BY <2>3, <2>4
<1>11. EraseInv'
  <2>1. ASSUME NEW d \in Actors, At(d, "erase")', req'[d].alone
        PROVE  User(d)' \notin json' \ {Primary} /\ passwords'[User(d)'] = {}
    <3>1. CASE d = c
      <4>1. r.pc = "erase" /\ r.alone BY <1>2, <2>1, <3>1 DEF At
      <4>2. Goes(c, r) BY <1>2, <1>3, <4>1 DEF Under
      <4>3. User(d)' = u BY <1>2, <1>5, <3>1, <4>2 DEF Goes, User
      <4>4. QED BY <4>1, <4>3 DEF OwnStep
    <3>2. CASE d # c
      <4>1. req'[d] = req[d] BY <1>2, <3>2
      <4>2. User(d)' = User(d) /\ At(d, "erase") /\ req[d].alone /\ User(d) \in Users
        BY <1>1, <2>1, <4>1 DEF User, At, Requests
      <4>3. d \in Busy(User(d)) BY <4>2, BusyIs DEF At, Under, User
      <4>4. User(d) # u BY <1>1, <1>2, <3>2, <4>2, <4>3 DEF AloneInv
      <4>5. QED BY <1>1, <1>4, <4>2, <4>4 DEF EraseInv
    <3>3. QED BY <3>1, <3>2
  <2>2. ASSUME NEW v \in deleted' \ {Primary} PROVE Busy(v)' = {}
    <3>1. v \in Users BY DEF StoresTyped
    <3>2. CASE v # u BY <1>1, <1>2, <1>4, <2>2, <3>1, <3>2 DEF EraseInv
    <3>3. CASE v = u
      <4>1. u \notin deleted BY <1>1, <1>2, <2>2, <3>3 DEF EraseInv
      <4>2. Over(c, r) /\ req[c].alone BY <2>2, <3>3, <4>1 DEF OwnStep
      <4>3. Busy(u) = {c} BY <1>1, <1>2, <4>2 DEF AloneInv
      <4>4. QED BY <1>2, <3>3, <4>2, <4>3
    <3>4. QED BY <3>2, <3>3
  <2>3. QED BY <2>1, <2>2 DEF EraseInv
<1>12. DeletedIsGone'
  <2>1. SUFFICES ASSUME NEW v \in deleted' \ {Primary}
                 PROVE  v \notin DOMAIN kanidm' /\ v \notin json' /\ passwords'[v] = {}
    BY DEF DeletedIsGone, Exists
  <2>2. v \in Users BY DEF StoresTyped
  <2>3. CASE v # u BY <1>1, <1>4, <2>1, <2>2, <2>3 DEF DeletedIsGone, Exists
  <2>4. CASE v = u
    <3>1. u \notin deleted BY <1>1, <1>2, <2>1, <2>4 DEF EraseInv
    <3>2. QED BY <2>1, <2>4, <3>1 DEF OwnStep
  <2>5. QED BY <2>3, <2>4
<1>13. AgreeInv'
  <2>1. ASSUME NEW v \in Users \ dirty', v # u
        PROVE  /\ Busy(v)' = {} => Agree(v)'
               /\ \A d \in Busy(v)' : req'[d].alone => Headed(d)'
    <3>1. v \notin dirty /\ Busy(v)' = Busy(v) BY <1>2, <1>4, <2>1
    <3>2. Agree(v) <=> Agree(v)' BY <1>2, <1>4, <1>5, <2>1 DEF Agree, Exists
    <3>3. ASSUME NEW d \in Busy(v), req[d].alone PROVE Headed(d)'
      <4>1. d \in Actors /\ d # c /\ req[d].user = v BY <1>5, <2>1, <3>3, BusyIs
      <4>2. req'[d] = req[d] /\ User(d) = v /\ User(d)' = v BY <1>2, <4>1 DEF User
      <4>3. Headed(d) BY <1>1, <2>1, <3>1, <3>3 DEF AgreeInv
      <4>4. Goal(d)' = Goal(d)
        BY <1>4, <2>1, <4>2 DEF Goal, DefaultGroups
      <4>5. QED BY <1>4, <2>1, <3>2, <4>2, <4>3, <4>4 DEF Headed, At, Exists
    <3>4. \A d \in Busy(v) : req'[d] = req[d] BY <1>2, <1>5, <2>1, BusyIs
    <3>5. QED BY <1>1, <2>1, <3>1, <3>2, <3>3, <3>4 DEF AgreeInv
  <2>2. ASSUME u \notin dirty'
        PROVE  /\ Busy(u)' = {} => Agree(u)'
               /\ \A d \in Busy(u)' : req'[d].alone => Headed(d)'
    <3>1. CASE Over(c, r) /\ req[c].alone /\ Agree(u)'
      <4>1. Busy(u) = {c} BY <1>1, <1>2, <3>1 DEF AloneInv
      <4>2. QED BY <1>2, <3>1, <4>1
    <3>2. CASE Goes(c, r) /\ u \notin dirty /\ (req[c].alone /\ Headed(c) => Headed(c)')
      <4>1. ASSUME NEW d \in Busy(u), req'[d].alone PROVE Headed(d)'
        <5>1. d \in Actors /\ req[d].alone BY <1>2, <3>2, <4>1, BusyIs DEF Goes
        <5>2. Busy(u) = {d} BY <1>1, <1>2, <5>1 DEF AloneInv
        <5>3. d = c BY <1>2, <5>2
        <5>4. Headed(c) BY <1>1, <1>2, <3>2, <5>1, <5>3 DEF AgreeInv
        <5>5. QED BY <3>2, <5>1, <5>3, <5>4
      <4>2. QED BY <1>2, <3>2, <4>1
    <3>3. QED BY <2>2, <3>1, <3>2 DEF OwnStep
  <2>3. QED BY <2>1, <2>2 DEF AgreeInv
<1>14. QED
  BY <1>6, <1>7, <1>8, <1>9, <1>10, <1>11, <1>12, <1>13, PartsNext

-----------------------------------------------------------------------------
(* The steps of requests                                                     *)

\* What a request that is under way knows of itself.
LEMMA RequestFacts ==
    ASSUME AccountsInv, NEW c \in Actors, Under(req[c])
    PROVE  /\ req[c] \in Requests /\ User(c) = req[c].user /\ User(c) \in Users
           /\ req \in [Actors -> Requests] /\ StepsOf(c) /\ StoresTyped /\ Numbered
           /\ next \notin passwords[User(c)]
BY Parts DEF Requests, User, Steps, StoresTyped, Numbered

\* The end of a request is a request, or none.
LEMMA OverTyped ==
    ASSUME AccountsInv, NEW c \in Actors, Under(req[c])
    PROVE  \E r \in Requests : /\ Over(c, r) /\ r.pc \notin {"erase"}
                               /\ r = IF c = Starter THEN [req[c] EXCEPT !.pc = "read"] ELSE Idle
                               /\ c = Starter => r.pc = "read" /\ r.op = "migrate" /\ r.groups # Keep
                               /\ c # Starter => r = Idle
<1>1. req[c] \in Requests /\ StepsOf(c) BY RequestFacts
<1>2. [req[c] EXCEPT !.pc = "read"] \in Requests BY <1>1 DEF Requests
<1>3. c = Starter => req[c].op = "migrate" /\ req[c].groups # Keep
  BY <1>1 DEF StepsOf, Starting, At, Under
<1>4. QED BY <1>1, <1>2, <1>3, IdleTyped DEF Over, Requests

\* A request fails: its name is dirty.
LEMMA FailKeeps ==
    ASSUME AccountsInv, StoresTyped', Numbered', NEW c \in Actors, Under(req[c]),
           NEW u, u = req[c].user, FailRequest(c), UNCHANGED restarts,
           \A v \in Users \ {u} :
               /\ (v \in DOMAIN kanidm') = (v \in DOMAIN kanidm)
               /\ v \in DOMAIN kanidm => kanidm'[v] = kanidm[v]
               /\ (v \in json') = (v \in json) /\ passwords'[v] = passwords[v],
           c = Starter => UNCHANGED json
    PROVE  AccountsInv'
<1>1. PICK r \in Requests : /\ Over(c, r) /\ r.pc # "erase"
                            /\ r = IF c = Starter THEN [req[c] EXCEPT !.pc = "read"] ELSE Idle
                            /\ c = Starter => r.pc = "read" /\ r.op = "migrate" /\ r.groups # Keep
                            /\ c # Starter => r = Idle
  BY OverTyped
<1>2. req' = [req EXCEPT ![c] = r] /\ UNCHANGED toMigrate
  BY <1>1 DEF FailRequest, EndOf
<1>3. dirty' = dirty \cup {u} /\ migrated' = (migrated /\ c # Starter) /\ UNCHANGED <<asked, deleted>>
  BY DEF FailRequest, User
<1>4. Elsewhere(u) BY <1>3 DEF Elsewhere
<1>5. OwnStep(c, u, r) BY <1>1, <1>2, <1>3, <1>4 DEF OwnStep
<1>6. StepsOf(c)'
  <2>1. req \in [Actors -> Requests] /\ StepsOf(c) BY RequestFacts
  <2>2. req'[c] = r BY <1>2, <2>1
  <2>3. QED BY <1>1, <2>2, IdleTyped, KeepIsNone DEF StepsOf, At, Starting
<1>7. QED BY <1>1, <1>5, <1>6, OwnStepKeeps

\* A query fails, applied or not.
LEMMA QueryFailsKeeps ==
    ASSUME AccountsInv, NEW c \in Actors, Under(req[c]), NEW applied, QueryFails(c, applied),
           NEW u, u = req[c].user, StoresTyped', Numbered',
           \A v \in Users \ {u} :
               /\ (v \in DOMAIN applied) = (v \in DOMAIN kanidm)
               /\ v \in DOMAIN kanidm => applied[v] = kanidm[v]
               /\ (v \in json') = (v \in json) /\ passwords'[v] = passwords[v],
           c = Starter => UNCHANGED json
    PROVE  AccountsInv'
<1>1. FailRequest(c) /\ UNCHANGED restarts /\ kanidm' \in {kanidm, applied} BY DEF QueryFails
<1>2. QED BY <1>1, FailKeeps

\* A request goes on and the stores stay.
LEMMA GoToTyped ==
    ASSUME AccountsInv, NEW c \in Actors, Under(req[c]),
           NEW pc \in {"post", "lookup", "erase", "diff", "patch", "members", "hash"}
    PROVE  LET r == [req[c] EXCEPT !.pc = pc]
           IN  /\ r \in Requests /\ Goes(c, r) /\ r.pc = pc
               /\ r.add = req[c].add /\ r.remove = req[c].remove /\ r.user = req[c].user
<1>1. req[c] \in Requests BY RequestFacts
<1>2. QED BY <1>1 DEF Requests, Goes, Under

\* Nothing but a failure is noted: the stores are as they were.
LEMMA FailsInPlace ==
    ASSUME AccountsInv, NEW c \in Actors, Under(req[c]), FailRequest(c), UNCHANGED <<stores, counts>>
    PROVE  AccountsInv'
<1>1. /\ UNCHANGED <<kanidm, json, passwords, sessions, next, requests, faults, restarts>>
      /\ dirty' = dirty \cup {User(c)} /\ migrated' \in BOOLEAN /\ UNCHANGED <<asked, deleted>>
      /\ toMigrate' = toMigrate
  BY DEF stores, counts, FailRequest, EndOf
<1>2. StoresTyped' /\ Numbered'
  BY <1>1, RequestFacts DEF StoresTyped, Numbered
<1>3. QED BY <1>1, <1>2, FailKeeps

\* A query that fails changes Kanidm at most for the name, and not the passwords.
LEMMA QueryFailsInPlace ==
    ASSUME AccountsInv, NEW c \in Actors, Under(req[c]), NEW applied, QueryFails(c, applied),
           UNCHANGED passwords, json' \subseteq json, c = Starter => UNCHANGED json,
           DOMAIN applied \subseteq Users, \A v \in DOMAIN applied : applied[v] \subseteq Groups,
           NEW u, u = req[c].user,
           \A v \in Users \ {u} :
               /\ (v \in DOMAIN applied) = (v \in DOMAIN kanidm)
               /\ v \in DOMAIN kanidm => applied[v] = kanidm[v]
               /\ (v \in json') = (v \in json)
    PROVE  AccountsInv'
<1>1. /\ UNCHANGED <<sessions, next, requests, restarts, asked, deleted, toMigrate>>
      /\ dirty' = dirty \cup {User(c)} /\ migrated' \in BOOLEAN
      /\ faults' = faults + 1 /\ kanidm' \in {kanidm, applied}
  BY DEF QueryFails, FailRequest, EndOf
<1>2. StoresTyped' /\ Numbered'
  BY <1>1, RequestFacts DEF StoresTyped, Numbered
<1>3. QED BY <1>1, <1>2, QueryFailsKeeps

LEMMA PostKeeps ==
    ASSUME AccountsInv, NEW c \in Actors, PostPerson(c), NEW u, u = req[c].user
    PROVE  AccountsInv'
<1>1. Under(req[c]) /\ At(c, "post") BY DEF PostPerson, At, Under
<1>2. /\ req[c] \in Requests /\ User(c) = u /\ u \in Users
      /\ req \in [Actors -> Requests] /\ StepsOf(c) /\ StoresTyped /\ Numbered
  BY <1>1, RequestFacts
<1>3. CASE /\ ~Exists(u) /\ SetGroups(u, {}) /\ GoTo(c, "members")
           /\ UNCHANGED <<json, passwords, sessions, toMigrate, counts, history>>
  <2> DEFINE r == [req[c] EXCEPT !.pc = "members"]
  <2>1. /\ UNCHANGED <<json, passwords, sessions, toMigrate, next, requests, faults, restarts,
                       dirty, asked, deleted, migrated>>
        /\ req' = [req EXCEPT ![c] = r]
    BY <1>3 DEF counts, history, GoTo
  <2>2. /\ r \in Requests /\ Goes(c, r) /\ r.pc = "members"
        /\ r.add = req[c].add /\ r.remove = req[c].remove /\ r.user = u
    BY <1>1, GoToTyped
  <2>3. /\ DOMAIN kanidm' = DOMAIN kanidm \cup {u} /\ kanidm'[u] = {}
        /\ \A v \in DOMAIN kanidm : v # u => kanidm'[v] = kanidm[v]
    BY <1>3 DEF SetGroups
  <2>4. StoresTyped' /\ Numbered' BY <1>2, <2>1, <2>3 DEF StoresTyped, Numbered
  <2>5. Elsewhere(u) BY <2>1, <2>3 DEF Elsewhere
  <2>6. req'[c] = r BY <1>2, <2>1
  <2> HIDE DEF r
  <2>7. StepsOf(c)'
    BY <1>1, <1>2, <2>2, <2>6 DEF StepsOf, At, Starting, Goes
  <2>8. Headed(c) => Headed(c)'
    <3>1. Goal(c)' = Goal(c) BY <1>2, <2>1, <2>2, <2>6 DEF Goal, Goes, User, DefaultGroups
    <3>2. User(c)' = u /\ Exists(u)' BY <2>2, <2>3, <2>6 DEF User, Exists
    <3>3. QED BY <1>1, <1>2, <2>1, <2>2, <2>3, <2>6, <3>1, <3>2 DEF Headed, At
  <2>9. OwnStep(c, u, r)
    BY <1>1, <1>2, <2>1, <2>2, <2>3, <2>5, <2>8 DEF OwnStep
  <2>10. QED BY <2>2, <2>4, <2>7, <2>9, OwnStepKeeps
<1>4. CASE FailRequest(c) /\ UNCHANGED <<stores, counts>> BY <1>1, <1>4, FailsInPlace
<1>5. CASE /\ QueryFails(c, [v \in DOMAIN kanidm \cup {u} |-> IF Exists(v) THEN kanidm[v] ELSE {}])
           /\ UNCHANGED <<json, passwords>>
  <2> DEFINE applied == [v \in DOMAIN kanidm \cup {u} |-> IF Exists(v) THEN kanidm[v] ELSE {}]
  <2>1. /\ DOMAIN applied = DOMAIN kanidm \cup {u} /\ \A v \in DOMAIN kanidm : applied[v] = kanidm[v]
        /\ u \notin DOMAIN kanidm => applied[u] = {}
    BY DEF Exists
  <2> HIDE DEF applied
  <2>2. DOMAIN applied \subseteq Users /\ \A v \in DOMAIN applied : applied[v] \subseteq Groups
    BY <1>2, <2>1 DEF StoresTyped
  <2>3. QueryFails(c, applied) BY <1>5 DEF applied
  <2>4. QED BY <1>1, <1>5, <2>1, <2>2, <2>3, QueryFailsInPlace
<1>6. QED BY <1>2, <1>3, <1>4, <1>5 DEF PostPerson

\* A request succeeds: if it was alone with a clean name, the stores agree.
LEMMA SucceedKeeps ==
    ASSUME AccountsInv, NEW c \in Actors, Under(req[c]), NEW u, u = req[c].user,
           NEW g \in AllGroups \cup {Keep}, Succeed(c, g), StoresTyped', Numbered',
           UNCHANGED restarts,
           \A v \in Users \ {u} :
               /\ (v \in DOMAIN kanidm') = (v \in DOMAIN kanidm)
               /\ v \in DOMAIN kanidm => kanidm'[v] = kanidm[v]
               /\ (v \in json') = (v \in json) /\ passwords'[v] = passwords[v],
           req[c].alone /\ (u \notin dirty \/ req[c].op = "delete") => Agree(u)',
           req[c].alone /\ req[c].op = "delete" =>
               u \notin DOMAIN kanidm' /\ u \notin json' \ {Primary} /\ passwords'[u] = {},
           c = Starter => /\ UNCHANGED json
                          /\ migrated' => u \in DOMAIN kanidm' /\ ZeroUuid \in passwords'[u]
    PROVE  AccountsInv'
<1>1. PICK r \in Requests : /\ Over(c, r) /\ r.pc # "erase"
                            /\ r = IF c = Starter THEN [req[c] EXCEPT !.pc = "read"] ELSE Idle
                            /\ c = Starter => r.pc = "read" /\ r.op = "migrate" /\ r.groups # Keep
                            /\ c # Starter => r = Idle
  BY OverTyped
<1>2. req' = [req EXCEPT ![c] = r] /\ UNCHANGED <<toMigrate, migrated>>
  BY <1>1 DEF Succeed, EndOf
<1>3. StoresTyped /\ u \in Users /\ User(c) = u BY RequestFacts
<1>4. /\ ~req[c].alone => dirty' = dirty \cup {u}
      /\ req[c].alone /\ req[c].op = "delete" => dirty' = dirty \ {u}
      /\ req[c].alone /\ req[c].op # "delete" => dirty' = dirty
      /\ \A v \in Users : v # u => asked'[v] = asked[v]
      /\ req[c].alone /\ req[c].op = "delete" => deleted' = deleted \cup {u}
      /\ ~(req[c].alone /\ req[c].op = "delete") => deleted' = deleted
  BY <1>3 DEF Succeed, StoresTyped
<1>5. Elsewhere(u) BY <1>4 DEF Elsewhere
<1>6. OwnStep(c, u, r) BY <1>1, <1>2, <1>4, <1>5 DEF OwnStep
<1>7. StepsOf(c)'
  <2>1. req \in [Actors -> Requests] /\ StepsOf(c) BY RequestFacts
  <2>2. req'[c] = r BY <1>2, <2>1
  <2>3. QED BY <1>1, <2>2, IdleTyped, KeepIsNone DEF StepsOf, At, Starting
<1>8. QED BY <1>1, <1>6, <1>7, OwnStepKeeps

LEMMA LookUpKeeps ==
    ASSUME AccountsInv, NEW c \in Actors, LookUp(c), NEW u, u = req[c].user
    PROVE  AccountsInv'
<1>1. Under(req[c]) /\ At(c, "lookup") BY DEF LookUp, At, Under
<1>2. /\ req[c] \in Requests /\ User(c) = u /\ u \in Users
      /\ req \in [Actors -> Requests] /\ StepsOf(c) /\ StoresTyped /\ Numbered
  BY <1>1, RequestFacts
<1>3. c # Starter /\ req[c].op = "delete" BY <1>1, <1>2 DEF StepsOf, At
<1>4. json' = json \ ({u} \ {Primary}) BY <1>2 DEF LookUp, DeleteEntry
<1>5. CASE /\ passwords' = [passwords EXCEPT ![u] = {}] /\ GoTo(c, "erase")
           /\ UNCHANGED <<kanidm, sessions, toMigrate, counts, history>>
  <2> DEFINE r == [req[c] EXCEPT !.pc = "erase"]
  <2>1. /\ UNCHANGED <<kanidm, sessions, toMigrate, next, requests, faults, restarts,
                       dirty, asked, deleted, migrated>>
        /\ req' = [req EXCEPT ![c] = r]
    BY <1>5 DEF counts, history, GoTo
  <2>2. /\ r \in Requests /\ Goes(c, r) /\ r.pc = "erase"
        /\ r.add = req[c].add /\ r.remove = req[c].remove /\ r.user = u
    BY <1>1, GoToTyped
  <2>3. passwords'[u] = {} /\ \A v \in Users : v # u => passwords'[v] = passwords[v]
    BY <1>2, <1>5 DEF StoresTyped
  <2>4. StoresTyped' /\ Numbered' BY <1>2, <1>4, <1>5, <2>1 DEF StoresTyped, Numbered
  <2>5. Elsewhere(u) BY <1>4, <2>1, <2>3 DEF Elsewhere
  <2>6. req'[c] = r BY <1>2, <2>1
  <2> HIDE DEF r
  <2>7. StepsOf(c)' BY <1>2, <1>3, <2>2, <2>6 DEF StepsOf, At, Goes
  <2>8. Headed(c)' BY <2>2, <2>6 DEF Headed, At
  <2>9. OwnStep(c, u, r)
    BY <1>1, <1>2, <1>3, <1>4, <2>1, <2>2, <2>3, <2>5, <2>8 DEF OwnStep
  <2>10. QED BY <2>2, <2>4, <2>7, <2>9, OwnStepKeeps
<1>6. CASE FailRequest(c) /\ UNCHANGED <<kanidm, passwords, sessions, counts>>
  <2>1. /\ UNCHANGED <<kanidm, passwords, sessions, next, requests, faults, restarts>>
        /\ dirty' = dirty \cup {u} /\ migrated' \in BOOLEAN /\ UNCHANGED <<asked, deleted>>
        /\ toMigrate' = toMigrate
    BY <1>2, <1>6 DEF counts, FailRequest, EndOf
  <2>2. StoresTyped' /\ Numbered' BY <1>2, <1>4, <2>1 DEF StoresTyped, Numbered
  <2>3. QED BY <1>1, <1>3, <1>4, <1>6, <2>1, <2>2, FailKeeps
<1>7. CASE QueryFails(c, kanidm) /\ UNCHANGED passwords
  BY <1>1, <1>2, <1>3, <1>4, <1>7, QueryFailsInPlace DEF StoresTyped
<1>8. QED BY <1>2, <1>5, <1>6, <1>7 DEF LookUp

LEMMA EraseKeeps ==
    ASSUME AccountsInv, NEW c \in Actors, ErasePerson(c), NEW u, u = req[c].user
    PROVE  AccountsInv'
<1>1. Under(req[c]) /\ At(c, "erase") BY DEF ErasePerson, At, Under
<1>2. /\ req[c] \in Requests /\ User(c) = u /\ u \in Users
      /\ req \in [Actors -> Requests] /\ StepsOf(c) /\ StoresTyped /\ Numbered
  BY <1>1, RequestFacts
<1>3. c # Starter /\ req[c].op = "delete" BY <1>1, <1>2 DEF StepsOf, At
<1> DEFINE rest == Restrict(kanidm, DOMAIN kanidm \ {u})
<1>4. /\ DOMAIN rest = DOMAIN kanidm \ {u}
      /\ \A v \in DOMAIN kanidm : v # u => rest[v] = kanidm[v]
  BY DEF Restrict
<1> HIDE DEF rest
<1>5. CASE kanidm' = rest /\ Succeed(c, {}) /\ UNCHANGED <<json, passwords, sessions, counts>>
  <2>1. /\ UNCHANGED <<json, passwords, sessions, next, requests, faults, restarts, toMigrate,
                       migrated>>
        /\ dirty' \subseteq dirty \cup {u} /\ deleted' \subseteq deleted \cup {u}
        /\ asked' = [asked EXCEPT ![u] = {}] \/ UNCHANGED asked
    BY <1>2, <1>5 DEF counts, Succeed, EndOf
  <2>2. StoresTyped' /\ Numbered'
    BY <1>2, <1>4, <1>5, <2>1 DEF StoresTyped, Numbered, AllGroups
  <2>3. req[c].alone => u \notin json \ {Primary} /\ passwords[u] = {}
    BY <1>1, <1>2, Parts DEF EraseInv
  <2>4. u \notin DOMAIN kanidm' BY <1>4, <1>5
  <2>5. req[c].alone => Agree(u)' BY <2>1, <2>3, <2>4 DEF Agree, Exists
  <2>6. {} \in AllGroups BY DEF AllGroups
  <2>7. QED BY <1>1, <1>3, <1>4, <1>5, <2>1, <2>2, <2>3, <2>4, <2>5, <2>6, SucceedKeeps
<1>6. CASE FailRequest(c) /\ UNCHANGED <<stores, counts>> BY <1>1, <1>6, FailsInPlace
<1>7. CASE QueryFails(c, rest) /\ UNCHANGED <<json, passwords>>
  BY <1>1, <1>2, <1>4, <1>7, QueryFailsInPlace DEF StoresTyped
<1>8. QED BY <1>2, <1>5, <1>6, <1>7 DEF ErasePerson, rest

\* Where a request goes on and neither Kanidm nor the user data change.
LEMMA GoesOnKeeps ==
    ASSUME AccountsInv, NEW c \in Actors, Under(req[c]), NEW u, u = req[c].user,
           NEW r \in Requests, req' = [req EXCEPT ![c] = r], Goes(c, r), r.pc # "erase",
           UNCHANGED <<kanidm, json, sessions, toMigrate, requests, faults, restarts, history>>,
           next' \in Nat, next' >= next, next \in Nat,
           passwords' \in [Users -> SUBSET Nat], \A p \in passwords'[u] : p < next',
           \A v \in Users : v # u => passwords'[v] = passwords[v],
           c = Starter /\ migrated => u \in DOMAIN kanidm,
           u \notin dirty /\ req[c].alone /\ Headed(c) => Headed(c)', StepsOf(c)'
    PROVE  AccountsInv'
<1>1. /\ req[c] \in Requests /\ u \in Users /\ StoresTyped /\ Numbered
      /\ req \in [Actors -> Requests]
  BY RequestFacts
<1>2. UNCHANGED <<dirty, asked, deleted, migrated>> BY DEF history
<1>3. StoresTyped' BY <1>1, <1>2 DEF StoresTyped
<1>4. Numbered'
  <2>1. ASSUME NEW v \in Users, NEW p \in passwords'[v] PROVE p < next'
    <3>1. p \in Nat OBVIOUS
    <3>2. CASE v = u BY <3>2
    <3>3. CASE v # u BY <1>1, <3>1, <3>3 DEF Numbered
    <3>4. QED BY <3>2, <3>3
  <2>2. QED BY <1>1, <2>1 DEF Numbered
<1>5. Elsewhere(u) BY <1>2 DEF Elsewhere
<1>6. u \in deleted' => u \in deleted BY <1>2
<1>7. r.pc # "read" BY DEF Goes, Under
<1>8. OwnStep(c, u, r) BY <1>2, <1>5, <1>7 DEF OwnStep
<1>9. QED BY <1>3, <1>4, <1>8, OwnStepKeeps

LEMMA ReadGroupsKeeps ==
    ASSUME AccountsInv, NEW c \in Actors, ReadGroups(c), NEW u, u = req[c].user
    PROVE  AccountsInv'
<1>1. Under(req[c]) /\ At(c, "diff") BY DEF ReadGroups, At, Under
<1>2. /\ req[c] \in Requests /\ User(c) = u /\ u \in Users
      /\ req \in [Actors -> Requests] /\ StepsOf(c) /\ StoresTyped /\ Numbered
  BY <1>1, RequestFacts
<1>3. c # Starter /\ req[c].op = "update" /\ req[c].groups # Keep
  BY <1>1, <1>2 DEF StepsOf, At
<1>4. CASE /\ Exists(u) /\ ReplaceLegacyPassword(u, req[c].password)
           /\ LET changes == GroupChanges(u, req[c].groups) IN
              req' = [req EXCEPT ![c].pc = AfterPassword(req[c]),
                                 ![c].add = changes[1], ![c].remove = changes[2]]
           /\ UNCHANGED <<kanidm, json, sessions, toMigrate, requests, faults, restarts, history>>
  <2> DEFINE g == req[c].groups
  <2> DEFINE r == [req[c] EXCEPT !.pc = AfterPassword(req[c]),
                                 !.add = g \ kanidm[u], !.remove = kanidm[u] \ g]
  <2>1. req' = [req EXCEPT ![c] = r] BY <1>2, <1>4 DEF GroupChanges
  <2>2. g \in AllGroups /\ kanidm[u] \subseteq Groups
    BY <1>2, <1>3, <1>4 DEF Requests, StoresTyped, Exists
  <2>3. AfterPassword(req[c]) \in {"patch", "members"} BY DEF AfterPassword
  <2>4. /\ r \in Requests /\ r.pc \in {"patch", "members"} /\ Goes(c, r) /\ r.groups = g
        /\ r.user = u /\ r.op = "update" /\ r.add = g \ kanidm[u] /\ r.remove = kanidm[u] \ g
    BY <1>2, <1>3, <2>2, <2>3 DEF Requests, Goes, Under, AllGroups
  <2>5. /\ next' \in Nat /\ next' >= next /\ next \in Nat
        /\ passwords' \in [Users -> SUBSET Nat] /\ \A p \in passwords'[u] : p < next'
        /\ \A v \in Users : v # u => passwords'[v] = passwords[v]
    <3>1. CASE req[c].password
      <4>1. passwords' = [passwords EXCEPT ![u] = (@ \ {ZeroUuid}) \cup {next}]
            /\ next' = next + 1
        BY <1>4, <3>1 DEF ReplaceLegacyPassword
      <4>2. QED BY <1>2, <4>1 DEF StoresTyped, Numbered
    <3>2. CASE ~req[c].password
      <4>1. UNCHANGED <<passwords, next>> BY <1>4, <3>2 DEF ReplaceLegacyPassword
      <4>2. QED BY <1>2, <4>1 DEF StoresTyped, Numbered
    <3>3. QED BY <3>1, <3>2
  <2>6. req'[c] = r BY <1>2, <2>1
  <2>7. UNCHANGED <<kanidm, json, asked>> BY <1>4 DEF history
  <2>8. User(c)' = u /\ Exists(u)' BY <1>4, <2>4, <2>6, <2>7 DEF User, Exists
  <2> HIDE DEF r
  <2>9. StepsOf(c)' BY <1>3, <2>4, <2>6 DEF StepsOf, At
  <2>10. Headed(c) => Headed(c)'
    <3>1. Headed(c) => u \in json BY <1>1, <1>2, <1>4 DEF Headed, Agree, At
    <3>2. Goal(c)' = g BY <1>3, <2>4, <2>6 DEF Goal
    <3>3. (kanidm[u] \cup r.add) \ r.remove = g /\ r.add \cap r.remove = {} BY <2>4
    <3>4. QED BY <2>4, <2>6, <2>7, <2>8, <3>1, <3>2, <3>3 DEF Headed, At
  <2>11. QED BY <1>1, <1>3, <1>4, <2>1, <2>4, <2>5, <2>9, <2>10, GoesOnKeeps
<1>5. CASE FailRequest(c) /\ UNCHANGED <<stores, counts>> BY <1>1, <1>5, FailsInPlace
<1>6. CASE QueryFails(c, kanidm) /\ UNCHANGED <<json, passwords>>
  BY <1>1, <1>2, <1>6, QueryFailsInPlace DEF StoresTyped
<1>7. QED BY <1>2, <1>4, <1>5, <1>6 DEF ReadGroups

LEMMA PatchKeeps ==
    ASSUME AccountsInv, NEW c \in Actors, PatchPerson(c), NEW u, u = req[c].user
    PROVE  AccountsInv'
<1>1. Under(req[c]) /\ At(c, "patch") BY DEF PatchPerson, At, Under
<1>2. /\ req[c] \in Requests /\ User(c) = u /\ u \in Users
      /\ req \in [Actors -> Requests] /\ StepsOf(c) /\ StoresTyped /\ Numbered
  BY <1>1, RequestFacts
<1>3. c # Starter /\ req[c].op = "update" BY <1>1, <1>2 DEF StepsOf, At
<1>4. CASE GoTo(c, "members") /\ UNCHANGED <<stores, toMigrate, counts, history>>
  <2> DEFINE r == [req[c] EXCEPT !.pc = "members"]
  <2>1. /\ UNCHANGED <<kanidm, json, passwords, sessions, toMigrate, next, requests, faults,
                       restarts, history, asked>>
        /\ req' = [req EXCEPT ![c] = r]
    BY <1>4 DEF counts, stores, history, GoTo
  <2>2. /\ r \in Requests /\ Goes(c, r) /\ r.pc = "members"
        /\ r.add = req[c].add /\ r.remove = req[c].remove /\ r.user = u
    BY <1>1, GoToTyped
  <2>3. req'[c] = r BY <1>2, <2>1
  <2> HIDE DEF r
  <2>4. StepsOf(c)' BY <1>2, <1>3, <2>2, <2>3 DEF StepsOf, At, Goes
  <2>5. Goal(c)' = Goal(c) /\ User(c)' = u /\ (Exists(u)' <=> Exists(u))
    BY <1>2, <2>1, <2>2, <2>3 DEF Goal, Goes, User, DefaultGroups, Exists
  <2>6. Headed(c) => Headed(c)'
    BY <1>1, <1>2, <2>1, <2>2, <2>3, <2>5 DEF Headed, At, Goes
  <2>7. /\ next' \in Nat /\ next' >= next /\ next \in Nat
        /\ passwords' \in [Users -> SUBSET Nat] /\ \A p \in passwords'[u] : p < next'
    BY <1>2, <2>1 DEF StoresTyped, Numbered
  <2>8. QED BY <1>1, <1>3, <2>1, <2>2, <2>4, <2>6, <2>7, GoesOnKeeps
<1>5. CASE FailRequest(c) /\ UNCHANGED <<stores, counts>> BY <1>1, <1>5, FailsInPlace
<1>6. CASE QueryFails(c, kanidm) /\ UNCHANGED <<json, passwords>>
  BY <1>1, <1>2, <1>6, QueryFailsInPlace DEF StoresTyped
<1>7. QED BY <1>2, <1>4, <1>5, <1>6 DEF PatchPerson

\* One membership more or less brings the groups nearer to the goal.
LEMMA MemberKeeps ==
    ASSUME AccountsInv, NEW c \in Actors, At(c, "members"), NEW u, u = req[c].user,
           NEW g, NEW groups \in SUBSET Groups, ChangeMember(c, g, groups),
           Exists(u) /\ req[c].add \cap req[c].remove = {} =>
               (groups \cup (req[c].add \ {g})) \ (req[c].remove \ {g})
                 = (kanidm[u] \cup req[c].add) \ req[c].remove
    PROVE  AccountsInv'
<1>1. Under(req[c]) BY DEF At, Under
<1>2. /\ req[c] \in Requests /\ User(c) = u /\ u \in Users
      /\ req \in [Actors -> Requests] /\ StepsOf(c) /\ StoresTyped /\ Numbered
  BY <1>1, RequestFacts
<1>3. CASE /\ Exists(u) /\ SetGroups(u, groups)
           /\ req' = [req EXCEPT ![c].add = @ \ {g}, ![c].remove = @ \ {g}]
           /\ UNCHANGED <<json, passwords, sessions, toMigrate, counts, history>>
  <2> DEFINE r == [req[c] EXCEPT !.add = @ \ {g}, !.remove = @ \ {g}]
  <2>1. /\ UNCHANGED <<json, passwords, sessions, toMigrate, next, requests, faults, restarts,
                       dirty, asked, deleted, migrated>>
        /\ req' = [req EXCEPT ![c] = r]
    BY <1>3 DEF counts, history
  <2>2. /\ r \in Requests /\ r.pc = "members" /\ r.user = u
        /\ r.add = req[c].add \ {g} /\ r.remove = req[c].remove \ {g} /\ Goes(c, r)
    BY <1>1, <1>2 DEF At, Requests, Goes, Under, AllGroups
  <2>3. /\ DOMAIN kanidm' = DOMAIN kanidm /\ kanidm'[u] = groups
        /\ \A v \in DOMAIN kanidm : v # u => kanidm'[v] = kanidm[v]
    BY <1>3 DEF SetGroups, Exists
  <2>4. StoresTyped' /\ Numbered' BY <1>2, <2>1, <2>3 DEF StoresTyped, Numbered
  <2>5. Elsewhere(u) BY <2>1, <2>3 DEF Elsewhere
  <2>6. req'[c] = r BY <1>2, <2>1
  <2> HIDE DEF r
  <2>7. StepsOf(c)' BY <1>2, <2>2, <2>6 DEF StepsOf, At, Starting, Goes
  <2>8. Headed(c) => Headed(c)'
    <3>1. Goal(c)' = Goal(c) BY <1>2, <2>1, <2>2, <2>6 DEF Goal, Goes, User, DefaultGroups
    <3>2. User(c)' = u /\ Exists(u)' BY <1>3, <2>2, <2>3, <2>6 DEF User, Exists
    <3>3. Headed(c) => /\ u \in json /\ req[c].add \cap req[c].remove = {}
                       /\ (kanidm[u] \cup req[c].add) \ req[c].remove = Goal(c)
      BY <1>2, <1>3 DEF Headed, At
    <3>4. Headed(c) => /\ r.add \cap r.remove = {}
                       /\ (kanidm'[u] \cup r.add) \ r.remove = Goal(c)
      BY <1>3, <2>2, <2>3, <3>3
    <3>5. QED BY <2>1, <2>2, <2>6, <3>1, <3>2, <3>3, <3>4 DEF Headed, At
  <2>9. u \in DOMAIN kanidm' BY <1>3, <2>3 DEF Exists
  <2>10. OwnStep(c, u, r)
    BY <1>1, <1>2, <2>1, <2>2, <2>5, <2>8, <2>9 DEF OwnStep
  <2>11. QED BY <2>2, <2>4, <2>7, <2>10, OwnStepKeeps
<1>4. CASE FailRequest(c) /\ UNCHANGED <<stores, counts>> BY <1>1, <1>4, FailsInPlace
<1>5. CASE /\ QueryFails(c, [v \in DOMAIN kanidm |-> IF v = u THEN groups ELSE kanidm[v]])
           /\ UNCHANGED <<json, passwords>>
  <2> DEFINE applied == [v \in DOMAIN kanidm |-> IF v = u THEN groups ELSE kanidm[v]]
  <2>1. /\ DOMAIN applied = DOMAIN kanidm
        /\ \A v \in DOMAIN kanidm : applied[v] = IF v = u THEN groups ELSE kanidm[v]
    OBVIOUS
  <2> HIDE DEF applied
  <2>2. DOMAIN applied \subseteq Users /\ \A v \in DOMAIN applied : applied[v] \subseteq Groups
    BY <1>2, <2>1 DEF StoresTyped
  <2>3. QueryFails(c, applied) BY <1>5 DEF applied
  <2>4. QED BY <1>1, <1>5, <2>1, <2>2, <2>3, QueryFailsInPlace
<1>6. QED BY <1>2, <1>3, <1>4, <1>5 DEF ChangeMember

LEMMA JoinLeaveKeeps ==
    ASSUME AccountsInv, NEW c \in Actors, JoinGroup(c) \/ LeaveGroup(c), NEW u, u = req[c].user
    PROVE  AccountsInv'
<1>1. At(c, "members") /\ Under(req[c]) BY DEF JoinGroup, LeaveGroup, At, Under
<1>2. req[c] \in Requests /\ User(c) = u /\ u \in Users /\ StoresTyped BY <1>1, RequestFacts
<1> DEFINE old == IF Exists(u) THEN kanidm[u] ELSE {}
<1>3. old \subseteq Groups /\ req[c].add \subseteq Groups
  BY <1>2 DEF StoresTyped, Exists, Requests, AllGroups
<1>4. CASE JoinGroup(c)
  <2>1. PICK g \in req[c].add : ChangeMember(c, g, old \cup {g}) BY <1>2, <1>4 DEF JoinGroup
  <2>2. old \cup {g} \in SUBSET Groups BY <1>3
  <2>3. Exists(u) /\ req[c].add \cap req[c].remove = {} =>
          ((old \cup {g}) \cup (req[c].add \ {g})) \ (req[c].remove \ {g})
            = (kanidm[u] \cup req[c].add) \ req[c].remove
    OBVIOUS
  <2> HIDE DEF old
  <2>4. QED BY <1>1, <2>1, <2>2, <2>3, MemberKeeps
<1>5. CASE LeaveGroup(c)
  <2>1. PICK g \in req[c].remove : ChangeMember(c, g, old \ {g}) BY <1>2, <1>5 DEF LeaveGroup
  <2>2. old \ {g} \in SUBSET Groups BY <1>3
  <2>3. req[c].add = {} BY <1>5 DEF LeaveGroup
  <2>4. Exists(u) /\ req[c].add \cap req[c].remove = {} =>
          ((old \ {g}) \cup (req[c].add \ {g})) \ (req[c].remove \ {g})
            = (kanidm[u] \cup req[c].add) \ req[c].remove
    BY <2>3
  <2> HIDE DEF old
  <2>5. QED BY <1>1, <2>1, <2>2, <2>4, MemberKeeps
<1>6. QED BY <1>4, <1>5

\* Once the account of an entry is there, a start without failures keeps it.
LEMMA StartFacts ==
    ASSUME AccountsInv, Under(req[Starter]), ~At(Starter, "post")
    PROVE  migrated => req[Starter].user \in DOMAIN kanidm
<1>1. StepsOf(Starter) /\ StartInv BY StarterIsNoClient, Parts DEF Steps
<1>2. Looked /\ ~At(Starter, "read") BY <1>1 DEF StepsOf, Looked, Starting, At, Under
<1>3. QED BY <1>1, <1>2 DEF StartInv, User

LEMMA MembersDoneKeeps ==
    ASSUME AccountsInv, NEW c \in Actors, MembersDone(c), NEW u, u = req[c].user
    PROVE  AccountsInv'
<1>1. At(c, "members") /\ Under(req[c]) /\ req[c].add = {} /\ req[c].remove = {}
  BY DEF MembersDone, At, Under
<1>2. /\ req[c] \in Requests /\ User(c) = u /\ u \in Users
      /\ req \in [Actors -> Requests] /\ StepsOf(c) /\ StoresTyped /\ Numbered
  BY <1>1, RequestFacts
<1>3. UNCHANGED <<kanidm, json, passwords, sessions, next, requests, faults, restarts>>
  BY DEF MembersDone, stores, counts
<1>4. CASE req[c].op = "migrate"
  <2> DEFINE r == [req[c] EXCEPT !.pc = "hash"]
  <2>1. req' = [req EXCEPT ![c] = r] /\ UNCHANGED <<toMigrate, history, dirty, asked>>
    BY <1>4 DEF MembersDone, GoTo, history
  <2>2. /\ r \in Requests /\ Goes(c, r) /\ r.pc = "hash"
        /\ r.add = req[c].add /\ r.remove = req[c].remove /\ r.user = u
    BY <1>1, GoToTyped
  <2>3. req'[c] = r BY <1>2, <2>1
  <2> HIDE DEF r
  <2>4. StepsOf(c)' BY <1>1, <1>2, <1>4, <2>2, <2>3 DEF StepsOf, At, Goes, Starting
  <2>5. Goal(c)' = Goal(c) /\ User(c)' = u /\ (Exists(u)' <=> Exists(u))
    BY <1>2, <1>3, <2>1, <2>2, <2>3 DEF Goal, Goes, User, DefaultGroups, Exists
  <2>6. c = Starter BY <1>2, <1>4 DEF StepsOf
  <2>7. Headed(c) => Headed(c)'
    <3>1. req[c].groups # Keep BY <1>1, <1>2, <2>6 DEF StepsOf, Starting, At
    <3>2. Headed(c) => Exists(u) /\ u \in json /\ kanidm[u] = Goal(c)
      BY <1>1, <1>2, <3>1 DEF Headed, At
    <3>3. QED BY <1>3, <2>2, <2>3, <2>5, <3>2 DEF Headed, At
  <2>8. migrated => u \in DOMAIN kanidm BY <1>1, <1>2, <2>6, StartFacts DEF At
  <2>9. /\ next' \in Nat /\ next' >= next /\ next \in Nat
        /\ passwords' \in [Users -> SUBSET Nat] /\ \A p \in passwords'[u] : p < next'
    BY <1>2, <1>3 DEF StoresTyped, Numbered
  <2>10. QED BY <1>1, <1>3, <2>1, <2>2, <2>4, <2>7, <2>8, <2>9, GoesOnKeeps
<1>5. CASE req[c].op # "migrate"
  <2> DEFINE g == req[c].groups
  <2>1. Succeed(c, g) BY <1>5 DEF MembersDone
  <2>2. c # Starter /\ req[c].op # "delete"
    BY <1>1, <1>2, <1>5 DEF StepsOf, Starting, At
  <2>3. g \in AllGroups \cup {Keep} BY <1>2 DEF Requests
  <2>4. /\ asked' = IF g = Keep THEN asked ELSE [asked EXCEPT ![u] = g]
        /\ dirty' \subseteq dirty \cup {u} /\ deleted' = deleted
        /\ UNCHANGED <<toMigrate, migrated>>
    BY <1>2, <2>1, <2>2 DEF Succeed, EndOf
  <2>5. asked \in [Users -> AllGroups] BY <1>2 DEF StoresTyped
  <2> HIDE DEF g
  <2>6. asked' \in [Users -> AllGroups] /\ (g # Keep => asked'[u] = g)
    BY <1>2, <2>3, <2>4, <2>5
  <2>7. StoresTyped' /\ Numbered' BY <1>2, <1>3, <2>4, <2>6 DEF StoresTyped, Numbered
  <2>8. ASSUME req[c].alone, u \notin dirty PROVE Agree(u)'
    <3>1. Headed(c) BY <1>1, <1>2, <2>8, Parts, BusyIs DEF AgreeInv
    <3>2. Goal(c) = IF g = Keep THEN asked[u] ELSE g BY <1>2, <1>5 DEF Goal, g
    <3>3. CASE Exists(u)
      <4>1. u \in json /\ kanidm[u] = Goal(c) BY <1>1, <1>2, <3>1, <3>3 DEF Headed, At
      <4>2. QED BY <1>3, <2>4, <2>6, <3>2, <3>3, <4>1 DEF Agree, Exists
    <3>4. CASE ~Exists(u)
      <4>1. u \notin json \ {Primary} BY <1>1, <1>2, <3>1, <3>4 DEF Headed, At
      <4>2. QED BY <1>3, <3>4, <4>1 DEF Agree, Exists
    <3>5. QED BY <3>3, <3>4
  <2>9. QED BY <1>1, <1>3, <2>1, <2>2, <2>3, <2>7, <2>8, SucceedKeeps
<1>6. QED BY <1>4, <1>5

LEMMA MigratePasswordKeeps ==
    ASSUME AccountsInv, MigratePassword, NEW u, u = req[Starter].user
    PROVE  AccountsInv'
<1> DEFINE c == Starter
<1>1. At(c, "hash") /\ Under(req[c]) /\ c \in Actors
  BY StarterIsNoClient DEF MigratePassword, At, Under
<1>2. /\ req[c] \in Requests /\ User(c) = u /\ u \in Users
      /\ req \in [Actors -> Requests] /\ StepsOf(c) /\ StoresTyped /\ Numbered
  BY <1>1, RequestFacts
<1> DEFINE g == DefaultGroups(u)
<1>3. /\ passwords' = [passwords EXCEPT ![u] = @ \cup {ZeroUuid}] /\ Succeed(c, g)
      /\ UNCHANGED <<kanidm, json, sessions, next, requests, faults, restarts>>
  BY <1>2 DEF MigratePassword, AddPassword, counts
<1>4. req[c].op = "migrate" BY <1>1, <1>2 DEF StepsOf, Starting, At
<1>5. g \in AllGroups /\ g # Keep BY <1>2, DefaultsTyped, KeepIsNone
<1> HIDE DEF g
<1>6. /\ asked' = [asked EXCEPT ![u] = g]
      /\ dirty' \subseteq dirty \cup {u} /\ deleted' = deleted
      /\ UNCHANGED <<toMigrate, migrated>>
  BY <1>2, <1>3, <1>4, <1>5 DEF Succeed, EndOf
<1>7. /\ passwords' \in [Users -> SUBSET Nat] /\ ZeroUuid \in passwords'[u]
      /\ \A v \in Users : v # u => passwords'[v] = passwords[v]
      /\ passwords'[u] = passwords[u] \cup {ZeroUuid}
  BY <1>2, <1>3 DEF StoresTyped, ZeroUuid
<1>8. asked' \in [Users -> AllGroups] /\ asked'[u] = g
  BY <1>2, <1>5, <1>6 DEF StoresTyped
<1>9. StoresTyped' BY <1>2, <1>3, <1>6, <1>7, <1>8 DEF StoresTyped
<1>10. Numbered'
  <2>1. ZeroUuid < next BY <1>2 DEF Numbered, StoresTyped, ZeroUuid
  <2>2. ASSUME NEW v \in Users, NEW p \in passwords'[v] PROVE p < next
    BY <1>2, <1>7, <2>1, <2>2 DEF Numbered
  <2>3. QED BY <1>2, <1>3, <2>2 DEF Numbered
<1>11. ASSUME req[c].alone, u \notin dirty PROVE Agree(u)'
  <2>1. Headed(c) BY <1>1, <1>2, <1>11, Parts, BusyIs DEF AgreeInv
  <2>2. Exists(u) /\ u \in json /\ kanidm[u] = g
    BY <1>1, <1>2, <1>4, <2>1 DEF Headed, At, Goal, g
  <2>3. QED BY <1>3, <1>8, <2>2 DEF Agree, Exists
<1>12. migrated => u \in DOMAIN kanidm BY <1>1, <1>2, StartFacts DEF At
<1>13. QED BY <1>1, <1>3, <1>4, <1>5, <1>6, <1>7, <1>9, <1>10, <1>11, <1>12, SucceedKeeps

-----------------------------------------------------------------------------
(* What comes for a name                                                     *)

\* A request c begins for the name u, or something is done for it at once
\* (begun is then empty): those under way for u are no longer alone.
LEMMA ComeKeeps ==
    ASSUME AccountsInv, StoresTyped', Numbered', NEW u \in Users, Come(u), UNCHANGED kanidm,
           NEW begun \in SUBSET Clients, \A c, d \in begun : c = d,
           (req \in [Actors -> Requests])',
           \A d \in Actors \ begun : req'[d] = Others(u)[d],
           \A c \in begun :
               /\ At(c, "idle") /\ Under(req'[c]) /\ req'[c].user = u /\ req'[c].pc # "erase"
               /\ req'[c].alone = (Busy(u) = {}) /\ StepsOf(c)'
               /\ Busy(u) = {} /\ Agree(u) => Headed(c)',
           begun = {} => UNCHANGED json,
           \A v \in Users \ {u} :
               /\ (v \in json') = (v \in json) /\ passwords'[v] = passwords[v]
               /\ (v \in dirty') = (v \in dirty),
           dirty \subseteq dirty'
    PROVE  AccountsInv'
<1>1. /\ StoresTyped /\ req \in [Actors -> Requests] /\ Numbered /\ Steps /\ StartInv
      /\ MigrationIsComplete /\ AloneInv /\ EraseInv /\ DeletedIsGone /\ AgreeInv
  BY Parts
<1>2. /\ ~Starting /\ deleted' = deleted \ {u} /\ migrated' = FALSE
      /\ UNCHANGED <<toMigrate, asked, restarts>>
  BY DEF Come
<1>3. begun \subseteq Actors BY DEF Actors
<1>4. \A d \in Actors \ begun :
         /\ d \in Busy(u) => /\ ~req'[d].alone /\ req'[d].pc = req[d].pc
                             /\ req'[d].user = req[d].user /\ req'[d].op = req[d].op
                             /\ req'[d].groups = req[d].groups
         /\ d \notin Busy(u) => req'[d] = req[d]
  <2>1. SUFFICES ASSUME NEW d \in Actors \ begun
                 PROVE  /\ d \in Busy(u) => /\ ~req'[d].alone /\ req'[d].pc = req[d].pc
                                            /\ req'[d].user = req[d].user
                                            /\ req'[d].op = req[d].op
                                            /\ req'[d].groups = req[d].groups
                        /\ d \notin Busy(u) => req'[d] = req[d]
    OBVIOUS
  <2>2. req'[d] = IF d \in Busy(u) THEN [req[d] EXCEPT !.alone = FALSE] ELSE req[d]
    BY <2>1 DEF Others
  <2>3. req[d] \in Requests BY <1>1
  <2>4. QED BY <2>2, <2>3 DEF Requests
<1>5. \A d \in begun : d \notin Busy(u) /\ d \in Busy(u)'
  BY <1>3, BusyIs, BusyNext DEF At, Under
<1>6. Busy(u)' = Busy(u) \cup begun
  <2>1. ASSUME NEW d PROVE d \in Busy(u)' <=> d \in Busy(u) \cup begun
    <3>1. CASE d \in begun BY <1>5, <3>1
    <3>2. CASE d \in Actors \ begun BY <1>4, <3>2, BusyIs, BusyNext DEF Under
    <3>3. CASE d \notin Actors BY <1>3, <3>3, BusyIs, BusyNext
    <3>4. QED BY <3>1, <3>2, <3>3
  <2>2. QED BY <2>1 DEF Busy
<1>7. ASSUME NEW v \in Users, v # u
      PROVE  Busy(v)' = Busy(v) /\ \A d \in Busy(v) : d \in Actors /\ req'[d] = req[d]
  <2>1. ASSUME NEW d PROVE /\ d \in Busy(v)' <=> d \in Busy(v)
                           /\ d \in Busy(v) => d \in Actors /\ req'[d] = req[d]
    <3>1. CASE d \in begun BY <1>3, <1>7, <3>1, BusyIs, BusyNext DEF At, Under
    <3>2. CASE d \in Actors \ begun BY <1>4, <1>7, <3>2, BusyIs, BusyNext DEF Under
    <3>3. CASE d \notin Actors BY <1>3, <3>3, BusyIs, BusyNext
    <3>4. QED BY <3>1, <3>2, <3>3
  <2>2. QED BY <2>1 DEF Busy
<1>8. req'[Starter] = req[Starter] /\ ~Starting' /\ ~Looked' /\ ~Looked /\ toMigrate = {}
  <2>1. Starter \in Actors \ begun /\ Starter \notin Busy(u)
    BY <1>2, StarterIsNoClient, BusyIs DEF Starting, At, Under
  <2>2. req'[Starter] = req[Starter] BY <1>4, <2>1
  <2>3. QED BY <1>1, <1>2, <2>2 DEF Starting, Looked, At, StartInv
<1>9. Steps'
  <2>1. ASSUME NEW d \in Actors, d \notin begun PROVE StepsOf(d)'
    <3>1. StepsOf(d) BY <1>1 DEF Steps
    <3>2. CASE d \notin Busy(u)
      <4>1. req'[d] = req[d] BY <1>4, <2>1, <3>2
      <4>2. QED BY <1>2, <1>8, <3>1, <4>1 DEF StepsOf, At
    <3>3. CASE d \in Busy(u)
      <4>1. /\ req'[d].pc = req[d].pc /\ req'[d].op = req[d].op
            /\ req'[d].groups = req[d].groups
        BY <1>4, <2>1, <3>3
      <4>2. QED BY <1>2, <1>8, <3>1, <4>1 DEF StepsOf, At
    <3>4. QED BY <3>2, <3>3
  <2>2. QED BY <2>1 DEF Steps
<1>10. StartInv' /\ MigrationIsComplete'
  BY <1>2, <1>8 DEF StartInv, MigrationIsComplete
<1>11. AloneInv'
  <2>1. SUFFICES ASSUME NEW v \in Users, NEW d \in Busy(v)', req'[d].alone
                 PROVE  Busy(v)' = {d}
    BY DEF AloneInv
  <2>2. CASE v # u BY <1>1, <1>7, <2>1, <2>2 DEF AloneInv
  <2>3. CASE v = u
    <3>1. d \in begun BY <1>4, <1>6, <2>1, <2>3, BusyIs
    <3>2. QED BY <1>6, <2>1, <2>3, <3>1
  <2>4. QED BY <2>2, <2>3
<1>12. EraseInv'
  <2>1. ASSUME NEW d \in Actors, At(d, "erase")', req'[d].alone
        PROVE  User(d)' \notin json' \ {Primary} /\ passwords'[User(d)'] = {}
    <3>1. d \notin begun /\ d \notin Busy(u) BY <1>4, <2>1 DEF At
    <3>2. req'[d] = req[d] BY <1>4, <3>1
    <3>3. User(d)' = User(d) /\ At(d, "erase") /\ req[d].alone /\ User(d) \in Users
      BY <1>1, <2>1, <3>2 DEF User, At, Requests
    <3>4. User(d) # u BY <3>1, <3>3, BusyIs DEF At, Under, User
    <3>5. QED BY <1>1, <3>3, <3>4 DEF EraseInv
  <2>2. ASSUME NEW v \in deleted' \ {Primary} PROVE Busy(v)' = {}
    <3>1. v \in Users /\ v # u /\ v \in deleted BY <1>2 DEF StoresTyped
    <3>2. QED BY <1>1, <1>7, <2>2, <3>1 DEF EraseInv
  <2>3. QED BY <2>1, <2>2 DEF EraseInv
<1>13. DeletedIsGone'
  <2>1. SUFFICES ASSUME NEW v \in deleted' \ {Primary}
                 PROVE  v \notin DOMAIN kanidm' /\ v \notin json' /\ passwords'[v] = {}
    BY DEF DeletedIsGone, Exists
  <2>2. v \in Users /\ v # u /\ v \in deleted BY <1>2 DEF StoresTyped
  <2>3. QED BY <1>1, <2>1, <2>2 DEF DeletedIsGone, Exists
<1>14. AgreeInv'
  <2>1. ASSUME NEW v \in Users \ dirty', v # u
        PROVE  /\ Busy(v)' = {} => Agree(v)'
               /\ \A d \in Busy(v)' : req'[d].alone => Headed(d)'
    <3>1. v \notin dirty BY <2>1
    <3>2. Busy(v)' = Busy(v) /\ \A d \in Busy(v) : d \in Actors /\ req'[d] = req[d]
      BY <1>7, <2>1
    <3>3. Agree(v) <=> Agree(v)' BY <1>2, <1>8, <2>1 DEF Agree, Exists
    <3>4. ASSUME NEW d \in Busy(v), req[d].alone PROVE Headed(d)'
      <4>1. req'[d] = req[d] /\ User(d) = v /\ User(d)' = v BY <3>2, BusyIs DEF User
      <4>2. Headed(d) BY <1>1, <2>1, <3>1, <3>4 DEF AgreeInv
      <4>3. Goal(d)' = Goal(d) BY <1>2, <4>1 DEF Goal, DefaultGroups
      <4>4. QED BY <2>1, <3>3, <4>1, <4>2, <4>3 DEF Headed, At, Exists
    <3>5. QED BY <1>1, <2>1, <3>1, <3>2, <3>3, <3>4 DEF AgreeInv
  <2>2. ASSUME u \notin dirty'
        PROVE  /\ Busy(u)' = {} => Agree(u)'
               /\ \A d \in Busy(u)' : req'[d].alone => Headed(d)'
    <3>1. u \notin dirty BY <2>2
    <3>2. Busy(u) = {} => Agree(u) BY <1>1, <3>1 DEF AgreeInv
    <3>3. Busy(u)' = {} => Agree(u)'
      <4>1. Busy(u)' = {} => begun = {} /\ Busy(u) = {} BY <1>6
      <4>2. QED BY <1>2, <1>8, <3>2, <4>1 DEF Agree, Exists
    <3>4. \A d \in Busy(u)' : req'[d].alone => d \in begun BY <1>4, <1>6, BusyIs
    <3>5. QED BY <3>2, <3>3, <3>4
  <2>3. QED BY <2>1, <2>2 DEF AgreeInv
<1>15. QED BY <1>9, <1>10, <1>11, <1>12, <1>13, <1>14, PartsNext

LEMMA OthersTyped ==
    ASSUME AccountsInv, NEW u \in Users
    PROVE  Others(u) \in [Actors -> Requests]
<1>1. req \in [Actors -> Requests] BY Parts
<1>2. ASSUME NEW d \in Actors PROVE [req[d] EXCEPT !.alone = FALSE] \in Requests
  BY <1>1 DEF Requests
<1>3. QED BY <1>1, <1>2 DEF Others

\* A client's request r begins.
LEMMA AcceptKeeps ==
    ASSUME AccountsInv, NEW c \in Clients, NEW u \in Users, NEW r \in Requests, r.user = u,
           Accept(c, r), UNCHANGED <<kanidm, sessions, dirty>>,
           r.pc \in {"post", "lookup", "diff", "patch", "members"},
           r.op \in {"create", "delete", "update"},
           r.pc = "lookup" <=> r.op = "delete", r.pc = "post" => r.op = "create",
           r.pc \in {"diff", "patch"} => r.op = "update",
           r.op = "create" \/ r.pc = "diff" => r.groups # Keep,
           \A v \in Users \ {u} : (v \in json') = (v \in json) /\ passwords'[v] = passwords[v],
           json' \subseteq json \cup {u}, next' \in Nat, next' >= next, next' # 0,
           passwords' \in [Users -> SUBSET Nat], \A p \in passwords'[u] : p < next',
           r.pc = "post" => u \in json' /\ r.add = r.groups /\ r.remove = {},
           r.pc # "post" => UNCHANGED json,
           r.pc \in {"patch", "members"} => r.groups = Keep /\ r.add = {} /\ r.remove = {}
    PROVE  AccountsInv'
<1>1. /\ StoresTyped /\ Numbered /\ req \in [Actors -> Requests] /\ ~Starting
  BY Parts DEF Accept, Come
<1> DEFINE alone == Busy(u) = {}
<1> DEFINE s == [r EXCEPT !.alone = alone]
<1>2. /\ s \in Requests /\ s.user = u /\ s.pc = r.pc /\ s.op = r.op /\ s.groups = r.groups
      /\ s.add = r.add /\ s.remove = r.remove /\ s.alone = alone
  BY DEF Requests
<1>3. /\ req' = [Others(u) EXCEPT ![c] = s] /\ At(c, "idle") /\ Come(u) BY DEF Accept
<1>4. c \in Actors /\ c # Starter BY StarterIsNoClient DEF Actors
<1>5. Others(u) \in [Actors -> Requests] BY OthersTyped
<1> HIDE DEF s, alone
<1>6. /\ (req \in [Actors -> Requests])' /\ req'[c] = s
      /\ \A d \in Actors \ {c} : req'[d] = Others(u)[d]
  BY <1>2, <1>3, <1>4, <1>5
<1>7. /\ requests' = requests + 1 /\ deleted' = deleted \ {u} /\ migrated' = FALSE
      /\ UNCHANGED <<toMigrate, asked, faults, restarts>>
  BY <1>3 DEF Come
<1>8. StoresTyped'
  <2>1. json \subseteq Users BY <1>1 DEF StoresTyped
  <2>2. json' \subseteq Users BY <2>1
  <2>3. /\ DOMAIN kanidm' \subseteq Users /\ \A v \in DOMAIN kanidm' : kanidm'[v] \subseteq Groups
        /\ sessions' \subseteq Users /\ dirty' \subseteq Users
    <3>1. /\ DOMAIN kanidm \subseteq Users /\ \A v \in DOMAIN kanidm : kanidm[v] \subseteq Groups
          /\ sessions \subseteq Users /\ dirty \subseteq Users
      BY <1>1 DEF StoresTyped
    <3>2. kanidm' = kanidm /\ sessions' = sessions /\ dirty' = dirty OBVIOUS
    <3>3. QED BY <3>1, <3>2
  <2>4. /\ requests' \in Nat /\ faults' \in Nat /\ restarts' \in Nat
        /\ toMigrate' \subseteq Users /\ asked' \in [Users -> AllGroups]
        /\ deleted' \subseteq Users /\ migrated' \in BOOLEAN
    <3>1. requests \in Nat /\ faults \in Nat /\ restarts \in Nat BY <1>1 DEF StoresTyped
    <3>2. requests' \in Nat /\ faults' \in Nat /\ restarts' \in Nat BY <1>7, <3>1
    <3>3. toMigrate' \subseteq Users BY <1>1, <1>7 DEF StoresTyped
    <3>4. asked' \in [Users -> AllGroups] BY <1>1, <1>7 DEF StoresTyped
    <3>5. deleted' \subseteq Users BY <1>1, <1>7 DEF StoresTyped
    <3>6. migrated' \in BOOLEAN BY <1>7
    <3>7. QED BY <3>2, <3>3, <3>4, <3>5, <3>6
  <2>5. QED BY <2>2, <2>3, <2>4 DEF StoresTyped
<1>9. Numbered'
  <2>1. ASSUME NEW v \in Users, NEW p \in passwords'[v] PROVE p < next'
    <3>1. p \in Nat /\ next \in Nat BY <1>1 DEF StoresTyped
    <3>2. CASE v = u BY <3>2
    <3>3. CASE v # u BY <1>1, <3>1, <3>3 DEF Numbered
    <3>4. QED BY <3>2, <3>3
  <2>2. QED BY <2>1 DEF Numbered
<1>10. StepsOf(c)' BY <1>2, <1>4, <1>6 DEF StepsOf, At
<1>11. Agree(u) => Headed(c)'
  <2>1. User(c)' = u /\ (Agree(u) /\ UNCHANGED json => Agree(u)')
    <3>1. ~Starting'
      <4>1. Starter \in Actors /\ Starter \notin Busy(u)
        BY <1>1, StarterIsNoClient, BusyIs DEF Starting, At, Under
      <4>2. req'[Starter] = req[Starter] BY <1>4, <1>6, <4>1 DEF Others
      <4>3. QED BY <1>1, <4>2 DEF Starting, At
    <3>2. QED BY <1>1, <1>2, <1>6, <1>7, <3>1 DEF User, Agree, Exists
  <2>2. CASE r.pc = "post"
    <3>1. Goal(c)' = r.groups BY <1>2, <1>6, <2>2 DEF Goal
    <3>2. QED BY <1>2, <1>6, <2>1, <2>2, <3>1 DEF Headed, At
  <2>3. CASE r.pc \in {"lookup", "diff"}
    BY <1>2, <1>6, <2>1, <2>3 DEF Headed, At
  <2>4. CASE r.pc \in {"patch", "members"}
    <3>1. toMigrate = {} BY <1>1, Parts DEF StartInv, Looked
    <3>2. Goal(c)' = asked[u] BY <1>2, <1>6, <1>7, <2>1, <2>4 DEF Goal
    <3>3. r.groups = Keep /\ r.add = {} /\ r.remove = {} /\ UNCHANGED json BY <2>4
    <3>4. Agree(u) => IF Exists(u) THEN u \in json /\ kanidm[u] = asked[u]
                      ELSE u \notin json \ {Primary}
      BY <1>1, <3>1 DEF Agree
    <3>5. Exists(u)' = Exists(u) BY DEF Exists
    <3>6. s.add = {} /\ s.remove = {} BY <1>2, <3>3
    <3>7. (kanidm[u] \cup {}) \ {} = kanidm[u] OBVIOUS
    <3>8. QED BY <1>2, <1>6, <2>1, <2>4, <3>2, <3>3, <3>4, <3>5, <3>6, <3>7 DEF Headed, At
  <2>5. QED BY <2>2, <2>3, <2>4
<1>12. QED
  <2>1. \A d \in {c} :
          /\ At(d, "idle") /\ Under(req'[d]) /\ req'[d].user = u /\ req'[d].pc # "erase"
          /\ req'[d].alone = (Busy(u) = {}) /\ StepsOf(d)'
          /\ Busy(u) = {} /\ Agree(u) => Headed(d)'
    <3>1. Under(s) BY <1>2 DEF Under
    <3>2. s.alone = (Busy(u) = {}) BY <1>2 DEF alone
    <3>3. s.pc # "erase" BY <1>2
    <3>4. QED BY <1>2, <1>3, <1>6, <1>10, <1>11, <3>1, <3>2, <3>3
  <2> DEFINE begun == {c}
  <2>2. begun \in SUBSET Clients /\ (\A e, d \in begun : e = d) /\ begun # {} OBVIOUS
  <2>3. \A d \in Actors \ begun : req'[d] = Others(u)[d] BY <1>6
  <2>4. UNCHANGED kanidm /\ dirty \subseteq dirty'
        /\ \A v \in Users \ {u} :
              /\ (v \in json') = (v \in json) /\ passwords'[v] = passwords[v]
              /\ (v \in dirty') = (v \in dirty)
    OBVIOUS
  <2>5. \A d \in begun :
          /\ At(d, "idle") /\ Under(req'[d]) /\ req'[d].user = u /\ req'[d].pc # "erase"
          /\ req'[d].alone = (Busy(u) = {}) /\ StepsOf(d)'
          /\ Busy(u) = {} /\ Agree(u) => Headed(d)'
    BY <2>1
  <2> HIDE DEF begun
  <2>6. QED BY <1>3, <1>6, <1>8, <1>9, <2>2, <2>3, <2>4, <2>5, ComeKeeps

LEMMA CreateUserKeeps ==
    ASSUME AccountsInv, NEW c \in Clients, CreateUser(c)
    PROVE  AccountsInv'
<1>1. PICK u \in Users, g \in AllGroups, p \in BOOLEAN :
        /\ Accept(c, [Idle EXCEPT !.user = u, !.pc = "post", !.groups = g, !.add = g,
                                  !.password = p])
        /\ IF p THEN AddPassword(u, next) /\ next' = next + 1 ELSE UNCHANGED <<passwords, next>>
        /\ json' = json \cup {u}
        /\ UNCHANGED <<kanidm, sessions, dirty>>
  BY DEF CreateUser, CreateEntry
<1> DEFINE r == [Idle EXCEPT !.user = u, !.pc = "post", !.groups = g, !.add = g, !.password = p]
<1>2. /\ r \in Requests /\ r.user = u /\ r.pc = "post" /\ r.op = "create" /\ r.groups = g
      /\ r.add = g /\ r.remove = {}
  BY IdleTyped DEF Requests
<1>3. Accept(c, r) BY <1>1
<1>4. StoresTyped /\ Numbered BY Parts
<1>5. g # Keep BY KeepIsNone
<1>6. /\ next' \in Nat /\ next' >= next /\ next' # 0
      /\ passwords' \in [Users -> SUBSET Nat] /\ \A q \in passwords'[u] : q < next'
      /\ \A v \in Users : v # u => passwords'[v] = passwords[v]
  <2>1. CASE p BY <1>1, <1>4, <2>1 DEF AddPassword, StoresTyped, Numbered
  <2>2. CASE ~p BY <1>1, <1>4, <2>2 DEF StoresTyped, Numbered
  <2>3. QED BY <2>1, <2>2
<1> HIDE DEF r
<1>7. QED BY <1>1, <1>2, <1>3, <1>5, <1>6, AcceptKeeps

LEMMA DeleteUserKeeps ==
    ASSUME AccountsInv, NEW c \in Clients, DeleteUser(c)
    PROVE  AccountsInv'
<1>1. PICK u \in Users :
        /\ Accept(c, [Idle EXCEPT !.op = "delete", !.user = u, !.pc = "lookup"])
        /\ UNCHANGED <<kanidm, json, passwords, sessions, next, dirty>>
  BY DEF DeleteUser, stores
<1> DEFINE r == [Idle EXCEPT !.op = "delete", !.user = u, !.pc = "lookup"]
<1>2. r \in Requests /\ r.user = u /\ r.pc = "lookup" /\ r.op = "delete"
  BY IdleTyped DEF Requests
<1>3. Accept(c, r) BY <1>1
<1>4. StoresTyped /\ Numbered BY Parts
<1>5. /\ next' \in Nat /\ next' >= next /\ next' # 0
      /\ passwords' \in [Users -> SUBSET Nat] /\ \A q \in passwords'[u] : q < next'
  BY <1>1, <1>4 DEF StoresTyped, Numbered
<1> HIDE DEF r
<1>6. QED BY <1>1, <1>2, <1>3, <1>5, AcceptKeeps

\* The password of an update, before or after the groups are read.
LEMMA ReplaceKeeps ==
    ASSUME StoresTyped, Numbered, NEW u \in Users, NEW p \in BOOLEAN, ReplaceLegacyPassword(u, p)
    PROVE  /\ next' \in Nat /\ next' >= next /\ next' # 0
           /\ passwords' \in [Users -> SUBSET Nat] /\ \A q \in passwords'[u] : q < next'
           /\ \A v \in Users : v # u => passwords'[v] = passwords[v]
<1>1. CASE p
  <2>1. passwords' = [passwords EXCEPT ![u] = (@ \ {ZeroUuid}) \cup {next}] /\ next' = next + 1
    BY <1>1 DEF ReplaceLegacyPassword
  <2>2. QED BY <2>1 DEF StoresTyped, Numbered
<1>2. CASE ~p
  <2>1. UNCHANGED <<passwords, next>> BY <1>2 DEF ReplaceLegacyPassword
  <2>2. QED BY <2>1 DEF StoresTyped, Numbered
<1>3. QED BY <1>1, <1>2

LEMMA UpdateUserKeeps ==
    ASSUME AccountsInv, NEW c \in Clients, UpdateUser(c)
    PROVE  AccountsInv'
<1>1. PICK u \in Users, g \in AllGroups \cup {Keep}, p \in BOOLEAN, n \in BOOLEAN :
        LET r == [Idle EXCEPT !.op = "update", !.user = u, !.groups = g,
                              !.password = p, !.name = n]
        IN /\ Accept(c, [r EXCEPT !.pc = IF g = Keep THEN AfterPassword(r) ELSE "diff"])
           /\ ReplaceLegacyPassword(u, g = Keep /\ p)
           /\ UNCHANGED <<kanidm, json, sessions, dirty>>
  BY DEF UpdateUser
<1> DEFINE r0 == [Idle EXCEPT !.op = "update", !.user = u, !.groups = g,
                              !.password = p, !.name = n]
<1> DEFINE pc == IF g = Keep THEN AfterPassword(r0) ELSE "diff"
<1> DEFINE r == [r0 EXCEPT !.pc = pc]
<1>2. Accept(c, r) BY <1>1
<1>3. AfterPassword(r0) \in {"patch", "members"} BY DEF AfterPassword
<1>4. pc \in {"patch", "members", "diff"} /\ (pc = "diff" <=> g # Keep) BY <1>3
<1> HIDE DEF pc
<1>5. /\ r \in Requests /\ r.user = u /\ r.pc = pc /\ r.op = "update" /\ r.groups = g
      /\ r.add = {} /\ r.remove = {}
  BY <1>4, IdleTyped DEF Requests
<1>6. StoresTyped /\ Numbered BY Parts
<1>7. UNCHANGED <<kanidm, json, sessions, dirty>> /\ ReplaceLegacyPassword(u, g = Keep /\ p)
  BY <1>1
<1>8. (g = Keep /\ p) \in BOOLEAN OBVIOUS
<1>9. /\ next' \in Nat /\ next' >= next /\ next' # 0
      /\ passwords' \in [Users -> SUBSET Nat] /\ \A q \in passwords'[u] : q < next'
      /\ \A v \in Users : v # u => passwords'[v] = passwords[v]
  BY <1>6, <1>7, <1>8, ReplaceKeeps
<1> HIDE DEF r
<1>10. QED BY <1>2, <1>4, <1>5, <1>7, <1>9, AcceptKeeps

\* What is done at once for a name, and what of it reaches the passwords.
LEMMA AtOnceKeeps ==
    ASSUME AccountsInv, NEW u \in Users, AtOnce(u),
           dirty \subseteq dirty', dirty' \subseteq dirty \cup {u},
           next' \in Nat, next' >= next, next' # 0,
           passwords' \in [Users -> SUBSET Nat], \A p \in passwords'[u] : p < next',
           \A v \in Users : v # u => passwords'[v] = passwords[v]
    PROVE  AccountsInv'
<1>1. StoresTyped /\ Numbered BY Parts
<1>2. Come(u) /\ req' = Others(u) /\ UNCHANGED <<kanidm, json, sessions>> BY DEF AtOnce
<1>3. /\ requests' = requests + 1 /\ deleted' = deleted \ {u} /\ migrated' = FALSE
      /\ UNCHANGED <<toMigrate, asked, faults, restarts>>
  BY <1>2 DEF Come
<1>4. StoresTyped'
  <2>1. requests' \in Nat /\ faults' \in Nat /\ restarts' \in Nat BY <1>1, <1>3 DEF StoresTyped
  <2>2. deleted' \subseteq Users /\ dirty' \subseteq Users BY <1>1, <1>3 DEF StoresTyped
  <2>3. QED BY <1>1, <1>2, <1>3, <2>1, <2>2 DEF StoresTyped
<1>5. Numbered'
  <2>1. ASSUME NEW v \in Users, NEW p \in passwords'[v] PROVE p < next'
    <3>1. p \in Nat /\ next \in Nat BY <1>1 DEF StoresTyped
    <3>2. CASE v = u BY <3>2
    <3>3. CASE v # u BY <1>1, <3>1, <3>3 DEF Numbered
    <3>4. QED BY <3>2, <3>3
  <2>2. QED BY <2>1 DEF Numbered
<1>6. (req \in [Actors -> Requests])' BY <1>2, OthersTyped
<1> DEFINE begun == {}
<1>7. /\ begun \in SUBSET Clients /\ (\A e, d \in begun : e = d) /\ \A d \in begun : FALSE
      /\ \A d \in Actors \ begun : req'[d] = Others(u)[d]
  BY <1>2
<1>8. /\ UNCHANGED kanidm /\ UNCHANGED json /\ dirty \subseteq dirty'
      /\ \A v \in Users \ {u} :
            /\ (v \in json') = (v \in json) /\ passwords'[v] = passwords[v]
            /\ (v \in dirty') = (v \in dirty)
  BY <1>2
<1>9. \A c \in begun :
        /\ At(c, "idle") /\ Under(req'[c]) /\ req'[c].user = u /\ req'[c].pc # "erase"
        /\ req'[c].alone = (Busy(u) = {}) /\ StepsOf(c)'
        /\ Busy(u) = {} /\ Agree(u) => Headed(c)'
  BY <1>7
<1> HIDE DEF begun
<1>10. QED BY <1>2, <1>4, <1>5, <1>6, <1>7, <1>8, <1>9, ComeKeeps

LEMMA PasswordsKeep ==
    ASSUME AccountsInv, NEW u \in Users,
           CreateRefused(u) \/ CreateEmailPassword(u) \/ DeleteEmailPassword(u)
    PROVE  AccountsInv'
<1>1. StoresTyped /\ Numbered BY Parts
<1>2. CASE CreateRefused(u) \/ CreateEmailPassword(u)
  <2>1. /\ passwords' = [passwords EXCEPT ![u] = @ \cup {next}] /\ next' = next + 1
        /\ AtOnce(u) /\ (dirty' = dirty \/ dirty' = dirty \cup {u})
    BY <1>2 DEF CreateRefused, CreateEmailPassword, AddPassword
  <2>2. /\ next' \in Nat /\ next' >= next /\ next' # 0
        /\ passwords' \in [Users -> SUBSET Nat] /\ \A p \in passwords'[u] : p < next'
        /\ \A v \in Users : v # u => passwords'[v] = passwords[v]
    BY <1>1, <2>1 DEF StoresTyped, Numbered
  <2>3. QED BY <2>1, <2>2, AtOnceKeeps
<1>3. CASE DeleteEmailPassword(u)
  <2>1. PICK p \in passwords[u] : passwords' = [passwords EXCEPT ![u] = @ \ {p}]
    BY <1>3 DEF DeleteEmailPassword
  <2>2. AtOnce(u) /\ UNCHANGED <<next, dirty>> BY <1>3 DEF DeleteEmailPassword
  <2>3. /\ next' \in Nat /\ next' >= next /\ next' # 0
        /\ passwords' \in [Users -> SUBSET Nat] /\ \A q \in passwords'[u] : q < next'
        /\ \A v \in Users : v # u => passwords'[v] = passwords[v]
    BY <1>1, <2>1, <2>2 DEF StoresTyped, Numbered
  <2>4. QED BY <2>2, <2>3, AtOnceKeeps
<1>4. QED BY <1>2, <1>3

\* The sessions are no part of what the stores agree on.
LEMMA SessionsKeep ==
    ASSUME AccountsInv, sessions' \subseteq Users,
           UNCHANGED <<kanidm, json, passwords, req, toMigrate, counts, history>>
    PROVE  AccountsInv'
<1>1. UNCHANGED <<kanidm, json, passwords, req, toMigrate, next, requests, faults, restarts,
                  dirty, asked, deleted, migrated>>
  BY DEF counts, history
<1>2. StoresTyped' BY <1>1, Parts DEF StoresTyped
<1>3. \A u : Busy(u)' = Busy(u) BY <1>1 DEF Busy
<1>4. Starting' = Starting /\ Looked' = Looked /\ \A c, p : At(c, p)' = At(c, p)
  BY <1>1 DEF Starting, Looked, At
<1>5. \A c : StepsOf(c)' = StepsOf(c) BY <1>1, <1>4 DEF StepsOf
<1>6. \A u : Agree(u)' = Agree(u) BY <1>1, <1>4 DEF Agree, Exists
<1>7. \A c : Headed(c)' = Headed(c)
  <2>1. \A c : Goal(c)' = Goal(c) /\ User(c)' = User(c)
    BY <1>1 DEF Goal, User, DefaultGroups
  <2>2. QED BY <1>1, <1>4, <1>6, <2>1 DEF Headed, Exists
<1>8. /\ (req \in [Actors -> Requests])' /\ Numbered' /\ Steps' /\ StartInv'
      /\ MigrationIsComplete' /\ DeletedIsGone'
  BY <1>1, <1>4, <1>5, Parts
     DEF Numbered, Steps, StartInv, MigrationIsComplete, DeletedIsGone, Exists, User
<1>9. AloneInv' /\ EraseInv' /\ AgreeInv'
  BY <1>1, <1>3, <1>4, <1>6, <1>7, Parts DEF AloneInv, EraseInv, AgreeInv, User
<1>10. QED BY <1>2, <1>8, <1>9, PartsNext

-----------------------------------------------------------------------------
(* The start                                                                 *)

\* While the start looks for the next name, nothing is under way.
LEMMA ReadFacts ==
    ASSUME AccountsInv, At(Starter, "read")
    PROVE  /\ Starting /\ \A c \in Actors : ~Under(req[c])
           /\ \A u : Busy(u) = {}
<1>1. Starting BY DEF Starting, At
<1>2. \A c \in Actors : ~Under(req[c])
  <2>1. \A c \in Clients : At(c, "idle") BY <1>1, Parts DEF StartInv
  <2>2. QED BY <2>1 DEF Under, At, Actors
<1>3. QED BY <1>1, <1>2, BusyIs DEF Busy

\* A step after which nothing is under way, and which leaves the stores alone.
LEMMA QuietKeeps ==
    ASSUME AccountsInv, StoresTyped', (req \in [Actors -> Requests])',
           UNCHANGED <<kanidm, json, passwords, next, deleted>>,
           \A c \in Actors : ~Under(req'[c]), Steps', StartInv', MigrationIsComplete',
           \A u \in Users \ dirty' : Agree(u)'
    PROVE  AccountsInv'
<1>1. Numbered /\ DeletedIsGone BY Parts
<1>2. \A u : Busy(u)' = {} BY BusyNext DEF Busy
<1>3. Numbered' /\ DeletedIsGone' BY <1>1 DEF Numbered, DeletedIsGone, Exists
<1>4. AloneInv' BY <1>2 DEF AloneInv
<1>5. EraseInv'
  <2>1. \A c \in Actors : ~At(c, "erase")' BY DEF At, Under
  <2>2. QED BY <1>2, <2>1 DEF EraseInv
<1>6. AgreeInv' BY <1>2 DEF AgreeInv
<1>7. QED BY <1>3, <1>4, <1>5, <1>6, PartsNext

\* The requests of a start.
Starts == [Idle EXCEPT !.op = "migrate", !.pc = "read"]

LEMMA StartsTyped ==
    /\ Starts \in Requests /\ Starts.op = "migrate" /\ Starts.pc = "read"
    /\ Starts.groups = {} /\ Starts.groups # Keep
BY IdleTyped, KeepIsNone DEF Starts, Requests

LEMMA RestartKeeps ==
    ASSUME AccountsInv, Restart
    PROVE  AccountsInv'
<1>1. StoresTyped /\ AgreeInv BY Parts
<1>2. /\ req' = [[c \in Actors |-> Idle] EXCEPT ![Starter] = Starts]
      /\ dirty' = dirty \cup {u \in Users : Busy(u) # {}}
      /\ toMigrate' = {} /\ migrated' = FALSE /\ restarts' = restarts + 1
      /\ UNCHANGED <<kanidm, json, passwords, sessions, next, requests, faults, asked, deleted>>
  BY DEF Restart, Starts, stores
<1>3. /\ (req \in [Actors -> Requests])' /\ req'[Starter] = Starts
      /\ \A c \in Actors : c # Starter => req'[c] = Idle
  BY <1>2, StarterIsNoClient, IdleTyped, StartsTyped
<1>4. StoresTyped'
  <2>1. dirty' \subseteq Users /\ restarts' \in Nat /\ restarts' # 0
    BY <1>1, <1>2 DEF StoresTyped
  <2>2. QED BY <1>1, <1>2, <2>1 DEF StoresTyped
<1>5. Starting' /\ ~Looked' BY <1>3, StartsTyped DEF Starting, Looked, At
<1>6. \A c \in Actors : ~Under(req'[c]) BY <1>3, IdleTyped, StartsTyped DEF Under
<1>7. Steps'
  <2>1. StepsOf(Starter)' BY <1>3, <1>5, StartsTyped DEF StepsOf
  <2>2. ASSUME NEW c \in Actors, c # Starter PROVE StepsOf(c)'
    BY <1>3, <2>2, IdleTyped, KeepIsNone DEF StepsOf, At
  <2>3. QED BY <2>1, <2>2 DEF Steps
<1>8. StartInv'
  <2>1. \A c \in Clients : At(c, "idle")'
    BY <1>3, StarterIsNoClient, IdleTyped DEF At, Actors
  <2>2. restarts' # 0 BY <1>1, <1>2 DEF StoresTyped
  <2>3. QED BY <1>2, <1>5, <2>1, <2>2 DEF StartInv
<1>9. MigrationIsComplete' BY <1>5 DEF MigrationIsComplete
<1>10. \A u \in Users \ dirty' : Agree(u)'
  <2>1. ASSUME NEW u \in Users \ dirty' PROVE Agree(u)'
    <3>1. u \notin dirty /\ Busy(u) = {} BY <1>2, <2>1
    <3>2. Agree(u) BY <1>1, <3>1 DEF AgreeInv
    <3>3. QED BY <1>2, <1>5, <3>2 DEF Agree, Exists
  <2>2. QED BY <2>1
<1>11. QED BY <1>2, <1>3, <1>4, <1>6, <1>7, <1>8, <1>9, <1>10, QuietKeeps

LEMMA FindKeeps ==
    ASSUME AccountsInv, FindUsersToMigrate
    PROVE  AccountsInv'
<1>1. /\ StoresTyped /\ Steps /\ StartInv /\ AgreeInv /\ MigrationIsComplete
      /\ req \in [Actors -> Requests]
  BY Parts
<1>2. At(Starter, "read") /\ req[Starter].groups = {} BY DEF FindUsersToMigrate
<1>3. Starting /\ ~Looked /\ \A c \in Actors : ~Under(req[c])
  BY <1>2, ReadFacts DEF Looked
<1>4. /\ toMigrate = {} /\ ~migrated /\ (restarts = 0 => DOMAIN kanidm = {})
      /\ \A c \in Clients : At(c, "idle")
  BY <1>1, <1>3 DEF StartInv
<1>5. \A u \in Users \ dirty : Agree(u) BY <1>1, <1>2, ReadFacts DEF AgreeInv
<1>6. CASE /\ toMigrate' = json \ DOMAIN kanidm
           /\ req' = [req EXCEPT ![Starter].groups = Groups]
           /\ migrated' = TRUE
           /\ UNCHANGED <<stores, counts, dirty, asked, deleted>>
  <2> DEFINE r == [req[Starter] EXCEPT !.groups = Groups]
  <2>1. UNCHANGED <<kanidm, json, passwords, sessions, next, requests, faults, restarts,
                    dirty, asked, deleted>> /\ req' = [req EXCEPT ![Starter] = r]
    BY <1>6 DEF stores, counts
  <2>2. /\ r \in Requests /\ r.groups = Groups /\ r.pc = "read" /\ r.op = "migrate"
        /\ Groups # {} /\ Groups # Keep
    BY <1>1, <1>2, <1>3, StarterIsNoClient, AccountsAssumption
       DEF Requests, AllGroups, Steps, StepsOf, At, Keep
  <2> HIDE DEF r
  <2>3. /\ (req \in [Actors -> Requests])' /\ req'[Starter] = r
        /\ \A c \in Actors : c # Starter => req'[c] = req[c]
    BY <1>1, <2>1, <2>2, StarterIsNoClient
  <2>4. Starting' /\ Looked' /\ At(Starter, "read")'
    BY <2>2, <2>3 DEF Starting, Looked, At
  <2>5. \A c \in Actors : ~Under(req'[c]) BY <1>3, <2>2, <2>3 DEF Under
  <2>6. StoresTyped' BY <1>1, <1>6, <2>1 DEF StoresTyped
  <2>7. Steps'
    <3>1. StepsOf(Starter)' BY <2>2, <2>3 DEF StepsOf
    <3>2. ASSUME NEW c \in Actors, c # Starter PROVE StepsOf(c)'
      BY <1>1, <2>3, <3>2 DEF Steps, StepsOf, At
    <3>3. QED BY <3>1, <3>2 DEF Steps
  <2>8. StartInv'
    <3>1. \A c \in Clients : At(c, "idle")'
      BY <1>4, <2>3, StarterIsNoClient DEF At, Actors
    <3>2. restarts' = 0 => json' \ toMigrate' = {} BY <1>4, <1>6, <2>1
    <3>3. QED BY <1>6, <2>1, <2>4, <3>1, <3>2 DEF StartInv
  <2>9. MigrationIsComplete' BY <2>4 DEF MigrationIsComplete
  <2>10. \A u \in Users \ dirty' : Agree(u)'
    BY <1>5, <1>6, <2>1 DEF Agree, Exists
  <2>11. QED BY <2>1, <2>3, <2>5, <2>6, <2>7, <2>8, <2>9, <2>10, QuietKeeps
<1>7. CASE /\ faults' = faults + 1 /\ req' = [req EXCEPT ![Starter] = Idle]
           /\ dirty' = dirty \cup (json \ DOMAIN kanidm)
           /\ UNCHANGED <<stores, toMigrate, next, requests, restarts, asked, deleted, migrated>>
  <2>1. UNCHANGED <<kanidm, json, passwords, sessions>> BY <1>7 DEF stores
  <2>2. /\ (req \in [Actors -> Requests])' /\ req'[Starter] = Idle
        /\ \A c \in Actors : c # Starter => req'[c] = req[c]
    BY <1>1, <1>7, IdleTyped, StarterIsNoClient
  <2>3. ~Starting' /\ ~Looked' BY <2>2, IdleTyped DEF Starting, Looked, At
  <2>4. \A c \in Actors : ~Under(req'[c]) BY <1>3, <2>2, IdleTyped DEF Under
  <2>5. StoresTyped'
    <3>1. dirty' \subseteq Users /\ faults' \in Nat BY <1>1, <1>7 DEF StoresTyped
    <3>2. QED BY <1>1, <1>7, <2>1, <3>1 DEF StoresTyped
  <2>6. Steps'
    <3>1. StepsOf(Starter)' BY <2>2, <2>3, IdleTyped DEF StepsOf
    <3>2. ASSUME NEW c \in Actors, c # Starter PROVE StepsOf(c)'
      BY <1>1, <2>2, <3>2 DEF Steps, StepsOf, At
    <3>3. QED BY <3>1, <3>2 DEF Steps
  <2>7. StartInv' /\ MigrationIsComplete'
    BY <1>4, <1>7, <2>3 DEF StartInv, MigrationIsComplete
  <2>8. \A u \in Users \ dirty' : Agree(u)'
    BY <1>5, <1>7, <2>1 DEF Agree, Exists
  <2>9. QED BY <1>7, <2>1, <2>2, <2>4, <2>5, <2>6, <2>7, <2>8, QuietKeeps
<1>8. QED BY <1>6, <1>7 DEF FindUsersToMigrate, JsonUsers, KanidmUsers

LEMMA MigrationDoneKeeps ==
    ASSUME AccountsInv, MigrationDone
    PROVE  AccountsInv'
<1>1. StoresTyped /\ Steps /\ StartInv /\ AgreeInv /\ req \in [Actors -> Requests]
  BY Parts
<1>2. /\ At(Starter, "read") /\ req[Starter].groups # {} /\ toMigrate = {}
      /\ req' = [req EXCEPT ![Starter] = Idle]
      /\ UNCHANGED <<kanidm, json, passwords, sessions, toMigrate, next, requests, faults,
                      restarts, dirty, asked, deleted, migrated>>
  BY DEF MigrationDone, stores, counts, history
<1>3. Looked /\ \A c \in Actors : ~Under(req[c]) BY <1>2, ReadFacts DEF Looked
<1>4. \A u \in Users \ dirty : Agree(u) BY <1>1, <1>2, ReadFacts DEF AgreeInv
<1>5. /\ (req \in [Actors -> Requests])' /\ req'[Starter] = Idle
      /\ \A c \in Actors : c # Starter => req'[c] = req[c]
  BY <1>1, <1>2, IdleTyped, StarterIsNoClient
<1>6. ~Starting' /\ ~Looked' BY <1>5, IdleTyped DEF Starting, Looked, At
<1>7. \A c \in Actors : ~Under(req'[c]) BY <1>3, <1>5, IdleTyped DEF Under
<1>8. StoresTyped' BY <1>1, <1>2 DEF StoresTyped
<1>9. Steps'
  <2>1. StepsOf(Starter)' BY <1>5, <1>6, IdleTyped DEF StepsOf
  <2>2. ASSUME NEW c \in Actors, c # Starter PROVE StepsOf(c)'
    BY <1>1, <1>5, <2>2 DEF Steps, StepsOf, At
  <2>3. QED BY <2>1, <2>2 DEF Steps
<1>10. StartInv'
  <2>1. \A c \in Clients : At(c, "idle")'
    BY <1>1, <1>3, <1>5, StarterIsNoClient DEF StartInv, Looked, At, Actors
  <2>2. QED BY <1>2, <1>6, <2>1 DEF StartInv
<1>11. MigrationIsComplete'
  <2>1. ~At(Starter, "post") BY <1>2 DEF At
  <2>2. QED BY <1>1, <1>2, <1>3, <2>1 DEF StartInv, MigrationIsComplete
<1>12. \A u \in Users \ dirty' : Agree(u)' BY <1>2, <1>3, <1>4 DEF Agree, Exists
<1>13. QED BY <1>2, <1>5, <1>7, <1>8, <1>9, <1>10, <1>11, <1>12, QuietKeeps

LEMMA MigrateUserKeeps ==
    ASSUME AccountsInv, MigrateUser
    PROVE  AccountsInv'
<1>1. /\ StoresTyped /\ Steps /\ StartInv /\ AgreeInv /\ DeletedIsGone /\ Numbered
      /\ req \in [Actors -> Requests]
  BY Parts
<1>2. PICK u \in toMigrate :
         /\ toMigrate' = toMigrate \ {u}
         /\ req' = [req EXCEPT ![Starter] =
                       [@ EXCEPT !.user = u, !.pc = "post", !.add = DefaultGroups(u),
                                 !.remove = {}]]
  BY DEF MigrateUser
<1>3. /\ At(Starter, "read") /\ req[Starter].groups # {}
      /\ UNCHANGED <<kanidm, json, passwords, sessions, next, requests, faults, restarts,
                     dirty, asked, deleted, migrated>>
  BY DEF MigrateUser, stores, counts, history
<1>4. Looked /\ (\A c \in Actors : ~Under(req[c])) /\ \A v : Busy(v) = {}
  BY <1>3, ReadFacts DEF Looked
<1>5. u \in json /\ u \notin DOMAIN kanidm /\ u \in Users
  BY <1>1, <1>2 DEF StartInv, StoresTyped
<1> DEFINE r == [req[Starter] EXCEPT !.user = u, !.pc = "post", !.add = DefaultGroups(u),
                                     !.remove = {}]
<1>6. /\ r \in Requests /\ r.user = u /\ r.pc = "post" /\ r.add = DefaultGroups(u)
      /\ r.remove = {} /\ r.groups = req[Starter].groups /\ r.op = "migrate" /\ r.groups # Keep
  <2>1. req[Starter] \in Requests /\ DefaultGroups(u) \in AllGroups /\ {} \in AllGroups
    BY <1>1, <1>5, StarterIsNoClient, DefaultsTyped DEF AllGroups
  <2>2. req[Starter].op = "migrate" /\ req[Starter].groups # Keep
    BY <1>1, <1>4, StarterIsNoClient DEF Steps, StepsOf, Looked
  <2>3. QED BY <1>5, <2>1, <2>2 DEF Requests
<1>7. req' = [req EXCEPT ![Starter] = r] BY <1>2
<1> HIDE DEF r
<1>8. /\ (req \in [Actors -> Requests])' /\ req'[Starter] = r
      /\ \A c \in Actors : c # Starter => req'[c] = req[c]
  BY <1>1, <1>6, <1>7, StarterIsNoClient
<1>9. Starting' /\ Looked' /\ ~At(Starter, "read")' /\ At(Starter, "post")' /\ User(Starter)' = u
  BY <1>3, <1>6, <1>8 DEF Starting, Looked, At, User
<1>10. \A c \in Actors : c # Starter => ~Under(req'[c]) BY <1>4, <1>8
<1>11. Busy(u)' = {Starter} /\ \A v : v # u => Busy(v)' = {}
  <2>1. ASSUME NEW v, NEW c PROVE c \in Busy(v)' <=> c = Starter /\ v = u
    <3>1. CASE c = Starter BY <1>6, <1>8, <3>1, BusyNext, StarterIsNoClient DEF Under
    <3>2. CASE c # Starter BY <1>10, <3>2, BusyNext
    <3>3. QED BY <3>1, <3>2
  <2>2. QED BY <2>1 DEF Busy
<1>12. StoresTyped' BY <1>1, <1>2, <1>3 DEF StoresTyped
<1>13. Steps'
  <2>1. StepsOf(Starter)' BY <1>3, <1>6, <1>8 DEF StepsOf
  <2>2. ASSUME NEW c \in Actors, c # Starter PROVE StepsOf(c)'
    BY <1>1, <1>8, <2>2 DEF Steps, StepsOf, At
  <2>3. QED BY <2>1, <2>2 DEF Steps
<1>14. StartInv'
  <2>1. \A c \in Clients : At(c, "idle")'
    BY <1>1, <1>4, <1>8, StarterIsNoClient DEF StartInv, Looked, At, Actors
  <2>2. ~At(Starter, "post") BY <1>3 DEF At
  <2>3. toMigrate' \subseteq json' \ DOMAIN kanidm' BY <1>1, <1>2, <1>3 DEF StartInv
  <2>4. u \in json' \ toMigrate' BY <1>2, <1>3, <1>5
  <2>5. migrated => /\ \A v \in json : v \in DOMAIN kanidm \/ v \in toMigrate
                    /\ restarts = 0 => \A v \in json \ toMigrate : ZeroUuid \in passwords[v]
    BY <1>1, <1>3, <1>4, <2>2 DEF StartInv
  <2>6. migrated' =>
          /\ \A v \in json' \ (DOMAIN kanidm' \cup toMigrate') : v = u
          /\ restarts' = 0 => \A v \in json' \ toMigrate' : ZeroUuid \in passwords'[v] \/ v = u
    BY <1>2, <1>3, <2>5
  <2>7. QED BY <1>9, <2>1, <2>3, <2>4, <2>6 DEF StartInv
<1>15. MigrationIsComplete' BY <1>9 DEF MigrationIsComplete
<1>16. Numbered' /\ DeletedIsGone'
  BY <1>1, <1>3 DEF Numbered, DeletedIsGone, Exists
<1>17. AloneInv'
  <2>1. ASSUME NEW v \in Users, NEW c \in Busy(v)' PROVE Busy(v)' = {c}
    BY <1>11, <2>1
  <2>2. QED BY <2>1 DEF AloneInv
<1>18. EraseInv'
  <2>1. \A c \in Actors : ~At(c, "erase")' BY <1>6, <1>8, <1>10 DEF At, Under
  <2>2. u \notin deleted \ {Primary} BY <1>1, <1>5 DEF DeletedIsGone
  <2>3. QED BY <1>3, <1>11, <2>1, <2>2 DEF EraseInv
<1>19. AgreeInv'
  <2>1. ASSUME NEW v \in Users \ dirty', v # u PROVE Agree(v)'
    <3>1. Agree(v) BY <1>1, <1>3, <1>4, <2>1 DEF AgreeInv
    <3>2. QED BY <1>2, <1>3, <1>4, <1>9, <2>1, <3>1 DEF Agree, Exists
  <2>2. Headed(Starter)'
    <3>1. Goal(Starter)' = DefaultGroups(u) BY <1>6, <1>8, <1>9 DEF Goal, DefaultGroups
    <3>2. QED BY <1>3, <1>5, <1>6, <1>8, <1>9, <3>1 DEF Headed, At
  <2>3. QED BY <1>11, <2>1, <2>2 DEF AgreeInv
<1>20. QED
  BY <1>8, <1>12, <1>13, <1>14, <1>15, <1>16, <1>17, <1>18, <1>19, PartsNext

-----------------------------------------------------------------------------
(* The theorems                                                              *)

LEMMA AccountsInvInit == Init => AccountsInv
<1> SUFFICES ASSUME Init PROVE AccountsInv OBVIOUS
<1>1. /\ DOMAIN kanidm = {} /\ json \subseteq Users /\ passwords = [u \in Users |-> {}]
      /\ sessions = {} /\ toMigrate = {} /\ next = 1 /\ requests = 0 /\ faults = 0
      /\ restarts = 0 /\ dirty = {} /\ asked = [u \in Users |-> {}] /\ deleted = {}
      /\ migrated = FALSE
      /\ req = [[c \in Actors |-> Idle] EXCEPT ![Starter] = Starts]
  BY DEF Init, Starts
<1>2. /\ req \in [Actors -> Requests] /\ req[Starter] = Starts
      /\ \A c \in Actors : c # Starter => req[c] = Idle
  BY <1>1, StarterIsNoClient, IdleTyped, StartsTyped
<1>3. Starting /\ ~Looked BY <1>2, StartsTyped DEF Starting, Looked, At
<1>4. \A c \in Actors : ~Under(req[c]) BY <1>2, IdleTyped, StartsTyped DEF Under
<1>5. \A u : Busy(u) = {} BY <1>4, BusyIs DEF Busy
<1>6. StoresTyped
  <2>1. asked \in [Users -> AllGroups] BY <1>1 DEF AllGroups
  <2>2. QED BY <1>1, <2>1 DEF StoresTyped
<1>7. Numbered BY <1>1 DEF Numbered
<1>8. Steps
  <2>1. StepsOf(Starter) BY <1>2, <1>3, StartsTyped DEF StepsOf
  <2>2. ASSUME NEW c \in Actors, c # Starter PROVE StepsOf(c)
    BY <1>2, <2>2, IdleTyped, KeepIsNone DEF StepsOf, At
  <2>3. QED BY <2>1, <2>2 DEF Steps
<1>9. StartInv
  <2>1. \A c \in Clients : At(c, "idle") BY <1>2, StarterIsNoClient, IdleTyped DEF At, Actors
  <2>2. QED BY <1>1, <1>3, <2>1 DEF StartInv
<1>10. MigrationIsComplete /\ DeletedIsGone BY <1>1 DEF MigrationIsComplete, DeletedIsGone
<1>11. AloneInv BY <1>5 DEF AloneInv
<1>12. EraseInv
  <2>1. \A c \in Actors : ~At(c, "erase") BY <1>4 DEF At, Under
  <2>2. QED BY <1>5, <2>1 DEF EraseInv
<1>13. AgreeInv
  <2>1. \A u \in Users : Agree(u) BY <1>1, <1>3 DEF Agree, Exists
  <2>2. QED BY <1>5, <2>1 DEF AgreeInv
<1>14. QED BY <1>2, <1>6, <1>7, <1>8, <1>9, <1>10, <1>11, <1>12, <1>13, Parts

LEMMA AccountsInvStep == AccountsInv /\ [Next]_vars => AccountsInv'
<1> SUFFICES ASSUME AccountsInv, [Next]_vars PROVE AccountsInv' OBVIOUS
<1>1. ASSUME NEW c \in Clients, Ask(c) PROVE AccountsInv'
  BY <1>1, CreateUserKeeps, DeleteUserKeeps, UpdateUserKeeps DEF Ask
<1>2. ASSUME NEW c \in Actors, Handle(c) PROVE AccountsInv'
  BY <1>2, PostKeeps, LookUpKeeps, EraseKeeps, ReadGroupsKeeps, PatchKeeps, JoinLeaveKeeps,
     MembersDoneKeeps DEF Handle
<1>3. ASSUME NEW u \in Users, Brief(u) PROVE AccountsInv'
  <2>1. sessions \subseteq Users BY Parts DEF StoresTyped
  <2>2. CASE LogIn(u) BY <2>1, <2>2, SessionsKeep DEF LogIn
  <2>3. CASE SessionExpires(u) BY <2>1, <2>3, SessionsKeep DEF SessionExpires
  <2>4. QED BY <1>3, <2>2, <2>3, PasswordsKeep DEF Brief
<1>4. CASE UNCHANGED vars
  <2>1. sessions \subseteq Users BY Parts DEF StoresTyped
  <2>2. sessions' \subseteq Users
        /\ UNCHANGED <<kanidm, json, passwords, req, toMigrate, counts, history>>
    BY <1>4, <2>1 DEF vars, stores
  <2>3. QED BY <2>2, SessionsKeep
<1>5. CASE FindUsersToMigrate BY <1>5, FindKeeps
<1>6. CASE MigrateUser BY <1>6, MigrateUserKeeps
<1>7. CASE MigratePassword BY <1>7, MigratePasswordKeeps
<1>8. CASE MigrationDone BY <1>8, MigrationDoneKeeps
<1>9. CASE Restart BY <1>9, RestartKeeps
<1>10. QED BY <1>1, <1>2, <1>3, <1>4, <1>5, <1>6, <1>7, <1>8, <1>9 DEF Next

(* What the stores of users hold, and how far each request has brought them, *)
(* is known at every step (actions/users.py, migrate_users_from_json.py).    *)
THEOREM AccountsInvariance == Spec => []AccountsInv
<1>1. Init => AccountsInv BY AccountsInvInit
<1>2. AccountsInv /\ [Next]_vars => AccountsInv' BY AccountsInvStep
<1>3. QED BY <1>1, <1>2, PTL DEF Spec

(* A user deleted with success, by a request that no other one overlapped,   *)
(* stays gone from all three stores, whatever fails or restarts, until the   *)
(* name is asked for again (delete_user).                                    *)
THEOREM DeletedIsGoneHolds == Spec => []DeletedIsGone
<1>1. AccountsInv => DeletedIsGone BY DEF AccountsInv
<1>2. QED BY <1>1, AccountsInvariance, PTL

(* While nothing is under way, failed or met another for a name, Kanidm, the *)
(* user data and what was asked last agree on it (create_user, update_user,  *)
(* delete_user, migrate_users_from_json).                                    *)
THEOREM StoresAgreeHolds == Spec => []StoresAgree
<1>1. AccountsInv => StoresAgree
  <2>1. SUFFICES ASSUME AccountsInv, NEW u \in Users, Settled(u)
                 PROVE  IF Exists(u) THEN u \in json /\ kanidm[u] = asked[u]
                                     ELSE u \notin json \ {Primary}
    BY DEF StoresAgree
  <2>2. Agree(u) BY <2>1 DEF AccountsInv, AgreeInv, Settled
  <2>3. toMigrate = {} BY <2>1 DEF AccountsInv, StartInv, Looked, Settled
  <2>4. QED BY <2>1, <2>2, <2>3 DEF Agree, Settled
<1>2. QED BY <1>1, AccountsInvariance, PTL

(***************************************************************************)
(* The queries to Kanidm and their token: KanidmToken                      *)
(***************************************************************************)

\* What the invariant says of a query, when n is the next number.
QueryOK(q, n) ==
    /\ q \in Queries
    /\ q.token < n /\ q.password < n /\ q.old < n
    /\ q.pc \notin Rest => (q.attempt = 2 <=> q.rejected # 0)
    /\ q.pc \in {"adopt", "probe", "save", "send", "forget"} => q.token # 0
    /\ q.pc = "forget" => q.attempt = 1

QueriesOK == /\ query \in [Callers -> Queries]
             /\ \A c \in Callers : QueryOK(query[c], fresh)

\* What it says of the tokens and passwords.
StoresOK ==
    /\ fresh \in Nat /\ fresh > 0
    /\ cached \in Nat /\ cached < fresh /\ file \in Nat /\ file < fresh
    /\ environ \in Nat /\ environ < fresh /\ password \in Nat /\ password < fresh
    /\ valid \subseteq Nat /\ \A t \in valid : t # 0 /\ t < fresh

CountsOK == /\ up \in BOOLEAN /\ queries \in Nat /\ queryFaults \in Nat
            /\ disturbed \subseteq Callers

\* The invariant in these parts.
LEMMA TokenParts == PasswordInv <=> StoresOK /\ QueriesOK /\ CountsOK /\ PasswordNotLeft
<1>1. PasswordInv => fresh > 0 BY DEF PasswordInv, TokenTypeOK
<1>2. QED
  BY <1>1 DEF PasswordInv, TokenTypeOK, StoresOK, QueriesOK, QueryOK, CountsOK, AtQuery

LEMMA TokenPartsNext ==
    PasswordInv' <=> StoresOK' /\ QueriesOK' /\ CountsOK' /\ PasswordNotLeft'
BY TokenParts, PTL

LEMMA NoQueryOK == ASSUME NEW n \in Nat, n > 0 PROVE QueryOK(NoQuery, n)
BY DEF NoQuery, QueryOK, Queries, Pcs, Rest

\* A step of one query leaves the others as they were.
LEMMA OneQuery ==
    ASSUME QueriesOK, NEW c \in Callers, NEW q,
           fresh \in Nat, fresh' \in Nat, fresh' >= fresh,
           query' = [query EXCEPT ![c] = q], QueryOK(q, fresh')
    PROVE  QueriesOK'
<1>1. ASSUME NEW d \in Callers PROVE QueryOK(query'[d], fresh')
  <2>1. CASE d = c BY <2>1 DEF QueriesOK
  <2>2. CASE d # c
    <3>1. query'[d] = query[d] /\ QueryOK(query[d], fresh) BY <2>2 DEF QueriesOK
    <3>2. query[d].token \in Nat /\ query[d].password \in Nat /\ query[d].old \in Nat
      BY DEF QueriesOK, Queries
    <3>3. QED BY <3>1, <3>2 DEF QueryOK
  <2>3. QED BY <2>1, <2>2
<1>2. query' \in [Callers -> Queries] BY <1>1 DEF QueriesOK, QueryOK
<1>3. QED BY <1>1, <1>2 DEF QueriesOK

\* A query that goes on to a step, or to its end.
LEMMA GoesOn ==
    ASSUME QueriesOK, NEW c \in Callers, NEW pc \in Pcs, fresh \in Nat,
           fresh' \in Nat, fresh' >= fresh, GoOn(c, pc),
           query[c].pc \notin Rest,
           pc \in {"adopt", "probe", "save", "send", "forget"} => query[c].token # 0,
           pc = "forget" => query[c].attempt = 1
    PROVE  QueriesOK'
<1> DEFINE q == [query[c] EXCEPT !.pc = pc]
<1>1. query' = [query EXCEPT ![c] = q] BY DEF GoOn, QueriesOK
<1>2. query[c] \in Queries /\ QueryOK(query[c], fresh) BY DEF QueriesOK
<1>3. QueryOK(q, fresh') BY <1>2 DEF QueryOK, Queries
<1>4. QED BY <1>1, <1>3, OneQuery

-----------------------------------------------------------------------------
(* The password in the environment                                           *)

\* Nobody goes in or out of temporary_env_var.
LEMMA OthersOutside ==
    ASSUME PasswordNotLeft, NEW c \in Callers, UNCHANGED environ,
           query \in [Callers -> Queries],
           ~Inside(c) \/ (query'[c].pc \in {"login", "generate"} /\ query'[c].old = query[c].old),
           \A d \in Callers \ {c} : query'[d] = query[d]
    PROVE  PasswordNotLeft'
BY DEF PasswordNotLeft, Inside

\* A query leaves the block: when the variable was unset before it, it is unset again;
\* otherwise the one that found it unset is still inside.
LEMMA Leaves ==
    ASSUME PasswordNotLeft, StoresOK, QueriesOK, NEW c \in Callers, Inside(c), LeaveBlock(c),
           \A d \in Callers \ {c} : query'[d] = query[d]
    PROVE  PasswordNotLeft' /\ environ' \in Nat /\ environ' < fresh
<1>1. query[c].old \in Nat /\ query[c].old < fresh BY DEF QueriesOK, QueryOK, Queries
<1>2. environ' \in Nat /\ environ' < fresh BY <1>1 DEF LeaveBlock, StoresOK
<1>3. CASE environ = 0 \/ query[c].old = 0 
  <2>1. environ' = 0 BY <1>3 DEF LeaveBlock
  <2>2. QED BY <1>2, <2>1 DEF PasswordNotLeft
<1>4. CASE environ # 0 /\ query[c].old # 0
  <2>1. PICK d \in Callers : Inside(d) /\ query[d].old = 0 BY <1>4 DEF PasswordNotLeft
  <2>2. query'[d] = query[d] BY <1>4, <2>1
  <2>3. Inside(d)' BY <2>1, <2>2 DEF Inside
  <2>4. query'[d].old = 0 BY <2>1, <2>2
  <2>5. QED BY <1>2, <2>3, <2>4 DEF PasswordNotLeft
<1>5. QED BY <1>2, <1>3, <1>4

-----------------------------------------------------------------------------
(* The steps of a query                                                      *)

\* A step outside the block that leaves the environment and the numbers alone.
LEMMA PlainStep ==
    ASSUME PasswordInv, NEW c \in Callers, NEW pc \in Pcs, GoOn(c, pc),
           query[c].pc \notin Rest, ~Inside(c),
           pc \in {"adopt", "probe", "save", "send", "forget"} => query[c].token # 0,
           pc = "forget" => query[c].attempt = 1,
           cached' \in Nat, cached' < fresh,
           UNCHANGED <<file, environ, kanidmVars, fresh, queries, queryFaults, disturbed>>
    PROVE  PasswordInv'
<1>1. StoresOK /\ QueriesOK /\ CountsOK /\ PasswordNotLeft BY TokenParts
<1>2. StoresOK' BY <1>1 DEF StoresOK, kanidmVars
<1>3. CountsOK' BY <1>1 DEF CountsOK, kanidmVars
<1>4. fresh \in Nat /\ fresh' \in Nat /\ fresh' >= fresh BY <1>1 DEF StoresOK
<1>5. QueriesOK' BY <1>1, <1>4, GoesOn
<1>6. query \in [Callers -> Queries] /\ \A d \in Callers \ {c} : query'[d] = query[d]
  BY <1>1 DEF QueriesOK, GoOn
<1>7. PasswordNotLeft' BY <1>1, <1>6, OthersOutside
<1>8. QED BY <1>2, <1>3, <1>5, <1>7, TokenPartsNext

\* A step outside the block that takes another token.
LEMMA TakesToken ==
    ASSUME PasswordInv, NEW c \in Callers, NEW q, query' = [query EXCEPT ![c] = q],
           QueryOK(q, fresh), query[c].pc \notin Rest, ~Inside(c),
           cached' \in Nat, cached' < fresh,
           UNCHANGED <<file, environ, kanidmVars, fresh, queries, queryFaults, disturbed>>
    PROVE  PasswordInv'
<1>1. StoresOK /\ QueriesOK /\ CountsOK /\ PasswordNotLeft BY TokenParts
<1>2. StoresOK' BY <1>1 DEF StoresOK, kanidmVars
<1>3. CountsOK' BY <1>1 DEF CountsOK, kanidmVars
<1>4. fresh \in Nat /\ fresh' \in Nat /\ fresh' >= fresh /\ QueryOK(q, fresh')
  BY <1>1 DEF StoresOK
<1>5. QueriesOK' BY <1>1, <1>4, OneQuery
<1>6. query \in [Callers -> Queries] /\ \A d \in Callers \ {c} : query'[d] = query[d]
  BY <1>1 DEF QueriesOK
<1>7. PasswordNotLeft' BY <1>1, <1>6, OthersOutside
<1>8. QED BY <1>2, <1>3, <1>5, <1>7, TokenPartsNext

\* The second attempt of a query is a query.
LEMMA RetryTyped ==
    ASSUME NEW r \in Queries, NEW t \in Nat
    PROVE  [r EXCEPT !.pc = "file", !.attempt = 2, !.rejected = t] \in Queries
<1>1. "file" \in Pcs /\ 2 \in 1 .. 2 BY DEF Pcs
<1>2. QED BY <1>1 DEF Queries

LEMMA StepKeeps ==
    ASSUME PasswordInv, NEW c \in Callers, Step(c)
    PROVE  PasswordInv'
<1>1. StoresOK /\ QueriesOK /\ CountsOK /\ PasswordNotLeft BY TokenParts
<1>2. /\ query \in [Callers -> Queries] /\ query[c] \in Queries
      /\ QueryOK(query[c], fresh)
      /\ cached \in Nat /\ cached < fresh /\ file \in Nat /\ file < fresh
      /\ fresh \in Nat /\ fresh > 0
  BY <1>1 DEF QueriesOK, StoresOK
<1>3. CASE ReadCache(c)
  <2>1. query[c].pc \notin Rest /\ ~Inside(c) BY <1>3 DEF ReadCache, AtQuery, Rest, Inside
  <2>2. CASE cached = 0
    <3>1. GoOn(c, "file") BY <1>3, <2>2 DEF ReadCache
    <3>2. QED BY <1>2, <1>3, <2>1, <3>1, PlainStep DEF ReadCache, Pcs
  <2>3. CASE cached # 0
    <3> DEFINE q == [query[c] EXCEPT !.pc = "send", !.token = cached]
    <3>1. query' = [query EXCEPT ![c] = q] BY <1>2, <1>3, <2>3 DEF ReadCache
    <3>2. QueryOK(q, fresh) BY <1>2, <2>1, <2>3 DEF QueryOK, Queries, Pcs, Rest
    <3>3. QED BY <1>2, <1>3, <2>1, <3>1, <3>2, TakesToken DEF ReadCache
  <2>4. QED BY <2>2, <2>3
<1>4. CASE ReadFile(c)
  <2>1. query[c].pc \notin Rest /\ ~Inside(c) BY <1>4 DEF ReadFile, AtQuery, Rest, Inside
  <2>2. CASE file = 0
    <3>1. GoOn(c, "reset") BY <1>4, <2>2 DEF ReadFile
    <3>2. QED BY <1>2, <1>4, <2>1, <3>1, PlainStep DEF ReadFile, Pcs
  <2>3. CASE file # 0
    <3> DEFINE q == [query[c] EXCEPT !.pc = "adopt", !.token = file]
    <3>1. query' = [query EXCEPT ![c] = q] BY <1>2, <1>4, <2>3 DEF ReadFile
    <3>2. QueryOK(q, fresh) BY <1>2, <2>1, <2>3 DEF QueryOK, Queries, Pcs, Rest
    <3>3. QED BY <1>2, <1>4, <2>1, <3>1, <3>2, TakesToken DEF ReadFile
  <2>4. QED BY <2>2, <2>3
<1>5. CASE AdoptFileToken(c)
  <2>1. query[c].pc \notin Rest /\ ~Inside(c) /\ query[c].token # 0
    BY <1>2, <1>5 DEF AdoptFileToken, AtQuery, Rest, Inside, QueryOK
  <2>2. cached' \in Nat /\ cached' < fresh BY <1>2, <1>5 DEF AdoptFileToken, QueryOK, Queries
  <2>3. PICK pc \in {"send", "probe", "reset"} : GoOn(c, pc) BY <1>5 DEF AdoptFileToken
  <2>4. QED BY <1>5, <2>1, <2>2, <2>3, PlainStep DEF AdoptFileToken, Pcs
<1>6. CASE ProbeToken(c)
  <2>1. query[c].pc \notin Rest /\ ~Inside(c) /\ query[c].token # 0
    BY <1>2, <1>6 DEF ProbeToken, AtQuery, Rest, Inside, QueryOK
  <2>2. PICK pc \in {"send", "reset"} : GoOn(c, pc) BY <1>6 DEF ProbeToken
  <2>3. QED BY <1>2, <1>6, <2>1, <2>2, PlainStep DEF ProbeToken, Pcs
<1>7. CASE SaveToken(c)
  <2>1. query[c].pc \notin Rest /\ ~Inside(c) /\ query[c].token # 0
    BY <1>2, <1>7 DEF SaveToken, AtQuery, Rest, Inside, QueryOK
  <2>2. cached' \in Nat /\ cached' < fresh BY <1>2, <1>7 DEF SaveToken, QueryOK, Queries
  <2>3. QED BY <1>7, <2>1, <2>2, PlainStep DEF SaveToken, Pcs
<1>8. CASE SendRequest(c)
  <2>1. query[c].pc \notin Rest /\ ~Inside(c) /\ query[c].token # 0
    BY <1>2, <1>8 DEF SendRequest, AtQuery, Rest, Inside, QueryOK
  <2>2. PICK pc \in {"failed", "idle", "forget"} :
            GoOn(c, pc) /\ (pc = "forget" => query[c].attempt = 1)
    BY <1>8 DEF SendRequest
  <2>3. QED BY <1>2, <1>8, <2>1, <2>2, PlainStep
         DEF SendRequest, Pcs, Rest
<1>9. CASE ForgetToken(c)
  <2>1. query[c].pc \notin Rest /\ ~Inside(c) /\ query[c].token # 0
    BY <1>2, <1>9 DEF ForgetToken, AtQuery, Rest, Inside, QueryOK
  <2> DEFINE q == [query[c] EXCEPT !.pc = "file", !.attempt = 2,
                                   !.rejected = query[c].token]
  <2>2. query' = [query EXCEPT ![c] = q] BY <1>2, <1>9 DEF ForgetToken
  <2>3. QueryOK(q, fresh)
    <3>1. query[c] \in Queries /\ query[c].token \in Nat
      BY <1>2 DEF Queries
    <3>2. q.pc = "file" /\ q.attempt = 2 /\ q.rejected = query[c].token
             /\ q.token = query[c].token /\ q.password = query[c].password
             /\ q.old = query[c].old
      BY <3>1 DEF Queries
    <3>3. q \in Queries BY <3>1, RetryTyped
    <3>4. QED BY <1>2, <2>1, <3>2, <3>3 DEF QueryOK, Rest
  <2>4. cached' \in Nat /\ cached' < fresh BY <1>2, <1>9 DEF ForgetToken
  <2>5. QED BY <1>2, <1>9, <2>1, <2>2, <2>3, <2>4, TakesToken DEF ForgetToken
<1>10. CASE ResetPassword(c)
  <2>0. query[c].pc = "reset" BY <1>10 DEF ResetPassword, AtQuery
  <2>1. fresh' \in Nat /\ fresh' = fresh + 1 /\ fresh' >= fresh BY <1>2, <1>10 DEF ResetPassword
  <2>2. StoresOK' BY <1>1, <1>10, <2>1 DEF StoresOK, ResetPassword
  <2>3. CountsOK' BY <1>1, <1>10 DEF CountsOK, ResetPassword
  <2> DEFINE q == [query[c] EXCEPT !.pc = "login", !.password = fresh, !.old = environ]
  <2>4. query' = [query EXCEPT ![c] = q] BY <1>2, <1>10 DEF ResetPassword
  <2>5. environ \in Nat /\ environ < fresh BY <1>1 DEF StoresOK
  <2>6. q \in Queries /\ q.pc = "login" /\ q.password = fresh /\ q.old = environ
            /\ q.token = query[c].token /\ q.attempt = query[c].attempt
            /\ q.rejected = query[c].rejected
    BY <1>2, <2>5 DEF Queries, Pcs
  <2>7. QueryOK(q, fresh')
    BY <1>2, <2>0, <2>1, <2>5, <2>6 DEF QueryOK, Rest, Queries
  <2>8. QueriesOK' BY <1>1, <1>2, <2>1, <2>4, <2>7, OneQuery
  <2>9. PasswordNotLeft'
    <3>1. CASE environ = 0
      <4>1. query'[c].pc = "login" /\ query'[c].old = 0 BY <1>2, <2>4, <2>6, <3>1
      <4>2. QED BY <4>1 DEF PasswordNotLeft, Inside
    <3>2. CASE environ # 0
      <4>1. PICK d \in Callers : Inside(d) /\ query[d].old = 0
        BY <1>1, <3>2 DEF PasswordNotLeft
      <4>2. d # c BY <2>0, <4>1 DEF Inside
      <4>3. query'[d] = query[d] BY <1>2, <2>4, <4>2
      <4>4. Inside(d)' /\ query'[d].old = 0 BY <4>1, <4>3 DEF Inside
      <4>5. QED BY <4>4 DEF PasswordNotLeft
    <3>3. QED BY <3>1, <3>2
  <2>10. QED BY <2>2, <2>3, <2>8, <2>9, TokenPartsNext
<1>11. CASE Login(c)
  <2>0. query[c].pc = "login" BY <1>11 DEF Login, AtQuery
  <2>1. /\ UNCHANGED <<cached, file, kanidmVars, fresh, queries, queryFaults, disturbed>>
        /\ \E pc \in {"generate", "failed"} : GoOn(c, pc)
    BY <1>11 DEF Login
  <2>2. PICK pc \in {"generate", "failed"} : GoOn(c, pc) BY <2>1
  <2>3. /\ \A d \in Callers \ {c} : query'[d] = query[d]
        /\ query'[c].pc = pc /\ query'[c].old = query[c].old
    BY <1>2, <2>2 DEF GoOn, Queries
  <2>4. PasswordNotLeft' /\ environ' \in Nat /\ environ' < fresh
    <3>1. CASE query[c].password = password
      <4>1. GoOn(c, "generate") /\ environ' = environ BY <1>11, <3>1 DEF Login
      <4>2. query'[c].pc = "generate" BY <1>2, <4>1 DEF GoOn, Queries
      <4>3. PasswordNotLeft' BY <1>1, <1>2, <2>3, <4>1, <4>2, OthersOutside
      <4>4. QED BY <1>1, <4>1, <4>3 DEF StoresOK
    <3>2. CASE query[c].password # password
      <4>1. LeaveBlock(c) BY <1>11, <3>2 DEF Login
      <4>2. Inside(c) BY <2>0 DEF Inside
      <4>3. QED BY <1>1, <2>3, <4>1, <4>2, Leaves
    <3>3. QED BY <3>1, <3>2
  <2>5. StoresOK' BY <1>1, <2>1, <2>4 DEF StoresOK, kanidmVars
  <2>6. CountsOK' BY <1>1, <2>1 DEF CountsOK, kanidmVars
  <2>7. query[c].pc \notin Rest /\ fresh' \in Nat /\ fresh' >= fresh
    BY <1>2, <2>0, <2>1 DEF Rest
  <2>8. QueriesOK' BY <1>1, <1>2, <2>2, <2>7, GoesOn DEF Pcs, Rest
  <2>9. QED BY <2>4, <2>5, <2>6, <2>8, TokenPartsNext
<1>12. CASE GenerateToken(c)
  <2>0. query[c].pc = "generate" /\ Inside(c) BY <1>12 DEF GenerateToken, AtQuery, Inside
  <2>1. fresh' \in Nat /\ fresh' = fresh + 1 /\ fresh' >= fresh BY <1>2, <1>12 DEF GenerateToken
  <2>2. PICK pc \in {"failed", "save"} :
            query' = [query EXCEPT ![c].pc = pc, ![c].token = fresh]
    BY <1>12 DEF GenerateToken
  <2> DEFINE q == [query[c] EXCEPT !.pc = pc, !.token = fresh]
  <2>3. query' = [query EXCEPT ![c] = q] BY <1>2, <2>2
  <2>4. q \in Queries /\ q.pc = pc /\ q.token = fresh /\ q.old = query[c].old
            /\ q.password = query[c].password /\ q.attempt = query[c].attempt
            /\ q.rejected = query[c].rejected
    BY <1>2 DEF Queries, Pcs, Rest
  <2>5. QueryOK(q, fresh')
    BY <1>2, <2>0, <2>1, <2>4 DEF QueryOK, Rest, Queries
  <2>6. QueriesOK' BY <1>1, <1>2, <2>1, <2>3, <2>5, OneQuery
  <2>7. \A d \in Callers \ {c} : query'[d] = query[d] BY <1>2, <2>3
  <2>8. PasswordNotLeft' /\ environ' \in Nat /\ environ' < fresh
    BY <1>1, <1>12, <2>0, <2>7, Leaves DEF GenerateToken
  <2>9. StoresOK' BY <1>1, <1>12, <2>1, <2>8 DEF StoresOK, GenerateToken
  <2>10. CountsOK' BY <1>1, <1>12 DEF CountsOK, GenerateToken
  <2>11. QED BY <2>6, <2>8, <2>9, <2>10, TokenPartsNext
<1>13. QED
  BY <1>3, <1>4, <1>5, <1>6, <1>7, <1>8, <1>9, <1>10, <1>11, <1>12 DEF Step

-----------------------------------------------------------------------------
(* Queries that begin, and what goes wrong around them                       *)

LEMMA StartQueryKeeps ==
    ASSUME PasswordInv, NEW c \in Callers, StartQuery(c)
    PROVE  PasswordInv'
<1>1. StoresOK /\ QueriesOK /\ CountsOK /\ PasswordNotLeft BY TokenParts
<1>2. StoresOK' BY <1>1 DEF StoresOK, StartQuery, kanidmVars
<1>3. CountsOK' BY <1>1 DEF CountsOK, StartQuery, kanidmVars, Asking
<1>4. fresh \in Nat /\ fresh > 0 /\ fresh' \in Nat /\ fresh' >= fresh
  BY <1>1 DEF StoresOK, StartQuery
<1> DEFINE q == [NoQuery EXCEPT !.pc = "get"]
<1>5. query' = [query EXCEPT ![c] = q] BY DEF StartQuery
<1>6. QueryOK(q, fresh')
  BY <1>4 DEF QueryOK, Queries, NoQuery, Pcs, Rest
<1>7. QueriesOK' BY <1>1, <1>4, <1>5, <1>6, OneQuery
<1>8. /\ query \in [Callers -> Queries] /\ ~Inside(c)
      /\ \A d \in Callers \ {c} : query'[d] = query[d]
  BY <1>1, <1>5 DEF QueriesOK, StartQuery, Rest, Inside
<1>9. PasswordNotLeft' BY <1>1, <1>8, OthersOutside DEF StartQuery
<1>10. QED BY <1>2, <1>3, <1>7, <1>9, TokenPartsNext

LEMMA CommandFailsKeeps ==
    ASSUME PasswordInv, NEW c \in Callers, CommandFails(c)
    PROVE  PasswordInv'
<1>1. StoresOK /\ QueriesOK /\ CountsOK /\ PasswordNotLeft BY TokenParts
<1>2. /\ query \in [Callers -> Queries] /\ query[c].pc \in {"reset", "login", "generate"}
      /\ GoOn(c, "failed") /\ UNCHANGED <<cached, file, kanidmVars, fresh>>
  BY <1>1 DEF QueriesOK, CommandFails
<1>3. \A d \in Callers \ {c} : query'[d] = query[d] BY <1>2 DEF GoOn
<1>4. PasswordNotLeft' /\ environ' \in Nat /\ environ' < fresh
  <2>1. CASE Inside(c)
    <3>1. LeaveBlock(c) BY <2>1 DEF CommandFails
    <3>2. QED BY <1>1, <1>3, <2>1, <3>1, Leaves
  <2>2. CASE ~Inside(c)
    <3>1. environ' = environ BY <2>2 DEF CommandFails
    <3>2. PasswordNotLeft' BY <1>1, <1>2, <1>3, <2>2, <3>1, OthersOutside
    <3>3. QED BY <1>1, <3>1, <3>2 DEF StoresOK
  <2>3. QED BY <2>1, <2>2
<1>5. StoresOK' BY <1>1, <1>2, <1>4 DEF StoresOK, kanidmVars
<1>6. CountsOK' BY <1>1, <1>2 DEF CountsOK, CommandFails, Fault, Asking, kanidmVars
<1>7. fresh \in Nat /\ fresh' \in Nat /\ fresh' >= fresh BY <1>1, <1>2 DEF StoresOK
<1>8. QueriesOK' BY <1>1, <1>2, <1>7, GoesOn DEF Pcs, Rest
<1>9. QED BY <1>4, <1>5, <1>6, <1>8, TokenPartsNext

\* Tokens are revoked or replaced, and Kanidm stops and starts, under the queries.
LEMMA AroundKeeps ==
    ASSUME PasswordInv, TokenRevoked \/ FileRotated \/ KanidmStops \/ KanidmStarts
    PROVE  PasswordInv'
<1>1. StoresOK /\ QueriesOK /\ CountsOK /\ PasswordNotLeft BY TokenParts
<1>2. /\ UNCHANGED <<query, environ>>
      /\ fresh' \in Nat /\ fresh' >= fresh /\ fresh \in Nat
  BY <1>1 DEF TokenRevoked, FileRotated, KanidmStops, KanidmStarts, Fault, StoresOK
<1>3. StoresOK'
  <2>1. CASE TokenRevoked BY <1>1, <2>1 DEF StoresOK, TokenRevoked
  <2>2. CASE FileRotated BY <1>1, <2>2 DEF StoresOK, FileRotated
  <2>3. CASE KanidmStops BY <1>1, <2>3 DEF StoresOK, KanidmStops
  <2>4. CASE KanidmStarts BY <1>1, <2>4 DEF StoresOK, KanidmStarts
  <2>5. QED BY <2>1, <2>2, <2>3, <2>4
<1>4. CountsOK'
  <2>1. CASE TokenRevoked BY <1>1, <2>1 DEF CountsOK, TokenRevoked, Fault, Asking
  <2>2. CASE FileRotated BY <1>1, <2>2 DEF CountsOK, FileRotated, Fault, Asking
  <2>3. CASE KanidmStops
    <3>1. up' \in BOOLEAN BY <2>3 DEF KanidmStops
    <3>2. QED BY <1>1, <2>3, <3>1 DEF CountsOK, KanidmStops, Fault, Asking
  <2>4. CASE KanidmStarts BY <1>1, <2>4 DEF CountsOK, KanidmStarts
  <2>5. QED BY <2>1, <2>2, <2>3, <2>4
<1>5. QueriesOK'
  <2>1. ASSUME NEW c \in Callers PROVE QueryOK(query[c], fresh')
    <3>1. QueryOK(query[c], fresh) /\ query[c] \in Queries BY <1>1 DEF QueriesOK
    <3>2. QED BY <1>2, <3>1 DEF QueryOK, Queries
  <2>2. QED BY <1>1, <1>2, <2>1 DEF QueriesOK
<1>6. PasswordNotLeft' BY <1>1, <1>2 DEF PasswordNotLeft, Inside
<1>7. QED BY <1>3, <1>4, <1>5, <1>6, TokenPartsNext

LEMMA ApiRestartsKeeps == ASSUME PasswordInv, ApiRestarts PROVE PasswordInv'
<1>1. StoresOK /\ QueriesOK /\ CountsOK BY TokenParts
<1>2. StoresOK' BY <1>1 DEF StoresOK, ApiRestarts, kanidmVars
<1>3. CountsOK' BY <1>1 DEF CountsOK, ApiRestarts, Fault, Asking, kanidmVars
<1>4. QueryOK(NoQuery, fresh') BY <1>2, NoQueryOK DEF StoresOK
<1>5. query' = [c \in Callers |-> NoQuery] /\ environ' = 0 BY DEF ApiRestarts
<1>6. NoQuery \in Queries BY <1>4 DEF QueryOK
<1>7. QueriesOK' BY <1>4, <1>5, <1>6 DEF QueriesOK
<1>8. PasswordNotLeft' BY <1>5 DEF PasswordNotLeft
<1>9. QED BY <1>2, <1>3, <1>7, <1>8, TokenPartsNext

LEMMA PasswordInvInit == TokenInit => PasswordInv
<1> SUFFICES ASSUME TokenInit PROVE PasswordInv OBVIOUS
<1>1. StoresOK BY DEF TokenInit, StoresOK
<1>2. CountsOK BY DEF TokenInit, CountsOK
<1>3. QueryOK(NoQuery, fresh) BY <1>1, NoQueryOK DEF StoresOK
<1>4. query = [c \in Callers |-> NoQuery] /\ environ = 0 BY DEF TokenInit
<1>5. NoQuery \in Queries BY <1>3 DEF QueryOK
<1>6. QueriesOK BY <1>3, <1>4, <1>5 DEF QueriesOK
<1>7. PasswordNotLeft BY <1>4 DEF PasswordNotLeft
<1>8. QED BY <1>1, <1>2, <1>6, <1>7, TokenParts

LEMMA PasswordInvStep == PasswordInv /\ [TokenNext]_tokenVars => PasswordInv'
<1> SUFFICES ASSUME PasswordInv, [TokenNext]_tokenVars PROVE PasswordInv' OBVIOUS
<1>1. CASE \E c \in Callers : StartQuery(c) \/ Step(c) \/ CommandFails(c)
  BY <1>1, StartQueryKeeps, StepKeeps, CommandFailsKeeps
<1>2. CASE TokenRevoked \/ FileRotated \/ KanidmStops \/ KanidmStarts
  BY <1>2, AroundKeeps
<1>3. CASE ApiRestarts BY <1>3, ApiRestartsKeeps
<1>4. CASE UNCHANGED tokenVars
  <2>1. StoresOK /\ QueriesOK /\ CountsOK /\ PasswordNotLeft BY TokenParts
  <2>2. StoresOK' /\ CountsOK' BY <1>4, <2>1 DEF StoresOK, CountsOK, tokenVars, kanidmVars
  <2>3. QueriesOK' BY <1>4, <2>1 DEF QueriesOK, tokenVars
  <2>4. PasswordNotLeft' BY <1>4, <2>1 DEF PasswordNotLeft, Inside, tokenVars
  <2>5. QED BY <2>2, <2>3, <2>4, TokenPartsNext
<1>5. QED BY <1>1, <1>2, <1>3, <1>4 DEF TokenNext

\* For any number of queries and faults: tokens, passwords and queries keep their
\* shape, and a query is sent twice only after its token was rejected (_send_query).
THEOREM PasswordInvariance == TokenSpec => []PasswordInv
BY PasswordInvInit, PasswordInvStep, PTL DEF TokenSpec

\* However the blocks of several queries overlap, and by whatever error they end, the
\* password leaves the environment with the last of them (temporary_env_var).
THEOREM PasswordNotLeftHolds == TokenSpec => []PasswordNotLeft
<1>1. PasswordInv => PasswordNotLeft BY DEF PasswordInv
<1>2. QED BY <1>1, PasswordInvariance, PTL

-----------------------------------------------------------------------------
(* A query that is alone                                                     *)

\* A step of a query that leaves the others as they are: only that one may be one
\* that nothing disturbs.
LEMMA OneCalm ==
    ASSUME CalmInv, QueryHeals, NEW c \in Callers, c \in Asking,
           \A d \in Callers \ {c} : query'[d] = query[d],
           UNCHANGED disturbed,
           c \notin disturbed =>
               query'[c].pc # "failed" /\ up' /\ (query'[c].pc \notin Rest => CalmOK(c)')
    PROVE  CalmInv' /\ QueryHeals'
<1>1. ASSUME NEW d \in (Asking \ disturbed)' PROVE up' /\ Asking' = {d} /\ CalmOK(d)'
  <2>1. d \in Callers /\ d \notin disturbed /\ query'[d].pc \notin Rest BY <1>1 DEF Asking
  <2>2. d = c
    <3>1. d # c => d \in Asking \ disturbed BY <2>1 DEF Asking
    <3>2. d # c => Asking = {d} BY <3>1 DEF CalmInv
    <3>3. QED BY <3>2
  <2>3. Asking = {c} BY <2>1, <2>2 DEF CalmInv, Asking
  <2>4. Asking' = {c} BY <2>1, <2>2, <2>3 DEF Asking
  <2>5. QED BY <2>1, <2>2, <2>4
<1>2. ASSUME NEW d \in Callers, query'[d].pc = "failed" PROVE d \in disturbed'
  BY <1>2 DEF QueryHeals, AtQuery
<1>3. QED BY <1>1, <1>2 DEF CalmInv, QueryHeals, AtQuery

\* A query goes on to a step, as it is.
LEMMA CalmGoes ==
    ASSUME PasswordInv, NEW c \in Callers, NEW pc, GoOn(c, pc)
    PROVE  /\ query'[c].pc = pc /\ \A d \in Callers \ {c} : query'[d] = query[d]
           /\ query'[c].token = query[c].token /\ query'[c].attempt = query[c].attempt
           /\ query'[c].rejected = query[c].rejected /\ query'[c].password = query[c].password
BY DEF GoOn, PasswordInv, TokenTypeOK, Queries

LEMMA CalmStep ==
    ASSUME PasswordInv, CalmInv, QueryHeals, NEW c \in Callers, Step(c)
    PROVE  CalmInv' /\ QueryHeals'
<1>0. /\ query \in [Callers -> Queries] /\ query[c] \in Queries /\ fresh \in Nat /\ file \in Nat
      /\ \A t \in valid : t # 0 /\ t < fresh
  BY DEF PasswordInv, TokenTypeOK
<1>1. /\ query[c].pc \notin Rest => (query[c].attempt = 2 <=> query[c].rejected # 0)
      /\ query[c].pc = "forget" => query[c].attempt = 1
      /\ query[c].attempt \in 1 .. 2
  BY <1>0 DEF PasswordInv, AtQuery, Queries
<1>2. query[c].pc \notin Rest /\ UNCHANGED <<disturbed, up>>
  BY DEF Step, ReadCache, ReadFile, AdoptFileToken, ProbeToken, ResetPassword, Login,
         GenerateToken, SaveToken, SendRequest, ForgetToken, AtQuery, Rest, kanidmVars
<1>3. c \in Asking BY <1>2 DEF Asking
<1>4. c \notin disturbed => up /\ CalmOK(c) BY <1>3 DEF CalmInv
<1> DEFINE Good == /\ \A d \in Callers \ {c} : query'[d] = query[d]
                   /\ c \notin disturbed =>
                        /\ query'[c].pc # "failed"
                        /\ query'[c].pc \notin Rest => CalmOK(c)'
<1>5. ASSUME ReadCache(c) PROVE Good
  <2>1. query[c].pc = "get" BY <1>5 DEF ReadCache, AtQuery
  <2>2. CASE cached # 0
    <3>1. query' = [query EXCEPT ![c].pc = "send", ![c].token = cached]
      BY <1>5, <2>2 DEF ReadCache
    <3>2. /\ query'[c].pc = "send" /\ query'[c].attempt = query[c].attempt
          /\ \A d \in Callers \ {c} : query'[d] = query[d]
      BY <1>0, <3>1 DEF Queries
    <3>3. QED BY <1>4, <2>1, <3>2 DEF CalmOK, Inside
  <2>3. CASE cached = 0
    <3>1. GoOn(c, "file") /\ UNCHANGED cached BY <1>5, <2>3 DEF ReadCache
    <3>2. /\ query'[c].pc = "file" /\ query'[c].attempt = query[c].attempt
          /\ \A d \in Callers \ {c} : query'[d] = query[d]
      BY <3>1, CalmGoes
    <3>3. QED BY <1>4, <2>1, <2>3, <3>1, <3>2 DEF CalmOK, Inside
  <2>4. QED BY <2>2, <2>3
<1>6. ASSUME ReadFile(c) PROVE Good
  <2>1. query[c].pc = "file" /\ UNCHANGED <<cached, file, valid>>
    BY <1>6 DEF ReadFile, AtQuery, kanidmVars
  <2>2. CASE file # 0
    <3>1. query' = [query EXCEPT ![c].pc = "adopt", ![c].token = file]
      BY <1>6, <2>2 DEF ReadFile
    <3>2. /\ query'[c].pc = "adopt" /\ query'[c].attempt = query[c].attempt
          /\ query'[c].rejected = query[c].rejected /\ query'[c].token = file
          /\ \A d \in Callers \ {c} : query'[d] = query[d]
      BY <1>0, <3>1 DEF Queries
    <3>3. QED BY <1>4, <2>1, <3>2 DEF CalmOK, Inside
  <2>3. CASE file = 0
    <3>1. GoOn(c, "reset") BY <1>6, <2>3 DEF ReadFile
    <3>2. query'[c].pc = "reset" /\ \A d \in Callers \ {c} : query'[d] = query[d]
      BY <3>1, CalmGoes
    <3>3. QED BY <1>0, <1>4, <2>1, <2>3, <3>2 DEF CalmOK, Inside
  <2>4. QED BY <2>2, <2>3
<1>7. ASSUME AdoptFileToken(c) PROVE Good
  <2>1. /\ query[c].pc = "adopt" /\ UNCHANGED <<file, valid>> /\ cached' = query[c].token
        /\ GoOn(c, IF query[c].rejected = 0 THEN "send"
                   ELSE IF query[c].token # query[c].rejected THEN "probe" ELSE "reset")
    BY <1>7 DEF AdoptFileToken, AtQuery, kanidmVars
  <2>2. /\ query'[c].pc = (IF query[c].rejected = 0 THEN "send"
                           ELSE IF query[c].token # query[c].rejected THEN "probe" ELSE "reset")
        /\ query'[c].attempt = query[c].attempt /\ query'[c].token = query[c].token
        /\ \A d \in Callers \ {c} : query'[d] = query[d]
    BY <2>1, CalmGoes
  <2>3. query[c].attempt = 2 <=> query[c].rejected # 0 BY <1>1, <1>2
  <2>4. c \notin disturbed => query[c].token = file /\ (query[c].attempt = 2 => query[c].rejected \notin valid)
    BY <1>4, <2>1 DEF CalmOK
  <2>5. QED BY <2>1, <2>2, <2>3, <2>4 DEF CalmOK, Inside
<1>8. ASSUME ProbeToken(c) PROVE Good
  <2>1. /\ query[c].pc = "probe" /\ UNCHANGED <<cached, file, valid>>
        /\ GoOn(c, IF up /\ query[c].token \in valid THEN "send" ELSE "reset")
    BY <1>8 DEF ProbeToken, AtQuery, kanidmVars
  <2>2. /\ query'[c].pc = (IF up /\ query[c].token \in valid THEN "send" ELSE "reset")
        /\ query'[c].token = query[c].token
        /\ \A d \in Callers \ {c} : query'[d] = query[d]
    BY <2>1, CalmGoes
  <2>3. c \notin disturbed => up /\ query[c].token = file /\ cached = file BY <1>4, <2>1 DEF CalmOK
  <2>4. QED BY <2>1, <2>2, <2>3 DEF CalmOK, Inside
<1>9. ASSUME ResetPassword(c) PROVE Good
  <2>1. /\ environ' = fresh /\ password' = fresh
        /\ query' = [query EXCEPT ![c].pc = "login", ![c].password = fresh, ![c].old = environ]
    BY <1>9 DEF ResetPassword
  <2>2. /\ query'[c].pc = "login" /\ query'[c].password = fresh
        /\ \A d \in Callers \ {c} : query'[d] = query[d]
    BY <1>0, <2>1 DEF Queries
  <2>3. fresh # 0 BY <1>0 DEF PasswordInv
  <2>4. QED BY <2>1, <2>2, <2>3 DEF CalmOK, Inside
<1>10. ASSUME Login(c) PROVE Good
  <2>1. query[c].pc = "login" BY <1>10 DEF Login, AtQuery
  <2>2. CASE query[c].password = password
    <3>1. GoOn(c, "generate") /\ UNCHANGED environ BY <1>10, <2>2 DEF Login
    <3>2. query'[c].pc = "generate" /\ \A d \in Callers \ {c} : query'[d] = query[d]
      BY <3>1, CalmGoes
    <3>3. c \notin disturbed => environ # 0 BY <1>4, <2>1 DEF CalmOK, Inside
    <3>4. QED BY <3>1, <3>2, <3>3 DEF CalmOK, Inside
  <2>3. CASE query[c].password # password
    <3>1. c \in disturbed BY <1>4, <2>1, <2>3 DEF CalmOK
    <3>2. GoOn(c, "failed") BY <1>10, <2>3 DEF Login
    <3>3. QED BY <3>1, <3>2, CalmGoes
  <2>4. QED BY <2>2, <2>3
<1>11. ASSUME GenerateToken(c) PROVE Good
  <2>1. /\ query[c].pc = "generate" /\ valid' = valid \cup {fresh}
        /\ query' = [query EXCEPT ![c].pc = IF environ = 0 THEN "failed" ELSE "save",
                                  ![c].token = fresh]
    BY <1>11 DEF GenerateToken, AtQuery
  <2>2. /\ query'[c].pc = (IF environ = 0 THEN "failed" ELSE "save") /\ query'[c].token = fresh
        /\ \A d \in Callers \ {c} : query'[d] = query[d]
    BY <1>0, <2>1 DEF Queries
  <2>3. c \notin disturbed => environ # 0 BY <1>4, <2>1 DEF CalmOK, Inside
  <2>4. c \notin disturbed => query'[c].pc = "save" /\ query'[c].token \in valid'
    BY <2>1, <2>2, <2>3
  <2>5. QED BY <2>2, <2>4 DEF CalmOK, Inside
<1>12. ASSUME SaveToken(c) PROVE Good
  <2>1. query[c].pc = "save" /\ GoOn(c, "send") /\ UNCHANGED valid
    BY <1>12 DEF SaveToken, AtQuery, kanidmVars
  <2>2. /\ query'[c].pc = "send" /\ query'[c].token = query[c].token
        /\ \A d \in Callers \ {c} : query'[d] = query[d]
    BY <2>1, CalmGoes
  <2>3. QED BY <1>4, <2>1, <2>2 DEF CalmOK, Inside
<1>13. ASSUME SendRequest(c) PROVE Good
  <2> DEFINE to == IF ~up THEN "failed"
                   ELSE IF ~Rejected(c) THEN "idle"
                   ELSE IF query[c].attempt = 1 THEN "forget" ELSE "failed"
  <2>1. query[c].pc = "send" /\ GoOn(c, to) /\ UNCHANGED valid
    BY <1>13 DEF SendRequest, AtQuery, kanidmVars
  <2>2. c \notin disturbed => up /\ (query[c].attempt = 2 => ~Rejected(c))
    BY <1>4, <2>1 DEF CalmOK, Rejected
  <2>3. c \notin disturbed => to \in {"idle", "forget"} /\ (to = "forget" => Rejected(c))
    BY <1>1, <2>2
  <2> HIDE DEF to
  <2>4. /\ query'[c].pc = to /\ query'[c].token = query[c].token
        /\ \A d \in Callers \ {c} : query'[d] = query[d]
    BY <2>1, CalmGoes
  <2>5. QED BY <2>1, <2>3, <2>4 DEF CalmOK, Inside, Rejected, Rest
<1>14. ASSUME ForgetToken(c) PROVE Good
  <2>1. /\ query[c].pc = "forget" /\ cached' = 0 /\ UNCHANGED valid
        /\ query' = [query EXCEPT ![c].pc = "file", ![c].attempt = 2,
                                  ![c].rejected = query[c].token]
    BY <1>14 DEF ForgetToken, AtQuery, kanidmVars
  <2>2. /\ query'[c].pc = "file" /\ query'[c].rejected = query[c].token
        /\ \A d \in Callers \ {c} : query'[d] = query[d]
    BY <1>0, <2>1 DEF Queries
  <2>3. c \notin disturbed => query'[c].rejected \notin valid' BY <1>4, <2>1, <2>2 DEF CalmOK
  <2>4. QED BY <2>1, <2>2, <2>3 DEF CalmOK, Inside
<1>15. Good
  BY <1>5, <1>6, <1>7, <1>8, <1>9, <1>10, <1>11, <1>12, <1>13, <1>14 DEF Step
<1>16. QED BY <1>2, <1>3, <1>4, <1>15, OneCalm

\* A fault disturbs whatever query is under way.
LEMMA FaultCalms ==
    ASSUME PasswordInv, CalmInv, QueryHeals, Fault,
           \A c \in Callers : query'[c] = query[c] \/ query'[c] = NoQuery
                             \/ (c \in Asking /\ query'[c].pc = "failed")
    PROVE  CalmInv' /\ QueryHeals'
<1>1. disturbed' = disturbed \cup Asking BY DEF Fault
<1>2. ASSUME NEW c \in Callers, c \notin disturbed'
      PROVE  query'[c].pc \in Rest /\ query'[c].pc # "failed"
  <2>1. c \notin Asking /\ c \notin disturbed BY <1>1, <1>2
  <2>2. query[c].pc \in Rest BY <2>1 DEF Asking
  <2>3. query[c].pc # "failed" BY <2>1 DEF QueryHeals, AtQuery
  <2>4. NoQuery.pc = "idle" /\ "idle" \in Rest BY DEF NoQuery, Rest
  <2>5. QED BY <2>1, <2>2, <2>3, <2>4
<1>3. QED BY <1>2 DEF CalmInv, QueryHeals, Asking, AtQuery

LEMMA CalmInit == TokenInit => CalmInv /\ QueryHeals
<1> SUFFICES ASSUME TokenInit PROVE CalmInv /\ QueryHeals OBVIOUS
<1>1. \A c \in Callers : query[c].pc = "idle" BY DEF TokenInit, NoQuery
<1>2. QED BY <1>1 DEF CalmInv, QueryHeals, Asking, AtQuery, Rest

LEMMA CalmNext ==
    PasswordInv /\ CalmInv /\ QueryHeals /\ [TokenNext]_tokenVars => CalmInv' /\ QueryHeals'
<1> SUFFICES ASSUME PasswordInv, CalmInv, QueryHeals, [TokenNext]_tokenVars PROVE CalmInv' /\ QueryHeals'
  OBVIOUS
<1>0. query \in [Callers -> Queries] /\ disturbed \subseteq Callers BY DEF PasswordInv, TokenTypeOK
<1>1. ASSUME NEW c \in Callers, StartQuery(c) PROVE CalmInv' /\ QueryHeals'
  <2> DEFINE q == [NoQuery EXCEPT !.pc = "get"]
  <2>1. q.pc = "get" /\ q.attempt = 1 BY DEF NoQuery
  <2>2. query' = [query EXCEPT ![c] = q] BY <1>1 DEF StartQuery
  <2> HIDE DEF q
  <2>3. query'[c] = q /\ \A d \in Callers \ {c} : query'[d] = query[d] BY <1>0, <2>2
  <2>4. CASE Asking = {} /\ up
    <3>1. disturbed' = disturbed \ {c} /\ up' BY <1>1, <2>4 DEF StartQuery, kanidmVars
    <3>2. Asking' = {c} BY <2>1, <2>3, <2>4 DEF Asking, Rest
    <3>3. CalmOK(c)' BY <2>1, <2>3 DEF CalmOK, Inside
    <3>4. QueryHeals' BY <2>1, <2>3, <3>1 DEF QueryHeals, AtQuery
    <3>5. QED BY <3>1, <3>2, <3>3, <3>4 DEF CalmInv
  <2>5. CASE ~(Asking = {} /\ up)
    <3>1. disturbed' = disturbed \cup Asking \cup {c} BY <1>1, <2>5 DEF StartQuery
    <3>2. Asking' \subseteq disturbed' BY <2>3, <3>1 DEF Asking
    <3>3. QueryHeals' BY <2>1, <2>3, <3>1 DEF QueryHeals, AtQuery
    <3>4. QED BY <3>2, <3>3 DEF CalmInv
  <2>6. QED BY <2>4, <2>5
<1>2. ASSUME NEW c \in Callers, CommandFails(c) PROVE CalmInv' /\ QueryHeals'
  <2>1. Fault /\ GoOn(c, "failed") /\ query[c].pc \in {"reset", "login", "generate"}
    BY <1>2 DEF CommandFails
  <2>2. c \in Asking BY <2>1 DEF Asking, Rest
  <2>3. QED BY <2>1, <2>2, CalmGoes, FaultCalms
<1>3. CASE TokenRevoked \/ FileRotated \/ KanidmStops
  <2>1. Fault /\ query' = query BY <1>3 DEF TokenRevoked, FileRotated, KanidmStops
  <2>2. QED BY <2>1, FaultCalms
<1>4. CASE KanidmStarts
  <2>1. ~up /\ UNCHANGED <<query, disturbed>> BY <1>4 DEF KanidmStarts
  <2>2. Asking \subseteq disturbed BY <2>1 DEF CalmInv
  <2>3. QED BY <2>1, <2>2 DEF CalmInv, QueryHeals, Asking, AtQuery
<1>5. CASE ApiRestarts
  <2>1. Fault /\ query' = [c \in Callers |-> NoQuery] BY <1>5 DEF ApiRestarts
  <2>2. QED BY <2>1, FaultCalms
<1>6. CASE UNCHANGED tokenVars
  <2>1. UNCHANGED <<query, disturbed, up, cached, file, valid, environ, password>>
    BY <1>6 DEF tokenVars, kanidmVars
  <2>2. QED BY <2>1 DEF CalmInv, QueryHeals, Asking, AtQuery, CalmOK, Inside
<1>7. QED BY <1>1, <1>2, <1>3, <1>4, <1>5, <1>6, CalmStep DEF TokenNext

\* For any number of queries and faults: tokens, passwords and queries keep their
\* shape, and a query that is alone knows what the tokens are worth (_send_query).
THEOREM KanidmInvariance == TokenSpec => []KanidmInv
<1>1. TokenInit => CalmInv /\ QueryHeals BY CalmInit
<1>2. PasswordInv /\ CalmInv /\ QueryHeals /\ [TokenNext]_tokenVars => CalmInv' /\ QueryHeals'
  BY CalmNext
<1>3. TokenSpec => [](CalmInv /\ QueryHeals) BY <1>1, <1>2, PasswordInvariance, PTL DEF TokenSpec
<1>4. PasswordInv /\ CalmInv /\ QueryHeals => KanidmInv BY DEF KanidmInv
<1>5. QED BY <1>3, <1>4, PasswordInvariance, PTL

\* Whatever the token in Redis and the token in the file are worth, a query that
\* overlaps no other and meets no fault is answered (_send_query,
\* KanidmAdminToken.get).
THEOREM QueryHealsHolds == TokenSpec => []QueryHeals
<1>1. KanidmInv => QueryHeals BY DEF KanidmInv
<1>2. QED BY <1>1, KanidmInvariance, PTL

\* A query that is alone resets the password only when neither the cache nor the file
\* has a token that Kanidm accepts (KanidmAdminToken).
THEOREM ResetIsLastResortHolds == TokenSpec => []ResetIsLastResort
<1>1. KanidmInv => ResetIsLastResort
  <2> SUFFICES ASSUME CalmInv, NEW c \in Callers, AtQuery(c, "reset"), c \notin disturbed
               PROVE  valid \cap {cached, file} = {}
    BY DEF KanidmInv, ResetIsLastResort
  <2>1. c \in Asking \ disturbed BY DEF Asking, AtQuery, Rest
  <2>2. CalmOK(c) BY <2>1 DEF CalmInv
  <2>3. QED BY <2>2 DEF CalmOK, AtQuery
<1>2. QED BY <1>1, KanidmInvariance, PTL
=============================================================================
