------------------------------- MODULE Tokens -------------------------------
(***************************************************************************)
(* The tokens of devices, the recovery key and the key for a new device    *)
(* (repositories/tokens, actions/api_tokens.py, api_mutations.py).         *)
(*                                                                         *)
(* The API is one process with one event loop: a request runs alone from   *)
(* one command to Redis to the next, and other requests run while it       *)
(* waits.  One action is one command with what follows it up to the next.  *)
(* get_tokens, a scan and a pipeline, is one read: each caller looks up    *)
(* one token or one name in it, and what it finds is what a single read at *)
(* the first or at the second of the two would find.                       *)
(*                                                                         *)
(* A token is kept under the hash of its device's name, so the table is a  *)
(* function from names to tokens.  Tokens and keys are numbered as they    *)
(* are generated; a mnemonic phrase is the number of the key it spells.    *)
(***************************************************************************)
EXTENDS Integers, Sequences, Functions

CONSTANTS
    Clients,      \* how many requests may be under way at once
    Devices,      \* names that devices ask for, cleaned of odd characters
    Digits,       \* what a name that is taken is extended with
    Limits,       \* how many uses a recovery key may be limited to
    KeyLife,      \* how long the key for a new device is valid
    MaxClock, MaxRequests, MaxRestarts   \* bounds

ASSUME TokensAssumption ==
    /\ Devices # {} /\ Limits \subseteq Nat /\ KeyLife \in Nat
    /\ MaxClock \in Nat /\ MaxRequests \in Nat /\ MaxRestarts \in Nat

VARIABLES
    tokens,       \* Redis: the token of each device, by its name
    recovery,     \* Redis: the recovery key
    device,       \* Redis: the key for a new device
    req,          \* for each client, its request under way
    next,         \* the next number for a token or a key
    clock, requests, restarts,
    used,         \* history: keys for a new device, used with success
    known,        \* history: names that had a token and were not deleted
    lost,         \* history: names whose refresh a restart broke off
    granted,      \* history: the uses the recovery key was given
    issued,       \* history: tokens issued for the recovery key in force
    contended     \* history: requests met, or broke off, over that key

storeVars == <<tokens, recovery, device>>
countVars == <<clock, requests, restarts>>
keyVars   == <<granted, issued, contended>>
histVars  == <<used, known, lost, keyVars>>
vars == <<storeVars, req, next, countVars, histVars>>

-----------------------------------------------------------------------------
(* Tokens and keys                                                         *)

Names == [device : Devices, digits : Seq(Digits)]
Never == MaxClock + 1
Unlimited == -1

\* Key 0 is no key.
RecoveryKeys == [key : Nat, expires : Nat, limited : BOOLEAN, uses : Int]
DeviceKeys   == [key : Nat, expires : Nat]
NoRecovery   == [key |-> 0, expires |-> 0, limited |-> FALSE, uses |-> 0]
NoDevice     == [key |-> 0, expires |-> 0]

\* is_past is strict: a key is still good at the moment it expires.
IsPast(expires) == expires < clock

\* Variant: a key is good for one use more than it was given.
RecoveryValidOnceMore ==
    /\ recovery.key # 0
    /\ ~IsPast(recovery.expires)
    /\ recovery.limited => recovery.uses >= 0

RecoveryValid ==
    /\ recovery.key # 0
    /\ ~IsPast(recovery.expires)
    /\ recovery.limited => recovery.uses > 0

DeviceValid == device.key # 0 /\ ~IsPast(device.expires)

\* is_token_valid, and the search for one token in get_tokens.
HasToken(id) == id \in Range(tokens)

Ops == {"recover", "authorize", "refresh", "delete", "new_recovery",
        "new_device", "invalidate"}
Pcs == {"idle", "auth", "valid", "key", "name", "store", "still_valid",
        "uses", "decrement", "drop", "get", "listed", "find", "remove",
        "renew", "pair", "exists", "generate"}

Requests == [op : Ops, pc : Pcs, token : Nat, key : Nat, name : Names,
             uses : Int, since : Nat]

NoName == [device |-> CHOOSE d \in Devices : TRUE, digits |-> <<>>]
Idle   == [op |-> "recover", pc |-> "idle", token |-> 0, key |-> 0,
           name |-> NoName, uses |-> 0, since |-> 0]

TypeOK ==
    /\ DOMAIN tokens \subseteq Names /\ \A n \in DOMAIN tokens : tokens[n] \in Nat
    /\ recovery \in RecoveryKeys /\ device \in DeviceKeys
    /\ req \in [Clients -> Requests]
    /\ next \in Nat
    /\ clock \in Nat /\ requests \in Nat /\ restarts \in Nat
    /\ used \subseteq Nat /\ known \subseteq Names /\ lost \subseteq Names
    /\ granted \in Int /\ issued \in Nat /\ contended \in BOOLEAN

\* The migration has stored the token the server was installed with.
Init ==
    /\ tokens = [n \in {NoName} |-> 1]
    /\ recovery = NoRecovery /\ device = NoDevice
    /\ req = [c \in Clients |-> Idle]
    /\ next = 2
    /\ clock = 0 /\ requests = 0 /\ restarts = 0
    /\ used = {} /\ known = {NoName} /\ lost = {}
    /\ granted = 0 /\ issued = 0 /\ contended = FALSE

-----------------------------------------------------------------------------
(* Requests                                                                *)

Busy(op) == {c \in Clients : req[c].pc # "idle" /\ req[c].op = op}

Accept(c, r) ==
    /\ req[c].pc = "idle"
    /\ requests < MaxRequests /\ requests' = requests + 1
    /\ req' = [req EXCEPT ![c] = r]
    /\ UNCHANGED <<storeVars, next, clock, restarts, used, known, lost, granted,
                   issued>>

\* A request for which no permission is asked.
Anonymous(c, op, pc) ==
    \E k \in 1 .. next - 1, d \in Devices :
        Accept(c, [Idle EXCEPT !.op = op, !.pc = pc, !.key = k,
                               !.name = [device |-> d, digits |-> <<>>]])

\* A request of a device that has a token when it asks.
Authenticated(c, op, name, uses) ==
    /\ \E t \in Range(tokens) :
          Accept(c, [Idle EXCEPT !.op = op, !.pc = "auth", !.token = t,
                                 !.name = name, !.uses = uses])
    /\ UNCHANGED contended

UseRecoveryApiKey(c) ==
    /\ Anonymous(c, "recover", "valid")
    /\ contended' = (contended \/ Busy("recover") # {})

AuthorizeWithNewDeviceApiKey(c) ==
    Anonymous(c, "authorize", "key") /\ UNCHANGED contended

RefreshDeviceApiToken(c) == Authenticated(c, "refresh", NoName, 0)

DeleteDeviceApiToken(c) ==
    \E n \in known : Authenticated(c, "delete", n, 0)

GetNewRecoveryApiKey(c) ==
    \E u \in Limits \cup {Unlimited} : Authenticated(c, "new_recovery", NoName, u)

GetNewDeviceApiKey(c)        == Authenticated(c, "new_device", NoName, 0)
InvalidateNewDeviceApiKey(c) == Authenticated(c, "invalidate", NoName, 0)

At(c, pc) == req[c].pc = pc

\* The request is answered, with success or with an error.
Answer(c) == req' = [req EXCEPT ![c] = Idle]
GoTo(c, pc) == req' = [req EXCEPT ![c].pc = pc]

\* A step that only reads: it goes on, or it answers with an error.
Read(c, from, found, to) ==
    /\ At(c, from)
    /\ IF found THEN GoTo(c, to) ELSE Answer(c)
    /\ UNCHANGED <<storeVars, next, countVars, histVars>>

\* IsAuthenticated.
FirstStep == [refresh |-> "get", delete |-> "pair", new_recovery |-> "generate",
              new_device |-> "generate", invalidate |-> "drop"]

IsAuthenticated(c) ==
    /\ req[c].op \in DOMAIN FirstStep
    /\ Read(c, "auth", HasToken(req[c].token), FirstStep[req[c].op])

-----------------------------------------------------------------------------
(* create_token, refresh_token, delete_token                               *)

\* Variant: a name that was extended once is taken to be free.
MakeUniqueDeviceNameOnce(c) ==
    /\ At(c, "name")
    /\ IF req[c].name \in DOMAIN tokens
       THEN \E d \in Digits :
               req' = [req EXCEPT ![c].name.digits = Append(@, d),
                                  ![c].pc = "store", ![c].since = next]
       ELSE req' = [req EXCEPT ![c].pc = "store", ![c].since = next]
    /\ UNCHANGED <<storeVars, next, countVars, histVars>>

\* _make_unique_device_name: one round of its loop.  `since` is a history: no
\* token was under the name when the tokens below it were all there were.
MakeUniqueDeviceName(c) ==
    /\ At(c, "name")
    /\ IF req[c].name \in DOMAIN tokens
       THEN \E d \in Digits : req' = [req EXCEPT ![c].name.digits = Append(@, d)]
       ELSE req' = [req EXCEPT ![c].pc = "store", ![c].since = next]
    /\ UNCHANGED <<storeVars, next, countVars, histVars>>

\* The token of a device, whatever was stored under its name.
StoreUnder(name) ==
    /\ tokens' = [n \in DOMAIN tokens \cup {name} |->
                    IF n = name THEN next ELSE tokens[n]]
    /\ next' = next + 1

CreateToken(c) ==
    /\ At(c, "store")
    /\ StoreUnder(req[c].name)
    /\ known' = known \cup {req[c].name} /\ lost' = lost \ {req[c].name}
    /\ issued' = IF req[c].op = "recover" /\ req[c].key = recovery.key
                 THEN issued + 1 ELSE issued
    /\ GoTo(c, IF req[c].op = "recover" THEN "still_valid" ELSE "drop")
    /\ UNCHANGED <<recovery, device, countVars, used, granted, contended>>

\* get_token_by_token_string of refresh_api_token; then the check of
\* refresh_token that the token is still there.
GetOwnToken(c)   == req[c].op = "refresh" /\ Read(c, "get", HasToken(req[c].token), "listed")
CheckOwnToken(c) == Read(c, "listed", HasToken(req[c].token), "find")

\* _discover_token_key: the name the token is kept under.
DiscoverTokenKey(c) ==
    /\ At(c, "find")
    /\ IF HasToken(req[c].token)
       THEN \E n \in DOMAIN tokens :
               /\ tokens[n] = req[c].token
               /\ req' = [req EXCEPT ![c].pc = "remove", ![c].name = n]
       ELSE Answer(c)
    /\ UNCHANGED <<storeVars, next, countVars, histVars>>

\* Variant: the answer to a refresh is given once the old token is gone.
DeleteTokenAtOnce(c) ==
    /\ At(c, "remove")
    /\ tokens' = Restrict(tokens, DOMAIN tokens \ {req[c].name})
    /\ Answer(c)
    /\ known' = IF req[c].op = "delete" THEN known \ {req[c].name} ELSE known
    /\ UNCHANGED <<recovery, device, next, countVars, used, lost, keyVars>>

\* The key is deleted, whichever token is under it by now.
DeleteToken(c) ==
    /\ At(c, "remove")
    /\ tokens' = Restrict(tokens, DOMAIN tokens \ {req[c].name})
    /\ IF req[c].op = "refresh"
       THEN GoTo(c, "renew") /\ UNCHANGED known
       ELSE Answer(c) /\ known' = known \ {req[c].name}
    /\ UNCHANGED <<recovery, device, next, countVars, used, lost, keyVars>>

RefreshToken(c) ==
    /\ At(c, "renew")
    /\ StoreUnder(req[c].name)
    /\ known' = known \cup {req[c].name} /\ lost' = lost \ {req[c].name}
    /\ Answer(c)
    /\ UNCHANGED <<recovery, device, countVars, used, keyVars>>

-----------------------------------------------------------------------------
(* delete_api_token                                                        *)

\* A caller may not delete the token it calls with.
CheckNotCaller(c) ==
    /\ At(c, "pair")
    /\ Read(c, "pair",
            ~(req[c].name \in DOMAIN tokens /\ tokens[req[c].name] = req[c].token),
            "exists")

CheckNameExists(c) == Read(c, "exists", req[c].name \in DOMAIN tokens, "get")

GetTokenByName(c) ==
    /\ At(c, "get") /\ req[c].op = "delete"
    /\ IF req[c].name \in DOMAIN tokens
       THEN req' = [req EXCEPT ![c].pc = "find", ![c].token = tokens[req[c].name]]
       ELSE Answer(c)
    /\ UNCHANGED <<storeVars, next, countVars, histVars>>

-----------------------------------------------------------------------------
(* The key for a new device                                                *)

StoreNewDeviceKey(c) ==
    /\ At(c, "generate") /\ req[c].op = "new_device"
    /\ device' = [key |-> next, expires |-> clock + KeyLife]
    /\ next' = next + 1
    /\ Answer(c)
    /\ UNCHANGED <<tokens, recovery, countVars, histVars>>

CheckNewDeviceKey(c) ==
    /\ req[c].op = "authorize"
    /\ Read(c, "key", DeviceValid /\ device.key = req[c].key, "name")

\* Variant: a key that was used stays until it is invalidated.
DeleteInvalidatedKey(c) ==
    /\ At(c, "drop")
    /\ device' = IF req[c].op = "invalidate" THEN NoDevice ELSE device
    /\ used' = IF req[c].op = "authorize" THEN used \cup {req[c].key} ELSE used
    /\ Answer(c)
    /\ UNCHANGED <<tokens, recovery, next, countVars, known, lost, keyVars>>

\* Whichever key is stored by now is deleted.
DeleteNewDeviceKey(c) ==
    /\ At(c, "drop")
    /\ device' = NoDevice
    /\ used' = IF req[c].op = "authorize" THEN used \cup {req[c].key} ELSE used
    /\ Answer(c)
    /\ UNCHANGED <<tokens, recovery, next, countVars, known, lost, keyVars>>

-----------------------------------------------------------------------------
(* The recovery key                                                        *)

\* get_new_api_recovery_key refuses a date in the past and a limit below 1.
StoreRecoveryKey(c) ==
    /\ At(c, "generate") /\ req[c].op = "new_recovery"
    /\ IF req[c].uses # 0
       THEN /\ \E e \in clock .. Never :
                  recovery' = [key |-> next, expires |-> e,
                               limited |-> req[c].uses # Unlimited, uses |-> req[c].uses]
            /\ next' = next + 1 /\ granted' = req[c].uses /\ issued' = 0
            /\ contended' = (Busy("recover") # {})
       ELSE UNCHANGED <<recovery, next, keyVars>>
    /\ Answer(c)
    /\ UNCHANGED <<tokens, device, countVars, used, known, lost>>

CheckRecoveryKeyValid(c) == Read(c, "valid", RecoveryValid, "key")

CheckRecoveryKey(c) ==
    req[c].op = "recover" /\ Read(c, "key", recovery.key = req[c].key, "name")

\* _decrement_recovery_token reads the key twice, then writes.
CheckStillValid(c) == Read(c, "still_valid", RecoveryValid, "uses")

ReadUsesLeft(c) ==
    /\ At(c, "uses")
    /\ IF recovery.limited
       THEN req' = [req EXCEPT ![c].pc = "decrement", ![c].uses = recovery.uses]
       ELSE Answer(c)
    /\ UNCHANGED <<storeVars, next, countVars, histVars>>

WriteUsesLeft(c) ==
    /\ At(c, "decrement")
    /\ recovery' = [recovery EXCEPT !.limited = TRUE, !.uses = req[c].uses - 1]
    /\ Answer(c)
    /\ UNCHANGED <<tokens, device, next, countVars, histVars>>

-----------------------------------------------------------------------------

Tick ==
    /\ clock < MaxClock /\ clock' = clock + 1
    /\ UNCHANGED <<storeVars, req, next, requests, restarts, histVars>>

\* The API starts again: its requests are gone, Redis stays.
Restart ==
    /\ restarts < MaxRestarts /\ restarts' = restarts + 1
    /\ req' = [c \in Clients |-> Idle]
    /\ lost' = lost \cup ({req[c].name : c \in {d \in Clients : At(d, "renew")}}
                            \ DOMAIN tokens)
    /\ contended' = (contended \/ Busy("recover") # {})
    /\ UNCHANGED <<storeVars, next, clock, requests, used, known, granted, issued>>

Ask(c) ==
    \/ UseRecoveryApiKey(c)
    \/ AuthorizeWithNewDeviceApiKey(c)
    \/ RefreshDeviceApiToken(c)
    \/ DeleteDeviceApiToken(c)
    \/ GetNewRecoveryApiKey(c)
    \/ GetNewDeviceApiKey(c)
    \/ InvalidateNewDeviceApiKey(c)

Handle(c) ==
    \/ IsAuthenticated(c)
    \/ MakeUniqueDeviceName(c)
    \/ CreateToken(c)
    \/ GetOwnToken(c)
    \/ CheckOwnToken(c)
    \/ DiscoverTokenKey(c)
    \/ DeleteToken(c)
    \/ RefreshToken(c)
    \/ CheckNotCaller(c)
    \/ CheckNameExists(c)
    \/ GetTokenByName(c)
    \/ StoreNewDeviceKey(c)
    \/ CheckNewDeviceKey(c)
    \/ DeleteNewDeviceKey(c)
    \/ StoreRecoveryKey(c)
    \/ CheckRecoveryKeyValid(c)
    \/ CheckRecoveryKey(c)
    \/ CheckStillValid(c)
    \/ ReadUsesLeft(c)
    \/ WriteUsesLeft(c)

Next == (\E c \in Clients : Ask(c) \/ Handle(c)) \/ Tick \/ Restart

Spec == Init /\ [][Next]_vars
=============================================================================
