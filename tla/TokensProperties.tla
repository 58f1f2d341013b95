-------------------------- MODULE TokensProperties --------------------------
(* What the tokens and keys promise.                                         *)
EXTENDS Tokens

(* The key for a new device is for one device: once a request that used it   *)
(* has been answered, the key is gone and stays gone, whatever other         *)
(* requests store or delete meanwhile (use_mnemonic_new_device_key: "New     *)
(* device auth token must be deleted", actions/api_tokens.py:170).           *)
UsedDeviceKeyIsGone == device.key \notin used

(* The shape of the state: the types, every number given out is below the    *)
(* next one, the steps of a request are those of its operation, and the key  *)
(* for a new device is used once (abstract_tokens_repository.py).            *)
KeysInv ==
    /\ TypeOK
    /\ device.key < next /\ recovery.key < next
    /\ \A n \in DOMAIN tokens : tokens[n] < next
    /\ \A k \in used : k # 0 /\ k < next
    /\ \A c \in Clients :
          /\ req[c].key < next /\ req[c].since =< next
          /\ req[c].op = "authorize" /\ req[c].pc # "idle" => req[c].key # 0
          /\ req[c].pc = "renew" => req[c].op = "refresh"
          /\ req[c].pc = "name" => req[c].op \in {"recover", "authorize"}
    /\ UsedDeviceKeyIsGone

\* The steps that only the use of a recovery key has, those after its token was
\* stored, and all of them.
Late         == {"still_valid", "uses", "decrement"}
RecoverSteps == {"valid", "key", "name", "store"} \cup Late

\* A request that uses the recovery key has a key, and takes its steps only; one
\* that asks for a new one limits it as it may.
RecoverOK(r) ==
    /\ r.op = "new_recovery" => r.uses \in Limits \cup {Unlimited}
    /\ r.pc \in Late \cup {"valid"} => r.op = "recover"
    /\ r.op = "recover" /\ r.pc # "idle" => r.key # 0 /\ r.pc \in RecoverSteps

InForce == recovery.limited /\ ~IsPast(recovery.expires)

\* What a request that uses the recovery key, alone, knows of it.
Knows(r) ==
    /\ r.pc \in {"name", "store"} \cup Late => r.key = recovery.key
    /\ r.pc \in {"key", "name", "store"} /\ recovery.limited => recovery.uses > 0
    /\ r.pc = "decrement" => recovery.limited /\ r.uses = recovery.uses

\* The requests that use the recovery key, one after the other, count its uses:
\* the one under way has its token before the use is written down.
CountedInv ==
    /\ \A c \in Clients : RecoverOK(req[c])
    /\ ~contended =>
          /\ \A c, d \in Busy("recover") : c = d
          /\ \A c \in Busy("recover") : Knows(req[c])
          /\ InForce =>
                /\ issued =< granted
                /\ recovery.uses = granted - issued
                     + IF \E c \in Busy("recover") : req[c].pc \in Late THEN 1 ELSE 0

(* The invariant: a key for a new device is used once, and the uses of the   *)
(* recovery key are counted.                                                 *)
TokensInv == KeysInv /\ CountedInv

(* A device keeps access: its name keeps a token through refreshes, of which *)
(* several may race, until the name is deleted on request.  Only a refresh   *)
(* that is between its delete and its store, or was broken off there by a    *)
(* restart, leaves the name without one (refresh_token).                     *)
KnownDevicesKeepToken ==
    known \subseteq DOMAIN tokens \cup lost
                      \cup {req[c].name : c \in {d \in Clients : At(d, "renew")}}

(* A new device takes the name of another only if that one's token was       *)
(* stored after the check that found the name free: requests that do not     *)
(* overlap get different names (_make_unique_device_name).                   *)
TakenNameIsNewer ==
    \A c \in Clients :
        At(c, "store") /\ req[c].name \in DOMAIN tokens
            => tokens[req[c].name] >= req[c].since

UsesMatch == recovery.uses = granted - issued /\ issued =< granted

\* The recovery key is in force, is limited, and nobody is using it.
Settled == Busy("recover") = {} /\ InForce

(* A recovery key that is limited to some uses gives that many tokens and no *)
(* more, as long as the requests that use it come one after the other and    *)
(* none is broken off by a restart (_decrement_recovery_token).              *)
UsesCountedAlone == Settled /\ ~contended => UsesMatch
=============================================================================
