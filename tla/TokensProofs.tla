---------------------------- MODULE TokensProofs ----------------------------
(***************************************************************************)
(* The invariant of Tokens is inductive: whatever the clients, devices and *)
(* bounds, the key for a new device is gone once it was used, devices keep *)
(* access, and the uses of a recovery key are counted while its requests   *)
(* do not meet.                                                            *)
(***************************************************************************)
EXTENDS TokensProperties, TLAPS

\* What the invariant says of a request, when n is the next number.
RequestOK(r, n) ==
    /\ r \in Requests
    /\ r.key < n /\ r.since =< n
    /\ r.op = "authorize" /\ r.pc # "idle" => r.key # 0
    /\ r.pc = "renew" => r.op = "refresh"
    /\ r.pc = "name" => r.op \in {"recover", "authorize"}

\* What it says of the tokens and keys.
StoresOK ==
    /\ DOMAIN tokens \subseteq Names
    /\ \A n \in DOMAIN tokens : tokens[n] \in Nat /\ tokens[n] < next
    /\ recovery \in RecoveryKeys /\ recovery.key < next
    /\ device \in DeviceKeys /\ device.key < next
    /\ next \in Nat /\ next > 0

HistoryOK ==
    /\ used \subseteq Nat /\ \A k \in used : k # 0 /\ k < next
    /\ known \subseteq Names /\ lost \subseteq Names
    /\ granted \in Int /\ issued \in Nat /\ contended \in BOOLEAN
    /\ device.key \notin used

CountsOK == clock \in Nat /\ requests \in Nat /\ restarts \in Nat

RequestsOK == /\ req \in [Clients -> Requests]
              /\ \A c \in Clients : RequestOK(req[c], next)

\* The invariant in these four parts.
LEMMA Parts == KeysInv <=> StoresOK /\ HistoryOK /\ CountsOK /\ RequestsOK
<1>1. KeysInv => next > 0
  BY DEF KeysInv, TypeOK, DeviceKeys
<1>2. QED
  BY <1>1 DEF KeysInv, TypeOK, UsedDeviceKeyIsGone, StoresOK, HistoryOK, CountsOK,
              RequestsOK, RequestOK

LEMMA PartsNext == KeysInv' <=> StoresOK' /\ HistoryOK' /\ CountsOK' /\ RequestsOK'
BY Parts, PTL

LEMMA NoNameIsName == NoName \in Names
BY TokensAssumption DEF NoName, Names

LEMMA IdleOK == ASSUME NEW n \in Nat, n > 0 PROVE RequestOK(Idle, n)
BY NoNameIsName DEF Idle, RequestOK, Requests, Ops, Pcs

\* A step of one request leaves the others as they were.
LEMMA OneRequest ==
    ASSUME RequestsOK, NEW c \in Clients, NEW r,
           next \in Nat, next' \in Nat, next' >= next,
           req' = [req EXCEPT ![c] = r], RequestOK(r, next')
    PROVE  RequestsOK'
<1>1. ASSUME NEW d \in Clients PROVE RequestOK(req'[d], next')
  <2>1. CASE d = c BY <2>1 DEF RequestsOK
  <2>2. CASE d # c
    <3>1. req'[d] = req[d] /\ RequestOK(req[d], next) BY <2>2 DEF RequestsOK
    <3>2. req[d].key \in Nat /\ req[d].since \in Nat BY DEF RequestsOK, Requests
    <3>3. QED BY <3>1, <3>2 DEF RequestOK
  <2>3. QED BY <2>1, <2>2
<1>2. req' \in [Clients -> Requests] BY <1>1 DEF RequestsOK, RequestOK
<1>3. QED BY <1>1, <1>2 DEF RequestsOK

\* A request that is answered, while numbers only grow.
LEMMA Answered ==
    ASSUME RequestsOK, NEW c \in Clients, next \in Nat, next > 0,
           next' \in Nat, next' >= next, Answer(c)
    PROVE  RequestsOK'
<1>1. RequestOK(Idle, next') BY IdleOK
<1>2. req' = [req EXCEPT ![c] = Idle] BY DEF Answer
<1>3. QED BY <1>1, <1>2, OneRequest

\* A request that goes on to a step that its operation has.
LEMMA GoesOn ==
    ASSUME RequestsOK, NEW c \in Clients, NEW to \in Pcs, next \in Nat,
           next' \in Nat, next' >= next,
           ~At(c, "idle"), GoTo(c, to),
           to = "renew" => req[c].op = "refresh",
           to = "name" => req[c].op \in {"recover", "authorize"}
    PROVE  RequestsOK'
<1> DEFINE r == [req[c] EXCEPT !.pc = to]
<1>1. req' = [req EXCEPT ![c] = r] BY DEF GoTo, RequestsOK
<1>2. req[c] \in Requests /\ RequestOK(req[c], next) BY DEF RequestsOK
<1>3. RequestOK(r, next') BY <1>2 DEF RequestOK, Requests, At
<1>4. QED BY <1>1, <1>3, OneRequest

\* Steps that leave the stores as they are.
LEMMA StoresStay ==
    ASSUME StoresOK, HistoryOK, CountsOK, UNCHANGED <<storeVars, next, countVars, histVars>>
    PROVE  StoresOK' /\ HistoryOK' /\ CountsOK'
BY DEF StoresOK, HistoryOK, CountsOK, storeVars, countVars, histVars, keyVars

\* A step that only reads.
LEMMA ReadKeeps ==
    ASSUME KeysInv, NEW c \in Clients, NEW from, NEW found \in BOOLEAN, NEW to \in Pcs,
           from # "idle", to # "renew",
           to = "name" => req[c].op \in {"recover", "authorize"},
           Read(c, from, found, to)
    PROVE  KeysInv'
<1>1. StoresOK /\ HistoryOK /\ CountsOK /\ RequestsOK BY Parts
<1>2. StoresOK' /\ HistoryOK' /\ CountsOK' BY <1>1, StoresStay DEF Read
<1>3. ~At(c, "idle") /\ next' = next BY DEF Read, At
<1>4. RequestsOK'
  <2>1. CASE found
    <3>1. GoTo(c, to) BY <2>1 DEF Read
    <3>2. QED BY <1>1, <1>3, <3>1, GoesOn DEF StoresOK
  <2>2. CASE ~found
    <3>1. Answer(c) BY <2>2 DEF Read
    <3>2. QED BY <1>1, <1>3, <3>1, Answered DEF StoresOK
  <2>3. QED BY <2>1, <2>2
<1>5. QED BY <1>2, <1>4, PartsNext

-----------------------------------------------------------------------------
(* Requests                                                                  *)

LEMMA AcceptKeeps ==
    ASSUME KeysInv, NEW c \in Clients, NEW r, RequestOK(r, next),
           Accept(c, r), contended' \in BOOLEAN
    PROVE  KeysInv'
<1>1. StoresOK /\ HistoryOK /\ CountsOK /\ RequestsOK BY Parts
<1>2. StoresOK' BY <1>1 DEF StoresOK, Accept, storeVars
<1>3. HistoryOK' BY <1>1 DEF HistoryOK, Accept, storeVars
<1>4. CountsOK' BY <1>1 DEF CountsOK, Accept
<1>5. RequestsOK'
  <2>1. next \in Nat /\ next' = next BY <1>1 DEF StoresOK, Accept
  <2>2. req' = [req EXCEPT ![c] = r] BY DEF Accept
  <2>3. RequestOK(r, next') /\ next' \in Nat /\ next' >= next BY <2>1
  <2>4. QED BY <1>1, <2>1, <2>2, <2>3, OneRequest
<1>6. QED BY <1>2, <1>3, <1>4, <1>5, PartsNext

LEMMA AnonymousKeeps ==
    ASSUME KeysInv, NEW c \in Clients, NEW op \in {"recover", "authorize"},
           NEW pc \in {"valid", "key"}, Anonymous(c, op, pc), contended' \in BOOLEAN
    PROVE  KeysInv'
<1>1. StoresOK BY Parts
<1>2. PICK k \in 1 .. next - 1, d \in Devices :
          Accept(c, [Idle EXCEPT !.op = op, !.pc = pc, !.key = k,
                                 !.name = [device |-> d, digits |-> <<>>]])
  BY DEF Anonymous
<1> DEFINE r == [Idle EXCEPT !.op = op, !.pc = pc, !.key = k,
                             !.name = [device |-> d, digits |-> <<>>]]
<1>3. [device |-> d, digits |-> <<>>] \in Names BY DEF Names
<1>4. Idle \in Requests /\ Idle.since = 0 BY <1>1, IdleOK DEF RequestOK, StoresOK, Idle
<1>5. op \in Ops /\ pc \in Pcs /\ k \in Nat BY <1>1 DEF StoresOK, Ops, Pcs
<1>6. r \in Requests /\ r.op = op /\ r.pc = pc /\ r.key = k /\ r.since = 0
  BY <1>3, <1>4, <1>5 DEF Requests
<1>7. RequestOK(r, next) BY <1>1, <1>6 DEF StoresOK, RequestOK
<1>8. QED BY <1>2, <1>7, AcceptKeeps

LEMMA AuthenticatedKeeps ==
    ASSUME KeysInv, NEW c \in Clients, NEW op \in Ops \ {"authorize"},
           NEW name \in Names, NEW uses \in Int, Authenticated(c, op, name, uses)
    PROVE  KeysInv'
<1>1. StoresOK /\ HistoryOK BY Parts
<1>2. PICK t \in Range(tokens) :
          Accept(c, [Idle EXCEPT !.op = op, !.pc = "auth", !.token = t,
                                 !.name = name, !.uses = uses])
  BY DEF Authenticated
<1> DEFINE r == [Idle EXCEPT !.op = op, !.pc = "auth", !.token = t,
                             !.name = name, !.uses = uses]
<1>3. t \in Nat BY <1>1 DEF Range, StoresOK
<1>4. Idle \in Requests /\ Idle.key = 0 /\ Idle.since = 0
  BY <1>1, IdleOK DEF RequestOK, StoresOK, Idle
<1>5. "auth" \in Pcs BY DEF Pcs
<1>6. r \in Requests /\ r.op = op /\ r.pc = "auth" /\ r.key = 0 /\ r.since = 0
  BY <1>3, <1>4, <1>5 DEF Requests
<1>7. RequestOK(r, next) BY <1>1, <1>6 DEF StoresOK, RequestOK
<1>8. contended' \in BOOLEAN BY <1>1 DEF Authenticated, HistoryOK
<1>9. QED BY <1>2, <1>7, <1>8, AcceptKeeps

LEMMA AskKeeps ==
    ASSUME KeysInv, NEW c \in Clients, Ask(c)
    PROVE  KeysInv'
<1>1. StoresOK /\ HistoryOK BY Parts
<1>2. NoName \in Names BY NoNameIsName
<1>3. CASE UseRecoveryApiKey(c)
  <2>1. contended' \in BOOLEAN BY <1>3 DEF UseRecoveryApiKey
  <2>2. QED BY <1>3, <2>1, AnonymousKeeps DEF UseRecoveryApiKey
<1>4. CASE AuthorizeWithNewDeviceApiKey(c)
  <2>1. contended' \in BOOLEAN BY <1>1, <1>4 DEF AuthorizeWithNewDeviceApiKey, HistoryOK
  <2>2. QED BY <1>4, <2>1, AnonymousKeeps DEF AuthorizeWithNewDeviceApiKey
<1>5. CASE RefreshDeviceApiToken(c)
  BY <1>2, <1>5, AuthenticatedKeeps DEF RefreshDeviceApiToken, Ops
<1>6. CASE DeleteDeviceApiToken(c)
  <2>1. PICK n \in known : Authenticated(c, "delete", n, 0) BY <1>6 DEF DeleteDeviceApiToken
  <2>2. n \in Names BY <1>1 DEF HistoryOK
  <2>3. QED BY <2>1, <2>2, AuthenticatedKeeps DEF Ops
<1>7. CASE GetNewRecoveryApiKey(c)
  <2>1. PICK u \in Limits \cup {Unlimited} : Authenticated(c, "new_recovery", NoName, u)
    BY <1>7 DEF GetNewRecoveryApiKey
  <2>2. u \in Int BY TokensAssumption DEF Unlimited
  <2>3. QED BY <1>2, <2>1, <2>2, AuthenticatedKeeps DEF Ops
<1>8. CASE GetNewDeviceApiKey(c)
  BY <1>2, <1>8, AuthenticatedKeeps DEF GetNewDeviceApiKey, Ops
<1>9. CASE InvalidateNewDeviceApiKey(c)
  BY <1>2, <1>9, AuthenticatedKeeps DEF InvalidateNewDeviceApiKey, Ops
<1>10. QED BY <1>3, <1>4, <1>5, <1>6, <1>7, <1>8, <1>9 DEF Ask

-----------------------------------------------------------------------------
(* The steps that only read                                                  *)

Reading(c) ==
    \/ IsAuthenticated(c) \/ GetOwnToken(c) \/ CheckOwnToken(c) \/ CheckNotCaller(c)
    \/ CheckNameExists(c) \/ CheckNewDeviceKey(c) \/ CheckRecoveryKeyValid(c)
    \/ CheckRecoveryKey(c) \/ CheckStillValid(c)

LEMMA ReadingKeeps ==
    ASSUME KeysInv, NEW c \in Clients, Reading(c)
    PROVE  KeysInv'
<1>0. /\ HasToken(req[c].token) \in BOOLEAN
      /\ (req[c].name \in DOMAIN tokens) \in BOOLEAN
  BY DEF HasToken
<1>1. CASE IsAuthenticated(c)
  <2>1. /\ FirstStep[req[c].op] \in Pcs
        /\ FirstStep[req[c].op] \notin {"renew", "name"}
    BY <1>1 DEF IsAuthenticated, FirstStep, Pcs
  <2>2. QED BY <1>0, <1>1, <2>1, ReadKeeps DEF IsAuthenticated
<1>2. CASE GetOwnToken(c) BY <1>0, <1>2, ReadKeeps DEF GetOwnToken, Pcs
<1>3. CASE CheckOwnToken(c) BY <1>0, <1>3, ReadKeeps DEF CheckOwnToken, Pcs
<1>4. CASE CheckNotCaller(c) BY <1>4, ReadKeeps DEF CheckNotCaller, Pcs
<1>5. CASE CheckNameExists(c) BY <1>0, <1>5, ReadKeeps DEF CheckNameExists, Pcs
<1>6. CASE CheckNewDeviceKey(c)
  BY <1>6, ReadKeeps DEF CheckNewDeviceKey, DeviceValid, Pcs
<1>7. CASE CheckRecoveryKeyValid(c)
  BY <1>7, ReadKeeps DEF CheckRecoveryKeyValid, RecoveryValid, Pcs
<1>8. CASE CheckRecoveryKey(c) BY <1>8, ReadKeeps DEF CheckRecoveryKey, Pcs
<1>9. CASE CheckStillValid(c)
  BY <1>9, ReadKeeps DEF CheckStillValid, RecoveryValid, Pcs
<1>10. QED
  BY <1>1, <1>2, <1>3, <1>4, <1>5, <1>6, <1>7, <1>8, <1>9 DEF Reading

-----------------------------------------------------------------------------
(* The steps that change the tokens                                          *)

\* A token is stored under a name.
LEMMA Stored ==
    ASSUME StoresOK, NEW name \in Names, StoreUnder(name), UNCHANGED <<recovery, device>>
    PROVE  StoresOK' /\ next' \in Nat /\ next' = next + 1
BY DEF StoresOK, StoreUnder, RecoveryKeys, DeviceKeys

LEMMA Grown ==
    ASSUME HistoryOK, next \in Nat, next' = next + 1, UNCHANGED <<device, used>>,
           known' \subseteq Names, lost' \subseteq Names, issued' \in Nat,
           UNCHANGED <<granted, contended>>
    PROVE  HistoryOK'
BY DEF HistoryOK

LEMMA CreateTokenKeeps ==
    ASSUME KeysInv, NEW c \in Clients, CreateToken(c)
    PROVE  KeysInv'
<1>1. StoresOK /\ HistoryOK /\ CountsOK /\ RequestsOK BY Parts
<1>2. req[c] \in Requests /\ req[c].name \in Names BY <1>1 DEF RequestsOK, Requests
<1>3. StoresOK' /\ next' \in Nat /\ next' = next + 1
  BY <1>1, <1>2, Stored DEF CreateToken
<1>4. HistoryOK'
  <2>1. known' \subseteq Names /\ lost' \subseteq Names /\ issued' \in Nat
    BY <1>1, <1>2 DEF HistoryOK, CreateToken
  <2>2. QED BY <1>1, <1>3, <2>1, Grown DEF CreateToken, StoresOK
<1>5. CountsOK' BY <1>1 DEF CountsOK, CreateToken, countVars
<1>6. RequestsOK'
  <2>1. ~At(c, "idle") /\ next' >= next /\ next \in Nat
    BY <1>1, <1>3 DEF CreateToken, At, StoresOK
  <2>2. CASE req[c].op = "recover"
    <3>1. GoTo(c, "still_valid") BY <2>2 DEF CreateToken
    <3>2. QED BY <1>1, <1>3, <2>1, <3>1, GoesOn DEF Pcs
  <2>3. CASE req[c].op # "recover"
    <3>1. GoTo(c, "drop") BY <2>3 DEF CreateToken
    <3>2. QED BY <1>1, <1>3, <2>1, <3>1, GoesOn DEF Pcs
  <2>4. QED BY <2>2, <2>3
<1>7. QED BY <1>3, <1>4, <1>5, <1>6, PartsNext

LEMMA RefreshTokenKeeps ==
    ASSUME KeysInv, NEW c \in Clients, RefreshToken(c)
    PROVE  KeysInv'
<1>1. StoresOK /\ HistoryOK /\ CountsOK /\ RequestsOK BY Parts
<1>2. req[c] \in Requests /\ req[c].name \in Names BY <1>1 DEF RequestsOK, Requests
<1>3. StoresOK' /\ next' \in Nat /\ next' = next + 1
  BY <1>1, <1>2, Stored DEF RefreshToken
<1>4. HistoryOK'
  <2>1. known' \subseteq Names /\ lost' \subseteq Names /\ issued' \in Nat
    BY <1>1, <1>2 DEF HistoryOK, RefreshToken, keyVars
  <2>2. QED BY <1>1, <1>3, <2>1, Grown DEF RefreshToken, StoresOK, keyVars
<1>5. CountsOK' BY <1>1 DEF CountsOK, RefreshToken, countVars
<1>6. RequestsOK'
  <2>1. next' >= next /\ next \in Nat /\ next > 0 BY <1>1, <1>3 DEF StoresOK
  <2>2. QED BY <1>1, <1>3, <2>1, Answered DEF RefreshToken
<1>7. QED BY <1>3, <1>4, <1>5, <1>6, PartsNext

LEMMA DeleteTokenKeeps ==
    ASSUME KeysInv, NEW c \in Clients, DeleteToken(c)
    PROVE  KeysInv'
<1>1. StoresOK /\ HistoryOK /\ CountsOK /\ RequestsOK BY Parts
<1>2. StoresOK'
  <2>1. /\ DOMAIN tokens' = DOMAIN tokens \ {req[c].name}
        /\ \A n \in DOMAIN tokens' : tokens'[n] = tokens[n]
    BY DEF DeleteToken, Restrict
  <2>2. UNCHANGED <<recovery, device, next>> BY DEF DeleteToken
  <2>3. QED BY <1>1, <2>1, <2>2 DEF StoresOK
<1>3. HistoryOK' BY <1>1 DEF HistoryOK, DeleteToken, keyVars
<1>4. CountsOK' BY <1>1 DEF CountsOK, DeleteToken, countVars
<1>5. RequestsOK'
  <2>1. ~At(c, "idle") /\ next' \in Nat /\ next' >= next /\ next \in Nat /\ next > 0
    BY <1>1 DEF DeleteToken, At, StoresOK
  <2>2. CASE req[c].op = "refresh"
    <3>1. GoTo(c, "renew") BY <2>2 DEF DeleteToken
    <3>2. QED BY <1>1, <2>1, <2>2, <3>1, GoesOn DEF Pcs
  <2>3. CASE req[c].op # "refresh"
    <3>1. Answer(c) BY <2>3 DEF DeleteToken
    <3>2. QED BY <1>1, <2>1, <3>1, Answered
  <2>4. QED BY <2>2, <2>3
<1>6. QED BY <1>2, <1>3, <1>4, <1>5, PartsNext

-----------------------------------------------------------------------------
(* The steps that only change the request                                    *)

\* A request whose name, token, uses or time of the check changes.
LEMMA RequestChanges ==
    ASSUME KeysInv, NEW c \in Clients, NEW r \in Requests,
           req' = [req EXCEPT ![c] = r], UNCHANGED <<storeVars, next, countVars, histVars>>,
           r.op = req[c].op, r.key = req[c].key, r.since =< next,
           r.pc # "renew", req[c].pc # "idle",
           r.pc = "name" => req[c].pc = "name"
    PROVE  KeysInv'
<1>1. StoresOK /\ HistoryOK /\ CountsOK /\ RequestsOK BY Parts
<1>2. RequestOK(req[c], next) BY <1>1 DEF RequestsOK
<1>3. RequestOK(r, next') BY <1>2 DEF RequestOK
<1>4. next \in Nat /\ next' \in Nat /\ next' >= next BY <1>1 DEF StoresOK
<1>5. RequestsOK' BY <1>1, <1>3, <1>4, OneRequest
<1>6. QED BY <1>1, <1>5, StoresStay, PartsNext

LEMMA MakeUniqueDeviceNameKeeps ==
    ASSUME KeysInv, NEW c \in Clients, MakeUniqueDeviceName(c)
    PROVE  KeysInv'
<1>1. StoresOK /\ RequestsOK BY Parts
<1>2. req[c] \in Requests /\ req[c].pc = "name" /\ req[c].since =< next
  BY <1>1 DEF RequestsOK, RequestOK, MakeUniqueDeviceName, At
<1>3. UNCHANGED <<storeVars, next, countVars, histVars>> BY DEF MakeUniqueDeviceName
<1>4. CASE req[c].name \in DOMAIN tokens
  <2>1. PICK d \in Digits : req' = [req EXCEPT ![c].name.digits = Append(@, d)]
    BY <1>4 DEF MakeUniqueDeviceName
  <2> DEFINE n == [req[c].name EXCEPT !.digits = Append(@, d)]
             r == [req[c] EXCEPT !.name = n]
  <2>2. n \in Names
    <3>1. req[c].name \in Names BY <1>2 DEF Requests
    <3>2. Append(req[c].name.digits, d) \in Seq(Digits) BY <3>1 DEF Names
    <3>3. QED BY <3>1, <3>2 DEF Names
  <2>3. r \in Requests /\ r.op = req[c].op /\ r.key = req[c].key
           /\ r.since = req[c].since /\ r.pc = "name"
    BY <1>2, <2>2 DEF Requests
  <2>4. req' = [req EXCEPT ![c] = r] BY <1>1, <2>1 DEF RequestsOK
  <2>5. QED BY <1>2, <1>3, <2>3, <2>4, RequestChanges
<1>5. CASE req[c].name \notin DOMAIN tokens
  <2> DEFINE r == [req[c] EXCEPT !.pc = "store", !.since = next]
  <2>1. req' = [req EXCEPT ![c] = r] BY <1>1, <1>5 DEF MakeUniqueDeviceName, RequestsOK
  <2>2. r \in Requests /\ r.op = req[c].op /\ r.key = req[c].key
           /\ r.since = next /\ r.pc = "store"
    BY <1>1, <1>2 DEF Requests, Pcs, StoresOK
  <2>3. next =< next BY <1>1 DEF StoresOK
  <2>4. QED BY <1>2, <1>3, <2>1, <2>2, <2>3, RequestChanges
<1>6. QED BY <1>4, <1>5

\* A request that is answered, and nothing else happens.
LEMMA AnswerKeeps ==
    ASSUME KeysInv, NEW c \in Clients, Answer(c),
           UNCHANGED <<storeVars, next, countVars, histVars>>
    PROVE  KeysInv'
<1>1. StoresOK /\ HistoryOK /\ CountsOK /\ RequestsOK BY Parts
<1>2. next \in Nat /\ next > 0 /\ next' \in Nat /\ next' >= next BY <1>1 DEF StoresOK
<1>3. RequestsOK' BY <1>1, <1>2, Answered
<1>4. QED BY <1>1, <1>3, StoresStay, PartsNext

LEMMA DiscoverTokenKeyKeeps ==
    ASSUME KeysInv, NEW c \in Clients, DiscoverTokenKey(c)
    PROVE  KeysInv'
<1>1. StoresOK /\ RequestsOK BY Parts
<1>2. req[c] \in Requests /\ req[c].pc = "find" /\ req[c].since =< next
  BY <1>1 DEF RequestsOK, RequestOK, DiscoverTokenKey, At
<1>3. UNCHANGED <<storeVars, next, countVars, histVars>> BY DEF DiscoverTokenKey
<1>4. CASE HasToken(req[c].token)
  <2>1. PICK n \in DOMAIN tokens :
            req' = [req EXCEPT ![c].pc = "remove", ![c].name = n]
    BY <1>4 DEF DiscoverTokenKey
  <2> DEFINE r == [req[c] EXCEPT !.pc = "remove", !.name = n]
  <2>2. req' = [req EXCEPT ![c] = r] BY <1>1, <2>1 DEF RequestsOK
  <2>3. r \in Requests /\ r.op = req[c].op /\ r.key = req[c].key
           /\ r.since = req[c].since /\ r.pc = "remove"
    BY <1>1, <1>2 DEF Requests, Pcs, StoresOK
  <2>4. QED BY <1>2, <1>3, <2>2, <2>3, RequestChanges
<1>5. CASE ~HasToken(req[c].token)
  BY <1>3, <1>5, AnswerKeeps DEF DiscoverTokenKey
<1>6. QED BY <1>4, <1>5

LEMMA GetTokenByNameKeeps ==
    ASSUME KeysInv, NEW c \in Clients, GetTokenByName(c)
    PROVE  KeysInv'
<1>1. StoresOK /\ RequestsOK BY Parts
<1>2. req[c] \in Requests /\ req[c].pc = "get" /\ req[c].since =< next
  BY <1>1 DEF RequestsOK, RequestOK, GetTokenByName, At
<1>3. UNCHANGED <<storeVars, next, countVars, histVars>> BY DEF GetTokenByName
<1>4. CASE req[c].name \in DOMAIN tokens
  <2> DEFINE r == [req[c] EXCEPT !.pc = "find", !.token = tokens[req[c].name]]
  <2>1. req' = [req EXCEPT ![c] = r] BY <1>1, <1>4 DEF GetTokenByName, RequestsOK
  <2>2. r \in Requests /\ r.op = req[c].op /\ r.key = req[c].key
           /\ r.since = req[c].since /\ r.pc = "find"
    BY <1>1, <1>2, <1>4 DEF Requests, Pcs, StoresOK
  <2>3. QED BY <1>2, <1>3, <2>1, <2>2, RequestChanges
<1>5. CASE req[c].name \notin DOMAIN tokens
  BY <1>3, <1>5, AnswerKeeps DEF GetTokenByName
<1>6. QED BY <1>4, <1>5

LEMMA ReadUsesLeftKeeps ==
    ASSUME KeysInv, NEW c \in Clients, ReadUsesLeft(c)
    PROVE  KeysInv'
<1>1. StoresOK /\ RequestsOK BY Parts
<1>2. req[c] \in Requests /\ req[c].pc = "uses" /\ req[c].since =< next
  BY <1>1 DEF RequestsOK, RequestOK, ReadUsesLeft, At
<1>3. UNCHANGED <<storeVars, next, countVars, histVars>> BY DEF ReadUsesLeft
<1>4. CASE recovery.limited
  <2> DEFINE r == [req[c] EXCEPT !.pc = "decrement", !.uses = recovery.uses]
  <2>1. req' = [req EXCEPT ![c] = r] BY <1>1, <1>4 DEF ReadUsesLeft, RequestsOK
  <2>2. recovery.uses \in Int BY <1>1 DEF StoresOK, RecoveryKeys
  <2>3. r \in Requests /\ r.op = req[c].op /\ r.key = req[c].key
           /\ r.since = req[c].since /\ r.pc = "decrement"
    BY <1>2, <2>2 DEF Requests, Pcs
  <2>4. QED BY <1>2, <1>3, <2>1, <2>3, RequestChanges
<1>5. CASE ~recovery.limited
  BY <1>3, <1>5, AnswerKeeps DEF ReadUsesLeft
<1>6. QED BY <1>4, <1>5

-----------------------------------------------------------------------------
(* The steps that change the keys                                            *)

LEMMA WriteUsesLeftKeeps ==
    ASSUME KeysInv, NEW c \in Clients, WriteUsesLeft(c)
    PROVE  KeysInv'
<1>1. StoresOK /\ HistoryOK /\ CountsOK /\ RequestsOK BY Parts
<1>2. req[c].uses - 1 \in Int BY <1>1 DEF RequestsOK, Requests
<1>3. StoresOK' BY <1>1, <1>2 DEF StoresOK, WriteUsesLeft, RecoveryKeys
<1>4. HistoryOK' BY <1>1 DEF HistoryOK, WriteUsesLeft, histVars, keyVars
<1>5. CountsOK' BY <1>1 DEF CountsOK, WriteUsesLeft, countVars
<1>6. next \in Nat /\ next > 0 /\ next' \in Nat /\ next' >= next
  BY <1>1 DEF StoresOK, WriteUsesLeft
<1>7. RequestsOK' BY <1>1, <1>6, Answered DEF WriteUsesLeft
<1>8. QED BY <1>3, <1>4, <1>5, <1>7, PartsNext

\* The new key has a number that no used key has.
LEMMA StoreNewDeviceKeyKeeps ==
    ASSUME KeysInv, NEW c \in Clients, StoreNewDeviceKey(c)
    PROVE  KeysInv'
<1>1. StoresOK /\ HistoryOK /\ CountsOK /\ RequestsOK BY Parts
<1>2. next \in Nat /\ next > 0 /\ next' \in Nat /\ next' = next + 1 /\ next' >= next
  BY <1>1 DEF StoresOK, StoreNewDeviceKey
<1>3. clock + KeyLife \in Nat BY <1>1, TokensAssumption DEF CountsOK
<1>4. device' \in DeviceKeys /\ device'.key = next
  BY <1>2, <1>3 DEF StoreNewDeviceKey, DeviceKeys
<1>5. StoresOK' BY <1>1, <1>2, <1>4 DEF StoresOK, StoreNewDeviceKey, RecoveryKeys
<1>6. HistoryOK'
  BY <1>1, <1>2, <1>4 DEF HistoryOK, StoreNewDeviceKey, histVars, keyVars
<1>7. CountsOK' BY <1>1 DEF CountsOK, StoreNewDeviceKey, countVars
<1>8. RequestsOK' BY <1>1, <1>2, Answered DEF StoreNewDeviceKey
<1>9. QED BY <1>5, <1>6, <1>7, <1>8, PartsNext

\* The key that is in use goes, and no key that was used is 0.
LEMMA DeleteNewDeviceKeyKeeps ==
    ASSUME KeysInv, NEW c \in Clients, DeleteNewDeviceKey(c)
    PROVE  KeysInv'
<1>1. StoresOK /\ HistoryOK /\ CountsOK /\ RequestsOK BY Parts
<1>2. device' = NoDevice BY DEF DeleteNewDeviceKey
<1>3. StoresOK' BY <1>1, <1>2 DEF StoresOK, DeleteNewDeviceKey, NoDevice, DeviceKeys
<1>4. HistoryOK'
  <2>1. /\ req[c].key \in Nat /\ req[c].key < next
        /\ req[c].op = "authorize" => req[c].key # 0
    BY <1>1 DEF DeleteNewDeviceKey, At, RequestsOK, RequestOK, Requests
  <2>2. device'.key = 0 BY <1>2 DEF NoDevice
  <2>3. used' \subseteq used \cup {req[c].key} /\ (used' # used => req[c].op = "authorize")
    BY DEF DeleteNewDeviceKey
  <2>4. UNCHANGED <<next, known, lost, granted, issued, contended>>
    BY DEF DeleteNewDeviceKey, keyVars
  <2>5. QED BY <1>1, <2>1, <2>2, <2>3, <2>4 DEF HistoryOK
<1>5. CountsOK' BY <1>1 DEF CountsOK, DeleteNewDeviceKey, countVars
<1>6. next \in Nat /\ next > 0 /\ next' \in Nat /\ next' >= next
  BY <1>1 DEF StoresOK, DeleteNewDeviceKey
<1>7. RequestsOK' BY <1>1, <1>6, Answered DEF DeleteNewDeviceKey
<1>8. QED BY <1>3, <1>4, <1>5, <1>7, PartsNext

LEMMA StoreRecoveryKeyKeeps ==
    ASSUME KeysInv, NEW c \in Clients, StoreRecoveryKey(c)
    PROVE  KeysInv'
<1>1. StoresOK /\ HistoryOK /\ CountsOK /\ RequestsOK BY Parts
<1>2. next \in Nat /\ next > 0 BY <1>1 DEF StoresOK
<1>3. CountsOK' BY <1>1 DEF CountsOK, StoreRecoveryKey, countVars
<1>4. CASE req[c].uses # 0
  <2>1. PICK e \in clock .. Never :
            recovery' = [key |-> next, expires |-> e,
                         limited |-> req[c].uses # Unlimited, uses |-> req[c].uses]
    BY <1>4 DEF StoreRecoveryKey
  <2>2. req[c].uses \in Int BY <1>1 DEF RequestsOK, Requests
  <2>3. e \in Nat BY <1>1, <2>1, TokensAssumption DEF CountsOK, Never
  <2>4. recovery' \in RecoveryKeys /\ recovery'.key = next
    BY <1>2, <2>1, <2>2, <2>3 DEF RecoveryKeys
  <2>5. next' = next + 1 /\ next' \in Nat /\ next' >= next
    BY <1>2, <1>4 DEF StoreRecoveryKey
  <2>6. StoresOK' BY <1>1, <2>4, <2>5 DEF StoresOK, StoreRecoveryKey, DeviceKeys
  <2>7. HistoryOK'
    <3>1. granted' \in Int /\ issued' \in Nat BY <1>4, <2>2 DEF StoreRecoveryKey
    <3>2. contended' \in BOOLEAN BY <1>4 DEF StoreRecoveryKey
    <3>3. UNCHANGED <<device, used, known, lost>> BY DEF StoreRecoveryKey
    <3>4. QED BY <1>1, <1>2, <2>5, <3>1, <3>2, <3>3 DEF HistoryOK
  <2>8. RequestsOK' BY <1>1, <1>2, <2>5, Answered DEF StoreRecoveryKey
  <2>9. QED BY <1>3, <2>6, <2>7, <2>8, PartsNext
<1>5. CASE req[c].uses = 0
  <2>1. UNCHANGED <<storeVars, next, countVars, histVars>> /\ Answer(c)
    BY <1>5 DEF StoreRecoveryKey, storeVars, histVars
  <2>2. QED BY <2>1, AnswerKeeps
<1>6. QED BY <1>4, <1>5

-----------------------------------------------------------------------------

LEMMA HandleKeeps ==
    ASSUME KeysInv, NEW c \in Clients, Handle(c)
    PROVE  KeysInv'
<1>1. CASE Reading(c) BY <1>1, ReadingKeeps
<1>2. CASE ~Reading(c)
  BY <1>2, MakeUniqueDeviceNameKeeps, CreateTokenKeeps, DiscoverTokenKeyKeeps,
     DeleteTokenKeeps, RefreshTokenKeeps, GetTokenByNameKeeps, StoreNewDeviceKeyKeeps,
     DeleteNewDeviceKeyKeeps, StoreRecoveryKeyKeeps, ReadUsesLeftKeeps, WriteUsesLeftKeeps
     DEF Handle, Reading
<1>3. QED BY <1>1, <1>2

LEMMA TickKeeps == ASSUME KeysInv, Tick PROVE KeysInv'
<1>1. StoresOK /\ HistoryOK /\ CountsOK /\ RequestsOK BY Parts
<1>2. StoresOK' /\ RequestsOK' BY <1>1 DEF StoresOK, RequestsOK, RequestOK, Tick, storeVars
<1>3. HistoryOK' BY <1>1 DEF HistoryOK, Tick, histVars, keyVars, storeVars
<1>4. CountsOK' BY <1>1 DEF CountsOK, Tick
<1>5. QED BY <1>2, <1>3, <1>4, PartsNext

LEMMA RestartKeeps == ASSUME KeysInv, Restart PROVE KeysInv'
<1>1. StoresOK /\ HistoryOK /\ CountsOK /\ RequestsOK BY Parts
<1>2. StoresOK' BY <1>1 DEF StoresOK, Restart, storeVars
<1>3. HistoryOK'
  <2>1. lost' \subseteq Names BY <1>1 DEF Restart, HistoryOK, RequestsOK, Requests
  <2>2. contended' \in BOOLEAN BY DEF Restart
  <2>3. QED BY <1>1, <2>1, <2>2 DEF HistoryOK, Restart, storeVars
<1>4. CountsOK' BY <1>1 DEF CountsOK, Restart
<1>5. RequestsOK'
  <2>1. RequestOK(Idle, next') BY <1>2, IdleOK DEF StoresOK
  <2>2. req' = [c \in Clients |-> Idle] BY DEF Restart
  <2>3. Idle \in Requests BY <2>1 DEF RequestOK
  <2>4. QED BY <2>1, <2>2, <2>3 DEF RequestsOK
<1>6. QED BY <1>2, <1>3, <1>4, <1>5, PartsNext

LEMMA KeysInvInit == Init => KeysInv
<1> SUFFICES ASSUME Init PROVE KeysInv OBVIOUS
<1>1. NoName \in Names BY NoNameIsName
<1>2. StoresOK
  BY <1>1 DEF Init, StoresOK, NoRecovery, RecoveryKeys, NoDevice, DeviceKeys
<1>3. HistoryOK
  <2>1. used = {} /\ known \subseteq Names /\ lost \subseteq Names BY <1>1 DEF Init
  <2>2. granted = 0 /\ issued = 0 /\ contended \in BOOLEAN BY DEF Init
  <2>3. QED BY <2>1, <2>2 DEF HistoryOK
<1>4. CountsOK BY DEF Init, CountsOK
<1>5. RequestsOK
  <2>1. RequestOK(Idle, next) BY <1>2, IdleOK DEF StoresOK
  <2>2. req = [c \in Clients |-> Idle] BY DEF Init
  <2>3. Idle \in Requests BY <2>1 DEF RequestOK
  <2>4. QED BY <2>1, <2>2, <2>3 DEF RequestsOK
<1>6. QED BY <1>2, <1>3, <1>4, <1>5, Parts

LEMMA KeysInvStep == KeysInv /\ [Next]_vars => KeysInv'
<1> SUFFICES ASSUME KeysInv, [Next]_vars PROVE KeysInv' OBVIOUS
<1>1. CASE \E c \in Clients : Ask(c) \/ Handle(c) BY <1>1, AskKeeps, HandleKeeps
<1>2. CASE Tick BY <1>2, TickKeeps
<1>3. CASE Restart BY <1>3, RestartKeeps
<1>4. CASE UNCHANGED vars
  <2>1. StoresOK /\ HistoryOK /\ CountsOK /\ RequestsOK BY Parts
  <2>2. UNCHANGED <<storeVars, next, countVars, histVars>> /\ req' = req
    BY <1>4 DEF vars
  <2>3. RequestsOK' BY <2>1, <2>2 DEF RequestsOK
  <2>4. QED BY <2>1, <2>2, <2>3, StoresStay, PartsNext
<1>5. QED BY <1>1, <1>2, <1>3, <1>4 DEF Next

\* Whatever requests race, whatever keys are stored and deleted meanwhile and however
\* the API restarts: a key for a new device that gave a token is not in Redis again
\* (actions/api_tokens.py:170), and requests, tokens and keys keep their shape.
THEOREM KeysInvariance == Spec => []KeysInv
BY KeysInvInit, KeysInvStep, PTL DEF Spec

\* In particular, a key for a new device gives one token (use_new_device_auth_token).
THEOREM UsedDeviceKeyStaysGone == Spec => []UsedDeviceKeyIsGone
<1>1. KeysInv => UsedDeviceKeyIsGone BY DEF KeysInv
<1>2. QED BY <1>1, KeysInvariance, PTL

-----------------------------------------------------------------------------
(* Devices keep their tokens, and names their owners                         *)

\* The steps that store or delete no token, and which of them lead to a store.
Apart(c) ==
    /\ UNCHANGED <<tokens, known, lost>>
    /\ req[c].pc # "renew"
    /\ \A d \in Clients \ {c} : req'[d] = req[d]
    /\ req'[c].pc = "store" =>
          req'[c].name \notin DOMAIN tokens

LEMMA AcceptApart ==
    ASSUME KeysInv, NEW c \in Clients, NEW r, Accept(c, r), r.pc # "store"
    PROVE  Apart(c)
<1>1. req \in [Clients -> Requests] BY DEF KeysInv, TypeOK
<1>2. req' = [req EXCEPT ![c] = r] BY DEF Accept
<1>3. req'[c] = r /\ \A d \in Clients \ {c} : req'[d] = req[d] BY <1>1, <1>2
<1>4. QED BY <1>3 DEF Apart, Accept, storeVars

LEMMA AskApart == ASSUME KeysInv, NEW c \in Clients, Ask(c) PROVE Apart(c)
<1>1. ASSUME NEW op, NEW pc \in {"valid", "key"}, Anonymous(c, op, pc) PROVE Apart(c)
  <2>1. PICK k \in 1 .. next - 1, d \in Devices :
            Accept(c, [Idle EXCEPT !.op = op, !.pc = pc, !.key = k,
                                   !.name = [device |-> d, digits |-> <<>>]])
    BY <1>1 DEF Anonymous
  <2> DEFINE r == [Idle EXCEPT !.op = op, !.pc = pc, !.key = k,
                               !.name = [device |-> d, digits |-> <<>>]]
  <2>2. r.pc = pc BY DEF Idle
  <2>3. QED BY <2>1, <2>2, AcceptApart
<1>2. ASSUME NEW op, NEW name, NEW uses, Authenticated(c, op, name, uses) PROVE Apart(c)
  <2>1. PICK t \in Range(tokens) :
            Accept(c, [Idle EXCEPT !.op = op, !.pc = "auth", !.token = t,
                                   !.name = name, !.uses = uses])
    BY <1>2 DEF Authenticated
  <2> DEFINE r == [Idle EXCEPT !.op = op, !.pc = "auth", !.token = t,
                               !.name = name, !.uses = uses]
  <2>2. r.pc = "auth" BY DEF Idle
  <2>3. QED BY <2>1, <2>2, AcceptApart
<1>3. CASE UseRecoveryApiKey(c) BY <1>1, <1>3 DEF UseRecoveryApiKey
<1>4. CASE AuthorizeWithNewDeviceApiKey(c) BY <1>1, <1>4 DEF AuthorizeWithNewDeviceApiKey
<1>5. CASE RefreshDeviceApiToken(c) BY <1>2, <1>5 DEF RefreshDeviceApiToken
<1>6. CASE DeleteDeviceApiToken(c) BY <1>2, <1>6 DEF DeleteDeviceApiToken
<1>7. CASE GetNewRecoveryApiKey(c) BY <1>2, <1>7 DEF GetNewRecoveryApiKey
<1>8. CASE GetNewDeviceApiKey(c) BY <1>2, <1>8 DEF GetNewDeviceApiKey
<1>9. CASE InvalidateNewDeviceApiKey(c) BY <1>2, <1>9 DEF InvalidateNewDeviceApiKey
<1>10. QED BY <1>3, <1>4, <1>5, <1>6, <1>7, <1>8, <1>9 DEF Ask

\* A request that is answered or goes on, but to no store.
LEMMA MovesApart ==
    ASSUME KeysInv, NEW c \in Clients, UNCHANGED <<tokens, known, lost>>,
           req[c].pc # "renew",
           Answer(c) \/ \E to \in Pcs \ {"store"} : GoTo(c, to)
    PROVE  Apart(c)
<1>1. req \in [Clients -> Requests] BY DEF KeysInv, TypeOK
<1>2. CASE Answer(c)
  <2>1. req'[c] = Idle /\ \A d \in Clients \ {c} : req'[d] = req[d]
    BY <1>1, <1>2 DEF Answer
  <2>2. QED BY <2>1 DEF Apart, Idle
<1>3. CASE \E to \in Pcs \ {"store"} : GoTo(c, to)
  <2>1. PICK to \in Pcs \ {"store"} : GoTo(c, to) BY <1>3
  <2>2. req'[c].pc = to /\ \A d \in Clients \ {c} : req'[d] = req[d]
    BY <1>1, <2>1 DEF GoTo, Requests
  <2>3. QED BY <2>1, <2>2 DEF Apart
<1>4. QED BY <1>2, <1>3

LEMMA ReadApart ==
    ASSUME KeysInv, NEW c \in Clients, NEW from, NEW found \in BOOLEAN,
           NEW to \in Pcs \ {"store"}, from # "renew", Read(c, from, found, to)
    PROVE  Apart(c)
<1>1. req[c].pc # "renew" /\ UNCHANGED <<tokens, known, lost>>
  BY DEF Read, At, storeVars, histVars
<1>2. Answer(c) \/ GoTo(c, to) BY DEF Read
<1>3. QED BY <1>1, <1>2, MovesApart

LEMMA ReadingApart == ASSUME KeysInv, NEW c \in Clients, Reading(c) PROVE Apart(c)
<1>0. /\ HasToken(req[c].token) \in BOOLEAN
      /\ (req[c].name \in DOMAIN tokens) \in BOOLEAN
  BY DEF HasToken
<1>1. CASE IsAuthenticated(c)
  <2>1. FirstStep[req[c].op] \in Pcs \ {"store"}
    BY <1>1 DEF IsAuthenticated, FirstStep, Pcs
  <2>2. QED BY <1>0, <1>1, <2>1, ReadApart DEF IsAuthenticated
<1>2. CASE GetOwnToken(c) BY <1>0, <1>2, ReadApart DEF GetOwnToken, Pcs
<1>3. CASE CheckOwnToken(c) BY <1>0, <1>3, ReadApart DEF CheckOwnToken, Pcs
<1>4. CASE CheckNotCaller(c) BY <1>4, ReadApart DEF CheckNotCaller, Pcs
<1>5. CASE CheckNameExists(c) BY <1>0, <1>5, ReadApart DEF CheckNameExists, Pcs
<1>6. CASE CheckNewDeviceKey(c)
  BY <1>6, ReadApart DEF CheckNewDeviceKey, DeviceValid, Pcs
<1>7. CASE CheckRecoveryKeyValid(c)
  BY <1>7, ReadApart DEF CheckRecoveryKeyValid, RecoveryValid, Pcs
<1>8. CASE CheckRecoveryKey(c) BY <1>8, ReadApart DEF CheckRecoveryKey, Pcs
<1>9. CASE CheckStillValid(c)
  BY <1>9, ReadApart DEF CheckStillValid, RecoveryValid, Pcs
<1>10. QED
  BY <1>1, <1>2, <1>3, <1>4, <1>5, <1>6, <1>7, <1>8, <1>9 DEF Reading

\* A request of which one field or two change, and nothing else happens.
LEMMA ChangesApart ==
    ASSUME KeysInv, NEW c \in Clients, NEW r, req' = [req EXCEPT ![c] = r],
           UNCHANGED <<tokens, known, lost>>, req[c].pc # "renew",
           r.pc = "store" => r.name \notin DOMAIN tokens
    PROVE  Apart(c)
<1>1. req \in [Clients -> Requests] BY DEF KeysInv, TypeOK
<1>2. req'[c] = r /\ \A d \in Clients \ {c} : req'[d] = req[d] BY <1>1
<1>3. QED BY <1>2 DEF Apart

LEMMA HandleApart ==
    ASSUME KeysInv, NEW c \in Clients, Handle(c),
           ~CreateToken(c), ~DeleteToken(c), ~RefreshToken(c)
    PROVE  Apart(c)
<1>0. req \in [Clients -> Requests] /\ req[c] \in Requests BY DEF KeysInv, TypeOK
<1>1. CASE Reading(c) BY <1>1, ReadingApart
<1>2. CASE MakeUniqueDeviceName(c)
  <2>1. req[c].pc = "name" /\ UNCHANGED <<tokens, known, lost>>
    BY <1>2 DEF MakeUniqueDeviceName, At, storeVars, histVars
  <2>2. CASE req[c].name \in DOMAIN tokens
    <3>1. PICK d \in Digits : req' = [req EXCEPT ![c].name.digits = Append(@, d)]
      BY <1>2, <2>2 DEF MakeUniqueDeviceName
    <3> DEFINE r == [req[c] EXCEPT !.name.digits = Append(@, d)]
    <3>2. req' = [req EXCEPT ![c] = r] BY <1>0, <3>1
    <3>3. r.pc = "name" BY <1>0, <2>1 DEF Requests
    <3>4. QED BY <2>1, <3>2, <3>3, ChangesApart
  <2>3. CASE req[c].name \notin DOMAIN tokens
    <3> DEFINE r == [req[c] EXCEPT !.pc = "store", !.since = next]
    <3>1. req' = [req EXCEPT ![c] = r] BY <1>0, <1>2, <2>3 DEF MakeUniqueDeviceName
    <3>2. r.name = req[c].name BY <1>0 DEF Requests
    <3>3. QED BY <2>1, <2>3, <3>1, <3>2, ChangesApart
  <2>4. QED BY <2>2, <2>3
<1>3. CASE DiscoverTokenKey(c)
  <2>1. req[c].pc = "find" /\ UNCHANGED <<tokens, known, lost>>
    BY <1>3 DEF DiscoverTokenKey, At, storeVars, histVars
  <2>2. CASE Answer(c) BY <2>1, <2>2, MovesApart
  <2>3. CASE ~Answer(c)
    <3>1. PICK n \in DOMAIN tokens :
              req' = [req EXCEPT ![c].pc = "remove", ![c].name = n]
      BY <1>3, <2>3 DEF DiscoverTokenKey
    <3> DEFINE r == [req[c] EXCEPT !.pc = "remove", !.name = n]
    <3>2. req' = [req EXCEPT ![c] = r] /\ r.pc = "remove" BY <1>0, <3>1 DEF Requests
    <3>3. QED BY <2>1, <3>2, ChangesApart
  <2>4. QED BY <2>2, <2>3
<1>4. CASE GetTokenByName(c)
  <2>1. req[c].pc = "get" /\ UNCHANGED <<tokens, known, lost>>
    BY <1>4 DEF GetTokenByName, At, storeVars, histVars
  <2>2. CASE Answer(c) BY <2>1, <2>2, MovesApart
  <2>3. CASE ~Answer(c)
    <3> DEFINE r == [req[c] EXCEPT !.pc = "find", !.token = tokens[req[c].name]]
    <3>1. req' = [req EXCEPT ![c] = r] /\ r.pc = "find"
      BY <1>0, <1>4, <2>3 DEF GetTokenByName, Requests
    <3>2. QED BY <2>1, <3>1, ChangesApart
  <2>4. QED BY <2>2, <2>3
<1>5. CASE ReadUsesLeft(c)
  <2>1. req[c].pc = "uses" /\ UNCHANGED <<tokens, known, lost>>
    BY <1>5 DEF ReadUsesLeft, At, storeVars, histVars
  <2>2. CASE Answer(c) BY <2>1, <2>2, MovesApart
  <2>3. CASE ~Answer(c)
    <3> DEFINE r == [req[c] EXCEPT !.pc = "decrement", !.uses = recovery.uses]
    <3>1. req' = [req EXCEPT ![c] = r] /\ r.pc = "decrement"
      BY <1>0, <1>5, <2>3 DEF ReadUsesLeft, Requests
    <3>2. QED BY <2>1, <3>1, ChangesApart
  <2>4. QED BY <2>2, <2>3
<1>6. CASE \/ StoreNewDeviceKey(c) \/ DeleteNewDeviceKey(c) \/ StoreRecoveryKey(c)
           \/ WriteUsesLeft(c)
  <2>1. req[c].pc # "renew" /\ Answer(c) /\ UNCHANGED <<tokens, known, lost>>
    BY <1>6 DEF StoreNewDeviceKey, DeleteNewDeviceKey, StoreRecoveryKey, WriteUsesLeft,
                At, histVars
  <2>2. QED BY <2>1, MovesApart
<1>7. QED BY <1>1, <1>2, <1>3, <1>4, <1>5, <1>6 DEF Handle, Reading

\* A step of one request other than a store, a refresh or a deletion.
LEMMA Quiet ==
    ASSUME KeysInv, NEW c \in Clients, Ask(c) \/ Handle(c),
           ~CreateToken(c), ~DeleteToken(c), ~RefreshToken(c)
    PROVE  Apart(c)
BY AskApart, HandleApart

\* The requests that are not the client's own stay, and its own goes where it goes.
LEMMA StoringSteps ==
    ASSUME KeysInv, NEW c \in Clients, CreateToken(c) \/ RefreshToken(c)
    PROVE  /\ StoreUnder(req[c].name) /\ req[c].name \in Names /\ next \in Nat
           /\ \A d \in Clients \ {c} : req'[d] = req[d]
           /\ req'[c].pc \notin {"store", "renew"}
           /\ known' = known \cup {req[c].name} /\ lost' = lost \ {req[c].name}
<1>1. req \in [Clients -> Requests] /\ req[c] \in Requests /\ next \in Nat
  BY DEF KeysInv, TypeOK
<1>2. req[c].name \in Names BY <1>1 DEF Requests
<1>3. CASE CreateToken(c)
  BY <1>1, <1>2, <1>3 DEF CreateToken, GoTo, Requests
<1>4. CASE RefreshToken(c)
  BY <1>1, <1>2, <1>4 DEF RefreshToken, Answer, Idle
<1>5. QED BY <1>3, <1>4

LEMMA DeletingStep ==
    ASSUME KeysInv, NEW c \in Clients, DeleteToken(c)
    PROVE  /\ tokens' = Restrict(tokens, DOMAIN tokens \ {req[c].name})
           /\ \A d \in Clients \ {c} : req'[d] = req[d]
           /\ req[c].pc = "remove" /\ lost' = lost
           /\ \/ req'[c].pc = "renew" /\ req'[c].name = req[c].name /\ known' = known
              \/ req'[c].pc = "idle" /\ known' = known \ {req[c].name}
<1>1. req \in [Clients -> Requests] /\ req[c] \in Requests BY DEF KeysInv, TypeOK
<1>2. CASE req[c].op = "refresh"
  BY <1>1, <1>2 DEF DeleteToken, GoTo, At, Requests
<1>3. CASE req[c].op # "refresh"
  BY <1>1, <1>3 DEF DeleteToken, Answer, At, Idle
<1>4. QED BY <1>2, <1>3

LEMMA TakenStep ==
    KeysInv /\ TakenNameIsNewer /\ [Next]_vars => TakenNameIsNewer'
<1> SUFFICES ASSUME KeysInv, TakenNameIsNewer, [Next]_vars, NEW d \in Clients,
                    req'[d].pc = "store", req'[d].name \in DOMAIN tokens'
             PROVE  tokens'[req'[d].name] >= req'[d].since
  BY DEF TakenNameIsNewer, At
<1>0. /\ req \in [Clients -> Requests] /\ next \in Nat
      /\ \A c \in Clients : req[c] \in Requests /\ req[c].since =< next
      /\ \A n \in DOMAIN tokens : tokens[n] \in Nat
  BY DEF KeysInv, TypeOK
<1>1. ASSUME NEW c \in Clients, Apart(c) PROVE tokens'[req'[d].name] >= req'[d].since
  <2>1. d # c /\ req'[d] = req[d] /\ tokens' = tokens BY <1>1 DEF Apart
  <2>2. QED BY <2>1 DEF TakenNameIsNewer, At
<1>2. ASSUME NEW c \in Clients, CreateToken(c) \/ RefreshToken(c)
      PROVE  tokens'[req'[d].name] >= req'[d].since
  <2>1. d # c /\ req'[d] = req[d] /\ StoreUnder(req[c].name) BY <1>2, StoringSteps
  <2>2. CASE req[d].name = req[c].name
    <3>1. tokens'[req'[d].name] = next BY <2>1, <2>2 DEF StoreUnder
    <3>2. req[d].since \in Nat /\ req[d].since =< next BY <1>0 DEF Requests
    <3>3. QED BY <1>0, <2>1, <3>1, <3>2
  <2>3. CASE req[d].name # req[c].name
    <3>1. req[d].name \in DOMAIN tokens /\ tokens'[req[d].name] = tokens[req[d].name]
      BY <2>1, <2>3 DEF StoreUnder
    <3>2. QED BY <2>1, <3>1 DEF TakenNameIsNewer, At
  <2>4. QED BY <2>2, <2>3
<1>3. ASSUME NEW c \in Clients, DeleteToken(c) PROVE tokens'[req'[d].name] >= req'[d].since
  <2>1. d # c /\ req'[d] = req[d] BY <1>3, DeletingStep
  <2>2. req[d].name \in DOMAIN tokens /\ tokens'[req[d].name] = tokens[req[d].name]
    BY <1>3, <2>1, DeletingStep DEF Restrict
  <2>3. QED BY <2>1, <2>2 DEF TakenNameIsNewer, At
<1>4. CASE \E c \in Clients : Ask(c) \/ Handle(c) BY <1>1, <1>2, <1>3, <1>4, Quiet
<1>5. CASE Tick BY <1>5 DEF Tick, storeVars, TakenNameIsNewer, At
<1>6. CASE Restart
  <2>1. req'[d] = Idle BY <1>6 DEF Restart
  <2>2. QED BY <2>1 DEF Idle
<1>7. CASE UNCHANGED vars BY <1>7 DEF vars, storeVars, TakenNameIsNewer, At
<1>8. QED BY <1>4, <1>5, <1>6, <1>7 DEF Next

\* The names of the refreshes that are between their delete and their store.
Renewing == {req[c].name : c \in {d \in Clients : At(d, "renew")}}

LEMMA KnownStep ==
    KeysInv /\ KnownDevicesKeepToken /\ [Next]_vars => KnownDevicesKeepToken'
<1> SUFFICES ASSUME KeysInv, KnownDevicesKeepToken, [Next]_vars, NEW n \in known'
             PROVE  n \in DOMAIN tokens' \cup lost' \cup Renewing'
  BY DEF KnownDevicesKeepToken, Renewing
<1>0. req \in [Clients -> Requests] BY DEF KeysInv, TypeOK
<1>1. n \in known => n \in DOMAIN tokens \cup lost \cup Renewing
  BY DEF KnownDevicesKeepToken, Renewing
<1>2. ASSUME NEW d \in Clients, req[d].pc = "renew", req'[d] = req[d]
      PROVE  req[d].name \in Renewing'
  BY <1>2 DEF Renewing, At
<1>3. ASSUME NEW c \in Clients, Apart(c)
      PROVE  n \in DOMAIN tokens' \cup lost' \cup Renewing'
  <2>1. n \in known /\ tokens' = tokens /\ lost' = lost BY <1>3 DEF Apart
  <2>2. CASE n \in Renewing
    <3>1. PICK d \in Clients : req[d].pc = "renew" /\ n = req[d].name
      BY <2>2 DEF Renewing, At
    <3>2. req'[d] = req[d] BY <1>3, <3>1 DEF Apart
    <3>3. QED BY <1>2, <3>1, <3>2
  <2>3. QED BY <1>1, <2>1, <2>2
<1>4. ASSUME NEW c \in Clients, CreateToken(c) \/ RefreshToken(c)
      PROVE  n \in DOMAIN tokens' \cup lost' \cup Renewing'
  <2>1. /\ StoreUnder(req[c].name)
        /\ known' = known \cup {req[c].name} /\ lost' = lost \ {req[c].name}
        /\ \A d \in Clients \ {c} : req'[d] = req[d]
    BY <1>4, StoringSteps
  <2>2. DOMAIN tokens' = DOMAIN tokens \cup {req[c].name} BY <2>1 DEF StoreUnder
  <2>3. CASE n \in Renewing
    <3>1. PICK d \in Clients : req[d].pc = "renew" /\ n = req[d].name
      BY <2>3 DEF Renewing, At
    <3>2. CASE d = c BY <2>2, <3>1, <3>2
    <3>3. CASE d # c BY <1>2, <2>1, <3>1, <3>3
    <3>4. QED BY <3>2, <3>3
  <2>4. QED BY <1>1, <2>1, <2>2, <2>3
<1>5. ASSUME NEW c \in Clients, DeleteToken(c)
      PROVE  n \in DOMAIN tokens' \cup lost' \cup Renewing'
  <2>1. /\ tokens' = Restrict(tokens, DOMAIN tokens \ {req[c].name})
        /\ \A d \in Clients \ {c} : req'[d] = req[d]
        /\ req[c].pc = "remove" /\ lost' = lost
        /\ \/ req'[c].pc = "renew" /\ req'[c].name = req[c].name /\ known' = known
           \/ req'[c].pc = "idle" /\ known' = known \ {req[c].name}
    BY <1>5, DeletingStep
  <2>2. DOMAIN tokens' = DOMAIN tokens \ {req[c].name} BY <2>1 DEF Restrict
  <2>3. n = req[c].name => n \in Renewing' BY <2>1 DEF Renewing, At
  <2>4. CASE n \in Renewing
    <3>1. PICK d \in Clients : req[d].pc = "renew" /\ n = req[d].name
      BY <2>4 DEF Renewing, At
    <3>2. d # c BY <2>1, <3>1
    <3>3. QED BY <1>2, <2>1, <3>1, <3>2
  <2>5. QED BY <1>1, <2>1, <2>2, <2>3, <2>4
<1>6. CASE \E c \in Clients : Ask(c) \/ Handle(c) BY <1>3, <1>4, <1>5, <1>6, Quiet
<1>7. CASE Tick BY <1>1, <1>7 DEF Tick, storeVars, histVars, Renewing, At
<1>8. CASE Restart
  <2>1. n \in known /\ tokens' = tokens /\ lost' = lost \cup (Renewing \ DOMAIN tokens)
    BY <1>8 DEF Restart, storeVars, Renewing
  <2>2. QED BY <1>1, <2>1
<1>9. CASE UNCHANGED vars
  BY <1>1, <1>9 DEF vars, storeVars, histVars, Renewing, At
<1>10. QED BY <1>6, <1>7, <1>8, <1>9 DEF Next

\* Requests that do not overlap give different names to their devices: what a store
\* overwrites is younger than the check that found the name free
\* (_make_unique_device_name).
THEOREM TakenNameIsNewerHolds == Spec => []TakenNameIsNewer
<1>1. Init => TakenNameIsNewer BY DEF Init, TakenNameIsNewer, At, Idle
<1>2. QED BY <1>1, TakenStep, KeysInvariance, PTL DEF Spec

\* A device that has access keeps it through every race of refreshes, unless a restart
\* broke one off (refresh_token).
THEOREM KnownDevicesKeepTokenHolds == Spec => []KnownDevicesKeepToken
<1>1. Init => KnownDevicesKeepToken BY DEF Init, KnownDevicesKeepToken
<1>2. QED BY <1>1, KnownStep, KeysInvariance, PTL DEF Spec

-----------------------------------------------------------------------------
(* The uses of the recovery key                                              *)

\* What is known of the key while nobody but c may be using it.
CountedBy(c) ==
    /\ c \in Busy("recover") => Knows(req[c])
    /\ InForce =>
          /\ issued =< granted
          /\ recovery.uses = granted - issued
               + IF c \in Busy("recover") /\ req[c].pc \in Late THEN 1 ELSE 0

\* The other requests stay as they are.
Others(c) == /\ \A d \in Clients \ {c} : req'[d] = req[d]
             /\ RecoverOK(req'[c])

LEMMA CountedAlone ==
    ASSUME CountedInv, ~contended, NEW c \in Clients,
           \A d \in Busy("recover") : d = c
    PROVE  CountedBy(c)
<1>1. (\E d \in Busy("recover") : req[d].pc \in Late)
         <=> (c \in Busy("recover") /\ req[c].pc \in Late)
  OBVIOUS
<1>2. QED BY <1>1 DEF CountedInv, CountedBy

LEMMA AloneCounted ==
    ASSUME \A d \in Clients : RecoverOK(req[d]), NEW c \in Clients,
           ~contended => CountedBy(c) /\ \A d \in Busy("recover") : d = c
    PROVE  CountedInv
<1>1. ~contended => ((\E d \in Busy("recover") : req[d].pc \in Late)
                        <=> (c \in Busy("recover") /\ req[c].pc \in Late))
  OBVIOUS
<1>2. QED BY <1>1 DEF CountedInv, CountedBy

LEMMA AloneCountedNext ==
    ASSUME CountedInv, NEW c \in Clients, Others(c),
           ~contended' => CountedBy(c)' /\ \A d \in Busy("recover") : d = c
    PROVE  CountedInv'
<1>1. \A d \in Clients : RecoverOK(req'[d]) BY DEF CountedInv, Others
<1>2. ~contended' => \A d \in Busy("recover")' : d = c BY DEF Others, Busy
<1>3. ~contended' => ((\E d \in Busy("recover")' : req'[d].pc \in Late)
                         <=> (c \in Busy("recover")' /\ req'[c].pc \in Late))
  BY <1>2
<1>4. QED BY <1>1, <1>2, <1>3 DEF CountedInv, CountedBy

\* A step of a request that does not use the recovery key.
Aside(c) ==
    /\ UNCHANGED <<recovery, granted, issued, contended, clock>>
    /\ Others(c) /\ c \notin Busy("recover") /\ c \notin Busy("recover")'

LEMMA AsideKeeps == ASSUME CountedInv, NEW c \in Clients, Aside(c) PROVE CountedInv'
<1>1. \A d \in Clients : RecoverOK(req'[d]) BY DEF CountedInv, Others, Aside
<1>2. \A d \in Clients : d \in Busy("recover")' <=> d \in Busy("recover")
  BY DEF Aside, Others, Busy
<1>3. \A d \in Busy("recover") : req'[d] = req[d] /\ d \in Clients
  BY DEF Aside, Others, Busy
<1>4. InForce' <=> InForce BY DEF Aside, InForce, IsPast
<1>5. Busy("recover")' = Busy("recover") BY <1>2 DEF Busy
<1>6. (\E d \in Busy("recover")' : req'[d].pc \in Late)
         <=> (\E d \in Busy("recover") : req[d].pc \in Late)
  BY <1>3, <1>5
<1>7. \A d \in Busy("recover") : Knows(req[d]) => Knows(req[d])' BY <1>3 DEF Aside, Knows
<1>8. QED BY <1>1, <1>4, <1>5, <1>6, <1>7 DEF CountedInv, Aside

\* A request that is replaced.
LEMMA Replaced ==
    ASSUME KeysInv, NEW c \in Clients, NEW r, req' = [req EXCEPT ![c] = r], RecoverOK(r)
    PROVE  Others(c) /\ req'[c] = r
<1>1. req \in [Clients -> Requests] BY DEF KeysInv, TypeOK
<1>2. req'[c] = r /\ \A d \in Clients \ {c} : req'[d] = req[d] BY <1>1
<1>3. QED BY <1>2 DEF Others

LEMMA IdleRecovers == RecoverOK(Idle) /\ Idle.pc = "idle"
BY DEF Idle, RecoverOK, Late, RecoverSteps

\* A request that goes on to a step of the same operation.
LEMMA SameOperation ==
    ASSUME KeysInv, CountedInv, NEW c \in Clients, NEW to, req[c].pc # "idle", GoTo(c, to),
           to \in Late \cup {"valid"} => req[c].op = "recover",
           req[c].op = "recover" => to \in RecoverSteps
    PROVE  /\ Others(c) /\ req'[c].pc = to /\ req'[c].op = req[c].op
           /\ req'[c].key = req[c].key /\ req'[c].uses = req[c].uses
<1>1. req \in [Clients -> Requests] /\ req[c] \in Requests BY DEF KeysInv, TypeOK
<1>2. RecoverOK(req[c]) BY DEF CountedInv
<1> DEFINE r == [req[c] EXCEPT !.pc = to]
<1>3. req' = [req EXCEPT ![c] = r] BY <1>1 DEF GoTo
<1>4. r.pc = to /\ r.op = req[c].op /\ r.key = req[c].key /\ r.uses = req[c].uses
  BY <1>1 DEF Requests
<1> HIDE DEF r
<1>5. RecoverOK(r) BY <1>2, <1>4 DEF RecoverOK
<1>6. QED BY <1>3, <1>4, <1>5, Replaced

\* Asking for anything but the use of the recovery key.
LEMMA AcceptAside ==
    ASSUME KeysInv, CountedInv, NEW c \in Clients, NEW r, Accept(c, r), UNCHANGED contended,
           r.op # "recover", r.pc \notin Late \cup {"valid"},
           r.op = "new_recovery" => r.uses \in Limits \cup {Unlimited}
    PROVE  CountedInv'
<1>1. /\ req[c].pc = "idle" /\ req' = [req EXCEPT ![c] = r]
      /\ UNCHANGED <<recovery, granted, issued, clock>>
  BY DEF Accept, storeVars
<1>2. RecoverOK(r) BY DEF RecoverOK
<1>3. Others(c) /\ req'[c] = r BY <1>1, <1>2, Replaced
<1>4. c \notin Busy("recover") /\ c \notin Busy("recover")' BY <1>1, <1>3 DEF Busy
<1>5. QED BY <1>1, <1>3, <1>4, AsideKeeps DEF Aside

LEMMA AuthenticatedAside ==
    ASSUME KeysInv, CountedInv, NEW c \in Clients, NEW op, NEW name, NEW uses,
           op # "recover", Authenticated(c, op, name, uses),
           op = "new_recovery" => uses \in Limits \cup {Unlimited}
    PROVE  CountedInv'
<1>1. PICK t \in Range(tokens) :
          Accept(c, [Idle EXCEPT !.op = op, !.pc = "auth", !.token = t,
                                 !.name = name, !.uses = uses])
  BY DEF Authenticated
<1> DEFINE r == [Idle EXCEPT !.op = op, !.pc = "auth", !.token = t,
                             !.name = name, !.uses = uses]
<1>2. r.op = op /\ r.pc = "auth" /\ r.uses = uses BY DEF Idle
<1>3. UNCHANGED contended BY DEF Authenticated
<1> HIDE DEF r
<1>4. Accept(c, r) BY <1>1 DEF r
<1>5. QED BY <1>2, <1>3, <1>4, AcceptAside DEF Late

\* What an anonymous request starts with.
LEMMA AnonymousStarts ==
    ASSUME KeysInv, NEW c \in Clients, NEW op, NEW pc, Anonymous(c, op, pc)
    PROVE  \E r : Accept(c, r) /\ r.op = op /\ r.pc = pc /\ r.key # 0
<1>1. next \in Nat BY DEF KeysInv, TypeOK
<1>2. PICK k \in 1 .. next - 1, d \in Devices :
          Accept(c, [Idle EXCEPT !.op = op, !.pc = pc, !.key = k,
                                 !.name = [device |-> d, digits |-> <<>>]])
  BY DEF Anonymous
<1> DEFINE r == [Idle EXCEPT !.op = op, !.pc = pc, !.key = k,
                             !.name = [device |-> d, digits |-> <<>>]]
<1>3. r.op = op /\ r.pc = pc /\ r.key = k BY DEF Idle
<1>4. k # 0 BY <1>1
<1> HIDE DEF r
<1>5. Accept(c, r) BY <1>2 DEF r
<1>6. QED BY <1>3, <1>4, <1>5

LEMMA AskCounted ==
    ASSUME KeysInv, CountedInv, NEW c \in Clients, Ask(c)
    PROVE  CountedInv'
<1>1. CASE UseRecoveryApiKey(c)
  <2>1. PICK r : Accept(c, r) /\ r.op = "recover" /\ r.pc = "valid" /\ r.key # 0
    BY <1>1, AnonymousStarts DEF UseRecoveryApiKey
  <2>2. /\ req[c].pc = "idle" /\ req' = [req EXCEPT ![c] = r]
        /\ UNCHANGED <<recovery, granted, issued, clock>>
        /\ contended' = (contended \/ Busy("recover") # {})
    BY <1>1, <2>1 DEF UseRecoveryApiKey, Accept, storeVars
  <2>3. RecoverOK(r) BY <2>1 DEF RecoverOK, RecoverSteps
  <2>4. Others(c) /\ req'[c] = r BY <2>2, <2>3, Replaced
  <2>5. ASSUME ~contended' PROVE CountedBy(c)' /\ \A d \in Busy("recover") : d = c
    <3>1. ~contended /\ Busy("recover") = {} BY <2>2, <2>5 DEF CountedInv, KeysInv, TypeOK
    <3>2. CountedBy(c) BY <3>1, CountedAlone
    <3>3. InForce' <=> InForce BY <2>2 DEF InForce, IsPast
    <3>4. Knows(req[c])' BY <2>1, <2>4 DEF Knows, Late
    <3>5. req'[c].pc \notin Late BY <2>1, <2>4 DEF Late
    <3>6. QED BY <2>2, <3>1, <3>2, <3>3, <3>4, <3>5 DEF CountedBy
  <2>6. QED BY <2>4, <2>5, AloneCountedNext
<1>2. CASE AuthorizeWithNewDeviceApiKey(c)
  <2>1. PICK r : Accept(c, r) /\ r.op = "authorize" /\ r.pc = "key"
    BY <1>2, AnonymousStarts DEF AuthorizeWithNewDeviceApiKey
  <2>2. UNCHANGED contended BY <1>2 DEF AuthorizeWithNewDeviceApiKey
  <2>3. QED BY <2>1, <2>2, AcceptAside DEF Late
<1>3. CASE RefreshDeviceApiToken(c) BY <1>3, AuthenticatedAside DEF RefreshDeviceApiToken
<1>4. CASE DeleteDeviceApiToken(c) BY <1>4, AuthenticatedAside DEF DeleteDeviceApiToken
<1>5. CASE GetNewRecoveryApiKey(c) BY <1>5, AuthenticatedAside DEF GetNewRecoveryApiKey
<1>6. CASE GetNewDeviceApiKey(c) BY <1>6, AuthenticatedAside DEF GetNewDeviceApiKey
<1>7. CASE InvalidateNewDeviceApiKey(c)
  BY <1>7, AuthenticatedAside DEF InvalidateNewDeviceApiKey
<1>8. QED BY <1>1, <1>2, <1>3, <1>4, <1>5, <1>6, <1>7 DEF Ask

\* A request that does not use the recovery key goes on, or is answered.
LEMMA MovesAside ==
    ASSUME KeysInv, CountedInv, NEW c \in Clients, req[c].op # "recover", req[c].pc # "idle",
           UNCHANGED <<recovery, granted, issued, contended, clock>>,
           Answer(c) \/ \E to : to \notin Late \cup {"valid"} /\ GoTo(c, to)
    PROVE  CountedInv'
<1>1. c \notin Busy("recover") BY DEF Busy
<1>2. CASE Answer(c)
  <2>1. req' = [req EXCEPT ![c] = Idle] BY <1>2 DEF Answer
  <2>2. Others(c) /\ req'[c] = Idle BY <2>1, Replaced, IdleRecovers
  <2>3. c \notin Busy("recover")' BY <2>2, IdleRecovers DEF Busy
  <2>4. QED BY <1>1, <2>2, <2>3, AsideKeeps DEF Aside
<1>3. ASSUME NEW to, to \notin Late \cup {"valid"}, GoTo(c, to) PROVE CountedInv'
  <2>1. Others(c) /\ req'[c].op = req[c].op BY <1>3, SameOperation
  <2>2. c \notin Busy("recover")' BY <2>1 DEF Busy
  <2>3. QED BY <1>1, <2>1, <2>2, AsideKeeps DEF Aside
<1>4. QED BY <1>2, <1>3

LEMMA ReadAside ==
    ASSUME KeysInv, CountedInv, NEW c \in Clients, NEW from, NEW found, NEW to,
           req[c].op # "recover", from # "idle", to \notin Late \cup {"valid"},
           Read(c, from, found, to)
    PROVE  CountedInv'
<1>1. /\ req[c].pc # "idle" /\ (Answer(c) \/ GoTo(c, to))
      /\ UNCHANGED <<recovery, granted, issued, contended, clock>>
  BY DEF Read, At, storeVars, countVars, histVars, keyVars
<1>2. QED BY <1>1, MovesAside

\* A request whose name or token changes.
LEMMA ChangesAside ==
    ASSUME KeysInv, CountedInv, NEW c \in Clients, NEW r, req' = [req EXCEPT ![c] = r],
           UNCHANGED <<storeVars, next, countVars, histVars>>,
           req[c].op # "recover", r.op = req[c].op, r.uses = req[c].uses,
           r.pc \notin Late \cup {"valid"}
    PROVE  CountedInv'
<1>1. RecoverOK(r) BY DEF CountedInv, RecoverOK
<1>2. Others(c) /\ req'[c] = r BY <1>1, Replaced
<1>3. c \notin Busy("recover") /\ c \notin Busy("recover")' BY <1>2 DEF Busy
<1>4. UNCHANGED <<recovery, granted, issued, contended, clock>>
  BY DEF storeVars, countVars, histVars, keyVars
<1>5. QED BY <1>2, <1>3, <1>4, AsideKeeps DEF Aside

LEMMA HandleAside ==
    ASSUME KeysInv, CountedInv, NEW c \in Clients, Handle(c),
           req[c].op # "recover", ~StoreRecoveryKey(c)
    PROVE  CountedInv'
<1>0. /\ req \in [Clients -> Requests] /\ req[c] \in Requests
      /\ req[c].pc \notin Late \cup {"valid"}
  BY DEF KeysInv, TypeOK, CountedInv, RecoverOK
<1>1. CASE IsAuthenticated(c)
  <2>1. FirstStep[req[c].op] \notin Late \cup {"valid"}
    BY <1>1 DEF IsAuthenticated, FirstStep, Late
  <2>2. QED BY <1>1, <2>1, ReadAside DEF IsAuthenticated
<1>2. CASE GetOwnToken(c) BY <1>2, ReadAside DEF GetOwnToken, Late
<1>3. CASE CheckOwnToken(c) BY <1>3, ReadAside DEF CheckOwnToken, Late
<1>4. CASE CheckNotCaller(c) BY <1>4, ReadAside DEF CheckNotCaller, Late
<1>5. CASE CheckNameExists(c) BY <1>5, ReadAside DEF CheckNameExists, Late
<1>6. CASE CheckNewDeviceKey(c) BY <1>6, ReadAside DEF CheckNewDeviceKey, Late
<1>7. ~CheckRecoveryKeyValid(c) /\ ~CheckRecoveryKey(c) /\ ~CheckStillValid(c)
      /\ ~ReadUsesLeft(c) /\ ~WriteUsesLeft(c)
  BY <1>0 DEF CheckRecoveryKeyValid, CheckRecoveryKey, CheckStillValid, ReadUsesLeft,
              WriteUsesLeft, Read, At, Late
<1>8. CASE MakeUniqueDeviceName(c)
  <2>1. req[c].pc = "name" /\ UNCHANGED <<storeVars, next, countVars, histVars>>
    BY <1>8 DEF MakeUniqueDeviceName, At
  <2>2. CASE req[c].name \in DOMAIN tokens
    <3>1. PICK d \in Digits : req' = [req EXCEPT ![c].name.digits = Append(@, d)]
      BY <1>8, <2>2 DEF MakeUniqueDeviceName
    <3> DEFINE r == [req[c] EXCEPT !.name.digits = Append(@, d)]
    <3>2. req' = [req EXCEPT ![c] = r] BY <1>0, <3>1
    <3>3. r.pc = "name" /\ r.op = req[c].op /\ r.uses = req[c].uses BY <1>0, <2>1 DEF Requests
    <3> HIDE DEF r
    <3>4. QED BY <2>1, <3>2, <3>3, ChangesAside DEF Late
  <2>3. CASE req[c].name \notin DOMAIN tokens
    <3> DEFINE r == [req[c] EXCEPT !.pc = "store", !.since = next]
    <3>1. req' = [req EXCEPT ![c] = r] BY <1>0, <1>8, <2>3 DEF MakeUniqueDeviceName
    <3>2. r.pc = "store" /\ r.op = req[c].op /\ r.uses = req[c].uses BY <1>0 DEF Requests
    <3> HIDE DEF r
    <3>3. QED BY <2>1, <3>1, <3>2, ChangesAside DEF Late
  <2>4. QED BY <2>2, <2>3
<1>9. CASE CreateToken(c)
  <2>1. /\ req[c].pc # "idle" /\ GoTo(c, "drop")
        /\ UNCHANGED <<recovery, granted, issued, contended, clock>>
    BY <1>9 DEF CreateToken, At, countVars
  <2>2. QED BY <2>1, MovesAside DEF Late
<1>10. CASE DiscoverTokenKey(c)
  <2>1. req[c].pc = "find" /\ UNCHANGED <<storeVars, next, countVars, histVars>>
    BY <1>10 DEF DiscoverTokenKey, At
  <2>2. CASE Answer(c)
    <3>1. UNCHANGED <<recovery, granted, issued, contended, clock>>
      BY <2>1 DEF storeVars, countVars, histVars, keyVars
    <3>2. QED BY <2>1, <2>2, <3>1, MovesAside
  <2>3. CASE ~Answer(c)
    <3>1. PICK n \in DOMAIN tokens :
              req' = [req EXCEPT ![c].pc = "remove", ![c].name = n]
      BY <1>10, <2>3 DEF DiscoverTokenKey
    <3> DEFINE r == [req[c] EXCEPT !.pc = "remove", !.name = n]
    <3>2. req' = [req EXCEPT ![c] = r] BY <1>0, <3>1
    <3>3. r.pc = "remove" /\ r.op = req[c].op /\ r.uses = req[c].uses BY <1>0 DEF Requests
    <3> HIDE DEF r
    <3>4. QED BY <2>1, <3>2, <3>3, ChangesAside DEF Late
  <2>4. QED BY <2>2, <2>3
<1>11. CASE DeleteToken(c)
  <2>1. /\ req[c].pc # "idle" /\ (Answer(c) \/ GoTo(c, "renew"))
        /\ UNCHANGED <<recovery, granted, issued, contended, clock>>
    BY <1>11 DEF DeleteToken, At, countVars, keyVars
  <2>2. QED BY <2>1, MovesAside DEF Late
<1>12. CASE RefreshToken(c) \/ StoreNewDeviceKey(c) \/ DeleteNewDeviceKey(c)
  <2>1. /\ req[c].pc # "idle" /\ Answer(c)
        /\ UNCHANGED <<recovery, granted, issued, contended, clock>>
    BY <1>12 DEF RefreshToken, StoreNewDeviceKey, DeleteNewDeviceKey, At, countVars,
                 histVars, keyVars
  <2>2. QED BY <2>1, MovesAside
<1>13. CASE GetTokenByName(c)
  <2>1. req[c].pc = "get" /\ UNCHANGED <<storeVars, next, countVars, histVars>>
    BY <1>13 DEF GetTokenByName, At
  <2>2. CASE Answer(c)
    <3>1. UNCHANGED <<recovery, granted, issued, contended, clock>>
      BY <2>1 DEF storeVars, countVars, histVars, keyVars
    <3>2. QED BY <2>1, <2>2, <3>1, MovesAside
  <2>3. CASE ~Answer(c)
    <3> DEFINE r == [req[c] EXCEPT !.pc = "find", !.token = tokens[req[c].name]]
    <3>1. req' = [req EXCEPT ![c] = r] BY <1>0, <1>13, <2>3 DEF GetTokenByName
    <3>2. r.pc = "find" /\ r.op = req[c].op /\ r.uses = req[c].uses BY <1>0 DEF Requests
    <3> HIDE DEF r
    <3>3. QED BY <2>1, <3>1, <3>2, ChangesAside DEF Late
  <2>4. QED BY <2>2, <2>3
<1>14. QED BY <1>1, <1>2, <1>3, <1>4, <1>5, <1>6, <1>7, <1>8, <1>9, <1>10, <1>11, <1>12,
              <1>13 DEF Handle

\* Storing a recovery key: nobody uses it, or it is noted.
LEMMA StoreCounted ==
    ASSUME KeysInv, CountedInv, NEW c \in Clients, StoreRecoveryKey(c)
    PROVE  CountedInv'
<1>1. req[c].pc = "generate" /\ req[c].op = "new_recovery" /\ Answer(c) /\ UNCHANGED clock
  BY DEF StoreRecoveryKey, At, countVars
<1>2. CASE req[c].uses = 0
  <2>1. UNCHANGED <<recovery, granted, issued, contended>>
    BY <1>2 DEF StoreRecoveryKey, keyVars
  <2>2. QED BY <1>1, <2>1, MovesAside
<1>3. CASE req[c].uses # 0
  <2>1. PICK e \in clock .. Never :
          recovery' = [key |-> next, expires |-> e, limited |-> req[c].uses # Unlimited,
                       uses |-> req[c].uses]
    BY <1>3 DEF StoreRecoveryKey
  <2>2. granted' = req[c].uses /\ issued' = 0 /\ contended' = (Busy("recover") # {})
    BY <1>3 DEF StoreRecoveryKey
  <2>3. req' = [req EXCEPT ![c] = Idle] BY <1>1 DEF Answer
  <2>4. Others(c) /\ req'[c] = Idle BY <2>3, Replaced, IdleRecovers
  <2>5. c \notin Busy("recover")' BY <2>4, IdleRecovers DEF Busy
  <2>6. req[c].uses \in Int /\ recovery'.uses = req[c].uses
    BY <2>1 DEF KeysInv, TypeOK, Requests
  <2>7. recovery'.limited => req[c].uses \in Nat
    <3>1. req[c].uses \in Limits \cup {Unlimited} BY <1>1 DEF CountedInv, RecoverOK
    <3>2. QED BY <2>1, <3>1, TokensAssumption
  <2>8. InForce' => recovery'.limited BY DEF InForce
  <2>9. ASSUME ~contended' PROVE CountedBy(c)' /\ \A d \in Busy("recover") : d = c
    <3>1. Busy("recover") = {} BY <2>2, <2>9
    <3>2. QED BY <2>2, <2>5, <2>6, <2>7, <2>8, <3>1 DEF CountedBy
  <2>10. QED BY <2>4, <2>9, AloneCountedNext
<1>4. QED BY <1>2, <1>3

\* A request that uses the recovery key, alone unless it is noted, takes a step that
\* leaves the key as it is: it is answered when its use is not to be written down,
\* or goes on.
LEMMA RecoverMoves ==
    ASSUME KeysInv, CountedInv, NEW c \in Clients, c \in Busy("recover"), Others(c),
           UNCHANGED <<recovery, granted, contended, clock>>,
           ~contended => (c \in Busy("recover")' => Knows(req[c])'),
           ~contended /\ InForce =>
               /\ issued' =< granted
               /\ recovery.uses = granted - issued'
                    + IF c \in Busy("recover")' /\ req'[c].pc \in Late THEN 1 ELSE 0
    PROVE  CountedInv'
<1>1. InForce' <=> InForce BY DEF InForce, IsPast
<1>2. ASSUME ~contended' PROVE CountedBy(c)' /\ \A d \in Busy("recover") : d = c
  <2>1. \A d \in Busy("recover") : d = c BY <1>2 DEF CountedInv
  <2>2. QED BY <1>1, <1>2, <2>1 DEF CountedBy
<1>3. QED BY <1>2, AloneCountedNext

\* What is known of a request that uses the recovery key, alone.
LEMMA RecoverKnows ==
    ASSUME KeysInv, CountedInv, NEW c \in Clients, c \in Busy("recover"), ~contended
    PROVE  /\ Knows(req[c])
           /\ InForce => /\ issued =< granted
                         /\ recovery.uses = granted - issued
                              + IF req[c].pc \in Late THEN 1 ELSE 0
<1>1. \A d \in Busy("recover") : d = c BY DEF CountedInv
<1>2. CountedBy(c) BY <1>1, CountedAlone
<1>3. QED BY <1>2 DEF CountedBy

LEMMA RecoverReads ==
    ASSUME KeysInv, CountedInv, NEW c \in Clients, req[c].op = "recover", NEW from,
           NEW found \in BOOLEAN, NEW to \in RecoverSteps, from # "idle", Read(c, from, found, to),
           ~contended =>
               /\ found => Knows([req[c] EXCEPT !.pc = to]) /\ (to \in Late <=> from \in Late)
               /\ ~found => (InForce => from \notin Late)
    PROVE  CountedInv'
<1>0. req \in [Clients -> Requests] /\ req[c] \in Requests BY DEF KeysInv, TypeOK
<1>1. /\ req[c].pc = from /\ (IF found THEN GoTo(c, to) ELSE Answer(c))
      /\ UNCHANGED <<recovery, granted, issued, contended, clock>>
  BY DEF Read, At, storeVars, countVars, histVars, keyVars
<1>2. c \in Busy("recover") BY <1>1 DEF Busy
<1>3. CASE found
  <2>1. GoTo(c, to) BY <1>1, <1>3
  <2>2. /\ Others(c) /\ req'[c].pc = to /\ req'[c].op = req[c].op
        /\ req'[c].key = req[c].key /\ req'[c].uses = req[c].uses
    BY <1>1, <2>1, SameOperation
  <2>3. c \in Busy("recover")' BY <2>2 DEF Busy, RecoverSteps, Late
  <2>4. ~contended => Knows(req[c])'
    <3>1. ASSUME ~contended PROVE Knows([req[c] EXCEPT !.pc = to]) BY <1>3, <3>1
    <3>2. QED BY <1>0, <1>1, <2>2, <3>1 DEF Knows, Requests
  <2>5. ~contended => (req'[c].pc \in Late <=> req[c].pc \in Late) BY <1>1, <1>3, <2>2
  <2>6. QED BY <1>1, <1>2, <2>2, <2>3, <2>4, <2>5, RecoverKnows, RecoverMoves
<1>4. CASE ~found
  <2>1. req' = [req EXCEPT ![c] = Idle] BY <1>1, <1>4 DEF Answer
  <2>2. Others(c) /\ req'[c] = Idle BY <2>1, Replaced, IdleRecovers
  <2>3. c \notin Busy("recover")' BY <2>2, IdleRecovers DEF Busy
  <2>4. ~contended /\ InForce => req[c].pc \notin Late BY <1>1, <1>4
  <2>5. QED BY <1>1, <1>2, <2>2, <2>3, <2>4, RecoverKnows, RecoverMoves
<1>5. QED BY <1>3, <1>4

\* The steps of the request, one by one.
LEMMA RecoverCounted ==
    ASSUME KeysInv, CountedInv, NEW c \in Clients, Handle(c), req[c].op = "recover"
    PROVE  CountedInv'
<1>0. /\ req \in [Clients -> Requests] /\ req[c] \in Requests
      /\ recovery.uses \in Int /\ granted \in Int /\ issued \in Nat /\ contended \in BOOLEAN
      /\ recovery \in RecoveryKeys
  BY DEF KeysInv, TypeOK, RecoveryKeys
<1>1. req[c].pc # "idle" => req[c].key # 0 /\ req[c].pc \in RecoverSteps
  BY DEF CountedInv, RecoverOK
<1>2. \/ MakeUniqueDeviceName(c) \/ CreateToken(c) \/ CheckRecoveryKeyValid(c)
      \/ CheckRecoveryKey(c) \/ CheckStillValid(c) \/ ReadUsesLeft(c) \/ WriteUsesLeft(c)
  BY <1>1 DEF Handle, IsAuthenticated, FirstStep, GetOwnToken, CheckOwnToken,
     DiscoverTokenKey, DeleteToken, RefreshToken, CheckNotCaller, CheckNameExists,
     GetTokenByName, StoreNewDeviceKey, CheckNewDeviceKey, DeleteNewDeviceKey,
     StoreRecoveryKey, Read, At, RecoverSteps, Late
<1>3. ASSUME req[c].pc # "idle" PROVE c \in Busy("recover") BY <1>3 DEF Busy
<1>4. CASE CheckRecoveryKeyValid(c)
  <2>1. Read(c, "valid", RecoveryValid, "key") /\ RecoveryValid \in BOOLEAN
    BY <1>4 DEF CheckRecoveryKeyValid, RecoveryValid
  <2>2. RecoveryValid => Knows([req[c] EXCEPT !.pc = "key"])
    BY <1>0 DEF RecoveryValid, Knows, Requests, Late
  <2>3. QED BY <2>1, <2>2, RecoverReads DEF RecoverSteps, Late
<1>5. CASE CheckRecoveryKey(c)
  <2>1. Read(c, "key", recovery.key = req[c].key, "name") /\ req[c].pc = "key"
    BY <1>5 DEF CheckRecoveryKey, Read, At
  <2>2. ~contended => Knows(req[c]) BY <1>3, <2>1, RecoverKnows
  <2>3. ~contended /\ recovery.key = req[c].key => Knows([req[c] EXCEPT !.pc = "name"])
    BY <1>0, <2>1, <2>2 DEF Knows, Requests, Late
  <2>4. QED BY <2>1, <2>3, RecoverReads DEF RecoverSteps, Late
<1>6. CASE CheckStillValid(c)
  <2>1. /\ Read(c, "still_valid", RecoveryValid, "uses") /\ req[c].pc = "still_valid"
        /\ RecoveryValid \in BOOLEAN
    BY <1>6 DEF CheckStillValid, Read, At, RecoveryValid
  <2>2. ASSUME ~contended
        PROVE  /\ Knows(req[c])
               /\ InForce => issued =< granted /\ recovery.uses = granted - issued + 1
    BY <1>3, <2>1, <2>2, RecoverKnows DEF Late
  <2>3. ~contended => Knows([req[c] EXCEPT !.pc = "uses"])
    BY <1>0, <2>1, <2>2 DEF Knows, Requests, Late
  <2>4. ~contended /\ InForce => RecoveryValid
    BY <1>0, <1>1, <2>1, <2>2 DEF Knows, RecoveryValid, InForce, Late
  <2>5. QED BY <2>1, <2>3, <2>4, RecoverReads DEF RecoverSteps, Late
<1>7. CASE MakeUniqueDeviceName(c)
  <2>1. /\ req[c].pc = "name"
        /\ UNCHANGED <<recovery, granted, issued, contended, clock>>
    BY <1>7 DEF MakeUniqueDeviceName, At, storeVars, countVars, histVars, keyVars
  <2>2. ASSUME NEW r, req' = [req EXCEPT ![c] = r], r.op = req[c].op, r.key = req[c].key,
               r.pc \in {"name", "store"}
        PROVE  CountedInv'
    <3>1. RecoverOK(r) BY <1>1, <2>1, <2>2 DEF RecoverOK, RecoverSteps, Late
    <3>2. Others(c) /\ req'[c] = r BY <2>2, <3>1, Replaced
    <3>3. c \in Busy("recover")' /\ req'[c].pc \notin Late /\ req[c].pc \notin Late
      BY <2>1, <2>2, <3>2 DEF Busy, Late
    <3>4. ~contended => Knows(req[c]) BY <1>3, <2>1, RecoverKnows
    <3>5. ~contended => Knows(req[c])' BY <2>1, <2>2, <3>2, <3>4 DEF Knows, Late
    <3>6. QED BY <1>3, <2>1, <3>2, <3>3, <3>5, RecoverKnows, RecoverMoves
  <2>3. CASE req[c].name \in DOMAIN tokens
    <3>1. PICK d \in Digits : req' = [req EXCEPT ![c].name.digits = Append(@, d)]
      BY <1>7, <2>3 DEF MakeUniqueDeviceName
    <3> DEFINE r == [req[c] EXCEPT !.name.digits = Append(@, d)]
    <3>2. req' = [req EXCEPT ![c] = r] BY <1>0, <3>1
    <3>3. r.pc = "name" /\ r.op = req[c].op /\ r.key = req[c].key BY <1>0, <2>1 DEF Requests
    <3> HIDE DEF r
    <3>4. QED BY <2>2, <3>2, <3>3
  <2>4. CASE req[c].name \notin DOMAIN tokens
    <3> DEFINE r == [req[c] EXCEPT !.pc = "store", !.since = next]
    <3>1. req' = [req EXCEPT ![c] = r] BY <1>0, <1>7, <2>4 DEF MakeUniqueDeviceName
    <3>2. r.pc = "store" /\ r.op = req[c].op /\ r.key = req[c].key BY <1>0 DEF Requests
    <3> HIDE DEF r
    <3>3. QED BY <2>2, <3>1, <3>2
  <2>5. QED BY <2>3, <2>4
<1>8. CASE CreateToken(c)
  <2>1. /\ req[c].pc = "store" /\ GoTo(c, "still_valid")
        /\ UNCHANGED <<recovery, granted, contended, clock>>
        /\ issued' = IF req[c].key = recovery.key THEN issued + 1 ELSE issued
    BY <1>8 DEF CreateToken, At, countVars
  <2>2. /\ Others(c) /\ req'[c].pc = "still_valid" /\ req'[c].op = req[c].op
        /\ req'[c].key = req[c].key
    BY <2>1, SameOperation DEF RecoverSteps, Late
  <2>3. c \in Busy("recover")' /\ req'[c].pc \in Late /\ req[c].pc \notin Late
    BY <2>1, <2>2 DEF Busy, Late
  <2>4. ASSUME ~contended
        PROVE  /\ req[c].key = recovery.key /\ (recovery.limited => recovery.uses > 0)
               /\ InForce => recovery.uses = granted - issued
    BY <1>0, <1>3, <2>1, <2>4, RecoverKnows DEF Knows, Late
  <2>5. ~contended => Knows(req[c])' BY <2>1, <2>2, <2>4 DEF Knows
  <2>6. ~contended /\ InForce => issued' =< granted /\ recovery.uses = granted - issued' + 1
    BY <1>0, <2>1, <2>4 DEF InForce
  <2>7. QED BY <1>3, <2>1, <2>2, <2>3, <2>5, <2>6, RecoverMoves
<1>9. CASE ReadUsesLeft(c)
  <2>1. /\ req[c].pc = "uses"
        /\ UNCHANGED <<recovery, granted, issued, contended, clock>>
    BY <1>9 DEF ReadUsesLeft, At, storeVars, countVars, histVars, keyVars
  <2>2. CASE recovery.limited
    <3> DEFINE r == [req[c] EXCEPT !.pc = "decrement", !.uses = recovery.uses]
    <3>1. req' = [req EXCEPT ![c] = r] BY <1>0, <1>9, <2>2 DEF ReadUsesLeft
    <3>2. /\ r.pc = "decrement" /\ r.op = "recover" /\ r.key = req[c].key
          /\ r.uses = recovery.uses
      BY <1>0 DEF Requests
    <3> HIDE DEF r
    <3>3. RecoverOK(r) BY <1>1, <2>1, <3>2 DEF RecoverOK, RecoverSteps, Late
    <3>4. Others(c) /\ req'[c] = r BY <3>1, <3>3, Replaced
    <3>5. c \in Busy("recover")' /\ req'[c].pc \in Late /\ req[c].pc \in Late
      BY <2>1, <3>2, <3>4 DEF Busy, Late
    <3>6. ~contended => Knows(req[c]) BY <1>3, <2>1, RecoverKnows
    <3>7. ~contended => Knows(req[c])' BY <2>1, <2>2, <3>2, <3>4, <3>6 DEF Knows, Late
    <3>8. QED BY <1>3, <2>1, <3>4, <3>5, <3>7, RecoverKnows, RecoverMoves
  <2>3. CASE ~recovery.limited
    <3>1. req' = [req EXCEPT ![c] = Idle] BY <1>9, <2>3 DEF ReadUsesLeft, Answer
    <3>2. Others(c) /\ req'[c] = Idle BY <3>1, Replaced, IdleRecovers
    <3>3. c \notin Busy("recover")' BY <3>2, IdleRecovers DEF Busy
    <3>4. ~InForce BY <2>3 DEF InForce
    <3>5. QED BY <1>3, <2>1, <3>2, <3>3, <3>4, RecoverMoves
  <2>4. QED BY <2>2, <2>3
<1>10. CASE WriteUsesLeft(c)
  <2>1. /\ req[c].pc = "decrement" /\ req' = [req EXCEPT ![c] = Idle]
        /\ recovery' = [recovery EXCEPT !.limited = TRUE, !.uses = req[c].uses - 1]
        /\ UNCHANGED <<granted, issued, contended, clock>>
    BY <1>10 DEF WriteUsesLeft, Answer, At, countVars, histVars, keyVars
  <2>2. Others(c) /\ req'[c] = Idle BY <2>1, Replaced, IdleRecovers
  <2>3. c \notin Busy("recover")' BY <2>2, IdleRecovers DEF Busy
  <2>4. ASSUME ~contended' PROVE CountedBy(c)' /\ \A d \in Busy("recover") : d = c
    <3>1. ~contended BY <2>1, <2>4
    <3>2. \A d \in Busy("recover") : d = c BY <1>3, <2>1, <3>1 DEF CountedInv
    <3>3. /\ recovery.limited /\ req[c].uses = recovery.uses
          /\ InForce => issued =< granted /\ recovery.uses = granted - issued + 1
      BY <1>3, <2>1, <3>1, RecoverKnows DEF Knows, Late
    <3>4. recovery'.expires = recovery.expires /\ recovery'.uses = req[c].uses - 1
      BY <1>0, <2>1 DEF RecoveryKeys
    <3>5. InForce' => InForce BY <2>1, <3>3, <3>4 DEF InForce, IsPast
    <3>6. InForce' => issued' =< granted' /\ recovery'.uses = granted' - issued'
      BY <1>0, <2>1, <3>3, <3>4, <3>5
    <3>7. recovery'.uses = granted' - issued' + 0 <=> recovery'.uses = granted' - issued'
      BY <1>0, <2>1
    <3>8. QED BY <2>3, <3>2, <3>6, <3>7 DEF CountedBy
  <2>5. QED BY <2>2, <2>4, AloneCountedNext
<1>11. QED BY <1>2, <1>4, <1>5, <1>6, <1>7, <1>8, <1>9, <1>10

LEMMA CountedInvInit == Init => CountedInv
<1> SUFFICES ASSUME Init PROVE CountedInv OBVIOUS
<1>1. \A c \in Clients : req[c] = Idle BY DEF Init
<1>2. Busy("recover") = {} BY <1>1, IdleRecovers DEF Busy
<1>3. \A c \in Clients : RecoverOK(req[c]) BY <1>1, IdleRecovers
<1>4. ~InForce BY DEF Init, InForce, NoRecovery
<1>5. QED BY <1>2, <1>3, <1>4 DEF CountedInv

LEMMA CountedInvStep == KeysInv /\ CountedInv /\ [Next]_vars => CountedInv'
<1> SUFFICES ASSUME KeysInv, CountedInv, [Next]_vars PROVE CountedInv' OBVIOUS
<1>1. ASSUME NEW c \in Clients, Ask(c) \/ Handle(c) PROVE CountedInv'
  BY <1>1, AskCounted, StoreCounted, HandleAside, RecoverCounted
<1>2. ASSUME UNCHANGED <<recovery, req, granted, issued, contended>>, InForce' => InForce
      PROVE  CountedInv'
  <2>1. Busy("recover")' = Busy("recover") BY <1>2 DEF Busy
  <2>2. QED BY <1>2, <2>1 DEF CountedInv, Knows
<1>3. CASE Tick
  <2>1. UNCHANGED <<recovery, req, granted, issued, contended>> /\ clock' = clock + 1
    BY <1>3 DEF Tick, storeVars, histVars, keyVars
  <2>2. clock \in Nat /\ recovery.expires \in Nat BY DEF KeysInv, TypeOK, RecoveryKeys
  <2>3. InForce' => InForce BY <2>1, <2>2 DEF InForce, IsPast
  <2>4. QED BY <1>2, <2>1, <2>3
<1>4. CASE Restart
  <2>1. /\ \A c \in Clients : req'[c] = Idle
        /\ contended' = (contended \/ Busy("recover") # {})
        /\ UNCHANGED <<recovery, granted, issued, clock>>
    BY <1>4 DEF Restart, storeVars
  <2>2. Busy("recover")' = {} BY <2>1, IdleRecovers DEF Busy
  <2>3. \A c \in Clients : RecoverOK(req'[c]) BY <2>1, IdleRecovers
  <2>4. InForce' <=> InForce BY <2>1 DEF InForce, IsPast
  <2>5. ~contended' => Busy("recover") = {} /\ ~contended BY <2>1 DEF KeysInv, TypeOK
  <2>6. QED BY <2>1, <2>2, <2>3, <2>4, <2>5 DEF CountedInv
<1>5. CASE UNCHANGED vars
  <2>1. UNCHANGED <<recovery, req, granted, issued, contended, clock>>
    BY <1>5 DEF vars, storeVars, countVars, histVars, keyVars
  <2>2. QED BY <1>2, <2>1 DEF InForce, IsPast
<1>6. QED BY <1>1, <1>3, <1>4, <1>5 DEF Next

\* Whatever requests race, whatever keys are stored and deleted meanwhile and however
\* the API restarts: a key for a new device gives one token, and the uses of the
\* recovery key are counted as long as those who use it do not meet.
THEOREM TokensInvariance == Spec => []TokensInv
<1>1. Init => CountedInv BY CountedInvInit
<1>2. KeysInv /\ CountedInv /\ [Next]_vars => CountedInv' BY CountedInvStep
<1>3. Spec => []CountedInv BY <1>1, <1>2, KeysInvariance, PTL DEF Spec
<1>4. KeysInv /\ CountedInv => TokensInv BY DEF TokensInv
<1>5. QED BY <1>3, <1>4, KeysInvariance, PTL

\* A recovery key that is limited to some uses gives that many tokens and no more,
\* while the requests that use it come one after the other
\* (_decrement_recovery_token).
THEOREM UsesCountedAloneHolds == Spec => []UsesCountedAlone
<1>1. TokensInv => UsesCountedAlone
  <2> SUFFICES ASSUME KeysInv, CountedInv, Busy("recover") = {}, InForce, ~contended
               PROVE  UsesMatch
    BY DEF TokensInv, UsesCountedAlone, Settled
  <2>1. granted \in Int /\ issued \in Nat BY DEF KeysInv, TypeOK
  <2>2. issued =< granted /\ recovery.uses = granted - issued + 0 BY DEF CountedInv
  <2>3. QED BY <2>1, <2>2 DEF UsesMatch
<1>2. QED BY <1>1, TokensInvariance, PTL
=============================================================================
