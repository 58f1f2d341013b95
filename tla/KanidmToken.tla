----------------------------- MODULE KanidmToken -----------------------------
(***************************************************************************)
(* A query to Kanidm and the token it is sent with                         *)
(* (repositories/users/kanidm_user_repository.py, KanidmAdminToken and     *)
(* _send_query; utils/__init__.py, temporary_env_var).                     *)
(*                                                                         *)
(* The token comes from Redis, from a file that NixOS provides, or, as a   *)
(* last resort, is generated with Kanidm's command line: the password of   *)
(* idm_admin is reset, handed to `kanidm login` in an environment variable *)
(* of the API's own process, and a token is generated.  Queries run in one *)
(* event loop; one action is what a query does from one await to the next. *)
(* `kanidm login` is started before the loop runs on, with the password    *)
(* that the query has just set, and Kanidm looks at it at any later time.  *)
(*                                                                         *)
(* Tokens and passwords are numbered as they are made; 0 is none.          *)
(***************************************************************************)
EXTENDS Naturals

CONSTANTS Callers,                     \* each with a query under way at once
          MaxQueries, MaxQueryFaults   \* bounds

ASSUME KanidmAssumption == MaxQueries \in Nat /\ MaxQueryFaults \in Nat

VARIABLES
    cached,       \* Redis: the token in use
    file,         \* KANIDM_ADMIN_TOKEN_FILE: its token
    environ,      \* os.environ: KANIDM_PASSWORD
    valid,        \* Kanidm: the tokens it accepts
    password,     \* Kanidm: the password of idm_admin
    up,           \* Kanidm answers
    query,        \* for each caller, its query
    fresh,        \* the next number
    queries, queryFaults,
    disturbed     \* history: queries that overlapped or met a fault

kanidmVars == <<valid, password, up>>
tokenVars == <<cached, file, environ, kanidmVars, query, fresh, queries, queryFaults, disturbed>>

-----------------------------------------------------------------------------

Rest == {"idle", "failed"}
Pcs  == Rest \cup {"get", "file", "adopt", "probe", "reset", "login", "generate",
                   "save", "send", "forget"}
Queries == [pc : Pcs, attempt : 1 .. 2, token : Nat, rejected : Nat,
            password : Nat, old : Nat]
NoQuery == [pc |-> "idle", attempt |-> 1, token |-> 0, rejected |-> 0,
         password |-> 0, old |-> 0]

TokenTypeOK ==
    /\ cached \in Nat /\ file \in Nat /\ environ \in Nat
    /\ valid \subseteq Nat /\ password \in Nat /\ up \in BOOLEAN
    /\ query \in [Callers -> Queries]
    /\ fresh \in Nat /\ queries \in Nat /\ queryFaults \in Nat
    /\ disturbed \subseteq Callers

\* Tokens 1 and 2 may be known from before, and be good or not.
TokenInit ==
    /\ cached \in 0 .. 1 /\ file \in 0 .. 2 /\ valid \in SUBSET (1 .. 2)
    /\ environ = 0 /\ password = 0 /\ up = TRUE
    /\ query = [c \in Callers |-> NoQuery]
    /\ fresh = 3 /\ queries = 0 /\ queryFaults = 0 /\ disturbed = {}

AtQuery(c, pc)   == query[c].pc = pc
GoOn(c, pc) == query' = [query EXCEPT ![c].pc = pc]
Asking        == {c \in Callers : query[c].pc \notin Rest}

\* Between the two ends of temporary_env_var.
Inside(c) == query[c].pc \in {"login", "generate"}

-----------------------------------------------------------------------------
(* KanidmAdminToken.get                                                    *)

ReadCache(c) ==
    /\ AtQuery(c, "get")
    /\ IF cached # 0
       THEN query' = [query EXCEPT ![c].pc = "send", ![c].token = cached]
       ELSE GoOn(c, "file")
    /\ UNCHANGED <<cached, file, environ, kanidmVars, fresh, queries, queryFaults, disturbed>>

\* _get_admin_token_from_env reads the file, then puts its token in Redis.
ReadFile(c) ==
    /\ AtQuery(c, "file")
    /\ IF file # 0
       THEN query' = [query EXCEPT ![c].pc = "adopt", ![c].token = file]
       ELSE GoOn(c, "reset")
    /\ UNCHANGED <<cached, file, environ, kanidmVars, fresh, queries, queryFaults, disturbed>>

\* Variant: once a token was rejected, the file is not considered.
AdoptFirstOnly(c) ==
    /\ AtQuery(c, "adopt")
    /\ cached' = query[c].token
    /\ GoOn(c, IF query[c].rejected = 0 THEN "send" ELSE "reset")
    /\ UNCHANGED <<file, environ, kanidmVars, fresh, queries, queryFaults, disturbed>>

AdoptFileToken(c) ==
    /\ AtQuery(c, "adopt")
    /\ cached' = query[c].token
    /\ GoOn(c, IF query[c].rejected = 0 THEN "send"
               ELSE IF query[c].token # query[c].rejected THEN "probe" ELSE "reset")
    /\ UNCHANGED <<file, environ, kanidmVars, fresh, queries, queryFaults, disturbed>>

\* Variant: a token other than the rejected one is taken to be good.
ProbeNot(c) ==
    /\ AtQuery(c, "probe")
    /\ GoOn(c, "send")
    /\ UNCHANGED <<cached, file, environ, kanidmVars, fresh, queries, queryFaults, disturbed>>

\* _is_token_valid
ProbeToken(c) ==
    /\ AtQuery(c, "probe")
    /\ GoOn(c, IF up /\ query[c].token \in valid THEN "send" ELSE "reset")
    /\ UNCHANGED <<cached, file, environ, kanidmVars, fresh, queries, queryFaults, disturbed>>

-----------------------------------------------------------------------------
(* _reset_and_save_idm_admin_password and _create_and_save_token           *)

\* The reset blocks the loop; the variable is set and `kanidm login` started
\* before it runs on.
ResetPassword(c) ==
    /\ AtQuery(c, "reset")
    /\ password' = fresh /\ fresh' = fresh + 1
    /\ environ' = fresh
    /\ query' = [query EXCEPT ![c].pc = "login", ![c].password = fresh, ![c].old = environ]
    /\ UNCHANGED <<cached, file, valid, up, queries, queryFaults, disturbed>>

\* Variant: temporary_env_var puts the old value back whether or not the
\* variable is still there.
LeaveAlways(c) == environ' = query[c].old

\* The end of temporary_env_var: when somebody else has deleted the variable,
\* deleting it raises and the old value is not put back.
LeaveBlock(c) == environ' = IF environ = 0 THEN 0 ELSE query[c].old

Login(c) ==
    /\ AtQuery(c, "login")
    /\ IF query[c].password = password
       THEN GoOn(c, "generate") /\ UNCHANGED environ
       ELSE GoOn(c, "failed") /\ LeaveBlock(c)
    /\ UNCHANGED <<cached, file, kanidmVars, fresh, queries, queryFaults, disturbed>>

GenerateToken(c) ==
    /\ AtQuery(c, "generate")
    /\ valid' = valid \cup {fresh} /\ fresh' = fresh + 1
    /\ LeaveBlock(c)
    /\ query' = [query EXCEPT ![c].pc = IF environ = 0 THEN "failed" ELSE "save",
                              ![c].token = fresh]
    /\ UNCHANGED <<cached, file, password, up, queries, queryFaults, disturbed>>

SaveToken(c) ==
    /\ AtQuery(c, "save")
    /\ cached' = query[c].token
    /\ GoOn(c, "send")
    /\ UNCHANGED <<file, environ, kanidmVars, fresh, queries, queryFaults, disturbed>>

-----------------------------------------------------------------------------
(* _send_query                                                             *)

StartQuery(c) ==
    /\ query[c].pc \in Rest
    /\ queries < MaxQueries /\ queries' = queries + 1
    /\ query' = [query EXCEPT ![c] = [NoQuery EXCEPT !.pc = "get"]]
    /\ disturbed' = IF Asking = {} /\ up THEN disturbed \ {c}
                    ELSE disturbed \cup Asking \cup {c}
    /\ UNCHANGED <<cached, file, environ, kanidmVars, fresh, queryFaults>>

Rejected(c) == query[c].token \notin valid

\* An answer other than "notauthenticated" ends the query.
SendRequest(c) ==
    /\ AtQuery(c, "send")
    /\ GoOn(c, IF ~up THEN "failed"
               ELSE IF ~Rejected(c) THEN "idle"
               ELSE IF query[c].attempt = 1 THEN "forget" ELSE "failed")
    /\ UNCHANGED <<cached, file, environ, kanidmVars, fresh, queries, queryFaults, disturbed>>

ForgetToken(c) ==
    /\ AtQuery(c, "forget")
    /\ cached' = 0
    /\ query' = [query EXCEPT ![c].pc = "file", ![c].attempt = 2,
                              ![c].rejected = query[c].token]
    /\ UNCHANGED <<file, environ, kanidmVars, fresh, queries, queryFaults, disturbed>>

-----------------------------------------------------------------------------
(* What goes wrong around the queries                                      *)

Fault ==
    /\ queryFaults < MaxQueryFaults /\ queryFaults' = queryFaults + 1
    /\ disturbed' = disturbed \cup Asking
    /\ UNCHANGED queries

CommandFails(c) ==
    /\ query[c].pc \in {"reset", "login", "generate"}
    /\ Fault
    /\ GoOn(c, "failed")
    /\ IF Inside(c) THEN LeaveBlock(c) ELSE UNCHANGED environ
    /\ UNCHANGED <<cached, file, kanidmVars, fresh>>

TokenRevoked ==
    /\ Fault
    /\ \E t \in valid : valid' = valid \ {t}
    /\ UNCHANGED <<cached, file, environ, password, up, query, fresh>>

\* NixOS puts a new token in the file.
FileRotated ==
    /\ Fault
    /\ file' = fresh /\ valid' = valid \cup {fresh} /\ fresh' = fresh + 1
    /\ UNCHANGED <<cached, environ, password, up, query>>

KanidmStops ==
    /\ up /\ up' = FALSE
    /\ Fault
    /\ UNCHANGED <<cached, file, environ, valid, password, query, fresh>>

KanidmStarts ==
    /\ ~up /\ up' = TRUE
    /\ UNCHANGED <<cached, file, environ, valid, password, query, fresh, queries,
                   queryFaults, disturbed>>

ApiRestarts ==
    /\ Fault
    /\ query' = [c \in Callers |-> NoQuery] /\ environ' = 0
    /\ UNCHANGED <<cached, file, kanidmVars, fresh>>

Step(c) ==
    \/ ReadCache(c) \/ ReadFile(c) \/ AdoptFileToken(c) \/ ProbeToken(c)
    \/ ResetPassword(c) \/ Login(c) \/ GenerateToken(c) \/ SaveToken(c)
    \/ SendRequest(c) \/ ForgetToken(c)

TokenNext ==
    \/ \E c \in Callers : StartQuery(c) \/ Step(c) \/ CommandFails(c)
    \/ TokenRevoked \/ FileRotated \/ KanidmStops \/ KanidmStarts \/ ApiRestarts

TokenSpec == TokenInit /\ [][TokenNext]_tokenVars
=============================================================================
