------------------------ MODULE KanidmTokenProperties ------------------------
(* What the queries to Kanidm promise.                                       *)
EXTENDS KanidmToken

(* The password of idm_admin is in the environment of the API only while     *)
(* some query that found the variable unset still needs it: when all have    *)
(* left temporary_env_var, in whatever order and by whatever error, it is    *)
(* gone (temporary_env_var: "automatic cleanup after exiting the block").    *)
PasswordNotLeft ==
    environ # 0 => \E c \in Callers : Inside(c) /\ query[c].old = 0

(* The shape of the state: the types, the numbers that were given out, a     *)
(* query has a rejected token exactly in its second attempt (_send_query),   *)
(* and the password is not left in the environment.                          *)
PasswordInv ==
    /\ TokenTypeOK
    /\ password < fresh /\ environ < fresh /\ cached < fresh /\ file < fresh
    /\ \A t \in valid : t # 0 /\ t < fresh
    /\ \A c \in Callers :
          /\ query[c].token < fresh /\ query[c].password < fresh /\ query[c].old < fresh
          /\ query[c].pc \notin Rest =>
                (query[c].attempt = 2 <=> query[c].rejected # 0)
          /\ query[c].pc \in {"adopt", "probe", "save", "send", "forget"} =>
                query[c].token # 0
          /\ AtQuery(c, "forget") => query[c].attempt = 1
    /\ PasswordNotLeft

(* Whatever the token in Redis and the token in the file are worth, a query  *)
(* that overlaps no other and meets no fault is answered: a stale token is   *)
(* replaced on the way (_send_query, KanidmAdminToken.get).                  *)
QueryHeals == \A c \in Callers : AtQuery(c, "failed") => c \in disturbed

(* The password of idm_admin is reset only as a last resort: a query that is *)
(* alone gets there only when neither the cache nor the file has a token     *)
(* that Kanidm accepts (KanidmAdminToken).                                   *)
ResetIsLastResort ==
    \A c \in Callers :
        AtQuery(c, "reset") /\ c \notin disturbed => valid \cap {cached, file} = {}

-----------------------------------------------------------------------------

\* What a query that nothing disturbs knows of the tokens, step by step.
CalmOK(c) ==
    LET q == query[c] IN
    /\ q.pc = "get" => q.attempt = 1
    /\ q.pc \in {"file", "adopt"} => cached = 0 /\ (q.attempt = 2 => q.rejected \notin valid)
    /\ q.pc \in {"adopt", "probe"} => q.token = file
    /\ q.pc = "probe" => cached = file
    /\ q.pc = "reset" => valid \cap {cached, file} = {}
    /\ Inside(c) => environ # 0
    /\ q.pc = "login" => q.password = password
    /\ q.pc = "save" \/ (q.pc = "send" /\ q.attempt = 2) => q.token \in valid
    /\ q.pc = "forget" => q.token \notin valid

\* A query that nothing disturbs is the only one, and Kanidm answers.
CalmInv == \A c \in Asking \ disturbed : up /\ Asking = {c} /\ CalmOK(c)

(* The invariant: a query that is alone knows what the tokens are worth, and *)
(* is answered.                                                              *)
KanidmInv == PasswordInv /\ CalmInv /\ QueryHeals
=============================================================================
