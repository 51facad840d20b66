---------------------------- MODULE AuthService ----------------------------
(***************************************************************************)
(* auth-service: the credentials table, the three Redis keys of an account *)
(* and the handlers of register, login, refresh, logout, changePassword    *)
(* and withdraw, one action per awaited call.  adminLogin and the refresh  *)
(* and logout of an administrator are the same handlers on keys of their   *)
(* own.  A slot serves one call after another.                             *)
(*                                                                         *)
(* A refresh token is a signed pair: the account (sub) and the second it   *)
(* was signed in (iat); nothing else in it varies, so two signed in the    *)
(* same second are equal.                                                  *)
(***************************************************************************)
EXTENDS UserService

CONSTANTS Slots,         \* calls served at the same time
          MaxTime,       \* the clock stops here
          RefreshTTL,    \* JWT_REFRESH_EXPIRES_IN
          GraceTTL,      \* REFRESH_GRACE_TTL_SECONDS
          AbsoluteMax    \* JWT_REFRESH_ABSOLUTE_MAX_DAYS

ASSUME AuthAssumption == /\ MaxUsers \in Nat \ {0}
                         /\ MaxTime \in Nat
                         /\ RefreshTTL \in Nat \ {0}
                         /\ GraceTTL \in Nat \ {0}
                         /\ AbsoluteMax \in Nat

Times == 0..MaxTime
Unset == MaxTime + 1
Tokens == [sub : Ids, iat : Times]
NoToken == [sub |-> NoId, iat |-> 0]
Expired(token, time) == time >= token.iat + RefreshTTL

Ops == {"none", "register", "login", "refresh", "logout", "password",
        "withdraw", "update"}

Steps == {"idle", "exists", "insert", "hash", "find", "check", "issue",
          "age", "reset", "compare", "grace", "resolve", "reuse", "rotate",
          "store", "saveHash", "findUser", "move", "delHash", "saveUser",
          "delToken", "delGrace", "delIssued",
          "answered", "done", "refused"}

VARIABLES now,       \* the clock, in seconds since some start
          hash,      \* the accounts with a credentials row
          token,     \* refresh:user:<id>
          grace,     \* refresh:grace:user:<id>
          graceEnds, \* when that key expires
          issued,    \* refresh:issuedAt:user:<id>
          at,        \* where the handler of each slot stands
          op,        \* which call the slot serves
          acct,      \* the account it acts for, once known
          shown,     \* the refresh token presented
          out        \* the refresh token signed, or read to be answered

redisVars == <<token, grace, graceEnds, issued>>
callVars == <<op, acct, shown, out>>
authVars == <<now, hash, redisVars, at, callVars>>

AuthType ==
    /\ now \in Times
    /\ hash \in SUBSET Ids
    /\ token \in [Ids -> Tokens \cup {NoToken}]
    /\ grace \in [Ids -> Tokens \cup {NoToken}]
    /\ graceEnds \in [Ids -> 0..(MaxTime + GraceTTL)]
    /\ issued \in [Ids -> Times \cup {Unset}]
    /\ at \in [Slots -> Steps]
    /\ op \in [Slots -> Ops]
    /\ acct \in [Slots -> Ids \cup {NoId}]
    /\ shown \in [Slots -> Tokens \cup {NoToken}]
    /\ out \in [Slots -> Tokens \cup {NoToken}]

AuthInit ==
    /\ now = 0
    /\ hash = {}
    /\ token = [id \in Ids |-> NoToken]
    /\ grace = [id \in Ids |-> NoToken]
    /\ graceEnds = [id \in Ids |-> 0]
    /\ issued = [id \in Ids |-> Unset]
    /\ at = [s \in Slots |-> "idle"]
    /\ op = [s \in Slots |-> "none"]
    /\ acct = [s \in Slots |-> NoId]
    /\ shown = [s \in Slots |-> NoToken]
    /\ out = [s \in Slots |-> NoToken]

\* A second passes, and Redis drops the keys whose time is up.
Tick ==
    /\ now < MaxTime
    /\ now' = now + 1
    /\ token' = [id \in Ids |-> IF Expired(token[id], now + 1)
                                THEN NoToken ELSE token[id]]
    /\ grace' = [id \in Ids |-> IF graceEnds[id] <= now + 1
                                THEN NoToken ELSE grace[id]]
    /\ graceEnds' = [id \in Ids |-> IF graceEnds[id] <= now + 1
                                    THEN 0 ELSE graceEnds[id]]
    /\ UNCHANGED <<hash, issued, at, callVars>>

Step(s, from, to) == at[s] = from /\ at' = [at EXCEPT ![s] = to]

\* A step that reads, or fails, and changes nothing but where the handler is.
Moves(s, from, to) == /\ Step(s, from, to)
                      /\ UNCHANGED <<now, hash, redisVars, callVars>>

\* A call that ends with the account's three keys deleted.
Ends(s) == op[s] \in {"logout", "password", "withdraw"}

\* A call that can end with tokens for the client.
Answers(s) == op[s] \in {"register", "login", "refresh"}

Begin(s, what, first, id, presented) ==
    /\ Step(s, "idle", first)
    /\ op' = [op EXCEPT ![s] = what]
    /\ acct' = [acct EXCEPT ![s] = id]
    /\ shown' = [shown EXCEPT ![s] = presented]
    /\ out' = [out EXCEPT ![s] = NoToken]
    /\ UNCHANGED <<now, hash, redisVars>>

-----------------------------------------------------------------------------
\* register and login

\* createUser has answered with the new profile's id.
Registered(s, id) == /\ Step(s, "insert", "hash")
                     /\ acct' = [acct EXCEPT ![s] = id]
                     /\ UNCHANGED <<now, hash, redisVars, op, shown, out>>

SaveCredential(s) == /\ Step(s, "hash", "issue")
                     /\ hash' = hash \cup {acct[s]}
                     /\ UNCHANGED <<now, redisVars, callVars>>

\* getUserByEmail has answered.
Found(s, id) == /\ Step(s, "find", "check")
                /\ acct' = [acct EXCEPT ![s] = id]
                /\ UNCHANGED <<now, hash, redisVars, op, shown, out>>

\* The credentials row is read and the password compared with its hash.
CheckPassword(s, right) ==
    \/ /\ acct[s] \in hash /\ right
       /\ \/ op[s] = "login" /\ Moves(s, "check", "issue")
          \/ op[s] = "password" /\ Moves(s, "check", "saveHash")
    \/ ~(acct[s] \in hash /\ right) /\ Moves(s, "check", "refused")

\* issueTokens without previousToken: both tokens are signed, and the start of
\* the session recorded.
StartSession(s) ==
    /\ Step(s, "issue", "store")
    /\ out' = [out EXCEPT ![s] = [sub |-> acct[s], iat |-> now]]
    /\ issued' = [issued EXCEPT ![acct[s]] = now]
    /\ UNCHANGED <<now, hash, token, grace, graceEnds, op, acct, shown>>

-----------------------------------------------------------------------------
\* refresh

\* assertWithinAbsoluteLifetime.
CheckAge(s) ==
    /\ at[s] = "age"
    /\ LET start == issued[acct[s]]
       IN  \/ start = Unset /\ Moves(s, "age", "reset")
           \/ /\ start # Unset
              /\ \/ now - start <= AbsoluteMax /\ Moves(s, "age", "compare")
                 \/ now - start > AbsoluteMax /\ Moves(s, "age", "delToken")

ResetAge(s) == /\ Step(s, "reset", "compare")
               /\ issued' = [issued EXCEPT ![acct[s]] = now]
               /\ UNCHANGED <<now, hash, token, grace, graceEnds, callVars>>

\* The token on record is the one presented, or another one, or missing.
CompareToken(s) ==
    /\ at[s] = "compare"
    /\ LET stored == token[acct[s]]
       IN  \/ stored = shown[s] /\ Moves(s, "compare", "resolve")
           \/ /\ stored \notin {shown[s], NoToken}
              /\ Step(s, "compare", "grace")
              /\ out' = [out EXCEPT ![s] = stored]
              /\ UNCHANGED <<now, hash, redisVars, op, acct, shown>>
           \/ stored = NoToken /\ Moves(s, "compare", "refused")

CompareGrace(s) ==
    /\ at[s] = "grace"
    /\ \/ grace[acct[s]] = shown[s] /\ Moves(s, "grace", "reuse")
       \/ grace[acct[s]] # shown[s] /\ Moves(s, "grace", "refused")

\* resolvePrincipal has found the account of the address: the session goes on
\* for it, by a rotation or with the token on record.
Resolved(s, id) ==
    /\ \/ Step(s, "resolve", "rotate")
       \/ Step(s, "reuse", "answered")
    /\ acct' = [acct EXCEPT ![s] = id]
    /\ UNCHANGED <<now, hash, redisVars, op, shown, out>>

NotResolved(s) == Moves(s, "resolve", "refused") \/ Moves(s, "reuse", "refused")

\* Mutant: the grace period is counted in milliseconds.
RotateInMillis(s) ==
    /\ Step(s, "rotate", "store")
    /\ out' = [out EXCEPT ![s] = [sub |-> acct[s], iat |-> now]]
    /\ grace' = [grace EXCEPT ![acct[s]] = shown[s]]
    /\ graceEnds' = [graceEnds EXCEPT ![acct[s]] = now + 1000 * GraceTTL]
    /\ UNCHANGED <<now, hash, token, issued, op, acct, shown>>

\* Mutant: the start of the session moves with every rotation.
RotateAndRestart(s) ==
    /\ Step(s, "rotate", "store")
    /\ out' = [out EXCEPT ![s] = [sub |-> acct[s], iat |-> now]]
    /\ grace' = [grace EXCEPT ![acct[s]] = shown[s]]
    /\ graceEnds' = [graceEnds EXCEPT ![acct[s]] = now + GraceTTL]
    /\ issued' = [issued EXCEPT ![acct[s]] = now]
    /\ UNCHANGED <<now, hash, token, op, acct, shown>>

\* issueTokens with previousToken: the old token gets its grace period.
Rotate(s) ==
    /\ Step(s, "rotate", "store")
    /\ out' = [out EXCEPT ![s] = [sub |-> acct[s], iat |-> now]]
    /\ grace' = [grace EXCEPT ![acct[s]] = shown[s]]
    /\ graceEnds' = [graceEnds EXCEPT ![acct[s]] = now + GraceTTL]
    /\ UNCHANGED <<now, hash, token, issued, op, acct, shown>>

\* The last step of issueTokens; a token whose time is up already is stored
\* for one second more.
StoreToken(s) == /\ Step(s, "store", "answered")
                 /\ token' = [token EXCEPT ![acct[s]] = out[s]]
                 /\ UNCHANGED <<now, hash, grace, graceEnds, issued, callVars>>

-----------------------------------------------------------------------------
\* changePassword and withdraw, and the end of a session

\* TypeORM inserts the row again when a withdrawal has deleted it meanwhile.
SaveHash(s) == /\ Step(s, "saveHash", "delToken")
               /\ hash' = hash \cup {acct[s]}
               /\ UNCHANGED <<now, redisVars, callVars>>

DeleteHash(s) == /\ Step(s, "delHash", "delToken")
                 /\ hash' = hash \ {acct[s]}
                 /\ UNCHANGED <<now, redisVars, callVars>>

\* Mutant: the key is named for the other kind of principal.
DeleteKeyOfAdmin(s) == Moves(s, "delToken", "delGrace")

DeleteToken(s) == /\ Step(s, "delToken", "delGrace")
                  /\ token' = [token EXCEPT ![acct[s]] = NoToken]
                  /\ UNCHANGED <<now, hash, grace, graceEnds, issued, callVars>>

DeleteGrace(s) == /\ Step(s, "delGrace", "delIssued")
                  /\ grace' = [grace EXCEPT ![acct[s]] = NoToken]
                  /\ graceEnds' = [graceEnds EXCEPT ![acct[s]] = 0]
                  /\ UNCHANGED <<now, hash, token, issued, callVars>>

\* The third key; a refresh that has come too late is refused after that.
DeleteIssued(s) ==
    /\ Step(s, "delIssued", IF op[s] = "refresh" THEN "refused" ELSE "done")
    /\ issued' = [issued EXCEPT ![acct[s]] = Unset]
    /\ UNCHANGED <<now, hash, token, grace, graceEnds, callVars>>
=============================================================================
