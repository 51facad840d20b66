------------------------------ MODULE Sessions ------------------------------
(***************************************************************************)
(* The sessions of one customer: browsers that hold the refresh cookie and *)
(* an access token, the api-gateway that turns their requests into calls,  *)
(* auth-service and user-service.  Two calls of the same customer can be   *)
(* served at the same time, and each loses control at every await.         *)
(***************************************************************************)
EXTENDS AuthService

CONSTANTS Browsers,
          MaxCalls,   \* requests the browsers send, at most
          MaxFaults   \* calls that end half-way, at most

ASSUME SessionsAssumption == MaxCalls \in Nat /\ MaxFaults \in Nat

VARIABLES cookie,    \* the refreshToken cookie of each browser
          access,    \* the account of its access token, or NoId
          web,       \* the browser each slot serves, or "none"
          calls, faults,
          \* history, which no action reads:
          loginAt,   \* when each account has last logged in
          over,      \* accounts that have ended their session since
          gone,      \* accounts whose withdrawal has been answered
          torn,      \* two calls have crossed in one of the ways noted below
          seen       \* what each slot saw of these when its call began

browserVars == <<cookie, access, web>>
historyVars == <<loginAt, over, gone, torn, seen>>
sessionVars == <<userVars, authVars, browserVars, calls, faults, historyVars>>

Nothing == [time |-> 0, login |-> Unset, gone |-> {}]

TypeOK ==
    /\ UserType
    /\ AuthType
    /\ cookie \in [Browsers -> Tokens \cup {NoToken}]
    /\ access \in [Browsers -> Ids \cup {NoId}]
    /\ web \in [Slots -> Browsers \cup {"none"}]
    /\ calls \in 0..MaxCalls
    /\ faults \in 0..MaxFaults
    /\ loginAt \in [Ids -> Times \cup {Unset}]
    /\ over \in SUBSET Ids
    /\ gone \in SUBSET Ids
    /\ torn \in BOOLEAN
    /\ seen \in [Slots -> [time : Times, login : Times \cup {Unset},
                           gone : SUBSET Ids]]

Init ==
    /\ UserInit
    /\ AuthInit
    /\ cookie = [w \in Browsers |-> NoToken]
    /\ access = [w \in Browsers |-> NoId]
    /\ web = [s \in Slots |-> "none"]
    /\ calls = 0
    /\ faults = 0
    /\ loginAt = [id \in Ids |-> Unset]
    /\ over = {}
    /\ gone = {}
    /\ torn = FALSE
    /\ seen = [s \in Slots |-> Nothing]

-----------------------------------------------------------------------------
\* A browser sends a request

Send(s, w, what, first, id, presented) ==
    /\ calls < MaxCalls
    /\ calls' = calls + 1
    /\ Begin(s, what, first, id, presented)
    /\ web' = [web EXCEPT ![s] = w]
    /\ seen' = [seen EXCEPT ![s] =
                  [time |-> now, gone |-> gone,
                   login |-> IF id = NoId THEN Unset ELSE loginAt[id]]]
    /\ UNCHANGED <<userVars, cookie, access, faults, loginAt, over, gone, torn>>

SignUp(s, w) == Send(s, w, "register", "exists", NoId, NoToken)

LogIn(s, w) == Send(s, w, "login", "find", NoId, NoToken)

\* The gateway passes the cookie on, and auth-service verifies its signature
\* and its expiry before anything else.
Refresh(s, w) == /\ cookie[w] # NoToken
                 /\ ~Expired(cookie[w], now)
                 /\ Send(s, w, "refresh", "age", cookie[w].sub, cookie[w])

\* The calls that JwtAuthGuard lets through on an access token.  Its lifetime
\* of minutes is left out: it is accepted as long as the browser keeps it.
WithAccess(s, w, what, first) == /\ access[w] # NoId
                                 /\ Send(s, w, what, first, access[w], NoToken)

LogOut(s, w) == WithAccess(s, w, "logout", "delToken")

ChangePassword(s, w) == WithAccess(s, w, "password", "check")

Withdraw(s, w) == WithAccess(s, w, "withdraw", "findUser")

UpdateMe(s, w) == WithAccess(s, w, "update", "findUser")

-----------------------------------------------------------------------------
\* Calls that auth-service makes to user-service

\* createUser: the search for the address, then the insert.
CreateUser(s) ==
    /\ \/ profile = NoId /\ Moves(s, "exists", "insert") /\ UNCHANGED userVars
       \/ profile # NoId /\ Moves(s, "exists", "refused") /\ UNCHANGED userVars
       \/ Registered(s, lastId + 1) /\ InsertUser
       \/ profile # NoId /\ Moves(s, "insert", "refused") /\ UNCHANGED userVars
    /\ UNCHANGED <<browserVars, calls, faults, historyVars>>

GetUserByEmail(s) ==
    /\ \/ profile # NoId /\ Found(s, profile)
       \/ profile = NoId /\ Moves(s, "find", "refused")
    /\ UNCHANGED <<userVars, browserVars, calls, faults, historyVars>>

\* Mutant: the principal is rebuilt from the token's payload.
ResolveFromPayload(s) ==
    /\ Resolved(s, acct[s])
    /\ UNCHANGED <<userVars, browserVars, calls, faults, historyVars>>

ResolvePrincipal(s) ==
    /\ \/ profile # NoId /\ Resolved(s, profile)
       \/ profile = NoId /\ NotResolved(s)
    /\ torn' = (torn \/ profile \notin {acct[s], NoId})
    /\ UNCHANGED <<userVars, browserVars, calls, faults, loginAt, over, gone, seen>>

\* deleteUser and updateUser look the row up by its id first.
FindUser(s) ==
    /\ \/ /\ profile = acct[s]
          /\ \/ op[s] = "withdraw" /\ Moves(s, "findUser", "move")
             \/ op[s] = "update" /\ Moves(s, "findUser", "saveUser")
       \/ profile # acct[s] /\ Moves(s, "findUser", "refused")
    /\ UNCHANGED <<userVars, browserVars, calls, faults, historyVars>>

DeleteUser(s) ==
    /\ Moves(s, "move", "delHash")
    /\ MoveToBackup(acct[s])
    /\ UNCHANGED <<browserVars, calls, faults, historyVars>>

UpdateUser(s) ==
    /\ \/ Moves(s, "saveUser", "done") /\ SaveUser(acct[s])
       \/ /\ Moves(s, "saveUser", "refused")
          /\ profile \notin {acct[s], NoId}
          /\ UNCHANGED userVars
    /\ UNCHANGED <<browserVars, calls, faults, historyVars>>

UserStep(s) == \/ CreateUser(s) \/ GetUserByEmail(s) \/ ResolvePrincipal(s)
               \/ FindUser(s) \/ DeleteUser(s) \/ UpdateUser(s)

-----------------------------------------------------------------------------
\* Steps of auth-service, with what the history notes of them

AuthStep(s) ==
    /\ \/ SaveCredential(s)
       \/ \E right \in BOOLEAN : CheckPassword(s, right)
       \/ CheckAge(s)
       \/ CompareToken(s)
       \/ CompareGrace(s)
       \/ Rotate(s)
       \/ SaveHash(s)
       \/ DeleteHash(s)
       \/ DeleteGrace(s)
    /\ UNCHANGED <<userVars, browserVars, calls, faults, historyVars>>

Begun(s) ==
    /\ StartSession(s)
    /\ over' = over \ {acct[s]}
    /\ UNCHANGED <<userVars, browserVars, calls, faults, loginAt, gone, torn, seen>>

\* A refresh that has found no start may overwrite the one of a login since.
Reset(s) ==
    /\ ResetAge(s)
    /\ torn' = (torn \/ issued[acct[s]] # Unset)
    /\ UNCHANGED <<userVars, browserVars, calls, faults, loginAt, over, gone, seen>>

Store(s) ==
    /\ StoreToken(s)
    /\ LET last == loginAt[acct[s]]
       IN  loginAt' = IF op[s] = "refresh" \/ last \in out[s].iat..MaxTime
                      THEN loginAt
                      ELSE [loginAt EXCEPT ![acct[s]] = out[s].iat]
    /\ UNCHANGED <<userVars, browserVars, calls, faults, over, gone, torn, seen>>

\* Another call is about to write the token of the account that s acts for.
BeingRenewed(s) == \E t \in Slots \ {s} : /\ acct[t] = acct[s]
                                          /\ at[t] \in {"resolve", "rotate", "store"}

EndToken(s) ==
    /\ DeleteToken(s)
    /\ over' = over \cup {acct[s]}
    /\ torn' = (torn \/ BeingRenewed(s))
    /\ UNCHANGED <<userVars, browserVars, calls, faults, loginAt, gone, seen>>

\* The start that is deleted may be the one of a login since.
EndSession(s) ==
    /\ DeleteIssued(s)
    /\ gone' = IF op[s] = "withdraw" THEN gone \cup {acct[s]} ELSE gone
    /\ torn' = (torn \/ acct[s] \notin over)
    /\ UNCHANGED <<userVars, browserVars, calls, faults, loginAt, over, seen>>

-----------------------------------------------------------------------------
\* The answer reaches the browser, or gets lost when the page is reloaded

Free(s) == /\ at' = [at EXCEPT ![s] = "idle"]
           /\ op' = [op EXCEPT ![s] = "none"]
           /\ acct' = [acct EXCEPT ![s] = NoId]
           /\ shown' = [shown EXCEPT ![s] = NoToken]
           /\ out' = [out EXCEPT ![s] = NoToken]
           /\ seen' = [seen EXCEPT ![s] = Nothing]
           /\ web' = [web EXCEPT ![s] = "none"]
           /\ UNCHANGED <<userVars, now, hash, redisVars, loginAt, over, gone>>

\* setRefreshCookie and the access token of the body; logout clears both.
Deliver(s) ==
    /\ at[s] \in {"answered", "done", "refused"}
    /\ \/ /\ at[s] = "answered"
          /\ cookie' = [cookie EXCEPT ![web[s]] = out[s]]
          /\ access' = [access EXCEPT ![web[s]] = acct[s]]
       \/ /\ at[s] = "done" /\ op[s] = "logout"
          /\ cookie' = [cookie EXCEPT ![web[s]] = NoToken]
          /\ access' = [access EXCEPT ![web[s]] = NoId]
       \/ UNCHANGED <<cookie, access>>
    /\ Free(s)
    /\ UNCHANGED <<calls, faults, torn>>

\* A database, Redis or user-service fails, or the pod dies: what the call has
\* written so far remains.  A login that has moved the start of the session
\* but not stored its token leaves the old session torn.
Abandon(s) ==
    /\ at[s] \notin {"idle", "answered", "done", "refused"}
    /\ faults < MaxFaults
    /\ faults' = faults + 1
    /\ torn' = (torn \/ (at[s] = "store" /\ op[s] # "refresh"))
    /\ Free(s)
    /\ UNCHANGED <<cookie, access, calls>>

TimePasses == /\ Tick
              /\ UNCHANGED <<userVars, browserVars, calls, faults, historyVars>>

Request(s, w) ==
    \/ SignUp(s, w) \/ LogIn(s, w) \/ Refresh(s, w) \/ LogOut(s, w)
    \/ ChangePassword(s, w) \/ Withdraw(s, w) \/ UpdateMe(s, w)

Next ==
    \/ \E s \in Slots, w \in Browsers : Request(s, w)
    \/ \E s \in Slots : \/ UserStep(s) \/ AuthStep(s) \/ Begun(s) \/ Reset(s) \/ Store(s)
                        \/ EndToken(s) \/ EndSession(s)
                        \/ Deliver(s) \/ Abandon(s)
    \/ TimePasses

Spec == Init /\ [][Next]_sessionVars

-----------------------------------------------------------------------------

\* No refresh that begins more than AbsoluteMax after the customer's last login
\* is answered, however often the token has been rotated since, unless calls
\* have crossed (torn): a session was ended while another call was renewing or
\* starting one, a refresh has overwritten the start of a later login, a login
\* has failed between its two writes, or the address has passed to another
\* account.
AbsoluteLimit ==
    \A s \in Slots :
        /\ at[s] = "answered" /\ op[s] = "refresh"
        /\ ~torn
        => \/ /\ loginAt[acct[s]] # Unset
              /\ seen[s].time <= loginAt[acct[s]] + AbsoluteMax
           \/ \E t \in Slots : /\ at[t] = "store" /\ op[t] # "refresh"
                               /\ acct[t] = acct[s]

\* An account that has ended its session, by logout, password change or
\* withdrawal or at the absolute limit, has no refresh token in Redis until it
\* logs in again, unless calls have crossed.
EndedSessionStaysEnded ==
    ~torn => \A id \in over : token[id] = NoToken

\* Once a withdrawal has been answered, no login, registration or refresh that
\* begins later gets tokens for the withdrawn account, even when a refresh
\* that was under way has stored its token again; except when an update of the
\* profile has inserted the row again.
WithdrawnStaysOut ==
    \A s \in Slots :
        at[s] = "answered" => \/ acct[s] \notin seen[s].gone
                              \/ acct[s] \in restored

-----------------------------------------------------------------------------
\* What a comment says and the code does not keep

\* "이전 세션이 즉시 무효화되는 기존 동작": a token from before the last login is not
\* accepted from a refresh that begins after that login.
LoginEndsOldSession ==
    \A s \in Slots :
        /\ at[s] = "answered" /\ op[s] = "refresh"
        /\ seen[s].login # Unset
        => shown[s].iat >= seen[s].login
=============================================================================
