----------------------------- MODULE TokenStore -----------------------------
(***************************************************************************)
(* Who is signed in in one browser: the access tokens its tabs keep in     *)
(* memory, the refresh cookies they share, the requests that change them,  *)
(* and auth-service, which may serve several at the same time: each loses  *)
(* control between what it reads in Redis and what it writes there.  The   *)
(* absolute limit of a session is the subject of Sessions.                 *)
(***************************************************************************)
EXTENDS Naturals, FiniteSets

CONSTANTS Tabs, Customers, Admins,
          Slots,       \* requests in flight, at most
          MaxCalls,    \* requests sent, at most
          MaxFaults    \* requests and answers lost, services out of reach, at most

ASSUME TokensAssumption == /\ Customers \cap Admins = {}
                           /\ MaxCalls \in Nat /\ MaxFaults \in Nat

Types == {"USER", "ADMIN"}
Accounts == Customers \cup Admins
Of(type) == IF type = "USER" THEN Customers ELSE Admins

NoOne == "no one"
ASSUME NoOneAssumption == NoOne \notin Accounts

VARIABLES newest,    \* auth-service: the refresh token it knows of each account, or 0
          grace,     \* and the one it has replaced and still takes
          gone,      \* accounts whose profile was deleted
          issued,    \* refresh tokens issued so far
          raced,     \* history: accounts of which a renewal writes, or has written, what
                     \* it compared before another one, a login or an end of the session,
                     \* or its new token after the old one's grace period
          jar,       \* the browser's cookie of each type
          access,    \* per tab and type: the account of the access token
          fresh,     \* and whether it has not run out
          user,      \* and the account whose name is shown
          page,      \* the load of the tab's page: "idle", "waiting", "login" or "error"
          wire,      \* requests in flight
          calls, faults,
          out,       \* history: who signed out, and nobody has signed in since
          crossed,   \* history: tabs in which a sign-in or sign-out and an update crossed
          needless   \* history: somebody was sent to the login page needlessly

authVars == <<newest, grace, gone, issued, raced>>
storeVars == <<access, fresh, user>>
history == <<out, crossed, needless>>
vars == <<authVars, jar, storeVars, page, wire, calls, faults, history>>

RefreshTokens == [who : Accounts, n : 1..MaxCalls]
NoToken == [who |-> NoOne, n |-> 0]

\* How far auth-service has come: a login has checked the password, or a refresh
\* compared its token with the newest one; it has kept that one for the grace
\* period; it has found another one; the profile is deleted; the newest token is.
Open == {"sent", "compared", "kept", "behind", "left", "ended"}
Answers == {"ok", "refused", "failed"}

Idle == [kind |-> "none"]
Requests == [kind : {"login", "refresh", "logout", "password", "withdraw", "update"},
             type : Types, tab : Tabs,
             who : Accounts \cup {NoOne},          \* of the form, or of the access token
             cookie : RefreshTokens \cup {NoToken},
             step : Open \cup Answers,
             given : RefreshTokens \cup {NoToken}, \* the answer's Set-Cookie
             heard : BOOLEAN,                      \* the tab has not been reloaded since
             clears : BOOLEAN,                     \* a refresh that clears the tab if it fails
             trusted : BOOLEAN]  \* history: sent with a token that was good, and still should be

TypeOK ==
    /\ newest \in [Accounts -> 0..MaxCalls] /\ grace \in [Accounts -> 0..MaxCalls]
    /\ gone \subseteq Customers /\ issued \in 0..MaxCalls /\ raced \subseteq Accounts
    /\ jar \in [Types -> RefreshTokens \cup {NoToken}]
    /\ access \in [Tabs -> [Types -> Accounts \cup {NoOne}]]
    /\ fresh \in [Tabs -> [Types -> BOOLEAN]]
    /\ user \in [Tabs -> [Types -> Accounts \cup {NoOne}]]
    /\ page \in [Tabs -> [Types -> {"idle", "waiting", "login", "error"}]]
    /\ wire \in [Slots -> Requests \cup {Idle}]
    /\ calls \in 0..MaxCalls /\ faults \in 0..MaxFaults
    /\ out \in [Types -> Accounts \cup {NoOne}] /\ crossed \subseteq Tabs /\ needless \in BOOLEAN

EachType(v) == [p \in Types |-> v]

Init ==
    /\ newest = [a \in Accounts |-> 0] /\ grace = [a \in Accounts |-> 0]
    /\ gone = {} /\ issued = 0 /\ raced = {}
    /\ jar = EachType(NoToken)
    /\ access = [t \in Tabs |-> EachType(NoOne)]
    /\ fresh = [t \in Tabs |-> EachType(FALSE)]
    /\ user = [t \in Tabs |-> EachType(NoOne)]
    /\ page = [t \in Tabs |-> EachType("idle")]
    /\ wire = [q \in Slots |-> Idle]
    /\ calls = 0 /\ faults = 0
    /\ out = EachType(NoOne) /\ crossed = {} /\ needless = FALSE

-----------------------------------------------------------------------------
\* Requests

InFlight(kinds, p) == {q \in Slots : wire[q].kind \in kinds /\ wire[q].type = p}

\* A tab's own requests of a kind that somebody in it still waits for.
Pending(t, kinds, p) == {q \in InFlight(kinds, p) : wire[q].tab = t /\ wire[q].heard}

IsNewest(token) == token.n # 0 /\ newest[token.who] = token.n

\* The token before the newest one is taken for a while.
InGrace(token) == token.n # 0 /\ grace[token.who] = token.n

\* A refresh that auth-service served from here to its end would be answered.
Taken(token) == /\ token.n # 0 /\ token.who \notin gone
                /\ IsNewest(token) \/ (InGrace(token) /\ newest[token.who] # 0)

Request(t, kind, p, who) ==
    LET cookie == IF kind = "refresh" THEN jar[p] ELSE NoToken IN
    [kind |-> kind, type |-> p, tab |-> t, who |-> who, cookie |-> cookie,
     step |-> "sent", given |-> NoToken, heard |-> TRUE,
     clears |-> kind = "refresh" /\ p = "ADMIN" /\ access[t][p] # NoOne,
     trusted |-> Taken(cookie) /\ cookie.who \notin raced]

Send(t, kind, p, who) ==
    /\ calls < MaxCalls /\ calls' = calls + 1
    /\ \E q \in Slots : /\ wire[q] = Idle
                        /\ wire' = [wire EXCEPT ![q] = Request(t, kind, p, who)]

\* A form that signs in, whose button is disabled meanwhile; register ends the
\* same way as login does.
Enter(t, p, who) ==
    /\ who \in Of(p)
    /\ Pending(t, {"login"}, p) = {}
    /\ Send(t, "login", p, who)
    /\ page' = [page EXCEPT ![t][p] = "idle"]
    /\ out' = [out EXCEPT ![p] = NoOne]
    /\ UNCHANGED <<authVars, jar, storeVars, faults, crossed, needless>>

LogIn(t, who) == Enter(t, "USER", who)
AdminLogIn(t, who) == Enter(t, "ADMIN", who)

\* refreshAccessToken and refreshAdminAccessToken: one request for all who wait.
\* A call of authedFetch, which has an access token that is not taken any more,
\* clears the tab when it fails; AdminGuard and the customers' pages do not.
Refresh(t, p) ==
    LET shared == Pending(t, {"refresh"}, p) IN
    IF shared = {} THEN Send(t, "refresh", p, NoOne)
    ELSE /\ wire' = [q \in Slots |->
              IF q \in shared
              THEN [wire[q] EXCEPT !.clears = @ \/ (p = "ADMIN" /\ access[t][p] # NoOne)]
              ELSE wire[q]]
         /\ UNCHANGED calls

\* What a tab must have for the gateway to take a request of it.
Bearer(t, p) == IF fresh[t][p] THEN access[t][p] ELSE NoOne

\* Without a token that is taken a page waits for a refresh.
AwaitRefresh(t, p) ==
    /\ page[t][p] # "waiting" /\ Bearer(t, p) = NoOne
    /\ Refresh(t, p)
    /\ page' = [page EXCEPT ![t][p] = "waiting"]
    /\ UNCHANGED <<authVars, jar, storeVars, faults, history>>

\* The pages of the account try their own call first and renew after a 401;
\* AdminGuard renews before it shows a page.
OpenPage(t) == AwaitRefresh(t, "USER")
AdminGuard(t) == AwaitRefresh(t, "ADMIN")

\* A tab that is reloaded forgets its tokens and nobody hears its requests any
\* more; App asks for a refresh.
Reload(t) ==
    /\ calls < MaxCalls /\ calls' = calls + 1
    /\ \E q \in Slots :
         /\ wire[q] = Idle
         /\ wire' = [s \in Slots |->
               IF s = q THEN Request(t, "refresh", "USER", NoOne)
               ELSE IF wire[s] # Idle /\ wire[s].tab = t THEN [wire[s] EXCEPT !.heard = FALSE]
               ELSE wire[s]]
    /\ access' = [access EXCEPT ![t] = EachType(NoOne)]
    /\ fresh' = [fresh EXCEPT ![t] = EachType(FALSE)]
    /\ user' = [user EXCEPT ![t] = EachType(NoOne)]
    /\ page' = [page EXCEPT ![t] = EachType("idle")]
    /\ UNCHANGED <<authVars, jar, faults, history>>

\* logoutFrom: with no token at all nothing is sent.  The button is there as
\* long as there is a token, also one that has run out.
Leave(t, p) ==
    /\ access[t][p] # NoOne
    /\ Pending(t, {"logout"}, p) = {}
    /\ Send(t, "logout", p, Bearer(t, p))
    /\ UNCHANGED <<authVars, jar, storeVars, page, faults, history>>

LogOut(t) == Leave(t, "USER")
AdminLogOut(t) == Leave(t, "ADMIN")

\* The forms of the customer's own pages.
Submit(t, kind) ==
    /\ access[t]["USER"] # NoOne
    /\ Pending(t, {kind}, "USER") = {}
    /\ Send(t, kind, "USER", Bearer(t, "USER"))
    /\ UNCHANGED <<authVars, jar, storeVars, page, faults, history>>

UpdateMe(t) == Submit(t, "update")
ChangePassword(t) == Submit(t, "password")
Withdraw(t) == Submit(t, "withdraw")

-----------------------------------------------------------------------------
\* The gateway, and auth-service and user-service behind it.  A request that is
\* refused, or answered, right after a read takes the read and the answer as one
\* step; what is looked up in user-service after a read of Redis goes with it,
\* because a profile that is deleted does not come back.

TokensOf(a) == {token \in RefreshTokens : token.who = a}

\* Requests on their way, when the tokens in old may not be good any more.
Distrust(old) ==
    [s \in Slots |-> IF wire[s] # Idle /\ wire[s].cookie \in old
                     THEN [wire[s] EXCEPT !.trusted = FALSE] ELSE wire[s]]

Goes(q, step, token, old) ==
    wire' = [Distrust(old) EXCEPT ![q] = [wire[q] EXCEPT !.step = step, !.given = token]]

Refused(q) == Goes(q, "refused", NoToken, {}) /\ UNCHANGED authVars

\* Those that have compared a token of the account and are still to write.
Renewing(a) == {q \in Slots : /\ wire[q].kind = "refresh"
                              /\ wire[q].step \in {"compared", "kept"}
                              /\ wire[q].cookie.who = a}

\* The old token leaves its grace period although a renewal has yet to store the new one.
TooSlow(a) == \E q \in Renewing(a) : wire[q].step = "kept"

\* A login or the end of a session settles which tokens are taken, but for a renewal
\* that is still to write.
Settles(a) == raced' = IF Renewing(a) = {} THEN raced \ {a} ELSE raced \cup {a}

\* Mutant: a login issues its tokens twice.
LoginIssuesTwice(q) ==
    LET a == wire[q].who IN
    /\ wire[q].kind = "login" /\ wire[q].step = "sent"
    /\ a \notin gone
    /\ issued' = issued + 2
    /\ newest' = [newest EXCEPT ![a] = issued + 2]
    /\ Goes(q, "ok", [who |-> a, n |-> issued + 2], TokensOf(a))
    /\ Settles(a)
    /\ UNCHANGED <<grace, gone>>

\* The profile and the password, then issueTokens; a token in its grace period
\* stays there.
ServeLogin(q) ==
    LET a == wire[q].who IN
    /\ wire[q].kind = "login"
    /\ \/ wire[q].step = "sent" /\ a \in gone /\ Refused(q)
       \/ /\ wire[q].step = "sent" /\ a \notin gone
          /\ Goes(q, "compared", NoToken, {}) /\ UNCHANGED authVars
       \/ /\ wire[q].step = "compared"
          /\ issued' = issued + 1
          /\ newest' = [newest EXCEPT ![a] = issued + 1]
          /\ Goes(q, "ok", [who |-> a, n |-> issued + 1], TokensOf(a))
          /\ Settles(a)
          /\ UNCHANGED <<grace, gone>>

\* doRefresh and the first read of refresh, with resolvePrincipal.
Compare(q) ==
    LET token == wire[q].cookie
        a == token.who
        alone == Renewing(a) = {}
    IN
    /\ wire[q].step = "sent"
    /\ IF token = NoToken THEN Refused(q)
       ELSE IF IsNewest(token) /\ a \notin gone
       THEN /\ Goes(q, "compared", NoToken, IF alone THEN {} ELSE TokensOf(a))
            /\ raced' = IF alone THEN raced ELSE raced \cup {a}
            /\ UNCHANGED <<newest, grace, gone, issued>>
       ELSE IF newest[a] \notin {0, token.n}
       THEN Goes(q, "behind", [who |-> a, n |-> newest[a]], {}) /\ UNCHANGED authVars
       ELSE Refused(q)

\* The second read: within the grace period the token read first is given once more.
Excuse(q) ==
    /\ wire[q].step = "behind"
    /\ IF InGrace(wire[q].cookie) /\ wire[q].cookie.who \notin gone
       THEN Goes(q, "ok", wire[q].given, {}) /\ UNCHANGED authVars
       ELSE Refused(q)

\* Mutant: issueTokens stores the new token before it keeps the old one.
RotateNewestFirst(q) ==
    LET token == wire[q].cookie
        a == token.who
    IN
    \/ /\ wire[q].step = "compared"
       /\ issued' = issued + 1
       /\ newest' = [newest EXCEPT ![a] = issued + 1]
       /\ Goes(q, "kept", [who |-> a, n |-> issued + 1], {})
       /\ UNCHANGED <<grace, gone, raced>>
    \/ /\ wire[q].step = "kept"
       /\ grace' = [grace EXCEPT ![a] = token.n]
       /\ Goes(q, "ok", wire[q].given, {[who |-> a, n |-> grace[a]]} \ {token})
       /\ UNCHANGED <<newest, gone, issued, raced>>

\* issueTokens after a comparison: the old token is kept for the grace period, then
\* the new one stored, whatever has become of the key since.
Rotate(q) ==
    LET token == wire[q].cookie
        a == token.who
    IN
    \/ /\ wire[q].step = "compared"
       /\ grace' = [grace EXCEPT ![a] = token.n]
       /\ Goes(q, "kept", NoToken, {[who |-> a, n |-> grace[a]]} \ {token})
       /\ UNCHANGED <<newest, gone, issued, raced>>
    \/ /\ wire[q].step = "kept"
       /\ issued' = issued + 1
       /\ newest' = [newest EXCEPT ![a] = issued + 1]
       /\ Goes(q, "ok", [who |-> a, n |-> issued + 1], {})
       /\ UNCHANGED <<grace, gone, raced>>

ServeRefresh(q) == wire[q].kind = "refresh" /\ (Compare(q) \/ Excuse(q) \/ Rotate(q))

\* withdraw begins with the profile; the credentials go with the newest token, and
\* stay if it fails in between.
DeleteProfile(q) ==
    LET a == wire[q].who IN
    /\ wire[q].kind = "withdraw" /\ wire[q].step = "sent"
    /\ a \notin {NoOne} \cup gone
    /\ gone' = gone \cup {a}
    /\ Goes(q, "left", NoToken, TokensOf(a))
    /\ UNCHANGED <<newest, grace, issued, raced>>

HasPassword(a) ==
    a \in gone => \/ faults > 0
                  \/ \E q \in Slots : /\ wire[q].kind = "withdraw" /\ wire[q].who = a
                                      /\ wire[q].step = "left"

Ends(q) == \/ wire[q].kind = "logout" /\ wire[q].step = "sent" /\ wire[q].who # NoOne
           \/ /\ wire[q].kind = "password" /\ wire[q].step = "sent" /\ wire[q].who # NoOne
              /\ HasPassword(wire[q].who)
           \/ wire[q].kind = "withdraw" /\ wire[q].step = "left"

\* Mutant: the logout only clears the cookie.
LogoutLeavesSession(q) ==
    /\ Ends(q)
    /\ Goes(q, "ended", NoToken, {})
    /\ UNCHANGED authVars

\* The keys are deleted one by one.
EndSession(q) ==
    LET a == wire[q].who IN
    /\ Ends(q)
    /\ newest' = [newest EXCEPT ![a] = 0]
    /\ Goes(q, "ended", NoToken, TokensOf(a))
    /\ Settles(a)
    /\ UNCHANGED <<grace, gone, issued>>

EndGrace(q) ==
    LET a == wire[q].who IN
    /\ wire[q].step = "ended"
    /\ grace' = [grace EXCEPT ![a] = 0]
    /\ Goes(q, "ok", NoToken, TokensOf(a))
    /\ raced' = IF TooSlow(a) THEN raced \cup {a} ELSE raced
    /\ UNCHANGED <<newest, gone, issued>>

\* JwtAuthGuard refuses a token that has run out; a password may be wrong.
Denied(q) ==
    /\ wire[q].step = "sent"
    /\ \/ wire[q].who = NoOne \/ wire[q].kind = "password"
       \/ wire[q].kind = "withdraw" /\ wire[q].who \in gone
    /\ Refused(q)

ServeOwner(q) ==
    /\ wire[q].kind \in {"logout", "password", "withdraw"}
    /\ DeleteProfile(q) \/ EndSession(q) \/ EndGrace(q) \/ Denied(q)

ServeUpdate(q) ==
    /\ wire[q].kind = "update"
    /\ IF wire[q].who \in {NoOne} \cup gone THEN Refused(q)
       ELSE Goes(q, "ok", NoToken, {}) /\ UNCHANGED authVars

\* One of its awaits: what is left of the request is another step.
Serve(q) ==
    /\ wire[q] # Idle
    /\ wire[q].step \in Open
    /\ ServeLogin(q) \/ ServeRefresh(q) \/ ServeOwner(q) \/ ServeUpdate(q)
    /\ out' = IF wire[q].kind = "logout" /\ wire'[q].step = "ended"
                 /\ InFlight({"login"}, wire[q].type) = {}
              THEN [out EXCEPT ![wire[q].type] = wire[q].who] ELSE out
    /\ UNCHANGED <<jar, storeVars, page, calls, faults, crossed, needless>>

\* The request or its answer is lost, the rate limiter outlasts the client, or
\* a service cannot be reached, which the routes for tokens answer with 401.
Fault(q) ==
    /\ wire[q] # Idle
    /\ faults < MaxFaults /\ faults' = faults + 1
    /\ \/ wire[q].step \in Open \cup {"ok"} /\ wire' = [wire EXCEPT ![q].step = "failed"]
       \/ wire[q].step \in Open /\ wire' = [wire EXCEPT ![q].step = "refused"]
    /\ UNCHANGED <<authVars, jar, storeVars, page, calls, history>>

\* REFRESH_GRACE_TTL_SECONDS have passed, whoever is still on the way or between
\* its two writes.
GraceEnds(a) ==
    /\ grace[a] # 0
    /\ grace' = [grace EXCEPT ![a] = 0]
    /\ raced' = IF TooSlow(a) THEN raced \cup {a} ELSE raced
    /\ wire' = Distrust(IF TooSlow(a) THEN TokensOf(a) ELSE {[who |-> a, n |-> grace[a]]})
    /\ UNCHANGED <<newest, gone, issued, jar, storeVars, page, calls, faults, history>>

Expire(t, p) ==
    /\ fresh[t][p]
    /\ fresh' = [fresh EXCEPT ![t][p] = FALSE]
    /\ UNCHANGED <<authVars, jar, access, user, page, wire, calls, faults, history>>

-----------------------------------------------------------------------------
\* Answers

\* The cookie is set before the tab sees the answer; of an answer to a page
\* that was left the browser may not see anything.
SetCookie(q) ==
    LET p == wire[q].type IN
    jar' = IF wire[q].step # "ok" THEN jar
           ELSE IF wire[q].given # NoToken THEN [jar EXCEPT ![p] = wire[q].given]
           ELSE IF wire[q].kind = "logout" THEN [jar EXCEPT ![p] = NoToken]
           ELSE jar

SignIn(t, p, who) == /\ access' = [access EXCEPT ![t][p] = who]
                     /\ fresh' = [fresh EXCEPT ![t][p] = TRUE]
                     /\ user' = [user EXCEPT ![t][p] = who]

\* Mutant: the token is forgotten and the name is not.
ClearTokenOnly(t, p) == /\ access' = [access EXCEPT ![t][p] = NoOne]
                        /\ fresh' = [fresh EXCEPT ![t][p] = FALSE]
                        /\ UNCHANGED user

Clear(t, p) == /\ access' = [access EXCEPT ![t][p] = NoOne]
               /\ fresh' = [fresh EXCEPT ![t][p] = FALSE]
               /\ user' = [user EXCEPT ![t][p] = NoOne]

Crossing(q) == crossed' = IF Pending(wire[q].tab, {"update"}, wire[q].type) = {}
                          THEN crossed ELSE crossed \cup {wire[q].tab}

\* parseAuthResponse after a login; the form then leads to another page.
LoginAnswered(q) ==
    /\ wire[q].kind = "login"
    /\ IF wire[q].step = "ok"
       THEN /\ SignIn(wire[q].tab, wire[q].type, wire[q].who) /\ Crossing(q)
            /\ page' = [page EXCEPT ![wire[q].tab][wire[q].type] = "idle"]
       ELSE UNCHANGED <<storeVars, crossed, page>>
    /\ UNCHANGED <<out, needless>>

\* Mutant: whoever waits is told of a success only.
RefusalUnheard(q) ==
    /\ wire[q].kind = "refresh"
    /\ IF wire[q].step = "ok"
       THEN /\ SignIn(wire[q].tab, wire[q].type, wire[q].given.who) /\ Crossing(q)
            /\ page' = [page EXCEPT ![wire[q].tab][wire[q].type] = "idle"]
       ELSE UNCHANGED <<storeVars, crossed, page>>
    /\ UNCHANGED <<out, needless>>

\* Whoever waits for the refresh goes on, or to the login page when it was refused.
RefreshAnswered(q) ==
    LET t == wire[q].tab
        p == wire[q].type
    IN
    /\ wire[q].kind = "refresh"
    /\ IF wire[q].step = "ok" THEN SignIn(t, p, wire[q].given.who) /\ Crossing(q)
       ELSE IF wire[q].clears THEN Clear(t, p) /\ UNCHANGED crossed
       ELSE UNCHANGED <<storeVars, crossed>>
    /\ page' = [page EXCEPT ![t][p] =
                  IF @ # "waiting" THEN @
                  ELSE IF wire[q].step = "ok" THEN "idle"
                  ELSE IF wire[q].step = "refused" \/ p = "ADMIN" THEN "login" ELSE "error"]
    /\ needless' = (needless \/ /\ page'[t][p] = "login" /\ page[t][p] = "waiting"
                                /\ wire[q].trusted)
    /\ UNCHANGED out

\* logoutFrom clears the tab whatever the answer was, and the button leads away.
LogoutAnswered(q) ==
    /\ wire[q].kind = "logout"
    /\ Clear(wire[q].tab, wire[q].type)
    /\ Crossing(q)
    /\ page' = IF wire[q].step = "failed" THEN page
               ELSE [page EXCEPT ![wire[q].tab][wire[q].type] = "idle"]
    /\ UNCHANGED <<out, needless>>

WithdrawAnswered(q) ==
    /\ wire[q].kind = "withdraw"
    /\ IF wire[q].step = "ok" THEN Clear(wire[q].tab, "USER") /\ Crossing(q)
       ELSE UNCHANGED <<storeVars, crossed>>
    /\ UNCHANGED <<page, out, needless>>

\* updateMe: setUser, whoever is signed in by then.
UpdateAnswered(q) ==
    /\ wire[q].kind = "update"
    /\ user' = IF wire[q].step = "ok"
               THEN [user EXCEPT ![wire[q].tab]["USER"] = wire[q].who] ELSE user
    /\ UNCHANGED <<access, fresh, crossed, page, out, needless>>

Deliver(q) ==
    /\ wire[q] # Idle
    /\ wire[q].step \in Answers /\ wire[q].heard
    /\ wire[q].kind # "password"
    /\ SetCookie(q)
    /\ \/ LoginAnswered(q) \/ RefreshAnswered(q) \/ LogoutAnswered(q)
       \/ WithdrawAnswered(q) \/ UpdateAnswered(q)
    /\ wire' = [wire EXCEPT ![q] = Idle]
    /\ UNCHANGED <<authVars, calls, faults>>

\* ChangePasswordPage logs out once the password is changed.
PasswordAnswered(q) ==
    LET t == wire[q].tab IN
    /\ wire[q].kind = "password" /\ wire[q].step \in Answers /\ wire[q].heard
    /\ wire' = [wire EXCEPT ![q] =
                  IF wire[q].step = "ok" /\ access[t]["USER"] # NoOne
                  THEN Request(t, "logout", "USER", Bearer(t, "USER")) ELSE Idle]
    /\ UNCHANGED <<authVars, jar, storeVars, page, calls, faults, history>>

Unheard(q) ==
    /\ wire[q] # Idle
    /\ wire[q].step \in Answers /\ ~wire[q].heard
    /\ SetCookie(q) \/ UNCHANGED jar
    /\ wire' = [wire EXCEPT ![q] = Idle]
    /\ UNCHANGED <<authVars, storeVars, page, calls, faults, history>>

\* fetchWithRateLimitRetry: a refresh refused by the limiter is sent again after a
\* pause, with the cookie that the browser has by then.
Limited(q) ==
    /\ wire[q].kind = "refresh" /\ wire[q].step = "sent" /\ wire[q].heard
    /\ LET cookie == jar[wire[q].type]
       IN  wire' = [wire EXCEPT ![q].cookie = cookie,
                                ![q].trusted = Taken(cookie) /\ cookie.who \notin raced]
    /\ UNCHANGED <<authVars, jar, storeVars, page, calls, faults, history>>

Progress(q) == Serve(q) \/ Deliver(q) \/ PasswordAnswered(q) \/ Unheard(q)

Next ==
    \/ \E t \in Tabs :
         \/ \E a \in Customers : LogIn(t, a)
         \/ \E a \in Admins : AdminLogIn(t, a)
         \/ OpenPage(t) \/ AdminGuard(t) \/ LogOut(t) \/ AdminLogOut(t) \/ Reload(t)
         \/ UpdateMe(t) \/ ChangePassword(t) \/ Withdraw(t)
         \/ \E p \in Types : Expire(t, p)
    \/ \E q \in Slots : Progress(q) \/ Limited(q) \/ Fault(q)
    \/ \E a \in Accounts : GraceEnds(a)

Spec == Init /\ [][Next]_vars
FairSpec == Spec /\ \A q \in Slots : WF_vars(Progress(q))

-----------------------------------------------------------------------------

\* From the moment a logout has deleted the newest token the browser holds no
\* refresh token of that account that auth-service takes, in whatever order the
\* cookies of earlier renewals arrive, until somebody signs in again; unless a
\* renewal had compared its token before and was still to write (raced).
SignedOutStaysOut ==
    \A p \in Types :
        out[p] \notin {NoOne} \cup raced /\ jar[p].who = out[p] => ~Taken(jar[p])

\* Nobody whose refresh was sent with a token that is taken is sent to the login
\* page, although tabs renew it at once and each in several steps, unless something
\* failed, the session was ended or begun anew, the grace period ran out or a second
\* rotation was made before the request was served, or something raced: two renewals
\* compared their tokens before either wrote, or a grace period ended between the two
\* writes of one.
NoNeedlessLogin == needless => faults > 0

\* A tab shows the name of the account whose token it sends, and no name
\* without a token, unless an update of the profile crossed a change of account.
NameIsOfToken ==
    \A t \in Tabs \ crossed : user[t]["USER"] = access[t]["USER"]

\* Whoever waits for a refresh, a page or AdminGuard, stops waiting.
PagesDecide ==
    \A t \in Tabs, p \in Types : page[t][p] = "waiting" ~> page[t][p] # "waiting"

\* What a comment says and the code does not keep: "리프레시 토큰(쿠키)을
\* 무효화하고": the account that logs out with an access token that has run out
\* keeps its refresh token, and the next reload signs it in again.
LogoutInvalidates ==
    [][\A q \in Slots :
         wire[q] # Idle /\ wire'[q] = Idle /\ wire[q].kind = "logout" /\ wire[q].heard
         /\ wire[q].step # "failed" => jar'[wire[q].type] = NoToken]_vars
=============================================================================
