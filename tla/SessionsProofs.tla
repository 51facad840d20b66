--------------------------- MODULE SessionsProofs ---------------------------
(***************************************************************************)
(* For any number of browsers, calls served at once, accounts, requests    *)
(* and faults, and any lifetimes of the tokens: who has withdrawn stays    *)
(* out, an ended session stays ended, and no session outlives its limit,   *)
(* with the exceptions that the properties of Sessions name.               *)
(***************************************************************************)
EXTENDS Sessions, TLAPS

-----------------------------------------------------------------------------
\* The inductive invariant

\* Where a refresh stands until it has found the account of its token.
Refreshing == {"age", "reset", "compare", "grace", "resolve", "reuse"}

\* Where a call is, which one it is, and what it knows by then.
CallFact(s) ==
    /\ at[s] \notin {"idle", "exists", "insert", "find", "refused"} => acct[s] \in Ids
    /\ at[s] \in Refreshing \cup {"rotate"} => op[s] = "refresh" /\ shown[s] \in Tokens
    /\ at[s] \in Refreshing => acct[s] = shown[s].sub
    /\ at[s] \in {"exists", "insert", "hash"} => op[s] = "register"
    /\ at[s] = "find" => op[s] = "login"
    /\ at[s] = "check" => op[s] \in {"login", "password"}
    /\ at[s] = "issue" => op[s] \in {"register", "login"}
    /\ at[s] = "saveHash" => op[s] = "password"
    /\ at[s] = "saveUser" => op[s] = "update"
    /\ seen[s].time <= now
    /\ seen[s].gone \subseteq gone

\* Accounts are numbered in the order of their registration.  A withdrawal that
\* has passed its transaction has left no row, and whoever gets tokens has been
\* looked up in the users table since the call began.
WithdrawFacts ==
    /\ profile <= lastId
    /\ \A w \in Browsers : access[w] <= lastId
    /\ \A id \in gone : id <= lastId /\ (profile # id \/ id \in restored)
    /\ \A s \in Slots :
         /\ op[s] \in {"logout", "password", "withdraw", "update"} => acct[s] <= lastId
         /\ \/ at[s] \in {"hash", "issue", "rotate", "store", "answered"}
            \/ at[s] = "check" /\ op[s] = "login"
            => /\ acct[s] <= lastId
               /\ acct[s] \notin seen[s].gone \/ acct[s] \in restored
         /\ op[s] = "withdraw" /\ at[s] \in {"delHash", "delToken", "delGrace", "delIssued"}
            => profile # acct[s] \/ acct[s] \in restored

\* Unless calls have crossed, no call is about to store a token for an account
\* that has ended its session.
EndedFacts ==
    ~torn => /\ \A id \in over : token[id] = NoToken
             /\ \A s \in Slots : at[s] \in {"resolve", "rotate", "store"} => acct[s] \notin over

\* The accounts some token is about.
Named(id) == \/ \E w \in Browsers : cookie[w].sub = id
             \/ \E s \in Slots : id \in {shown[s].sub, out[s].sub}
             \/ \E x \in Ids : token[x].sub = id

\* The account has logged in at time or later, or is just storing a token from then.
LoggedIn(id, time) ==
    \/ loginAt[id] # Unset /\ time <= loginAt[id]
    \/ \E t \in Slots : /\ at[t] = "store" /\ op[t] # "refresh"
                        /\ acct[t] = id /\ time <= out[t].iat

\* A session that has not ended has a start, which is not after the last login.
Started ==
    \A id \in Ids \ over : /\ Named(id) => issued[id] # Unset
                           /\ issued[id] # Unset => LoggedIn(id, issued[id])

Bounded(s) == \E time \in Times : /\ LoggedIn(acct[s], time)
                                  /\ seen[s].time <= time + AbsoluteMax

\* A refresh has been compared with that start.
Compared(s) ==
    /\ at[s] = "rotate" => acct[s] = shown[s].sub
    /\ /\ op[s] = "refresh"
       /\ \/ at[s] \in {"grace", "resolve", "reuse", "rotate", "store", "answered"}
          \/ at[s] = "compare" /\ acct[s] \notin over
       => Bounded(s)

\* Both hold unless calls have crossed.
LimitFacts == ~torn => Started /\ \A s \in Slots : Compared(s)

IInv == /\ TypeOK
        /\ \A s \in Slots : CallFact(s)
        /\ WithdrawFacts
        /\ EndedFacts
        /\ LimitFacts

-----------------------------------------------------------------------------
\* Types

LEMMA ConstantsAreTyped ==
    /\ NoId \notin Ids /\ NoToken \notin Tokens /\ Unset \notin Times
    /\ 0 \in Times /\ NoToken.sub = NoId /\ NoToken.iat = 0
    /\ Ids \subseteq Nat /\ Times \subseteq Nat /\ Unset \in Nat
    /\ \A id \in Ids, time \in Times : [sub |-> id, iat |-> time] \in Tokens
    /\ \A t \in Tokens : t.sub \in Ids /\ t.iat \in Times
BY AuthAssumption DEF Ids, NoId, NoToken, Tokens, Unset, Times

\* The clock, what Redis and the credentials table keep, and the slots.
LEMMA TokensAreTyped ==
    ASSUME TypeOK, NEW s \in Slots
    PROVE  /\ acct[s] \in Ids \cup {NoId} /\ acct[s] \in Nat
           /\ shown[s] \in Tokens \cup {NoToken} /\ out[s] \in Tokens \cup {NoToken}
           /\ out[s].iat \in Times /\ now \in Times /\ now \in Nat
           /\ seen[s].time \in Times /\ seen[s].gone \in SUBSET Ids
BY ConstantsAreTyped DEF TypeOK, AuthType, NoId

\* How a request of browser w begins, by the kind of call.
Begins(w, what, first, id, presented) ==
    \/ /\ \/ what = "register" /\ first = "exists"
          \/ what = "login" /\ first = "find"
       /\ id = NoId /\ presented = NoToken
    \/ /\ what = "refresh" /\ first = "age"
       /\ presented = cookie[w] /\ presented \in Tokens /\ id = presented.sub
    \/ /\ \/ what = "logout" /\ first = "delToken"
          \/ what = "password" /\ first = "check"
          \/ what \in {"withdraw", "update"} /\ first = "findUser"
       /\ id = access[w] /\ id \in Ids /\ presented = NoToken

LEMMA RequestBegins ==
    ASSUME TypeOK, NEW s \in Slots, NEW w \in Browsers, Request(s, w)
    PROVE  \E what \in Ops, first \in Steps, id \in Ids \cup {NoId},
              presented \in Tokens \cup {NoToken} :
              Send(s, w, what, first, id, presented) /\ Begins(w, what, first, id, presented)
<1>1. CASE SignUp(s, w) \/ LogIn(s, w)
  BY <1>1 DEF SignUp, LogIn, Ops, Steps, Begins
<1>2. CASE Refresh(s, w)
  <2>1. cookie[w] \in Tokens
    BY <1>2 DEF Refresh, TypeOK
  <2>2. cookie[w].sub \in Ids /\ Send(s, w, "refresh", "age", cookie[w].sub, cookie[w])
    BY <1>2, <2>1, ConstantsAreTyped DEF Refresh
  <2>3. "refresh" \in Ops /\ "age" \in Steps
    BY DEF Ops, Steps
  <2>4. QED
    BY <2>1, <2>2, <2>3 DEF Begins
<1>3. CASE LogOut(s, w) \/ ChangePassword(s, w) \/ Withdraw(s, w) \/ UpdateMe(s, w)
  <2>1. access[w] \in Ids \cup {NoId}
    BY DEF TypeOK
  <2>2. QED
    BY <1>3, <2>1 DEF LogOut, ChangePassword, Withdraw, UpdateMe, WithAccess, Ops, Steps, Begins
<1>4. QED
  BY <1>1, <1>2, <1>3 DEF Request

LEMMA SendKeepsType ==
    ASSUME TypeOK, NEW s \in Slots, NEW w \in Browsers, Request(s, w)
    PROVE  TypeOK'
<1>1. PICK what \in Ops, first \in Steps, id \in Ids \cup {NoId},
           presented \in Tokens \cup {NoToken} : Send(s, w, what, first, id, presented)
  BY RequestBegins
<1>2. /\ UNCHANGED <<userVars, now, hash, redisVars, cookie, access, faults, loginAt, over, gone,
                     torn>>
      /\ at' = [at EXCEPT ![s] = first] /\ op' = [op EXCEPT ![s] = what]
      /\ acct' = [acct EXCEPT ![s] = id] /\ shown' = [shown EXCEPT ![s] = presented]
      /\ out' = [out EXCEPT ![s] = NoToken] /\ web' = [web EXCEPT ![s] = w]
      /\ calls < MaxCalls /\ calls' = calls + 1
  BY <1>1 DEF Send, Begin, Step
<1>3. UserType'
  BY <1>2 DEF TypeOK, UserType, userVars
<1>4. AuthType'
  BY <1>1, <1>2 DEF TypeOK, AuthType, redisVars
<1>5. calls' \in 0..MaxCalls
  BY <1>2, SessionsAssumption DEF TypeOK
<1>6. seen' \in [Slots -> [time : Times, login : Times \cup {Unset}, gone : SUBSET Ids]]
  <2>1. PICK login \in Times \cup {Unset} :
          seen' = [seen EXCEPT ![s] = [time |-> now, gone |-> gone, login |-> login]]
    <3>1. loginAt \in [Ids -> Times \cup {Unset}]
      BY DEF TypeOK
    <3>2. QED
      BY <1>1, <3>1 DEF Send
  <2>2. QED
    BY <2>1 DEF TypeOK, AuthType
<1>7. QED
  BY <1>2, <1>3, <1>4, <1>5, <1>6 DEF TypeOK

LEMMA UserStepKeepsType ==
    ASSUME TypeOK, NEW s \in Slots, CallFact(s), UserStep(s)
    PROVE  TypeOK'
<1>1. UNCHANGED <<browserVars, calls, faults, loginAt, over, gone, seen>> /\ torn' \in BOOLEAN
  BY DEF UserStep, CreateUser, GetUserByEmail, ResolvePrincipal, FindUser, DeleteUser,
         UpdateUser, historyVars, TypeOK
<1>2. /\ UNCHANGED <<now, hash, redisVars, op, shown, out>>
      /\ \E to \in Steps : at' = [at EXCEPT ![s] = to]
      /\ acct' = acct \/ \E id \in Ids : acct' = [acct EXCEPT ![s] = id]
  <2>1. CASE CreateUser(s)
    <3>1. InsertUser => lastId + 1 \in Ids
      BY AuthAssumption DEF InsertUser, TypeOK, UserType, Ids, NoId
    <3>2. QED
      BY <2>1, <3>1 DEF CreateUser, Registered, Moves, Step, callVars, Steps
  <2>2. CASE GetUserByEmail(s) \/ ResolvePrincipal(s)
    <3>1. profile # NoId => profile \in Ids
      BY DEF TypeOK, UserType
    <3>2. QED
      BY <2>2, <3>1 DEF GetUserByEmail, ResolvePrincipal, Found, Resolved, NotResolved, Moves,
                        Step, callVars, Steps
  <2>3. CASE FindUser(s) \/ DeleteUser(s) \/ UpdateUser(s)
    BY <2>3 DEF FindUser, DeleteUser, UpdateUser, Moves, Step, callVars, Steps
  <2>4. QED
    BY <2>1, <2>2, <2>3 DEF UserStep
<1>3. UserType'
  <2>1. CASE UNCHANGED userVars
    BY <2>1 DEF TypeOK, UserType, userVars
  <2>2. CASE InsertUser
    BY <2>2, AuthAssumption DEF InsertUser, TypeOK, UserType, Ids, NoId
  <2>3. ASSUME acct[s] \in Ids, MoveToBackup(acct[s]) \/ SaveUser(acct[s]) PROVE UserType'
    BY <2>3 DEF MoveToBackup, SaveUser, TypeOK, UserType, userVars
  <2>4. DeleteUser(s) \/ UpdateUser(s) => acct[s] \in Ids
    BY DEF DeleteUser, UpdateUser, Moves, Step, CallFact
  <2>5. QED
    BY <2>1, <2>2, <2>3, <2>4 DEF UserStep, CreateUser, GetUserByEmail, ResolvePrincipal,
                                  FindUser, DeleteUser, UpdateUser
<1>4. AuthType'
  BY <1>2 DEF TypeOK, AuthType, redisVars
<1>5. QED
  BY <1>1, <1>3, <1>4 DEF TypeOK, browserVars

LEMMA AuthStepKeepsType ==
    ASSUME TypeOK, NEW s \in Slots, CallFact(s),
           AuthStep(s) \/ Begun(s) \/ Reset(s) \/ Store(s) \/ EndToken(s) \/ EndSession(s)
    PROVE  TypeOK'
<1>1. /\ UNCHANGED <<userVars, browserVars, calls, faults, seen>>
      /\ UserType'
  BY DEF AuthStep, Begun, Reset, Store, EndToken, EndSession, historyVars, userVars, TypeOK,
         UserType
<1>2. torn' \in BOOLEAN /\ over' \in SUBSET Ids /\ gone' \in SUBSET Ids
  <2>1. EndToken(s) \/ EndSession(s) => acct[s] \in Ids
    BY DEF EndToken, EndSession, DeleteToken, DeleteIssued, Step, CallFact
  <2>2. over \in SUBSET Ids /\ gone \in SUBSET Ids /\ torn \in BOOLEAN
    BY DEF TypeOK
  <2>3. QED
    BY <2>1, <2>2 DEF AuthStep, Begun, Reset, Store, EndToken, EndSession, historyVars
<1>3. loginAt' \in [Ids -> Times \cup {Unset}]
  <2>1. loginAt \in [Ids -> Times \cup {Unset}] /\ out[s].iat \in Times
    BY TokensAreTyped DEF TypeOK
  <2>2. loginAt' = loginAt \/ loginAt' = [loginAt EXCEPT ![acct[s]] = out[s].iat]
    BY DEF AuthStep, Begun, Reset, Store, EndToken, EndSession, historyVars
  <2>3. QED
    BY <2>1, <2>2
<1>4. AuthType'
  <2>1. \E to \in Steps : at' = [at EXCEPT ![s] = to]
    BY DEF AuthStep, Begun, Reset, Store, EndToken, EndSession, SaveCredential, CheckPassword,
           CheckAge, CompareToken, CompareGrace, Rotate, SaveHash, DeleteHash, DeleteGrace,
           StartSession, ResetAge, StoreToken, DeleteToken, DeleteIssued, Moves, Step, Steps
  <2>2. UNCHANGED <<now, op, acct, shown>>
    BY DEF AuthStep, Begun, Reset, Store, EndToken, EndSession, SaveCredential, CheckPassword,
           CheckAge, CompareToken, CompareGrace, Rotate, SaveHash, DeleteHash, DeleteGrace,
           StartSession, ResetAge, StoreToken, DeleteToken, DeleteIssued, Moves, callVars
  <2>3. hash' \in SUBSET Ids
    <3>1. at[s] \in {"hash", "saveHash"} => acct[s] \in Ids
      BY DEF CallFact
    <3>2. \/ hash' = hash
          \/ hash' = hash \ {acct[s]}
          \/ at[s] \in {"hash", "saveHash"} /\ hash' = (hash \cup {acct[s]})
      <4>1. CASE SaveCredential(s) \/ SaveHash(s) \/ DeleteHash(s)
        BY <4>1 DEF SaveCredential, SaveHash, DeleteHash, Step
      <4>2. CASE \E right \in BOOLEAN : CheckPassword(s, right)
        BY <4>2 DEF CheckPassword, Moves
      <4>3. CASE CheckAge(s) \/ CompareToken(s) \/ CompareGrace(s) \/ Rotate(s) \/ DeleteGrace(s)
        BY <4>3 DEF CheckAge, CompareToken, CompareGrace, Rotate, DeleteGrace, Moves
      <4>4. CASE Begun(s) \/ Reset(s) \/ Store(s) \/ EndToken(s) \/ EndSession(s)
        BY <4>4 DEF Begun, Reset, Store, EndToken, EndSession, StartSession, ResetAge, StoreToken,
                    DeleteToken, DeleteIssued
      <4>5. QED
        BY <4>1, <4>2, <4>3, <4>4 DEF AuthStep
    <3>3. hash \in SUBSET Ids
      BY DEF TypeOK, AuthType
    <3>4. QED
      BY <3>1, <3>2, <3>3
  <2>4. out' \in [Slots -> Tokens \cup {NoToken}]
    <3>1. at[s] \in {"issue", "rotate"} => [sub |-> acct[s], iat |-> now] \in Tokens
      BY TokensAreTyped, ConstantsAreTyped DEF CallFact
    <3>2. token[acct[s]] \in Tokens \cup {NoToken} \/ acct[s] \notin Ids
      BY DEF TypeOK, AuthType
    <3>3. at[s] = "compare" => acct[s] \in Ids
      BY DEF CallFact
    <3>4. \/ out' = out
          \/ at[s] \in {"issue", "rotate"}
             /\ out' = [out EXCEPT ![s] = [sub |-> acct[s], iat |-> now]]
          \/ at[s] = "compare" /\ out' = [out EXCEPT ![s] = token[acct[s]]]
      BY DEF AuthStep, Begun, Reset, Store, EndToken, EndSession, SaveCredential, CheckPassword,
             CheckAge, CompareToken, CompareGrace, Rotate, SaveHash, DeleteHash, DeleteGrace,
             StartSession, ResetAge, StoreToken, DeleteToken, DeleteIssued, Moves, Step, callVars
    <3>5. out \in [Slots -> Tokens \cup {NoToken}]
      BY DEF TypeOK, AuthType
    <3>6. QED
      BY <3>1, <3>2, <3>3, <3>4, <3>5
  <2>5. /\ token' \in [Ids -> Tokens \cup {NoToken}]
        /\ grace' \in [Ids -> Tokens \cup {NoToken}]
    <3>1. \/ token' = token \/ \E t \in Tokens \cup {NoToken} : token' = [token EXCEPT ![acct[s]] = t]
      BY TokensAreTyped
         DEF AuthStep, Begun, Reset, Store, EndToken, EndSession, SaveCredential, CheckPassword,
             CheckAge, CompareToken, CompareGrace, Rotate, SaveHash, DeleteHash, DeleteGrace,
             StartSession, ResetAge, StoreToken, DeleteToken, DeleteIssued, Moves, redisVars
    <3>2. \/ grace' = grace \/ \E t \in Tokens \cup {NoToken} : grace' = [grace EXCEPT ![acct[s]] = t]
      BY TokensAreTyped
         DEF AuthStep, Begun, Reset, Store, EndToken, EndSession, SaveCredential, CheckPassword,
             CheckAge, CompareToken, CompareGrace, Rotate, SaveHash, DeleteHash, DeleteGrace,
             StartSession, ResetAge, StoreToken, DeleteToken, DeleteIssued, Moves, redisVars
    <3>3. token \in [Ids -> Tokens \cup {NoToken}] /\ grace \in [Ids -> Tokens \cup {NoToken}]
      BY DEF TypeOK, AuthType
    <3>4. QED
      BY <3>1, <3>2, <3>3
  <2>6. /\ graceEnds' \in [Ids -> 0..(MaxTime + GraceTTL)]
        /\ issued' \in [Ids -> Times \cup {Unset}]
    <3>1. now \in Times /\ 0 \in 0..(MaxTime + GraceTTL) /\ now + GraceTTL \in 0..(MaxTime + GraceTTL)
      BY AuthAssumption DEF TypeOK, AuthType, Times
    <3>2. \/ graceEnds' = graceEnds
          \/ \E e \in 0..(MaxTime + GraceTTL) : graceEnds' = [graceEnds EXCEPT ![acct[s]] = e]
      BY <3>1
         DEF AuthStep, Begun, Reset, Store, EndToken, EndSession, SaveCredential, CheckPassword,
             CheckAge, CompareToken, CompareGrace, Rotate, SaveHash, DeleteHash, DeleteGrace,
             StartSession, ResetAge, StoreToken, DeleteToken, DeleteIssued, Moves, redisVars
    <3>3. \/ issued' = issued
          \/ \E i \in Times \cup {Unset} : issued' = [issued EXCEPT ![acct[s]] = i]
      BY <3>1
         DEF AuthStep, Begun, Reset, Store, EndToken, EndSession, SaveCredential, CheckPassword,
             CheckAge, CompareToken, CompareGrace, Rotate, SaveHash, DeleteHash, DeleteGrace,
             StartSession, ResetAge, StoreToken, DeleteToken, DeleteIssued, Moves, redisVars
    <3>4. graceEnds \in [Ids -> 0..(MaxTime + GraceTTL)] /\ issued \in [Ids -> Times \cup {Unset}]
      BY DEF TypeOK, AuthType
    <3>5. QED
      BY <3>2, <3>3, <3>4
  <2>7. QED
    BY <2>1, <2>2, <2>3, <2>4, <2>5, <2>6 DEF TypeOK, AuthType
<1>5. QED
  BY <1>1, <1>2, <1>3, <1>4 DEF TypeOK, browserVars

LEMMA EndKeepsType ==
    ASSUME TypeOK, NEW s \in Slots, Deliver(s) \/ Abandon(s)
    PROVE  TypeOK'
<1>1. Free(s) /\ UNCHANGED calls /\ torn' \in BOOLEAN /\ faults' \in 0..MaxFaults
  <2>1. torn \in BOOLEAN /\ faults \in 0..MaxFaults
    BY DEF TypeOK
  <2>2. CASE Deliver(s)
    BY <2>1, <2>2 DEF Deliver
  <2>3. CASE Abandon(s)
    <3>1. faults < MaxFaults /\ faults' = faults + 1
      BY <2>3 DEF Abandon
    <3>2. faults' \in 0..MaxFaults
      BY <2>1, <3>1, SessionsAssumption
    <3>3. torn' \in BOOLEAN
      BY <2>3 DEF Abandon
    <3>4. QED
      BY <2>3, <3>2, <3>3 DEF Abandon
  <2>4. QED
    BY <2>2, <2>3
<1>2. /\ cookie' \in [Browsers -> Tokens \cup {NoToken}]
      /\ access' \in [Browsers -> Ids \cup {NoId}]
  <2>1. cookie' = cookie \/ \E t \in Tokens \cup {NoToken} : cookie' = [cookie EXCEPT ![web[s]] = t]
    BY TokensAreTyped DEF Deliver, Abandon
  <2>2. access' = access \/ \E id \in Ids \cup {NoId} : access' = [access EXCEPT ![web[s]] = id]
    BY TokensAreTyped DEF Deliver, Abandon
  <2>3. cookie \in [Browsers -> Tokens \cup {NoToken}] /\ access \in [Browsers -> Ids \cup {NoId}]
    BY DEF TypeOK
  <2>4. QED
    BY <2>1, <2>2, <2>3
<1>3. UserType'
  BY <1>1 DEF Free, TypeOK, UserType, userVars
<1>4. AuthType'
  BY <1>1 DEF Free, TypeOK, AuthType, redisVars, Steps, Ops
<1>5. /\ seen' \in [Slots -> [time : Times, login : Times \cup {Unset}, gone : SUBSET Ids]]
      /\ web' \in [Slots -> Browsers \cup {"none"}]
  <2>1. Nothing \in [time : Times, login : Times \cup {Unset}, gone : SUBSET Ids]
    BY ConstantsAreTyped DEF Nothing
  <2>2. QED
    BY <1>1, <2>1 DEF Free, TypeOK
<1>6. QED
  BY <1>1, <1>2, <1>3, <1>4, <1>5 DEF Free, TypeOK

LEMMA TimeKeepsType == TypeOK /\ TimePasses => TypeOK'
<1> SUFFICES ASSUME TypeOK, TimePasses PROVE TypeOK'
  OBVIOUS
<1>1. now' \in Times
  BY AuthAssumption DEF TimePasses, Tick, TypeOK, AuthType, Times
<1>2. /\ token' \in [Ids -> Tokens \cup {NoToken}] /\ grace' \in [Ids -> Tokens \cup {NoToken}]
      /\ graceEnds' \in [Ids -> 0..(MaxTime + GraceTTL)]
  BY AuthAssumption DEF TimePasses, Tick, TypeOK, AuthType
<1>3. UserType'
  BY DEF TimePasses, TypeOK, UserType, userVars
<1>4. AuthType'
  BY <1>1, <1>2 DEF TimePasses, Tick, TypeOK, AuthType, callVars
<1>5. QED
  BY <1>3, <1>4 DEF TimePasses, TypeOK, browserVars, historyVars

-----------------------------------------------------------------------------
\* What one call does to itself and to the others

StepOf(s) ==
    \/ \E w \in Browsers : Request(s, w)
    \/ UserStep(s) \/ AuthStep(s) \/ Begun(s) \/ Reset(s) \/ Store(s)
    \/ EndToken(s) \/ EndSession(s) \/ Deliver(s) \/ Abandon(s)

LEMMA StepKeepsType ==
    ASSUME TypeOK, NEW s \in Slots, CallFact(s), StepOf(s)
    PROVE  TypeOK'
BY SendKeepsType, UserStepKeepsType, AuthStepKeepsType, EndKeepsType DEF StepOf


\* A call leaves what the others know alone.
LEMMA SlotsApart ==
    ASSUME TypeOK, NEW s \in Slots, StepOf(s), NEW t \in Slots, t # s
    PROVE  /\ at'[t] = at[t] /\ op'[t] = op[t] /\ acct'[t] = acct[t]
           /\ shown'[t] = shown[t] /\ out'[t] = out[t] /\ seen'[t] = seen[t]
<1>1. \A x : /\ [at EXCEPT ![s] = x][t] = at[t] /\ [op EXCEPT ![s] = x][t] = op[t]
             /\ [acct EXCEPT ![s] = x][t] = acct[t] /\ [shown EXCEPT ![s] = x][t] = shown[t]
             /\ [out EXCEPT ![s] = x][t] = out[t] /\ [seen EXCEPT ![s] = x][t] = seen[t]
  BY DEF TypeOK, AuthType
<1>2. CASE \E w \in Browsers : Request(s, w)
  <2>1. PICK w \in Browsers : Request(s, w)
    BY <1>2
  <2>2. PICK what, first, id, presented : Send(s, w, what, first, id, presented)
    BY <2>1, RequestBegins
  <2>3. QED
    BY <1>1, <2>2 DEF Send, Begin, Step
<1>3. CASE UserStep(s)
  <2>1. CASE CreateUser(s) \/ GetUserByEmail(s)
    BY <1>1, <2>1
       DEF CreateUser, GetUserByEmail, Registered, Found, Moves, Step, callVars, historyVars
  <2>2. CASE ResolvePrincipal(s)
    BY <1>1, <2>2 DEF ResolvePrincipal, Resolved, NotResolved, Moves, Step, callVars
  <2>3. CASE FindUser(s) \/ DeleteUser(s) \/ UpdateUser(s)
    BY <1>1, <2>3 DEF FindUser, DeleteUser, UpdateUser, Moves, Step, callVars, historyVars
  <2>4. QED
    BY <1>3, <2>1, <2>2, <2>3 DEF UserStep
<1>4. CASE AuthStep(s)
  <2>1. seen' = seen
    BY <1>4 DEF AuthStep, historyVars
  <2>2. CASE SaveCredential(s) \/ SaveHash(s) \/ DeleteHash(s) \/ DeleteGrace(s) \/ Rotate(s)
    BY <1>1, <2>1, <2>2 DEF SaveCredential, SaveHash, DeleteHash, DeleteGrace, Rotate, Step, callVars
  <2>3. CASE \/ \E right \in BOOLEAN : CheckPassword(s, right)
             \/ CheckAge(s) \/ CompareToken(s) \/ CompareGrace(s)
    BY <1>1, <2>1, <2>3
       DEF CheckPassword, CheckAge, CompareToken, CompareGrace, Moves, Step, callVars
  <2>4. QED
    BY <1>4, <2>2, <2>3 DEF AuthStep
<1>5. CASE Begun(s) \/ Reset(s) \/ Store(s) \/ EndToken(s) \/ EndSession(s)
  BY <1>1, <1>5
     DEF Begun, Reset, Store, EndToken, EndSession, StartSession, ResetAge, StoreToken,
         DeleteToken, DeleteIssued, Step, callVars
<1>6. CASE Deliver(s) \/ Abandon(s)
  <2>1. Free(s)
    BY <1>6 DEF Deliver, Abandon
  <2>2. QED
    BY <1>1, <2>1 DEF Free
<1>7. QED
  BY <1>2, <1>3, <1>4, <1>5, <1>6 DEF StepOf

\* The clock stands still while a call takes a step, and withdrawals remain.
LEMMA HistoryGrows ==
    ASSUME NEW s \in Slots, TypeOK, StepOf(s)
    PROVE  now' = now /\ gone \subseteq gone' /\ restored \subseteq restored'
<1>1. CASE \E w \in Browsers : Request(s, w)
  BY <1>1, RequestBegins DEF Send, Begin, userVars
<1>2. CASE UserStep(s)
  <2>1. CASE CreateUser(s) \/ FindUser(s)
    BY <1>2, <2>1 DEF CreateUser, FindUser, Registered, Moves, historyVars, userVars, InsertUser
  <2>2. CASE GetUserByEmail(s) \/ ResolvePrincipal(s)
    BY <1>2, <2>2
       DEF GetUserByEmail, ResolvePrincipal, Found, Resolved, NotResolved, Moves, historyVars,
           userVars
  <2>3. CASE DeleteUser(s) \/ UpdateUser(s)
    BY <1>2, <2>3 DEF DeleteUser, UpdateUser, Moves, historyVars, userVars, MoveToBackup, SaveUser
  <2>4. QED
    BY <1>2, <2>1, <2>2, <2>3 DEF UserStep
<1>3. CASE AuthStep(s)
  BY <1>3
     DEF AuthStep, SaveCredential, SaveHash, DeleteHash, DeleteGrace, Rotate, CheckPassword,
         CheckAge, CompareToken, CompareGrace, Moves, historyVars, userVars
<1>4. CASE Begun(s) \/ Reset(s) \/ Store(s) \/ EndToken(s) \/ EndSession(s) \/ Deliver(s) \/ Abandon(s)
  BY <1>4
     DEF Begun, Reset, Store, EndToken, EndSession, StartSession, ResetAge, StoreToken,
         DeleteToken, DeleteIssued, Deliver, Abandon, Free, historyVars, userVars
<1>5. QED
  BY <1>1, <1>2, <1>3, <1>4 DEF StepOf

-----------------------------------------------------------------------------
\* Where the calls are

LEMMA CallFactOfSelf ==
    ASSUME TypeOK, NEW s \in Slots, CallFact(s), StepOf(s)
    PROVE  CallFact(s)'
<1>1. /\ \A x : /\ [at EXCEPT ![s] = x][s] = x /\ [op EXCEPT ![s] = x][s] = x
                /\ [acct EXCEPT ![s] = x][s] = x /\ [shown EXCEPT ![s] = x][s] = x
                /\ [seen EXCEPT ![s] = x][s] = x
      /\ profile # NoId => profile \in Ids
  BY DEF TypeOK, AuthType, UserType
<1>2. now' = now /\ gone \subseteq gone'
  BY HistoryGrows
<1>3. CASE \E w \in Browsers : Request(s, w)
  <2>1. PICK w \in Browsers : Request(s, w)
    BY <1>3
  <2>2. PICK what, first, id, presented :
          Send(s, w, what, first, id, presented) /\ Begins(w, what, first, id, presented)
    BY <2>1, RequestBegins
  <2>3. /\ at'[s] = first /\ op'[s] = what /\ acct'[s] = id /\ shown'[s] = presented
        /\ seen'[s].time = now /\ seen'[s].gone = gone
    <3>1. at'[s] = first /\ op'[s] = what /\ acct'[s] = id /\ shown'[s] = presented
      BY <1>1, <2>2 DEF Send, Begin, Step
    <3>2. seen'[s] = [time |-> now, gone |-> gone,
                      login |-> IF id = NoId THEN Unset ELSE loginAt[id]]
      BY <1>1, <2>2 DEF Send
    <3>3. QED
      BY <3>1, <3>2
  <2>4. now \in Nat
    BY TokensAreTyped
  <2>5. seen'[s].time <= now' /\ seen'[s].gone \subseteq gone'
    BY <1>2, <2>3, <2>4
  <2>6. /\ first \in {"exists", "find", "age", "delToken", "check", "findUser"}
        /\ first \notin {"exists", "find"} => id \in Ids
        /\ first = "exists" => what = "register"
        /\ first = "find" => what = "login"
        /\ first = "age" => what = "refresh" /\ presented \in Tokens /\ id = presented.sub
        /\ first = "check" => what = "password"
    BY <2>2, ConstantsAreTyped DEF Begins
  <2>7. QED
    BY <2>3, <2>5, <2>6 DEF CallFact, Refreshing
<1>4. CASE Deliver(s) \/ Abandon(s)
  <2>1. at'[s] = "idle" /\ seen'[s] = Nothing
    BY <1>1, <1>4 DEF Deliver, Abandon, Free
  <2>2. now \in Nat
    BY TokensAreTyped
  <2>3. QED
    BY <1>2, <2>1, <2>2 DEF CallFact, Refreshing, Nothing
<1>5. CASE seen' = seen
  <2>1. seen'[s].time <= now' /\ seen'[s].gone \subseteq gone'
    BY <1>2, <1>5 DEF CallFact
  <2>2. CASE UserStep(s)
    <3>1. CASE CreateUser(s)
      <4>1. InsertUser => lastId + 1 \in Ids
        BY AuthAssumption DEF InsertUser, TypeOK, UserType, Ids, NoId
      <4>2. QED
        BY <1>1, <2>1, <3>1, <4>1
           DEF CreateUser, Registered, Moves, Step, callVars, CallFact, Refreshing
    <3>2. CASE GetUserByEmail(s) \/ ResolvePrincipal(s)
      BY <1>1, <2>1, <3>2
         DEF GetUserByEmail, ResolvePrincipal, Found, Resolved, NotResolved, Moves, Step, callVars,
             CallFact, Refreshing
    <3>3. CASE FindUser(s) \/ DeleteUser(s) \/ UpdateUser(s)
      BY <1>1, <2>1, <3>3
         DEF FindUser, DeleteUser, UpdateUser, Moves, Step, callVars, CallFact, Refreshing
    <3>4. QED
      BY <2>2, <3>1, <3>2, <3>3 DEF UserStep
  <2>3. CASE SaveCredential(s) \/ SaveHash(s) \/ DeleteHash(s) \/ DeleteGrace(s) \/ Rotate(s)
    BY <1>1, <2>1, <2>3
       DEF SaveCredential, SaveHash, DeleteHash, DeleteGrace, Rotate, Step, callVars, CallFact,
           Refreshing
  <2>4. CASE \E right \in BOOLEAN : CheckPassword(s, right)
    BY <1>1, <2>1, <2>4 DEF CheckPassword, Moves, Step, callVars, CallFact, Refreshing
  <2>5. CASE CheckAge(s) \/ CompareToken(s) \/ CompareGrace(s)
    BY <1>1, <2>1, <2>5
       DEF CheckAge, CompareToken, CompareGrace, Moves, Step, callVars, CallFact, Refreshing
  <2>6. CASE Begun(s) \/ Reset(s) \/ Store(s) \/ EndToken(s) \/ EndSession(s)
    BY <1>1, <2>1, <2>6
       DEF Begun, Reset, Store, EndToken, EndSession, StartSession, ResetAge, StoreToken,
           DeleteToken, DeleteIssued, Step, callVars, CallFact, Refreshing
  <2>7. CASE Deliver(s) \/ Abandon(s)
    BY <1>4, <2>7
  <2>8. CASE \E w \in Browsers : Request(s, w)
    BY <1>3, <2>8
  <2>9. QED
    BY <2>2, <2>3, <2>4, <2>5, <2>6, <2>7, <2>8 DEF StepOf, AuthStep
<1>6. QED
  <2>1. \/ \E w \in Browsers : Request(s, w)
        \/ Deliver(s) \/ Abandon(s)
        \/ seen' = seen
    BY DEF StepOf, UserStep, CreateUser, GetUserByEmail, ResolvePrincipal, FindUser, DeleteUser,
           UpdateUser, AuthStep, Begun, Reset, Store, EndToken, EndSession, historyVars
  <2>2. QED
    BY <1>3, <1>4, <1>5, <2>1

LEMMA CallFactOfOthers ==
    ASSUME TypeOK, NEW s \in Slots, StepOf(s), NEW t \in Slots, t # s, CallFact(t)
    PROVE  CallFact(t)'
BY SlotsApart, HistoryGrows DEF CallFact

LEMMA CallFactKept ==
    ASSUME IInv, NEW s \in Slots, StepOf(s)
    PROVE  \A t \in Slots : CallFact(t)'
<1>1. TypeOK /\ \A t \in Slots : CallFact(t)
  BY DEF IInv
<1>2. QED
  BY <1>1, CallFactOfSelf, CallFactOfOthers

-----------------------------------------------------------------------------
\* Who has withdrawn

\* A row that an update has not inserted again does not come back.
LEMMA RowsMove ==
    ASSUME IInv, NEW s \in Slots, StepOf(s)
    PROVE  /\ lastId <= lastId' /\ lastId' \in Nat /\ profile' <= lastId'
           /\ \A id \in Ids : /\ id <= lastId
                              /\ profile # id \/ id \in restored
                              => profile' # id \/ id \in restored'
<1>1. /\ profile \in Ids \cup {NoId} /\ lastId \in Nat /\ profile <= lastId
      /\ CallFact(s) /\ NoId \notin Ids /\ Ids \subseteq Nat
      /\ op[s] = "update" => acct[s] <= lastId
  BY ConstantsAreTyped DEF IInv, TypeOK, UserType, WithdrawFacts, NoId
<1>2. CASE UNCHANGED userVars
  BY <1>1, <1>2 DEF userVars, NoId
<1>3. CASE InsertUser
  BY <1>1, <1>3 DEF InsertUser, NoId
<1>4. CASE DeleteUser(s)
  <2>1. MoveToBackup(acct[s])
    BY <1>4 DEF DeleteUser
  <2>2. QED
    BY <1>1, <2>1 DEF MoveToBackup, NoId
<1>5. CASE UpdateUser(s)
  <2>1. acct[s] <= lastId /\ acct[s] \in Ids
    BY <1>1, <1>5 DEF UpdateUser, Moves, Step, CallFact
  <2>2. CASE SaveUser(acct[s])
    <3>1. CASE UNCHANGED userVars
      BY <1>2, <3>1
    <3>2. CASE profile' = acct[s] /\ restored' = restored \cup {acct[s]} /\ lastId' = lastId
      BY <1>1, <2>1, <3>2
    <3>3. QED
      BY <2>2, <3>1, <3>2 DEF SaveUser
  <2>3. QED
    BY <1>2, <1>5, <2>2 DEF UpdateUser
<1>6. UNCHANGED userVars \/ InsertUser \/ DeleteUser(s) \/ UpdateUser(s)
  <2>1. TypeOK
    BY DEF IInv
  <2>2. (\E w \in Browsers : Request(s, w)) => UNCHANGED userVars
    BY <2>1, RequestBegins DEF Send
  <2>3. QED
    BY <2>2 DEF StepOf, UserStep, CreateUser, GetUserByEmail, ResolvePrincipal, FindUser, AuthStep,
                Begun, Reset, Store, EndToken, EndSession, Deliver, Abandon, Free
<1>7. QED
  BY <1>2, <1>3, <1>4, <1>5, <1>6

\* What WithdrawFacts says of a call.
Served(t) ==
    /\ op[t] \in {"logout", "password", "withdraw", "update"} => acct[t] <= lastId
    /\ \/ at[t] \in {"hash", "issue", "rotate", "store", "answered"}
       \/ at[t] = "check" /\ op[t] = "login"
       => /\ acct[t] <= lastId
          /\ acct[t] \notin seen[t].gone \/ acct[t] \in restored
    /\ op[t] = "withdraw" /\ at[t] \in {"delHash", "delToken", "delGrace", "delIssued"}
       => profile # acct[t] \/ acct[t] \in restored

LEMMA ServedOfOthers ==
    ASSUME IInv, NEW s \in Slots, StepOf(s), NEW t \in Slots, t # s, Served(t)
    PROVE  Served(t)'
<1>1. TypeOK /\ CallFact(t)
  BY DEF IInv
<1>2. /\ at'[t] = at[t] /\ op'[t] = op[t] /\ acct'[t] = acct[t] /\ seen'[t] = seen[t]
      /\ restored \subseteq restored'
  BY <1>1, SlotsApart, HistoryGrows
<1>3. lastId <= lastId' /\ lastId \in Nat /\ lastId' \in Nat /\ acct[t] \in Nat
  BY <1>1, RowsMove, TokensAreTyped, ConstantsAreTyped DEF TypeOK, UserType, NoId
<1>4. acct[t] <= lastId => acct[t] <= lastId'
  BY <1>3
<1>5. op[t] = "withdraw" /\ at[t] \in {"delHash", "delToken", "delGrace", "delIssued"}
      => profile' # acct[t] \/ acct[t] \in restored'
  <2>1. at[t] \in {"delHash", "delToken", "delGrace", "delIssued"} => acct[t] \in Ids
    BY <1>1 DEF CallFact
  <2>2. QED
    BY <2>1, RowsMove DEF Served
<1>6. QED
  BY <1>2, <1>4, <1>5 DEF Served

LEMMA ServedOfSelf ==
    ASSUME IInv, NEW s \in Slots, StepOf(s)
    PROVE  Served(s)'
<1>1. TypeOK /\ CallFact(s) /\ Served(s)
  BY DEF IInv, WithdrawFacts, Served
<1>2. /\ lastId \in Nat /\ lastId' \in Nat /\ lastId <= lastId' /\ profile <= lastId
      /\ profile \in Nat /\ acct[s] \in Nat /\ NoId = 0
      /\ acct[s] <= lastId => acct[s] <= lastId'
      /\ acct[s] \in Ids /\ acct[s] <= lastId /\ (profile # acct[s] \/ acct[s] \in restored)
         => profile' # acct[s] \/ acct[s] \in restored'
  <2>1. /\ lastId \in Nat /\ profile \in Nat /\ acct[s] \in Nat /\ lastId' \in Nat
        /\ lastId <= lastId' /\ profile <= lastId
    BY <1>1, RowsMove, TokensAreTyped, ConstantsAreTyped
       DEF TypeOK, UserType, NoId, IInv, WithdrawFacts
  <2>2. QED
    BY <2>1, RowsMove DEF NoId
<1>3. \A x : /\ [at EXCEPT ![s] = x][s] = x /\ [op EXCEPT ![s] = x][s] = x
             /\ [acct EXCEPT ![s] = x][s] = x
  BY <1>1 DEF TypeOK, AuthType
<1>4. /\ restored \subseteq restored'
      /\ \A id \in gone : id <= lastId /\ (profile # id \/ id \in restored)
      /\ seen[s].gone \subseteq gone
  BY <1>1, HistoryGrows DEF IInv, WithdrawFacts, CallFact
<1>5. CASE \E w \in Browsers : Request(s, w)
  <2>1. PICK w \in Browsers : Request(s, w)
    BY <1>5
  <2>2. PICK what, first, id, presented :
          Send(s, w, what, first, id, presented) /\ Begins(w, what, first, id, presented)
    BY <1>1, <2>1, RequestBegins
  <2>3. at'[s] = first /\ op'[s] = what /\ acct'[s] = id /\ UNCHANGED userVars
    BY <1>3, <2>2 DEF Send, Begin, Step
  <2>4. /\ first \in {"exists", "find", "age", "delToken", "check", "findUser"}
        /\ first = "check" => what = "password"
        /\ what = "withdraw" => first = "findUser"
        /\ what \in {"logout", "password", "withdraw", "update"} => id = access[w]
    BY <2>2 DEF Begins
  <2>5. access[w] <= lastId
    BY DEF IInv, WithdrawFacts
  <2>6. QED
    BY <2>3, <2>4, <2>5 DEF Served, userVars
<1>6. CASE Deliver(s) \/ Abandon(s)
  <2>1. at'[s] = "idle" /\ op'[s] = "none"
    BY <1>3, <1>6 DEF Deliver, Abandon, Free
  <2>2. QED
    BY <2>1 DEF Served
<1>7. CASE UserStep(s)
  <2>1. CASE CreateUser(s)
    <3>1. CASE Registered(s, lastId + 1) /\ InsertUser
      <4>1. at'[s] = "hash" /\ op'[s] = "register" /\ acct'[s] = lastId + 1 /\ lastId' = lastId + 1
            /\ seen'[s] = seen[s]
        BY <1>1, <1>3, <2>1, <3>1 DEF Registered, InsertUser, Step, CallFact, CreateUser, historyVars
      <4>2. lastId + 1 \notin seen[s].gone
        BY <1>2, <1>4
      <4>3. QED
        BY <1>2, <4>1, <4>2 DEF Served
    <3>2. CASE UNCHANGED op /\ at'[s] \in {"insert", "refused"} /\ acct' = acct
      BY <1>1, <1>2, <3>2 DEF Served
    <3>3. QED
      BY <1>3, <2>1, <3>1, <3>2 DEF CreateUser, Moves, Step, callVars
  <2>2. CASE GetUserByEmail(s) \/ ResolvePrincipal(s)
    <3>1. CASE /\ op'[s] \in {"login", "refresh"} /\ acct'[s] = profile /\ seen'[s] = seen[s]
               /\ UNCHANGED userVars
      BY <1>2, <1>4, <3>1 DEF Served, userVars
    <3>2. CASE UNCHANGED <<op, acct, userVars>> /\ at'[s] = "refused"
      BY <1>1, <3>2 DEF Served, userVars
    <3>3. \/ /\ op'[s] \in {"login", "refresh"} /\ acct'[s] = profile /\ seen'[s] = seen[s]
             /\ UNCHANGED userVars
          \/ UNCHANGED <<op, acct, userVars>> /\ at'[s] = "refused"
      <4>1. at[s] = "find" => op[s] = "login"
        BY <1>1 DEF CallFact
      <4>2. at[s] \in {"resolve", "reuse"} => op[s] = "refresh"
        BY <1>1 DEF CallFact, Refreshing
      <4>3. CASE GetUserByEmail(s)
        BY <1>3, <4>1, <4>3 DEF GetUserByEmail, Found, Moves, Step, callVars, historyVars
      <4>4. CASE ResolvePrincipal(s)
        BY <1>3, <4>2, <4>4 DEF ResolvePrincipal, Resolved, NotResolved, Moves, Step, callVars
      <4>5. QED
        BY <2>2, <4>3, <4>4
    <3>4. QED
      BY <3>1, <3>2, <3>3
  <2>3. CASE FindUser(s) \/ UpdateUser(s)
    <3>1. UNCHANGED <<op, acct>> /\ at'[s] \in {"move", "saveUser", "refused", "done"}
      BY <1>3, <2>3 DEF FindUser, UpdateUser, Moves, Step, callVars
    <3>2. QED
      BY <1>1, <1>2, <3>1 DEF Served
  <2>4. CASE DeleteUser(s)
    <3>1. UNCHANGED <<op, acct, lastId>> /\ at'[s] = "delHash" /\ acct[s] \in Ids
          /\ MoveToBackup(acct[s])
      BY <1>1, <1>3, <2>4 DEF DeleteUser, Moves, Step, callVars, CallFact, MoveToBackup
    <3>2. profile' # acct[s]
      BY <3>1, ConstantsAreTyped DEF MoveToBackup
    <3>3. QED
      BY <1>1, <3>1, <3>2 DEF Served
  <2>5. QED
    BY <1>7, <2>1, <2>2, <2>3, <2>4 DEF UserStep
<1>8. CASE AuthStep(s) \/ Begun(s) \/ Reset(s) \/ Store(s) \/ EndToken(s) \/ EndSession(s)
  <2>1. /\ UNCHANGED <<op, acct, userVars, seen>>
        /\ at'[s] \in {"hash", "issue", "rotate", "store", "answered"}
           => \/ at[s] \in {"hash", "issue", "rotate", "store"}
              \/ at[s] = "check" /\ op[s] = "login"
        /\ at'[s] # "check"
        /\ op[s] = "withdraw" /\ at'[s] \in {"delHash", "delToken", "delGrace", "delIssued"}
           => at[s] \in {"delHash", "delToken", "delGrace", "delIssued"}
    <3>1. UNCHANGED <<userVars, seen>>
      BY <1>8 DEF AuthStep, Begun, Reset, Store, EndToken, EndSession, historyVars
    <3>2. CASE SaveCredential(s) \/ SaveHash(s) \/ DeleteHash(s) \/ DeleteGrace(s) \/ Rotate(s)
      BY <1>1, <1>3, <3>1, <3>2
         DEF SaveCredential, SaveHash, DeleteHash, DeleteGrace, Rotate, Step, callVars, CallFact
    <3>3. CASE \E right \in BOOLEAN : CheckPassword(s, right)
      BY <1>3, <3>1, <3>3 DEF CheckPassword, Moves, Step, callVars
    <3>4. CASE CheckAge(s) \/ CompareToken(s) \/ CompareGrace(s)
      BY <1>1, <1>3, <3>1, <3>4
         DEF CheckAge, CompareToken, CompareGrace, Moves, Step, callVars, CallFact, Refreshing
    <3>5. CASE Begun(s) \/ Reset(s) \/ Store(s) \/ EndToken(s) \/ EndSession(s)
      BY <1>1, <1>3, <3>1, <3>5
         DEF Begun, Reset, Store, EndToken, EndSession, StartSession, ResetAge, StoreToken,
             DeleteToken, DeleteIssued, Step, callVars
    <3>6. QED
      BY <1>8, <3>2, <3>3, <3>4, <3>5 DEF AuthStep
  <2>2. QED
    BY <1>1, <2>1 DEF Served, userVars
<1>9. QED
  BY <1>5, <1>6, <1>7, <1>8 DEF StepOf

LEMMA WithdrawFactsKept ==
    ASSUME IInv, NEW s \in Slots, StepOf(s)
    PROVE  WithdrawFacts'
<1>1. TypeOK /\ CallFact(s) /\ \A t \in Slots : Served(t)
  BY DEF IInv, WithdrawFacts, Served
<1>2. \A t \in Slots : Served(t)'
  BY <1>1, ServedOfSelf, ServedOfOthers
<1>3. lastId <= lastId' /\ lastId' \in Nat /\ lastId \in Nat /\ profile' <= lastId'
  BY <1>1, RowsMove, ConstantsAreTyped DEF TypeOK, UserType, NoId
<1>4. \A w \in Browsers : access'[w] <= lastId'
  <2>1. /\ access \in [Browsers -> Nat]
        /\ \A w \in Browsers : access[w] <= lastId
        /\ acct[s] \in Nat
    <3>1. acct[s] \in Nat
      BY <1>1, TokensAreTyped
    <3>2. Ids \cup {NoId} \subseteq Nat /\ access \in [Browsers -> Ids \cup {NoId}]
      BY <1>1, ConstantsAreTyped DEF TypeOK, NoId
    <3>3. \A w \in Browsers : access[w] <= lastId
      BY DEF IInv, WithdrawFacts
    <3>4. QED
      BY <3>1, <3>2, <3>3
  <2>2. \/ access' = access
        \/ access' = [access EXCEPT ![web[s]] = NoId]
        \/ /\ access' = [access EXCEPT ![web[s]] = acct[s]]
           /\ at[s] = "answered"
    <3>1. (\E w \in Browsers : Request(s, w)) => access' = access
      BY <1>1, RequestBegins DEF Send
    <3>2. UserStep(s) => access' = access
      BY DEF UserStep, CreateUser, GetUserByEmail, ResolvePrincipal, FindUser, DeleteUser,
             UpdateUser, browserVars
    <3>3. AuthStep(s) \/ Begun(s) \/ Reset(s) \/ Store(s) \/ EndToken(s) \/ EndSession(s)
          => access' = access
      BY DEF AuthStep, Begun, Reset, Store, EndToken, EndSession, browserVars
    <3>4. QED
      BY <3>1, <3>2, <3>3 DEF StepOf, Deliver, Abandon
  <2>3. at[s] = "answered" => acct[s] <= lastId
    BY <1>1 DEF Served
  <2>4. TAKE w \in Browsers
  <2>5. access'[w] \in {access[w], NoId} \/ (access'[w] = acct[s] /\ acct[s] <= lastId)
    BY <2>1, <2>2, <2>3
  <2>6. QED
    BY <1>3, <2>1, <2>5 DEF NoId
<1>5. \A id \in gone' : id <= lastId' /\ (profile' # id \/ id \in restored')
  <2>1. \/ gone' = gone
        \/ /\ gone' = gone \cup {acct[s]}
           /\ op[s] = "withdraw" /\ at[s] = "delIssued"
    <3>1. (\E w \in Browsers : Request(s, w)) => gone' = gone
      BY <1>1, RequestBegins DEF Send
    <3>2. UserStep(s) => gone' = gone
      BY DEF UserStep, CreateUser, GetUserByEmail, ResolvePrincipal, FindUser, DeleteUser,
             UpdateUser, historyVars
    <3>3. AuthStep(s) \/ Begun(s) \/ Reset(s) \/ Store(s) \/ EndToken(s) => gone' = gone
      BY DEF AuthStep, Begun, Reset, Store, EndToken, historyVars
    <3>4. Deliver(s) \/ Abandon(s) => gone' = gone
      BY DEF Deliver, Abandon, Free
    <3>5. EndSession(s) => \/ gone' = gone
                           \/ /\ gone' = gone \cup {acct[s]}
                              /\ op[s] = "withdraw" /\ at[s] = "delIssued"
      BY DEF EndSession, DeleteIssued, Step
    <3>6. QED
      BY <3>1, <3>2, <3>3, <3>4, <3>5 DEF StepOf
  <2>2. TAKE id \in gone'
  <2>3. id \in Ids /\ id <= lastId /\ (profile # id \/ id \in restored)
    <3>1. CASE id \in gone
      BY <3>1 DEF IInv, TypeOK, WithdrawFacts
    <3>2. CASE id = acct[s] /\ op[s] = "withdraw" /\ at[s] = "delIssued"
      BY <1>1, <3>2 DEF Served, CallFact
    <3>3. QED
      BY <2>1, <3>1, <3>2
  <2>4. profile' # id \/ id \in restored'
    BY <2>3, RowsMove
  <2>5. QED
    BY <1>3, <2>3, <2>4, ConstantsAreTyped
<1>6. QED
  BY <1>2, <1>3, <1>4, <1>5 DEF WithdrawFacts, Served

-----------------------------------------------------------------------------
\* Which sessions have ended

LEMMA TornStays ==
    ASSUME TypeOK, NEW s \in Slots, StepOf(s), torn
    PROVE  torn'
<1>1. CASE \E w \in Browsers : Request(s, w)
  BY <1>1, RequestBegins DEF Send
<1>2. CASE UserStep(s)
  BY <1>2 DEF UserStep, CreateUser, GetUserByEmail, ResolvePrincipal, FindUser, DeleteUser,
              UpdateUser, historyVars
<1>3. CASE AuthStep(s) \/ Begun(s) \/ Reset(s) \/ Store(s) \/ EndToken(s) \/ EndSession(s)
  BY <1>3 DEF AuthStep, Begun, Reset, Store, EndToken, EndSession, historyVars
<1>4. CASE Deliver(s) \/ Abandon(s)
  BY <1>4 DEF Deliver, Abandon
<1>5. QED
  BY <1>1, <1>2, <1>3, <1>4 DEF StepOf

LEMMA EndedFactsKept ==
    ASSUME IInv, NEW s \in Slots, StepOf(s)
    PROVE  EndedFacts'
<1> SUFFICES ASSUME ~torn'
             PROVE  /\ \A id \in over' : token'[id] = NoToken
                    /\ \A t \in Slots : at'[t] \in {"resolve", "rotate", "store"}
                                        => acct'[t] \notin over'
  BY DEF EndedFacts
<1>1. TypeOK /\ CallFact(s)
  BY DEF IInv
<1>2. /\ ~torn
      /\ \A id \in over : token[id] = NoToken
      /\ \A t \in Slots : at[t] \in {"resolve", "rotate", "store"} => acct[t] \notin over
  BY <1>1, TornStays DEF IInv, EndedFacts
<1>3. \A x : [at EXCEPT ![s] = x][s] = x /\ [acct EXCEPT ![s] = x][s] = x
  BY <1>1 DEF TypeOK, AuthType
<1>4. \A t \in Slots \ {s} : at'[t] = at[t] /\ acct'[t] = acct[t]
  BY <1>1, SlotsApart
<1>5. over \in SUBSET Ids /\ token \in [Ids -> Tokens \cup {NoToken}]
  BY <1>1 DEF TypeOK, AuthType
<1>6. ASSUME over' = over, token' = token,
             at'[s] \in {"resolve", "rotate", "store"} => acct'[s] \notin over
      PROVE  /\ \A id \in over' : token'[id] = NoToken
             /\ \A t \in Slots : at'[t] \in {"resolve", "rotate", "store"} => acct'[t] \notin over'
  BY <1>2, <1>4, <1>6
<1>7. CASE \E w \in Browsers : Request(s, w)
  <2>1. PICK w \in Browsers : Request(s, w)
    BY <1>7
  <2>2. PICK what, first, id, presented :
          Send(s, w, what, first, id, presented) /\ Begins(w, what, first, id, presented)
    BY <1>1, <2>1, RequestBegins
  <2>3. at'[s] = first /\ over' = over /\ token' = token
    BY <1>3, <2>2 DEF Send, Begin, Step, redisVars
  <2>4. first \notin {"resolve", "rotate", "store"}
    BY <2>2 DEF Begins
  <2>5. QED
    BY <1>6, <2>3, <2>4
<1>8. CASE UserStep(s)
  <2>1. over' = over
    BY <1>8 DEF UserStep, CreateUser, GetUserByEmail, ResolvePrincipal, FindUser, DeleteUser,
                UpdateUser, historyVars
  <2>2. CASE ResolvePrincipal(s) /\ profile # NoId /\ Resolved(s, profile)
    <3>1. /\ profile = acct[s] /\ token' = token /\ acct'[s] = profile
          /\ \/ at[s] = "resolve" /\ at'[s] = "rotate"
             \/ at'[s] = "answered"
      BY <1>3, <2>2 DEF ResolvePrincipal, Resolved, Step, redisVars
    <3>2. QED
      BY <1>2, <1>6, <2>1, <3>1
  <2>3. CASE token' = token /\ at'[s] \notin {"resolve", "rotate", "store"}
    BY <1>6, <2>1, <2>3
  <2>4. \/ ResolvePrincipal(s) /\ profile # NoId /\ Resolved(s, profile)
        \/ token' = token /\ at'[s] \notin {"resolve", "rotate", "store"}
    <3>1. CASE CreateUser(s) \/ GetUserByEmail(s)
      BY <1>3, <3>1 DEF CreateUser, GetUserByEmail, Registered, Found, Moves, Step, redisVars
    <3>2. CASE ResolvePrincipal(s)
      BY <1>3, <3>2 DEF ResolvePrincipal, NotResolved, Moves, Step, redisVars
    <3>3. CASE FindUser(s) \/ DeleteUser(s) \/ UpdateUser(s)
      BY <1>3, <3>3 DEF FindUser, DeleteUser, UpdateUser, Moves, Step, redisVars
    <3>4. QED
      BY <1>8, <3>1, <3>2, <3>3 DEF UserStep
  <2>5. QED
    BY <2>2, <2>3, <2>4
<1>9. CASE AuthStep(s)
  <2>1. over' = over
    BY <1>9 DEF AuthStep, historyVars
  <2>2. CASE CompareToken(s)
    <3>1. /\ token' = token /\ acct' = acct /\ at[s] = "compare"
          /\ at'[s] \notin {"rotate", "store"}
          /\ at'[s] = "resolve" => token[acct[s]] = shown[s]
      BY <1>3, <2>2 DEF CompareToken, Moves, Step, redisVars, callVars
    <3>2. at'[s] = "resolve" => acct[s] \notin over
      BY <1>1, <1>2, <3>1, ConstantsAreTyped DEF CallFact, Refreshing
    <3>3. QED
      BY <1>6, <2>1, <3>1, <3>2
  <2>3. CASE Rotate(s)
    <3>1. token' = token /\ acct' = acct /\ at[s] = "rotate"
      BY <2>3 DEF Rotate, Step
    <3>2. QED
      BY <1>2, <1>6, <2>1, <3>1
  <2>4. CASE SaveCredential(s) \/ SaveHash(s) \/ DeleteHash(s) \/ DeleteGrace(s)
    <3>1. token' = token /\ at'[s] \notin {"resolve", "rotate", "store"}
      BY <1>3, <2>4 DEF SaveCredential, SaveHash, DeleteHash, DeleteGrace, Step, redisVars
    <3>2. QED
      BY <1>6, <2>1, <3>1
  <2>5. CASE (\E right \in BOOLEAN : CheckPassword(s, right)) \/ CheckAge(s) \/ CompareGrace(s)
    <3>1. token' = token /\ at'[s] \notin {"resolve", "rotate", "store"}
      BY <1>3, <2>5 DEF CheckPassword, CheckAge, CompareGrace, Moves, Step, redisVars
    <3>2. QED
      BY <1>6, <2>1, <3>1
  <2>6. QED
    BY <1>9, <2>2, <2>3, <2>4, <2>5 DEF AuthStep
<1>10. CASE Begun(s)
  <2>1. over' = over \ {acct[s]} /\ token' = token /\ acct' = acct
    BY <1>10 DEF Begun, StartSession
  <2>2. QED
    BY <1>2, <1>4, <2>1
<1>11. CASE Reset(s) \/ EndSession(s)
  <2>1. over' = over /\ token' = token /\ at'[s] \notin {"resolve", "rotate", "store"}
    BY <1>3, <1>11 DEF Reset, EndSession, ResetAge, DeleteIssued, Step
  <2>2. QED
    BY <1>6, <2>1
<1>12. CASE Store(s)
  <2>1. /\ over' = over /\ token' = [token EXCEPT ![acct[s]] = out[s]]
        /\ at[s] = "store" /\ at'[s] = "answered"
    BY <1>3, <1>12 DEF Store, StoreToken, Step
  <2>2. QED
    BY <1>2, <1>4, <1>5, <2>1
<1>13. CASE EndToken(s)
  <2>1. /\ over' = over \cup {acct[s]} /\ token' = [token EXCEPT ![acct[s]] = NoToken]
        /\ acct' = acct /\ acct[s] \in Ids /\ at'[s] = "delGrace"
        /\ ~BeingRenewed(s)
    BY <1>1, <1>3, <1>13 DEF EndToken, DeleteToken, Step, callVars, CallFact
  <2>2. QED
    BY <1>2, <1>4, <1>5, <2>1 DEF BeingRenewed
<1>14. CASE Deliver(s) \/ Abandon(s)
  <2>1. over' = over /\ token' = token /\ at'[s] = "idle"
    BY <1>3, <1>14 DEF Deliver, Abandon, Free, redisVars
  <2>2. QED
    BY <1>6, <2>1
<1>15. QED
  BY <1>7, <1>8, <1>9, <1>10, <1>11, <1>12, <1>13, <1>14 DEF StepOf

-----------------------------------------------------------------------------
\* How long sessions last

LEMMA LoggedInKept ==
    ASSUME IInv, NEW s \in Slots, StepOf(s), ~torn', NEW id \in Ids, NEW time \in Times,
           LoggedIn(id, time)
    PROVE  LoggedIn(id, time)'
<1>1. TypeOK /\ CallFact(s) /\ torn \in BOOLEAN
  BY DEF IInv, TypeOK
<1>2. /\ loginAt \in [Ids -> Times \cup {Unset}] /\ out[s].iat \in Times /\ Unset \notin Times
      /\ \A x \in Times : x \in Nat /\ x <= x
  <2>1. /\ loginAt \in [Ids -> Times \cup {Unset}] /\ out[s].iat \in Times /\ Unset \notin Times
    BY <1>1, TokensAreTyped, ConstantsAreTyped DEF TypeOK
  <2>2. \A x \in Times : x \in Nat /\ x <= x
    BY ConstantsAreTyped
  <2>3. QED
    BY <2>1, <2>2
<1>3. \A t \in Slots \ {s} : /\ at'[t] = at[t] /\ op'[t] = op[t] /\ acct'[t] = acct[t]
                             /\ out'[t] = out[t]
  BY <1>1, SlotsApart
<1>4. CASE Store(s)
  <2>1. loginAt' = loginAt
          \/ (loginAt' = [loginAt EXCEPT ![acct[s]] = out[s].iat]
              /\ loginAt[acct[s]] \notin out[s].iat..MaxTime)
    BY <1>4 DEF Store
  <2>2. at[s] = "store" /\ acct[s] \in Ids
    BY <1>1, <1>4 DEF Store, StoreToken, Step, CallFact
  <2>3. CASE loginAt[id] # Unset /\ time <= loginAt[id]
    <3>1. loginAt[id] \in Times
      BY <1>2, <2>3
    <3>2. loginAt'[id] \in Times /\ loginAt[id] <= loginAt'[id]
      <4>1. CASE loginAt'[id] = loginAt[id]
        BY <1>2, <3>1, <4>1
      <4>2. CASE /\ id = acct[s] /\ loginAt'[id] = out[s].iat
                 /\ loginAt[id] \notin out[s].iat..MaxTime
        BY <1>2, <3>1, <4>2, AuthAssumption DEF Times
      <4>3. QED
        BY <1>2, <2>1, <4>1, <4>2
    <3>3. time <= loginAt'[id]
      BY <1>2, <2>3, <3>1, <3>2
    <3>4. QED
      BY <1>2, <3>2, <3>3 DEF LoggedIn
  <2>4. ASSUME NEW t \in Slots, at[t] = "store", op[t] # "refresh", acct[t] = id,
               time <= out[t].iat
        PROVE  LoggedIn(id, time)'
    <3>1. CASE t = s
      <4>1. loginAt'[id] \in Times /\ out[s].iat <= loginAt'[id]
        <5>1. CASE loginAt[id] \in out[s].iat..MaxTime /\ loginAt' = loginAt
          BY <1>2, <5>1, AuthAssumption DEF Times
        <5>2. CASE loginAt' = [loginAt EXCEPT ![id] = out[s].iat]
          <6>1. loginAt'[id] = out[s].iat
            BY <1>2, <5>2
          <6>2. QED
            BY <1>2, <6>1
        <5>3. QED
          BY <1>4, <2>4, <3>1, <5>1, <5>2 DEF Store
      <4>2. time <= loginAt'[id]
        BY <1>2, <2>4, <3>1, <4>1
      <4>3. QED
        BY <1>2, <4>1, <4>2 DEF LoggedIn
    <3>2. CASE t # s
      BY <1>3, <2>4, <3>2 DEF LoggedIn
    <3>3. QED
      BY <3>1, <3>2
  <2>5. QED
    BY <2>3, <2>4 DEF LoggedIn
<1>5. CASE ~Store(s)
  <2>1. loginAt' = loginAt
    <3>1. (\E w \in Browsers : Request(s, w)) => loginAt' = loginAt
      BY <1>1, RequestBegins DEF Send
    <3>2. UserStep(s) => loginAt' = loginAt
      BY DEF UserStep, CreateUser, GetUserByEmail, ResolvePrincipal, FindUser, DeleteUser,
             UpdateUser, historyVars
    <3>3. AuthStep(s) \/ Begun(s) \/ Reset(s) \/ EndToken(s) \/ EndSession(s)
          => loginAt' = loginAt
      BY DEF AuthStep, Begun, Reset, EndToken, EndSession, historyVars
    <3>4. QED
      BY <1>5, <3>1, <3>2, <3>3 DEF StepOf, Deliver, Abandon, Free
  <2>2. ~(at[s] = "store" /\ op[s] # "refresh")
    <3>1. Abandon(s) => ~(at[s] = "store" /\ op[s] # "refresh")
      BY DEF Abandon
    <3>2. (\E w \in Browsers : Request(s, w)) => at[s] = "idle"
      BY <1>1, RequestBegins DEF Send, Begin, Step
    <3>3. UserStep(s) => at[s] # "store"
      BY DEF UserStep, CreateUser, GetUserByEmail, ResolvePrincipal, FindUser, DeleteUser,
             UpdateUser, Registered, Found, Resolved, NotResolved, Moves, Step
    <3>4. AuthStep(s) => at[s] # "store"
      BY DEF AuthStep, SaveCredential, SaveHash, DeleteHash, DeleteGrace, Rotate, CheckPassword,
             CheckAge, CompareToken, CompareGrace, Moves, Step
    <3>5. Begun(s) \/ Reset(s) \/ EndToken(s) \/ EndSession(s) \/ Deliver(s) => at[s] # "store"
      BY DEF Begun, Reset, EndToken, EndSession, StartSession, ResetAge, DeleteToken,
             DeleteIssued, Deliver, Step
    <3>6. QED
      BY <1>5, <3>1, <3>2, <3>3, <3>4, <3>5 DEF StepOf
  <2>3. QED
    BY <1>3, <2>1, <2>2 DEF LoggedIn
<1>6. QED
  BY <1>4, <1>5

LEMMA BoundedKept ==
    ASSUME IInv, NEW s \in Slots, StepOf(s), ~torn', NEW t \in Slots, acct[t] \in Ids,
           acct'[t] = acct[t], seen'[t] = seen[t], Bounded(t)
    PROVE  Bounded(t)'
<1>1. PICK time \in Times : LoggedIn(acct[t], time) /\ seen[t].time <= time + AbsoluteMax
  BY DEF Bounded
<1>2. PICK id \in Ids : id = acct[t]
  OBVIOUS
<1>3. LoggedIn(id, time)'
  BY <1>1, <1>2, LoggedInKept
<1>4. QED
  BY <1>1, <1>2, <1>3 DEF Bounded, LoggedIn

\* Where the tokens that a step puts anywhere come from.
LEMMA TokensComeFrom ==
    ASSUME IInv, NEW s \in Slots, StepOf(s)
    PROVE  /\ \A w \in Browsers : cookie'[w] \in {cookie[w], out[s], NoToken}
           /\ \A x \in Ids : token'[x] \in {token[x], out[s], NoToken}
<1>1. /\ TypeOK /\ cookie \in [Browsers -> Tokens \cup {NoToken}]
      /\ token \in [Ids -> Tokens \cup {NoToken}]
  BY DEF IInv, TypeOK, AuthType
<1>2. (\E w \in Browsers : Request(s, w)) => cookie' = cookie /\ token' = token
  BY <1>1, RequestBegins DEF Send, Begin, redisVars
<1>3. \/ cookie' = cookie \/ cookie' = [cookie EXCEPT ![web[s]] = out[s]]
      \/ cookie' = [cookie EXCEPT ![web[s]] = NoToken]
  <2>1. UserStep(s) => cookie' = cookie
    BY DEF UserStep, CreateUser, GetUserByEmail, ResolvePrincipal, FindUser, DeleteUser,
           UpdateUser, browserVars
  <2>2. AuthStep(s) \/ Begun(s) \/ Reset(s) \/ Store(s) \/ EndToken(s) \/ EndSession(s)
        => cookie' = cookie
    BY DEF AuthStep, Begun, Reset, Store, EndToken, EndSession, browserVars
  <2>3. QED
    BY <1>2, <2>1, <2>2 DEF StepOf, Deliver, Abandon
<1>4. \/ token' = token \/ token' = [token EXCEPT ![acct[s]] = out[s]]
      \/ token' = [token EXCEPT ![acct[s]] = NoToken]
  <2>1. UserStep(s) => token' = token
    BY DEF UserStep, CreateUser, GetUserByEmail, ResolvePrincipal, FindUser, DeleteUser,
           UpdateUser, Registered, Found, Resolved, NotResolved, Moves, redisVars
  <2>2. AuthStep(s) => token' = token
    BY DEF AuthStep, SaveCredential, SaveHash, DeleteHash, DeleteGrace, Rotate, CheckPassword,
           CheckAge, CompareToken, CompareGrace, Moves, redisVars
  <2>3. Begun(s) \/ Reset(s) \/ EndSession(s) \/ Deliver(s) \/ Abandon(s) => token' = token
    BY DEF Begun, Reset, EndSession, Deliver, Abandon, StartSession, ResetAge, DeleteIssued,
           Free, redisVars
  <2>4. QED
    BY <1>2, <2>1, <2>2, <2>3 DEF StepOf, Store, EndToken, StoreToken, DeleteToken
<1>5. QED
  BY <1>1, <1>3, <1>4

LEMMA CallsTakeTokens ==
    ASSUME IInv, NEW s \in Slots, StepOf(s)
    PROVE  /\ \/ shown'[s] \in {shown[s], NoToken}
              \/ \E w \in Browsers : shown'[s] = cookie[w]
           /\ \/ out'[s] \in {out[s], NoToken}
              \/ acct[s] \in Ids /\ out'[s] = token[acct[s]]
              \/ Rotate(s) /\ out'[s].sub = acct[s]
              \/ Begun(s) /\ out'[s].sub = acct[s]
<1>1. TypeOK /\ CallFact(s)
  BY DEF IInv
<1>2. \A x : [shown EXCEPT ![s] = x][s] = x /\ [out EXCEPT ![s] = x][s] = x
  BY <1>1 DEF TypeOK, AuthType
<1>3. CASE \E w \in Browsers : Request(s, w)
  <2>1. PICK w \in Browsers : Request(s, w)
    BY <1>3
  <2>2. PICK what, first, id, presented :
          Send(s, w, what, first, id, presented) /\ Begins(w, what, first, id, presented)
    BY <1>1, <2>1, RequestBegins
  <2>3. shown'[s] = presented /\ out'[s] = NoToken
    BY <1>2, <2>2 DEF Send, Begin
  <2>4. QED
    BY <2>2, <2>3 DEF Begins
<1>4. CASE UserStep(s)
  <2>1. shown' = shown /\ out' = out
    <3>1. CASE CreateUser(s) \/ GetUserByEmail(s) \/ ResolvePrincipal(s)
      BY <3>1 DEF CreateUser, GetUserByEmail, ResolvePrincipal, Registered, Found, Resolved,
                  NotResolved, Moves, callVars
    <3>2. CASE FindUser(s) \/ DeleteUser(s) \/ UpdateUser(s)
      BY <3>2 DEF FindUser, DeleteUser, UpdateUser, Moves, callVars
    <3>3. QED
      BY <1>4, <3>1, <3>2 DEF UserStep
  <2>2. QED
    BY <2>1
<1>5. CASE AuthStep(s)
  <2>1. CASE Rotate(s)
    BY <1>2, <2>1 DEF Rotate
  <2>2. CASE CompareToken(s)
    BY <1>1, <1>2, <2>2 DEF CompareToken, CallFact, Moves, Step, callVars
  <2>3. CASE SaveCredential(s) \/ SaveHash(s) \/ DeleteHash(s) \/ DeleteGrace(s)
    BY <2>3 DEF SaveCredential, SaveHash, DeleteHash, DeleteGrace, callVars
  <2>4. CASE (\E right \in BOOLEAN : CheckPassword(s, right)) \/ CheckAge(s) \/ CompareGrace(s)
    BY <2>4 DEF CheckPassword, CheckAge, CompareGrace, Moves, callVars
  <2>5. QED
    BY <1>5, <2>1, <2>2, <2>3, <2>4 DEF AuthStep
<1>6. CASE Begun(s)
  BY <1>2, <1>6 DEF Begun, StartSession
<1>7. CASE Reset(s) \/ Store(s) \/ EndToken(s) \/ EndSession(s)
  BY <1>7 DEF Reset, Store, EndToken, EndSession, ResetAge, StoreToken, DeleteToken,
              DeleteIssued, callVars
<1>8. CASE Deliver(s) \/ Abandon(s)
  BY <1>2, <1>8 DEF Deliver, Abandon, Free
<1>9. QED
  BY <1>3, <1>4, <1>5, <1>6, <1>7, <1>8 DEF StepOf

\* Only a login or a registration signs a token for an account no token was about.
LEMMA NamedStays ==
    ASSUME IInv, NEW s \in Slots, StepOf(s), ~torn', NEW id \in Ids, Named(id)'
    PROVE  Named(id) \/ (Begun(s) /\ id = acct[s])
<1>1. TypeOK /\ NoToken.sub # id
  BY ConstantsAreTyped DEF IInv
<1>2. CASE \E w \in Browsers : cookie'[w].sub = id
  <2>1. PICK w \in Browsers : cookie'[w].sub = id
    BY <1>2
  <2>2. QED
    BY <1>1, <2>1, TokensComeFrom DEF Named
<1>3. CASE \E x \in Ids : token'[x].sub = id
  <2>1. PICK x \in Ids : token'[x].sub = id
    BY <1>3
  <2>2. QED
    BY <1>1, <2>1, TokensComeFrom DEF Named
<1>4. CASE \E t \in Slots : id \in {shown'[t].sub, out'[t].sub}
  <2>1. PICK t \in Slots : id \in {shown'[t].sub, out'[t].sub}
    BY <1>4
  <2>2. CASE t # s
    BY <1>1, <2>1, <2>2, SlotsApart DEF Named
  <2>3. CASE t = s /\ id = shown'[s].sub
    BY <1>1, <2>3, CallsTakeTokens DEF Named
  <2>4. CASE t = s /\ id = out'[s].sub
    <3>1. Rotate(s) => acct[s] = shown[s].sub
      BY <1>1, TornStays DEF IInv, LimitFacts, Compared, Rotate, Step
    <3>2. QED
      BY <1>1, <2>4, <3>1, CallsTakeTokens DEF Named
  <2>5. QED
    BY <2>1, <2>2, <2>3, <2>4
<1>5. QED
  BY <1>2, <1>3, <1>4 DEF Named

\* A refresh that finds no start is one of a session that has ended.
LEMMA ResetMeansOver ==
    ASSUME IInv, NEW s \in Slots, Reset(s), ~torn'
    PROVE  acct[s] \in over
<1>1. /\ ~torn /\ issued[acct[s]] = Unset /\ at[s] = "reset"
  BY DEF Reset, ResetAge, Step
<1>2. CallFact(s)
  BY DEF IInv
<1>3. acct[s] \in Ids /\ acct[s] = shown[s].sub
  BY <1>1, <1>2 DEF CallFact, Refreshing
<1>4. Named(acct[s])
  BY <1>3 DEF Named
<1>5. Started
  BY <1>1 DEF IInv, LimitFacts
<1>6. QED
  BY <1>1, <1>3, <1>4, <1>5 DEF Started

LEMMA StartedKept ==
    ASSUME IInv, NEW s \in Slots, StepOf(s), ~torn'
    PROVE  Started'
<1>1. /\ TypeOK /\ CallFact(s) /\ Started /\ over \in SUBSET Ids
      /\ issued \in [Ids -> Times \cup {Unset}]
  BY TornStays DEF IInv, LimitFacts, TypeOK, AuthType
<1>2. TypeOK'
  BY <1>1, StepKeepsType
<1>3. Unset \notin Times /\ now \in Times /\ now <= now
  BY <1>1, TokensAreTyped, ConstantsAreTyped
<1>4. \/ Begun(s)
      \/ /\ over \subseteq over' /\ over' \in SUBSET Ids
         /\ \A id \in Ids \ over' : issued'[id] = issued[id]
  <2>1. CASE Reset(s)
    <3>1. over' = over /\ issued' = [issued EXCEPT ![acct[s]] = now]
      BY <2>1 DEF Reset, ResetAge
    <3>2. acct[s] \in over
      BY <2>1, ResetMeansOver
    <3>3. QED
      BY <1>1, <3>1, <3>2
  <2>2. CASE EndSession(s)
    <3>1. over' = over /\ issued' = [issued EXCEPT ![acct[s]] = Unset] /\ acct[s] \in over
      BY <2>2 DEF EndSession, DeleteIssued
    <3>2. QED
      BY <1>1, <3>1
  <2>3. CASE EndToken(s)
    <3>1. over' = over \cup {acct[s]} /\ issued' = issued /\ acct[s] \in Ids
      BY <1>1, <2>3 DEF EndToken, DeleteToken, Step, CallFact
    <3>2. QED
      BY <1>1, <3>1
  <2>4. CASE \E w \in Browsers : Request(s, w)
    BY <1>1, <2>4, RequestBegins DEF Send, Begin, redisVars
  <2>5. CASE UserStep(s)
    <3>1. over' = over /\ issued' = issued
      BY <2>5 DEF UserStep, CreateUser, GetUserByEmail, ResolvePrincipal, FindUser, DeleteUser,
                  UpdateUser, Registered, Found, Resolved, NotResolved, Moves, redisVars, historyVars
    <3>2. QED
      BY <1>1, <3>1
  <2>6. CASE AuthStep(s)
    <3>1. over' = over /\ issued' = issued
      BY <2>6 DEF AuthStep, SaveCredential, SaveHash, DeleteHash, DeleteGrace, Rotate, CheckPassword,
                  CheckAge, CompareToken, CompareGrace, Moves, redisVars, historyVars
    <3>2. QED
      BY <1>1, <3>1
  <2>7. CASE Store(s) \/ Deliver(s) \/ Abandon(s)
    <3>1. over' = over /\ issued' = issued
      BY <2>7 DEF Store, StoreToken, Deliver, Abandon, Free, redisVars
    <3>2. QED
      BY <1>1, <3>1
  <2>8. QED
    BY <2>1, <2>2, <2>3, <2>4, <2>5, <2>6, <2>7 DEF StepOf
<1>5. SUFFICES ASSUME NEW id \in Ids, id \notin over'
               PROVE  /\ Named(id)' => issued'[id] # Unset
                      /\ \A time \in Times : issued'[id] = time => LoggedIn(id, time)'
  <2>1. issued' \in [Ids -> Times \cup {Unset}]
    BY <1>2 DEF TypeOK, AuthType
  <2>2. ASSUME NEW id \in Ids, issued'[id] # Unset,
               \A time \in Times : issued'[id] = time => LoggedIn(id, time)'
        PROVE  LoggedIn(id, issued[id])'
    <3>1. PICK time \in Times : time = issued'[id]
      BY <2>1, <2>2
    <3>2. LoggedIn(id, time)'
      BY <2>2, <3>1
    <3>3. QED
      BY <3>1, <3>2 DEF LoggedIn
  <2>3. QED
    BY <1>5, <2>2 DEF Started
<1>6. CASE Begun(s) /\ id = acct[s]
  <2>1. /\ issued'[id] = now /\ at'[s] = "store" /\ op'[s] = op[s] /\ op[s] # "refresh"
        /\ acct'[s] = id /\ out'[s].iat = now
    BY <1>1, <1>6 DEF Begun, StartSession, Step, TypeOK, AuthType, CallFact
  <2>2. QED
    BY <1>3, <2>1 DEF LoggedIn
<1>7. CASE ~(Begun(s) /\ id = acct[s])
  <2>1. id \notin over /\ issued'[id] = issued[id]
    <3>1. CASE Begun(s)
      <4>1. over' = over \ {acct[s]} /\ issued' = [issued EXCEPT ![acct[s]] = now]
        BY <3>1 DEF Begun, StartSession
      <4>2. QED
        BY <1>1, <1>5, <1>7, <3>1, <4>1
    <3>2. QED
      BY <1>4, <1>5, <3>1
  <2>2. Named(id)' => issued'[id] # Unset
    BY <1>1, <1>7, <2>1, NamedStays DEF Started
  <2>3. ASSUME NEW time \in Times, issued'[id] = time
        PROVE  LoggedIn(id, time)'
    <3>1. LoggedIn(id, time)
      BY <1>1, <1>3, <2>1, <2>3 DEF Started
    <3>2. QED
      BY <3>1, LoggedInKept
  <2>4. QED
    BY <2>2, <2>3
<1>8. QED
  BY <1>6, <1>7

LEMMA ComparedOfOthers ==
    ASSUME IInv, NEW s \in Slots, StepOf(s), ~torn', NEW t \in Slots, t # s
    PROVE  Compared(t)'
<1>1. TypeOK /\ CallFact(s) /\ CallFact(t) /\ Compared(t)
  BY TornStays DEF IInv, LimitFacts
<1>2. /\ at'[t] = at[t] /\ op'[t] = op[t] /\ acct'[t] = acct[t] /\ shown'[t] = shown[t]
      /\ seen'[t] = seen[t]
  BY <1>1, SlotsApart
<1>3. CASE Bounded(t) /\ acct[t] \in Ids
  <2>1. Bounded(t)'
    BY <1>2, <1>3, BoundedKept
  <2>2. QED
    BY <1>1, <1>2, <2>1 DEF Compared
<1>4. CASE at[t] = "compare" /\ acct[t] \notin over' /\ acct[t] \in over
  <2>1. Begun(s) /\ acct[s] = acct[t]
    <3>1. ~Begun(s) => over \subseteq over'
      <4>1. (\E w \in Browsers : Request(s, w)) => over' = over
        BY <1>1, RequestBegins DEF Send
      <4>2. UserStep(s) => over' = over
        BY DEF UserStep, CreateUser, GetUserByEmail, ResolvePrincipal, FindUser, DeleteUser,
               UpdateUser, historyVars
      <4>3. QED
        BY <4>1, <4>2 DEF StepOf, AuthStep, Reset, Store, EndToken, EndSession, Deliver, Abandon,
                          Free, historyVars
    <3>2. Begun(s) => over' = over \ {acct[s]}
      BY DEF Begun
    <3>3. QED
      BY <1>4, <3>1, <3>2
  <2>2. /\ at'[s] = "store" /\ op'[s] = op[s] /\ op[s] # "refresh"
        /\ acct'[s] = acct[s] /\ out'[s].iat = now
    BY <1>1, <2>1 DEF Begun, StartSession, Step, TypeOK, AuthType, CallFact
  <2>3. now \in Times /\ now <= now /\ seen[t].time <= now + AbsoluteMax
    <3>1. now \in Times /\ now \in Nat /\ seen[t].time \in Nat
      BY <1>1, TokensAreTyped, ConstantsAreTyped
    <3>2. seen[t].time <= now
      BY <1>1 DEF CallFact
    <3>3. QED
      BY <3>1, <3>2, AuthAssumption
  <2>4. Bounded(t)'
    BY <1>2, <2>1, <2>2, <2>3 DEF Bounded, LoggedIn
  <2>5. QED
    BY <1>2, <1>4, <2>4 DEF Compared
<1>5. QED
  <2>1. at[t] \in {"compare", "grace", "resolve", "reuse", "rotate", "store", "answered"}
        => acct[t] \in Ids
    BY <1>1 DEF CallFact
  <2>2. QED
    BY <1>1, <1>2, <1>3, <1>4, <2>1 DEF Compared

LEMMA ComparedOfSelf ==
    ASSUME IInv, NEW s \in Slots, StepOf(s), ~torn'
    PROVE  Compared(s)'
<1> DEFINE Far == {"grace", "resolve", "reuse", "rotate", "store", "answered"}
<1>1. TypeOK /\ CallFact(s) /\ Compared(s) /\ Started /\ ~torn
  BY TornStays DEF IInv, LimitFacts
<1>2. \A x : [at EXCEPT ![s] = x][s] = x /\ [acct EXCEPT ![s] = x][s] = x
  BY <1>1 DEF TypeOK, AuthType
<1>3. at[s] \in Far \cup {"age", "reset", "compare"} => acct[s] \in Ids
  BY <1>1 DEF CallFact
<1>4. ASSUME acct'[s] = acct[s], seen'[s] = seen[s], op'[s] = op[s], shown'[s] = shown[s],
             at'[s] \in Far, acct[s] \in Ids, op[s] = "refresh" => Bounded(s),
             at'[s] = "rotate" => acct[s] = shown[s].sub
      PROVE  Compared(s)'
  <2>1. op[s] = "refresh" => Bounded(s)'
    BY <1>4, BoundedKept
  <2>2. QED
    BY <1>4, <2>1 DEF Compared
<1>5. ASSUME at'[s] \notin Far \cup {"compare"}
      PROVE  Compared(s)'
  BY <1>5 DEF Compared
<1>6. CASE \E w \in Browsers : Request(s, w)
  <2>1. PICK w \in Browsers : Request(s, w)
    BY <1>6
  <2>2. PICK what, first, id, presented :
          Send(s, w, what, first, id, presented) /\ Begins(w, what, first, id, presented)
    BY <1>1, <2>1, RequestBegins
  <2>3. at'[s] = first
    BY <1>2, <2>2 DEF Send, Begin, Step
  <2>4. first \in {"exists", "find", "age", "delToken", "check", "findUser"}
    BY <2>2 DEF Begins
  <2>5. QED
    BY <1>5, <2>3, <2>4
<1>7. CASE UserStep(s)
  <2>1. CASE ResolvePrincipal(s) /\ profile # NoId /\ Resolved(s, profile)
    <3>1. /\ acct'[s] = acct[s] /\ seen' = seen /\ op' = op /\ shown' = shown
          /\ at[s] \in {"resolve", "reuse"} /\ at'[s] \in {"rotate", "answered"}
      BY <1>2, <2>1 DEF ResolvePrincipal, Resolved, Step
    <3>2. op[s] = "refresh" /\ acct[s] = shown[s].sub
      BY <1>1, <3>1 DEF CallFact, Refreshing
    <3>3. Bounded(s)
      BY <1>1, <3>1, <3>2 DEF Compared
    <3>4. QED
      BY <1>3, <1>4, <3>1, <3>2, <3>3
  <2>2. CASE at'[s] = "hash" \/ at'[s] \notin Far \cup {"compare"}
    BY <1>5, <2>2
  <2>3. \/ ResolvePrincipal(s) /\ profile # NoId /\ Resolved(s, profile)
        \/ at'[s] \notin Far \cup {"compare"}
    <3>1. CASE CreateUser(s) \/ GetUserByEmail(s)
      BY <1>2, <3>1 DEF CreateUser, GetUserByEmail, Registered, Found, Moves, Step
    <3>2. CASE ResolvePrincipal(s)
      BY <1>2, <3>2 DEF ResolvePrincipal, NotResolved, Moves, Step
    <3>3. CASE FindUser(s) \/ DeleteUser(s) \/ UpdateUser(s)
      BY <1>2, <3>3 DEF FindUser, DeleteUser, UpdateUser, Moves, Step
    <3>4. QED
      BY <1>7, <3>1, <3>2, <3>3 DEF UserStep
  <2>4. QED
    BY <2>1, <2>2, <2>3
<1>8. CASE AuthStep(s)
  <2>1. seen' = seen
    BY <1>8 DEF AuthStep, historyVars
  <2>2. CASE CheckAge(s)
    <3>1. /\ at[s] = "age" /\ acct' = acct /\ op' = op /\ shown' = shown
          /\ at'[s] \in {"reset", "compare", "delToken"}
          /\ at'[s] = "compare" => /\ issued[acct[s]] # Unset
                                   /\ now - issued[acct[s]] <= AbsoluteMax
      BY <1>2, <2>2 DEF CheckAge, Moves, Step, callVars
    <3>2. CASE at'[s] = "compare" /\ acct[s] \notin over
      <4>1. PICK time \in Times : time = issued[acct[s]]
        BY <1>1, <1>3, <3>1, <3>2 DEF TypeOK, AuthType
      <4>2. LoggedIn(acct[s], time)
        BY <1>1, <1>3, <3>1, <3>2, <4>1 DEF Started
      <4>3. seen[s].time <= time + AbsoluteMax
        <5>1. seen[s].time \in Nat /\ now \in Nat /\ time \in Nat
          BY <1>1, TokensAreTyped, ConstantsAreTyped
        <5>2. seen[s].time <= now
          BY <1>1 DEF CallFact
        <5>3. QED
          BY <3>1, <3>2, <4>1, <5>1, <5>2, AuthAssumption
      <4>4. Bounded(s)
        BY <4>2, <4>3 DEF Bounded
      <4>5. Bounded(s)'
        BY <1>3, <2>1, <3>1, <4>4, BoundedKept
      <4>6. QED
        BY <3>2, <4>5 DEF Compared
    <3>3. over' = over
      BY <1>8 DEF AuthStep, historyVars
    <3>4. QED
      BY <1>5, <3>1, <3>2, <3>3 DEF Compared
  <2>3. CASE CompareToken(s)
    <3>1. /\ at[s] = "compare" /\ acct' = acct /\ op' = op /\ shown' = shown
          /\ \/ at'[s] = "resolve" /\ token[acct[s]] = shown[s]
             \/ at'[s] = "grace" /\ token[acct[s]] # NoToken
             \/ at'[s] = "refused"
      BY <1>2, <2>3 DEF CompareToken, Moves, Step, callVars
    <3>2. CASE at'[s] \in {"resolve", "grace"}
      <4>1. shown[s] \in Tokens /\ op[s] = "refresh"
        BY <1>1, <3>1 DEF CallFact, Refreshing
      <4>2. acct[s] \notin over
        BY <1>1, <3>1, <3>2, <4>1, ConstantsAreTyped DEF IInv, EndedFacts
      <4>3. Bounded(s)
        BY <1>1, <3>1, <4>1, <4>2 DEF Compared
      <4>4. QED
        BY <1>3, <1>4, <2>1, <3>1, <3>2, <4>3
    <3>3. QED
      BY <1>5, <3>1, <3>2
  <2>4. CASE CompareGrace(s)
    <3>1. /\ at[s] = "grace" /\ acct' = acct /\ op' = op /\ shown' = shown
          /\ at'[s] \in {"reuse", "refused"}
      BY <1>2, <2>4 DEF CompareGrace, Moves, Step, callVars
    <3>2. op[s] = "refresh" => Bounded(s)
      BY <1>1, <3>1 DEF Compared
    <3>3. QED
      BY <1>3, <1>4, <1>5, <2>1, <3>1, <3>2
  <2>5. CASE Rotate(s)
    <3>1. at[s] = "rotate" /\ acct' = acct /\ op' = op /\ shown' = shown /\ at'[s] = "store"
      BY <1>2, <2>5 DEF Rotate, Step
    <3>2. op[s] = "refresh" => Bounded(s)
      BY <1>1, <3>1 DEF Compared
    <3>3. QED
      BY <1>3, <1>4, <2>1, <3>1, <3>2
  <2>6. CASE SaveCredential(s) \/ SaveHash(s) \/ DeleteHash(s) \/ DeleteGrace(s)
    <3>1. at'[s] \notin Far \cup {"compare"}
      BY <1>2, <2>6 DEF SaveCredential, SaveHash, DeleteHash, DeleteGrace, Step
    <3>2. QED
      BY <1>5, <3>1
  <2>7. CASE \E right \in BOOLEAN : CheckPassword(s, right)
    <3>1. at'[s] \notin Far \cup {"compare"}
      BY <1>2, <2>7 DEF CheckPassword, Moves, Step
    <3>2. QED
      BY <1>5, <3>1
  <2>8. QED
    BY <1>8, <2>2, <2>3, <2>4, <2>5, <2>6, <2>7 DEF AuthStep
<1>9. CASE Begun(s)
  <2>1. at[s] = "issue" /\ at'[s] = "store" /\ op' = op
    BY <1>2, <1>9 DEF Begun, StartSession, Step
  <2>2. op[s] # "refresh"
    BY <1>1, <2>1 DEF CallFact
  <2>3. QED
    BY <2>1, <2>2 DEF Compared
<1>10. CASE Reset(s)
  <2>1. over' = over /\ at'[s] = "compare" /\ acct' = acct
    BY <1>2, <1>10 DEF Reset, ResetAge, Step, callVars
  <2>2. acct[s] \in over
    BY <1>10, ResetMeansOver
  <2>3. QED
    BY <2>1, <2>2 DEF Compared
<1>11. CASE Store(s)
  <2>1. /\ at[s] = "store" /\ acct' = acct /\ op' = op /\ shown' = shown /\ seen' = seen
        /\ at'[s] = "answered"
    BY <1>2, <1>11 DEF Store, StoreToken, Step, callVars
  <2>2. op[s] = "refresh" => Bounded(s)
    BY <1>1, <2>1 DEF Compared
  <2>3. QED
    BY <1>3, <1>4, <2>1, <2>2
<1>12. CASE EndToken(s) \/ EndSession(s) \/ Deliver(s) \/ Abandon(s)
  <2>1. at'[s] \notin Far \cup {"compare"}
    BY <1>2, <1>12 DEF EndToken, EndSession, DeleteToken, DeleteIssued, Deliver, Abandon, Free, Step
  <2>2. QED
    BY <1>5, <2>1
<1>13. QED
  BY <1>6, <1>7, <1>8, <1>9, <1>10, <1>11, <1>12 DEF StepOf

LEMMA LimitFactsKept ==
    ASSUME IInv, NEW s \in Slots, StepOf(s)
    PROVE  LimitFacts'
BY StartedKept, ComparedOfSelf, ComparedOfOthers DEF LimitFacts

-----------------------------------------------------------------------------
\* Time, and the theorems

LEMMA StepKeepsInv ==
    ASSUME IInv, NEW s \in Slots, StepOf(s)
    PROVE  IInv'
<1>1. TypeOK /\ CallFact(s)
  BY DEF IInv
<1>2. TypeOK' /\ (\A t \in Slots : CallFact(t)') /\ WithdrawFacts' /\ EndedFacts' /\ LimitFacts'
  BY <1>1, StepKeepsType, CallFactKept, WithdrawFactsKept, EndedFactsKept, LimitFactsKept
<1>3. QED
  BY <1>2 DEF IInv

LEMMA TimeKeepsInv ==
    ASSUME IInv, TimePasses
    PROVE  IInv'
<1>1. TypeOK /\ TypeOK' /\ token \in [Ids -> Tokens \cup {NoToken}]
  BY TimeKeepsType DEF IInv, TypeOK, AuthType
<1>2. /\ now' = now + 1
      /\ UNCHANGED <<issued, at, op, acct, shown, out, userVars, cookie, access, loginAt, over,
                     gone, torn, seen>>
      /\ \A id \in Ids : token'[id] \in {token[id], NoToken}
  BY DEF TimePasses, Tick, callVars, browserVars, historyVars
<1>3. \A s \in Slots : CallFact(s)'
  <2>1. TAKE s \in Slots
  <2>2. seen[s].time <= now'
    <3>1. seen[s].time \in Nat /\ now \in Nat
      BY <1>1, TokensAreTyped, ConstantsAreTyped
    <3>2. seen[s].time <= now
      BY DEF IInv, CallFact
    <3>3. QED
      BY <1>2, <3>1, <3>2
  <2>3. CallFact(s)
    BY DEF IInv
  <2>4. QED
    BY <1>2, <2>2, <2>3 DEF CallFact
<1>4. WithdrawFacts'
  BY <1>2 DEF IInv, WithdrawFacts, userVars
<1>5. EndedFacts'
  <2>1. over \subseteq Ids
    BY <1>1 DEF TypeOK
  <2>2. QED
    BY <1>2, <2>1 DEF IInv, EndedFacts
<1>6. LimitFacts'
  <2>1. SUFFICES ASSUME ~torn PROVE Started' /\ \A s \in Slots : Compared(s)'
    BY <1>2 DEF LimitFacts
  <2>2. Started /\ \A s \in Slots : Compared(s)
    BY <2>1 DEF IInv, LimitFacts
  <2>3. \A id \in Ids : Named(id)' => Named(id)
    BY <1>2, ConstantsAreTyped DEF Named
  <2>4. Started'
    BY <1>2, <2>2, <2>3 DEF Started, LoggedIn
  <2>5. \A s \in Slots : Compared(s)'
    BY <1>2, <2>2 DEF Compared, Bounded, LoggedIn
  <2>6. QED
    BY <2>4, <2>5
<1>7. QED
  BY <1>1, <1>3, <1>4, <1>5, <1>6 DEF IInv

LEMMA InitHasInv == Init => IInv
<1> SUFFICES ASSUME Init PROVE IInv
  OBVIOUS
<1>1. TypeOK
  <2>1. UserType
    BY DEF Init, UserInit, UserType
  <2>2. AuthType
    BY ConstantsAreTyped, AuthAssumption DEF Init, AuthInit, AuthType, Steps, Ops
  <2>3. Nothing \in [time : Times, login : Times \cup {Unset}, gone : SUBSET Ids]
    BY ConstantsAreTyped DEF Nothing
  <2>4. calls \in 0..MaxCalls /\ faults \in 0..MaxFaults
    BY SessionsAssumption DEF Init
  <2>5. /\ cookie \in [Browsers -> Tokens \cup {NoToken}] /\ access \in [Browsers -> Ids \cup {NoId}]
        /\ web \in [Slots -> Browsers \cup {"none"}] /\ loginAt \in [Ids -> Times \cup {Unset}]
    BY DEF Init
  <2>6. torn \in BOOLEAN /\ over \in SUBSET Ids /\ gone \in SUBSET Ids
    BY DEF Init
  <2>7. QED
    BY <2>1, <2>2, <2>3, <2>4, <2>5, <2>6 DEF Init, TypeOK
<1>2. \A s \in Slots : CallFact(s)
  BY DEF Init, AuthInit, CallFact, Refreshing, Nothing
<1>3. WithdrawFacts
  BY DEF Init, UserInit, AuthInit, WithdrawFacts, NoId
<1>4. EndedFacts
  BY DEF Init, AuthInit, EndedFacts
<1>5. LimitFacts
  BY ConstantsAreTyped DEF Init, AuthInit, LimitFacts, Started, Compared, Named, LoggedIn
<1>6. QED
  BY <1>1, <1>2, <1>3, <1>4, <1>5 DEF IInv

\* The facts above hold in every state, whatever the browsers send and in
\* whatever order the awaited calls of the handlers are answered.
THEOREM SessionsInductive == Spec => []IInv
<1>1. IInv /\ [Next]_sessionVars => IInv'
  <2> SUFFICES ASSUME IInv, [Next]_sessionVars PROVE IInv'
    OBVIOUS
  <2>1. CASE \E s \in Slots : StepOf(s)
    BY <2>1, StepKeepsInv
  <2>2. CASE TimePasses
    BY <2>2, TimeKeepsInv
  <2>3. CASE UNCHANGED sessionVars
    <3>1. /\ UNCHANGED <<userVars, profile, lastId, backup, restored>>
          /\ UNCHANGED <<now, hash, token, grace, graceEnds, issued, at, op, acct, shown, out>>
          /\ UNCHANGED <<cookie, access, web, calls, faults, loginAt, over, gone, torn, seen>>
      BY <2>3 DEF sessionVars, userVars, authVars, redisVars, callVars, browserVars, historyVars
    <3>2. TypeOK'
      BY <3>1 DEF IInv, TypeOK, UserType, AuthType
    <3>3. \A s \in Slots : CallFact(s)'
      BY <3>1 DEF IInv, CallFact
    <3>4. WithdrawFacts' /\ EndedFacts'
      BY <3>1 DEF IInv, WithdrawFacts, EndedFacts
    <3>5. LimitFacts'
      BY <3>1 DEF IInv, LimitFacts, Started, Compared, Bounded, Named, LoggedIn
    <3>6. QED
      BY <3>2, <3>3, <3>4, <3>5 DEF IInv
  <2>4. QED
    BY <2>1, <2>2, <2>3 DEF Next, StepOf
<1>2. QED
  BY InitHasInv, <1>1, PTL DEF Spec

\* auth-service, user-service and the browsers only ever hold accounts, tokens
\* and times of their types, whatever the handlers read between their awaits.
THEOREM SessionsTypeCorrect == Spec => []TypeOK
<1>1. IInv => TypeOK
  BY DEF IInv
<1>2. QED
  BY <1>1, SessionsInductive, PTL

\* However the awaits of withdraw, refresh, login and register interleave, a
\* call that begins after the answer to a withdrawal gets no tokens for that
\* account, unless an update of the profile has inserted its row again.
THEOREM WithdrawnGetsNoTokens == Spec => []WithdrawnStaysOut
<1>1. IInv => WithdrawnStaysOut
  BY DEF IInv, WithdrawFacts, WithdrawnStaysOut
<1>2. QED
  BY <1>1, SessionsInductive, PTL

\* revokeSession's deletions are final: without two calls crossing, no account
\* that has ended its session has a refresh token in Redis before its next login.
THEOREM NoTokenAfterTheEnd == Spec => []EndedSessionStaysEnded
<1>1. IInv => EndedSessionStaysEnded
  BY DEF IInv, EndedFacts, EndedSessionStaysEnded
<1>2. QED
  BY <1>1, SessionsInductive, PTL

\* assertWithinAbsoluteLifetime does what it is for: a chain of rotations of any
\* length is cut off AbsoluteMax after the last login, unless calls cross.
THEOREM RotationsEnd == Spec => []AbsoluteLimit
<1>1. IInv => AbsoluteLimit
  <2> SUFFICES ASSUME IInv, NEW s \in Slots, at[s] = "answered", op[s] = "refresh", ~torn
               PROVE  \/ /\ loginAt[acct[s]] # Unset
                         /\ seen[s].time <= loginAt[acct[s]] + AbsoluteMax
                      \/ \E t \in Slots : /\ at[t] = "store" /\ op[t] # "refresh"
                                          /\ acct[t] = acct[s]
    BY DEF AbsoluteLimit
  <2>1. PICK time \in Times : LoggedIn(acct[s], time) /\ seen[s].time <= time + AbsoluteMax
    BY DEF IInv, LimitFacts, Compared, Bounded
  <2>2. TypeOK /\ CallFact(s)
    BY DEF IInv
  <2>3. /\ loginAt[acct[s]] \in Nat /\ time \in Nat /\ seen[s].time \in Nat /\ AbsoluteMax \in Nat
    <3>1. acct[s] \in Ids
      BY <2>2 DEF CallFact
    <3>2. loginAt[acct[s]] \in Times \cup {Unset}
      BY <2>2, <3>1 DEF TypeOK
    <3>3. QED
      BY <2>2, <3>2, TokensAreTyped, ConstantsAreTyped, AuthAssumption
  <2>4. QED
    BY <2>1, <2>3 DEF LoggedIn
<1>2. QED
  BY <1>1, SessionsInductive, PTL
=============================================================================
