-------------------------- MODULE TokenStoreProofs --------------------------
(***************************************************************************)
(* For any number of tabs, customers, administrators, requests in flight   *)
(* and faults: who has signed out stays out, the name that a tab shows is  *)
(* that of its token, and nobody is sent to the login page needlessly,     *)
(* although auth-service serves their requests one await at a time.        *)
(***************************************************************************)
EXTENDS TokenStore, FiniteSetTheorems, TLAPS

-----------------------------------------------------------------------------
\* The inductive invariant

\* Requests that may still be answered with a token of their own.
Asking == {q \in Slots : wire[q].kind \in {"login", "refresh"} /\ wire[q].step \in Open}

CountFact == IsFiniteSet(Asking) /\ issued + Cardinality(Asking) <= calls

\* A token of p is of an account of p.
OfType(a, p) == a \in Of(p) \cup {NoOne}

\* What a request must have to have come as far as its step says.
StepFact(q) ==
    /\ wire[q].step \in {"left", "ended"} => wire[q].who # NoOne
    /\ wire[q].kind = "refresh" /\ wire[q].step \in {"compared", "kept", "behind"}
       => wire[q].cookie \in RefreshTokens

KindFacts ==
    /\ \A t \in Tabs, p \in Types : OfType(access[t][p], p)
    /\ \A p \in Types : OfType(jar[p].who, p) /\ OfType(out[p], p)
    /\ \A q \in Slots :
         wire[q] # Idle =>
           /\ OfType(wire[q].who, wire[q].type) /\ OfType(wire[q].cookie.who, wire[q].type)
           /\ OfType(wire[q].given.who, wire[q].type)
           /\ wire[q].kind \in {"password", "withdraw", "update"} => wire[q].type = "USER"
           /\ wire[q].clears => wire[q].type = "ADMIN"
           /\ wire[q].kind = "login" => wire[q].who # NoOne
           /\ StepFact(q)

\* Of an account where nothing raced one renewal at most is between its comparison and
\* its last write: the token it compared is still the newest, and kept if it says so.
RaceFacts ==
    \A a \in Accounts \ raced :
      /\ \A q \in Renewing(a) : /\ newest[a] = wire[q].cookie.n
                                /\ wire[q].step = "kept" => grace[a] = wire[q].cookie.n
      /\ \A q, s \in Renewing(a) : q = s

\* While somebody is signed out no login of that type is under way, and auth-service
\* has no token of the account, unless something raced.
OutFacts ==
    \A p \in Types : out[p] # NoOne =>
      /\ InFlight({"login"}, p) = {}
      /\ out[p] \notin raced => newest[out[p]] = 0

\* A request sent with a good token, that is still waited for, is answered with one.
TrustFact(q) ==
    /\ wire[q].kind = "refresh"
    /\ wire[q].step \in {"sent", "behind"} => wire[q].cookie.who \notin raced \cup gone
    /\ wire[q].step = "sent" => Taken(wire[q].cookie)
    /\ wire[q].step = "behind" => InGrace(wire[q].cookie)
    /\ wire[q].step \in {"refused", "failed"} => faults > 0

TrustFacts ==
    /\ needless => faults > 0
    /\ \A q \in Slots : wire[q] # Idle /\ wire[q].trusted => TrustFact(q)

\* A tab that hears the answer to an update still has the token it was sent with.
NameFacts ==
    /\ NameIsOfToken
    /\ \A q \in Slots :
         wire[q] # Idle /\ wire[q].kind = "update" =>
           /\ wire[q].step = "ok" => wire[q].who # NoOne
           /\ wire[q].heard /\ wire[q].who # NoOne /\ wire[q].tab \notin crossed
              => wire[q].who = access[wire[q].tab]["USER"]

IInv == TypeOK /\ CountFact /\ KindFacts /\ RaceFacts /\ OutFacts /\ TrustFacts /\ NameFacts

-----------------------------------------------------------------------------
\* Tokens, accounts and requests

LEMMA TokensAreTyped ==
    /\ NoToken \notin RefreshTokens /\ NoToken.who = NoOne /\ NoToken.n = 0
    /\ \A token \in RefreshTokens : token.who \in Accounts /\ token.n \in Nat /\ token.n # 0
    /\ \A token \in RefreshTokens \cup {NoToken} : token.n \in Nat
    /\ Customers \subseteq Accounts /\ Admins \subseteq Accounts
    /\ \A p \in Types : Of(p) \subseteq Accounts
    /\ \A p, o \in Types : p # o => Of(p) \cap Of(o) = {}
    /\ \A p \in Types : NoOne \notin Of(p)
    /\ "USER" \in Types /\ "ADMIN" \in Types
BY TokensAssumption, NoOneAssumption DEF RefreshTokens, NoToken, Accounts, Of, Types

LEMMA SlotIs ==
    ASSUME TypeOK, NEW q \in Slots
    PROVE  /\ wire[q] # Idle <=> wire[q].kind # "none"
           /\ wire[q] # Idle => wire[q] \in Requests
BY DEF TypeOK, Requests, Idle

LEMMA FieldsAreTyped ==
    ASSUME TypeOK, NEW q \in Slots, wire[q] # Idle
    PROVE  /\ wire[q].kind \in {"login", "refresh", "logout", "password", "withdraw", "update"}
           /\ wire[q].type \in Types /\ wire[q].tab \in Tabs
           /\ wire[q].who \in Accounts \cup {NoOne}
           /\ wire[q].cookie \in RefreshTokens \cup {NoToken}
           /\ wire[q].step \in Open \cup Answers
           /\ wire[q].given \in RefreshTokens \cup {NoToken}
           /\ wire[q].heard \in BOOLEAN /\ wire[q].clears \in BOOLEAN /\ wire[q].trusted \in BOOLEAN
BY SlotIs DEF Requests

Kinds == {"login", "refresh", "logout", "password", "withdraw", "update"}

LEMMA RequestIsTyped ==
    ASSUME TypeOK, NEW t \in Tabs, NEW kind \in Kinds, NEW p \in Types,
           NEW who \in Accounts \cup {NoOne}
    PROVE  LET r == Request(t, kind, p, who) IN
           /\ r \in Requests /\ r # Idle
           /\ r.kind = kind /\ r.type = p /\ r.tab = t /\ r.who = who /\ r.step = "sent"
           /\ r.given = NoToken /\ r.cookie \in {NoToken, jar[p]}
           /\ r.clears => p = "ADMIN"
           /\ r.trusted => /\ kind = "refresh" /\ Taken(r.cookie) /\ r.cookie.who \notin raced
                           /\ r.cookie.who \in Accounts
<1>1. jar[p] \in RefreshTokens \cup {NoToken}
  BY DEF TypeOK
<1> DEFINE cookie == IF kind = "refresh" THEN jar[p] ELSE NoToken
           b == Taken(cookie) /\ cookie.who \notin raced
<1>2. cookie \in RefreshTokens \cup {NoToken} /\ b \in BOOLEAN
  BY <1>1 DEF Taken
<1>3. Request(t, kind, p, who)
      = [kind |-> kind, type |-> p, tab |-> t, who |-> who, cookie |-> cookie,
         step |-> "sent", given |-> NoToken, heard |-> TRUE,
         clears |-> kind = "refresh" /\ p = "ADMIN" /\ access[t][p] # NoOne, trusted |-> b]
  BY DEF Request
<1>4. b => kind = "refresh" /\ cookie.who \in Accounts
  BY <1>1, TokensAreTyped DEF Taken
<1>5. cookie \in {NoToken, jar[p]}
  OBVIOUS
<1> HIDE DEF cookie, b
<1>6. /\ Request(t, kind, p, who) \in Requests
      /\ Request(t, kind, p, who).trusted = b /\ Request(t, kind, p, who).cookie = cookie
  BY <1>2, <1>3, TokensAreTyped DEF Requests, Kinds, Open, Answers
<1>7. b => Taken(cookie) /\ cookie.who \notin raced
  BY DEF b
<1>8. Request(t, kind, p, who) # Idle
  BY <1>3, <1>6 DEF Idle, Requests
<1>9. LET r == Request(t, kind, p, who) IN
      /\ r.kind = kind /\ r.type = p /\ r.tab = t /\ r.who = who /\ r.step = "sent"
      /\ r.given = NoToken /\ (r.clears => p = "ADMIN")
  BY DEF Request
<1>10. LET r == Request(t, kind, p, who) IN
       /\ r.cookie \in {NoToken, jar[p]}
       /\ r.trusted => /\ kind = "refresh" /\ Taken(r.cookie) /\ r.cookie.who \notin raced
                       /\ r.cookie.who \in Accounts
  BY <1>4, <1>5, <1>6, <1>7
<1>11. QED
  BY <1>6, <1>8, <1>9, <1>10

LEMMA NestedUpdate ==
    ASSUME NEW S, NEW f \in [Tabs -> [Types -> S]], NEW t \in Tabs, NEW p \in Types, NEW x \in S
    PROVE  /\ [f EXCEPT ![t][p] = x] \in [Tabs -> [Types -> S]]
           /\ \A u \in Tabs, o \in Types :
                [f EXCEPT ![t][p] = x][u][o] = IF u = t /\ o = p THEN x ELSE f[u][o]
OBVIOUS

-----------------------------------------------------------------------------
\* What becomes of the requests

\* A step of a tab, or of one that hears an answer; auth-service does nothing.
TabStep ==
    \/ \E t \in Tabs :
         \/ \E p \in Types, who \in Accounts : Enter(t, p, who)
         \/ \E p \in Types : AwaitRefresh(t, p) \/ Leave(t, p) \/ Expire(t, p)
         \/ Reload(t)
         \/ \E kind \in {"update", "password", "withdraw"} : Submit(t, kind)
    \/ \E q \in Slots : Deliver(q) \/ PasswordAnswered(q) \/ Unheard(q) \/ Limited(q)

\* A request that tab t may send with the tokens it has.
Sent(q, kind, p, t, who) ==
    /\ wire'[q] = Request(t, kind, p, who)
    /\ kind # "login" => who \in {NoOne, access[t][p]}
    /\ kind = "login" => who \in Of(p) /\ out'[p] = NoOne
    /\ kind \in {"update", "password", "withdraw"} => p = "USER"

New(q) == \E kind \in Kinds, p \in Types, t \in Tabs, who \in Accounts \cup {NoOne} :
            Sent(q, kind, p, t, who)

\* The same request, which may be heard by nobody any more or trusted no longer.
Kept(q) ==
    /\ wire[q] # Idle /\ wire'[q] \in Requests
    /\ wire'[q].kind = wire[q].kind /\ wire'[q].type = wire[q].type /\ wire'[q].tab = wire[q].tab
    /\ wire'[q].who = wire[q].who /\ wire'[q].cookie = wire[q].cookie
    /\ wire'[q].heard => wire[q].heard
    /\ wire'[q].trusted => wire[q].trusted
    /\ wire'[q].clears => wire[q].clears \/ wire[q].type = "ADMIN"

\* And nobody has answered it.
Unanswered(q) == wire'[q].step = wire[q].step /\ wire'[q].given = wire[q].given

\* The limiter refused it, and it is sent again with the cookie of now.
Resent(q) ==
    /\ wire[q] # Idle /\ wire'[q] \in Requests
    /\ wire[q].kind = "refresh" /\ wire'[q].kind = "refresh"
    /\ wire[q].step = "sent" /\ wire'[q].step = "sent"
    /\ wire'[q].type = wire[q].type /\ wire'[q].who = wire[q].who
    /\ wire'[q].given = wire[q].given /\ wire'[q].clears = wire[q].clears
    /\ wire'[q].cookie = jar[wire[q].type]
    /\ wire'[q].trusted => /\ Taken(wire'[q].cookie) /\ wire'[q].cookie.who \notin raced
                           /\ wire'[q].cookie.who \in Accounts

LEMMA SendMoves ==
    ASSUME TypeOK, NEW t \in Tabs, NEW kind \in Kinds, NEW p \in Types,
           NEW who \in Accounts \cup {NoOne}, Send(t, kind, p, who)
    PROVE  /\ wire' \in [Slots -> Requests \cup {Idle}]
           /\ calls < MaxCalls /\ calls' = calls + 1
           /\ \E q \in Slots : /\ wire[q] = Idle /\ wire'[q] = Request(t, kind, p, who)
                               /\ wire'[q] # Idle
                               /\ \A s \in Slots \ {q} : wire'[s] = wire[s]
<1>1. Request(t, kind, p, who) \in Requests /\ Request(t, kind, p, who) # Idle
  BY RequestIsTyped
<1>2. wire \in [Slots -> Requests \cup {Idle}]
  BY DEF TypeOK
<1>3. PICK q \in Slots : wire[q] = Idle /\ wire' = [wire EXCEPT ![q] = Request(t, kind, p, who)]
  BY DEF Send
<1>4. /\ wire' \in [Slots -> Requests \cup {Idle}] /\ wire'[q] = Request(t, kind, p, who)
      /\ \A s \in Slots \ {q} : wire'[s] = wire[s]
  BY <1>1, <1>2, <1>3
<1>5. calls < MaxCalls /\ calls' = calls + 1
  BY DEF Send
<1>6. QED
  BY <1>1, <1>3, <1>4, <1>5

LEMMA SameIsKept ==
    ASSUME TypeOK, NEW q \in Slots, wire'[q] = wire[q], wire[q] # Idle
    PROVE  Kept(q) /\ Unanswered(q)
BY SlotIs DEF Kept, Unanswered

\* What a tab does to the requests, and to the number of those still to be answered
\* with a token.
Moved ==
    /\ wire' \in [Slots -> Requests \cup {Idle}]
    /\ \A q \in Slots : wire'[q] # Idle => New(q) \/ Resent(q) \/ (Kept(q) /\ Unanswered(q))
    /\ \/ calls' = calls /\ Asking' \subseteq Asking
       \/ /\ calls < MaxCalls /\ calls' = calls + 1
          /\ \E q \in Slots : Asking' \subseteq Asking \cup {q}

LEMMA SendIsMoved ==
    ASSUME TypeOK, NEW t \in Tabs, NEW kind \in Kinds, NEW p \in Types,
           NEW who \in Accounts \cup {NoOne}, Send(t, kind, p, who),
           kind # "login" => who \in {NoOne, access[t][p]},
           kind = "login" => who \in Of(p) /\ out'[p] = NoOne,
           kind \in {"update", "password", "withdraw"} => p = "USER"
    PROVE  Moved
<1>1. PICK q \in Slots : /\ wire[q] = Idle /\ wire'[q] = Request(t, kind, p, who)
                         /\ wire'[q] # Idle
                         /\ \A s \in Slots \ {q} : wire'[s] = wire[s]
  BY SendMoves
<1>2. /\ wire' \in [Slots -> Requests \cup {Idle}]
      /\ calls < MaxCalls /\ calls' = calls + 1
  BY SendMoves
<1>3. New(q)
  BY <1>1 DEF New, Sent
<1>4. \A s \in Slots \ {q} : wire'[s] # Idle => Kept(s) /\ Unanswered(s)
  BY <1>1, SameIsKept
<1>5. Asking' \subseteq Asking \cup {q}
  BY <1>1 DEF Asking
<1>6. QED
  BY <1>2, <1>3, <1>4, <1>5 DEF Moved

LEMMA FreeIsMoved ==
    ASSUME TypeOK, NEW q \in Slots, wire' = [wire EXCEPT ![q] = Idle], calls' = calls
    PROVE  Moved
<1>1. wire \in [Slots -> Requests \cup {Idle}]
  BY DEF TypeOK
<1>2. wire' \in [Slots -> Requests \cup {Idle}] /\ wire'[q] = Idle
      /\ \A s \in Slots \ {q} : wire'[s] = wire[s]
  BY <1>1
<1>3. \A s \in Slots : wire'[s] # Idle => Kept(s) /\ Unanswered(s)
  BY <1>2, SameIsKept
<1>4. Asking' \subseteq Asking
  BY <1>2 DEF Asking, Idle
<1>5. QED
  BY <1>2, <1>3, <1>4 DEF Moved

LEMMA BearerIsOfTab ==
    ASSUME TypeOK, NEW t \in Tabs, NEW p \in Types
    PROVE  /\ access[t][p] \in Accounts \cup {NoOne}
           /\ Bearer(t, p) \in Accounts \cup {NoOne} /\ Bearer(t, p) \in {NoOne, access[t][p]}
BY DEF TypeOK, Bearer

LEMMA RefreshIsMoved ==
    ASSUME TypeOK, NEW t \in Tabs, NEW p \in Types, Refresh(t, p)
    PROVE  Moved
<1> DEFINE shared == Pending(t, {"refresh"}, p)
<1>1. CASE shared = {}
  <2>1. Send(t, "refresh", p, NoOne)
    BY <1>1 DEF Refresh
  <2>2. QED
    BY <2>1, SendIsMoved DEF Kinds
<1>2. CASE shared # {}
  <2>1. /\ calls' = calls
        /\ wire' = [q \in Slots |->
              IF q \in shared
              THEN [wire[q] EXCEPT !.clears = @ \/ (p = "ADMIN" /\ access[t][p] # NoOne)]
              ELSE wire[q]]
    BY <1>2 DEF Refresh
  <2>2. ASSUME NEW q \in Slots
        PROVE  /\ wire'[q] \in Requests \cup {Idle}
               /\ wire'[q] # Idle => Kept(q) /\ Unanswered(q)
               /\ q \in Asking' => q \in Asking
    <3>1. CASE q \in shared
      <4>1. wire[q] # Idle /\ wire[q].type = p
        BY <3>1, SlotIs DEF Pending, InFlight, Idle
      <4>2. /\ wire[q] \in Requests
            /\ wire'[q] = [wire[q] EXCEPT !.clears = @ \/ (p = "ADMIN" /\ access[t][p] # NoOne)]
        BY <2>1, <3>1, <4>1, SlotIs
      <4>3. wire'[q] \in Requests /\ Kept(q) /\ Unanswered(q)
        BY <4>1, <4>2 DEF Requests, Kept, Unanswered
      <4>4. QED
        BY <4>3 DEF Asking, Kept, Unanswered
    <3>2. CASE q \notin shared
      <4>1. wire'[q] = wire[q] /\ wire[q] \in Requests \cup {Idle}
        BY <2>1, <3>2 DEF TypeOK
      <4>2. QED
        BY <4>1, SameIsKept DEF Asking
    <3>3. QED
      BY <3>1, <3>2
  <2>3. wire' \in [Slots -> Requests \cup {Idle}]
    <3>1. DOMAIN wire' = Slots /\ wire' = [q \in Slots |-> wire'[q]]
      BY <2>1
    <3>2. QED
      BY <2>2, <3>1
  <2>4. Asking' \subseteq Asking
    BY <2>2 DEF Asking
  <2>5. QED
    BY <2>1, <2>2, <2>3, <2>4 DEF Moved
<1>3. QED
  BY <1>1, <1>2

LEMMA ReloadIsMoved ==
    ASSUME TypeOK, NEW t \in Tabs, Reload(t)
    PROVE  Moved
<1>1. PICK q \in Slots :
        /\ wire[q] = Idle
        /\ wire' = [s \in Slots |->
              IF s = q THEN Request(t, "refresh", "USER", NoOne)
              ELSE IF wire[s] # Idle /\ wire[s].tab = t THEN [wire[s] EXCEPT !.heard = FALSE]
              ELSE wire[s]]
  BY DEF Reload
<1>2. calls < MaxCalls /\ calls' = calls + 1
  BY DEF Reload
<1>3. /\ Request(t, "refresh", "USER", NoOne) \in Requests /\ New(q)
      /\ wire'[q] = Request(t, "refresh", "USER", NoOne)
  BY <1>1, TokensAreTyped, RequestIsTyped DEF Kinds, New, Sent
<1>4. ASSUME NEW s \in Slots, s # q
      PROVE  /\ wire'[s] \in Requests \cup {Idle}
             /\ wire'[s] # Idle => Kept(s) /\ Unanswered(s)
             /\ s \in Asking' => s \in Asking
  <2>1. CASE wire[s] # Idle /\ wire[s].tab = t
    <3>1. wire[s] \in Requests /\ wire'[s] = [wire[s] EXCEPT !.heard = FALSE]
      BY <1>1, <1>4, <2>1, SlotIs
    <3>2. wire'[s] \in Requests /\ Kept(s) /\ Unanswered(s)
      BY <2>1, <3>1 DEF Requests, Kept, Unanswered
    <3>3. QED
      BY <3>2 DEF Asking, Kept, Unanswered
  <2>2. CASE ~(wire[s] # Idle /\ wire[s].tab = t)
    <3>1. wire'[s] = wire[s] /\ wire[s] \in Requests \cup {Idle}
      BY <1>1, <1>4, <2>2 DEF TypeOK
    <3>2. QED
      BY <3>1, SameIsKept DEF Asking
  <2>3. QED
    BY <2>1, <2>2
<1>5. wire' \in [Slots -> Requests \cup {Idle}]
  <2>1. wire' = [s \in Slots |-> wire'[s]]
    BY <1>1
  <2>2. \A s \in Slots : wire'[s] \in Requests \cup {Idle}
    BY <1>3, <1>4
  <2>3. QED
    BY <2>1, <2>2
<1>6. Asking' \subseteq Asking \cup {q}
  BY <1>4 DEF Asking
<1>7. QED
  BY <1>2, <1>3, <1>4, <1>5, <1>6 DEF Moved

LEMMA LimitedIsMoved ==
    ASSUME TypeOK, NEW q \in Slots, Limited(q)
    PROVE  Moved
<1>1. /\ wire[q].kind = "refresh" /\ wire[q].step = "sent" /\ wire[q] # Idle
      /\ calls' = calls
  BY DEF Limited, Idle
<1>2. /\ wire \in [Slots -> Requests \cup {Idle}] /\ wire[q] \in Requests
      /\ wire[q].type \in Types
  BY <1>1, SlotIs, FieldsAreTyped DEF TypeOK
<1> DEFINE cookie == jar[wire[q].type]
           b == Taken(cookie) /\ cookie.who \notin raced
           r == [wire[q] EXCEPT !.cookie = cookie, !.trusted = b]
<1>3. cookie \in RefreshTokens \cup {NoToken} /\ b \in BOOLEAN
  BY <1>2 DEF TypeOK, Taken
<1>4. b => Taken(cookie) /\ cookie.who \notin raced /\ cookie.who \in Accounts
  BY <1>3, TokensAreTyped DEF Taken
<1>5. wire' = [wire EXCEPT ![q] = r]
  BY <1>2 DEF Limited
<1>6. cookie = jar[wire[q].type]
  OBVIOUS
<1> HIDE DEF cookie, b
<1>7. /\ r \in Requests /\ r # Idle
      /\ r.kind = wire[q].kind /\ r.type = wire[q].type /\ r.who = wire[q].who
      /\ r.step = wire[q].step /\ r.given = wire[q].given /\ r.clears = wire[q].clears
      /\ r.cookie = cookie /\ r.trusted = b
  BY <1>2, <1>3 DEF Requests, Idle
<1> HIDE DEF r
<1>8. /\ wire' \in [Slots -> Requests \cup {Idle}] /\ wire'[q] = r
      /\ \A s \in Slots \ {q} : wire'[s] = wire[s]
  BY <1>2, <1>5, <1>7
<1>9. Resent(q)
  BY <1>1, <1>4, <1>6, <1>7, <1>8 DEF Resent
<1>10. \A s \in Slots \ {q} : wire'[s] # Idle => Kept(s) /\ Unanswered(s)
  BY <1>8, SameIsKept
<1>11. Asking' \subseteq Asking
  BY <1>1, <1>7, <1>8 DEF Asking
<1>12. QED
  BY <1>1, <1>8, <1>9, <1>10, <1>11 DEF Moved

LEMMA TabStepIsMoved ==
    ASSUME TypeOK, TabStep
    PROVE  Moved
<1>1. ASSUME NEW t \in Tabs, NEW p \in Types, NEW who \in Accounts, Enter(t, p, who) PROVE Moved
  <2>1. who \in Of(p) /\ Send(t, "login", p, who) /\ out' = [out EXCEPT ![p] = NoOne]
    BY <1>1 DEF Enter
  <2>2. out'[p] = NoOne
    BY <2>1 DEF TypeOK
  <2>3. QED
    BY <2>1, <2>2, SendIsMoved DEF Kinds
<1>2. ASSUME NEW t \in Tabs, NEW p \in Types, AwaitRefresh(t, p) PROVE Moved
  BY <1>2, RefreshIsMoved DEF AwaitRefresh
<1>3. ASSUME NEW t \in Tabs, NEW p \in Types, Leave(t, p) PROVE Moved
  BY <1>3, BearerIsOfTab, SendIsMoved DEF Leave, Kinds
<1>4. ASSUME NEW t \in Tabs, NEW kind \in {"update", "password", "withdraw"}, Submit(t, kind)
      PROVE Moved
  BY <1>4, BearerIsOfTab, SendIsMoved, TokensAreTyped DEF Submit, Kinds
<1>5. ASSUME NEW t \in Tabs, NEW p \in Types, Expire(t, p) PROVE Moved
  <2>1. wire' = wire /\ calls' = calls /\ wire \in [Slots -> Requests \cup {Idle}]
    BY <1>5 DEF Expire, TypeOK
  <2>2. QED
    BY <2>1, SameIsKept DEF Moved, Asking
<1>6. ASSUME NEW q \in Slots, PasswordAnswered(q) PROVE Moved
  <2>1. wire[q] # Idle
    BY <1>6 DEF PasswordAnswered, Idle
  <2>2. PICK t \in Tabs : t = wire[q].tab
    BY <2>1, FieldsAreTyped
  <2>3. CASE wire' = [wire EXCEPT ![q] = Request(t, "logout", "USER", Bearer(t, "USER"))]
    <3> DEFINE r == Request(t, "logout", "USER", Bearer(t, "USER"))
    <3>1. r \in Requests /\ r.kind = "logout"
      BY BearerIsOfTab, RequestIsTyped, TokensAreTyped DEF Kinds
    <3>2. /\ wire' \in [Slots -> Requests \cup {Idle}] /\ wire'[q] = r
          /\ \A s \in Slots \ {q} : wire'[s] = wire[s]
      BY <2>3, <3>1 DEF TypeOK
    <3>3. New(q)
      BY <3>2, BearerIsOfTab, TokensAreTyped DEF New, Sent, Kinds
    <3>4. \A s \in Slots \ {q} : wire'[s] # Idle => Kept(s) /\ Unanswered(s)
      BY <3>2, SameIsKept
    <3>5. Asking' \subseteq Asking
      BY <3>1, <3>2 DEF Asking
    <3>6. QED
      BY <1>6, <3>2, <3>3, <3>4, <3>5 DEF PasswordAnswered, Moved
  <2>4. CASE wire' = [wire EXCEPT ![q] = Idle]
    BY <1>6, <2>4, FreeIsMoved DEF PasswordAnswered
  <2>5. QED
    BY <1>6, <2>2, <2>3, <2>4 DEF PasswordAnswered
<1>7. ASSUME NEW q \in Slots, Deliver(q) \/ Unheard(q) PROVE Moved
  BY <1>7, FreeIsMoved DEF Deliver, Unheard
<1>8. QED
  BY <1>1, <1>2, <1>3, <1>4, <1>5, <1>6, <1>7, ReloadIsMoved, LimitedIsMoved
     DEF TabStep

-----------------------------------------------------------------------------
\* What becomes of the tabs

StoresTyped ==
    /\ access \in [Tabs -> [Types -> Accounts \cup {NoOne}]]
    /\ fresh \in [Tabs -> [Types -> BOOLEAN]]
    /\ user \in [Tabs -> [Types -> Accounts \cup {NoOne}]]

PagesTyped == page \in [Tabs -> [Types -> {"idle", "waiting", "login", "error"}]]

\* Tab t has the token of who and shows that name; the others are as they were.
Changed(t, p, who) ==
    \A u \in Tabs, o \in Types :
       /\ access'[u][o] = IF u = t /\ o = p THEN who ELSE access[u][o]
       /\ user'[u][o] = IF u = t /\ o = p THEN who ELSE user[u][o]

LEMMA StoreChanges ==
    ASSUME TypeOK, NEW t \in Tabs, NEW p \in Types, NEW who \in Accounts \cup {NoOne},
           SignIn(t, p, who) \/ (who = NoOne /\ Clear(t, p))
    PROVE  StoresTyped' /\ Changed(t, p, who)
<1>1. access' = [access EXCEPT ![t][p] = who] /\ user' = [user EXCEPT ![t][p] = who]
  BY DEF SignIn, Clear
<1>2. PICK b \in BOOLEAN : fresh' = [fresh EXCEPT ![t][p] = b]
  BY DEF SignIn, Clear
<1>3. /\ access \in [Tabs -> [Types -> Accounts \cup {NoOne}]]
      /\ fresh \in [Tabs -> [Types -> BOOLEAN]]
      /\ user \in [Tabs -> [Types -> Accounts \cup {NoOne}]]
  BY DEF TypeOK
<1>4. fresh' \in [Tabs -> [Types -> BOOLEAN]]
  BY <1>2, <1>3, NestedUpdate
<1>5. access' \in [Tabs -> [Types -> Accounts \cup {NoOne}]]
      /\ \A u \in Tabs, o \in Types :
           access'[u][o] = IF u = t /\ o = p THEN who ELSE access[u][o]
  BY <1>1, <1>3, NestedUpdate
<1>6. user' \in [Tabs -> [Types -> Accounts \cup {NoOne}]]
      /\ \A u \in Tabs, o \in Types :
           user'[u][o] = IF u = t /\ o = p THEN who ELSE user[u][o]
  BY <1>1, <1>3, NestedUpdate
<1>7. QED
  BY <1>4, <1>5, <1>6 DEF StoresTyped, Changed

LEMMA SetsCookie ==
    ASSUME TypeOK, NEW q \in Slots, wire[q] # Idle, SetCookie(q)
    PROVE  /\ jar' \in [Types -> RefreshTokens \cup {NoToken}]
           /\ \A p \in Types : \/ jar'[p] \in {jar[p], NoToken}
                               \/ jar'[p] = wire[q].given /\ p = wire[q].type
<1>1. /\ jar \in [Types -> RefreshTokens \cup {NoToken}]
      /\ wire[q].type \in Types /\ wire[q].given \in RefreshTokens \cup {NoToken}
  BY FieldsAreTyped DEF TypeOK
<1>2. QED
  BY <1>1 DEF SetCookie

\* Three things an answer does to a tab: nothing, it gets or loses a token and the
\* name, or another name.
Untouched == access' = access /\ user' = user /\ crossed' = crossed

Switched(q) ==
    \E who \in Accounts \cup {NoOne} :
       /\ Changed(wire[q].tab, wire[q].type, who)
       /\ OfType(who, wire[q].type)
       /\ Crossing(q) \/ (wire[q].type = "ADMIN" /\ crossed' = crossed)

Renamed(q) ==
    /\ wire[q].kind = "update" /\ wire[q].step = "ok"
    /\ user' = [user EXCEPT ![wire[q].tab]["USER"] = wire[q].who]
    /\ access' = access /\ crossed' = crossed

LEMMA DeliverTouches ==
    ASSUME TypeOK, KindFacts, NEW q \in Slots, Deliver(q)
    PROVE  /\ StoresTyped' /\ PagesTyped'
           /\ Untouched \/ Switched(q) \/ Renamed(q)
<1>1. /\ wire[q] # Idle
      /\ LoginAnswered(q) \/ RefreshAnswered(q) \/ LogoutAnswered(q)
         \/ WithdrawAnswered(q) \/ UpdateAnswered(q)
  BY DEF Deliver
<1>2. PICK t \in Tabs : t = wire[q].tab
  BY <1>1, FieldsAreTyped
<1>3. PICK p \in Types : p = wire[q].type
  BY <1>1, FieldsAreTyped
<1>4. /\ wire[q].who \in Accounts \cup {NoOne} /\ wire[q].given.who \in Accounts \cup {NoOne}
      /\ OfType(wire[q].who, p) /\ OfType(wire[q].given.who, p)
      /\ wire[q].kind \in {"password", "withdraw", "update"} => p = "USER"
      /\ wire[q].clears => p = "ADMIN"
      /\ OfType(NoOne, p)
  <2>1. wire[q].given \in RefreshTokens \cup {NoToken} /\ wire[q].who \in Accounts \cup {NoOne}
    BY <1>1, FieldsAreTyped
  <2>2. wire[q].given.who \in Accounts \cup {NoOne}
    BY <2>1, TokensAreTyped
  <2>3. QED
    BY <1>1, <1>3, <2>1, <2>2 DEF KindFacts, OfType
<1>5. StoresTyped /\ PagesTyped
  BY DEF TypeOK, StoresTyped, PagesTyped
<1>6. ASSUME UNCHANGED storeVars PROVE StoresTyped' /\ access' = access /\ user' = user
  BY <1>5, <1>6 DEF StoresTyped, storeVars
<1>7. ASSUME NEW x \in {"idle", "waiting", "login", "error"}, page' = [page EXCEPT ![t][p] = x]
      PROVE PagesTyped'
  BY <1>5, <1>7, NestedUpdate DEF PagesTyped
<1>8. ASSUME page' = page PROVE PagesTyped'
  BY <1>5, <1>8 DEF PagesTyped
<1>9. ASSUME NEW who \in Accounts \cup {NoOne}, OfType(who, p),
             SignIn(t, p, who) \/ (who = NoOne /\ Clear(t, p)),
             Crossing(q) \/ (p = "ADMIN" /\ crossed' = crossed)
      PROVE  StoresTyped' /\ Switched(q)
  BY <1>2, <1>3, <1>9, StoreChanges DEF Switched
<1>10. CASE LoginAnswered(q)
  <2>1. CASE wire[q].step = "ok"
    <3>1. /\ SignIn(t, p, wire[q].who) /\ Crossing(q) /\ page' = [page EXCEPT ![t][p] = "idle"]
      BY <1>2, <1>3, <1>10, <2>1 DEF LoginAnswered
    <3>2. QED
      BY <1>4, <1>7, <1>9, <3>1
  <2>2. CASE wire[q].step # "ok"
    BY <1>6, <1>8, <1>10, <2>2 DEF LoginAnswered, Untouched
  <2>3. QED
    BY <2>1, <2>2
<1>11. CASE RefreshAnswered(q)
  <2>1. PagesTyped'
    <3>1. PICK x \in {"idle", "waiting", "login", "error"} : page' = [page EXCEPT ![t][p] = x]
      <4>1. page[t][p] \in {"idle", "waiting", "login", "error"}
        BY <1>5 DEF PagesTyped
      <4>2. QED
        BY <1>2, <1>3, <1>11, <4>1 DEF RefreshAnswered
    <3>2. QED
      BY <1>7, <3>1
  <2>2. CASE wire[q].step = "ok"
    BY <1>2, <1>3, <1>4, <1>9, <1>11, <2>1, <2>2 DEF RefreshAnswered
  <2>3. CASE wire[q].step # "ok" /\ wire[q].clears
    BY <1>2, <1>3, <1>4, <1>9, <1>11, <2>1, <2>3 DEF RefreshAnswered
  <2>4. CASE wire[q].step # "ok" /\ ~wire[q].clears
    BY <1>6, <1>11, <2>1, <2>4 DEF RefreshAnswered, Untouched
  <2>5. QED
    BY <2>2, <2>3, <2>4
<1>12. CASE LogoutAnswered(q)
  <2>1. Clear(t, p) /\ Crossing(q)
        /\ (page' = page \/ page' = [page EXCEPT ![t][p] = "idle"])
    BY <1>2, <1>3, <1>12 DEF LogoutAnswered
  <2>2. QED
    BY <1>4, <1>7, <1>8, <1>9, <2>1
<1>13. CASE WithdrawAnswered(q)
  <2>1. p = "USER" /\ page' = page
    BY <1>4, <1>13 DEF WithdrawAnswered
  <2>2. CASE wire[q].step = "ok"
    <3>1. Clear(t, p) /\ Crossing(q)
      BY <1>2, <1>13, <2>1, <2>2 DEF WithdrawAnswered
    <3>2. QED
      BY <1>4, <1>8, <1>9, <2>1, <3>1
  <2>3. CASE wire[q].step # "ok"
    BY <1>6, <1>8, <1>13, <2>1, <2>3 DEF WithdrawAnswered, Untouched
  <2>4. QED
    BY <2>2, <2>3
<1>14. CASE UpdateAnswered(q)
  <2>1. /\ access' = access /\ fresh' = fresh /\ crossed' = crossed /\ page' = page
        /\ wire[q].kind = "update"
    BY <1>14 DEF UpdateAnswered
  <2>2. CASE wire[q].step = "ok"
    <3>1. user' = [user EXCEPT ![t]["USER"] = wire[q].who]
      BY <1>2, <1>14, <2>2 DEF UpdateAnswered
    <3>2. user' \in [Tabs -> [Types -> Accounts \cup {NoOne}]]
      BY <1>4, <1>5, <3>1, TokensAreTyped, NestedUpdate DEF StoresTyped
    <3>3. QED
      BY <1>2, <1>5, <1>8, <2>1, <2>2, <3>1, <3>2 DEF StoresTyped, Renamed
  <2>3. CASE wire[q].step # "ok"
    BY <1>5, <1>8, <1>14, <2>1, <2>3 DEF UpdateAnswered, StoresTyped, Untouched
  <2>4. QED
    BY <2>2, <2>3
<1>15. QED
  BY <1>1, <1>10, <1>11, <1>12, <1>13, <1>14

\* Of what the browser keeps, the steps of the tabs change these.
LEMMA TabsAreTyped ==
    ASSUME TypeOK, KindFacts, TabStep
    PROVE  /\ StoresTyped' /\ PagesTyped'
           /\ UNCHANGED <<newest, grace, gone, issued, raced, faults>>
<1>1. StoresTyped /\ PagesTyped
  BY DEF TypeOK, StoresTyped, PagesTyped
<1>2. ASSUME UNCHANGED storeVars PROVE StoresTyped'
  BY <1>1, <1>2 DEF StoresTyped, storeVars
<1>3. ASSUME page' = page PROVE PagesTyped'
  BY <1>1, <1>3 DEF PagesTyped
<1>4. ASSUME NEW t \in Tabs, NEW p \in Types, NEW x \in {"idle", "waiting"},
             page' = [page EXCEPT ![t][p] = x]
      PROVE PagesTyped'
  BY <1>1, <1>4, NestedUpdate DEF PagesTyped
<1>5. ASSUME NEW t \in Tabs, NEW p \in Types, NEW who \in Accounts, Enter(t, p, who)
      PROVE  /\ StoresTyped' /\ PagesTyped'
             /\ UNCHANGED <<newest, grace, gone, issued, raced, faults>>
  BY <1>2, <1>4, <1>5 DEF Enter, authVars
<1>6. ASSUME NEW t \in Tabs, NEW p \in Types, AwaitRefresh(t, p)
      PROVE  /\ StoresTyped' /\ PagesTyped'
             /\ UNCHANGED <<newest, grace, gone, issued, raced, faults>>
  BY <1>2, <1>4, <1>6 DEF AwaitRefresh, authVars
<1>7. ASSUME NEW t \in Tabs, NEW p \in Types, Leave(t, p)
      PROVE  /\ StoresTyped' /\ PagesTyped'
             /\ UNCHANGED <<newest, grace, gone, issued, raced, faults>>
  BY <1>2, <1>3, <1>7 DEF Leave, authVars
<1>8. ASSUME NEW t \in Tabs, NEW p \in Types, Expire(t, p)
      PROVE  /\ StoresTyped' /\ PagesTyped'
             /\ UNCHANGED <<newest, grace, gone, issued, raced, faults>>
  <2>1. fresh' \in [Tabs -> [Types -> BOOLEAN]]
    BY <1>1, <1>8, NestedUpdate DEF Expire, StoresTyped
  <2>2. QED
    BY <1>1, <1>3, <1>8, <2>1 DEF Expire, StoresTyped, authVars
<1>9. ASSUME NEW t \in Tabs, Reload(t)
      PROVE  /\ StoresTyped' /\ PagesTyped'
             /\ UNCHANGED <<newest, grace, gone, issued, raced, faults>>
  <2>1. /\ EachType(NoOne) \in [Types -> Accounts \cup {NoOne}]
        /\ EachType(FALSE) \in [Types -> BOOLEAN]
        /\ EachType("idle") \in [Types -> {"idle", "waiting", "login", "error"}]
    BY DEF EachType
  <2>2. StoresTyped'
    BY <1>1, <1>9, <2>1 DEF Reload, StoresTyped
  <2>3. PagesTyped'
    BY <1>1, <1>9, <2>1 DEF Reload, PagesTyped
  <2>4. QED
    BY <1>9, <2>2, <2>3 DEF Reload, authVars
<1>10. ASSUME NEW t \in Tabs, NEW kind \in {"update", "password", "withdraw"}, Submit(t, kind)
      PROVE  /\ StoresTyped' /\ PagesTyped'
             /\ UNCHANGED <<newest, grace, gone, issued, raced, faults>>
  BY <1>2, <1>3, <1>10 DEF Submit, authVars
<1>11. ASSUME NEW q \in Slots, Deliver(q)
      PROVE  /\ StoresTyped' /\ PagesTyped'
             /\ UNCHANGED <<newest, grace, gone, issued, raced, faults>>
  BY <1>11, DeliverTouches DEF Deliver, authVars
<1>12. ASSUME NEW q \in Slots, PasswordAnswered(q) \/ Unheard(q) \/ Limited(q)
      PROVE  /\ StoresTyped' /\ PagesTyped'
             /\ UNCHANGED <<newest, grace, gone, issued, raced, faults>>
  BY <1>2, <1>3, <1>12 DEF PasswordAnswered, Unheard, Limited, authVars
<1>13. QED
  BY <1>5, <1>6, <1>7, <1>8, <1>9, <1>10, <1>11, <1>12 DEF TabStep

\* Cookies come from answers, and a sign-in is remembered as such.
LEMMA TabsKeepRest ==
    ASSUME TypeOK, TabStep
    PROVE  /\ jar' \in [Types -> RefreshTokens \cup {NoToken}]
           /\ \A p \in Types : \/ jar'[p] \in {jar[p], NoToken}
                               \/ \E q \in Slots : /\ wire[q] # Idle
                                                   /\ jar'[p] = wire[q].given /\ p = wire[q].type
           /\ out' \in [Types -> Accounts \cup {NoOne}]
           /\ \A p \in Types : out'[p] \in {out[p], NoOne}
           /\ crossed \subseteq crossed' /\ crossed' \subseteq Tabs
<1>1. /\ jar \in [Types -> RefreshTokens \cup {NoToken}]
      /\ out \in [Types -> Accounts \cup {NoOne}] /\ crossed \subseteq Tabs
  BY DEF TypeOK
<1> DEFINE JarGood == /\ jar' \in [Types -> RefreshTokens \cup {NoToken}]
                      /\ \A p \in Types :
                           \/ jar'[p] \in {jar[p], NoToken}
                           \/ \E q \in Slots : /\ wire[q] # Idle
                                               /\ jar'[p] = wire[q].given /\ p = wire[q].type
           OutGood == /\ out' \in [Types -> Accounts \cup {NoOne}]
                      /\ \A p \in Types : out'[p] \in {out[p], NoOne}
           CrossedGood == crossed \subseteq crossed' /\ crossed' \subseteq Tabs
<1>2. /\ jar' = jar => JarGood
      /\ out' = out => OutGood
      /\ crossed' = crossed => CrossedGood
  BY <1>1
<1>3. ASSUME NEW t \in Tabs, NEW p \in Types, NEW who \in Accounts, Enter(t, p, who)
      PROVE  JarGood /\ OutGood /\ CrossedGood
  <2>1. out' = [out EXCEPT ![p] = NoOne] /\ jar' = jar /\ crossed' = crossed
    BY <1>3 DEF Enter
  <2>2. OutGood
    BY <1>1, <2>1
  <2>3. QED
    BY <1>2, <2>1, <2>2
<1>4. ASSUME NEW t \in Tabs,
             \/ Reload(t)
             \/ \E p \in Types : AwaitRefresh(t, p) \/ Leave(t, p) \/ Expire(t, p)
             \/ \E kind \in {"update", "password", "withdraw"} : Submit(t, kind)
      PROVE  JarGood /\ OutGood /\ CrossedGood
  <2>1. jar' = jar /\ out' = out /\ crossed' = crossed
    BY <1>4 DEF Reload, AwaitRefresh, Leave, Expire, Submit, history
  <2>2. QED
    BY <1>2, <2>1
<1>5. ASSUME NEW q \in Slots, PasswordAnswered(q) \/ Limited(q)
      PROVE  JarGood /\ OutGood /\ CrossedGood
  <2>1. jar' = jar /\ out' = out /\ crossed' = crossed
    BY <1>5 DEF PasswordAnswered, Limited, history
  <2>2. QED
    BY <1>2, <2>1
<1>6. ASSUME NEW q \in Slots, wire[q] # Idle, SetCookie(q) \/ UNCHANGED jar PROVE JarGood
  <2>1. CASE SetCookie(q)
    BY <1>6, <2>1, SetsCookie
  <2>2. CASE UNCHANGED jar
    BY <1>2, <2>2
  <2>3. QED
    BY <1>6, <2>1, <2>2
<1>7. ASSUME NEW q \in Slots, Unheard(q)
      PROVE  JarGood /\ OutGood /\ CrossedGood
  <2>1. /\ out' = out /\ crossed' = crossed /\ wire[q] # Idle
        /\ SetCookie(q) \/ UNCHANGED jar
    BY <1>7 DEF Unheard, history
  <2>2. QED
    BY <1>2, <1>6, <2>1
<1>8. ASSUME NEW q \in Slots, Deliver(q)
      PROVE  JarGood /\ OutGood /\ CrossedGood
  <2>1. out' = out /\ wire[q] # Idle /\ SetCookie(q)
    BY <1>8 DEF Deliver, LoginAnswered, RefreshAnswered, LogoutAnswered, WithdrawAnswered,
                UpdateAnswered
  <2>2. crossed' = crossed \/ Crossing(q)
    BY <1>8 DEF Deliver, LoginAnswered, RefreshAnswered, LogoutAnswered, WithdrawAnswered,
                UpdateAnswered
  <2>3. wire[q].tab \in Tabs
    BY <2>1, FieldsAreTyped
  <2>4. CrossedGood
    BY <1>1, <2>2, <2>3 DEF Crossing
  <2>5. QED
    BY <1>2, <1>6, <2>1, <2>4
<1>9. JarGood /\ OutGood /\ CrossedGood
  BY <1>3, <1>4, <1>5, <1>7, <1>8 DEF TabStep
<1>10. QED
  BY <1>9

LEMMA TabsNeedless ==
    ASSUME TypeOK, TrustFacts, TabStep
    PROVE  needless' \in BOOLEAN /\ (needless' => faults > 0)
<1>1. needless \in BOOLEAN /\ (needless => faults > 0)
  BY DEF TypeOK, TrustFacts
<1>2. CASE needless' = needless
  BY <1>1, <1>2
<1>3. ASSUME NEW q \in Slots, wire[q] # Idle, wire[q].step \in Answers, RefreshAnswered(q)
      PROVE  needless' \in BOOLEAN /\ (needless' => faults > 0)
  <2>1. PICK t \in Tabs : t = wire[q].tab
    BY <1>3, FieldsAreTyped
  <2>2. PICK p \in Types : p = wire[q].type
    BY <1>3, FieldsAreTyped
  <2>3. /\ needless' \in BOOLEAN
        /\ needless' => \/ needless
                        \/ page'[t][p] = "login" /\ page[t][p] = "waiting" /\ wire[q].trusted
    <3>1. needless' = (needless \/ (page'[wire[q].tab][wire[q].type] = "login"
                                  /\ page[wire[q].tab][wire[q].type] = "waiting"
                                  /\ wire[q].trusted))
      BY <1>3, Zenon DEF RefreshAnswered
    <3>2. QED
      BY <2>1, <2>2, <3>1
  <2>4. ASSUME page'[t][p] = "login", page[t][p] = "waiting", wire[q].trusted
        PROVE  faults > 0
    <3>1. wire[q].step # "ok"
      <4>1. ASSUME wire[q].step = "ok" PROVE FALSE
        <5>1. page' = [page EXCEPT ![t][p] = "idle"]
          BY <1>3, <2>1, <2>2, <2>4, <4>1 DEF RefreshAnswered
        <5>2. page \in [Tabs -> [Types -> {"idle", "waiting", "login", "error"}]]
          BY DEF TypeOK
        <5>3. page'[t][p] = "idle"
          BY <5>1, <5>2, NestedUpdate
        <5>4. QED
          BY <2>4, <5>3
      <4>2. QED
        BY <4>1
    <3>2. wire[q].step \in {"refused", "failed"}
      BY <1>3, <3>1 DEF Answers
    <3>3. QED
      BY <1>3, <2>4, <3>2 DEF TrustFacts, TrustFact
  <2>5. QED
    BY <1>1, <2>3, <2>4
<1>4. ASSUME NEW q \in Slots, Deliver(q)
      PROVE  needless' = needless \/ (wire[q] # Idle /\ wire[q].step \in Answers /\ RefreshAnswered(q))
  BY <1>4 DEF Deliver, LoginAnswered, LogoutAnswered, WithdrawAnswered, UpdateAnswered
<1>5. ASSUME NEW q \in Slots, PasswordAnswered(q) \/ Unheard(q) \/ Limited(q)
      PROVE  needless' = needless
  BY <1>5 DEF PasswordAnswered, Unheard, Limited, history
<1>6. ASSUME NEW t \in Tabs,
             \/ Reload(t)
             \/ \E p \in Types, who \in Accounts : Enter(t, p, who)
             \/ \E p \in Types : AwaitRefresh(t, p) \/ Leave(t, p) \/ Expire(t, p)
             \/ \E kind \in {"update", "password", "withdraw"} : Submit(t, kind)
      PROVE  needless' = needless
  BY <1>6 DEF Reload, Enter, AwaitRefresh, Leave, Expire, Submit, history
<1>7. QED
  BY <1>2, <1>3, <1>4, <1>5, <1>6 DEF TabStep

LEMMA TabsKeepType ==
    ASSUME TypeOK, KindFacts, TrustFacts, TabStep
    PROVE  TypeOK'
<1>1. StoresTyped' /\ PagesTyped' /\ UNCHANGED <<newest, grace, gone, issued, raced, faults>>
  BY TabsAreTyped
<1>2. /\ jar' \in [Types -> RefreshTokens \cup {NoToken}]
      /\ out' \in [Types -> Accounts \cup {NoOne}] /\ crossed' \subseteq Tabs
  BY TabsKeepRest
<1>3. needless' \in BOOLEAN
  BY TabsNeedless
<1>4. wire' \in [Slots -> Requests \cup {Idle}] /\ calls' \in 0..MaxCalls
  <2>1. calls \in 0..MaxCalls
    BY DEF TypeOK
  <2>2. Moved
    BY TabStepIsMoved
  <2>3. QED
    BY <2>1, <2>2, TokensAssumption DEF Moved
<1>5. QED
  BY <1>1, <1>2, <1>3, <1>4 DEF TypeOK, StoresTyped, PagesTyped

LEMMA TabsKeepCount ==
    ASSUME TypeOK, CountFact, KindFacts, TabStep
    PROVE  CountFact'
<1>1. issued' = issued /\ issued \in Nat /\ calls \in Nat
  BY TabsAreTyped DEF TypeOK
<1>2. IsFiniteSet(Asking) /\ Cardinality(Asking) \in Nat
  BY FS_CardinalityType DEF CountFact
<1>3. CASE calls' = calls /\ Asking' \subseteq Asking
  <2>1. IsFiniteSet(Asking') /\ Cardinality(Asking') <= Cardinality(Asking)
    BY <1>2, <1>3, FS_Subset
  <2>2. Cardinality(Asking') \in Nat
    BY <2>1, FS_CardinalityType
  <2>3. QED
    BY <1>1, <1>2, <1>3, <2>1, <2>2 DEF CountFact
<1>4. ASSUME NEW q \in Slots, calls' = calls + 1, Asking' \subseteq Asking \cup {q}
      PROVE  CountFact'
  <2>1. /\ IsFiniteSet(Asking \cup {q})
        /\ Cardinality(Asking \cup {q}) <= Cardinality(Asking) + 1
    BY <1>2, FS_AddElement
  <2>2. /\ IsFiniteSet(Asking')
        /\ Cardinality(Asking') <= Cardinality(Asking \cup {q})
    BY <1>4, <2>1, FS_Subset
  <2>3. Cardinality(Asking') \in Nat /\ Cardinality(Asking \cup {q}) \in Nat
    BY <2>1, <2>2, FS_CardinalityType
  <2>4. QED
    BY <1>1, <1>2, <1>4, <2>1, <2>2, <2>3 DEF CountFact
<1>5. QED
  BY <1>3, <1>4, TabStepIsMoved DEF Moved

\* Tabs get their tokens by a reload, which takes them, or by an answer.
LEMMA OthersLeaveTabs ==
    ASSUME TabStep
    PROVE  \/ access' = access /\ user' = user
           \/ \E t \in Tabs : Reload(t)
           \/ \E q \in Slots : Deliver(q)
<1>1. ASSUME NEW t \in Tabs,
             \/ \E p \in Types, who \in Accounts : Enter(t, p, who)
             \/ \E p \in Types : AwaitRefresh(t, p) \/ Leave(t, p) \/ Expire(t, p)
             \/ \E kind \in {"update", "password", "withdraw"} : Submit(t, kind)
      PROVE  access' = access /\ user' = user
  BY <1>1 DEF Enter, AwaitRefresh, Leave, Expire, Submit, storeVars
<1>2. ASSUME NEW q \in Slots, PasswordAnswered(q) \/ Unheard(q) \/ Limited(q)
      PROVE  access' = access /\ user' = user
  BY <1>2 DEF PasswordAnswered, Unheard, Limited, storeVars
<1>3. QED
  BY <1>1, <1>2 DEF TabStep

LEMMA TabsKeepKinds ==
    ASSUME TypeOK, KindFacts, TabStep
    PROVE  KindFacts'
<1>1. ASSUME NEW t \in Tabs, NEW p \in Types PROVE OfType(access'[t][p], p)
  <2>1. OfType(access[t][p], p) /\ OfType(NoOne, p)
    BY DEF KindFacts, OfType
  <2>2. CASE access' = access /\ user' = user
    BY <2>1, <2>2
  <2>3. ASSUME NEW u \in Tabs, Reload(u) PROVE OfType(access'[t][p], p)
    BY <2>1, <2>3 DEF Reload, EachType, TypeOK
  <2>4. ASSUME NEW q \in Slots, Deliver(q) PROVE OfType(access'[t][p], p)
    <3>1. Untouched \/ Switched(q) \/ Renamed(q)
      BY <2>4, DeliverTouches
    <3>2. CASE Untouched \/ Renamed(q)
      BY <2>1, <3>2 DEF Untouched, Renamed
    <3>3. CASE Switched(q)
      <4>1. PICK who \in Accounts \cup {NoOne} :
               Changed(wire[q].tab, wire[q].type, who) /\ OfType(who, wire[q].type)
        BY <3>3 DEF Switched
      <4>2. QED
        BY <2>1, <4>1 DEF Changed
    <3>4. QED
      BY <3>1, <3>2, <3>3
  <2>5. QED
    BY <2>2, <2>3, <2>4, OthersLeaveTabs
<1>2. ASSUME NEW p \in Types PROVE OfType(jar'[p].who, p) /\ OfType(out'[p], p)
  BY TabsKeepRest, TokensAreTyped DEF KindFacts, OfType
<1>3. ASSUME NEW q \in Slots, wire'[q] # Idle
      PROVE  /\ OfType(wire'[q].who, wire'[q].type) /\ OfType(wire'[q].cookie.who, wire'[q].type)
             /\ OfType(wire'[q].given.who, wire'[q].type)
             /\ wire'[q].kind \in {"password", "withdraw", "update"} => wire'[q].type = "USER"
             /\ wire'[q].clears => wire'[q].type = "ADMIN"
             /\ wire'[q].kind = "login" => wire'[q].who # NoOne
             /\ StepFact(q)'
  <2>1. New(q) \/ Resent(q) \/ (Kept(q) /\ Unanswered(q))
    BY <1>3, TabStepIsMoved DEF Moved
  <2>2. CASE New(q)
    <3>1. PICK kind, p, t, who :
             /\ kind \in Kinds /\ p \in Types /\ t \in Tabs /\ who \in Accounts \cup {NoOne}
             /\ Sent(q, kind, p, t, who)
      BY <2>2 DEF New
    <3> DEFINE r == Request(t, kind, p, who)
    <3>2. /\ r.kind = kind /\ r.type = p /\ r.who = who /\ r.given = NoToken /\ r.step = "sent"
          /\ r.cookie \in {NoToken, jar[p]} /\ (r.clears => p = "ADMIN") /\ wire'[q] = r
      BY <3>1, RequestIsTyped DEF Sent
    <3>3. OfType(access[t][p], p) /\ OfType(jar[p].who, p) /\ OfType(NoOne, p)
      BY <3>1 DEF KindFacts, OfType
    <3>4. OfType(who, p)
      BY <3>1, <3>3 DEF Sent, OfType
    <3>5. kind \in {"update", "password", "withdraw"} => p = "USER"
      BY <3>1 DEF Sent
    <3>6. kind = "login" => who # NoOne
      BY <3>1, TokensAreTyped DEF Sent
    <3>7. StepFact(q)'
      BY <3>2 DEF StepFact
    <3>8. QED
      BY <3>2, <3>3, <3>4, <3>5, <3>6, <3>7, TokensAreTyped
  <2>3. CASE Kept(q) /\ Unanswered(q)
    BY <2>3 DEF KindFacts, StepFact, Kept, Unanswered
  <2>4. CASE Resent(q)
    <3>1. wire[q].type \in Types
      BY <2>4, FieldsAreTyped DEF Resent
    <3>2. QED
      BY <2>4, <3>1 DEF KindFacts, StepFact, Resent
  <2>5. QED
    BY <2>1, <2>2, <2>3, <2>4
<1>4. QED
  BY <1>1, <1>2, <1>3 DEF KindFacts

LEMMA TabsKeepOut ==
    ASSUME TypeOK, KindFacts, OutFacts, TabStep
    PROVE  OutFacts'
<1> SUFFICES ASSUME NEW p \in Types, out'[p] # NoOne
             PROVE  /\ out'[p] \notin raced' => newest'[out'[p]] = 0
                    /\ \A q \in Slots : wire'[q].kind = "login" => wire'[q].type # p
  BY DEF OutFacts, InFlight
<1>1. out'[p] = out[p] /\ newest' = newest /\ raced' = raced
  BY TabsKeepRest, TabsAreTyped
<1>2. /\ out[p] \notin raced => newest[out[p]] = 0
      /\ \A q \in Slots : wire[q].kind = "login" => wire[q].type # p
  BY <1>1 DEF OutFacts, InFlight
<1>3. ASSUME NEW q \in Slots, wire'[q].kind = "login", wire'[q].type = p PROVE FALSE
  <2>1. wire'[q] # Idle
    BY <1>3 DEF Idle
  <2>2. CASE New(q)
    <3>1. PICK kind, o, t, who :
             /\ kind \in Kinds /\ o \in Types /\ t \in Tabs /\ who \in Accounts \cup {NoOne}
             /\ Sent(q, kind, o, t, who)
      BY <2>2 DEF New
    <3>2. kind = "login" /\ o = p
      BY <1>3, <3>1, RequestIsTyped DEF Sent
    <3>3. QED
      BY <3>1, <3>2 DEF Sent
  <2>3. CASE Kept(q)
    BY <1>2, <1>3, <2>3 DEF Kept
  <2>4. ~Resent(q)
    BY <1>3 DEF Resent
  <2>5. QED
    BY <2>1, <2>2, <2>3, <2>4, TabStepIsMoved DEF Moved
<1>4. QED
  BY <1>1, <1>2, <1>3

LEMMA TabsKeepRace ==
    ASSUME TypeOK, KindFacts, RaceFacts, TabStep
    PROVE  RaceFacts'
<1>1. newest' = newest /\ grace' = grace /\ raced' = raced
  BY TabsAreTyped
<1>2. ASSUME NEW a \in Accounts, NEW q \in Renewing(a)'
      PROVE  q \in Renewing(a) /\ wire'[q].cookie = wire[q].cookie /\ wire'[q].step = wire[q].step
  <2>1. q \in Slots /\ wire'[q].step \in {"compared", "kept"} /\ wire'[q].kind = "refresh"
        /\ wire'[q].cookie.who = a
    BY <1>2 DEF Renewing
  <2>2. wire'[q] # Idle
    BY <2>1 DEF Idle
  <2>3. ~New(q)
    <3>1. ASSUME New(q) PROVE wire'[q].step = "sent"
      <4>1. PICK kind, p, t, who :
               /\ kind \in Kinds /\ p \in Types /\ t \in Tabs /\ who \in Accounts \cup {NoOne}
               /\ Sent(q, kind, p, t, who)
        BY <3>1 DEF New
      <4>2. QED
        BY <4>1, RequestIsTyped DEF Sent
    <3>2. QED
      BY <2>1, <3>1
  <2>4. ~Resent(q)
    BY <2>1 DEF Resent
  <2>5. Kept(q) /\ Unanswered(q)
    BY <2>1, <2>2, <2>3, <2>4, TabStepIsMoved DEF Moved
  <2>6. QED
    BY <2>1, <2>5 DEF Kept, Unanswered, Renewing
<1>3. QED
  BY <1>1, <1>2 DEF RaceFacts

LEMMA TabsKeepTrust ==
    ASSUME TypeOK, KindFacts, TrustFacts, TabStep
    PROVE  TrustFacts'
<1>1. UNCHANGED <<newest, grace, gone, raced, faults>>
  BY TabsAreTyped
<1>2. needless' => faults' > 0
  BY <1>1, TabsNeedless
<1>3. ASSUME NEW q \in Slots, wire'[q] # Idle, wire'[q].trusted
      PROVE  TrustFact(q)'
  <2>1. ASSUME wire'[q].kind = "refresh", wire'[q].step = "sent",
               Taken(wire'[q].cookie), wire'[q].cookie.who \notin raced
        PROVE  TrustFact(q)'
    BY <1>1, <2>1 DEF TrustFact, Taken, IsNewest, InGrace
  <2>2. CASE New(q)
    <3>1. PICK kind, p, t, who :
             /\ kind \in Kinds /\ p \in Types /\ t \in Tabs /\ who \in Accounts \cup {NoOne}
             /\ Sent(q, kind, p, t, who)
      BY <2>2 DEF New
    <3>2. LET r == Request(t, kind, p, who) IN
          /\ wire'[q] = r /\ r.step = "sent" /\ r.kind = kind
          /\ r.trusted => kind = "refresh" /\ Taken(r.cookie) /\ r.cookie.who \notin raced
      BY <3>1, RequestIsTyped DEF Sent
    <3>3. QED
      BY <1>3, <2>1, <3>2
  <2>3. CASE Resent(q)
    BY <1>3, <2>1, <2>3 DEF Resent
  <2>4. CASE Kept(q) /\ Unanswered(q)
    <3>1. /\ wire[q] # Idle /\ wire[q].trusted /\ wire'[q].kind = wire[q].kind
          /\ wire'[q].step = wire[q].step /\ wire'[q].cookie = wire[q].cookie
      BY <1>3, <2>4 DEF Kept, Unanswered
    <3>2. QED
      BY <1>1, <3>1 DEF TrustFacts, TrustFact, Taken, IsNewest, InGrace
  <2>5. QED
    BY <1>3, <2>2, <2>3, <2>4, TabStepIsMoved DEF Moved
<1>4. QED
  BY <1>2, <1>3 DEF TrustFacts

\* What the answer to an update says of the tab, as far as it may be heard.
UpdateFact(q) ==
    wire[q] # Idle /\ wire[q].kind = "update" =>
      /\ wire[q].step = "ok" => wire[q].who # NoOne
      /\ wire[q].heard /\ wire[q].who # NoOne /\ wire[q].tab \notin crossed
         => wire[q].who = access[wire[q].tab]["USER"]

LEMMA AnswersKeepNames ==
    ASSUME TypeOK, KindFacts, NameFacts, NEW q \in Slots, Deliver(q)
    PROVE  NameFacts'
<1>1. /\ wire[q] # Idle /\ wire[q].heard /\ wire' = [wire EXCEPT ![q] = Idle]
      /\ wire \in [Slots -> Requests \cup {Idle}] /\ crossed \subseteq Tabs
      /\ user \in [Tabs -> [Types -> Accounts \cup {NoOne}]]
  BY DEF Deliver, TypeOK
<1>2. PICK t \in Tabs : t = wire[q].tab
  BY <1>1, FieldsAreTyped
<1>3. PICK p \in Types : p = wire[q].type
  BY <1>1, FieldsAreTyped
<1>4. /\ wire'[q] = Idle /\ \A s \in Slots \ {q} : wire'[s] = wire[s]
  BY <1>1
<1>5. "USER" \in Types /\ "ADMIN" # "USER"
  BY DEF Types
<1>6. /\ \A s \in Slots : UpdateFact(s)
      /\ \A u \in Tabs \ crossed : user[u]["USER"] = access[u]["USER"]
  BY DEF NameFacts, NameIsOfToken, UpdateFact
<1>7. SUFFICES /\ \A s \in Slots \ {q} : UpdateFact(s)'
               /\ \A u \in Tabs \ crossed' : user'[u]["USER"] = access'[u]["USER"]
  <2>1. UpdateFact(q)'
    BY <1>4 DEF UpdateFact
  <2>2. QED
    BY <1>7, <2>1 DEF NameFacts, NameIsOfToken, UpdateFact
<1>8. ASSUME access' = access, crossed' = crossed PROVE \A s \in Slots \ {q} : UpdateFact(s)'
  BY <1>4, <1>6, <1>8 DEF UpdateFact
<1>9. CASE Untouched
  BY <1>6, <1>8, <1>9 DEF Untouched
<1>10. CASE Renamed(q)
  <2>1. /\ wire[q].kind = "update" /\ wire[q].step = "ok"
        /\ access' = access /\ crossed' = crossed
        /\ user' = [user EXCEPT ![t]["USER"] = wire[q].who]
    BY <1>2, <1>10 DEF Renamed
  <2>2. t \notin crossed => wire[q].who = access[t]["USER"]
    BY <1>1, <1>2, <1>6, <2>1 DEF UpdateFact
  <2>3. user'[t]["USER"] = wire[q].who /\ \A u \in Tabs \ {t} : user'[u] = user[u]
    BY <1>1, <1>5, <2>1
  <2>4. QED
    BY <1>6, <1>8, <2>1, <2>2, <2>3
<1>11. CASE Switched(q)
  <2>1. PICK who \in Accounts \cup {NoOne} :
          Changed(t, p, who) /\ (Crossing(q) \/ (p = "ADMIN" /\ crossed' = crossed))
    BY <1>2, <1>3, <1>11 DEF Switched
  <2>2. crossed \subseteq crossed'
    BY <2>1 DEF Crossing
  <2>3. CASE p = "ADMIN"
    <3>1. \A u \in Tabs : access'[u]["USER"] = access[u]["USER"] /\ user'[u]["USER"] = user[u]["USER"]
      BY <1>5, <2>1, <2>3 DEF Changed
    <3>2. ASSUME NEW s \in Slots \ {q} PROVE UpdateFact(s)'
      <4>1. wire[s] # Idle => wire[s].tab \in Tabs
        BY FieldsAreTyped
      <4>2. QED
        BY <1>4, <1>6, <2>2, <3>1, <4>1 DEF UpdateFact
    <3>3. QED
      BY <1>6, <2>2, <3>1, <3>2
  <2>4. CASE p = "USER"
    <3>1. \A u \in Tabs : /\ access'[u]["USER"] = IF u = t THEN who ELSE access[u]["USER"]
                          /\ user'[u]["USER"] = IF u = t THEN who ELSE user[u]["USER"]
      BY <1>5, <2>1, <2>4 DEF Changed
    <3>2. crossed' = IF Pending(t, {"update"}, "USER") = {} THEN crossed ELSE crossed \cup {t}
      BY <1>2, <1>3, <1>5, <2>1, <2>4 DEF Crossing
    <3>3. ASSUME NEW s \in Slots \ {q}, wire'[s] # Idle, wire'[s].kind = "update"
          PROVE  /\ wire'[s].step = "ok" => wire'[s].who # NoOne
                 /\ wire'[s].heard /\ wire'[s].who # NoOne /\ wire'[s].tab \notin crossed'
                    => wire'[s].who = access'[wire'[s].tab]["USER"]
      <4>1. wire'[s] = wire[s] /\ wire[s].tab \in Tabs
        BY <1>4, <3>3, FieldsAreTyped
      <4>2. wire[s].type = "USER"
        BY <3>3, <4>1 DEF KindFacts
      <4>3. wire[s].tab = t /\ wire[s].heard => t \in crossed'
        BY <3>2, <3>3, <4>1, <4>2 DEF Pending, InFlight
      <4>4. QED
        BY <1>6, <2>2, <3>1, <3>3, <4>1, <4>3 DEF UpdateFact
    <3>4. \A s \in Slots \ {q} : UpdateFact(s)'
      BY <3>3 DEF UpdateFact
    <3>5. QED
      BY <1>6, <2>2, <3>1, <3>4
  <2>5. QED
    BY <2>3, <2>4 DEF Types
<1>12. QED
  BY <1>9, <1>10, <1>11, DeliverTouches

LEMMA TabsKeepNames ==
    ASSUME TypeOK, KindFacts, NameFacts, TabStep
    PROVE  NameFacts'
<1>1. /\ \A s \in Slots : UpdateFact(s)
      /\ \A u \in Tabs \ crossed : user[u]["USER"] = access[u]["USER"]
  BY DEF NameFacts, NameIsOfToken, UpdateFact
<1>2. "USER" \in Types
  BY DEF Types
<1>3. CASE access' = access /\ user' = user
  <2>1. crossed \subseteq crossed'
    BY TabsKeepRest
  <2>2. ASSUME NEW q \in Slots, wire'[q] # Idle, wire'[q].kind = "update"
        PROVE  /\ wire'[q].step = "ok" => wire'[q].who # NoOne
               /\ wire'[q].heard /\ wire'[q].who # NoOne /\ wire'[q].tab \notin crossed'
                  => wire'[q].who = access'[wire'[q].tab]["USER"]
    <3>1. CASE New(q)
      <4>1. PICK kind, p, t, who :
               /\ kind \in Kinds /\ p \in Types /\ t \in Tabs /\ who \in Accounts \cup {NoOne}
               /\ Sent(q, kind, p, t, who)
        BY <3>1 DEF New
      <4>2. LET r == Request(t, kind, p, who) IN
            wire'[q] = r /\ r.kind = kind /\ r.tab = t /\ r.who = who /\ r.step = "sent"
        BY <4>1, RequestIsTyped DEF Sent
      <4>3. p = "USER" /\ who \in {NoOne, access[t][p]}
        BY <2>2, <4>1, <4>2 DEF Sent
      <4>4. QED
        BY <1>3, <4>2, <4>3
    <3>2. CASE Kept(q) /\ Unanswered(q)
      BY <1>1, <1>3, <2>1, <2>2, <3>2 DEF Kept, Unanswered, UpdateFact
    <3>3. ~Resent(q)
      BY <2>2 DEF Resent
    <3>4. QED
      BY <2>2, <3>1, <3>2, <3>3, TabStepIsMoved DEF Moved
  <2>3. QED
    BY <1>1, <1>3, <2>1, <2>2 DEF NameFacts, NameIsOfToken
<1>4. ASSUME NEW t \in Tabs, Reload(t) PROVE NameFacts'
  <2>1. PICK q \in Slots :
          /\ wire[q] = Idle
          /\ wire' = [s \in Slots |->
                IF s = q THEN Request(t, "refresh", "USER", NoOne)
                ELSE IF wire[s] # Idle /\ wire[s].tab = t THEN [wire[s] EXCEPT !.heard = FALSE]
                ELSE wire[s]]
    BY <1>4 DEF Reload
  <2>2. /\ \A u \in Tabs : /\ access'[u]["USER"] = IF u = t THEN NoOne ELSE access[u]["USER"]
                           /\ user'[u]["USER"] = IF u = t THEN NoOne ELSE user[u]["USER"]
        /\ crossed' = crossed
    BY <1>2, <1>4 DEF Reload, TypeOK, EachType, history
  <2>3. wire'[q].kind = "refresh"
    BY <1>2, <2>1, RequestIsTyped DEF Kinds
  <2>4. ASSUME NEW s \in Slots, wire'[s] # Idle, wire'[s].kind = "update"
        PROVE  /\ wire'[s].step = "ok" => wire'[s].who # NoOne
               /\ wire'[s].heard /\ wire'[s].who # NoOne /\ wire'[s].tab \notin crossed'
                  => wire'[s].who = access'[wire'[s].tab]["USER"]
    <3>1. s # q
      BY <2>3, <2>4
    <3>2. CASE wire[s] # Idle /\ wire[s].tab = t
      <4>1. wire'[s] = [wire[s] EXCEPT !.heard = FALSE] /\ wire[s] \in Requests
        BY <2>1, <3>1, <3>2, SlotIs
      <4>2. /\ ~wire'[s].heard /\ wire'[s].kind = wire[s].kind
            /\ wire'[s].step = wire[s].step /\ wire'[s].who = wire[s].who
        BY <4>1 DEF Requests
      <4>3. QED
        BY <1>1, <2>4, <3>2, <4>2 DEF UpdateFact
    <3>3. CASE ~(wire[s] # Idle /\ wire[s].tab = t)
      <4>1. wire'[s] = wire[s] /\ wire[s].tab \in Tabs /\ wire[s].tab # t
        BY <2>1, <2>4, <3>1, <3>3, FieldsAreTyped
      <4>2. QED
        BY <1>1, <2>2, <2>4, <4>1 DEF UpdateFact
    <3>4. QED
      BY <3>2, <3>3
  <2>5. QED
    BY <1>1, <2>2, <2>4 DEF NameFacts, NameIsOfToken
<1>5. QED
  BY <1>3, <1>4, AnswersKeepNames, OthersLeaveTabs

-----------------------------------------------------------------------------
\* What auth-service does to the requests

\* Request q has come as far as step; those sent with a token of old are trusted no
\* longer.
Reply(q, step, token, old) ==
    /\ wire' \in [Slots -> Requests \cup {Idle}]
    /\ Kept(q) /\ wire'[q] # Idle
    /\ wire'[q].step = step /\ wire'[q].given = token
    /\ \A s \in Slots \ {q} : wire'[s] # Idle =>
         /\ Kept(s) /\ Unanswered(s)
         /\ wire'[s].trusted => wire[s].cookie \notin old

LEMMA DistrustIs ==
    ASSUME TypeOK, NEW old
    PROVE  /\ DOMAIN Distrust(old) = Slots
           /\ \A s \in Slots :
                LET d == Distrust(old)[s] IN
                /\ d \in Requests \cup {Idle}
                /\ d # Idle => /\ wire[s] # Idle /\ d \in Requests
                               /\ d.kind = wire[s].kind /\ d.type = wire[s].type
                               /\ d.tab = wire[s].tab /\ d.who = wire[s].who
                               /\ d.cookie = wire[s].cookie /\ d.step = wire[s].step
                               /\ d.given = wire[s].given /\ d.heard = wire[s].heard
                               /\ d.clears = wire[s].clears
                               /\ d.trusted => wire[s].trusted /\ wire[s].cookie \notin old
<1>1. DOMAIN Distrust(old) = Slots
  BY DEF Distrust
<1>2. ASSUME NEW s \in Slots
      PROVE  LET d == Distrust(old)[s] IN
             /\ d \in Requests \cup {Idle}
             /\ d # Idle => /\ wire[s] # Idle /\ d \in Requests
                            /\ d.kind = wire[s].kind /\ d.type = wire[s].type
                            /\ d.tab = wire[s].tab /\ d.who = wire[s].who
                            /\ d.cookie = wire[s].cookie /\ d.step = wire[s].step
                            /\ d.given = wire[s].given /\ d.heard = wire[s].heard
                            /\ d.clears = wire[s].clears
                            /\ d.trusted => wire[s].trusted /\ wire[s].cookie \notin old
  <2>1. CASE wire[s] # Idle /\ wire[s].cookie \in old
    <3>1. Distrust(old)[s] = [wire[s] EXCEPT !.trusted = FALSE] /\ wire[s] \in Requests
      BY <2>1, SlotIs DEF Distrust
    <3>2. QED
      BY <2>1, <3>1 DEF Requests
  <2>2. CASE ~(wire[s] # Idle /\ wire[s].cookie \in old)
    <3>1. Distrust(old)[s] = wire[s] /\ wire[s] \in Requests \cup {Idle}
      BY <2>2 DEF Distrust, TypeOK
    <3>2. QED
      BY <2>2, <3>1
  <2>3. QED
    BY <2>1, <2>2
<1>3. QED
  BY <1>1, <1>2

LEMMA GoesIsReply ==
    ASSUME TypeOK, NEW q \in Slots, wire[q] # Idle, NEW step \in Open \cup Answers,
           NEW token \in RefreshTokens \cup {NoToken}, NEW old, Goes(q, step, token, old)
    PROVE  Reply(q, step, token, old)
<1> DEFINE r == [wire[q] EXCEPT !.step = step, !.given = token]
           d == Distrust(old)
<1>1. wire' = [d EXCEPT ![q] = r]
  BY DEF Goes
<1>2. wire[q] \in Requests
  BY SlotIs
<1>3. /\ r \in Requests /\ r # Idle
      /\ r.kind = wire[q].kind /\ r.type = wire[q].type /\ r.tab = wire[q].tab
      /\ r.who = wire[q].who /\ r.cookie = wire[q].cookie /\ r.heard = wire[q].heard
      /\ r.trusted = wire[q].trusted /\ r.clears = wire[q].clears
      /\ r.step = step /\ r.given = token
  BY <1>2 DEF Requests, Idle
<1>4. /\ DOMAIN d = Slots
      /\ \A s \in Slots : d[s] \in Requests \cup {Idle}
  BY DistrustIs
<1> HIDE DEF r, d
<1>5. wire'[q] = r /\ \A s \in Slots \ {q} : wire'[s] = d[s]
  BY <1>1, <1>4 DEF Distrust, d
<1>6. wire' \in [Slots -> Requests \cup {Idle}]
  <2>1. wire' = [s \in Slots |-> wire'[s]]
    BY <1>1 DEF Distrust, d
  <2>2. \A s \in Slots : wire'[s] \in Requests \cup {Idle}
    BY <1>3, <1>4, <1>5
  <2>3. QED
    BY <2>1, <2>2
<1>7. Kept(q)
  BY <1>3, <1>5 DEF Kept
<1>8. ASSUME NEW s \in Slots \ {q}, wire'[s] # Idle
      PROVE  /\ Kept(s) /\ Unanswered(s)
             /\ wire'[s].trusted => wire[s].cookie \notin old
  <2>1. wire'[s] = Distrust(old)[s]
    BY <1>5 DEF d
  <2>2. QED
    BY <1>8, <2>1, DistrustIs DEF Kept, Unanswered
<1>9. QED
  BY <1>3, <1>5, <1>6, <1>7, <1>8 DEF Reply

LEMMA FaultIsReply ==
    ASSUME TypeOK, NEW q \in Slots, Fault(q)
    PROVE  \E x \in {"failed", "refused"} : Reply(q, x, wire[q].given, {})
<1>1. PICK x \in {"failed", "refused"} : wire' = [wire EXCEPT ![q].step = x]
  BY DEF Fault
<1>2. wire \in [Slots -> Requests \cup {Idle}] /\ wire[q] \in Requests /\ wire[q] # Idle
  BY SlotIs DEF Fault, TypeOK
<1> DEFINE r == [wire[q] EXCEPT !.step = x]
<1>3. /\ r \in Requests /\ r # Idle
      /\ r.kind = wire[q].kind /\ r.type = wire[q].type /\ r.tab = wire[q].tab
      /\ r.who = wire[q].who /\ r.cookie = wire[q].cookie /\ r.heard = wire[q].heard
      /\ r.trusted = wire[q].trusted /\ r.clears = wire[q].clears
      /\ r.step = x /\ r.given = wire[q].given
  BY <1>2 DEF Requests, Idle, Answers
<1>4. wire' = [wire EXCEPT ![q] = r]
  BY <1>1, <1>2
<1> HIDE DEF r
<1>5. /\ wire' \in [Slots -> Requests \cup {Idle}]
      /\ wire'[q] = r /\ \A s \in Slots \ {q} : wire'[s] = wire[s]
  BY <1>2, <1>3, <1>4
<1>6. Kept(q)
  BY <1>2, <1>3, <1>5 DEF Kept
<1>7. \A s \in Slots \ {q} : wire'[s] # Idle => Kept(s) /\ Unanswered(s)
  BY <1>5, SameIsKept
<1>8. Reply(q, x, wire[q].given, {})
  BY <1>3, <1>5, <1>6, <1>7 DEF Reply
<1>9. QED
  BY <1>8

\* Of a renewal that is between its comparison and its last write nothing changes but q.
LEMMA ReplyRenewing ==
    ASSUME NEW q \in Slots, NEW step, NEW token, NEW old, Reply(q, step, token, old),
           NEW a \in Accounts
    PROVE  /\ wire'[q].cookie = wire[q].cookie /\ wire'[q].step = step
           /\ \A s \in Renewing(a)' : s # q =>
                /\ s \in Renewing(a)
                /\ wire'[s].cookie = wire[s].cookie /\ wire'[s].step = wire[s].step
           /\ q \in Renewing(a)' => /\ wire[q].kind = "refresh" /\ wire[q].cookie.who = a
                                    /\ step \in {"compared", "kept"}
<1>1. wire'[q].cookie = wire[q].cookie /\ wire'[q].step = step /\ wire'[q].kind = wire[q].kind
  BY DEF Reply, Kept
<1>2. ASSUME NEW s \in Renewing(a)', s # q
      PROVE  /\ s \in Renewing(a)
             /\ wire'[s].cookie = wire[s].cookie /\ wire'[s].step = wire[s].step
  <2>1. /\ s \in Slots /\ wire'[s].kind = "refresh" /\ wire'[s].cookie.who = a
        /\ wire'[s].step \in {"compared", "kept"}
    BY <1>2 DEF Renewing
  <2>2. wire'[s] # Idle
    BY <2>1 DEF Idle
  <2>3. Kept(s) /\ Unanswered(s)
    BY <1>2, <2>1, <2>2 DEF Reply
  <2>4. QED
    BY <2>1, <2>3 DEF Renewing, Kept, Unanswered
<1>3. q \in Renewing(a)' => /\ wire[q].kind = "refresh" /\ wire[q].cookie.who = a
                            /\ step \in {"compared", "kept"}
  BY <1>1 DEF Renewing
<1>4. QED
  BY <1>1, <1>2, <1>3

-----------------------------------------------------------------------------
\* What auth-service does to an account

\* Nothing: it refuses, it has checked a password or found another token, or it gives
\* the token it has found, or none.
Passes(q) ==
    /\ UNCHANGED <<newest, grace, gone, issued, raced>>
    /\ \E step \in {"compared", "behind", "ok", "refused"}, token \in RefreshTokens \cup {NoToken} :
         /\ Reply(q, step, token, {})
         /\ OfType(token.who, wire[q].type)
         /\ step = "compared" => wire[q].kind = "login"
         /\ step = "behind" => /\ wire[q].kind = "refresh" /\ wire[q].step = "sent"
                               /\ wire[q].cookie \in RefreshTokens /\ ~IsNewest(wire[q].cookie)
         /\ step = "ok" /\ wire[q].kind = "update" => wire[q].who # NoOne
         /\ step = "refused" => ~wire[q].trusted

\* A renewal has compared its token of account a, alone or not.
Compares(q, a) ==
    /\ wire[q].kind = "refresh" /\ wire[q].cookie \in RefreshTokens /\ wire[q].cookie.who = a
    /\ newest[a] = wire[q].cookie.n /\ Renewing(a) = {}
    /\ UNCHANGED <<newest, grace, gone, issued, raced>>
    /\ Reply(q, "compared", NoToken, {})

Races(q, a) ==
    /\ wire[q].kind = "refresh" /\ wire[q].cookie \in RefreshTokens /\ wire[q].cookie.who = a
    /\ raced' = raced \cup {a}
    /\ UNCHANGED <<newest, grace, gone, issued>>
    /\ Reply(q, "compared", NoToken, TokensOf(a))

\* It keeps the old token, and then stores a new one.
Keeps(q, a) ==
    /\ wire[q].kind = "refresh" /\ wire[q].cookie \in RefreshTokens /\ wire[q].cookie.who = a
    /\ wire[q].step = "compared"
    /\ grace' = [grace EXCEPT ![a] = wire[q].cookie.n]
    /\ UNCHANGED <<newest, gone, issued, raced>>
    /\ Reply(q, "kept", NoToken, {[who |-> a, n |-> grace[a]]} \ {wire[q].cookie})

Renews(q, a) ==
    /\ wire[q].kind = "refresh" /\ wire[q].cookie \in RefreshTokens /\ wire[q].cookie.who = a
    /\ wire[q].step = "kept"
    /\ issued' = issued + 1 /\ newest' = [newest EXCEPT ![a] = issued + 1]
    /\ UNCHANGED <<grace, gone, raced>>
    /\ Reply(q, "ok", [who |-> a, n |-> issued + 1], {})

\* A login begins the session of account a anew.
Issues(q, a) ==
    /\ wire[q].kind = "login" /\ wire[q].who = a
    /\ issued' = issued + 1 /\ newest' = [newest EXCEPT ![a] = issued + 1]
    /\ UNCHANGED <<grace, gone>> /\ Settles(a)
    /\ Reply(q, "ok", [who |-> a, n |-> issued + 1], TokensOf(a))

\* The account goes, its newest token, or the one in its grace period.
Leaves(q, a) ==
    /\ wire[q].kind = "withdraw" /\ wire[q].who = a
    /\ gone' = gone \cup {a}
    /\ UNCHANGED <<newest, grace, issued, raced>>
    /\ Reply(q, "left", NoToken, TokensOf(a))

Revokes(q, a) ==
    /\ wire[q].kind \in {"logout", "password", "withdraw"} /\ wire[q].who = a
    /\ newest' = [newest EXCEPT ![a] = 0]
    /\ UNCHANGED <<grace, gone, issued>> /\ Settles(a)
    /\ Reply(q, "ended", NoToken, TokensOf(a))

Forgets(q, a) ==
    /\ wire[q].kind \in {"logout", "password", "withdraw"} /\ wire[q].who = a
    /\ grace' = [grace EXCEPT ![a] = 0]
    /\ raced' = IF TooSlow(a) THEN raced \cup {a} ELSE raced
    /\ UNCHANGED <<newest, gone, issued>>
    /\ Reply(q, "ok", NoToken, TokensOf(a))

Does(q, a) ==
    \/ Compares(q, a) \/ Races(q, a) \/ Keeps(q, a) \/ Renews(q, a) \/ Issues(q, a)
    \/ Leaves(q, a) \/ Revokes(q, a) \/ Forgets(q, a)

LEMMA AskingIsCounted ==
    ASSUME TypeOK, CountFact, NEW q \in Slots, wire[q] # Idle, wire[q].step \in Open,
           wire[q].kind \in {"login", "refresh"}
    PROVE  /\ issued + 1 \in 1..MaxCalls
           /\ IsFiniteSet(Asking \ {q}) /\ issued + 1 + Cardinality(Asking \ {q}) <= calls
<1>1. q \in Asking /\ IsFiniteSet(Asking) /\ issued + Cardinality(Asking) <= calls
  BY DEF Asking, CountFact
<1>2. IsFiniteSet(Asking \ {q}) /\ Cardinality(Asking \ {q}) = Cardinality(Asking) - 1
  BY <1>1, FS_RemoveElement
<1>3. Cardinality(Asking \ {q}) \in Nat /\ Cardinality(Asking) \in Nat
  BY <1>1, <1>2, FS_CardinalityType
<1>4. issued \in Nat /\ calls \in Nat /\ calls <= MaxCalls /\ MaxCalls \in Nat
  BY TokensAssumption DEF TypeOK
<1>5. QED
  BY <1>1, <1>2, <1>3, <1>4

LEMMA IssuedIsToken ==
    ASSUME TypeOK, CountFact, NEW q \in Slots, wire[q] # Idle, wire[q].step \in Open,
           wire[q].kind \in {"login", "refresh"}, NEW a \in Accounts
    PROVE  [who |-> a, n |-> issued + 1] \in RefreshTokens
BY AskingIsCounted DEF RefreshTokens

LEMMA RefusedIs ==
    ASSUME TypeOK, KindFacts, NEW q \in Slots, wire[q] # Idle, Refused(q), ~wire[q].trusted
    PROVE  Passes(q)
<1>1. Reply(q, "refused", NoToken, {}) /\ UNCHANGED <<newest, grace, gone, issued, raced>>
  BY GoesIsReply DEF Refused, authVars, Answers
<1>2. OfType(NoToken.who, wire[q].type)
  BY TokensAreTyped DEF OfType
<1>3. QED
  BY <1>1, <1>2 DEF Passes

\* Nobody trusts a request that is no refresh, or a refresh that is refused.
LEMMA TrustIs ==
    ASSUME TrustFacts, NEW q \in Slots, wire[q] # Idle, wire[q].trusted
    PROVE  /\ wire[q].kind = "refresh"
           /\ wire[q].step = "sent" => Taken(wire[q].cookie)
           /\ wire[q].step = "behind" => /\ InGrace(wire[q].cookie)
                                         /\ wire[q].cookie.who \notin gone
BY DEF TrustFacts, TrustFact

LEMMA LoginIs ==
    ASSUME TypeOK, CountFact, KindFacts, TrustFacts, NEW q \in Slots, wire[q] # Idle,
           wire[q].step \in Open, ServeLogin(q)
    PROVE  Passes(q) \/ \E a \in Accounts : Does(q, a)
<1>1. wire[q].kind = "login" /\ ~wire[q].trusted
  BY TrustIs DEF ServeLogin
<1>2. PICK a \in Accounts : a = wire[q].who
  BY <1>1, FieldsAreTyped DEF KindFacts
<1>3. CASE Refused(q)
  BY <1>1, <1>3, RefusedIs
<1>4. CASE Goes(q, "compared", NoToken, {}) /\ UNCHANGED authVars
  <2>1. Reply(q, "compared", NoToken, {}) /\ UNCHANGED <<newest, grace, gone, issued, raced>>
    BY <1>4, GoesIsReply DEF authVars, Open
  <2>2. OfType(NoToken.who, wire[q].type)
    BY TokensAreTyped DEF OfType
  <2>3. QED
    BY <1>1, <2>1, <2>2 DEF Passes
<1>5. CASE /\ issued' = issued + 1 /\ newest' = [newest EXCEPT ![a] = issued + 1]
           /\ Goes(q, "ok", [who |-> a, n |-> issued + 1], TokensOf(a))
           /\ Settles(a) /\ UNCHANGED <<grace, gone>>
  <2>1. [who |-> a, n |-> issued + 1] \in RefreshTokens
    BY <1>1, IssuedIsToken
  <2>2. Reply(q, "ok", [who |-> a, n |-> issued + 1], TokensOf(a))
    BY <1>5, <2>1, GoesIsReply DEF Answers
  <2>3. Issues(q, a)
    BY <1>1, <1>2, <1>5, <2>2 DEF Issues
  <2>4. QED
    BY <2>3 DEF Does
<1>6. QED
  BY <1>2, <1>3, <1>4, <1>5 DEF ServeLogin

LEMMA CompareIs ==
    ASSUME TypeOK, KindFacts, TrustFacts, NEW q \in Slots, wire[q] # Idle,
           wire[q].kind = "refresh", Compare(q)
    PROVE  Passes(q) \/ \E a \in Accounts : Does(q, a)
<1>1. wire[q].step = "sent" /\ wire[q].cookie \in RefreshTokens \cup {NoToken}
  BY FieldsAreTyped DEF Compare
<1>2. wire[q].trusted => Taken(wire[q].cookie)
  BY <1>1, TrustIs
<1>3. CASE wire[q].cookie = NoToken
  <2>1. Refused(q)
    BY <1>3 DEF Compare
  <2>2. ~Taken(NoToken)
    BY TokensAreTyped DEF Taken
  <2>3. QED
    BY <1>2, <1>3, <2>1, <2>2, RefusedIs
<1>4. CASE wire[q].cookie # NoToken
  <2>1. PICK token \in RefreshTokens : token = wire[q].cookie
    BY <1>1, <1>4
  <2>2. PICK a \in Accounts : a = token.who
    BY TokensAreTyped
  <2>3. token # NoToken /\ token.n # 0
    BY TokensAreTyped
  <2> DEFINE alone == Renewing(a) = {}
  <2>4. CASE IsNewest(token) /\ a \notin gone
    <3>1. /\ Goes(q, "compared", NoToken, IF alone THEN {} ELSE TokensOf(a))
          /\ raced' = IF alone THEN raced ELSE raced \cup {a}
          /\ UNCHANGED <<newest, grace, gone, issued>>
      BY <2>1, <2>2, <2>3, <2>4 DEF Compare
    <3>2. newest[a] = token.n
      BY <2>2, <2>4 DEF IsNewest
    <3>3. CASE alone
      <4>1. Reply(q, "compared", NoToken, {}) /\ raced' = raced
        BY <3>1, <3>3, GoesIsReply DEF Open
      <4>2. Compares(q, a)
        BY <2>1, <2>2, <3>1, <3>2, <3>3, <4>1 DEF Compares
      <4>3. QED
        BY <4>2 DEF Does
    <3>4. CASE ~alone
      <4>1. Reply(q, "compared", NoToken, TokensOf(a)) /\ raced' = raced \cup {a}
        BY <3>1, <3>4, GoesIsReply DEF Open
      <4>2. Races(q, a)
        BY <2>1, <2>2, <3>1, <4>1 DEF Races
      <4>3. QED
        BY <4>2 DEF Does
    <3>5. QED
      BY <3>3, <3>4
  <2>5. CASE ~(IsNewest(token) /\ a \notin gone) /\ newest[a] \notin {0, token.n}
    <3> DEFINE new == [who |-> a, n |-> newest[a]]
    <3>1. Goes(q, "behind", new, {}) /\ UNCHANGED authVars
      BY <2>1, <2>2, <2>3, <2>5 DEF Compare
    <3>2. new \in RefreshTokens /\ new.who = a
      <4>1. newest[a] \in 0..MaxCalls /\ newest[a] # 0 /\ MaxCalls \in Nat
        BY <2>5, TokensAssumption DEF TypeOK
      <4>2. QED
        BY <4>1 DEF RefreshTokens
    <3>3. ~IsNewest(token)
      BY <2>2, <2>5 DEF IsNewest
    <3> HIDE DEF new
    <3>4. Reply(q, "behind", new, {})
      BY <3>1, <3>2, GoesIsReply DEF Open
    <3>5. OfType(new.who, wire[q].type)
      BY <2>1, <2>2, <3>2 DEF KindFacts
    <3>6. QED
      BY <1>1, <2>1, <3>1, <3>2, <3>3, <3>4, <3>5 DEF Passes, authVars
  <2>6. CASE ~(IsNewest(token) /\ a \notin gone) /\ newest[a] \in {0, token.n}
    <3>1. Refused(q)
      BY <2>1, <2>2, <2>3, <2>6 DEF Compare
    <3>2. ~Taken(token)
      BY <2>2, <2>3, <2>6 DEF Taken, IsNewest
    <3>3. QED
      BY <1>2, <2>1, <3>1, <3>2, RefusedIs
  <2>7. QED
    BY <2>4, <2>5, <2>6
<1>5. QED
  BY <1>3, <1>4

LEMMA RefreshIs ==
    ASSUME TypeOK, CountFact, KindFacts, TrustFacts, NEW q \in Slots, wire[q] # Idle,
           wire[q].step \in Open, ServeRefresh(q)
    PROVE  Passes(q) \/ \E a \in Accounts : Does(q, a)
<1>1. wire[q].kind = "refresh"
  BY DEF ServeRefresh
<1>2. CASE Compare(q)
  BY <1>1, <1>2, CompareIs
<1>3. CASE Excuse(q)
  <2>1. wire[q].step = "behind"
    BY <1>3 DEF Excuse
  <2>2. CASE InGrace(wire[q].cookie) /\ wire[q].cookie.who \notin gone
    <3>1. Goes(q, "ok", wire[q].given, {}) /\ UNCHANGED authVars
      BY <1>3, <2>2 DEF Excuse
    <3>2. /\ wire[q].given \in RefreshTokens \cup {NoToken}
          /\ OfType(wire[q].given.who, wire[q].type)
      BY FieldsAreTyped DEF KindFacts
    <3>3. Reply(q, "ok", wire[q].given, {})
      BY <3>1, <3>2, GoesIsReply DEF Answers
    <3>4. QED
      BY <1>1, <3>1, <3>2, <3>3 DEF Passes, authVars
  <2>3. CASE ~(InGrace(wire[q].cookie) /\ wire[q].cookie.who \notin gone)
    <3>1. Refused(q)
      BY <1>3, <2>3 DEF Excuse
    <3>2. ~wire[q].trusted
      BY <2>1, <2>3, TrustIs
    <3>3. QED
      BY <3>1, <3>2, RefusedIs
  <2>4. QED
    BY <2>2, <2>3
<1>4. CASE Rotate(q)
  <2>1. wire[q].step \in {"compared", "kept"}
    BY <1>4 DEF Rotate
  <2>2. PICK token \in RefreshTokens : token = wire[q].cookie
    BY <1>1, <2>1 DEF KindFacts, StepFact
  <2>3. PICK a \in Accounts : a = token.who
    BY TokensAreTyped
  <2>4. CASE wire[q].step = "compared"
    <3>1. /\ grace' = [grace EXCEPT ![a] = token.n]
          /\ Goes(q, "kept", NoToken, {[who |-> a, n |-> grace[a]]} \ {token})
          /\ UNCHANGED <<newest, gone, issued, raced>>
      BY <1>4, <2>2, <2>3, <2>4 DEF Rotate
    <3>2. Reply(q, "kept", NoToken, {[who |-> a, n |-> grace[a]]} \ {token})
      BY <3>1, GoesIsReply DEF Open
    <3>3. Keeps(q, a)
      BY <1>1, <2>2, <2>3, <2>4, <3>1, <3>2 DEF Keeps
    <3>4. QED
      BY <3>3 DEF Does
  <2>5. CASE wire[q].step = "kept"
    <3>1. /\ issued' = issued + 1 /\ newest' = [newest EXCEPT ![a] = issued + 1]
          /\ Goes(q, "ok", [who |-> a, n |-> issued + 1], {})
          /\ UNCHANGED <<grace, gone, raced>>
      BY <1>4, <2>2, <2>3, <2>5 DEF Rotate
    <3>2. [who |-> a, n |-> issued + 1] \in RefreshTokens
      BY <1>1, IssuedIsToken
    <3>3. Reply(q, "ok", [who |-> a, n |-> issued + 1], {})
      BY <3>1, <3>2, GoesIsReply DEF Answers
    <3>4. Renews(q, a)
      BY <1>1, <2>2, <2>3, <2>5, <3>1, <3>3 DEF Renews
    <3>5. QED
      BY <3>4 DEF Does
  <2>6. QED
    BY <2>1, <2>4, <2>5
<1>5. QED
  BY <1>2, <1>3, <1>4 DEF ServeRefresh

LEMMA OwnerIs ==
    ASSUME TypeOK, KindFacts, TrustFacts, NEW q \in Slots, wire[q] # Idle, ServeOwner(q)
    PROVE  Passes(q) \/ \E a \in Accounts : Does(q, a)
<1>1. wire[q].kind \in {"logout", "password", "withdraw"} /\ ~wire[q].trusted
  BY TrustIs DEF ServeOwner
<1>2. CASE Denied(q)
  BY <1>1, <1>2, RefusedIs DEF Denied
<1>3. ASSUME DeleteProfile(q) \/ Ends(q) \/ wire[q].step = "ended"
      PROVE  wire[q].who \in Accounts
  <2>1. wire[q].who # NoOne
    BY <1>3 DEF DeleteProfile, Ends, KindFacts, StepFact
  <2>2. QED
    BY <2>1, FieldsAreTyped
<1>4. CASE DeleteProfile(q)
  <2>1. PICK a \in Accounts : a = wire[q].who
    BY <1>3, <1>4
  <2>2. /\ wire[q].kind = "withdraw" /\ gone' = gone \cup {a}
        /\ UNCHANGED <<newest, grace, issued, raced>>
        /\ Reply(q, "left", NoToken, TokensOf(a))
    BY <1>4, <2>1, GoesIsReply DEF DeleteProfile, Open
  <2>3. Leaves(q, a)
    BY <2>1, <2>2 DEF Leaves
  <2>4. QED
    BY <2>3 DEF Does
<1>5. CASE EndSession(q)
  <2>1. PICK a \in Accounts : a = wire[q].who
    BY <1>3, <1>5 DEF EndSession
  <2>2. /\ newest' = [newest EXCEPT ![a] = 0] /\ Settles(a)
        /\ UNCHANGED <<grace, gone, issued>>
        /\ Reply(q, "ended", NoToken, TokensOf(a))
    BY <1>5, <2>1, GoesIsReply DEF EndSession, Open
  <2>3. Revokes(q, a)
    BY <1>1, <2>1, <2>2 DEF Revokes
  <2>4. QED
    BY <2>3 DEF Does
<1>6. CASE EndGrace(q)
  <2>1. PICK a \in Accounts : a = wire[q].who
    BY <1>3, <1>6 DEF EndGrace
  <2>2. /\ grace' = [grace EXCEPT ![a] = 0]
        /\ raced' = IF TooSlow(a) THEN raced \cup {a} ELSE raced
        /\ UNCHANGED <<newest, gone, issued>>
        /\ Reply(q, "ok", NoToken, TokensOf(a))
    BY <1>6, <2>1, GoesIsReply DEF EndGrace, Answers
  <2>3. Forgets(q, a)
    BY <1>1, <2>1, <2>2 DEF Forgets
  <2>4. QED
    BY <2>3 DEF Does
<1>7. QED
  BY <1>2, <1>4, <1>5, <1>6 DEF ServeOwner

LEMMA UpdateIs ==
    ASSUME TypeOK, KindFacts, TrustFacts, NEW q \in Slots, wire[q] # Idle, ServeUpdate(q)
    PROVE  Passes(q)
<1>1. wire[q].kind = "update" /\ ~wire[q].trusted
  BY TrustIs DEF ServeUpdate
<1>2. CASE wire[q].who \in {NoOne} \cup gone
  BY <1>1, <1>2, RefusedIs DEF ServeUpdate
<1>3. CASE wire[q].who \notin {NoOne} \cup gone
  <2>1. Reply(q, "ok", NoToken, {}) /\ UNCHANGED <<newest, grace, gone, issued, raced>>
    BY <1>3, GoesIsReply DEF ServeUpdate, Answers, authVars
  <2>2. OfType(NoToken.who, wire[q].type)
    BY TokensAreTyped DEF OfType
  <2>3. QED
    BY <1>3, <2>1, <2>2 DEF Passes
<1>4. QED
  BY <1>2, <1>3

LEMMA ServeIs ==
    ASSUME TypeOK, CountFact, KindFacts, TrustFacts, NEW q \in Slots, Serve(q)
    PROVE  Passes(q) \/ \E a \in Accounts : Does(q, a)
<1>1. wire[q] # Idle /\ wire[q].step \in Open
  BY DEF Serve
<1>2. QED
  BY <1>1, LoginIs, RefreshIs, OwnerIs, UpdateIs DEF Serve

\* A request or its answer is lost, or a service is out of reach.
Fails(q) ==
    /\ UNCHANGED <<newest, grace, gone, issued, raced>> /\ faults' > 0
    /\ \E step \in {"failed", "refused"} : Reply(q, step, wire[q].given, {})

AuthStep(q) == Serve(q) \/ Fault(q)

LEMMA AuthStepIs ==
    ASSUME TypeOK, CountFact, KindFacts, TrustFacts, NEW q \in Slots, AuthStep(q)
    PROVE  /\ wire[q] # Idle
           /\ \/ Fails(q)
              \/ wire[q].step \in Open /\ (Passes(q) \/ \E a \in Accounts : Does(q, a))
<1>1. CASE Serve(q)
  BY <1>1, ServeIs DEF Serve
<1>2. CASE Fault(q)
  <2>1. faults' > 0
    BY <1>2, TokensAssumption DEF Fault, TypeOK
  <2>2. QED
    BY <1>2, <2>1, FaultIsReply DEF Fault, Fails, authVars
<1>3. QED
  BY <1>1, <1>2 DEF AuthStep

\* The tabs see nothing of it yet.
LEMMA AuthStepLeaves ==
    ASSUME TypeOK, NEW q \in Slots, AuthStep(q)
    PROVE  /\ UNCHANGED <<jar, access, fresh, user, page, calls, crossed, needless>>
           /\ faults' \in 0..MaxFaults /\ (faults > 0 => faults' > 0)
           /\ out' \in [Types -> Accounts \cup {NoOne}]
           /\ \/ out' = out
              \/ /\ out' = [out EXCEPT ![wire[q].type] = wire[q].who]
                 /\ wire'[q].step = "ended" /\ InFlight({"login"}, wire[q].type) = {}
<1>1. wire[q] # Idle
  BY DEF AuthStep, Serve, Fault
<1>2. /\ faults \in 0..MaxFaults /\ MaxFaults \in Nat
      /\ out \in [Types -> Accounts \cup {NoOne}]
      /\ wire[q].type \in Types /\ wire[q].who \in Accounts \cup {NoOne}
  BY <1>1, FieldsAreTyped, TokensAssumption DEF TypeOK
<1>3. CASE Serve(q)
  <2>1. UNCHANGED <<jar, access, fresh, user, page, calls, faults, crossed, needless>>
    BY <1>3 DEF Serve, storeVars
  <2>2. \/ out' = out
        \/ /\ out' = [out EXCEPT ![wire[q].type] = wire[q].who]
           /\ wire'[q].step = "ended" /\ InFlight({"login"}, wire[q].type) = {}
    BY <1>3 DEF Serve
  <2>3. QED
    BY <1>2, <2>1, <2>2
<1>4. CASE Fault(q)
  BY <1>2, <1>4 DEF Fault, storeVars, history
<1>5. QED
  BY <1>3, <1>4 DEF AuthStep

\* The answer carries a token of the account's type, or none.
LEMMA AuthReplies ==
    ASSUME TypeOK, CountFact, KindFacts, TrustFacts, NEW q \in Slots, AuthStep(q)
    PROVE  \E step, token, old :
             /\ Reply(q, step, token, old)
             /\ OfType(token.who, wire[q].type)
             /\ step \in {"left", "ended"} => wire[q].who # NoOne
             /\ wire[q].kind = "refresh" /\ step \in {"compared", "kept", "behind"}
                => wire[q].cookie \in RefreshTokens
             /\ wire[q].kind = "update" /\ step = "ok" => wire[q].who # NoOne
<1>1. wire[q] # Idle
  BY AuthStepIs
<1>2. /\ OfType(NoToken.who, wire[q].type) /\ OfType(wire[q].who, wire[q].type)
      /\ OfType(wire[q].cookie.who, wire[q].type) /\ OfType(wire[q].given.who, wire[q].type)
  BY <1>1, TokensAreTyped DEF KindFacts, OfType
<1>3. CASE Passes(q)
  BY <1>3 DEF Passes
<1>4. CASE Fails(q)
  BY <1>2, <1>4 DEF Fails
<1>5. ASSUME NEW a \in Accounts, Compares(q, a) \/ Races(q, a) \/ Keeps(q, a)
      PROVE  /\ wire[q].cookie \in RefreshTokens /\ wire[q].kind = "refresh"
             /\ \E old : \E step \in {"compared", "kept"} : Reply(q, step, NoToken, old)
  BY <1>5 DEF Compares, Races, Keeps
<1>6. ASSUME NEW a \in Accounts, Leaves(q, a) \/ Revokes(q, a) \/ Forgets(q, a)
      PROVE  /\ wire[q].who = a /\ wire[q].kind \in {"logout", "password", "withdraw"}
             /\ a # NoOne /\ \E step, old : Reply(q, step, NoToken, old)
  BY <1>6, NoOneAssumption DEF Leaves, Revokes, Forgets
<1>7. ASSUME NEW a \in Accounts, Renews(q, a) \/ Issues(q, a)
      PROVE  \E token, old : /\ Reply(q, "ok", token, old) /\ OfType(token.who, wire[q].type)
                             /\ wire[q].kind # "update"
  <2>1. OfType(a, wire[q].type) /\ wire[q].kind # "update"
    BY <1>2, <1>7 DEF Renews, Issues
  <2>2. PICK token : token = [who |-> a, n |-> issued + 1]
    OBVIOUS
  <2>3. token.who = a
    BY <2>2
  <2>4. \E old : Reply(q, "ok", token, old)
    BY <1>7, <2>2 DEF Renews, Issues
  <2>5. QED
    BY <2>1, <2>3, <2>4
<1>8. QED
  BY <1>2, <1>3, <1>4, <1>5, <1>6, <1>7, AuthStepIs DEF Does

LEMMA SettlesIs ==
    ASSUME NEW a \in Accounts, Settles(a)
    PROVE  /\ raced' \subseteq raced \cup {a} /\ raced \subseteq raced' \cup {a}
           /\ a \notin raced' => Renewing(a) = {}
BY DEF Settles

\* What it does to one account leaves the others alone.
LEMMA DoesTouch ==
    ASSUME TypeOK, NEW q \in Slots, NEW a \in Accounts, Does(q, a), NEW b \in Accounts \ {a}
    PROVE  /\ newest'[b] = newest[b] /\ grace'[b] = grace[b]
           /\ b \in raced' <=> b \in raced
           /\ b \in gone' <=> b \in gone
<1>1. newest \in [Accounts -> 0..MaxCalls] /\ grace \in [Accounts -> 0..MaxCalls]
  BY DEF TypeOK
<1>2. CASE Compares(q, a) \/ Races(q, a)
  BY <1>2 DEF Compares, Races
<1>3. CASE Keeps(q, a) \/ Renews(q, a)
  BY <1>1, <1>3 DEF Keeps, Renews
<1>4. CASE Issues(q, a)
  BY <1>1, <1>4, SettlesIs DEF Issues
<1>5. CASE Leaves(q, a)
  BY <1>5 DEF Leaves
<1>6. CASE Revokes(q, a)
  BY <1>1, <1>6, SettlesIs DEF Revokes
<1>7. CASE Forgets(q, a)
  BY <1>1, <1>7 DEF Forgets
<1>8. QED
  BY <1>2, <1>3, <1>4, <1>5, <1>6, <1>7 DEF Does

LEMMA AuthIsTyped ==
    ASSUME TypeOK, CountFact, KindFacts, NEW q \in Slots, wire[q] # Idle, wire[q].step \in Open,
           NEW a \in Accounts, Does(q, a)
    PROVE  /\ newest' \in [Accounts -> 0..MaxCalls] /\ grace' \in [Accounts -> 0..MaxCalls]
           /\ gone' \subseteq Customers /\ raced' \subseteq Accounts
<1>1. /\ newest \in [Accounts -> 0..MaxCalls] /\ grace \in [Accounts -> 0..MaxCalls]
      /\ gone \subseteq Customers /\ raced \subseteq Accounts /\ MaxCalls \in Nat
  BY TokensAssumption DEF TypeOK
<1>2. CASE Compares(q, a) \/ Races(q, a)
  BY <1>1, <1>2 DEF Compares, Races
<1>3. CASE Keeps(q, a)
  <2>1. wire[q].cookie.n \in 0..MaxCalls
    BY <1>1, <1>3 DEF Keeps, RefreshTokens
  <2>2. QED
    BY <1>1, <1>3, <2>1 DEF Keeps
<1>4. CASE Renews(q, a)
  <2>1. issued + 1 \in 0..MaxCalls
    <3>1. wire[q].kind \in {"login", "refresh"}
      BY <1>4 DEF Renews
    <3>2. issued + 1 \in 1..MaxCalls
      BY <3>1, AskingIsCounted
    <3>3. QED
      BY <1>1, <3>2
  <2>2. QED
    BY <1>1, <1>4, <2>1 DEF Renews
<1>5. CASE Issues(q, a)
  <2>1. issued + 1 \in 0..MaxCalls
    <3>1. wire[q].kind \in {"login", "refresh"}
      BY <1>5 DEF Issues
    <3>2. issued + 1 \in 1..MaxCalls
      BY <3>1, AskingIsCounted
    <3>3. QED
      BY <1>1, <3>2
  <2>2. QED
    BY <1>1, <1>5, <2>1, SettlesIs DEF Issues
<1>6. CASE Leaves(q, a)
  <2>1. wire[q].type = "USER" /\ OfType(a, wire[q].type)
    BY <1>6 DEF Leaves, KindFacts
  <2>2. a \in Customers
    BY <2>1, NoOneAssumption DEF OfType, Of
  <2>3. QED
    BY <1>1, <1>6, <2>2 DEF Leaves
<1>7. CASE Revokes(q, a)
  BY <1>1, <1>7, SettlesIs DEF Revokes
<1>8. CASE Forgets(q, a)
  BY <1>1, <1>8 DEF Forgets
<1>9. QED
  BY <1>2, <1>3, <1>4, <1>5, <1>6, <1>7, <1>8 DEF Does

LEMMA AuthKeepsType ==
    ASSUME TypeOK, CountFact, KindFacts, TrustFacts, NEW q \in Slots, AuthStep(q)
    PROVE  TypeOK' /\ CountFact'
<1>1. /\ UNCHANGED <<jar, access, fresh, user, page, calls, crossed, needless>>
      /\ faults' \in 0..MaxFaults /\ out' \in [Types -> Accounts \cup {NoOne}]
  BY AuthStepLeaves
<1>2. /\ newest \in [Accounts -> 0..MaxCalls] /\ grace \in [Accounts -> 0..MaxCalls]
      /\ gone \subseteq Customers /\ raced \subseteq Accounts
      /\ issued \in 0..MaxCalls /\ calls \in 0..MaxCalls /\ MaxCalls \in Nat
      /\ IsFiniteSet(Asking) /\ issued + Cardinality(Asking) <= calls
  BY TokensAssumption DEF TypeOK, CountFact
<1>3. ASSUME NEW step, NEW token, NEW old, Reply(q, step, token, old)
      PROVE  /\ wire' \in [Slots -> Requests \cup {Idle}]
             /\ \A s \in Asking' : s # q => s \in Asking
             /\ q \in Asking' => step \in Open /\ wire[q].kind \in {"login", "refresh"}
  <2>1. ASSUME NEW s \in Asking', s # q PROVE s \in Asking
    <3>1. s \in Slots /\ wire'[s] # Idle
      BY <2>1 DEF Asking, Idle
    <3>2. Kept(s) /\ Unanswered(s)
      BY <1>3, <2>1, <3>1 DEF Reply
    <3>3. QED
      BY <2>1, <3>2 DEF Asking, Kept, Unanswered
  <2>2. q \in Asking' => step \in Open /\ wire[q].kind \in {"login", "refresh"}
    BY <1>3 DEF Reply, Kept, Asking
  <2>3. QED
    BY <1>3, <2>1, <2>2 DEF Reply
<1>4. wire' \in [Slots -> Requests \cup {Idle}]
  BY <1>3, AuthReplies
<1>5. /\ newest' \in [Accounts -> 0..MaxCalls] /\ grace' \in [Accounts -> 0..MaxCalls]
      /\ gone' \subseteq Customers /\ raced' \subseteq Accounts
  <2>1. CASE Passes(q) \/ Fails(q)
    BY <1>2, <2>1 DEF Passes, Fails
  <2>2. QED
    BY <2>1, AuthIsTyped, AuthStepIs
<1>6. CASE Asking' \subseteq Asking /\ issued' = issued
  <2>1. IsFiniteSet(Asking') /\ Cardinality(Asking') <= Cardinality(Asking)
    BY <1>2, <1>6, FS_Subset
  <2>2. Cardinality(Asking') \in Nat /\ Cardinality(Asking) \in Nat
    BY <1>2, <2>1, FS_CardinalityType
  <2>3. CountFact'
    BY <1>1, <1>2, <1>6, <2>1, <2>2 DEF CountFact
  <2>4. QED
    BY <1>1, <1>2, <1>4, <1>5, <1>6, <2>3 DEF TypeOK
<1>7. CASE /\ Asking' \subseteq Asking \ {q} /\ issued' = issued + 1
           /\ issued + 1 \in 1..MaxCalls
           /\ IsFiniteSet(Asking \ {q}) /\ issued + 1 + Cardinality(Asking \ {q}) <= calls
  <2>1. IsFiniteSet(Asking') /\ Cardinality(Asking') <= Cardinality(Asking \ {q})
    BY <1>7, FS_Subset
  <2>2. Cardinality(Asking') \in Nat /\ Cardinality(Asking \ {q}) \in Nat
    BY <1>7, <2>1, FS_CardinalityType
  <2>3. CountFact' /\ issued' \in 0..MaxCalls
    BY <1>1, <1>2, <1>7, <2>1, <2>2 DEF CountFact
  <2>4. QED
    BY <1>1, <1>2, <1>4, <1>5, <2>3 DEF TypeOK
<1>8. CASE Fails(q)
  <2>1. PICK step \in {"failed", "refused"} : Reply(q, step, wire[q].given, {})
    BY <1>8 DEF Fails
  <2>2. Asking' \subseteq Asking
    BY <1>3, <2>1 DEF Open
  <2>3. QED
    BY <1>6, <1>8, <2>2 DEF Fails
<1>9. CASE wire[q].step \in Open /\ Passes(q)
  <2>1. \E step, token, old : Reply(q, step, token, old)
    BY AuthReplies
  <2>2. Asking' \subseteq Asking
    BY <1>3, <1>9, <2>1 DEF Asking
  <2>3. QED
    BY <1>6, <1>9, <2>2 DEF Passes
<1>10. ASSUME NEW a \in Accounts, wire[q].step \in Open, Does(q, a)
       PROVE  TypeOK' /\ CountFact'
  <2>1. CASE Renews(q, a) \/ Issues(q, a)
    <3>1. /\ issued' = issued + 1 /\ wire[q].kind \in {"login", "refresh"}
          /\ \E token, old : Reply(q, "ok", token, old)
      BY <2>1 DEF Renews, Issues
    <3>2. wire[q] # Idle
      BY AuthStepIs
    <3>3. /\ issued + 1 \in 1..MaxCalls
          /\ IsFiniteSet(Asking \ {q}) /\ issued + 1 + Cardinality(Asking \ {q}) <= calls
      BY <1>10, <3>1, <3>2, AskingIsCounted
    <3>4. Asking' \subseteq Asking \ {q}
      BY <1>3, <3>1 DEF Open
    <3>5. QED
      BY <1>7, <3>1, <3>3, <3>4
  <2>2. CASE ~(Renews(q, a) \/ Issues(q, a))
    <3>1. issued' = issued
      BY <1>10, <2>2 DEF Does, Compares, Races, Keeps, Leaves, Revokes, Forgets
    <3>2. \E step, token, old : Reply(q, step, token, old)
      BY AuthReplies
    <3>3. Asking' \subseteq Asking
      BY <1>3, <1>10, <3>2 DEF Asking
    <3>4. QED
      BY <1>6, <3>1, <3>3
  <2>3. QED
    BY <2>1, <2>2
<1>11. QED
  BY <1>8, <1>9, <1>10, AuthStepIs

LEMMA AuthKeepsKinds ==
    ASSUME TypeOK, CountFact, KindFacts, TrustFacts, NameFacts, NEW q \in Slots, AuthStep(q)
    PROVE  KindFacts' /\ NameFacts'
<1>1. /\ wire[q] # Idle
      /\ UNCHANGED <<jar, access, user, crossed>>
  BY AuthStepIs, AuthStepLeaves
<1>2. PICK step, token, old :
        /\ Reply(q, step, token, old)
        /\ OfType(token.who, wire[q].type)
        /\ step \in {"left", "ended"} => wire[q].who # NoOne
        /\ wire[q].kind = "refresh" /\ step \in {"compared", "kept", "behind"}
           => wire[q].cookie \in RefreshTokens
        /\ wire[q].kind = "update" /\ step = "ok" => wire[q].who # NoOne
  BY AuthReplies
<1>3. \A p \in Types : OfType(out'[p], p)
  <2>1. out' = out \/ out' = [out EXCEPT ![wire[q].type] = wire[q].who]
    BY AuthStepLeaves
  <2>2. OfType(wire[q].who, wire[q].type) /\ \A p \in Types : OfType(out[p], p)
    BY <1>1 DEF KindFacts
  <2>3. out \in [Types -> Accounts \cup {NoOne}]
    BY DEF TypeOK
  <2>4. QED
    BY <2>1, <2>2, <2>3
<1>4. /\ Kept(q) /\ wire'[q].step = step /\ wire'[q].given = token
      /\ \A s \in Slots \ {q} : wire'[s] # Idle => Kept(s) /\ Unanswered(s)
  BY <1>2 DEF Reply
<1>5. ASSUME NEW s \in Slots, wire'[s] # Idle
      PROVE  /\ OfType(wire'[s].who, wire'[s].type) /\ OfType(wire'[s].cookie.who, wire'[s].type)
             /\ OfType(wire'[s].given.who, wire'[s].type)
             /\ wire'[s].kind \in {"password", "withdraw", "update"} => wire'[s].type = "USER"
             /\ wire'[s].clears => wire'[s].type = "ADMIN"
             /\ wire'[s].kind = "login" => wire'[s].who # NoOne
             /\ StepFact(s)'
  <2>1. CASE s = q
    <3>1. StepFact(q)'
      BY <1>2, <1>4 DEF StepFact, Kept
    <3>2. QED
      BY <1>1, <1>2, <1>4, <2>1, <3>1 DEF KindFacts, Kept
  <2>2. CASE s # q
    <3>1. Kept(s) /\ Unanswered(s)
      BY <1>4, <1>5, <2>2
    <3>2. StepFact(s)'
      BY <3>1 DEF KindFacts, StepFact, Kept, Unanswered
    <3>3. QED
      BY <3>1, <3>2 DEF KindFacts, Kept, Unanswered
  <2>3. QED
    BY <2>1, <2>2
<1>6. KindFacts'
  BY <1>1, <1>3, <1>5 DEF KindFacts
<1>7. ASSUME NEW s \in Slots, wire'[s] # Idle, wire'[s].kind = "update"
      PROVE  /\ wire'[s].step = "ok" => wire'[s].who # NoOne
             /\ wire'[s].heard /\ wire'[s].who # NoOne /\ wire'[s].tab \notin crossed'
                => wire'[s].who = access'[wire'[s].tab]["USER"]
  <2>1. CASE s = q
    BY <1>1, <1>2, <1>4, <1>7, <2>1 DEF NameFacts, Kept
  <2>2. CASE s # q
    BY <1>1, <1>4, <1>7, <2>2 DEF NameFacts, Kept, Unanswered
  <2>3. QED
    BY <2>1, <2>2
<1>8. NameFacts'
  BY <1>1, <1>7 DEF NameFacts, NameIsOfToken
<1>9. QED
  BY <1>6, <1>8

\* A renewal that has compared its token of an account where nothing raced is the only
\* one of that account.
LEMMA AuthKeepsRace ==
    ASSUME TypeOK, CountFact, KindFacts, RaceFacts, TrustFacts, NEW q \in Slots, AuthStep(q)
    PROVE  RaceFacts'
<1> SUFFICES ASSUME NEW b \in Accounts, b \notin raced'
             PROVE  /\ \A s \in Renewing(b)' :
                         /\ newest'[b] = wire'[s].cookie.n
                         /\ wire'[s].step = "kept" => grace'[b] = wire'[s].cookie.n
                    /\ \A s, r \in Renewing(b)' : s = r
  BY DEF RaceFacts
<1>1. ASSUME NEW step, NEW token, NEW old, Reply(q, step, token, old)
      PROVE  /\ wire'[q].cookie = wire[q].cookie /\ wire'[q].step = step
             /\ \A s \in Renewing(b)' : s # q =>
                  /\ s \in Renewing(b)
                  /\ wire'[s].cookie = wire[s].cookie /\ wire'[s].step = wire[s].step
             /\ q \in Renewing(b)' => /\ wire[q].kind = "refresh" /\ wire[q].cookie.who = b
                                      /\ step \in {"compared", "kept"}
  BY <1>1, ReplyRenewing
<1>2. ASSUME b \notin raced, newest'[b] = newest[b], q \notin Renewing(b)',
             \/ grace'[b] = grace[b]
             \/ ~TooSlow(b)
      PROVE  /\ \A s \in Renewing(b)' :
                  /\ newest'[b] = wire'[s].cookie.n
                  /\ wire'[s].step = "kept" => grace'[b] = wire'[s].cookie.n
             /\ \A s, r \in Renewing(b)' : s = r
  <2>1. \A s \in Renewing(b)' : /\ s \in Renewing(b) /\ wire'[s].cookie = wire[s].cookie
                                /\ wire'[s].step = wire[s].step
    BY <1>1, <1>2, AuthReplies
  <2>2. /\ \A s \in Renewing(b) : /\ newest[b] = wire[s].cookie.n
                                  /\ wire[s].step = "kept" => grace[b] = wire[s].cookie.n
        /\ \A s, r \in Renewing(b) : s = r
    BY <1>2 DEF RaceFacts
  <2>3. \A s \in Renewing(b) : wire[s].step = "kept" => grace'[b] = grace[b]
    BY <1>2 DEF TooSlow
  <2>4. QED
    BY <1>2, <2>1, <2>2, <2>3
<1>3. CASE Passes(q)
  <2>1. PICK step, token : Reply(q, step, token, {})
                           /\ step \in {"compared", "behind", "ok", "refused"}
                           /\ (step = "compared" => wire[q].kind = "login")
    BY <1>3 DEF Passes
  <2>2. q \notin Renewing(b)'
    BY <1>1, <2>1
  <2>3. QED
    BY <1>2, <1>3, <2>2 DEF Passes
<1>4. CASE Fails(q)
  <2>1. q \notin Renewing(b)'
    BY <1>1, <1>4 DEF Fails
  <2>2. QED
    BY <1>2, <1>4, <2>1 DEF Fails
<1>5. ASSUME NEW a \in Accounts, Does(q, a), b # a
      PROVE  /\ \A s \in Renewing(b)' :
                  /\ newest'[b] = wire'[s].cookie.n
                  /\ wire'[s].step = "kept" => grace'[b] = wire'[s].cookie.n
             /\ \A s, r \in Renewing(b)' : s = r
  <2>1. /\ newest'[b] = newest[b] /\ grace'[b] = grace[b]
        /\ b \notin raced
    BY <1>5, DoesTouch
  <2>2. wire[q].kind = "refresh" => wire[q].cookie.who = a
    BY <1>5 DEF Does, Compares, Races, Keeps, Renews, Issues, Leaves, Revokes, Forgets
  <2>3. q \notin Renewing(b)'
    BY <1>1, <1>5, <2>2, AuthReplies
  <2>4. QED
    BY <1>2, <2>1, <2>3
<1>6. ASSUME Compares(q, b)
      PROVE  /\ \A s \in Renewing(b)' :
                  /\ newest'[b] = wire'[s].cookie.n
                  /\ wire'[s].step = "kept" => grace'[b] = wire'[s].cookie.n
             /\ \A s, r \in Renewing(b)' : s = r
  <2>1. /\ Reply(q, "compared", NoToken, {}) /\ Renewing(b) = {}
        /\ newest'[b] = wire[q].cookie.n
    BY <1>6 DEF Compares
  <2>2. /\ wire'[q].cookie = wire[q].cookie /\ wire'[q].step = "compared"
        /\ \A s \in Renewing(b)' : s = q
    BY <1>1, <2>1
  <2>3. QED
    BY <2>1, <2>2
<1>7. ~Races(q, b)
  BY DEF Races
<1>8. ASSUME Keeps(q, b)
      PROVE  /\ \A s \in Renewing(b)' :
                  /\ newest'[b] = wire'[s].cookie.n
                  /\ wire'[s].step = "kept" => grace'[b] = wire'[s].cookie.n
             /\ \A s, r \in Renewing(b)' : s = r
  <2>1. /\ q \in Renewing(b) /\ b \notin raced
        /\ newest'[b] = newest[b] /\ grace' = [grace EXCEPT ![b] = wire[q].cookie.n]
        /\ Reply(q, "kept", NoToken, {[who |-> b, n |-> grace[b]]} \ {wire[q].cookie})
    BY <1>8 DEF Keeps, Renewing
  <2>2. newest[b] = wire[q].cookie.n /\ \A s \in Renewing(b) : s = q
    BY <2>1 DEF RaceFacts
  <2>3. grace'[b] = wire[q].cookie.n
    BY <2>1 DEF TypeOK
  <2>4. wire'[q].cookie = wire[q].cookie /\ \A s \in Renewing(b)' : s = q
    BY <1>1, <2>1, <2>2
  <2>5. QED
    BY <2>1, <2>2, <2>3, <2>4
<1>9. ASSUME Renews(q, b) \/ Issues(q, b) \/ Revokes(q, b) PROVE Renewing(b)' = {}
  <2>1. \A s \in Renewing(b) : s = q
    <3>1. CASE Renews(q, b)
      <4>1. q \in Renewing(b) /\ b \notin raced
        BY <3>1 DEF Renews, Renewing
      <4>2. QED
        BY <4>1 DEF RaceFacts
    <3>2. CASE Issues(q, b) \/ Revokes(q, b)
      BY <3>2, SettlesIs DEF Issues, Revokes
    <3>3. QED
      BY <1>9, <3>1, <3>2
  <2>2. \E step, token, old : /\ Reply(q, step, token, old)
                              /\ wire[q].kind # "refresh" \/ step = "ok"
    BY <1>9 DEF Renews, Issues, Revokes
  <2>3. QED
    BY <1>1, <2>1, <2>2
<1>10. ASSUME Leaves(q, b) \/ Forgets(q, b)
       PROVE  /\ \A s \in Renewing(b)' :
                   /\ newest'[b] = wire'[s].cookie.n
                   /\ wire'[s].step = "kept" => grace'[b] = wire'[s].cookie.n
              /\ \A s, r \in Renewing(b)' : s = r
  <2>1. /\ b \notin raced /\ newest'[b] = newest[b] /\ wire[q].kind # "refresh"
        /\ grace'[b] = grace[b] \/ ~TooSlow(b)
    BY <1>10 DEF Leaves, Forgets
  <2>2. q \notin Renewing(b)'
    BY <1>1, <2>1, AuthReplies
  <2>3. QED
    BY <1>2, <2>1, <2>2
<1>11. ASSUME NEW a \in Accounts, Does(q, a), b = a
       PROVE  /\ \A s \in Renewing(b)' :
                   /\ newest'[b] = wire'[s].cookie.n
                   /\ wire'[s].step = "kept" => grace'[b] = wire'[s].cookie.n
              /\ \A s, r \in Renewing(b)' : s = r
  BY <1>6, <1>7, <1>8, <1>9, <1>10, <1>11 DEF Does
<1>12. QED
  BY <1>3, <1>4, <1>5, <1>11, AuthStepIs

LEMMA AuthKeepsOut ==
    ASSUME TypeOK, CountFact, KindFacts, RaceFacts, OutFacts, TrustFacts,
           NEW q \in Slots, AuthStep(q)
    PROVE  OutFacts'
<1>1. wire[q] # Idle /\ wire[q].type \in Types
  BY AuthStepIs, FieldsAreTyped
<1>2. newest \in [Accounts -> 0..MaxCalls] /\ out \in [Types -> Accounts \cup {NoOne}]
  BY DEF TypeOK
<1>3. PICK step, token, old : Reply(q, step, token, old)
  BY AuthReplies
<1>4. \A s \in Slots : wire'[s] # Idle =>
        wire[s] # Idle /\ wire'[s].kind = wire[s].kind /\ wire'[s].type = wire[s].type
  BY <1>3 DEF Reply, Kept
<1>5. ASSUME NEW p \in Types, \A s \in Slots : wire[s].kind = "login" => wire[s].type # p
      PROVE  \A s \in Slots : wire'[s].kind = "login" => wire'[s].type # p
  BY <1>4, <1>5 DEF Idle
<1> SUFFICES ASSUME NEW p \in Types, out'[p] # NoOne
             PROVE  /\ out'[p] \notin raced' => newest'[out'[p]] = 0
                    /\ \A s \in Slots : wire'[s].kind = "login" => wire'[s].type # p
  BY DEF OutFacts, InFlight
<1>6. CASE out'[p] = out[p]
  <2>1. PICK o \in Accounts : o = out[p]
    BY <1>2, <1>6
  <2>2. /\ o \notin raced => newest[o] = 0
        /\ OfType(o, p)
        /\ \A s \in Slots : wire[s].kind = "login" => wire[s].type # p
    BY <1>6, <2>1, NoOneAssumption DEF OutFacts, InFlight, KindFacts
  <2>3. ASSUME o \notin raced' PROVE newest'[o] = 0
    <3>1. CASE Passes(q) \/ Fails(q)
      BY <2>2, <2>3, <3>1 DEF Passes, Fails
    <3>2. ASSUME NEW a \in Accounts, Does(q, a), o # a PROVE newest'[o] = 0
      BY <2>2, <2>3, <3>2, DoesTouch
    <3>3. CASE Compares(q, o) \/ Keeps(q, o) \/ Leaves(q, o)
      BY <2>2, <2>3, <3>3 DEF Compares, Keeps, Leaves
    <3>4. ~Races(q, o)
      BY <2>3 DEF Races
    <3>5. ~Renews(q, o)
      <4>1. ASSUME Renews(q, o) PROVE FALSE
        <5>1. /\ q \in Renewing(o) /\ o \notin raced
              /\ wire[q].cookie \in RefreshTokens
          BY <2>3, <4>1 DEF Renews, Renewing
        <5>2. newest[o] = wire[q].cookie.n /\ wire[q].cookie.n # 0
          BY <5>1, TokensAreTyped DEF RaceFacts
        <5>3. QED
          BY <2>2, <5>1, <5>2
      <4>2. QED
        BY <4>1
    <3>6. ~Issues(q, o)
      <4>1. ASSUME Issues(q, o) PROVE FALSE
        <5>1. wire[q].kind = "login" /\ OfType(o, wire[q].type)
          BY <1>1, <4>1 DEF Issues, KindFacts
        <5>2. wire[q].type # p /\ o \in Of(p) /\ o \in Of(wire[q].type)
          BY <2>1, <2>2, <5>1, NoOneAssumption DEF OfType
        <5>3. QED
          BY <1>1, <5>2, TokensAreTyped
      <4>2. QED
        BY <4>1
    <3>7. CASE Revokes(q, o)
      BY <1>2, <3>7 DEF Revokes
    <3>8. CASE Forgets(q, o)
      BY <2>2, <2>3, <3>8 DEF Forgets
    <3>9. ASSUME NEW a \in Accounts, Does(q, a), o = a PROVE newest'[o] = 0
      BY <3>3, <3>4, <3>5, <3>6, <3>7, <3>8, <3>9 DEF Does
    <3>10. QED
      BY <3>1, <3>2, <3>9, AuthStepIs
  <2>4. QED
    BY <1>5, <1>6, <2>1, <2>2, <2>3
<1>7. CASE out'[p] # out[p]
  <2>1. /\ wire'[q].step = "ended"
        /\ InFlight({"login"}, wire[q].type) = {}
        /\ out' = [out EXCEPT ![wire[q].type] = wire[q].who]
    BY <1>7, AuthStepLeaves
  <2>2. p = wire[q].type /\ out'[p] = wire[q].who
    BY <1>2, <1>7, <2>1
  <2>3. newest'[wire[q].who] = 0
    <3>1. ~Passes(q) /\ ~Fails(q)
      BY <2>1 DEF Passes, Fails, Reply
    <3>2. ASSUME NEW a \in Accounts, Does(q, a) PROVE Revokes(q, a)
      BY <2>1, <3>2 DEF Does, Compares, Races, Keeps, Renews, Issues, Leaves, Forgets, Reply
    <3>3. ASSUME NEW a \in Accounts, Revokes(q, a) PROVE newest'[wire[q].who] = 0
      BY <1>2, <3>3 DEF Revokes
    <3>4. QED
      BY <3>1, <3>2, <3>3, AuthStepIs
  <2>4. \A s \in Slots : wire[s].kind = "login" => wire[s].type # p
    BY <2>1, <2>2 DEF InFlight
  <2>5. QED
    BY <1>5, <2>2, <2>3, <2>4
<1>8. QED
  BY <1>6, <1>7

\* A token of account b that is taken, or in its grace period, stays so, if the requests
\* sent with it are still trusted.
LEMMA GoodStaysGood ==
    ASSUME TypeOK, RaceFacts, NEW q \in Slots, NEW a \in Accounts, Does(q, a),
           NEW c \in RefreshTokens, NEW b \in Accounts, b = c.who, b \notin raced \cup gone,
           \A step, token, old : Reply(q, step, token, old) => c \notin old
    PROVE  /\ b \notin raced' \cup gone'
           /\ newest[b] = c.n \/ (grace[b] = c.n /\ newest[b] # 0)
              => newest'[b] = c.n \/ (grace'[b] = c.n /\ newest'[b] # 0)
           /\ grace[b] = c.n => grace'[b] = c.n
<1>1. /\ newest \in [Accounts -> 0..MaxCalls] /\ grace \in [Accounts -> 0..MaxCalls]
      /\ issued \in Nat /\ c.n # 0 /\ c = [who |-> b, n |-> c.n]
  BY TokensAreTyped DEF TypeOK, RefreshTokens
<1>2. CASE b # a
  <2>1. /\ newest'[b] = newest[b] /\ grace'[b] = grace[b]
        /\ b \in raced' <=> b \in raced
        /\ b \in gone' <=> b \in gone
    BY <1>2, DoesTouch
  <2>2. QED
    BY <2>1
<1>3. CASE b = a
  <2>1. c \in TokensOf(a)
    BY <1>3 DEF TokensOf
  <2>2. ~Races(q, a) /\ ~Issues(q, a) /\ ~Leaves(q, a) /\ ~Revokes(q, a) /\ ~Forgets(q, a)
    BY <2>1 DEF Races, Issues, Leaves, Revokes, Forgets
  <2>3. CASE Compares(q, a)
    BY <2>3 DEF Compares
  <2>4. ASSUME Keeps(q, a) \/ Renews(q, a)
        PROVE  /\ newest[a] = wire[q].cookie.n
               /\ Renews(q, a) => grace[a] = wire[q].cookie.n
    <3>1. q \in Renewing(a) /\ a \notin raced
      BY <1>3, <2>4 DEF Keeps, Renews, Renewing
    <3>2. QED
      BY <3>1 DEF RaceFacts, Renews
  <2>5. CASE Keeps(q, a)
    <3>1. /\ newest' = newest /\ gone' = gone /\ raced' = raced
          /\ grace'[a] = wire[q].cookie.n
          /\ c \notin {[who |-> a, n |-> grace[a]]} \ {wire[q].cookie}
      BY <1>1, <2>5 DEF Keeps
    <3>2. grace[b] = c.n => c = wire[q].cookie
      BY <1>1, <1>3, <3>1
    <3>3. QED
      BY <1>3, <3>1, <3>2
  <2>6. CASE Renews(q, a)
    <3>1. /\ newest'[a] = issued + 1 /\ UNCHANGED <<grace, gone, raced>>
      BY <1>1, <2>6 DEF Renews
    <3>2. newest'[a] # 0
      BY <1>1, <3>1
    <3>3. QED
      BY <1>3, <2>4, <2>6, <3>1, <3>2
  <2>7. QED
    BY <2>2, <2>3, <2>5, <2>6 DEF Does
<1>4. QED
  BY <1>2, <1>3

LEMMA AuthKeepsTrust ==
    ASSUME TypeOK, CountFact, KindFacts, RaceFacts, TrustFacts, NEW q \in Slots, AuthStep(q)
    PROVE  TrustFacts'
<1>1. needless' = needless /\ (faults > 0 => faults' > 0)
  BY AuthStepLeaves
<1>2. ASSUME NEW s \in Slots, s # q, wire'[s] # Idle, wire'[s].trusted
      PROVE  TrustFact(s)'
  <2>1. \A step, token, old : Reply(q, step, token, old) => wire[s].cookie \notin old
    BY <1>2 DEF Reply
  <2>2. /\ wire[s] # Idle /\ wire[s].trusted /\ wire'[s].kind = wire[s].kind
        /\ wire'[s].step = wire[s].step /\ wire'[s].cookie = wire[s].cookie
    BY <1>2, AuthReplies DEF Reply, Kept, Unanswered
  <2>3. TrustFact(s)
    BY <2>2 DEF TrustFacts
  <2>4. CASE wire[s].step \notin {"sent", "behind"}
    BY <1>1, <2>2, <2>3, <2>4 DEF TrustFact
  <2>5. CASE wire[s].step \in {"sent", "behind"}
    <3>1. wire[s].cookie \in RefreshTokens
      <4>1. wire[s].cookie \in RefreshTokens \cup {NoToken}
        BY <2>2, FieldsAreTyped
      <4>2. wire[s].cookie.n # 0
        BY <2>3, <2>5 DEF TrustFact, Taken, InGrace
      <4>3. QED
        BY <4>1, <4>2, TokensAreTyped
    <3>2. PICK c \in RefreshTokens : c = wire[s].cookie
      BY <3>1
    <3>3. PICK b \in Accounts : b = c.who
      BY TokensAreTyped
    <3>4. /\ b \notin raced \cup gone /\ c.n # 0
          /\ wire[s].step = "sent" => newest[b] = c.n \/ (grace[b] = c.n /\ newest[b] # 0)
          /\ wire[s].step = "behind" => grace[b] = c.n
      BY <2>3, <2>5, <3>2, <3>3 DEF TrustFact, Taken, IsNewest, InGrace
    <3>5. ASSUME /\ b \notin raced' \cup gone'
                 /\ newest[b] = c.n \/ (grace[b] = c.n /\ newest[b] # 0)
                    => newest'[b] = c.n \/ (grace'[b] = c.n /\ newest'[b] # 0)
                 /\ grace[b] = c.n => grace'[b] = c.n
          PROVE  TrustFact(s)'
      BY <2>2, <2>3, <2>5, <3>2, <3>3, <3>4, <3>5 DEF TrustFact, Taken, IsNewest, InGrace
    <3>6. CASE Passes(q) \/ Fails(q)
      BY <3>4, <3>5, <3>6 DEF Passes, Fails
    <3>7. ASSUME NEW a \in Accounts, Does(q, a) PROVE TrustFact(s)'
      BY <2>1, <3>2, <3>3, <3>4, <3>5, <3>7, GoodStaysGood
    <3>8. QED
      BY <3>6, <3>7, AuthStepIs
  <2>6. QED
    BY <2>4, <2>5
<1>3. ASSUME wire'[q].trusted PROVE TrustFact(q)'
  <2>1. /\ wire[q] # Idle /\ wire[q].trusted /\ wire'[q].kind = wire[q].kind
        /\ wire'[q].cookie = wire[q].cookie
    BY <1>3, AuthReplies DEF Reply, Kept
  <2>2. TrustFact(q)
    BY <2>1 DEF TrustFacts
  <2>3. CASE Passes(q)
    <3>1. PICK step, token :
            /\ Reply(q, step, token, {})
            /\ step \in {"compared", "behind", "ok", "refused"}
            /\ step = "compared" => wire[q].kind = "login"
            /\ step = "behind" => wire[q].step = "sent" /\ ~IsNewest(wire[q].cookie)
            /\ step = "refused" => ~wire[q].trusted
      BY <2>3 DEF Passes
    <3>2. wire'[q].step = step
      BY <3>1 DEF Reply
    <3>3. CASE step = "ok"
      BY <2>1, <2>2, <3>2, <3>3 DEF TrustFact
    <3>4. CASE step = "behind"
      <4>1. /\ wire[q].cookie.who \notin raced \cup gone
            /\ InGrace(wire[q].cookie)
        BY <2>2, <3>1, <3>4 DEF TrustFact, Taken
      <4>2. UNCHANGED <<newest, grace, gone, raced>>
        BY <2>3 DEF Passes
      <4>3. QED
        BY <2>1, <2>2, <3>2, <3>4, <4>1, <4>2 DEF TrustFact, InGrace
    <3>5. QED
      BY <2>1, <2>2, <3>1, <3>3, <3>4 DEF TrustFact
  <2>4. CASE Fails(q)
    <3>1. wire'[q].step \in {"failed", "refused"} /\ faults' > 0
      BY <2>4 DEF Fails, Reply
    <3>2. QED
      BY <2>1, <2>2, <3>1 DEF TrustFact
  <2>5. ASSUME NEW a \in Accounts, Does(q, a) PROVE TrustFact(q)'
    <3>1. wire'[q].step \in {"compared", "kept", "ok", "left", "ended"}
      BY <2>5 DEF Does, Compares, Races, Keeps, Renews, Issues, Leaves, Revokes, Forgets, Reply
    <3>2. QED
      BY <2>1, <2>2, <3>1 DEF TrustFact
  <2>6. QED
    BY <2>3, <2>4, <2>5, AuthStepIs
<1>4. needless' => faults' > 0
  BY <1>1 DEF TrustFacts
<1>5. QED
  BY <1>2, <1>3, <1>4 DEF TrustFacts

LEMMA AuthKeepsInv ==
    ASSUME IInv, NEW q \in Slots, AuthStep(q)
    PROVE  IInv'
<1>1. TypeOK' /\ CountFact'
  BY AuthKeepsType DEF IInv
<1>2. KindFacts' /\ NameFacts'
  BY AuthKeepsKinds DEF IInv
<1>3. RaceFacts' /\ OutFacts'
  BY AuthKeepsRace, AuthKeepsOut DEF IInv
<1>4. TrustFacts'
  BY AuthKeepsTrust DEF IInv
<1>5. QED
  BY <1>1, <1>2, <1>3, <1>4 DEF IInv

LEMMA TabsKeepInv ==
    ASSUME IInv, TabStep
    PROVE  IInv'
<1>1. TypeOK' /\ TrustFacts'
  BY TabsKeepType, TabsKeepTrust DEF IInv
<1>2. CountFact'
  BY TabsKeepCount DEF IInv
<1>3. KindFacts'
  BY TabsKeepKinds DEF IInv
<1>4. RaceFacts' /\ OutFacts'
  BY TabsKeepRace, TabsKeepOut DEF IInv
<1>5. NameFacts'
  BY TabsKeepNames DEF IInv
<1>6. QED
  BY <1>1, <1>2, <1>3, <1>4, <1>5 DEF IInv

\* The token in its grace period goes, and the requests sent with it are trusted no
\* longer; all of the account's, if a renewal has kept that token and stored no new one.
LEMMA GraceEndsKeepsInv ==
    ASSUME IInv, NEW a \in Accounts, GraceEnds(a)
    PROVE  IInv'
<1>1. TypeOK /\ CountFact /\ KindFacts /\ RaceFacts /\ OutFacts /\ TrustFacts /\ NameFacts
  BY DEF IInv
<1> DEFINE old == IF TooSlow(a) THEN TokensOf(a) ELSE {[who |-> a, n |-> grace[a]]}
<1>2. /\ grace' = [grace EXCEPT ![a] = 0] /\ wire' = Distrust(old)
      /\ raced' = IF TooSlow(a) THEN raced \cup {a} ELSE raced
      /\ UNCHANGED <<newest, gone, issued, jar, access, fresh, user, page, calls, faults>>
      /\ UNCHANGED <<out, crossed, needless>>
  BY DEF GraceEnds, storeVars, history
<1>3. \/ TooSlow(a) /\ old = TokensOf(a) /\ raced' = raced \cup {a}
      \/ ~TooSlow(a) /\ old = {[who |-> a, n |-> grace[a]]} /\ raced' = raced
  BY <1>2
<1> HIDE DEF old
<1>4. grace \in [Accounts -> 0..MaxCalls] /\ 0 \in 0..MaxCalls /\ raced \subseteq Accounts
  BY <1>1, TokensAssumption DEF TypeOK
<1>5. /\ grace' \in [Accounts -> 0..MaxCalls] /\ grace'[a] = 0 /\ raced \subseteq raced'
      /\ \A b \in Accounts \ {a} : grace'[b] = grace[b] /\ (b \in raced' <=> b \in raced)
  BY <1>2, <1>3, <1>4
<1>6. ASSUME NEW s \in Slots, wire'[s] # Idle
      PROVE  /\ Kept(s) /\ Unanswered(s)
             /\ wire'[s].heard = wire[s].heard /\ wire'[s].clears = wire[s].clears
             /\ wire'[s].trusted => wire[s].cookie \notin old
  BY <1>1, <1>2, <1>6, DistrustIs DEF Kept, Unanswered
<1>7. wire' \in [Slots -> Requests \cup {Idle}]
  <2>1. wire' = [s \in Slots |-> wire'[s]]
    BY <1>2 DEF Distrust
  <2>2. \A s \in Slots : wire'[s] \in Requests \cup {Idle}
    BY <1>1, <1>2, DistrustIs
  <2>3. QED
    BY <2>1, <2>2
<1>8. TypeOK'
  BY <1>1, <1>2, <1>3, <1>4, <1>5, <1>7 DEF TypeOK
<1>9. CountFact'
  <2>1. ASSUME NEW s \in Asking' PROVE s \in Asking
    <3>1. s \in Slots /\ wire'[s] # Idle
      BY <2>1 DEF Asking, Idle
    <3>2. QED
      BY <1>6, <2>1, <3>1 DEF Asking, Kept, Unanswered
  <2>2. IsFiniteSet(Asking) /\ issued + Cardinality(Asking) <= calls
    BY <1>1 DEF CountFact
  <2>3. IsFiniteSet(Asking') /\ Cardinality(Asking') <= Cardinality(Asking)
    BY <2>1, <2>2, FS_Subset
  <2>4. Cardinality(Asking') \in Nat /\ Cardinality(Asking) \in Nat
    BY <2>2, <2>3, FS_CardinalityType
  <2>5. issued \in Nat /\ calls \in Nat
    BY <1>1 DEF TypeOK
  <2>6. QED
    BY <1>2, <2>2, <2>3, <2>4, <2>5 DEF CountFact
<1>10. KindFacts'
  <2>1. ASSUME NEW s \in Slots, wire'[s] # Idle
        PROVE  /\ OfType(wire'[s].who, wire'[s].type) /\ OfType(wire'[s].cookie.who, wire'[s].type)
               /\ OfType(wire'[s].given.who, wire'[s].type)
               /\ wire'[s].kind \in {"password", "withdraw", "update"} => wire'[s].type = "USER"
               /\ wire'[s].clears => wire'[s].type = "ADMIN"
               /\ wire'[s].kind = "login" => wire'[s].who # NoOne
               /\ StepFact(s)'
    <3>1. Kept(s) /\ Unanswered(s)
      BY <1>6, <2>1
    <3>2. StepFact(s)'
      BY <1>1, <3>1 DEF KindFacts, StepFact, Kept, Unanswered
    <3>3. QED
      BY <1>1, <3>1, <3>2 DEF KindFacts, Kept, Unanswered
  <2>2. QED
    BY <1>1, <1>2, <2>1 DEF KindFacts
<1>11. RaceFacts'
  <2> SUFFICES ASSUME NEW b \in Accounts, b \notin raced'
               PROVE  /\ \A s \in Renewing(b)' :
                           /\ newest'[b] = wire'[s].cookie.n
                           /\ wire'[s].step = "kept" => grace'[b] = wire'[s].cookie.n
                      /\ \A s, r \in Renewing(b)' : s = r
    BY DEF RaceFacts
  <2>1. ASSUME NEW s \in Renewing(b)'
        PROVE  /\ s \in Renewing(b)
               /\ wire'[s].cookie = wire[s].cookie /\ wire'[s].step = wire[s].step
    <3>1. s \in Slots /\ wire'[s] # Idle
      BY <2>1 DEF Renewing, Idle
    <3>2. QED
      BY <1>6, <2>1, <3>1 DEF Renewing, Kept, Unanswered
  <2>2. /\ b \notin raced /\ newest'[b] = newest[b]
        /\ b = a => ~TooSlow(a)
    BY <1>2, <1>3, <1>5
  <2>3. /\ \A s \in Renewing(b) : /\ newest[b] = wire[s].cookie.n
                                  /\ wire[s].step = "kept" => grace[b] = wire[s].cookie.n
        /\ \A s, r \in Renewing(b) : s = r
    BY <1>1, <2>2 DEF RaceFacts
  <2>4. \A s \in Renewing(b) : wire[s].step = "kept" => grace'[b] = grace[b]
    BY <1>5, <2>2 DEF TooSlow
  <2>5. QED
    BY <2>1, <2>2, <2>3, <2>4
<1>12. OutFacts'
  <2>1. \A s \in Slots : wire'[s].kind = "login" =>
                          wire[s].kind = "login" /\ wire'[s].type = wire[s].type
    BY <1>6 DEF Idle, Kept
  <2>2. QED
    BY <1>1, <1>2, <1>5, <2>1 DEF OutFacts, InFlight
<1>13. TrustFacts'
  <2>1. ASSUME NEW s \in Slots, wire'[s] # Idle, wire'[s].trusted PROVE TrustFact(s)'
    <3>1. /\ wire[s] # Idle /\ wire[s].trusted /\ wire'[s].kind = wire[s].kind
          /\ wire'[s].step = wire[s].step /\ wire'[s].cookie = wire[s].cookie
          /\ wire[s].cookie \notin old
      BY <1>6, <2>1 DEF Kept, Unanswered
    <3>2. TrustFact(s)
      BY <1>1, <3>1 DEF TrustFacts
    <3>3. CASE wire[s].step \notin {"sent", "behind"}
      BY <1>2, <3>1, <3>2, <3>3 DEF TrustFact
    <3>4. CASE wire[s].step \in {"sent", "behind"}
      <4>1. wire[s].cookie \in RefreshTokens
        <5>1. wire[s].cookie \in RefreshTokens \cup {NoToken}
          BY <1>1, <3>1, FieldsAreTyped
        <5>2. wire[s].cookie.n # 0
          BY <3>2, <3>4 DEF TrustFact, Taken, InGrace
        <5>3. QED
          BY <5>1, <5>2, TokensAreTyped
      <4>2. PICK c \in RefreshTokens : c = wire[s].cookie
        BY <4>1
      <4>3. PICK b \in Accounts : b = c.who
        BY TokensAreTyped
      <4>4. c = [who |-> b, n |-> c.n] /\ c \in TokensOf(b)
        BY <4>3 DEF RefreshTokens, TokensOf
      <4>5. /\ b \notin raced \cup gone
            /\ wire[s].step = "sent" => newest[b] = c.n \/ (grace[b] = c.n /\ newest[b] # 0)
            /\ wire[s].step = "behind" => grace[b] = c.n
            /\ c.n # 0
        BY <3>2, <3>4, <4>2, <4>3 DEF TrustFact, Taken, IsNewest, InGrace
      <4>6. b = a => raced' = raced /\ grace[a] # c.n
        BY <1>3, <3>1, <4>2, <4>4
      <4>7. b \notin raced' \cup gone' /\ (grace[b] = c.n => grace'[b] = c.n)
        BY <1>2, <1>5, <4>5, <4>6
      <4>8. QED
        BY <1>2, <3>1, <3>2, <3>4, <4>2, <4>3, <4>5, <4>7 DEF TrustFact, Taken, IsNewest, InGrace
    <3>5. QED
      BY <3>3, <3>4
  <2>2. QED
    BY <1>1, <1>2, <2>1 DEF TrustFacts
<1>14. NameFacts'
  <2>1. \A s \in Slots : wire'[s] # Idle /\ wire'[s].kind = "update" =>
          /\ wire'[s].step = "ok" => wire'[s].who # NoOne
          /\ wire'[s].heard /\ wire'[s].who # NoOne /\ wire'[s].tab \notin crossed'
             => wire'[s].who = access'[wire'[s].tab]["USER"]
    BY <1>1, <1>2, <1>6 DEF NameFacts, Kept, Unanswered
  <2>2. QED
    BY <1>1, <1>2, <2>1 DEF NameFacts, NameIsOfToken
<1>15. QED
  BY <1>8, <1>9, <1>10, <1>11, <1>12, <1>13, <1>14 DEF IInv

-----------------------------------------------------------------------------
\* The theorems

LEMMA StartsWell == ASSUME Init PROVE IInv
<1>1. 0 \in 0..MaxCalls /\ 0 \in 0..MaxFaults
  BY TokensAssumption
<1>2. TypeOK
  BY <1>1, TokensAreTyped DEF Init, TypeOK, EachType
<1>3. CountFact
  <2>1. Asking = {}
    BY DEF Init, Asking, Idle
  <2>2. IsFiniteSet({}) /\ Cardinality({}) = 0
    BY FS_EmptySet
  <2>3. issued = 0 /\ calls = 0
    BY DEF Init
  <2>4. QED
    BY <2>1, <2>2, <2>3 DEF CountFact
<1>4. KindFacts
  BY TokensAreTyped DEF Init, KindFacts, OfType, EachType
<1>5. OutFacts /\ NameFacts
  BY DEF Init, OutFacts, NameFacts, NameIsOfToken, EachType, Types
<1>6. RaceFacts
  <2>1. \A a \in Accounts : Renewing(a) = {}
    BY DEF Init, Renewing, Idle
  <2>2. QED
    BY <2>1 DEF RaceFacts
<1>7. TrustFacts
  BY DEF Init, TrustFacts
<1>8. QED
  BY <1>2, <1>3, <1>4, <1>5, <1>6, <1>7 DEF IInv

LEMMA StepsKeepInv == ASSUME IInv, [Next]_vars PROVE IInv'
<1>1. CASE UNCHANGED vars
  <2>1. UNCHANGED <<newest, grace, gone, issued, raced, jar, access, fresh, user, page, wire,
                    calls, faults, out, crossed, needless>>
    BY <1>1 DEF vars, authVars, storeVars, history
  <2>2. TypeOK /\ CountFact /\ KindFacts /\ RaceFacts /\ OutFacts /\ TrustFacts /\ NameFacts
    BY DEF IInv
  <2>3. TypeOK' /\ CountFact'
    BY <2>1, <2>2 DEF TypeOK, CountFact, Asking
  <2>4. KindFacts' /\ NameFacts'
    BY <2>1, <2>2 DEF KindFacts, StepFact, NameFacts, NameIsOfToken
  <2>5. RaceFacts' /\ OutFacts'
    BY <2>1, <2>2 DEF RaceFacts, Renewing, OutFacts, InFlight
  <2>6. TrustFacts'
    BY <2>1, <2>2 DEF TrustFacts, TrustFact, Taken, IsNewest, InGrace
  <2>7. QED
    BY <2>3, <2>4, <2>5, <2>6 DEF IInv
<1>2. CASE Next
  <2>1. ASSUME NEW t \in Tabs,
               (\E a \in Customers : LogIn(t, a)) \/ (\E a \in Admins : AdminLogIn(t, a))
        PROVE  TabStep
    BY <2>1, TokensAreTyped DEF LogIn, AdminLogIn, TabStep
  <2>2. ASSUME NEW t \in Tabs,
               \/ OpenPage(t) \/ AdminGuard(t) \/ LogOut(t) \/ AdminLogOut(t) \/ Reload(t)
               \/ UpdateMe(t) \/ ChangePassword(t) \/ Withdraw(t)
               \/ \E p \in Types : Expire(t, p)
        PROVE  TabStep
    BY <2>2, TokensAreTyped DEF OpenPage, AdminGuard, LogOut, AdminLogOut, UpdateMe,
                                ChangePassword, Withdraw, TabStep
  <2>3. ASSUME NEW q \in Slots, Progress(q) \/ Limited(q) \/ Fault(q)
        PROVE  TabStep \/ AuthStep(q)
    BY <2>3 DEF Progress, TabStep, AuthStep
  <2>4. \/ TabStep \/ (\E q \in Slots : AuthStep(q))
        \/ \E a \in Accounts : GraceEnds(a)
    BY <1>2, <2>1, <2>2, <2>3 DEF Next
  <2>5. QED
    BY <2>4, TabsKeepInv, AuthKeepsInv, GraceEndsKeepsInv
<1>3. QED
  BY <1>1, <1>2

\* Whatever the tabs, the requests on their way and auth-service do, and in whatever
\* order: the inductive invariant holds.
THEOREM TokensInductive == Spec => []IInv
<1>1. Init => IInv
  BY StartsWell
<1>2. IInv /\ [Next]_vars => IInv'
  BY StepsKeepInv
<1>3. QED
  BY <1>1, <1>2, PTL DEF Spec

\* Every variable keeps to its kind of value; in particular auth-service never issues
\* more tokens than there were requests for one.
THEOREM TokensTypeCorrect == Spec => []TypeOK
<1>1. IInv => TypeOK
  BY DEF IInv
<1>2. QED
  BY <1>1, TokensInductive, PTL

\* From the moment a logout has deleted the newest token the browser has no refresh
\* token of the account that auth-service takes, however its answer and those of
\* renewals overtake each other; but for an account of which a renewal had compared its
\* token before that and was still to write (raced).
THEOREM LoggedOutStaysOut == Spec => []SignedOutStaysOut
<1>1. IInv => SignedOutStaysOut
  <2> SUFFICES ASSUME IInv, NEW p \in Types, out[p] # NoOne, out[p] \notin raced,
                      jar[p].who = out[p]
               PROVE  ~Taken(jar[p])
    BY DEF SignedOutStaysOut
  <2>1. newest[jar[p].who] = 0
    BY DEF IInv, OutFacts
  <2>2. QED
    BY <2>1 DEF Taken, IsNewest, InGrace
<1>2. QED
  BY <1>1, TokensInductive, PTL

\* With no service out of reach and nothing lost, nobody whose refresh was sent with a
\* token that was taken is sent to the login page, although renewals, logins and logouts
\* interleave await by await; but for one whose token was replaced or deleted for good
\* before the refresh was served, and for an account where two renewals had compared
\* before either wrote, or the grace period passed between a renewal's writes (raced).
THEOREM OnlyFaultsSendAway == Spec => []NoNeedlessLogin
<1>1. IInv => NoNeedlessLogin
  BY DEF IInv, TrustFacts, NoNeedlessLogin
<1>2. QED
  BY <1>1, TokensInductive, PTL

\* The name that a tab shows is that of the account whose token it sends, unless an
\* update of the profile crossed a change of account in it.
THEOREM NameFollowsToken == Spec => []NameIsOfToken
<1>1. IInv => NameIsOfToken
  BY DEF IInv, NameFacts
<1>2. QED
  BY <1>1, TokensInductive, PTL
=============================================================================
