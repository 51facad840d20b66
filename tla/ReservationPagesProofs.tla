----------------------- MODULE ReservationPagesProofs -----------------------
(***************************************************************************)
(* For any number of reservations, calls in flight, pages opened and       *)
(* faults: what the pages of a customer show and offer can be relied on as *)
(* far as the properties of ReservationPages say.                          *)
(***************************************************************************)
EXTENDS ReservationPages, TLAPS

-----------------------------------------------------------------------------
\* The inductive invariant

Exists(r) == status[r] # "none"

\* Only reservations that exist are shown, open a modal or are written.
PageFacts ==
    /\ page \in OfOne => shown \in Resv
    /\ shown \in Resv => Exists(shown)
    /\ confirming => page = "detail"
    /\ paying # NoOne => Exists(paying)
    /\ \A r \in Resv : paid[r] > 0 \/ view[r] \notin {"none", "unknown"} => Exists(r)
    /\ \A q \in Slots : wire[q] # Idle => Exists(wire[q].res)
    /\ token = "none" => faults > 0
    /\ BesideIsFound

\* Wherever "RESERVED" is kept, the reservation has been paid for.
ReservedFacts ==
    /\ \A r \in Resv : status[r] = "RESERVED" \/ view[r] = "RESERVED" => paid[r] > 0
    /\ carried = "RESERVED" \/ beside = "RESERVED" => shown \in Resv /\ paid[shown] > 0
    /\ \A q \in Slots : wire[q].what = "pay" /\ wire[q].step = "done"
                           => paid[wire[q].res] > 0

\* A modal waits for one call, and holds its button as long as it does; a payment
\* no modal waits for is noted, and so is one that was checked before another one
\* of the same reservation was saved.
CallFacts(q) ==
    /\ wire[q].what = "pay" /\ wire[q].awaitedBy = "modal"
          => submitting /\ paying = wire[q].res
    /\ wire[q].what = "cancel" => wire[q].awaitedBy # "page"
    /\ wire[q].what = "cancel" /\ wire[q].awaitedBy = "modal" => cancelling
    /\ wire[q].what = "pay" /\ wire[q].awaitedBy # "modal" => wire[q].res \in strayed
    /\ wire[q].what = "pay" /\ wire[q].step = "checked" /\ paid[wire[q].res] > 0
          => wire[q].res \in strayed

OneAwaited ==
    \A q, s \in Slots : /\ wire[q].awaitedBy = "modal" /\ wire[s].awaitedBy = "modal"
                        /\ wire[q].what = wire[s].what
                        => q = s

WriteFacts == /\ \A q \in Slots : CallFacts(q)
              /\ OneAwaited
              /\ ChargedTwiceOnlyAstray

IInv == TypeOK /\ PageFacts /\ ReservedFacts /\ WriteFacts

-----------------------------------------------------------------------------
\* Calls in flight

LEMMA SlotsAreTyped ==
    ASSUME TypeOK, NEW q \in Slots
    PROVE  /\ wire[q] \in Calls \cup {Idle}
           /\ wire[q] # Idle => wire[q] \in Calls
           /\ wire[q].what \in {"pay", "cancel"} => wire[q] \in Calls
           /\ wire[q] \in Calls => wire[q] # Idle /\ wire[q].res \in Resv
BY DEF TypeOK, Calls, Idle

LEMMA AwaitedChanges ==
    ASSUME NEW c \in Calls \cup {Idle}, NEW a \in {"modal", "page", "gone"}
    PROVE  /\ [c EXCEPT !.awaitedBy = a].what = c.what
           /\ [c EXCEPT !.awaitedBy = a].res = c.res
           /\ [c EXCEPT !.awaitedBy = a].step = c.step
           /\ [c EXCEPT !.awaitedBy = a].awaitedBy = a
           /\ c \in Calls => [c EXCEPT !.awaitedBy = a] \in Calls
BY DEF Calls, Idle

LEMMA StepChanges ==
    ASSUME NEW c \in Calls, NEW step \in {"sent", "checked", "done", "refused"}
    PROVE  /\ [c EXCEPT !.step = step].what = c.what
           /\ [c EXCEPT !.step = step].res = c.res
           /\ [c EXCEPT !.step = step].step = step
           /\ [c EXCEPT !.step = step].awaitedBy = c.awaitedBy
           /\ [c EXCEPT !.step = step] \in Calls
BY DEF Calls

\* Every payment a modal waits for is among those that are noted when it goes.
LEMMA AwaitedHasThem ==
    ASSUME NEW q \in Slots, wire[q].what = "pay", wire[q].awaitedBy = "modal"
    PROVE  wire[q].res \in Awaited
BY DEF Awaited

LEMMA AwaitedIsTyped == TypeOK => Awaited \in SUBSET Resv
BY SlotsAreTyped DEF Awaited, Calls

-----------------------------------------------------------------------------
\* Pages

LEMMA MountKeepsInv ==
    ASSUME IInv,
           NEW p \in Pages, NEW r \in Resv \cup {NoOne},
           NEW given \in Statuses \cup {"PAID", "unknown"},
           Mount(p, r, given),
           status' \in [Resv -> Statuses], paid' = paid,
           \A x \in Resv : Exists(x) => Exists(x)',
           \A x \in Resv : status'[x] = "RESERVED" => paid[x] > 0,
           token' \in {"memory", "cookie", "none"}, token' = "none" => faults' > 0,
           visits' \in 0..MaxVisits, faults' \in 0..MaxFaults,
           p \in OfOne => r \in Resv,
           r \in Resv => Exists(r)',
           given = "RESERVED" => r \in Resv /\ paid[r] > 0
    PROVE  IInv'
<1> USE DEF IInv
<1>1. \A q \in Slots :
         /\ wire[q] = Idle => wire'[q] = Idle
         /\ wire[q] \in Calls => /\ wire'[q] \in Calls /\ wire'[q].awaitedBy = "gone"
                                 /\ wire'[q].what = wire[q].what
                                 /\ wire'[q].res = wire[q].res
                                 /\ wire'[q].step = wire[q].step
  BY SlotsAreTyped, AwaitedChanges DEF Mount
<1>2. TypeOK'
  <2>1. wire' \in [Slots -> Calls \cup {Idle}]
    <3>1. \A q \in Slots : wire'[q] \in Calls \cup {Idle}
      BY <1>1, SlotsAreTyped
    <3>2. QED
      BY <3>1 DEF Mount
  <2>2. view' \in [Resv -> Statuses \cup {"PAID", "unknown"}]
    <3> DEFINE T == Statuses \cup {"PAID", "unknown"}
    <3>1. "unknown" \in T /\ given \in T
      OBVIOUS
    <3> HIDE DEF T
    <3>2. Unknown \in [Resv -> T] /\ [Unknown EXCEPT ![r] = given] \in [Resv -> T]
      BY <3>1, Zenon DEF Unknown
    <3>3. view' \in [Resv -> T]
      BY <3>2 DEF Mount
    <3>4. QED
      BY <3>3 DEF T
  <2>3. strayed' \in SUBSET Resv
    <3>1. strayed \in SUBSET Resv
      BY DEF TypeOK
    <3>2. QED
      BY <3>1, AwaitedIsTyped DEF Mount
  <2>4. beside' \in {"first", "none"} /\ load' \in {"first", "none"}
          /\ screen' \in {"loading", "ready"}
    BY DEF Mount
  <2>5. paid' \in [Resv -> 0..2]
    BY DEF TypeOK
  <2>6. /\ page' \in Pages /\ shown' \in Resv \cup {NoOne}
        /\ carried' \in Statuses \cup {"PAID", "unknown"}
        /\ live' \in BOOLEAN /\ paying' \in Resv \cup {NoOne}
        /\ submitting' \in BOOLEAN /\ confirming' \in BOOLEAN /\ cancelling' \in BOOLEAN
    BY DEF Mount
  <2>7. QED
    BY <2>1, <2>2, <2>3, <2>4, <2>5, <2>6 DEF TypeOK, Statuses
<1>3. PageFacts'
  <2>1. \A x \in Resv : view'[x] \notin {"none", "unknown"} => x = r
    BY DEF Mount, Unknown
  <2>2. beside' # "missing"
    BY DEF Mount
  <2>3. \A q \in Slots : wire'[q] # Idle => Exists(wire[q].res)'
    BY <1>1, SlotsAreTyped DEF PageFacts, Exists
  <2>4. /\ page' = p /\ shown' = r /\ confirming' = FALSE /\ paying' = NoOne
    BY DEF Mount
  <2>5. \A x \in Resv : paid'[x] > 0 \/ view'[x] \notin {"none", "unknown"} => Exists(x)'
    BY <2>1 DEF PageFacts
  <2>6. QED
    BY <2>2, <2>3, <2>4, <2>5 DEF PageFacts, BesideIsFound, Exists
<1>4. ReservedFacts'
  <2>1. \A x \in Resv : view'[x] = "RESERVED" => x = r /\ given = "RESERVED"
    BY DEF Mount, Unknown
  <2>2. beside' # "RESERVED" /\ carried' = given /\ shown' = r
    BY DEF Mount
  <2>3. \A q \in Slots : wire'[q].what = "pay" /\ wire'[q].step = "done"
                             => paid[wire'[q].res] > 0
    BY <1>1, SlotsAreTyped DEF ReservedFacts, Idle
  <2>4. QED
    BY <2>1, <2>2, <2>3 DEF ReservedFacts
<1>5. WriteFacts'
  <2>1. strayed' = strayed \cup Awaited /\ submitting' = FALSE
    BY DEF Mount
  <2>2. ASSUME NEW q \in Slots PROVE CallFacts(q)'
    <3>1. CASE wire[q] = Idle
      BY <1>1, <3>1 DEF CallFacts, Idle
    <3>2. CASE wire[q] \in Calls
      BY <1>1, <2>1, <3>2, AwaitedHasThem DEF CallFacts, WriteFacts, Calls
    <3>3. QED
      BY <3>1, <3>2, SlotsAreTyped
  <2>3. OneAwaited'
    BY <1>1, SlotsAreTyped DEF OneAwaited, Idle
  <2>4. ChargedTwiceOnlyAstray'
    BY <2>1 DEF ChargedTwiceOnlyAstray, WriteFacts
  <2>5. QED
    BY <2>1, <2>2, <2>3, <2>4 DEF WriteFacts
<1>6. QED
  BY <1>2, <1>3, <1>4, <1>5

LEMMA VisitKeepsInv ==
    ASSUME IInv, NEW p \in Pages, NEW r \in Resv \cup {NoOne},
           NEW given \in Statuses \cup {"PAID", "unknown"},
           Visit(p, r, given),
           token' \in {"memory", "cookie", "none"}, token' = "none" => token = "none",
           p \in OfOne => r \in Resv,
           r \in Resv => Exists(r),
           given = "RESERVED" => r \in Resv /\ paid[r] > 0
    PROVE  IInv'
<1>1. /\ Mount(p, r, given) /\ status' = status /\ paid' = paid /\ faults' = faults
      /\ visits' = visits + 1 /\ visits < MaxVisits
  BY DEF Visit, serverVars
<1>2. /\ status \in [Resv -> Statuses] /\ faults' \in 0..MaxFaults
      /\ visits' \in 0..MaxVisits
  BY <1>1, PagesAssumption DEF IInv, TypeOK
<1>3. /\ \A x \in Resv : Exists(x) => Exists(x)'
      /\ \A x \in Resv : status'[x] = "RESERVED" => paid[x] > 0
      /\ token' = "none" => faults' > 0
      /\ r \in Resv => Exists(r)'
  BY <1>1 DEF IInv, PageFacts, ReservedFacts, Exists
<1>4. QED
  BY <1>1, <1>2, <1>3, MountKeepsInv

LEMMA OpeningKeepsInv ==
    ASSUME IInv,
           \/ \E p \in {"history", "pending", "payments", "home"} : OpenPage(p)
           \/ Reload
           \/ \E r \in Resv, p \in OfOne : OpenAddress(p, r)
    PROVE  IInv'
<1>0. /\ token \in {"memory", "cookie", "none"}
      /\ page \in Pages /\ shown \in Resv \cup {NoOne}
      /\ carried \in Statuses \cup {"PAID", "unknown"}
      /\ "unknown" \in Statuses \cup {"PAID", "unknown"}
  BY DEF IInv, TypeOK
<1>1. ASSUME NEW p \in {"history", "pending", "payments", "home"}, OpenPage(p) PROVE IInv'
  <2>1. p \in Pages /\ p \notin OfOne
    BY DEF Pages, OfOne
  <2>2. Visit(p, NoOne, "unknown") /\ token' = token
    BY <1>1 DEF OpenPage
  <2>3. QED
    BY <1>0, <2>1, <2>2, NoOneAssumption, VisitKeepsInv
<1>2. CASE Reload
  <2>1. /\ Visit(page, shown, carried) /\ token' \in {"memory", "cookie", "none"}
        /\ token' = "none" => token = "none"
    BY <1>0, <1>2 DEF Reload
  <2>2. /\ page \in OfOne => shown \in Resv
        /\ shown \in Resv => Exists(shown)
        /\ carried = "RESERVED" => shown \in Resv /\ paid[shown] > 0
    BY DEF IInv, PageFacts, ReservedFacts
  <2>3. QED
    BY <1>0, <2>1, <2>2, VisitKeepsInv
<1>3. ASSUME NEW r \in Resv, NEW p \in OfOne, OpenAddress(p, r) PROVE IInv'
  <2>1. p \in Pages /\ Exists(r)
    BY <1>3 DEF Pages, OfOne, OpenAddress, Exists
  <2>2. /\ Visit(p, r, "unknown") /\ token' \in {"memory", "cookie", "none"}
        /\ token' = "none" => token = "none"
    BY <1>0, <1>3 DEF OpenAddress
  <2>3. QED
    BY <1>0, <2>1, <2>2, VisitKeepsInv
<1>4. QED
  BY <1>1, <1>2, <1>3

LEMMA LinksKeepInv ==
    ASSUME IInv, NEW r \in Resv,
           OpenFromHistory(r) \/ OpenFromPending(r) \/ OpenFromPayments(r) \/ OpenFromReceipt(r)
    PROVE  IInv'
<1>1. PICK p \in {"detail", "receipt"}, given \in Statuses \cup {"PAID", "unknown"} :
         /\ Visit(p, r, given) /\ token' = token
         /\ view[r] \notin {"none", "unknown"}
         /\ given = "RESERVED" => view[r] = "RESERVED" \/ (beside = "RESERVED" /\ shown = r)
  <2>1. /\ view[r] \in Statuses \cup {"PAID", "unknown"}
        /\ beside \in Statuses \cup {"first", "refresh", "second", "found", "missing"}
    BY DEF IInv, TypeOK
  <2>2. CASE OpenFromHistory(r)
    <3>1. Visit("detail", r, view[r]) /\ token' = token /\ view[r] \in Statuses \ {"none"}
      BY <2>2 DEF OpenFromHistory, Follow
    <3>2. view[r] \notin {"none", "unknown"}
      BY <3>1 DEF Statuses
    <3>3. QED
      BY <2>1, <3>1, <3>2
  <2>3. CASE OpenFromPending(r)
    <3>1. Visit("detail", r, view[r]) /\ token' = token /\ view[r] = "PENDING_PAYMENT"
      BY <2>3 DEF OpenFromPending, Follow
    <3>2. QED
      BY <2>1, <3>1
  <2>4. CASE OpenFromPayments(r)
    <3>1. Visit("receipt", r, "PAID") /\ token' = token /\ view[r] = "PAID"
      BY <2>4 DEF OpenFromPayments, Follow
    <3>2. QED
      BY <3>1
  <2>5. CASE OpenFromReceipt(r)
    <3>1. PICK given \in {beside, "unknown"} :
             /\ Visit("detail", r, given) /\ token' = token /\ view[r] = "PAID" /\ shown = r
             /\ given \in Statuses \cup {"unknown"}
      BY <2>5 DEF OpenFromReceipt, Follow
    <3>2. QED
      BY <3>1
  <2>6. QED
    BY <2>2, <2>3, <2>4, <2>5
<1>2. p \in Pages /\ token \in {"memory", "cookie", "none"}
  BY DEF Pages, IInv, TypeOK
<1>3. Exists(r) /\ (given = "RESERVED" => paid[r] > 0)
  BY <1>1 DEF IInv, PageFacts, ReservedFacts
<1>4. QED
  BY <1>1, <1>2, <1>3, VisitKeepsInv

LEMMA ReservedKeepsInv == \A r \in Resv : IInv /\ Reserved(r) => IInv'
<1> SUFFICES ASSUME NEW r \in Resv, IInv, Reserved(r) PROVE IInv'
  OBVIOUS
<1>1. /\ Mount("complete", r, "PENDING_PAYMENT") /\ paid' = paid /\ token' = token
      /\ status' = [status EXCEPT ![r] = "PENDING_PAYMENT"]
      /\ visits' = visits + 1 /\ visits < MaxVisits /\ faults' = faults
  BY DEF Reserved
<1>2. /\ status \in [Resv -> Statuses] /\ "PENDING_PAYMENT" \in Statuses
      /\ visits' \in 0..MaxVisits /\ faults' \in 0..MaxFaults
      /\ token' \in {"memory", "cookie", "none"} /\ "complete" \in Pages
  BY <1>1, PagesAssumption DEF IInv, TypeOK, Statuses, Pages
<1>3. /\ status' \in [Resv -> Statuses]
      /\ \A x \in Resv : Exists(x) => Exists(x)'
      /\ \A x \in Resv : status'[x] = "RESERVED" => paid[x] > 0
      /\ token' = "none" => faults' > 0
      /\ Exists(r)'
  BY <1>1, <1>2 DEF IInv, PageFacts, ReservedFacts, Exists
<1>4. QED
  BY <1>1, <1>2, <1>3, MountKeepsInv

-----------------------------------------------------------------------------
\* Loads

\* A step that reads, and writes nothing but what the page knows.
LEMMA ReadingKeepsInv ==
    ASSUME IInv, TypeOK',
           UNCHANGED <<status, paid, page, shown, carried, modalVars, wire, strayed>>,
           \A r \in Resv : view'[r] = view[r] \/ view'[r] = status[r]
                           \/ (view'[r] = "PAID" /\ paid[r] > 0) \/ view'[r] = "none",
           beside' = "RESERVED" => beside = "RESERVED"
                                   \/ (shown \in Resv /\ status[shown] = "RESERVED"),
           token' = "none" => faults' > 0, beside' = "missing" => faults' > 0
    PROVE  IInv'
<1> USE DEF IInv, modalVars
<1>1. PageFacts'
  BY DEF PageFacts, Exists, BesideIsFound
<1>2. ReservedFacts'
  BY DEF ReservedFacts
<1>3. WriteFacts'
  BY DEF WriteFacts, CallFacts, OneAwaited, ChargedTwiceOnlyAstray
<1>4. QED
  BY <1>1, <1>2, <1>3

LEMMA AnswersAreTyped ==
    ASSUME TypeOK, NEW p
    PROVE  /\ Answer(p) \in [Resv -> Statuses \cup {"PAID", "unknown"}]
           /\ \A r \in Resv : \/ Answer(p)[r] \in {status[r], "none"}
                              \/ Answer(p)[r] = "PAID" /\ paid[r] > 0
<1>1. MyBookings \in [Resv -> Statuses]
  BY DEF MyBookings, TypeOK
<1>2. MyPayments \in [Resv -> {"PAID", "none"}]
  BY DEF MyPayments
<1>3. "none" \in Statuses
  BY DEF Statuses
<1>4. Answer(p) \in [Resv -> Statuses \cup {"PAID", "unknown"}]
  <2>1. CASE p \in {"payments", "receipt"}
    BY <1>2, <1>3, <2>1 DEF Answer
  <2>2. CASE p \notin {"payments", "receipt"}
    BY <1>1, <2>2 DEF Answer
  <2>3. QED
    BY <2>1, <2>2
<1>5. \A r \in Resv : \/ Answer(p)[r] \in {status[r], "none"}
                      \/ Answer(p)[r] = "PAID" /\ paid[r] > 0
  BY DEF Answer, MyBookings, MyPayments
<1>6. QED
  BY <1>4, <1>5

LEMMA FetchKeepsInv ==
    ASSUME IInv, Fetched,
           UNCHANGED <<serverVars, token, page, shown, carried, live, modalVars, wire,
                       visits, faults, strayed>>
    PROVE  IInv'
<1> DEFINE T == Statuses \cup {"PAID", "unknown"}
           got == Answer(page)
<1>1. /\ got \in [Resv -> T]
      /\ \A r \in Resv : got[r] \in {status[r], "none"} \/ (got[r] = "PAID" /\ paid[r] > 0)
      /\ view \in [Resv -> T]
  BY AnswersAreTyped DEF IInv, TypeOK
<1>2. \/ view' = view \/ view' = got
      \/ shown \in Resv /\ view' = [view EXCEPT ![shown] = got[shown]]
  BY DEF Fetched, IInv, PageFacts
<1>3. /\ screen' \in {screen, "ready", "error"} /\ load' \in {"none", "rooms"}
      /\ beside' \in {beside, "first"}
  BY DEF Fetched
<1>4. /\ view' \in [Resv -> T]
      /\ \A r \in Resv : view'[r] = view[r] \/ view'[r] = status[r]
                         \/ (view'[r] = "PAID" /\ paid[r] > 0) \/ view'[r] = "none"
  <2> HIDE DEF T, got
  <2>1. CASE view' = view \/ view' = got
    BY <1>1, <2>1
  <2>2. CASE shown \in Resv /\ view' = [view EXCEPT ![shown] = got[shown]]
    <3>1. view' \in [Resv -> T]
      BY <1>1, <2>2
    <3>2. \A r \in Resv : view'[r] \in {view[r], got[r]}
      BY <1>1, <2>2
    <3>3. QED
      BY <1>1, <3>1, <3>2
  <2>3. QED
    BY <1>2, <2>1, <2>2
<1>5. TypeOK'
  BY <1>3, <1>4 DEF IInv, TypeOK, serverVars, modalVars
<1>6. /\ beside' = "RESERVED" => beside = "RESERVED"
      /\ token' = "none" => faults' > 0
      /\ beside' = "missing" => faults' > 0
  BY <1>3 DEF IInv, PageFacts, BesideIsFound
<1>7. QED
  BY <1>4, <1>5, <1>6, ReadingKeepsInv DEF serverVars

LEMMA LoadKeepsInv ==
    ASSUME IInv, LoadStep
    PROVE  IInv'
<1>0. /\ token = "none" => faults > 0
      /\ beside = "missing" => faults > 0
      /\ faults \in 0..MaxFaults /\ "login" \in Pages /\ "login" \notin OfOne
      /\ "unknown" \in Statuses \cup {"PAID", "unknown"}
  BY DEF IInv, PageFacts, BesideIsFound, TypeOK, Pages, OfOne
<1>1. CASE Fetched /\ UNCHANGED <<serverVars, token, page, shown, carried, live, modalVars,
                                  wire, visits, faults, strayed>>
  BY <1>1, FetchKeepsInv
<1>2. CASE Refused401
  <2>1. TypeOK'
    BY <1>2 DEF Refused401, IInv, TypeOK, serverVars, modalVars
  <2>2. QED
    BY <1>0, <1>2, <2>1, ReadingKeepsInv DEF Refused401, serverVars
<1>3. CASE /\ token # "none" /\ token' = "memory" /\ load' = "second"
           /\ UNCHANGED <<serverVars, page, shown, carried, view, screen, live, beside,
                          modalVars, wire, visits, faults, strayed>>
  <2>1. TypeOK'
    BY <1>3 DEF IInv, TypeOK, serverVars, modalVars
  <2>2. QED
    BY <1>0, <1>3, <2>1, ReadingKeepsInv DEF serverVars
<1>4. CASE ToLogin
  <2>1. /\ Mount("login", NoOne, "unknown") /\ status' = status /\ paid' = paid
        /\ token' = token /\ visits' = visits /\ faults' = faults
    BY <1>4 DEF ToLogin, serverVars
  <2>2. /\ status' \in [Resv -> Statuses]
        /\ token' \in {"memory", "cookie", "none"} /\ visits' \in 0..MaxVisits
    BY <2>1 DEF IInv, TypeOK
  <2>3. /\ \A x \in Resv : Exists(x) => Exists(x)'
        /\ \A x \in Resv : status'[x] = "RESERVED" => paid[x] > 0
    BY <2>1 DEF IInv, ReservedFacts, Exists
  <2>4. QED
    BY <1>0, <2>1, <2>2, <2>3, NoOneAssumption, MountKeepsInv
<1>5. CASE LoadFails
  <2>1. faults' = faults + 1 /\ faults' \in 0..MaxFaults /\ faults' > 0
    BY <1>0, <1>5, PagesAssumption DEF LoadFails
  <2>2. TypeOK'
    BY <1>5, <2>1 DEF LoadFails, IInv, TypeOK, serverVars, modalVars
  <2>3. QED
    BY <1>5, <2>1, <2>2, ReadingKeepsInv DEF LoadFails, serverVars
<1>6. QED
  BY <1>1, <1>2, <1>3, <1>4, <1>5 DEF LoadStep

LEMMA RoomLoadKeepsInv ==
    ASSUME IInv, CleanUp \/ RoomFound
    PROVE  IInv'
<1>1. TypeOK'
  BY DEF CleanUp, RoomFound, IInv, TypeOK, serverVars, modalVars
<1>2. token = "none" \/ beside = "missing" => faults > 0
  BY DEF IInv, PageFacts, BesideIsFound
<1>3. QED
  BY <1>1, <1>2, ReadingKeepsInv DEF CleanUp, RoomFound, serverVars

LEMMA BesideKeepsInv ==
    ASSUME IInv, page \in OfOne, BesideStep
    PROVE  IInv'
<1>1. /\ shown \in Resv /\ status[shown] \in Statuses \ {"none"}
      /\ token = "none" => faults > 0
      /\ faults \in 0..MaxFaults
      /\ token \in {"memory", "cookie", "none"}
  BY DEF IInv, PageFacts, TypeOK, Exists
<1>2. SideRead \in {status[shown], "found"}
  BY <1>1 DEF SideRead, MyBookings, ReservationFacilities
<1>3. PICK b : BesideBecomes(b)
  BY DEF BesideStep
<1>4. /\ b \in {status[shown], "found", "refresh", "second", "missing"}
      /\ token' \in {token, "memory"}
      /\ faults' \in 0..MaxFaults
      /\ \/ faults' = faults /\ (b = "missing" => token = "none")
         \/ faults' > 0
  <2>1. beside' = b
    BY <1>3 DEF BesideBecomes
  <2>2. faults < MaxFaults /\ faults' = faults + 1 => faults' \in 0..MaxFaults /\ faults' > 0
    BY <1>1, PagesAssumption
  <2>3. status[shown] # "missing"
    BY <1>1 DEF Statuses
  <2>4. QED
    BY <1>1, <1>2, <2>1, <2>2, <2>3 DEF BesideStep, BesideBecomes
<1>5. TypeOK'
  <2>1. /\ beside' \in Statuses \cup {"first", "refresh", "second", "found", "missing"}
        /\ token' \in {"memory", "cookie", "none"}
    BY <1>1, <1>3, <1>4 DEF BesideBecomes
  <2>2. QED
    BY <1>3, <1>4, <2>1 DEF BesideBecomes, IInv, TypeOK, serverVars, modalVars
<1>6. /\ token' = "none" => faults' > 0
      /\ beside' = "missing" => faults' > 0
      /\ beside' = "RESERVED" => status[shown] = "RESERVED"
  BY <1>1, <1>3, <1>4 DEF BesideBecomes
<1>7. QED
  BY <1>1, <1>3, <1>5, <1>6, ReadingKeepsInv DEF BesideBecomes, serverVars

LEMMA RestKeepsInv ==
    ASSUME IInv, Retry \/ Boot \/ SessionEnds
    PROVE  IInv'
<1>1. /\ token = "none" \/ beside = "missing" => faults > 0
      /\ faults \in 0..MaxFaults /\ visits \in 0..MaxVisits
  BY DEF IInv, PageFacts, BesideIsFound, TypeOK
<1>2. /\ faults' \in {faults, faults + 1} /\ faults' \in 0..MaxFaults
      /\ visits' \in 0..MaxVisits
      /\ token' = "none" \/ beside' = "missing" => faults' > 0
  BY <1>1, PagesAssumption DEF Retry, Boot, SessionEnds, pageVars
<1>3. TypeOK'
  BY <1>2 DEF Retry, Boot, SessionEnds, IInv, TypeOK, serverVars, modalVars, pageVars
<1>4. QED
  BY <1>2, <1>3, ReadingKeepsInv DEF Retry, Boot, SessionEnds, serverVars, pageVars

-----------------------------------------------------------------------------
\* Modals

LEMMA ModalKeepsInv ==
    ASSUME IInv,
           \/ \E r \in Resv : OpenModal(r)
           \/ OpenCancelModal \/ CloseCancelModal
    PROVE  IInv'
<1> USE DEF IInv
<1>1. /\ UNCHANGED <<serverVars, token, pageVars, submitting, cancelling, wire, visits,
                     faults, strayed>>
      /\ \/ /\ paying' = paying
            /\ confirming' \in BOOLEAN /\ (confirming' => page = "detail")
         \/ /\ paying = NoOne /\ paying' \in Resv /\ Exists(paying') /\ confirming' = confirming
  <2>1. ASSUME NEW r \in Resv, OpenModal(r) PROVE Exists(r)
    BY <2>1 DEF OpenModal, Payable, PageFacts
  <2>2. QED
    BY <2>1 DEF OpenModal, OpenCancelModal, CloseCancelModal
<1>2. TypeOK'
  BY <1>1 DEF TypeOK, serverVars, pageVars
<1>3. PageFacts'
  BY <1>1 DEF PageFacts, Exists, BesideIsFound, serverVars, pageVars
<1>4. ReservedFacts'
  BY <1>1 DEF ReservedFacts, serverVars, pageVars
<1>5. \A q \in Slots : wire[q].what = "pay" /\ wire[q].awaitedBy = "modal" => paying # NoOne
  BY SlotsAreTyped, NoOneAssumption DEF WriteFacts, CallFacts
<1>6. WriteFacts'
  BY <1>1, <1>5
     DEF WriteFacts, CallFacts, OneAwaited, ChargedTwiceOnlyAstray, serverVars, pageVars
<1>7. QED
  BY <1>2, <1>3, <1>4, <1>6

LEMMA CloseKeepsInv == IInv /\ Close => IInv'
<1> SUFFICES ASSUME IInv, Close PROVE IInv'
  OBVIOUS
<1> USE DEF IInv
<1>1. /\ UNCHANGED <<serverVars, token, pageVars, confirming, cancelling, visits, faults>>
      /\ paying' = NoOne /\ submitting' = FALSE /\ strayed' = strayed \cup Awaited
  BY DEF Close
<1>2. \A q \in Slots :
         /\ wire[q] = Idle => wire'[q] = Idle
         /\ wire[q] \in Calls => /\ wire'[q] \in Calls
                                 /\ wire'[q].what = wire[q].what
                                 /\ wire'[q].res = wire[q].res
                                 /\ wire'[q].step = wire[q].step
                                 /\ wire'[q].awaitedBy =
                                      IF wire[q].what = "pay" /\ wire[q].awaitedBy = "modal"
                                      THEN "page" ELSE wire[q].awaitedBy
  <2>1. Idle.what # "pay"
    BY DEF Idle
  <2>2. SUFFICES ASSUME NEW q \in Slots
                 PROVE  /\ wire[q] = Idle => wire'[q] = Idle
                        /\ wire[q] \in Calls =>
                              /\ wire'[q] \in Calls
                              /\ wire'[q].what = wire[q].what
                              /\ wire'[q].res = wire[q].res
                              /\ wire'[q].step = wire[q].step
                              /\ wire'[q].awaitedBy =
                                   IF wire[q].what = "pay" /\ wire[q].awaitedBy = "modal"
                                   THEN "page" ELSE wire[q].awaitedBy
    OBVIOUS
  <2>3. CASE wire[q].what = "pay" /\ wire[q].awaitedBy = "modal"
    <3>1. wire'[q] = [wire[q] EXCEPT !.awaitedBy = "page"]
      BY <2>3 DEF Close
    <3>2. wire[q] \in Calls /\ wire[q] # Idle
      BY <2>1, <2>3, SlotsAreTyped
    <3>3. /\ wire'[q].what = wire[q].what /\ wire'[q].res = wire[q].res
          /\ wire'[q].step = wire[q].step /\ wire'[q].awaitedBy = "page"
          /\ wire'[q] \in Calls
      BY <3>1, <3>2 DEF Calls
    <3>4. QED
      BY <2>3, <3>2, <3>3
  <2>4. CASE ~(wire[q].what = "pay" /\ wire[q].awaitedBy = "modal")
    <3>1. wire'[q] = wire[q]
      BY <2>4 DEF Close
    <3>2. QED
      BY <2>4, <3>1
  <2>5. QED
    BY <2>3, <2>4
<1>3. wire' \in [Slots -> Calls \cup {Idle}]
  <2>1. \A q \in Slots : wire'[q] \in Calls \cup {Idle}
    BY <1>2, SlotsAreTyped
  <2>2. QED
    BY <2>1 DEF Close
<1>4. TypeOK'
  <2>1. strayed' \in SUBSET Resv
    <3>1. strayed \in SUBSET Resv
      BY DEF TypeOK
    <3>2. QED
      BY <1>1, <3>1, AwaitedIsTyped
  <2>2. paying' \in Resv \cup {NoOne} /\ submitting' \in BOOLEAN
    BY <1>1
  <2>3. UNCHANGED <<status, paid, token, page, shown, carried, view, screen, load, live, beside,
                    confirming, cancelling, visits, faults>>
    BY <1>1 DEF serverVars, pageVars
  <2>4. QED
    BY <1>3, <2>1, <2>2, <2>3 DEF TypeOK
<1>5. PageFacts'
  <2>1. \A q \in Slots : wire'[q] # Idle => Exists(wire[q].res) /\ wire'[q].res = wire[q].res
    BY <1>2, SlotsAreTyped DEF PageFacts
  <2>2. QED
    BY <1>1, <2>1 DEF PageFacts, Exists, BesideIsFound, serverVars, pageVars
<1>6. ReservedFacts'
  <2>1. \A q \in Slots : wire'[q].what = "pay" /\ wire'[q].step = "done"
                           => paid[wire'[q].res] > 0
    BY <1>2, SlotsAreTyped DEF ReservedFacts, Idle
  <2>2. QED
    BY <1>1, <2>1 DEF ReservedFacts, serverVars, pageVars
<1>7. WriteFacts'
  <2>1. ASSUME NEW q \in Slots PROVE CallFacts(q)'
    <3>1. CASE wire[q] = Idle
      BY <1>2, <3>1 DEF CallFacts, Idle
    <3>2. CASE wire[q] \in Calls
      BY <1>1, <1>2, <3>2, AwaitedHasThem DEF CallFacts, WriteFacts, serverVars
    <3>3. QED
      BY <3>1, <3>2, SlotsAreTyped
  <2>2. OneAwaited'
    BY <1>2, SlotsAreTyped DEF OneAwaited, WriteFacts, Idle
  <2>3. ChargedTwiceOnlyAstray'
    BY <1>1 DEF ChargedTwiceOnlyAstray, WriteFacts, serverVars
  <2>4. QED
    BY <2>1, <2>2, <2>3 DEF WriteFacts
<1>8. QED
  BY <1>4, <1>5, <1>6, <1>7

LEMMA SendKeepsInv == IInv /\ (Confirm \/ Cancel) => IInv'
<1> SUFFICES ASSUME IInv, Confirm \/ Cancel PROVE IInv'
  OBVIOUS
<1> USE DEF IInv
<1>1. PICK what \in {"pay", "cancel"}, r \in Resv :
         /\ Send(what, r) /\ UNCHANGED <<paying, confirming>> /\ Exists(r)
         /\ \/ /\ what = "pay" /\ ~submitting /\ submitting' = TRUE /\ r = paying
               /\ cancelling' = cancelling
            \/ /\ what = "cancel" /\ ~cancelling /\ cancelling' = TRUE
               /\ submitting' = submitting
  <2>1. CASE Confirm
    <3>1. paying \in Resv /\ Exists(paying)
      BY <2>1 DEF Confirm, TypeOK, PageFacts
    <3>2. QED
      BY <2>1, <3>1 DEF Confirm
  <2>2. CASE Cancel
    <3>1. shown \in Resv /\ Exists(shown)
      BY <2>2 DEF Cancel, PageFacts, OfOne
    <3>2. QED
      BY <2>2, <3>1 DEF Cancel
  <2>3. QED
    BY <2>1, <2>2
<1> DEFINE c == [what |-> what, res |-> r, step |-> "sent", awaitedBy |-> "modal"]
<1>2. PICK n \in Slots : wire[n] = Idle /\ wire' = [wire EXCEPT ![n] = c]
  BY <1>1 DEF Send
<1>3. /\ c.what = what /\ c.res = r /\ c.step = "sent" /\ c.awaitedBy = "modal" /\ c \in Calls
      /\ UNCHANGED <<serverVars, token, pageVars, visits, faults, strayed>>
  BY <1>1, <1>2 DEF Calls, Send
<1> HIDE DEF c
<1>4. \A q \in Slots : wire'[q] = IF q = n THEN c ELSE wire[q]
  BY <1>2 DEF TypeOK
<1>5. TypeOK'
  <2>1. submitting' \in BOOLEAN /\ cancelling' \in BOOLEAN
    BY <1>1 DEF TypeOK
  <2>2. wire' \in [Slots -> Calls \cup {Idle}]
    BY <1>2, <1>3 DEF TypeOK
  <2>3. UNCHANGED <<status, paid, token, page, shown, carried, view, screen, load, live, beside,
                    paying, confirming, visits, faults, strayed>>
    BY <1>1, <1>3 DEF serverVars, pageVars
  <2>4. QED
    BY <2>1, <2>2, <2>3 DEF TypeOK
<1>6. PageFacts'
  <2>1. \A q \in Slots : wire'[q] # Idle => Exists(wire'[q].res)
    BY <1>1, <1>3, <1>4 DEF PageFacts
  <2>2. QED
    BY <1>1, <1>3, <2>1 DEF PageFacts, Exists, BesideIsFound, serverVars, pageVars
<1>7. ReservedFacts'
  BY <1>3, <1>4 DEF ReservedFacts, serverVars, pageVars
<1>8. WriteFacts'
  <2>1. \A q \in Slots : wire[q].awaitedBy = "modal" => wire[q].what # what
    <3>1. \A q \in Slots : wire[q].what \in {"pay", "cancel"} /\ wire[q].awaitedBy = "modal"
                             => IF wire[q].what = "pay" THEN submitting ELSE cancelling
      BY DEF WriteFacts, CallFacts
    <3>2. QED
      BY <1>1, <3>1
  <2>2. \A q \in Slots : CallFacts(q)'
    BY <1>1, <1>3, <1>4 DEF CallFacts, WriteFacts, serverVars
  <2>3. OneAwaited'
    BY <1>3, <1>4, <2>1 DEF OneAwaited, WriteFacts
  <2>4. ChargedTwiceOnlyAstray'
    BY <1>3 DEF ChargedTwiceOnlyAstray, WriteFacts, serverVars
  <2>5. QED
    BY <2>2, <2>3, <2>4 DEF WriteFacts
<1>9. QED
  BY <1>5, <1>6, <1>7, <1>8

-----------------------------------------------------------------------------
\* The services

\* What a step of a service may do: it moves its own call on, and never takes a
\* reservation or a payment away.
Serves(q, step) ==
    /\ wire[q] \in Calls
    /\ step \in {"sent", "checked", "done", "refused"}
    /\ wire' = [wire EXCEPT ![q].step = step]
    /\ UNCHANGED <<token, pageVars, modalVars, visits, faults, strayed>>

LEMMA ServiceKeepsInv ==
    ASSUME IInv, NEW q \in Slots, NEW step, Serves(q, step),
           status' \in [Resv -> Statuses], paid' \in [Resv -> 0..2],
           \A r \in Resv : /\ Exists(r) => Exists(r)'
                           /\ paid[r] <= paid'[r]
                           /\ paid'[r] > 0 => Exists(r)'
                           /\ status'[r] = "RESERVED" => paid'[r] > 0
                           /\ paid'[r] > 1 => r \in strayed,
           wire[q].what = "pay" /\ step = "done" => paid'[wire[q].res] > 0,
           wire[q].what = "pay" /\ step = "checked" => paid'[wire[q].res] = 0,
           \A s \in Slots \ {q} :
              wire[s].what = "pay" /\ wire[s].step = "checked" /\ paid'[wire[s].res] > 0
                 => wire[s].res \in strayed
    PROVE  IInv'
<1> USE DEF IInv
<1>1. /\ wire[q] \in Calls /\ wire[q] # Idle /\ wire[q].res \in Resv
      /\ wire' = [wire EXCEPT ![q] = [wire[q] EXCEPT !.step = step]]
      /\ step \in {"sent", "checked", "done", "refused"}
      /\ UNCHANGED <<token, pageVars, modalVars, visits, faults, strayed>>
  BY SlotsAreTyped DEF Serves
<1>2. /\ \A s \in Slots : /\ wire'[s].what = wire[s].what /\ wire'[s].res = wire[s].res
                          /\ wire'[s].awaitedBy = wire[s].awaitedBy
                          /\ s # q => wire'[s] = wire[s]
      /\ wire'[q].step = step /\ wire'[q] \in Calls
  <2>1. wire'[q] = [wire[q] EXCEPT !.step = step] /\ \A s \in Slots \ {q} : wire'[s] = wire[s]
    BY <1>1 DEF TypeOK
  <2>2. /\ wire'[q].what = wire[q].what /\ wire'[q].res = wire[q].res
        /\ wire'[q].awaitedBy = wire[q].awaitedBy /\ wire'[q].step = step
        /\ wire'[q] \in Calls
    BY <1>1, <2>1 DEF Calls
  <2>3. QED
    BY <2>1, <2>2
<1>3. TypeOK'
  <2>1. wire' \in [Slots -> Calls \cup {Idle}]
    BY <1>1, <1>2 DEF TypeOK
  <2>2. UNCHANGED <<token, page, shown, carried, view, screen, load, live, beside, paying,
                    submitting, confirming, cancelling, visits, faults, strayed>>
    BY <1>1 DEF pageVars, modalVars
  <2>3. QED
    BY <2>1, <2>2 DEF TypeOK
<1>4. PageFacts'
  <2>1. /\ page' \in OfOne => shown' \in Resv
        /\ shown' \in Resv => Exists(shown)'
        /\ confirming' => page' = "detail"
        /\ paying' # NoOne => Exists(paying)'
        /\ token' = "none" => faults' > 0
        /\ BesideIsFound'
    <3>1. paying # NoOne => paying \in Resv
      BY DEF TypeOK
    <3>2. QED
      BY <1>1, <3>1 DEF PageFacts, pageVars, modalVars, BesideIsFound, Exists
  <2>2. \A r \in Resv : paid'[r] > 0 \/ view'[r] \notin {"none", "unknown"} => Exists(r)'
    BY <1>1 DEF PageFacts, pageVars
  <2>3. \A s \in Slots : wire'[s] # Idle => Exists(wire[s].res)' /\ wire'[s].res = wire[s].res
    <3>1. \A s \in Slots : wire'[s] # Idle => wire[s] # Idle
      BY <1>1, <1>2
    <3>2. \A s \in Slots : wire[s] # Idle => wire[s].res \in Resv /\ Exists(wire[s].res)
      BY SlotsAreTyped DEF PageFacts
    <3>3. QED
      BY <1>2, <3>1, <3>2 DEF Exists
  <2>4. QED
    BY <2>1, <2>2, <2>3 DEF PageFacts, Exists
<1>5. ReservedFacts'
  <2>1. \A s \in Slots : wire'[s].what = "pay" /\ wire'[s].step = "done"
                           => paid'[wire'[s].res] > 0
    <3>1. ASSUME NEW s \in Slots \ {q}, wire[s].what = "pay", wire[s].step = "done"
          PROVE  paid'[wire[s].res] > 0
      <4>1. wire[s].res \in Resv /\ paid[wire[s].res] > 0
        BY <3>1, SlotsAreTyped DEF ReservedFacts
      <4>2. paid[wire[s].res] \in 0..2 /\ paid'[wire[s].res] \in 0..2
        BY <4>1 DEF TypeOK
      <4>3. paid[wire[s].res] <= paid'[wire[s].res]
        BY <4>1
      <4>4. QED
        BY <4>1, <4>2, <4>3
    <3>2. QED
      BY <1>2, <3>1
  <2>2. \A r \in Resv : paid[r] > 0 => paid'[r] > 0
    BY DEF TypeOK
  <2>3. QED
    BY <1>1, <2>1, <2>2 DEF ReservedFacts, pageVars
<1>6. WriteFacts'
  <2>1. ASSUME NEW s \in Slots PROVE CallFacts(s)'
    <3>1. wire'[s].what = "pay" /\ wire'[s].step = "checked" /\ paid'[wire'[s].res] > 0
             => wire'[s].res \in strayed
      BY <1>2
    <3>2. QED
      BY <1>1, <1>2, <3>1 DEF CallFacts, WriteFacts, modalVars
  <2>2. OneAwaited'
    BY <1>2 DEF OneAwaited, WriteFacts
  <2>3. ChargedTwiceOnlyAstray'
    BY <1>1 DEF ChargedTwiceOnlyAstray
  <2>4. QED
    BY <2>1, <2>2, <2>3 DEF WriteFacts
<1>7. QED
  BY <1>3, <1>4, <1>5, <1>6

LEMMA ServedCalls ==
    ASSUME IInv, NEW q \in Slots, Serve(q)
    PROVE  /\ wire[q] \in Calls /\ wire[q].res \in Resv
           /\ Exists(wire[q].res)
           /\ \A step \in {"sent", "checked", "done", "refused"} :
                 Becomes(q, step) => Serves(q, step)
<1>1. wire[q].what \in {"pay", "cancel"}
  BY DEF Serve, CheckPay, SavePay, CheckCancel, SaveCancel
<1>2. wire[q] \in Calls /\ wire[q] # Idle /\ wire[q].res \in Resv
  BY <1>1, SlotsAreTyped DEF IInv
<1>3. QED
  BY <1>2 DEF Serve, Serves, Becomes, IInv, PageFacts

LEMMA ServeKeepsInv ==
    ASSUME IInv, NEW q \in Slots, Serve(q)
    PROVE  IInv'
<1> DEFINE r == wire[q].res
<1>1. /\ wire[q] \in Calls /\ r \in Resv /\ Exists(r)
      /\ \A step \in {"sent", "checked", "done", "refused"} :
            Becomes(q, step) => Serves(q, step)
  BY ServedCalls
<1>2. /\ status \in [Resv -> Statuses] /\ paid \in [Resv -> 0..2]
      /\ \A x \in Resv : /\ paid[x] > 0 => Exists(x)
                         /\ status[x] = "RESERVED" => paid[x] > 0
                         /\ paid[x] > 1 => x \in strayed
      /\ \A s \in Slots : CallFacts(s)
  BY DEF IInv, TypeOK, PageFacts, ReservedFacts, WriteFacts, ChargedTwiceOnlyAstray
<1>3. ASSUME UNCHANGED serverVars,
             NEW step \in {"checked", "refused"}, Becomes(q, step),
             wire[q].what = "pay" /\ step = "checked" => paid[r] = 0
      PROVE  IInv'
  <2>1. status' = status /\ paid' = paid /\ Serves(q, step)
    BY <1>1, <1>3 DEF serverVars
  <2>2. \A x \in Resv : paid[x] \in Nat
    BY <1>2
  <2>3. \A x \in Resv : /\ Exists(x) => Exists(x)'
                        /\ paid[x] <= paid'[x]
                        /\ paid'[x] > 0 => Exists(x)'
                        /\ status'[x] = "RESERVED" => paid'[x] > 0
                        /\ paid'[x] > 1 => x \in strayed
    BY <1>2, <2>1, <2>2 DEF Exists
  <2>4. \A s \in Slots \ {q} :
           wire[s].what = "pay" /\ wire[s].step = "checked" /\ paid'[wire[s].res] > 0
              => wire[s].res \in strayed
    BY <1>2, <2>1 DEF CallFacts
  <2>5. QED
    BY <1>2, <1>3, <2>1, <2>3, <2>4, ServiceKeepsInv
<1>4. CASE CheckPay(q) \/ CheckCancel(q)
  BY <1>3, <1>4 DEF CheckPay, CheckCancel
<1>5. CASE SavePay(q) /\ Becomes(q, "refused") /\ UNCHANGED serverVars
  BY <1>3, <1>5
<1>6. CASE /\ wire[q].what = "pay" /\ wire[q].step = "checked" /\ Becomes(q, "done")
           /\ paid' = [paid EXCEPT ![r] = IF @ < 2 THEN @ + 1 ELSE @]
           /\ \/ status[r] = "PENDING_PAYMENT" /\ status' = [status EXCEPT ![r] = "RESERVED"]
              \/ UNCHANGED status
  <2>1. Serves(q, "done")
    BY <1>1, <1>6
  <2>2. /\ paid' \in [Resv -> 0..2] /\ paid'[r] > 0
        /\ paid'[r] > 1 => paid[r] > 0
        /\ \A x \in Resv : /\ paid[x] \in Nat /\ paid'[x] \in Nat /\ paid[x] <= paid'[x]
                           /\ x # r => paid'[x] = paid[x]
    BY <1>1, <1>2, <1>6
  <2>3. /\ status' \in [Resv -> Statuses] /\ status'[r] # "none"
        /\ \A x \in Resv : x # r => status'[x] = status[x]
    <3>1. "RESERVED" \in Statuses /\ status[r] # "none"
      BY <1>1 DEF Statuses, Exists
    <3>2. QED
      BY <1>1, <1>2, <1>6, <3>1
  <2>4. \A x \in Resv : /\ Exists(x) => Exists(x)'
                        /\ paid[x] <= paid'[x]
                        /\ paid'[x] > 0 => Exists(x)'
                        /\ status'[x] = "RESERVED" => paid'[x] > 0
                        /\ paid'[x] > 1 => x \in strayed
    <3>1. paid[r] > 0 => r \in strayed
      BY <1>2, <1>6 DEF CallFacts
    <3>2. QED
      BY <1>2, <2>2, <2>3, <3>1 DEF Exists
  <2>5. ASSUME NEW s \in Slots \ {q}, wire[s].what = "pay", wire[s].step = "checked",
               paid'[wire[s].res] > 0
        PROVE  wire[s].res \in strayed
    <3>1. wire[s].res \in Resv
      BY <2>5, SlotsAreTyped DEF IInv
    <3>2. CASE wire[s].res = r
      <4>1. ~(wire[q].awaitedBy = "modal" /\ wire[s].awaitedBy = "modal")
        BY <1>6, <2>5 DEF IInv, WriteFacts, OneAwaited
      <4>2. QED
        BY <1>2, <1>6, <2>5, <3>2, <4>1 DEF CallFacts
    <3>3. CASE wire[s].res # r
      BY <1>2, <2>2, <2>5, <3>1, <3>3 DEF CallFacts
    <3>4. QED
      BY <3>2, <3>3
  <2>6. QED
    BY <2>1, <2>2, <2>3, <2>4, <2>5, ServiceKeepsInv
<1>7. CASE SaveCancel(q)
  <2>1. /\ Serves(q, "done") /\ wire[q].what = "cancel" /\ paid' = paid
        /\ status' = [status EXCEPT ![r] = "CANCELLED"]
    BY <1>1, <1>7 DEF SaveCancel
  <2>2. /\ status' \in [Resv -> Statuses] /\ status'[r] = "CANCELLED"
        /\ \A x \in Resv : x # r => status'[x] = status[x]
    BY <1>1, <1>2, <2>1 DEF Statuses
  <2>3. \A x \in Resv : /\ Exists(x) => Exists(x)'
                        /\ paid[x] <= paid'[x]
                        /\ paid'[x] > 0 => Exists(x)'
                        /\ status'[x] = "RESERVED" => paid'[x] > 0
                        /\ paid'[x] > 1 => x \in strayed
    <3>1. \A x \in Resv : paid[x] \in Nat
      BY <1>2
    <3>2. QED
      BY <1>2, <2>1, <2>2, <3>1 DEF Exists
  <2>4. \A s \in Slots \ {q} :
           wire[s].what = "pay" /\ wire[s].step = "checked" /\ paid'[wire[s].res] > 0
              => wire[s].res \in strayed
    BY <1>2, <2>1 DEF CallFacts
  <2>5. QED
    BY <1>2, <2>1, <2>2, <2>3, <2>4, ServiceKeepsInv
<1>8. QED
  BY <1>4, <1>5, <1>6, <1>7 DEF Serve, SavePay

-----------------------------------------------------------------------------
\* Answers

\* An answer ends its own call; other calls are, at most, no longer awaited by a
\* modal.  Services and addresses stay as they are.
Ends(q) ==
    /\ wire[q] \in Calls /\ wire'[q] = Idle
    /\ wire' \in [Slots -> Calls \cup {Idle}]
    /\ \A s \in Slots \ {q} : /\ wire'[s].what = wire[s].what
                              /\ wire'[s].res = wire[s].res
                              /\ wire'[s].step = wire[s].step
                              /\ wire'[s] # Idle => wire[s] # Idle
                              /\ \/ wire'[s].awaitedBy = wire[s].awaitedBy
                                 \/ /\ wire[s].what = "pay" /\ wire'[s].awaitedBy = "page"
                                    /\ wire[s].res \in strayed'
    /\ UNCHANGED <<serverVars, token, page, shown, carried, screen, load, live, visits, faults>>

LEMMA EndingKeepsInv ==
    ASSUME IInv, NEW q \in Slots, Ends(q),
           view' = view \/ view' = [view EXCEPT ![wire[q].res] = "none"]
             \/ view' = [view EXCEPT ![wire[q].res] = "CANCELLED"]
             \/ (view' = [view EXCEPT ![wire[q].res] = "RESERVED"] /\ paid[wire[q].res] > 0),
           beside' \in {beside, "first"}, paying' \in {paying, NoOne},
           submitting' \in BOOLEAN, cancelling' \in BOOLEAN,
           confirming' \in {confirming, FALSE}, strayed' \in SUBSET Resv,
           strayed \subseteq strayed',
           \A s \in Slots \ {q} : wire'[s].what = "pay" /\ wire'[s].awaitedBy = "modal"
                                     => submitting' = submitting /\ paying' = paying,
           \A s \in Slots \ {q} : wire'[s].what = "cancel" /\ wire'[s].awaitedBy = "modal"
                                     => cancelling' = cancelling
    PROVE  IInv'
<1> USE DEF IInv
<1>1. /\ wire[q] \in Calls /\ wire[q] # Idle /\ wire[q].res \in Resv
      /\ wire'[q].what = "none" /\ wire'[q].awaitedBy = "gone" /\ wire'[q].step = "idle"
      /\ wire'[q] = Idle
      /\ UNCHANGED <<status, paid, token, page, shown, carried, screen, load, live, visits,
                     faults>>
  BY SlotsAreTyped DEF Ends, Idle, serverVars
<1>2. \A s \in Slots \ {q} :
         /\ wire'[s].what = wire[s].what /\ wire'[s].res = wire[s].res
         /\ wire'[s].step = wire[s].step
         /\ wire'[s] # Idle => wire[s] # Idle
         /\ \/ wire'[s].awaitedBy = wire[s].awaitedBy
            \/ /\ wire[s].what = "pay" /\ wire'[s].awaitedBy = "page"
               /\ wire[s].res \in strayed'
  BY DEF Ends
<1>3. /\ \A x \in Resv : \/ view'[x] = view[x]
                         \/ x = wire[q].res /\ view'[x] \in {"none", "CANCELLED"}
                         \/ x = wire[q].res /\ view'[x] = "RESERVED" /\ paid[x] > 0
      /\ view' \in [Resv -> Statuses \cup {"PAID", "unknown"}]
  <2>1. view \in [Resv -> Statuses \cup {"PAID", "unknown"}]
    BY DEF TypeOK
  <2>2. {"none", "CANCELLED", "RESERVED"} \subseteq Statuses \cup {"PAID", "unknown"}
    BY DEF Statuses
  <2>3. QED
    BY <1>1, <2>1, <2>2
<1>4. TypeOK'
  <2>1. /\ beside' \in Statuses \cup {"first", "refresh", "second", "found", "missing"}
        /\ paying' \in Resv \cup {NoOne} /\ confirming' \in BOOLEAN
    BY DEF TypeOK
  <2>2. wire' \in [Slots -> Calls \cup {Idle}]
    BY DEF Ends
  <2>3. QED
    BY <1>1, <1>3, <2>1, <2>2 DEF TypeOK
<1>5. PageFacts'
  <2>1. Exists(wire[q].res) /\ \A x \in Resv : Exists(x)' <=> Exists(x)
    BY <1>1 DEF PageFacts, Exists
  <2>2. \A x \in Resv : paid'[x] > 0 \/ view'[x] \notin {"none", "unknown"} => Exists(x)'
    BY <1>1, <1>3, <2>1 DEF PageFacts
  <2>3. \A s \in Slots : wire'[s] # Idle => Exists(wire[s].res) /\ wire'[s].res = wire[s].res
    BY <1>1, <1>2 DEF PageFacts
  <2>4. beside' = "missing" => beside = "missing"
    OBVIOUS
  <2>5. paying' # NoOne => paying' = paying
    OBVIOUS
  <2>6. confirming' => confirming
    OBVIOUS
  <2>7. QED
    BY <1>1, <2>2, <2>3, <2>4, <2>5, <2>6 DEF PageFacts, Exists, BesideIsFound
<1>6. ReservedFacts'
  <2>1. \A s \in Slots : wire'[s].what = "pay" /\ wire'[s].step = "done"
                           => paid[wire'[s].res] > 0
    BY <1>1, <1>2 DEF ReservedFacts
  <2>2. beside' = "RESERVED" => beside = "RESERVED"
    OBVIOUS
  <2>3. \A x \in Resv : view'[x] = "RESERVED" => paid[x] > 0
    BY <1>3 DEF ReservedFacts
  <2>4. QED
    BY <1>1, <2>1, <2>2, <2>3 DEF ReservedFacts
<1>7. WriteFacts'
  <2>1. ASSUME NEW s \in Slots PROVE CallFacts(s)'
    <3>1. CASE s = q
      BY <1>1, <3>1 DEF CallFacts
    <3>2. CASE s # q /\ wire'[s].awaitedBy = wire[s].awaitedBy
      BY <1>1, <1>2, <3>2 DEF CallFacts, WriteFacts
    <3>3. CASE /\ s # q /\ wire[s].what = "pay" /\ wire'[s].awaitedBy = "page"
               /\ wire[s].res \in strayed'
      BY <1>1, <1>2, <3>3 DEF CallFacts, WriteFacts
    <3>4. QED
      BY <1>2, <3>1, <3>2, <3>3
  <2>2. OneAwaited'
    BY <1>1, <1>2 DEF OneAwaited, WriteFacts
  <2>3. ChargedTwiceOnlyAstray'
    BY <1>1 DEF ChargedTwiceOnlyAstray, WriteFacts
  <2>4. QED
    BY <2>1, <2>2, <2>3 DEF WriteFacts
<1>8. QED
  BY <1>4, <1>5, <1>6, <1>7

\* The call of one slot is over and nothing happens to the others.
LEMMA OnlyOneEnds ==
    ASSUME IInv, NEW q \in Slots, wire[q] \in Calls, wire' = [wire EXCEPT ![q] = Idle],
           UNCHANGED <<serverVars, token, page, shown, carried, screen, load, live, visits,
                       faults>>
    PROVE  Ends(q) /\ \A s \in Slots \ {q} : wire'[s] = wire[s]
BY DEF Ends, IInv, TypeOK

\* Where a modal waits for this answer, none waits for another of its kind.
LEMMA NoOtherAwaited ==
    ASSUME IInv, NEW q \in Slots, NEW s \in Slots \ {q}, wire[q].awaitedBy = "modal",
           wire[s].what = wire[q].what
    PROVE  wire[s].awaitedBy # "modal"
BY DEF IInv, WriteFacts, OneAwaited

LEMMA PaidKeepsInv ==
    ASSUME IInv, NEW q \in Slots, wire[q].what = "pay", wire[q].step = "done",
           wire[q].awaitedBy # "gone", Paid(q),
           UNCHANGED <<serverVars, token, visits, faults>>
    PROVE  IInv'
<1> DEFINE r == wire[q].res
<1>1. wire[q] \in Calls /\ wire[q] # Idle /\ r \in Resv /\ paid[r] > 0
  BY SlotsAreTyped DEF IInv, ReservedFacts
<1>2. wire[q].awaitedBy = "modal" \/ r \in strayed
  BY DEF IInv, WriteFacts, CallFacts
<1>3. /\ strayed' = strayed \cup (Awaited \ {r})
      /\ paying' = NoOne /\ submitting' = FALSE
      /\ UNCHANGED <<page, shown, carried, screen, load, live, confirming, cancelling>>
      /\ view' = [view EXCEPT ![r] = IF page = "pending" THEN "none" ELSE "RESERVED"]
      /\ beside' \in {beside, "first"}
  BY DEF Paid
<1>4. wire'[q] = Idle
  BY DEF Paid
<1>5. ASSUME NEW s \in Slots \ {q}
      PROVE  /\ wire'[s] \in Calls \cup {Idle}
             /\ wire'[s].what = wire[s].what /\ wire'[s].res = wire[s].res
             /\ wire'[s].step = wire[s].step
             /\ wire'[s] # Idle => wire[s] # Idle
             /\ \/ wire'[s].awaitedBy = wire[s].awaitedBy
                \/ /\ wire[s].what = "pay" /\ wire'[s].awaitedBy = "page"
                   /\ wire[s].res \in strayed'
             /\ ~(wire'[s].what = "pay" /\ wire'[s].awaitedBy = "modal")
  <2>1. CASE wire[s].what = "pay" /\ wire[s].awaitedBy = "modal"
    <3>1. wire'[s] = [wire[s] EXCEPT !.awaitedBy = "page"]
      BY <2>1 DEF Paid
    <3>2. wire[s] \in Calls /\ wire[s] # Idle
      BY <2>1, SlotsAreTyped DEF IInv
    <3>3. /\ wire'[s].what = wire[s].what /\ wire'[s].res = wire[s].res
          /\ wire'[s].step = wire[s].step /\ wire'[s].awaitedBy = "page"
          /\ wire'[s] \in Calls
      BY <3>1, <3>2 DEF Calls
    <3>4. wire[s].res \in Awaited
      BY <2>1, AwaitedHasThem
    <3>5. wire[s].res \in strayed'
      BY <1>2, <1>3, <2>1, <3>4, NoOtherAwaited
    <3>6. QED
      BY <2>1, <3>2, <3>3, <3>5
  <2>2. CASE ~(wire[s].what = "pay" /\ wire[s].awaitedBy = "modal")
    <3>1. wire'[s] = wire[s]
      BY <2>2 DEF Paid
    <3>2. QED
      BY <2>2, <3>1, SlotsAreTyped DEF IInv
  <2>3. QED
    BY <2>1, <2>2
<1>6. wire' \in [Slots -> Calls \cup {Idle}]
  <2>1. \A s \in Slots : wire'[s] \in Calls \cup {Idle}
    BY <1>4, <1>5
  <2>2. QED
    BY <2>1 DEF Paid
<1>7. Ends(q)
  BY <1>1, <1>3, <1>4, <1>5, <1>6 DEF Ends
<1>8. strayed' \in SUBSET Resv
  <2>1. strayed \in SUBSET Resv /\ Awaited \in SUBSET Resv
    BY AwaitedIsTyped DEF IInv, TypeOK
  <2>2. QED
    BY <1>3, <2>1
<1>9. /\ paying' \in {paying, NoOne} /\ submitting' \in BOOLEAN /\ cancelling' \in BOOLEAN
      /\ confirming' \in {confirming, FALSE} /\ cancelling' = cancelling
      /\ strayed \subseteq strayed'
      /\ \/ view' = [view EXCEPT ![r] = "none"]
         \/ view' = [view EXCEPT ![r] = "RESERVED"] /\ paid[r] > 0
  BY <1>1, <1>3 DEF IInv, TypeOK
<1>10. QED
  BY <1>3, <1>5, <1>7, <1>8, <1>9, EndingKeepsInv

LEMMA AnswerKeepsInv ==
    ASSUME IInv, NEW q \in Slots, PayAnswered(q) \/ CancelAnswered(q) \/ Unheard(q)
    PROVE  IInv'
<1>1. CASE PayAnswered(q) /\ wire[q].step = "done"
  BY <1>1, PaidKeepsInv DEF PayAnswered
<1>2. CASE PayAnswered(q) /\ wire[q].step = "refused"
  <2>1. wire[q] \in Calls /\ wire' = [wire EXCEPT ![q] = Idle]
    BY <1>2, SlotsAreTyped DEF PayAnswered, IInv
  <2>2. /\ submitting' = (submitting /\ wire[q].awaitedBy # "modal")
        /\ view' = view /\ beside' = beside /\ paying' = paying /\ confirming' = confirming
        /\ cancelling' = cancelling /\ strayed' = strayed
    BY <1>2 DEF PayAnswered, pageVars
  <2>3. Ends(q) /\ \A s \in Slots \ {q} : wire'[s] = wire[s]
    BY <1>2, <2>1, OnlyOneEnds DEF PayAnswered, pageVars
  <2>4. \A s \in Slots \ {q} : wire'[s].what = "pay" /\ wire'[s].awaitedBy = "modal"
                                  => submitting' = submitting /\ paying' = paying
    <3>1. ASSUME NEW s \in Slots \ {q}, wire'[s].what = "pay", wire'[s].awaitedBy = "modal"
          PROVE  submitting' = submitting
      <4>1. wire[q].awaitedBy # "modal"
        BY <1>2, <2>3, <3>1, NoOtherAwaited DEF PayAnswered
      <4>2. submitting
        BY <2>3, <3>1 DEF IInv, WriteFacts, CallFacts
      <4>3. submitting'
        BY <2>2, <4>1, <4>2
      <4>4. submitting \in BOOLEAN /\ submitting' \in BOOLEAN
        BY <2>2 DEF IInv, TypeOK
      <4>5. QED
        BY <4>2, <4>3, <4>4
    <3>2. QED
      BY <2>2, <3>1
  <2>5. /\ submitting' \in BOOLEAN /\ cancelling' \in BOOLEAN /\ strayed' \in SUBSET Resv
    BY <2>2 DEF IInv, TypeOK
  <2>6. QED
    BY <2>2, <2>3, <2>4, <2>5, EndingKeepsInv
<1>3. CASE CancelAnswered(q)
  <2>1. wire[q] \in Calls /\ wire' = [wire EXCEPT ![q] = Idle]
    BY <1>3, SlotsAreTyped DEF CancelAnswered, IInv
  <2>2. /\ cancelling' = FALSE
        /\ view' = view \/ view' = [view EXCEPT ![wire[q].res] = "CANCELLED"]
        /\ beside' \in {beside, "first"} /\ confirming' \in {confirming, FALSE}
        /\ submitting' = submitting /\ paying' = paying /\ strayed' = strayed
    BY <1>3 DEF CancelAnswered
  <2>3. Ends(q) /\ \A s \in Slots \ {q} : wire'[s] = wire[s]
    BY <1>3, <2>1, OnlyOneEnds DEF CancelAnswered
  <2>4. ASSUME NEW s \in Slots \ {q}, wire'[s].what = "cancel", wire'[s].awaitedBy = "modal"
        PROVE  FALSE
    <3>1. wire[q].awaitedBy = "modal" /\ wire[q].what = "cancel"
      BY <1>3, <2>1 DEF CancelAnswered, IInv, WriteFacts, CallFacts, Calls
    <3>2. QED
      BY <2>3, <2>4, <3>1, NoOtherAwaited
  <2>5. submitting' \in BOOLEAN /\ cancelling' \in BOOLEAN /\ strayed' \in SUBSET Resv
    BY <2>2 DEF IInv, TypeOK
  <2>6. QED
    BY <2>2, <2>3, <2>4, <2>5, EndingKeepsInv
<1>4. CASE Unheard(q)
  <2>1. wire[q] # Idle /\ wire[q] \in Calls /\ wire' = [wire EXCEPT ![q] = Idle]
    <3>1. wire[q] # Idle
      BY <1>4 DEF Unheard, Idle
    <3>2. QED
      BY <1>4, <3>1, SlotsAreTyped DEF Unheard, IInv
  <2>2. Ends(q)
    BY <1>4, <2>1, OnlyOneEnds DEF Unheard, pageVars
  <2>3. /\ submitting' \in BOOLEAN /\ cancelling' \in BOOLEAN /\ strayed' \in SUBSET Resv
        /\ view' = view /\ beside' = beside /\ paying' = paying /\ confirming' = confirming
        /\ cancelling' = cancelling /\ submitting' = submitting /\ strayed' = strayed
    BY <1>4 DEF Unheard, IInv, TypeOK, pageVars, modalVars
  <2>4. QED
    BY <2>2, <2>3, EndingKeepsInv
<1>5. QED
  BY <1>1, <1>2, <1>3, <1>4 DEF PayAnswered

LEMMA LossKeepsInv == \A q \in Slots : IInv /\ LoseAnswer(q) => IInv'
<1> SUFFICES ASSUME NEW q \in Slots, IInv, LoseAnswer(q) PROVE IInv'
  OBVIOUS
<1> USE DEF IInv
<1>1. /\ wire[q] \in Calls /\ wire[q] # Idle /\ wire[q].res \in Resv
      /\ wire' = [wire EXCEPT ![q] = [wire[q] EXCEPT !.awaitedBy = "gone"]]
      /\ faults < MaxFaults /\ faults' = faults + 1
      /\ UNCHANGED <<status, paid, token, page, shown, carried, view, screen, load, live, beside,
                     paying, confirming, visits>>
      /\ strayed' = IF wire[q].what = "pay" THEN strayed \cup {wire[q].res} ELSE strayed
  BY SlotsAreTyped DEF LoseAnswer, serverVars, pageVars
<1>2. /\ \A s \in Slots : /\ wire'[s].what = wire[s].what /\ wire'[s].res = wire[s].res
                          /\ wire'[s].step = wire[s].step
                          /\ s # q => wire'[s] = wire[s]
      /\ wire'[q].awaitedBy = "gone" /\ wire'[q] \in Calls
  <2>1. wire'[q] = [wire[q] EXCEPT !.awaitedBy = "gone"]
          /\ \A s \in Slots \ {q} : wire'[s] = wire[s]
    BY <1>1 DEF TypeOK
  <2>2. /\ wire'[q].what = wire[q].what /\ wire'[q].res = wire[q].res
        /\ wire'[q].step = wire[q].step /\ wire'[q].awaitedBy = "gone"
        /\ wire'[q] \in Calls
    BY <1>1, <2>1 DEF Calls
  <2>3. QED
    BY <2>1, <2>2
<1>3. faults' \in 0..MaxFaults /\ faults' > 0 /\ strayed \subseteq strayed'
  BY <1>1, PagesAssumption DEF TypeOK
<1>4. TypeOK'
  <2>1. wire' \in [Slots -> Calls \cup {Idle}]
    BY <1>1, <1>2 DEF TypeOK
  <2>2. submitting' \in BOOLEAN /\ cancelling' \in BOOLEAN
    BY DEF LoseAnswer
  <2>3. strayed' \in SUBSET Resv
    <3>1. strayed \in SUBSET Resv
      BY DEF TypeOK
    <3>2. QED
      BY <1>1, <3>1
  <2>4. QED
    BY <1>1, <1>3, <2>1, <2>2, <2>3 DEF TypeOK
<1>5. PageFacts'
  <2>1. \A s \in Slots : wire'[s] # Idle => Exists(wire[s].res) /\ wire'[s].res = wire[s].res
    BY <1>1, <1>2 DEF PageFacts
  <2>2. QED
    BY <1>1, <1>3, <2>1 DEF PageFacts, Exists, BesideIsFound
<1>6. ReservedFacts'
  BY <1>1, <1>2 DEF ReservedFacts
<1>7. WriteFacts'
  <2>1. ASSUME NEW s \in Slots \ {q} PROVE CallFacts(s)'
    <3>1. ASSUME wire[s].what = "pay", wire[s].awaitedBy = "modal"
          PROVE  submitting' /\ paying' = wire[s].res
      <4>1. submitting /\ paying = wire[s].res
        BY <3>1 DEF WriteFacts, CallFacts
      <4>2. ~(wire[q].what = "pay" /\ wire[q].awaitedBy = "modal")
        BY <3>1, NoOtherAwaited
      <4>3. QED
        BY <1>1, <4>1, <4>2 DEF LoseAnswer
    <3>2. ASSUME wire[s].what = "cancel", wire[s].awaitedBy = "modal"
          PROVE  cancelling'
      <4>1. cancelling
        BY <3>2 DEF WriteFacts, CallFacts
      <4>2. wire[q].what = "cancel" => wire[q].awaitedBy = "modal"
        BY <1>1 DEF LoseAnswer, WriteFacts, CallFacts, Calls
      <4>3. wire[q].what # "cancel"
        BY <3>2, <4>2, NoOtherAwaited
      <4>4. QED
        BY <4>1, <4>3 DEF LoseAnswer
    <3>3. QED
      BY <1>1, <1>2, <1>3, <3>1, <3>2 DEF WriteFacts, CallFacts
  <2>2. CallFacts(q)'
    BY <1>1, <1>2 DEF CallFacts
  <2>3. OneAwaited'
    BY <1>2 DEF OneAwaited, WriteFacts
  <2>4. ChargedTwiceOnlyAstray'
    BY <1>1, <1>3 DEF ChargedTwiceOnlyAstray, WriteFacts
  <2>5. QED
    BY <2>1, <2>2, <2>3, <2>4 DEF WriteFacts
<1>8. QED
  BY <1>4, <1>5, <1>6, <1>7

-----------------------------------------------------------------------------
\* The theorems

LEMMA InitHasInv == Init => IInv
<1> SUFFICES ASSUME Init PROVE IInv
  OBVIOUS
<1>1. TypeOK
  <2>1. status \in [Resv -> Statuses] /\ paid \in [Resv -> 0..2]
    BY DEF Init, Statuses
  <2>2. view \in [Resv -> Statuses \cup {"PAID", "unknown"}]
    BY DEF Init, Unknown
  <2>3. wire \in [Slots -> Calls \cup {Idle}]
    BY DEF Init
  <2>4. /\ page \in Pages /\ shown \in Resv \cup {NoOne}
        /\ carried \in Statuses \cup {"PAID", "unknown"}
        /\ beside \in Statuses \cup {"first", "refresh", "second", "found", "missing"}
    BY DEF Init, Pages, Statuses
  <2>5. visits \in 0..MaxVisits /\ faults \in 0..MaxFaults
    BY PagesAssumption DEF Init
  <2>6. QED
    BY <2>1, <2>2, <2>3, <2>4, <2>5 DEF Init, TypeOK
<1>2. PageFacts
  BY NoOneAssumption DEF Init, PageFacts, OfOne, Unknown, BesideIsFound, Exists
<1>3. ReservedFacts
  BY DEF Init, ReservedFacts, Unknown, Idle
<1>4. WriteFacts
  BY DEF Init, WriteFacts, CallFacts, OneAwaited, ChargedTwiceOnlyAstray, Idle
<1>5. QED
  BY <1>1, <1>2, <1>3, <1>4 DEF IInv

LEMMA StutterKeepsInv == IInv /\ UNCHANGED vars => IInv'
BY DEF IInv, TypeOK, PageFacts, ReservedFacts, WriteFacts, CallFacts, OneAwaited, Exists,
       ChargedTwiceOnlyAstray, BesideIsFound, vars, serverVars, pageVars, modalVars

LEMMA NextKeepsInv == IInv /\ [Next]_vars => IInv'
<1> SUFFICES ASSUME IInv, [Next]_vars PROVE IInv'
  OBVIOUS
<1>1. CASE \/ \E p \in {"history", "pending", "payments", "home"} : OpenPage(p)
           \/ Reload
           \/ \E r \in Resv, p \in OfOne : OpenAddress(p, r)
  BY <1>1, OpeningKeepsInv
<1>2. ASSUME NEW r \in Resv,
             \/ Reserved(r) \/ OpenFromHistory(r) \/ OpenFromPending(r)
             \/ OpenFromPayments(r) \/ OpenFromReceipt(r)
      PROVE  IInv'
  BY <1>2, ReservedKeepsInv, LinksKeepInv
<1>3. ASSUME NEW r \in Resv, PayFromPending(r) \/ PayFromComplete(r) \/ PayFromDetail(r)
      PROVE  IInv'
  BY <1>3, ModalKeepsInv DEF PayFromPending, PayFromComplete, PayFromDetail
<1>4. CASE Loads
  BY <1>4, LoadKeepsInv, RoomLoadKeepsInv
     DEF Loads, HistoryLoads, PendingLoads, PaymentsLoad, DetailLoads, ReceiptLoads,
         CompleteLoads
<1>5. CASE BesideLoads
  BY <1>5, BesideKeepsInv
     DEF BesideLoads, DetailFacilities, CompleteFacilities, ReceiptReservation, OfOne
<1>6. CASE Retry \/ Boot \/ SessionEnds
  BY <1>6, RestKeepsInv
<1>7. CASE Confirm \/ Cancel
  BY <1>7, SendKeepsInv
<1>8. CASE Close \/ OpenCancelModal \/ CloseCancelModal
  BY <1>8, CloseKeepsInv, ModalKeepsInv
<1>9. ASSUME NEW q \in Slots,
             Serve(q) \/ PayAnswered(q) \/ CancelAnswered(q) \/ Unheard(q) \/ LoseAnswer(q)
      PROVE  IInv'
  BY <1>9, ServeKeepsInv, AnswerKeepsInv, LossKeepsInv
<1>10. CASE UNCHANGED vars
  BY <1>10, StutterKeepsInv
<1>11. QED
  BY <1>1, <1>2, <1>3, <1>4, <1>5, <1>6, <1>7, <1>8, <1>9, <1>10 DEF Next

\* The facts about pages, modals and calls stay true whatever the customer opens,
\* leaves, reloads, pays and cancels, in whichever order answers come or are lost.
THEOREM PagesInductive == Spec => []IInv
<1>1. QED
  BY InitHasInv, NextKeepsInv, PTL DEF Spec

\* The pages, the modals and the calls in flight hold what the code can put there.
THEOREM PagesTypeCorrect == Spec => []TypeOK
<1>1. IInv => TypeOK
  BY DEF IInv
<1>2. QED
  BY <1>1, PagesInductive, PTL

\* No modal waits for two payments or two cancellations of a reservation at a time.
THEOREM ModalsWriteOnce == Spec => []NoRepeatedWrite
<1>1. IInv => NoRepeatedWrite
  BY DEF IInv, WriteFacts, OneAwaited, NoRepeatedWrite
<1>2. QED
  BY <1>1, PagesInductive, PTL

\* Only a payment that no modal waited for makes one tab charge a reservation twice.
THEOREM ChargedOnceUnlessAstray == Spec => []ChargedTwiceOnlyAstray
<1>1. IInv => ChargedTwiceOnlyAstray
  BY DEF IInv, WriteFacts
<1>2. QED
  BY <1>1, PagesInductive, PTL

\* A reservation that a page shows as confirmed has been paid for.
THEOREM ReservedMeansPaid == Spec => []ShownReservedIsPaid
<1>1. IInv => ShownReservedIsPaid
  BY DEF IInv, ReservedFacts, ShownReservedIsPaid
<1>2. QED
  BY <1>1, PagesInductive, PTL

\* What a page shows beside its subject is missing only after a failure or the end
\* of the session.
THEOREM BesideMissingMeansFault == Spec => []BesideIsFound
<1>1. IInv => BesideIsFound
  BY DEF IInv, PageFacts
<1>2. QED
  BY <1>1, PagesInductive, PTL
=============================================================================
