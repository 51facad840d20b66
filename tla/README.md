# TLA+ verification of the hotel reservation service

This directory models the part of the repository where a mistake costs a guest a
room or money, shows something that is not so, or leaves a session open: the
room calendar, the booking, payment and refund flow across four services, the
refresh-token sessions, the room catalogue, the chat bot, and the pages of the
frontend that use them. TLC checks the models on small instances; TLAPS proves
every safety property that the passing runs check, for every value of the
constants. All paths below are relative to the repository's `src/backend/apps/`
unless they start with `src/`.

## 1. The system

NestJS services that talk gRPC, one MariaDB schema per service (TypeORM), Redis
for refresh tokens, DynamoDB for the chat, and a React frontend in front of one
HTTP gateway. Every service runs in several replicas, and in each replica an
`async` handler loses control at every `await`. No transaction spans two
services, and inside a service only two operations open one
(`reserveRoomAvailability` and `deleteUser`).

| Component | State | Operations that change it | Talks to |
|---|---|---|---|
| hotel-service, room calendar | `room_availabilities` rows (room, date, isAvailable) | ReserveRoomAvailability (transaction, row locks), SetRoomAvailability (one UPDATE), DeleteRoom | called by booking-service and the gateway |
| hotel-service, catalogue | rooms, images, hotels, facilities | Create/Update/DeleteRoom, replaceRoomImages, Create/Update hotel and facility | called by the gateway and booking-service |
| booking-service | `reservations`, `reservation_facilities` | CreateBooking, CreateReservationFacility, CancelBooking, ConfirmBooking | hotel-service, payment-service |
| payment-service | `payments` | RequestPayment, HandlePaymentWebhook, RefundPayment | booking-service, payment gateway |
| pg-mock-service | payments in a `Map` of the process | create, approve, cancel; posts one webhook per event | payment-service through the API gateway |
| auth-service | `credentials`; Redis keys `refresh:user:<id>`, `refresh:grace:user:<id>`, `refresh:issuedAt:user:<id>` | Register, Login, AdminLogin, Refresh, Logout, ChangePassword, Withdraw | user-service, Redis |
| user-service | `users`, `deleted_user`, `admins` | CreateUser, UpdateUser, DeleteUser, CreateAdmin | called by auth-service and the gateway |
| chat-bot-service | DynamoDB tables `ChatSessions` (with `userId-index`) and `ChatMessages` | SendMessage: look-up or creation of the session, question, history, answer | an n8n workflow |
| api-gateway | none; sets and clears the refresh cookie | HTTP routes, guards, rate limit | all services |
| frontend, HTTP client | per tab the access tokens and names of a customer and an administrator, one refresh of each in flight; per browser two cookies | sign-in and sign-out, `authorizedFetch` and `authedFetch` (administrators, with its renewal), `fetchWithRateLimitRetry` | api-gateway |
| frontend, pages | what each page has loaded, its modals and forms, `location.state` | search, options, reservation, payment window, cancellation, lists; administrators' rooms; chat widget | api-gateway |
| langchain_rag, libs/common, seed script, gitops, infra, workflows | data files, configuration | | |

What is hard, and what makes each part correct:

- **Calendar.** Overlapping bookings, releases and deletions of the same rows
  run at once. A booking takes all of its nights or none and never a night
  another booking has taken; a refusal is justified; no call waits for ever on
  row locks.
- **Booking, payment, refund.** Handlers read a status, await other services and
  write later; calls get lost, webhooks come early, late or not at all, and the
  gateway forgets its records. Nights must follow reservations, a reservation is
  confirmed only when paid, and a cancelled one gets its money back.
- **Sessions.** Refreshes race each other, logouts, password changes and
  withdrawals, on three keys that are written one by one. An ended session stays
  ended, rotation never extends a session beyond its absolute limit, a withdrawn
  account gets no tokens.
- **Catalogue.** Rooms, pictures and calendar are written in several statements
  without a transaction, an update saves a row it has read before, and the reads
  of the pages run between them. Writes that do not cross leave exactly what the
  last of them says; no night is for sale without its room.
- **Pages.** An answer may find its page left, showing another room, month or
  address, or its modal closed; a page may be loading while a token is renewed.
  A page shows what belongs to its address, no button sends twice, what the
  guest is told to pay is what is charged, and every page stops loading.
- **Tabs.** All tabs of a browser share the cookies and each has its own tokens.
  Renewals of several tabs cross each other and logouts. Nobody is sent to the
  login page needlessly, and whoever has signed out stays out, whatever the order
  of the answers; where auth-service itself lets two calls race, neither holds.
- **Chat bot.** An index and replicas that lag, a rate limiter whose refusals
  are repeated, a workflow of unknown duration. A message is stored once, an
  answer follows its question, and the widget does not wait for ever.

`PROJECT.json` lists every hazard at its source line with the property that
covers it, or the reason why none does.

## 2. The modules

```
StayDates ── RoomCalendar ──┬── NightLedger        what the calendar promises
                            ├── RoomInventory      how the SQL keeps it
                            │     └ RoomInventoryProofs, MCRoomInventory
SagaParties ─┬─ BookingService ─┐
             ├─ PaymentService ─┼── HotelSaga ── HotelSagaProperties
             └─ PgMock ─────────┘     └ HotelSagaProofs, MCHotelSaga
UserService ── AuthService ── Sessions              one address, await by await
                              └ SessionsProofs, MCSessions
TokenStore                                          many tabs, auth-service await by await
  └ TokenStoreProofs, MCTokenStore
RoomService ─┬─ AdminRooms                          the catalogue under the administrators,
             │    └ AdminRoomsProofs, MCAdminRooms
             └─ GuestQuotes                         and under a guest
                  └ GuestQuotesProofs, MCGuestQuotes
ReservationPages
  └ ReservationPagesProofs, MCReservationPages
ChatBot
  └ ChatBotProofs, MCChatBot
```

### StayDates, RoomCalendar, NightLedger, RoomInventory

`RoomCalendar` is the rows of one room: no row, free or taken per date, and the
calls as indivisible steps. `NightLedger` is the abstract specification of
hotel-service's calendar: every call takes effect in one step between its
arrival and its answer. `RoomInventory` is `room.service.ts` at the grain of its
SQL: a locking statement visits the rows of its range one by one in date order
(the primary key is `(room_id, date)`, and the locking SELECT is `ORDER BY
date`), waits at a row another transaction holds, decides in the service's
memory, writes and commits. `Begin` is the arrival of a call; `VisitNight` one
row of its scan; `Decide` the comparison of `rows.length` with the number of
nights and the search for a closed row; `CommitReserve` and `CommitStatement`
the writes; `Abort` a lost connection, a lock wait timeout or a crash before the
commit, with the rollback. A commit whose reply is lost counts as granted or
done here; the saga has the caller's side of it as an abandoned handler. The
three statements of `deleteRoom` are not one transaction; only the second one,
on the calendar rows, is in this module. A row lock found on a gap (no row) is
not modelled: InnoDB may also lock gaps, which can make a call wait longer, and
no code of the repository inserts calendar rows while bookings run.

### BookingService, PaymentService, PgMock, HotelSaga

One module per service with its table, its handlers' program counters and one
action per awaited call; `HotelSaga` joins each action with what it does in the
service it calls. `createBooking` is `CreateStart`, `CreateReserve`,
`CreatePrice`, `CreateSave`, `CreateExtras`; `cancelBooking` is `CancelStart`,
`CancelSave`, `CancelRelease` and then the `refundPayment` it waits for
(`RefundFind`, `RefundAtGateway`, `RefundSave`); `requestPayment` is `PayStart`
... `PayConfirm`, where the read and the save of `confirmBooking` are two steps;
`handlePaymentWebhook` is `HookStart` ... `HookConfirm`. The calendar appears
with the indivisible `Reserve` and `Release` of `RoomCalendar`, which the
refinement `ImplementsLedger` justifies.

Faults are actions of their own, counted by `faults`: a handler stops where it
stands (an awaited call fails or its reply is lost, or the pod dies), a webhook
is lost, `setRoomAvailability` or `confirmBooking` fails while the handler goes
on, as the code's `catch` does, or the gateway restarts with an empty `Map`.

Data left out: amounts, names, guest counts. A facility is either in the hotel's
catalogue or not. A payment key is named by the request that made it, a payment
row by its key and the handler that inserted it.

### UserService, AuthService, Sessions

`UserService` is the `users` row of one e-mail address and its backup (addresses
do not interact; who registers again gets a new id). `AuthService` has the
credentials and the three Redis keys, with one action per `await`: `CheckAge`
and `ResetAge` are `assertWithinAbsoluteLifetime`, `CompareToken` and
`CompareGrace` the two comparisons of `refresh`, `Rotate`, `StartSession` and
`StoreToken` are `issueTokens`, `DeleteToken`, `DeleteGrace` and `DeleteIssued`
the three deletions that logout, changePassword, withdraw and the absolute limit
share. `Tick` is the clock, at which Redis drops what has expired. `Sessions`
adds the browsers with their cookie and access token, the gateway's routes and
the lost answer of a reloaded page (`Deliver` may leave the cookie as it was). A
refresh token is its account and the second it was signed in, because that is
all that varies in the signed payload. The access token's own lifetime is left
out: it stays usable as long as the browser keeps it, which allows more than the
code does. Administrators run the same handlers on keys of their own.

The variables `loginAt`, `over`, `gone`, `torn` and `seen` are history: no
action of the code reads them. `torn` notes that calls have crossed in one of
the ways in which the code gives no guarantee: a session is ended (its keys
deleted one by one) while another call is renewing or starting one; a refresh
that found no start time overwrites the one of a login since; a login fails
between its two writes; the address has passed to another account. Without any
one of these notes TLC finds a counterexample to `AbsoluteLimit` or
`EndedSessionStaysEnded`; for the overwritten start it takes a fifth call
(`MaxCalls = 5` with one browser and no fault, where the three properties hold
as well).

### TokenStore

The HTTP client of the frontend (`src/frontend/src/api/gateway.ts`) in several
tabs of one browser. The tabs share one refresh cookie of each type (`jar`) and
have access tokens and names of their own (`access`, `fresh`, `user`), which a
reload forgets. `AwaitRefresh` is a page of an account, or AdminGuard, that has
no token the gateway takes: it joins the refresh its tab has in flight or starts
one. `LogOut`, `UpdateMe`, `ChangePassword` and `Withdraw` send what the buttons
and forms send, `RefreshAnswered` and its neighbours are what the client does
with the answers. A cookie is set as soon as an answer arrives, in whatever order
the answers do, and an answer to a reloaded tab sets it or not. `Limited` is the
rate limiter's refusal of a renewal, which is sent again with the cookie the
browser has by then.

A request in auth-service goes on one `await` at a time wherever it loses control
between a read and a write of the refresh keys, or between two writes
(`wire[q].step`). `Compare` is the first read of `refresh`; `Excuse` the second
one, of the grace key, which answers with what the first has read; `Rotate` the
two writes of `issueTokens`, the old token into its grace period and then the new
one, whatever has become of the keys since. `ServeLogin` checks the password and
then writes. `EndSession` and `EndGrace` are the first two deletions of logout,
changePassword and withdraw, `DeleteProfile` what withdraw does before. `GraceEnds`
is the end of the 20 seconds, at any time, also while a request with the replaced
token is on its way (the client waits up to 30 for the rate limiter). Left out is
the start of the session (`refresh:issuedAt`), the subject of `Sessions`, which
has these calls with a clock, for one address and without tabs. A look-up in
user-service goes with the read before it: a profile that is gone stays gone, and
the row that a crossing update brings back is in `Sessions`. The JWT is
stateless: a logout of a withdrawn account is served.

History: `out` (who signed out last, from the moment the newest token was
deleted), `crossed` (an update of the profile was answered after a change of
account), `needless` (someone waiting was sent to the login page although the
token was good when it was sent and nothing has ended it since), and `raced`, the
accounts for which the code gives no guarantee: a renewal has compared its token
and is still to write while another one compares too, a login or an end of the
session writes, or the grace period of the token it has kept ends. Of two renewals
that both rotate the later one drops the token of the earlier one; and a renewal
that writes after a logout opens the session again, with a cookie that auth-service
takes. Without `raced` TLC finds a counterexample to `NoNeedlessLogin` and one to
`SignedOutStaysOut`. An account is no longer in `raced` when a login or an end of
its session finds no renewal under way.

### RoomService, AdminRooms, GuestQuotes

`RoomService` is `room.service.ts` without the locks: rooms, their pictures by
sort order, their calendar, and a job per request that goes on one statement at
a time. `UpdateRoom` finds, saves and replaces the pictures; `DeleteRoom` finds
and deletes pictures, calendar and row; `ReadRooms` reads rows and then
pictures; `SearchAvailableRooms` reads rooms and then calendars. `CreateBooking`
takes the nights in one step, which `RoomInventory` justifies, and then sums the
amount of the nights and facilities. The history variables are `saved` (what the
last write leaves that was alone from its beginning to its end) and `mixed`
(rooms whose writes have crossed or failed half-way).

`AdminRooms` adds the administrators' page of a hotel and of a room: loads of
the room and of a month of its calendar, the forms with their saves, the
deletion that opens the hotel's page, ways from page to page while all of that
is on its way, and a second administrator who changes the same rooms.
`GuestQuotes` adds a guest's way from the search to the booking: `OpenRooms` and
`RoomsFound` are the page of the rooms, `Select`, `PriceLoaded`, `SetCount` and
`Reserve` the page of the options, `JumpRooms` and `JumpOptions` the history,
which changes a page's address and leaves its contents. Other guests book and
administrators change or delete the room meanwhile. An answer nobody waits for
is dropped with its request, because a read changes nothing.

### ReservationPages

The pages of a customer's reservations in one tab: `Mount` is a page with the
state its link gives it, `LoadStep` its load with the 401, the renewal and the
second attempt, `CleanUp` and `RoomFound` the two effects of the complete page.
`OpenModal`, `Confirm` and `Close` are the payment window, which can be closed
while its request runs. What happens inside a payment or a cancellation is in
`HotelSaga`; here each is a check and a later write (`CheckPay` and `SavePay`,
`CheckCancel` and `SaveCancel`), which keeps the races that the pages can
meet. Every call knows who still waits for its answer: the modal, only the page,
or nobody. `carried` is `location.state`, which survives a reload. `beside` is what
a page fetches beside its subject, with a renewal of its own: the facilities of a
reservation (`DetailFacilities`, `CompleteFacilities`) and the reservation of a
payment (`ReceiptReservation`), which the receipt's link hands on, stale or not.
The history variable `strayed` names the reservations with a payment nobody waited for.

### ChatBot

The widget, the route with its rate limit, chat-bot-service and the workflow. A
call goes through `Limited` (429, sent again after a pause), `Accept`
(`OptionalJwtAuthGuard`: a token that has run out makes the caller nobody, who
is answered and not stored), `LookUp` and `CreateSession`, `StoreQuestion`,
`ReadRecent`, `WorkflowAnswers` and `StoreAnswer`. The index and the replicas
lag: a look-up sees the sessions the index has, a read may miss what has not
settled. Time is counted by the workflow's answers: two writes between which no
workflow answers may carry the same millisecond.

## 3. The runs

| Run | Instance | Question |
|---|---|---|
| `RoomInventory` | two calls of any kind on any range of four days, the last without a row; weak fairness | `LockedReadsAreCurrent`, `NoWaitCycle`, `GrantTakesFreeNights`, `RefusalIsJustified`, `ImplementsLedger`, `EveryCallEnds` |
| `Saga_payment` | one reservation, two payments, one cancellation, all webhooks, any one fault | `ConfirmedOnlyAfterPayment`, `RefundOnlyAfterCancel`, `RefundRecordedAfterRefund` |
| `Saga_nights` | two bookings, three nights, two cancellations, a known and an unknown facility, any two faults | `NightsSoldOnce`, `TakenNightsAreAccounted` |
| `Saga_live` | one payment, two cancellations, any one fault; fairness of begun handlers | `ApprovedIsRecorded`, `RecordedPaymentIsRefunded` |
| `Sessions` | two browsers, four calls, two at a time, two registrations, clock 0..2, one fault | `AbsoluteLimit`, `EndedSessionStaysEnded`, `WithdrawnStaysOut` |
| `Pages` | one tab, one reservation, four pages opened or reloaded, two calls in flight, one fault; fairness of loads and calls | `NoRepeatedWrite`, `ChargedTwiceOnlyAstray`, `ShownReservedIsPaid`, `BesideIsFound`, `PagesSettle` |
| `TokenStore` | two tabs, a customer and an administrator, three requests of which two in flight, each served await by await, grace periods that end at any time, one fault; fairness of requests | `NoNeedlessLogin`, `NameIsOfToken`, `SignedOutStaysOut`, `PagesDecide` |
| `AdminRooms` | two rooms and one that is created, two pictures, two writes in all by two administrators, three requests in flight, two moves, one fault | `RoomAsSaved`, `PageShowsItsRoom` |
| `GuestQuotes` | a room for one and a room for two, two nights, two searches and an options page in the history, two writes, one by others, two moves, one fault | `QuoteIsCharge`, `BookedRoomFits` |
| `ChatBot` | one member, two widgets, two messages, each sent twice at most; fairness of calls | `StoredOncePerSend`, `AnswersFollowQuestions`, `ContextHasQuestion`, `WidgetIsAnswered` |
| `Bug_double_booking`, `Bug_missed_refund` | the smallest instance that shows it | what a comment states and the code does not keep (section 5) |

Each component's run checks its type invariant too; the rows of RoomService,
which `GuestQuotes` shares, are checked with `AdminRooms`. `CHECK_DEADLOCK FALSE`
everywhere: each request is served once, calls and visits are bounded, and then
the model rightly stops; waiting on each other is checked by `NoWaitCycle`,
`EveryCallEnds`, `PagesSettle`, `PagesDecide` and `WidgetIsAnswered` instead.
Symmetry is used in `AdminRooms`, `GuestQuotes` and the safety runs of the saga
and of `Sessions`, whose slots and requests are interchangeable; never where
liveness is checked.

Every property is shown to be breakable: `PROJECT.json` names for each one a
mutation of a modelled definition (kept in the modules as `\* Mutant:`), such as
a SELECT without its lock, a count that is left out, a webhook that only logs,
a button that stays enabled, or infants that a search leaves out.

## 4. Bounds

- *Calendar.* Two calls are enough for every pairwise lock conflict, and four
  days for ranges that overlap, nest, touch or are disjoint, and that run past
  the seeded days. Wait cycles among more calls are excluded by proof, for any
  number.
- *Saga.* The races need two requests of one kind on one reservation (two
  payments, two cancellations) or two guests and ranges that overlap, nest or
  touch, hence two bookings over three nights; a third guest is needed only for
  the double booking after a double cancellation, which `Bug_double_booking`
  has. Two faults meet in `Saga_nights`; one in the others, since the comments
  promise recovery from one. The payment properties are proved for any number.
- *Sessions.* Four calls hold a registration, a rotation, a competitor and a
  late retry. `RefreshTTL = 2`, `GraceTTL = 1`, `AbsoluteMax = 1` and times 0..2
  order the three lifetimes so that a rotated token can outlive the absolute
  limit, which is the case the limit is for; the old token leaves its grace
  period before the new one expires. `MaxUsers = 2` lets the address be
  registered again after a withdrawal. Two slots make every pair of handlers
  interleave.
- *Tabs.* Two tabs and three requests hold two renewals with one token and a
  logout, a login or a third renewal that crosses them; a customer and an
  administrator in the same browser show that neither touches the other's keys.
  Two in flight make every pair of calls interleave at every await; that more of
  them change nothing is proved. 250,000 states.
- *Catalogue.* Two writes of one room can cross in every pair of their
  statements, and a third slot holds a load of the page between them. One night
  per month and a list of at most one picture tell stale from current content;
  pictures of two updates that mix show as two.
- *Quotes.* Two searches (one with an infant for one night, one for two nights)
  and two rooms with prices that are all different, so that a sum of other
  nights, another room or other options is another number. Two moves lead away
  from an address and back to it.
- *Pages.* Four visits are a reservation, a payment window that is left, a
  reload with the stale state and one page more; two calls in flight are two
  payments, or a payment and a cancellation. Reservations do not interact.
- *Chat.* Two messages of one member, from one widget or two, meet in every step
  of the service; `Limit = 2` is a history of one exchange, so that a newer
  message can push an older one out.
- The counters are `MaxTime`, `MaxUsers`, `MaxCalls`, `MaxFaults`, `MaxVisits`
  (pages opened, reloaded or retried), `MaxMoves` (ways between pages),
  `MaxOthers` (requests of other people) and `MaxTries` (attempts of one call: up to
  eight repeats in the client's code, `MAX_RATE_LIMIT_RETRIES`, two attempts in the
  instance and any number in the proofs), each bounded in the guard of the actions
  that count.

## 5. Where the code and its comments part

Two runs show a disagreement as a counterexample:

| Run | What happens |
|---|---|
| `Bug_double_booking` | two cancellations of one reservation pass the status check; the second release reopens nights another guest has booked in between, and a third books them. |
| `Bug_missed_refund` | a cancellation between the check and the save of `requestPayment` finds nothing to refund; the payment stays. |

The comment quoted for each is in `PROJECT.json` under `findings`. The others
are definitions with their comment, kept beside the properties that hold; to see
one, add it to the configuration in the last column, `CancelledIsFinal` and
`LogoutInvalidates` as a `PROPERTY`, the others as an `INVARIANT`.

| Definition | What happens | Configuration |
|---|---|---|
| `CancelledIsFinal` | `confirmBooking` reads PENDING_PAYMENT, `cancelBooking` saves CANCELLED, `confirmBooking` saves RESERVED: the cancelled reservation is alive, its nights for sale | `Saga_payment.cfg` |
| `ChargedOnce` | two payment requests find no PAID row, both are approved | `Saga_payment.cfg` |
| `NightsTakenWithBooking` | an unknown facility makes `createBooking` fail after the nights were closed | `Saga_nights.cfg` |
| `LoginEndsOldSession` | calls one after another: a refresh whose answer is lost, a login, and the old token is answered with the new session's token while the grace key lives | `Sessions.cfg` |
| `CompletePageSettles` | the complete page that has found its reservation by its address cancels its own search for the room, and goes on saying that it loads | `Pages.cfg` |
| `ShownReservedIsReserved` | the confirmation behind a payment fails, or a cancellation overtakes it, and the page says that the reservation is confirmed | `Pages.cfg` |
| `OneSessionPerUser` | a second message before the index has the first one's session creates another | `ChatBot.cfg` |
| `LogoutInvalidates` | a logout with an access token that has run out is refused; the cookie stays, and the next reload signs in again | `TokenStore.cfg` |

The properties that hold are stated so that they say exactly how far the code
can be trusted around these: `NightsSoldOnce` holds unless a cancellation was
saved twice, `RefundRecordedAfterRefund` for a reservation charged once,
`TakenNightsAreAccounted` up to the unknown facility, `AbsoluteLimit` unless
calls have crossed, `ChargedTwiceOnlyAstray` for payments that were waited for,
`QuoteIsCharge` for a price that belongs to the address, `SignedOutStaysOut` for
a logout that no renewal has raced, `NoNeedlessLogin` for renewals that did not
race.

Two more notes of divergence: `room.service.ts:332` and the booking DTO say that
`hotelId` is not stored with a reservation (it is), and the TODO at
`api-gateway/src/booking/booking.controller.ts:236` asks for a refund that
`cancelBooking` already makes.

## 6. Fairness

`RoomInventory`'s `FairSpec` asks that a statement which can run does run: the
database and the event loop serve every open transaction. Callers need not call
and nothing need fail, so `EveryCallEnds` does not lean on the lock wait
timeout; weak fairness suffices there because each call of the instance is served
once, so a row is not locked by others for ever.

`HotelSaga`'s `FairSpec` is weak fairness of every handler that has begun and of
every webhook on its way; nobody has to book, cancel or pay, and
faults carry no fairness. Weak fairness is enough: no other step disables a
begun handler's next step, except the fault that cuts it off.

`ReservationPages` asks that a load in progress, of the page or beside it, goes
on and that a call which was sent is served and answered: `fetch` ends with an answer or an error, and
the event loop runs what waits for it. `TokenStore` asks the same of each
request (`Progress`), `ChatBot` of each call (`Handle`): the rate limiter's
refusals are bounded by the client's patience, and the workflow's call has a
timeout. In all three nobody has to open a page or press a button, and faults
carry no fairness. `Sessions`, `AdminRooms` and `GuestQuotes` state no liveness.

## 7. What is proved

Every safety property of the passing runs, for any number of requests, rows,
tabs, pages, faults and moves. Each `*Proofs` module has the inductive invariant
`IInv` of its component, one lemma per action that it survives the action, and a
theorem per property; TLC has checked each `IInv` on the component's instance.

Assumptions on the constants: dates are integers with a last one
(`DatesAssumption`, `LastDayAssumption`: the seed script fills a finite window),
seeded days are days, fault kinds are known, the names for nobody (`"none"`,
`NoOne`, `Nobody`) are no member, booking or reservation, the two types of
account are disjoint tables, `GuestQuotes`' searches are those that the search
form lets through, and in `AdminRooms` a room has a capacity of at least one
(`RoomsAssumption`: `@Min(1)` in `create-room.dto.ts`) and the first page is of a
room of the seed. The bounds on calls, faults and moves are arbitrary numbers.

`RoomInventoryProofs`, for any number of calls:

- `TypeCorrect`, `LocksProtectReads`. The invariant alone is not inductive:
  nothing in it says that a call about to write holds all of its nights. `IInv`
  adds `ScanProgress`: the nights a scan has passed are exactly the rows it
  holds and days without a row, and a booking that writes holds, and has read as
  available, every night it was asked for. With disjoint locks a commit touches
  no row that anybody else holds (`CommitKeepsOthers`).
- `GrantsAreExclusive`, `RefusalsAreJustified`: action properties from `IInv`,
  for the latter by naming the night that was passed over or read as closed.
- `NoDeadlock`: with `ScanOrder` (a scanning call has visited only days before
  those left), a call that waits does so for a day later than all it holds. Take
  in any set of calls the one holding the latest day, found by well-founded
  minimality of the distance to the last day: nobody it waits for is in the set.
- `Refinement`: every step of the SQL is a step of `NightLedger` or a stutter;
  the effect is at the commit, on the rows others have committed.

`HotelSagaProofs`, for any number of requests and faults:

- `SagaTypeCorrect`, `NeverConfirmedUnpaid`, `NeverRefundedUncancelled`,
  `RefundsAreReal`. The inductive invariant ties each handler's position to what
  it has caused: `KeyFacts` (a key done or cancelled at the gateway has had its
  event posted, a request about to save has an approved key, one about to
  confirm has its row saved, money given back belongs to a saved cancellation),
  `RowFacts` (a row is there only for an approved key, and marked refunded only
  after a saved cancellation), `HookFact` (a webhook handler runs only for a
  posted event, and one about to confirm or mark has its row) and `RefundFacts`
  (a refund in progress belongs to a saved cancellation and holds a row of its
  reservation). Each is needed: a handler acts on what it read several steps
  earlier, and the invariant is what survives the steps of all the others in
  between.
- `NightsNeverSoldTwice`, `NoNightIsLost`. A stay owns its nights (`Owns`) from
  the grant until a saved cancellation has released them or failed to. As long as
  no reservation has had two cancellations saved, owned nights are taken and no
  two owners share one (`NightFacts`), which `createBooking` keeps by taking only
  free nights and a release by touching only those of its own reservation. The
  properties speak of reservations alone and miss the bookings between grant and
  save; `StayFacts` and `TargetFacts` say which those are.

`SessionsProofs`, for one address, any number of calls, browsers and ids:

- `WithdrawnGetsNoTokens`. Accounts are numbered in the order of registration, a
  withdrawal past its transaction has left no row, and whoever gets tokens has
  looked its account up since the call began (`WithdrawFacts`): so a call that
  begins after the withdrawal finds no row, or the row of a later account.
- `NoTokenAfterTheEnd`. Unless calls have crossed, no call is about to store a
  token for an account that has ended its session (`EndedFacts`); the three
  deletions come one by one, so the fact speaks of calls between them too.
- `RotationsEnd`. A session that has not ended has a start that is not after the
  last login, and a refresh past the comparison was compared with that start
  (`LimitFacts`): so no chain of rotations moves the limit.

`TokenStoreProofs`, for any number of tabs, accounts and requests:

- `LoggedOutStaysOut`. While an account that has not raced is signed out,
  auth-service knows no newest token of it, nobody has compared one and is still to
  write, and no login of that type is under way (`OutFacts`); whatever cookie a late
  answer sets is of an account that has been signed out with the others. `RaceFacts`
  says what not having raced means for the requests on their way: at most one
  renewal of the account is past its comparison, it holds the newest token, and the
  token it has kept is in its grace period.
- `OnlyFaultsSendAway`. A request sent with a good token is still good where it
  stands, or is answered (`TrustFact`): before its comparison the token is the
  newest or in its grace period, after it the request can only go on. `CountFact`
  and `KindFacts` keep the numbers of tokens apart and say which kind of request can
  stand at which step.
- `NameFollowsToken`. A tab that hears the answer to an update of the profile
  still has the token it was sent with, or is noted as crossed (`NameFacts`).

`AdminRoomsProofs`, for any number of rooms, pictures, nights and requests:

- `PagesShowTheirRoom`. A load that is waited for is of the room and the month in
  the page's address (`LoadFacts`), because leaving either gives it up.
- `RoomsAreAsSaved`. A write counts as alone as long as no other one of its room
  has been midway with it, and one that is not alone has marked its room
  (`AloneFacts`); one that is alone has done what its step says (`StageFacts`:
  the row saved from then on, the old pictures gone before the new ones come);
  between writes a room that is not marked is as saved (`RestFacts`). A night is
  closed before its row's room goes (`NightFacts`). That the pictures are read
  back in the order they were sent is `PicturesReadBack`, on the recursion of
  `FlattenSeq`; it is proved by the least length for which it would fail
  (`Smallest`, from the library's theorem on well-founded orders), since the
  induction theorems themselves are out of the provers' reach.

`GuestQuotesProofs`, for any calendar, prices, searches and rooms:

- `ChargedAsQuoted`. What a page shows is of the address it was loaded for
  (`ShownFacts`), a load that is waited for of the address it has (`LoadFacts`),
  and a quote is the sum of some nights of the stay, the others having no row;
  from the moment the nights are taken it is the sum of all of them (`DealFacts`):
  a night without a row cannot be booked, so a quote that lacks one is never
  charged.
- `RoomHoldsTheGuests`. What a search found held its guests, and the page of the
  options is of the search it came from, or the deal says so.

`ReservationPagesProofs`, for any number of reservations, visits and calls:

- `ModalsWriteOnce`, `ChargedOnceUnlessAstray`. A modal waits for one call, and
  its button stays disabled for as long; a payment that no modal waits for is
  noted, and so is one that was checked before another of the same reservation
  was saved (`WriteFacts`).
- `ReservedMeansPaid`. Wherever "RESERVED" is kept (table, page, `location.state`,
  answer on its way) the reservation has been paid for (`ReservedFacts`).
- `BesideMissingMeansFault`. A page without a token renews it before it gives up
  what it loads beside its subject (`PageFacts`).

`ChatBotProofs`, for any number of members, widgets, messages and replicas:

- `HistoryHasNoRepeats`, `AnswersComeAfter`, `WorkflowSeesQuestion`. What is
  stored tells how far its call has come (`ItemFact`), and a call past its
  question has a session, its question there, and a time the clock has shown
  (`CallFact`); the workflow moves the clock on before the answer is stored, so
  an answer is later than its question whatever other calls do.

Only model-checked: the liveness properties (`EveryCallEnds`,
`ApprovedIsRecorded`, `RecordedPaymentIsRefunded`, `PagesSettle`, `PagesDecide`,
`WidgetIsAnswered`), which rest on fairness and are beyond the prover.

## 8. Plan

Done in this order: calendar with its abstract specification and refinement; the
saga with faults; proofs of both; sessions; the customer's pages, tabs, chat
bot, catalogue with the administrators' pages, and the way from the search to
the booking; proofs of the safety properties of all of them.

Next:

1. An abstract specification of a reservation (what its guest is promised: booked,
   paid, cancelled, refunded) and the saga without faults as its refinement.
2. The step from `HotelSaga` to the one-step payments of `ReservationPages`, as a
   refinement of what the coarser module assumes.
3. Booking statistics (`getHotelBookingStats`) as a pure operator against a
   definition by counting.

## 9. Not modelled, and why

- *Hotels and facilities:* `updateHotel` and `createFacility` save one row an
  administrator has typed; the edit form of a hotel works as that of a room.
- *Statistics and lists:* `getHotelBookingStats`, `getUsers`, the dashboard, the
  members' page, notices and the pages that only show data read and change
  nothing. `GetHistory` of the chat bot is called by no page.
- *Administrators:* `createAdmin` is called by nothing; signing in and out is in
  `TokenStore`.
- *`libs/common`:* wiring, but for the guards, which are the first step of the
  calls they guard.
- *The retrieval service* wraps language-model services and has no protocol;
  the workflow that may use it is the one step `WorkflowAnswers`.
- *Deployment* (gitops, infra, workflows) is configuration.

HTTP and gRPC encoding, validation of request bodies, and bcrypt and JWT
signatures are taken to work: a token is accepted only if it was signed, a
password is right or wrong.

## 10. Running

```
tlc -workers 2 -config Saga_payment.cfg MCHotelSaga
tlapm RoomInventoryProofs.tla
```

| Configuration | Module |
|---|---|
| `RoomInventory.cfg` | `MCRoomInventory` |
| `Saga_*.cfg`, `Bug_*.cfg` | `MCHotelSaga` |
| `Sessions.cfg` | `MCSessions` |
| `Pages.cfg` | `MCReservationPages` |
| `TokenStore.cfg`, `AdminRooms.cfg`, `GuestQuotes.cfg`, `ChatBot.cfg` | `MC` and the name |

The longest runs take about three minutes.
