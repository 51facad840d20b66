-------------------------- MODULE ReservationPages --------------------------
(***************************************************************************)
(* The pages on which a customer sees, pays and cancels reservations, in   *)
(* one browser tab, with the calls of the api-gateway they make.  What the *)
(* services do between the check and the write of a call is the subject of *)
(* HotelSaga; here a call checks, and later writes, and its answer may     *)
(* find the page, the modal or nobody waiting for it.                      *)
(***************************************************************************)
EXTENDS Naturals, FiniteSets

CONSTANTS Resv,       \* reservations of the customer
          Slots,      \* calls in flight, at most
          MaxVisits,  \* pages opened and reloaded, at most
          MaxFaults   \* failed loads and lost answers, at most

ASSUME PagesAssumption == MaxVisits \in Nat /\ MaxFaults \in Nat

VARIABLES status,     \* booking-service: the status of each reservation, or "none"
          paid,       \* payment-service: payments approved for each, at most 2 counted
          token,      \* "memory", "cookie" after a reload, or "none"
          page, shown,  \* the page and the reservation it is about
          carried,    \* location.state of the page: the status it was given, or "unknown"
          view,       \* what the page knows of each reservation
          screen,     \* "loading", "ready" or "error"
          load,       \* the call the page's load is waiting for
          live,       \* the effect that started the load has not been cleaned up
          beside,     \* the load of what is shown beside the page's subject, and what it found
          paying,     \* the reservation the PaymentModal is open for, or NoOne
          submitting, \* its isSubmitting
          confirming, \* isCancelModalOpen
          cancelling, \* isCancelling
          wire,       \* the calls in flight
          visits, faults,
          strayed     \* history: reservations with a payment nobody waited for

NoOne == "no reservation"
ASSUME NoOneAssumption == NoOne \notin Resv

serverVars == <<status, paid>>
pageVars == <<page, shown, carried, view, screen, load, live, beside>>
modalVars == <<paying, submitting, confirming, cancelling>>
vars == <<serverVars, token, pageVars, modalVars, wire, visits, faults, strayed>>

Statuses == {"none", "PENDING_PAYMENT", "RESERVED", "CANCELLED"}
Pages == {"home", "login", "history", "pending", "payments", "complete", "detail", "receipt"}
OfOne == {"complete", "detail", "receipt"}

\* Who still waits for the answer of a call: the modal that sent it (or, for a
\* cancellation, the page's isCancelling), only the page, or nobody.
Idle == [what |-> "none", res |-> NoOne, step |-> "idle", awaitedBy |-> "gone"]
Calls == [what : {"pay", "cancel"}, res : Resv,
          step : {"sent", "checked", "done", "refused"},
          awaitedBy : {"modal", "page", "gone"}]

TypeOK ==
    /\ status \in [Resv -> Statuses]
    /\ paid \in [Resv -> 0..2]
    /\ token \in {"memory", "cookie", "none"}
    /\ page \in Pages
    /\ shown \in Resv \cup {NoOne}
    /\ carried \in Statuses \cup {"PAID", "unknown"}
    /\ view \in [Resv -> Statuses \cup {"PAID", "unknown"}]
    /\ screen \in {"loading", "ready", "error"}
    /\ load \in {"none", "first", "refresh", "second", "rooms"}
    /\ live \in BOOLEAN
    /\ beside \in Statuses \cup {"first", "refresh", "second", "found", "missing"}
    /\ paying \in Resv \cup {NoOne}
    /\ submitting \in BOOLEAN /\ confirming \in BOOLEAN /\ cancelling \in BOOLEAN
    /\ wire \in [Slots -> Calls \cup {Idle}]
    /\ visits \in 0..MaxVisits /\ faults \in 0..MaxFaults
    /\ strayed \in SUBSET Resv

Unknown == [r \in Resv |-> "unknown"]

Init ==
    /\ status = [r \in Resv |-> "none"]
    /\ paid = [r \in Resv |-> 0]
    /\ token = "memory"
    /\ page = "home" /\ shown = NoOne /\ carried = "unknown" /\ view = Unknown
    /\ screen = "ready" /\ load = "none" /\ live = TRUE /\ beside = "none"
    /\ paying = NoOne /\ submitting = FALSE
    /\ confirming = FALSE /\ cancelling = FALSE
    /\ wire = [q \in Slots |-> Idle]
    /\ visits = 0 /\ faults = 0
    /\ strayed = {}

-----------------------------------------------------------------------------
\* Pages

InFlight(q) == wire[q].step \in {"sent", "checked"}

\* The payments in flight whose answer the modal is still waiting for.
Awaited == {wire[q].res : q \in {s \in Slots : /\ wire[s].what = "pay"
                                               /\ wire[s].awaitedBy = "modal"}}

\* A page is mounted with the state its link gives it, and loads when it has
\* none.  The page before it is unmounted, with its modals and handlers.
Mount(p, r, given) ==
    /\ page' = p /\ shown' = r /\ carried' = given
    /\ view' = IF given = "unknown" THEN Unknown ELSE [Unknown EXCEPT ![r] = given]
    /\ load' = IF given = "unknown" /\ p \notin {"home", "login"} THEN "first" ELSE "none"
    /\ screen' = IF load' = "first" THEN "loading" ELSE "ready"
    /\ live' = TRUE
    /\ beside' = IF given # "unknown" /\ p \in OfOne THEN "first" ELSE "none"
    /\ paying' = NoOne /\ submitting' = FALSE
    /\ confirming' = FALSE /\ cancelling' = FALSE
    /\ wire' = [q \in Slots |-> IF wire[q] = Idle THEN Idle
                                ELSE [wire[q] EXCEPT !.awaitedBy = "gone"]]
    /\ strayed' = strayed \cup Awaited

Visit(p, r, given) == /\ visits < MaxVisits
                      /\ visits' = visits + 1
                      /\ Mount(p, r, given)
                      /\ UNCHANGED <<serverVars, faults>>

\* The menu; a reload, which keeps history.state but not the access token; and
\* an address from the bookmarks, which has neither.
OpenPage(p) == /\ paying = NoOne /\ ~confirming
               /\ Visit(p, NoOne, "unknown")
               /\ UNCHANGED token

Reload == /\ page \notin {"home", "login"}
          /\ Visit(page, shown, carried)
          /\ token' = IF token = "memory" THEN "cookie" ELSE token

OpenAddress(p, r) == /\ status[r] # "none"
                     /\ p = "receipt" => paid[r] > 0
                     /\ Visit(p, r, "unknown")
                     /\ token' = IF token = "memory" THEN "cookie" ELSE token

\* handleReserve of the options page, once its booking is answered.
Reserved(r) == /\ status[r] = "none" /\ token = "memory"
               /\ page = "home"
               /\ visits < MaxVisits
               /\ visits' = visits + 1
               /\ status' = [status EXCEPT ![r] = "PENDING_PAYMENT"]
               /\ Mount("complete", r, "PENDING_PAYMENT")
               /\ UNCHANGED <<paid, token, faults>>

Follow(p, q, r, given) == /\ page = p /\ screen = "ready"
                          /\ paying = NoOne
                          /\ Visit(q, r, given)
                          /\ UNCHANGED token

OpenFromHistory(r) == /\ view[r] \in Statuses \ {"none"}
                      /\ Follow("history", "detail", r, view[r])

OpenFromPending(r) == /\ view[r] = "PENDING_PAYMENT"
                      /\ Follow("pending", "detail", r, view[r])

OpenFromPayments(r) == /\ view[r] = "PAID"
                       /\ Follow("payments", "receipt", r, "PAID")

\* The receipt links the reservation with what it has found of it, if it has.
OpenFromReceipt(r) == /\ shown = r /\ view[r] = "PAID"
                      /\ Follow("receipt", "detail", r,
                                IF beside \in Statuses \ {"none"} THEN beside ELSE "unknown")

-----------------------------------------------------------------------------
\* Loads: fetch, on 401 refresh the access token once, fetch again

MyBookings == status
MyPayments == [r \in Resv |-> IF paid[r] > 0 THEN "PAID" ELSE "none"]

Answer(p) == IF p \in {"payments", "receipt"} THEN MyPayments ELSE MyBookings

\* The call is answered: lists take it as it is, pages of one reservation look
\* theirs up in it.
Fetched ==
    LET got == Answer(page) IN
    IF page \in OfOne
    THEN IF got[shown] = "none"
         THEN /\ screen' = "error" /\ load' = "none" /\ UNCHANGED <<view, beside>>
         ELSE /\ view' = [view EXCEPT ![shown] = got[shown]]
              /\ beside' = "first"
              /\ IF page = "complete"
                 THEN load' = "rooms" /\ UNCHANGED screen
                 ELSE load' = "none" /\ screen' = "ready"
    ELSE /\ view' = got
         /\ load' = "none" /\ screen' = "ready"
         /\ UNCHANGED beside

\* Mutant: isLoading is reset on success only.
LoadFailsLoading == /\ faults < MaxFaults
                    /\ faults' = faults + 1
                    /\ load' = "none"
                    /\ UNCHANGED <<serverVars, token, page, shown, carried, view, screen,
                                   live, beside, modalVars, wire, visits, strayed>>

LoadFails == /\ faults < MaxFaults
             /\ faults' = faults + 1
             /\ load' = "none" /\ screen' = "error"
             /\ UNCHANGED <<serverVars, token, page, shown, carried, view, live, beside,
                            modalVars, wire, visits, strayed>>

ToLogin == /\ Mount("login", NoOne, "unknown")
           /\ UNCHANGED <<serverVars, token, visits, faults>>

Refused401 ==
    /\ UNCHANGED <<serverVars, token, page, shown, carried, view, live, beside, modalVars,
                   wire, visits, faults, strayed>>
    /\ \/ load = "first" /\ load' = "refresh" /\ UNCHANGED screen
       \/ load = "refresh" /\ page = "complete" /\ load' = "none" /\ screen' = "error"

LoadStep ==
    \/ /\ load \in {"first", "second"} /\ token = "memory"
       /\ Fetched
       /\ UNCHANGED <<serverVars, token, page, shown, carried, live, modalVars, wire,
                      visits, faults, strayed>>
    \/ load = "first" /\ token # "memory" /\ Refused401
    \/ /\ load = "refresh" /\ token # "none"
       /\ token' = "memory" /\ load' = "second"
       /\ UNCHANGED <<serverVars, page, shown, carried, view, screen, live, beside,
                      modalVars, wire, visits, faults, strayed>>
    \/ load = "refresh" /\ token = "none" /\ page = "complete" /\ Refused401
    \/ load = "refresh" /\ token = "none" /\ page # "complete" /\ ToLogin
    \/ load \in {"first", "refresh", "second"} /\ LoadFails

HistoryLoads == page = "history" /\ LoadStep
PendingLoads == page = "pending" /\ LoadStep
PaymentsLoad == page = "payments" /\ LoadStep
DetailLoads == page = "detail" /\ LoadStep
ReceiptLoads == page = "receipt" /\ LoadStep

\* setBooking makes React run the effect again: its cleanup marks the load that
\* is looking for the room as cancelled, and the new run has nothing to do.
CleanUp == /\ page = "complete" /\ load = "rooms" /\ live
           /\ live' = FALSE
           /\ UNCHANGED <<serverVars, token, page, shown, carried, view, screen, load,
                          beside, modalVars, wire, visits, faults, strayed>>

RoomFound == /\ page = "complete" /\ load = "rooms"
             /\ load' = "none"
             /\ screen' = IF live THEN "ready" ELSE screen
             /\ UNCHANGED <<serverVars, token, page, shown, carried, view, live, beside,
                            modalVars, wire, visits, faults, strayed>>

CompleteLoads == \/ page = "complete" /\ LoadStep
                 \/ CleanUp
                 \/ RoomFound

BesideBecomes(b) ==
    /\ beside' = b
    /\ UNCHANGED <<serverVars, page, shown, carried, view, screen, load, live, modalVars,
                   wire, visits, strayed>>

\* The route of the facilities asks for the reservation, which is the customer's.
ReservationFacilities == IF MyBookings[shown] = "none" THEN "missing" ELSE "found"

SideRead == IF page = "receipt" THEN MyBookings[shown] ELSE ReservationFacilities

\* Mutant: only the page's own load renews the access token.
BesideOnce ==
    /\ beside = "first"
    /\ BesideBecomes(IF token # "memory" THEN "missing" ELSE SideRead)
    /\ UNCHANGED <<token, faults>>

\* The facilities of a reservation, or the reservation of a payment: fetched as
\* soon as the page knows its subject, and again when that changes.  Whatever
\* fails, the page just shows nothing of it.
BesideStep ==
    \/ /\ beside \in {"first", "second"} /\ token = "memory"
       /\ BesideBecomes(SideRead)
       /\ UNCHANGED <<token, faults>>
    \/ /\ beside = "first" /\ token # "memory"
       /\ BesideBecomes("refresh") /\ UNCHANGED <<token, faults>>
    \/ /\ beside = "refresh"
       /\ IF token = "none" THEN BesideBecomes("missing") /\ UNCHANGED token
          ELSE BesideBecomes("second") /\ token' = "memory"
       /\ UNCHANGED faults
    \/ /\ beside \in {"first", "refresh", "second"}
       /\ faults < MaxFaults /\ faults' = faults + 1
       /\ BesideBecomes("missing") /\ UNCHANGED token

DetailFacilities == page = "detail" /\ BesideStep
CompleteFacilities == page = "complete" /\ BesideStep
ReceiptReservation == page = "receipt" /\ BesideStep

\* The button that every page but the complete page shows with its error.
Retry == /\ screen = "error" /\ page # "complete"
         /\ visits < MaxVisits /\ visits' = visits + 1
         /\ load' = "first" /\ screen' = "loading"
         /\ UNCHANGED <<serverVars, token, page, shown, carried, view, live, beside,
                        modalVars, wire, faults, strayed>>

\* The refresh that App starts when it boots.
Boot == /\ token = "cookie" /\ token' = "memory"
        /\ UNCHANGED <<serverVars, pageVars, modalVars, wire, visits, faults, strayed>>
-----------------------------------------------------------------------------
\* Writes

Send(what, r) ==
    /\ token = "memory"
    /\ \E q \in Slots :
         /\ wire[q] = Idle
         /\ wire' = [wire EXCEPT ![q] = [what |-> what, res |-> r, step |-> "sent",
                                         awaitedBy |-> "modal"]]
    /\ UNCHANGED <<serverVars, token, pageVars, visits, faults, strayed>>

Payable(r) == view[r] = "PENDING_PAYMENT"
Cancellable(r) == view[r] \in {"PENDING_PAYMENT", "RESERVED"}

OpenModal(r) == /\ screen = "ready" /\ Payable(r)
                /\ paying = NoOne /\ ~confirming
                /\ paying' = r
                /\ UNCHANGED <<serverVars, token, pageVars, submitting, confirming,
                               cancelling, wire, visits, faults, strayed>>

PayFromPending(r) == page = "pending" /\ OpenModal(r)
PayFromComplete(r) == page = "complete" /\ shown = r /\ OpenModal(r)
PayFromDetail(r) == page = "detail" /\ shown = r /\ OpenModal(r)

\* Mutant: the button of the PaymentModal stays enabled.
ConfirmAlways == /\ paying # NoOne
                 /\ submitting' = TRUE
                 /\ Send("pay", paying)
                 /\ UNCHANGED <<paying, confirming, cancelling>>

\* handleConfirm; its button is disabled while it submits.
Confirm == /\ paying # NoOne /\ ~submitting
           /\ submitting' = TRUE
           /\ Send("pay", paying)
           /\ UNCHANGED <<paying, confirming, cancelling>>

\* The cross and the escape key close the modal, also while it submits.
Close == /\ paying # NoOne
         /\ paying' = NoOne /\ submitting' = FALSE
         /\ wire' = [q \in Slots |->
                       IF wire[q].what = "pay" /\ wire[q].awaitedBy = "modal"
                       THEN [wire[q] EXCEPT !.awaitedBy = "page"] ELSE wire[q]]
         /\ strayed' = strayed \cup Awaited
         /\ UNCHANGED <<serverVars, token, pageVars, confirming, cancelling, visits, faults>>

OpenCancelModal == /\ page = "detail" /\ screen = "ready" /\ Cancellable(shown)
                   /\ paying = NoOne /\ ~confirming
                   /\ confirming' = TRUE
                   /\ UNCHANGED <<serverVars, token, pageVars, paying, submitting,
                                  cancelling, wire, visits, faults, strayed>>

\* A click beside the modal closes it, also while the call runs.
CloseCancelModal == /\ confirming
                    /\ confirming' = FALSE
                    /\ UNCHANGED <<serverVars, token, pageVars, paying, submitting,
                                   cancelling, wire, visits, faults, strayed>>

\* Mutant: the button of the modal stays enabled while the call runs.
CancelAlways == /\ confirming
                /\ cancelling' = TRUE
                /\ Send("cancel", shown)
                /\ UNCHANGED <<paying, submitting, confirming>>

\* handleCancel; its button is disabled while it runs.
Cancel == /\ confirming /\ ~cancelling
          /\ cancelling' = TRUE
          /\ Send("cancel", shown)
          /\ UNCHANGED <<paying, submitting, confirming>>

-----------------------------------------------------------------------------
\* The services: each call checks, and later writes

Becomes(q, step) == wire' = [wire EXCEPT ![q].step = step]

CheckPay(q) ==
    /\ wire[q].what = "pay" /\ wire[q].step = "sent"
    /\ IF status[wire[q].res] = "PENDING_PAYMENT" /\ paid[wire[q].res] = 0
       THEN Becomes(q, "checked") ELSE Becomes(q, "refused")
    /\ UNCHANGED serverVars

\* Mutant: requestPayment answers before the row is saved.
SavePayLate(q) ==
    /\ wire[q].what = "pay" /\ wire[q].step = "checked"
    /\ Becomes(q, "done")
    /\ UNCHANGED serverVars

\* The row is saved; the reservation is confirmed if it is still pending and
\* the call to booking-service succeeds.
SavePay(q) ==
    LET r == wire[q].res IN
    /\ wire[q].what = "pay" /\ wire[q].step = "checked"
    /\ \/ /\ Becomes(q, "done")
          /\ paid' = [paid EXCEPT ![r] = IF @ < 2 THEN @ + 1 ELSE @]
          /\ \/ status[r] = "PENDING_PAYMENT" /\ status' = [status EXCEPT ![r] = "RESERVED"]
             \/ UNCHANGED status
       \/ Becomes(q, "refused") /\ UNCHANGED serverVars

\* Mutant: the row is deleted.
DeleteReservation(q) ==
    /\ wire[q].what = "cancel" /\ wire[q].step = "checked"
    /\ Becomes(q, "done")
    /\ status' = [status EXCEPT ![wire[q].res] = "DELETED"]
    /\ UNCHANGED paid

CheckCancel(q) ==
    /\ wire[q].what = "cancel" /\ wire[q].step = "sent"
    /\ IF status[wire[q].res] \in {"PENDING_PAYMENT", "RESERVED"}
       THEN Becomes(q, "checked") ELSE Becomes(q, "refused")
    /\ UNCHANGED serverVars

SaveCancel(q) ==
    /\ wire[q].what = "cancel" /\ wire[q].step = "checked"
    /\ Becomes(q, "done")
    /\ status' = [status EXCEPT ![wire[q].res] = "CANCELLED"]
    /\ UNCHANGED paid

Serve(q) == /\ CheckPay(q) \/ SavePay(q) \/ CheckCancel(q) \/ SaveCancel(q)
            /\ UNCHANGED <<token, pageVars, modalVars, visits, faults, strayed>>

-----------------------------------------------------------------------------
\* Answers

\* handlePaid closes whatever PaymentModal is open by then.
Paid(q) ==
    LET r == wire[q].res IN
    /\ view' = [view EXCEPT ![r] = IF page = "pending" THEN "none" ELSE "RESERVED"]
    /\ paying' = NoOne /\ submitting' = FALSE
    /\ beside' = IF page \in OfOne THEN "first" ELSE beside
    /\ wire' = [s \in Slots |->
                  IF s = q THEN Idle
                  ELSE IF wire[s].what = "pay" /\ wire[s].awaitedBy = "modal"
                       THEN [wire[s] EXCEPT !.awaitedBy = "page"] ELSE wire[s]]
    /\ strayed' = strayed \cup (Awaited \ {r})
    /\ UNCHANGED <<page, shown, carried, screen, load, live, confirming, cancelling>>

PayAnswered(q) ==
    /\ wire[q].what = "pay" /\ wire[q].awaitedBy # "gone"
    /\ \/ wire[q].step = "done" /\ Paid(q)
       \/ /\ wire[q].step = "refused"
          /\ submitting' = (submitting /\ wire[q].awaitedBy # "modal")
          /\ wire' = [wire EXCEPT ![q] = Idle]
          /\ UNCHANGED <<pageVars, paying, confirming, cancelling, strayed>>
    /\ UNCHANGED <<serverVars, token, visits, faults>>

CancelAnswered(q) ==
    /\ wire[q].what = "cancel" /\ wire[q].awaitedBy # "gone"
    /\ wire[q].step \in {"done", "refused"}
    /\ wire' = [wire EXCEPT ![q] = Idle]
    /\ cancelling' = FALSE
    /\ IF wire[q].step = "done"
       THEN /\ view' = [view EXCEPT ![wire[q].res] = "CANCELLED"]
            /\ beside' = "first" /\ confirming' = FALSE
       ELSE UNCHANGED <<view, beside, confirming>>
    /\ UNCHANGED <<serverVars, token, page, shown, carried, screen, load, live,
                   paying, submitting, visits, faults, strayed>>

\* Nobody waits for the answer any more.
Unheard(q) == /\ wire[q].step \in {"done", "refused"} /\ wire[q].awaitedBy = "gone"
              /\ wire' = [wire EXCEPT ![q] = Idle]
              /\ UNCHANGED <<serverVars, token, pageVars, modalVars, visits, faults, strayed>>

\* fetch fails or the gateway answers 5xx although the services go on.
LoseAnswer(q) ==
    /\ wire[q] # Idle /\ wire[q].awaitedBy # "gone"
    /\ faults < MaxFaults /\ faults' = faults + 1
    /\ wire' = [wire EXCEPT ![q].awaitedBy = "gone"]
    /\ submitting' = (submitting /\ ~(wire[q].what = "pay" /\ wire[q].awaitedBy = "modal"))
    /\ cancelling' = (cancelling /\ wire[q].what # "cancel")
    /\ strayed' = IF wire[q].what = "pay" THEN strayed \cup {wire[q].res} ELSE strayed
    /\ UNCHANGED <<serverVars, token, pageVars, paying, confirming, visits>>

\* The refresh token expires or is revoked from another device.
SessionEnds == /\ faults < MaxFaults /\ faults' = faults + 1
               /\ token = "cookie" /\ token' = "none"
               /\ UNCHANGED <<serverVars, pageVars, modalVars, wire, visits, strayed>>

Loads == \/ HistoryLoads \/ PendingLoads \/ PaymentsLoad \/ DetailLoads \/ ReceiptLoads
         \/ CompleteLoads

BesideLoads == DetailFacilities \/ CompleteFacilities \/ ReceiptReservation

Next ==
    \/ \E p \in {"history", "pending", "payments", "home"} : OpenPage(p)
    \/ \E r \in Resv : \/ Reserved(r) \/ OpenFromHistory(r) \/ OpenFromPending(r)
                       \/ OpenFromPayments(r) \/ OpenFromReceipt(r)
                       \/ PayFromPending(r) \/ PayFromComplete(r) \/ PayFromDetail(r)
                       \/ \E p \in OfOne : OpenAddress(p, r)
    \/ Reload \/ Loads \/ BesideLoads \/ Retry \/ Boot \/ SessionEnds
    \/ Confirm \/ Close \/ OpenCancelModal \/ CloseCancelModal \/ Cancel
    \/ \E q \in Slots : \/ Serve(q) \/ PayAnswered(q) \/ CancelAnswered(q) \/ Unheard(q)
                        \/ LoseAnswer(q)

Spec == Init /\ [][Next]_vars
             /\ WF_vars(Loads) /\ WF_vars(BesideLoads)
             /\ \A q \in Slots : WF_vars(Serve(q) \/ PayAnswered(q) \/ CancelAnswered(q))

-----------------------------------------------------------------------------

\* A page waits for at most one payment and one cancellation of a reservation
\* at a time: the disabled buttons keep the races of HotelSaga apart as long as
\* the customer lets a call finish.
NoRepeatedWrite ==
    \A q, s \in Slots :
        /\ q # s /\ wire[q] # Idle /\ wire[s] # Idle
        /\ wire[q].what = wire[s].what /\ wire[q].res = wire[s].res
        => "modal" \notin {wire[q].awaitedBy} \cap {wire[s].awaitedBy}

\* A reservation is charged twice from one tab only after a payment that its
\* PaymentModal did not wait for: closed by its cross while it submitted, left
\* by a reload, or lost with its answer.  The stale state that a reload brings
\* back offers to pay again, but the services refuse.
ChargedTwiceOnlyAstray == \A r \in Resv : paid[r] > 1 => r \in strayed

\* What a page shows as confirmed has been paid for, although the page sets the
\* status itself instead of asking booking-service again.
ShownReservedIsPaid ==
    \A r \in Resv : view[r] = "RESERVED" => paid[r] > 0

\* The facilities of a reservation and the reservation of a payment are missing
\* on their pages only after a failure or the end of the session, also when a
\* reload has brought the page back with its state and without an access token.
BesideIsFound == beside = "missing" => faults > 0

\* Every page that loads stops loading: it shows its data or an error, or sends
\* the customer to the login page; and so does what it loads beside.  The complete
\* page's own load is left out here.
PagesSettle ==
    /\ page # "complete" /\ screen = "loading" ~> page = "complete" \/ screen # "loading"
    /\ beside \in {"first", "refresh", "second"} ~> beside \notin {"first", "refresh", "second"}

\* What comments say and the code does not keep.

\* "로그인한 사용자 본인의 예약 목록에서 reservationId로 다시 찾아온다": the complete
\* page that has found its reservation does not go on saying that it loads.
CompletePageSettles == page = "complete" /\ screen = "loading" => load # "none"

\* "성공하면 결제내역을 저장하고 해당 예약을 PENDING_PAYMENT -> RESERVED로 확정한다": a page
\* that has seen its payment succeed shows the status the reservation has.
ShownReservedIsReserved ==
    \A r \in Resv : view[r] = "RESERVED" /\ page = "complete" => status[r] = "RESERVED"
=============================================================================
