-------------------------- MODULE HotelSagaProofs --------------------------
(***************************************************************************)
(* For every number of bookings, cancellations and payments, and any       *)
(* number of faults: no reservation is confirmed without a recorded and    *)
(* approved payment, and no money goes back, on the gateway's side or in   *)
(* the payments table, before the cancellation of its reservation has been *)
(* saved.  And no night is sold to two guests, or lost without a fault.    *)
(***************************************************************************)
EXTENDS HotelSagaProperties, TLAPS

-----------------------------------------------------------------------------
\* Types

LEMMA CreateKeepsType ==
    ASSUME TypeOK, NEW b \in Bookings, CreateStart(b) \/ CreateStep(b)
    PROVE  TypeOK'
<1> USE DEF TypeOK, BookingType, createVars, cancelVars, BookingAt
<1>1. CASE CreateStart(b)
  <2>1. UNCHANGED <<calendar, paymentVars, pgVars, faults>>
    BY <1>1 DEF CreateStart
  <2>2. BookingType'
    BY <1>1 DEF CreateStart, StartBooking, CreateSteps
  <2>3. QED
    BY <2>1, <2>2 DEF CalendarType, PaymentType, PgType, paymentVars, pgVars,
       payVars, hookVars
<1>2. CASE CreateReserve(b)
  <2>1. UNCHANGED <<paymentVars, pgVars, faults>>
    BY <1>2 DEF CreateReserve
  <2>2. BookingType'
    BY <1>2 DEF CreateReserve, NightsGranted, NightsRefused, CreateSteps
  <2>3. CalendarType'
    BY <1>2 DEF CreateReserve, CalendarType, Reserve, Marked, Cells
  <2>4. QED
    BY <2>1, <2>2, <2>3 DEF PaymentType, PgType, paymentVars, pgVars,
       payVars, hookVars
<1>3. CASE CreatePrice(b) \/ CreateSave(b) \/ CreateExtras(b)
  <2>1. UNCHANGED <<calendar, paymentVars, pgVars, faults>>
    BY <1>3 DEF CreatePrice, CreateSave, CreateExtras
  <2>2. BookingType'
    BY <1>3 DEF CreatePrice, CreateSave, CreateExtras, PriceFacilities,
       SaveReservation, SaveFacility, CreateSteps, Statuses
  <2>3. QED
    BY <2>1, <2>2 DEF CalendarType, PaymentType, PgType, paymentVars, pgVars,
       payVars, hookVars
<1>4. QED
  BY <1>1, <1>2, <1>3 DEF CreateStep

LEMMA CancelKeepsType ==
    ASSUME TypeOK, NEW c \in Cancels, CancelStart(c) \/ CancelStep(c)
    PROVE  TypeOK'
<1> USE DEF TypeOK, createVars, cancelVars, CancelAt
<1>1. BookingType'
  BY DEF CancelStep, CancelStart, CancelSave, CancelRelease, RefundFind,
     RefundAtGateway, RefundSave, FindForCancel, SaveCancelled,
     ReleaseAnswered, RefundMoves, BookingType, CancelSteps, Statuses
<1>2. CalendarType'
  BY DEF CancelStep, CancelStart, CancelSave, CancelRelease, RefundFind,
     RefundAtGateway, RefundSave, CalendarType, Release, Marked, Cells
<1>3. PaymentType'
  BY DEF CancelStep, CancelStart, CancelSave, CancelRelease, RefundFind,
     RefundAtGateway, RefundSave, NothingToRefund, FindForRefund,
     SaveRefunded, PaymentType, paymentVars, payVars, hookVars, PaidRows
<1>4. PgType'
  BY DEF CancelStep, CancelStart, CancelSave, CancelRelease, RefundFind,
     RefundAtGateway, RefundSave, PgCancel, PgType, PgStates, pgVars
<1>5. faults' = faults
  BY DEF CancelStep, CancelStart, CancelSave, CancelRelease, RefundFind,
     RefundAtGateway, RefundSave
<1>6. QED
  BY <1>1, <1>2, <1>3, <1>4, <1>5

LEMMA PayKeepsType ==
    ASSUME TypeOK, NEW k \in Keys, PayStart(k) \/ PayStep(k)
    PROVE  TypeOK'
<1> USE DEF TypeOK, hookVars, PayAt
<1>1. calendar' = calendar /\ faults' = faults
  BY DEF PayStart, PayStep, PayFind, PayCreate, PayApprove, PaySave, PayConfirm
<1>2. BookingType'
  BY DEF PayStart, PayStep, PayFind, PayCreate, PayApprove, PaySave,
     PayConfirm, SaveReserved, BookingType, bookingVars, createVars,
     cancelVars, Statuses
<1>3. PaymentType'
  BY DEF PayStart, PayStep, PayFind, PayCreate, PayApprove, PaySave,
     PayConfirm, CheckBooking, CheckUnpaid, PayMoves, SavePaid, PaymentType,
     PaySteps, Rows
<1>4. PgType'
  BY DEF PayStart, PayStep, PayFind, PayCreate, PayApprove, PaySave,
     PayConfirm, PgCreate, PgApprove, PgType, PgStates, pgVars
<1>5. QED
  BY <1>1, <1>2, <1>3, <1>4 DEF CalendarType

LEMMA HookKeepsType ==
    ASSUME TypeOK, NEW h \in HookIds, HookStep(h)
    PROVE  TypeOK'
<1> USE DEF TypeOK, HookStep, payVars, HookAt
<1>1. calendar' = calendar /\ faults' = faults
  BY DEF HookStart, HookFind, HookSave, HookConfirm
<1>2. BookingType'
  BY DEF HookStart, HookFind, HookSave, HookConfirm, SaveReserved,
     BookingType, bookingVars, createVars, cancelVars, Statuses
<1>3. PaymentType'
  BY DEF HookStart, HookFind, HookSave, HookConfirm, HookArrives,
     FindForApproved, FindForCanceled, RescuePaid, MarkRefunded, HookMoves,
     PaymentType, HookSteps, PaidRows
<1>4. PgType'
  BY DEF HookStart, HookFind, HookSave, HookConfirm, WebhookLeaves, PgType,
     pgVars
<1>5. QED
  BY <1>1, <1>2, <1>3, <1>4 DEF CalendarType

LEMMA FaultKeepsType ==
    ASSUME TypeOK, FaultStep
    PROVE  TypeOK'
<1> USE DEF TypeOK, FaultStep
<1>1. calendar' = calendar
  BY DEF Abandon, LoseWebhook, ReleaseFails, ConfirmFails, GatewayRestarts
<1>2. faults' \in 0..MaxFaults
  BY SagaAssumption DEF Fault, Abandon, LoseWebhook, ReleaseFails,
     ConfirmFails, GatewayRestarts
<1>3. BookingType'
  BY DEF Abandon, LoseWebhook, ReleaseFails, ConfirmFails, GatewayRestarts,
     BookingAbandoned, CancelAbandoned, ReleaseAnswered, CancelAt,
     BookingType, bookingVars, createVars, cancelVars, CreateSteps,
     CancelSteps
<1>4. PaymentType'
  BY DEF Abandon, LoseWebhook, ReleaseFails, ConfirmFails, GatewayRestarts,
     PayAbandoned, HookAbandoned, PayMoves, HookMoves, PayAt, HookAt,
     PaymentType, paymentVars, payVars, hookVars, PaySteps, HookSteps
<1>5. PgType'
  BY DEF Abandon, LoseWebhook, ReleaseFails, ConfirmFails, GatewayRestarts,
     WebhookLeaves, PgRestart, PgType, PgStates, pgVars
<1>6. QED
  BY <1>1, <1>2, <1>3, <1>4, <1>5 DEF CalendarType

LEMMA InitHasType == Init => TypeOK
BY SagaAssumption, SeededAssumption DEF Init, TypeOK, CalendarInit,
   CalendarType, Cells, BookingInit, BookingType, Statuses, CreateSteps,
   CancelSteps, PaymentInit, PaymentType, PaySteps, HookSteps, PgInit, PgType,
   PgStates, HookIds, Events

LEMMA NextKeepsType == TypeOK /\ [Next]_sagaVars => TypeOK'
<1> SUFFICES ASSUME TypeOK, [Next]_sagaVars
             PROVE  TypeOK'
  OBVIOUS
<1>1. CASE UNCHANGED sagaVars
  BY <1>1 DEF sagaVars, bookingVars, createVars, cancelVars, paymentVars,
     payVars, hookVars, pgVars, TypeOK, CalendarType, BookingType,
     PaymentType, PgType
<1>2. QED
  BY <1>1, CreateKeepsType, CancelKeepsType, PayKeepsType, HookKeepsType,
     FaultKeepsType DEF Next

\* The tables of the four services and the state of every handler stay well
\* formed.
THEOREM SagaTypeCorrect == Spec => []TypeOK
BY InitHasType, NextKeepsType, PTL DEF Spec

-----------------------------------------------------------------------------
\* The inductive invariant

\* What the gateway's record of a key says about the handlers.
KeyFacts ==
    \A k \in Keys :
        /\ pg[k] \in {"DONE", "CANCELED"} => Approved(k)
        /\ Approved(k) => ppc[k] # "idle"
        /\ ppc[k] = "save" => Approved(k)
        /\ ppc[k] \in {"confirm", "confirmsave"}
              => rows[<<k, "sync">>] # "none"
        /\ GivenBack(k) => Approved(k) /\ CancelAccepted(ptarget[k])

\* What a row of the payments table says about the gateway.  A cancellation
\* webhook may mark the row of another key of the same reservation.
RowFacts ==
    \A r \in Rows :
        /\ rows[r] # "none" => Approved(r[1])
        /\ rows[r] = "refunded" =>
              /\ CancelAccepted(ptarget[r[1]])
              /\ \/ GivenBack(r[1])
                 \/ \E k \in KeysOf(ptarget[r[1]]) : k # r[1] /\ Approved(k)

HookFact(h) ==
    /\ hpc[h] # "idle" => webhook[h] # "none"
    /\ hpc[h] = "save" => h[2] = "PAYMENT.APPROVED"
    /\ hpc[h] \in {"confirm", "confirmsave"}
          => rows[<<h[1], "hook">>] # "none"
    /\ hpc[h] = "mark" =>
          /\ h[2] = "PAYMENT.CANCELED"
          /\ hrow[h] \in Rows
          /\ rows[hrow[h]] # "none"
          /\ ptarget[hrow[h][1]] = ptarget[h[1]]

HookFacts == \A h \in HookIds : HookFact(h)

RefundFacts ==
    \A c \in Cancels :
        /\ c \in accepted => cpc[c] # "idle"
        /\ cpc[c] \in {"release", "refund", "pgcancel", "refundsave"}
              => c \in accepted
        /\ cpc[c] \in {"pgcancel", "refundsave"} =>
              /\ rrow[c] \in Rows
              /\ rows[rrow[c]] # "none"
              /\ ptarget[rrow[c][1]] = ctarget[c]
        /\ cpc[c] = "refundsave" => GivenBack(rrow[c][1])

IInv == /\ TypeOK
        /\ KeyFacts
        /\ RowFacts
        /\ HookFacts
        /\ RefundFacts
        /\ ConfirmedOnlyAfterPayment

-----------------------------------------------------------------------------
\* What a step may do without disturbing the facts about the others

LEMMA KeysOfRowsAndPosts ==
    /\ \A r \in Rows : r[1] \in Keys
    /\ \A k \in Keys : <<k, "sync">> \in Rows /\ <<k, "hook">> \in Rows
    /\ \A h \in HookIds : h[1] \in Keys /\ h[2] \in Events
    /\ \A k \in Keys : /\ <<k, "PAYMENT.APPROVED">> \in HookIds
                       /\ <<k, "PAYMENT.CANCELED">> \in HookIds
BY DEF Rows, HookIds, Events

\* Posts, rows and saved cancellations are never unmade.
Progress ==
    /\ ptarget' = ptarget
    /\ \A h \in HookIds : webhook[h] # "none" => webhook'[h] # "none"
    /\ \A r \in Rows : rows[r] # "none" => rows'[r] # "none"
    /\ \A b \in Bookings \cup {"none"} : CancelAccepted(b) => CancelAccepted(b)'

LEMMA KeysStay ==
    ASSUME TypeOK, KeyFacts, Progress, UNCHANGED <<ppc, pg, webhook>>
    PROVE  KeyFacts'
<1>1. \A k \in Keys : ptarget[k] \in Bookings \cup {"none"}
  BY DEF TypeOK, PaymentType
<1>2. QED
  BY <1>1, KeysOfRowsAndPosts DEF KeyFacts, Progress, Approved, GivenBack

LEMMA RowsStay ==
    ASSUME TypeOK, RowFacts, Progress, UNCHANGED rows
    PROVE  RowFacts'
<1>1. \A k \in Keys : ptarget[k] \in Bookings \cup {"none"}
  BY DEF TypeOK, PaymentType
<1>2. /\ \A k \in Keys : Approved(k) => Approved(k)'
      /\ \A k \in Keys : GivenBack(k) => GivenBack(k)'
  BY KeysOfRowsAndPosts DEF Progress, Approved, GivenBack
<1>3. \A b : KeysOf(b)' = KeysOf(b) /\ KeysOf(b) \subseteq Keys
  BY DEF Progress, KeysOf
<1>4. QED
  BY <1>1, <1>2, <1>3, KeysOfRowsAndPosts DEF RowFacts, Progress

LEMMA HooksStay ==
    ASSUME HookFacts, Progress, UNCHANGED <<hpc, hrow>>
    PROVE  HookFacts'
BY KeysOfRowsAndPosts DEF HookFacts, HookFact, Progress

\* A step of the handler of one post.
LEMMA OtherHooksStay ==
    ASSUME HookFacts, Progress, TypeOK, NEW h \in HookIds, HookFact(h)',
           \E to : hpc' = [hpc EXCEPT ![h] = to],
           hrow' = hrow \/ \E r : hrow' = [hrow EXCEPT ![h] = r]
    PROVE  HookFacts'
<1> SUFFICES ASSUME NEW x \in HookIds, x # h
             PROVE  HookFact(x)'
  BY DEF HookFacts
<1>1. hpc'[x] = hpc[x] /\ hrow'[x] = hrow[x]
  BY DEF TypeOK, PaymentType
<1>2. HookFact(x)
  BY DEF HookFacts
<1>3. QED
  BY <1>1, <1>2, KeysOfRowsAndPosts DEF HookFact, Progress

LEMMA RefundsStay ==
    ASSUME RefundFacts, Progress, UNCHANGED <<cpc, ctarget, accepted, rrow>>
    PROVE  RefundFacts'
BY KeysOfRowsAndPosts DEF RefundFacts, Progress, GivenBack

LEMMA PaidStays ==
    ASSUME Progress, NEW b, PaidFor(b)
    PROVE  PaidFor(b)'
BY KeysOfRowsAndPosts DEF PaidFor, Progress, Approved

\* A reservation that a step makes RESERVED has to be paid for.
LEMMA ConfirmedStays ==
    ASSUME ConfirmedOnlyAfterPayment, Progress,
           \A b \in Bookings : status'[b] = "RESERVED" =>
               status[b] = "RESERVED" \/ PaidFor(b)
    PROVE  ConfirmedOnlyAfterPayment'
BY PaidStays DEF ConfirmedOnlyAfterPayment

-----------------------------------------------------------------------------
\* createBooking

LEMMA CreateKeepsInv ==
    ASSUME IInv, TypeOK', NEW b \in Bookings, CreateStart(b) \/ CreateStep(b)
    PROVE  IInv'
<1> USE DEF IInv
<1>1. UNCHANGED <<cpc, ctarget, accepted, rows, ppc, ptarget, hpc, hrow, rrow,
                  pg, webhook>>
  BY DEF CreateStart, CreateStep, CreateReserve, CreatePrice, CreateSave,
     CreateExtras, StartBooking, NightsGranted, NightsRefused,
     PriceFacilities, SaveReservation, SaveFacility, cancelVars, paymentVars,
     payVars, hookVars, pgVars
<1>2. Progress
  BY <1>1 DEF Progress, CancelAccepted
<1>3. KeyFacts' /\ RowFacts' /\ HookFacts' /\ RefundFacts'
  BY <1>1, <1>2, KeysStay, RowsStay, HooksStay, RefundsStay
<1>4. \A x \in Bookings : status'[x] = "RESERVED" => status[x] = "RESERVED"
  BY DEF CreateStart, CreateStep, CreateReserve, CreatePrice, CreateSave,
     CreateExtras, StartBooking, NightsGranted, NightsRefused,
     PriceFacilities, SaveReservation, SaveFacility, TypeOK, BookingType
<1>5. QED
  BY <1>2, <1>3, <1>4, ConfirmedStays

-----------------------------------------------------------------------------
\* cancelBooking and refundPayment

LEMMA CancelStartKeepsInv ==
    ASSUME IInv, TypeOK', NEW c \in Cancels, CancelStart(c)
    PROVE  IInv'
<1> USE DEF IInv
<1>1. /\ cpc[c] = "idle"
      /\ \E to \in {"save", "done"} : cpc' = [cpc EXCEPT ![c] = to]
      /\ \E b \in Bookings : ctarget' = [ctarget EXCEPT ![c] = b]
      /\ UNCHANGED <<status, accepted, rows, ppc, ptarget, hpc, hrow, rrow,
                     pg, webhook>>
  BY DEF CancelStart, FindForCancel, CancelAt, paymentVars, payVars, hookVars,
     pgVars
<1>2. c \notin accepted
  BY <1>1 DEF RefundFacts
<1>3. Progress
  <2>1. \A d \in accepted : ctarget'[d] = ctarget[d]
    BY <1>1, <1>2 DEF TypeOK, BookingType
  <2>2. QED
    BY <1>1, <2>1 DEF Progress, CancelAccepted
<1>4. RefundFacts'
  <2>1. \A d \in Cancels \ {c} : cpc'[d] = cpc[d] /\ ctarget'[d] = ctarget[d]
    BY <1>1 DEF TypeOK, BookingType
  <2>2. cpc'[c] \in {"save", "done"}
    BY <1>1 DEF TypeOK, BookingType
  <2>3. QED
    BY <1>1, <1>2, <2>1, <2>2 DEF RefundFacts, GivenBack
<1>5. QED
  BY <1>1, <1>3, <1>4, KeysStay, RowsStay, HooksStay, ConfirmedStays

LEMMA CancelSaveKeepsInv ==
    ASSUME IInv, TypeOK', NEW c \in Cancels, CancelSave(c)
    PROVE  IInv'
<1> USE DEF IInv
<1>1. /\ cpc[c] = "save" /\ cpc' = [cpc EXCEPT ![c] = "release"]
      /\ status' = [status EXCEPT ![ctarget[c]] = "CANCELLED"]
      /\ accepted' = accepted \cup {c}
      /\ UNCHANGED <<ctarget, rows, ppc, ptarget, hpc, hrow, rrow, pg, webhook>>
  BY DEF CancelSave, SaveCancelled, CancelAt, paymentVars, payVars, hookVars,
     pgVars
<1>2. Progress
  BY <1>1 DEF Progress, CancelAccepted
<1>3. RefundFacts'
  BY <1>1 DEF RefundFacts, GivenBack, TypeOK, BookingType
<1>4. \A b \in Bookings : status'[b] = "RESERVED" => status[b] = "RESERVED"
  BY <1>1 DEF TypeOK, BookingType
<1>5. QED
  BY <1>1, <1>2, <1>3, <1>4, KeysStay, RowsStay, HooksStay, ConfirmedStays

\* The steps of the handler that write nothing.
LEMMA CancelMovesKeepInv ==
    ASSUME IInv, TypeOK', NEW c \in Cancels,
           \/ CancelAbandoned(c)
           \/ ReleaseAnswered(c)
           \/ RefundMoves(c, "refund", "done")
           \/ RefundMoves(c, "pgcancel", "done"),
           UNCHANGED <<rows, ppc, ptarget, hpc, hrow, rrow, pg, webhook>>
    PROVE  IInv'
<1> USE DEF IInv
<1>1. /\ UNCHANGED <<status, ctarget, accepted>>
      /\ cpc[c] # "idle"
      /\ \/ cpc' = [cpc EXCEPT ![c] = "failed"]
         \/ cpc' = [cpc EXCEPT ![c] = "done"]
         \/ cpc[c] = "release" /\ cpc' = [cpc EXCEPT ![c] = "refund"]
  BY DEF CancelAbandoned, ReleaseAnswered, RefundMoves, CancelAt
<1>2. Progress
  BY <1>1 DEF Progress, CancelAccepted
<1>3. RefundFacts'
  BY <1>1 DEF RefundFacts, GivenBack, TypeOK, BookingType
<1>4. QED
  BY <1>1, <1>2, <1>3, KeysStay, RowsStay, HooksStay, ConfirmedStays

LEMMA RefundFindKeepsInv ==
    ASSUME IInv, TypeOK', NEW c \in Cancels, RefundFind(c)
    PROVE  IInv'
<1> USE DEF IInv
<1>1. CASE RefundMoves(c, "refund", "done") /\ NothingToRefund(ctarget[c])
  BY <1>1, CancelMovesKeepInv DEF RefundFind, NothingToRefund, paymentVars,
     payVars, hookVars, pgVars
<1>2. CASE /\ RefundMoves(c, "refund", "pgcancel")
           /\ FindForRefund(c, ctarget[c])
  <2>1. PICK r \in PaidRows(ctarget[c]) : rrow' = [rrow EXCEPT ![c] = r]
    BY <1>2 DEF FindForRefund
  <2>2. /\ cpc[c] = "refund" /\ cpc' = [cpc EXCEPT ![c] = "pgcancel"]
        /\ UNCHANGED <<status, ctarget, accepted, rows, ppc, ptarget, hpc,
                       hrow, pg, webhook>>
    BY <1>2 DEF RefundFind, RefundMoves, CancelAt, FindForRefund, payVars,
       hookVars, pgVars
  <2>3. Progress
    BY <2>2 DEF Progress, CancelAccepted
  <2>4. RefundFacts'
    BY <2>1, <2>2 DEF RefundFacts, GivenBack, PaidRows, TypeOK, BookingType,
       PaymentType
  <2>5. QED
    BY <2>2, <2>3, <2>4, KeysStay, RowsStay, HooksStay, ConfirmedStays
<1>3. QED
  BY <1>1, <1>2 DEF RefundFind

\* The gateway is asked only with the key of a row of the cancelled reservation.
LEMMA RefundAtGatewayKeepsInv ==
    ASSUME IInv, TypeOK', NEW c \in Cancels, RefundAtGateway(c)
    PROVE  IInv'
<1> USE DEF IInv
<1>1. CASE RefundMoves(c, "pgcancel", "done") /\ UNCHANGED pgVars
  BY <1>1, CancelMovesKeepInv DEF RefundAtGateway, paymentVars, payVars,
     hookVars, pgVars
<1>2. CASE RefundMoves(c, "pgcancel", "refundsave") /\ PgCancel(RefundKey(c))
  <2> DEFINE key == rrow[c][1]
  <2>1. /\ cpc[c] = "pgcancel" /\ cpc' = [cpc EXCEPT ![c] = "refundsave"]
        /\ UNCHANGED <<status, ctarget, accepted, rows, ppc, ptarget, hpc,
                       hrow, rrow>>
    BY <1>2 DEF RefundAtGateway, RefundMoves, CancelAt, paymentVars, payVars,
       hookVars
  <2>2. /\ pg[key] = "DONE"
        /\ pg' = [pg EXCEPT ![key] = "CANCELED"]
        /\ webhook' = [webhook EXCEPT ![<<key, "PAYMENT.CANCELED">>] = "sent"]
    BY <1>2 DEF PgCancel, RefundKey
  <2>3. /\ rrow[c] \in Rows /\ key \in Keys /\ c \in accepted
        /\ ptarget[key] = ctarget[c]
    BY <2>1, KeysOfRowsAndPosts DEF RefundFacts
  <2>4. webhook \in [HookIds -> {"none", "sent", "gone"}]
    BY DEF TypeOK, PgType, HookIds, Events
  <2>5. Progress
    BY <2>1, <2>2, <2>4 DEF Progress, CancelAccepted
  <2>6. \A k \in Keys : /\ Approved(k)' <=> Approved(k)
                        /\ GivenBack(k)' <=> GivenBack(k) \/ k = key
    BY <2>2, <2>3, <2>4, KeysOfRowsAndPosts DEF Approved, GivenBack
  <2>7. CancelAccepted(ptarget[key])
    BY <2>3 DEF CancelAccepted
  <2>8. KeyFacts'
    <3>1. \A b : CancelAccepted(b)' <=> CancelAccepted(b)
      BY <2>1 DEF CancelAccepted
    <3>2. QED
      BY <2>1, <2>2, <2>3, <2>6, <2>7, <3>1 DEF KeyFacts, TypeOK, PgType
  <2>9. RefundFacts'
    BY <2>1, <2>3, <2>6, KeysOfRowsAndPosts DEF RefundFacts, TypeOK,
       BookingType
  <2>10. QED
    BY <2>1, <2>5, <2>8, <2>9, RowsStay, HooksStay, ConfirmedStays
<1>3. QED
  BY <1>1, <1>2 DEF RefundAtGateway

LEMMA RefundSaveKeepsInv ==
    ASSUME IInv, TypeOK', NEW c \in Cancels, RefundSave(c)
    PROVE  IInv'
<1> USE DEF IInv
<1>1. /\ cpc[c] = "refundsave" /\ cpc' = [cpc EXCEPT ![c] = "done"]
      /\ rows' = [rows EXCEPT ![rrow[c]] = "refunded"]
      /\ UNCHANGED <<status, ctarget, accepted, ppc, ptarget, hpc, hrow,
                     rrow, pg, webhook>>
  BY DEF RefundSave, RefundMoves, CancelAt, SaveRefunded, payVars, hookVars,
     pgVars
<1>2. /\ rrow[c] \in Rows /\ rows[rrow[c]] # "none"
      /\ GivenBack(rrow[c][1]) /\ c \in accepted
      /\ ptarget[rrow[c][1]] = ctarget[c]
  BY <1>1 DEF RefundFacts
<1>3. \A r \in Rows : rows'[r] = IF r = rrow[c] THEN "refunded" ELSE rows[r]
  BY <1>1, <1>2 DEF TypeOK, PaymentType
<1>4. Progress
  BY <1>1, <1>3 DEF Progress, CancelAccepted
<1>5. RowFacts'
  <2>1. CancelAccepted(ptarget[rrow[c][1]])
    BY <1>2 DEF CancelAccepted
  <2>2. /\ \A k : Approved(k)' <=> Approved(k)
        /\ \A k : GivenBack(k)' <=> GivenBack(k)
        /\ \A b : CancelAccepted(b)' <=> CancelAccepted(b)
        /\ \A b : KeysOf(b)' = KeysOf(b)
    BY <1>1 DEF Approved, GivenBack, CancelAccepted, KeysOf
  <2>3. QED
    BY <1>1, <1>2, <1>3, <2>1, <2>2 DEF RowFacts
<1>6. RefundFacts'
  BY <1>1, <1>4 DEF RefundFacts, GivenBack, Progress, TypeOK, BookingType
<1>7. QED
  BY <1>1, <1>4, <1>5, <1>6, KeysStay, HooksStay, ConfirmedStays

-----------------------------------------------------------------------------
\* requestPayment

\* A key gets its reservation before anything is known of it.
LEMMA PayStartKeepsInv ==
    ASSUME IInv, TypeOK', NEW k \in Keys, PayStart(k)
    PROVE  IInv'
<1> USE DEF IInv
<1>1. /\ ppc[k] = "idle"
      /\ \E to \in {"findpaid", "done"} : ppc' = [ppc EXCEPT ![k] = to]
      /\ \E b \in Bookings : ptarget' = [ptarget EXCEPT ![k] = b]
      /\ UNCHANGED <<status, cpc, ctarget, accepted, rows, hpc, hrow, rrow,
                     pg, webhook>>
  BY DEF PayStart, CheckBooking, PayAt, bookingVars, cancelVars, hookVars,
     pgVars
<1>2. ~Approved(k)
  BY <1>1 DEF KeyFacts
<1>3. /\ \A other \in Keys \ {k} : /\ ptarget'[other] = ptarget[other]
                                   /\ ppc'[other] = ppc[other]
      /\ ppc'[k] \in {"findpaid", "done"}
  BY <1>1 DEF TypeOK, PaymentType
<1>4. /\ \A x : Approved(x)' <=> Approved(x)
      /\ \A x : GivenBack(x)' <=> GivenBack(x)
      /\ \A b : CancelAccepted(b)' <=> CancelAccepted(b)
  BY <1>1 DEF Approved, GivenBack, CancelAccepted
<1>5. KeyFacts'
  BY <1>1, <1>2, <1>3, <1>4 DEF KeyFacts
<1>6. \A r \in Rows : rows[r] # "none" => r[1] \in Keys \ {k}
  BY <1>2, KeysOfRowsAndPosts DEF RowFacts
<1>7. RowFacts'
  <2>1. \A b, x \in Keys \ {k} : x \in KeysOf(b) <=> x \in KeysOf(b)'
    BY <1>3 DEF KeysOf
  <2>2. QED
    BY <1>1, <1>2, <1>3, <1>4, <1>6 DEF RowFacts, KeysOf
<1>8. HookFacts'
  <2>1. \A h \in HookIds : hpc[h] = "mark" => h[1] \in Keys \ {k}
    <3> SUFFICES ASSUME NEW h \in HookIds, hpc[h] = "mark"
                 PROVE  Approved(h[1])
      BY <1>2, KeysOfRowsAndPosts
    <3>1. h[2] = "PAYMENT.CANCELED" /\ webhook[h] # "none"
      BY DEF HookFacts, HookFact
    <3>2. h = <<h[1], h[2]>>
      BY DEF HookIds
    <3>3. GivenBack(h[1])
      BY <3>1, <3>2 DEF GivenBack
    <3>4. QED
      BY <3>3, KeysOfRowsAndPosts DEF KeyFacts
  <2>2. QED
    BY <1>1, <1>3, <1>6, <2>1 DEF HookFacts, HookFact
<1>9. RefundFacts'
  BY <1>1, <1>3, <1>4, <1>6 DEF RefundFacts
<1>10. ConfirmedOnlyAfterPayment'
  BY <1>1, <1>3, <1>4, <1>6 DEF ConfirmedOnlyAfterPayment, PaidFor
<1>11. QED
  BY <1>5, <1>7, <1>8, <1>9, <1>10

\* The steps of the request that write nothing.
LEMMA PayMovesKeepInv ==
    ASSUME IInv, TypeOK', NEW k \in Keys, ppc[k] # "idle",
           NEW to \in {"create", "approve", "confirmsave", "done", "failed"},
           ppc' = [ppc EXCEPT ![k] = to],
           to = "confirmsave" => ppc[k] = "confirm",
           UNCHANGED <<cpc, ctarget, accepted, rows, ptarget, hpc, hrow, rrow,
                       webhook>>,
           \A b \in Bookings : status'[b] = "RESERVED" =>
               status[b] = "RESERVED" \/ PaidFor(b),
           \A x \in Keys : pg'[x] \in {"DONE", "CANCELED"} => pg'[x] = pg[x]
    PROVE  IInv'
<1> USE DEF IInv
<1>1. Progress
  BY DEF Progress, CancelAccepted
<1>2. KeyFacts'
  BY DEF KeyFacts, Approved, GivenBack, CancelAccepted, TypeOK, PaymentType
<1>3. QED
  BY <1>1, <1>2, RowsStay, HooksStay, RefundsStay, ConfirmedStays

LEMMA PayApproveKeepsInv ==
    ASSUME IInv, TypeOK', NEW k \in Keys, PayApprove(k)
    PROVE  IInv'
<1> USE DEF IInv
<1>1. CASE PayMoves(k, "approve", "failed") /\ UNCHANGED pgVars
  BY <1>1, PayMovesKeepInv DEF PayApprove, PayMoves, PayAt, bookingVars,
     cancelVars, hookVars, pgVars
<1>2. CASE PayMoves(k, "approve", "save") /\ PgApprove(k)
  <2>1. /\ ppc[k] = "approve" /\ ppc' = [ppc EXCEPT ![k] = "save"]
        /\ UNCHANGED <<status, cpc, ctarget, accepted, rows, ptarget, hpc,
                       hrow, rrow>>
        /\ pg' = [pg EXCEPT ![k] = "DONE"]
        /\ webhook' = [webhook EXCEPT ![<<k, "PAYMENT.APPROVED">>] = "sent"]
    BY <1>2 DEF PayApprove, PayMoves, PayAt, PgApprove, bookingVars,
       cancelVars, hookVars
  <2>2. webhook \in [HookIds -> {"none", "sent", "gone"}]
    BY DEF TypeOK, PgType, HookIds, Events
  <2>3. Progress
    BY <2>1, <2>2 DEF Progress, CancelAccepted
  <2>4. \A x \in Keys : /\ Approved(x)' <=> Approved(x) \/ x = k
                        /\ GivenBack(x)' <=> GivenBack(x)
    BY <2>1, <2>2, KeysOfRowsAndPosts DEF Approved, GivenBack
  <2>5. KeyFacts'
    BY <2>1, <2>4 DEF KeyFacts, CancelAccepted, TypeOK, PaymentType, PgType
  <2>6. QED
    BY <2>1, <2>3, <2>5, RowsStay, HooksStay, RefundsStay, ConfirmedStays
<1>3. QED
  BY <1>1, <1>2 DEF PayApprove

\* A row is inserted by the request that has been approved, or by the webhook
\* that tells of the approval.
LEMMA InsertKeepsInv ==
    ASSUME IInv, TypeOK', NEW r \in Rows, Approved(r[1]),
           rows' = [rows EXCEPT ![r] = "paid"],
           UNCHANGED <<status, cpc, ctarget, accepted, ptarget, hrow, rrow,
                       pg, webhook>>,
           KeyFacts', HookFacts'
    PROVE  IInv'
<1> USE DEF IInv
<1>1. \A s \in Rows : rows'[s] = IF s = r THEN "paid" ELSE rows[s]
  BY DEF TypeOK, PaymentType
<1>2. Progress
  BY <1>1 DEF Progress, CancelAccepted
<1>3. RowFacts'
  <2>1. /\ \A k : Approved(k)' <=> Approved(k)
        /\ \A k : GivenBack(k)' <=> GivenBack(k)
        /\ \A b : CancelAccepted(b)' <=> CancelAccepted(b)
        /\ \A b : KeysOf(b)' = KeysOf(b)
    BY DEF Approved, GivenBack, CancelAccepted, KeysOf
  <2>2. QED
    BY <1>1, <2>1 DEF RowFacts
<1>4. QED
  BY <1>2, <1>3, RefundsStay, ConfirmedStays

LEMMA PayKeepsInv ==
    ASSUME IInv, TypeOK', NEW k \in Keys, PayStart(k) \/ PayStep(k)
    PROVE  IInv'
<1> USE DEF bookingVars, cancelVars, hookVars, pgVars
<1>1. CASE PayFind(k)
  BY <1>1, PayMovesKeepInv DEF PayFind, CheckUnpaid, PayAt
<1>2. CASE PayCreate(k)
  <2>1. \A x \in Keys : pg'[x] \in {"DONE", "CANCELED"} => pg'[x] = pg[x]
    BY <1>2 DEF PayCreate, PgCreate, IInv, TypeOK, PgType
  <2>2. QED
    BY <1>2, <2>1, PayMovesKeepInv DEF PayCreate, PayMoves, PayAt, PgCreate
<1>3. CASE PaySave(k)
  <2> USE DEF IInv
  <2>1. /\ ppc[k] = "save" /\ ppc' = [ppc EXCEPT ![k] = "confirm"]
        /\ rows' = [rows EXCEPT ![<<k, "sync">>] = "paid"]
        /\ UNCHANGED <<status, cpc, ctarget, accepted, ptarget, hpc, hrow,
                       rrow, pg, webhook>>
    BY <1>3 DEF PaySave, SavePaid, PayAt
  <2>2. <<k, "sync">> \in Rows /\ Approved(k)
    BY <2>1, KeysOfRowsAndPosts DEF KeyFacts
  <2>3. \A r \in Rows : /\ rows[r] # "none" => rows'[r] # "none"
                        /\ rows'[<<k, "sync">>] = "paid"
    BY <2>1, <2>2 DEF TypeOK, PaymentType
  <2>4. Progress
    BY <2>1, <2>3 DEF Progress, CancelAccepted
  <2>5. KeyFacts'
    BY <2>1, <2>2, <2>3, KeysOfRowsAndPosts DEF KeyFacts, Approved, GivenBack,
       CancelAccepted, TypeOK, PaymentType
  <2>6. HookFacts'
    BY <2>1, <2>4, HooksStay
  <2>7. QED
    BY <2>1, <2>2, <2>5, <2>6, InsertKeepsInv
<1>4. CASE PayConfirm(k)
  <2>1. \A b \in Bookings : status'[b] = "RESERVED" =>
            status[b] = "RESERVED" \/ PaidFor(b)
    <3>1. CASE UNCHANGED bookingVars
      BY <3>1
    <3>2. CASE PayMoves(k, "confirmsave", "done") /\ SaveReserved(ptarget[k])
      <4>1. rows[<<k, "sync">>] # "none"
        BY <3>2 DEF PayMoves, PayAt, IInv, KeyFacts
      <4>2. PaidFor(ptarget[k])
        BY <4>1, KeysOfRowsAndPosts DEF PaidFor, IInv, RowFacts
      <4>3. QED
        BY <3>2, <4>2 DEF SaveReserved, IInv, TypeOK, BookingType
    <3>3. QED
      BY <1>4, <3>1, <3>2 DEF PayConfirm
  <2>2. UNCHANGED <<cpc, ctarget, accepted, rows, ptarget, hpc, hrow, rrow, pg,
                    webhook>>
    BY <1>4 DEF PayConfirm, PayMoves, SaveReserved
  <2>3. \/ ppc[k] = "confirm" /\ ppc' = [ppc EXCEPT ![k] = "confirmsave"]
        \/ ppc[k] = "confirm" /\ ppc' = [ppc EXCEPT ![k] = "done"]
        \/ ppc[k] = "confirmsave" /\ ppc' = [ppc EXCEPT ![k] = "done"]
    BY <1>4 DEF PayConfirm, PayMoves, PayAt
  <2>4. QED
    BY <2>1, <2>2, <2>3, PayMovesKeepInv
<1>5. QED
  BY <1>1, <1>2, <1>3, <1>4, PayStartKeepsInv, PayApproveKeepsInv DEF PayStep

-----------------------------------------------------------------------------
\* handlePaymentWebhook

\* The steps of the handler that write no payment.
LEMMA HookMovesKeepInv ==
    ASSUME IInv, TypeOK', NEW h \in HookIds, webhook[h] # "none",
           NEW to \in {"find", "save", "confirmsave", "done", "failed"},
           hpc' = [hpc EXCEPT ![h] = to],
           to = "save" => h[2] = "PAYMENT.APPROVED",
           to = "confirmsave" => hpc[h] = "confirm",
           UNCHANGED <<cpc, ctarget, accepted, rows, ppc, ptarget, hrow, rrow,
                       pg>>,
           \A x \in HookIds : webhook'[x] = "none" <=> webhook[x] = "none",
           \A b \in Bookings : status'[b] = "RESERVED" =>
               status[b] = "RESERVED" \/ PaidFor(b)
    PROVE  IInv'
<1> USE DEF IInv
<1>1. Progress
  BY DEF Progress, CancelAccepted
<1>2. KeyFacts'
  BY KeysOfRowsAndPosts DEF KeyFacts, Approved, GivenBack, CancelAccepted
<1>3. HookFacts'
  <2>1. hpc'[h] = to
    BY DEF TypeOK, PaymentType
  <2>2. HookFact(h)'
    BY <2>1 DEF HookFacts, HookFact
  <2>3. QED
    BY <1>1, <2>2, OtherHooksStay
<1>4. QED
  BY <1>1, <1>2, <1>3, RowsStay, RefundsStay, ConfirmedStays

LEMMA HookStartKeepsInv ==
    ASSUME IInv, TypeOK', NEW h \in HookIds, HookStart(h)
    PROVE  IInv'
<1>1. /\ hpc' = [hpc EXCEPT ![h] = "find"]
      /\ webhook[h] = "sent" /\ webhook' = [webhook EXCEPT ![h] = "gone"]
      /\ UNCHANGED <<status, cpc, ctarget, accepted, rows, ppc, ptarget, hrow,
                     rrow, pg>>
  BY DEF HookStart, WebhookLeaves, HookArrives, HookAt, bookingVars,
     cancelVars, payVars
<1>2. \A x \in HookIds : webhook'[x] = "none" <=> webhook[x] = "none"
  BY <1>1 DEF IInv, TypeOK, PgType, HookIds, Events
<1>3. QED
  BY <1>1, <1>2, HookMovesKeepInv

LEMMA HookFindKeepsInv ==
    ASSUME IInv, TypeOK', NEW h \in HookIds, HookFind(h)
    PROVE  IInv'
<1> USE DEF IInv
<1>1. /\ hpc[h] = "find"
      /\ UNCHANGED <<status, cpc, ctarget, accepted, rows, ppc, ptarget, rrow,
                     pg, webhook>>
  BY DEF HookFind, FindForApproved, FindForCanceled, HookAt, bookingVars,
     cancelVars, payVars, pgVars
<1>2. webhook[h] # "none"
  BY <1>1 DEF HookFacts, HookFact
<1>3. CASE /\ hrow' = hrow
           /\ \/ /\ h[2] = "PAYMENT.APPROVED"
                 /\ hpc' = [hpc EXCEPT ![h] = "save"]
              \/ hpc' = [hpc EXCEPT ![h] = "done"]
  BY <1>1, <1>2, <1>3, HookMovesKeepInv
<1>4. CASE \E r \in PaidRows(ptarget[h[1]]) :
              /\ h[2] = "PAYMENT.CANCELED"
              /\ hpc' = [hpc EXCEPT ![h] = "mark"]
              /\ hrow' = [hrow EXCEPT ![h] = r]
  <2>1. Progress
    BY <1>1 DEF Progress, CancelAccepted
  <2>2. PICK r \in Rows : /\ rows[r] # "none"
                         /\ ptarget[r[1]] = ptarget[h[1]]
                         /\ hrow' = [hrow EXCEPT ![h] = r]
    BY <1>4 DEF PaidRows
  <2>3. hpc'[h] = "mark" /\ hrow'[h] = r
    BY <1>4, <2>2 DEF TypeOK, PaymentType
  <2>4. HookFacts'
    <3>1. HookFact(h)'
      BY <1>1, <1>2, <1>4, <2>2, <2>3 DEF HookFact
    <3>2. QED
      BY <1>4, <2>1, <2>2, <3>1, OtherHooksStay
  <2>5. QED
    BY <1>1, <2>1, <2>4, KeysStay, RowsStay, RefundsStay, ConfirmedStays
<1>5. QED
  BY <1>3, <1>4 DEF HookFind, FindForApproved, FindForCanceled, HookAt

\* The approval that was never recorded is recorded now.
LEMMA RescueKeepsInv ==
    ASSUME IInv, TypeOK', NEW h \in HookIds, HookSave(h), RescuePaid(h)
    PROVE  IInv'
<1> USE DEF IInv
<1> DEFINE row == <<h[1], "hook">>
<1>1. /\ hpc[h] = "save" /\ hpc' = [hpc EXCEPT ![h] = "confirm"]
      /\ rows' = [rows EXCEPT ![row] = "paid"]
      /\ UNCHANGED <<status, cpc, ctarget, accepted, ppc, ptarget, hrow, rrow,
                     pg, webhook>>
  BY DEF HookSave, RescuePaid, HookAt, bookingVars, cancelVars, payVars, pgVars
<1>2. row \in Rows /\ row[1] = h[1] /\ webhook[h] # "none"
  BY <1>1, KeysOfRowsAndPosts DEF HookFacts, HookFact
<1>3. Approved(row[1])
  <2>1. h = <<h[1], "PAYMENT.APPROVED">>
    BY <1>1 DEF HookFacts, HookFact, HookIds
  <2>2. QED
    BY <1>2, <2>1 DEF Approved
<1>4. \A r \in Rows : rows'[r] = IF r = row THEN "paid" ELSE rows[r]
  BY <1>1, <1>2 DEF TypeOK, PaymentType
<1>5. hpc'[h] = "confirm"
  BY <1>1 DEF TypeOK, PaymentType
<1>6. Progress
  BY <1>1, <1>4 DEF Progress, CancelAccepted
<1>7. KeyFacts'
  BY <1>1, <1>6, KeysStay
<1>8. HookFacts'
  <2>1. HookFact(h)'
    BY <1>1, <1>2, <1>4, <1>5 DEF HookFact
  <2>2. QED
    BY <1>1, <1>6, <2>1, OtherHooksStay
<1>9. QED
  BY <1>1, <1>2, <1>3, <1>7, <1>8, InsertKeepsInv

\* A cancellation webhook marks a row of the reservation it is about, which
\* need not be the row of its own key.
LEMMA MarkKeepsInv ==
    ASSUME IInv, TypeOK', NEW h \in HookIds, HookSave(h), MarkRefunded(h)
    PROVE  IInv'
<1> USE DEF IInv
<1>1. /\ hpc[h] = "mark" /\ hpc' = [hpc EXCEPT ![h] = "done"]
      /\ rows' = [rows EXCEPT ![hrow[h]] = "refunded"]
      /\ UNCHANGED <<status, cpc, ctarget, accepted, ppc, ptarget, hrow, rrow,
                     pg, webhook>>
  BY DEF HookSave, MarkRefunded, HookAt, bookingVars, cancelVars, payVars,
     pgVars
<1>2. /\ hrow[h] \in Rows /\ rows[hrow[h]] # "none"
      /\ ptarget[hrow[h][1]] = ptarget[h[1]]
      /\ h[2] = "PAYMENT.CANCELED" /\ webhook[h] # "none"
  BY <1>1 DEF HookFacts, HookFact
<1>3. /\ h[1] \in Keys /\ GivenBack(h[1]) /\ Approved(h[1])
      /\ CancelAccepted(ptarget[h[1]])
  <2>1. h = <<h[1], "PAYMENT.CANCELED">>
    BY <1>2 DEF HookIds
  <2>2. h[1] \in Keys /\ GivenBack(h[1])
    BY <1>2, <2>1, KeysOfRowsAndPosts DEF GivenBack
  <2>3. QED
    BY <2>2 DEF KeyFacts
<1>4. \A r \in Rows : rows'[r] = IF r = hrow[h] THEN "refunded" ELSE rows[r]
  BY <1>1, <1>2 DEF TypeOK, PaymentType
<1>5. Progress
  BY <1>1, <1>4 DEF Progress, CancelAccepted
<1>6. RowFacts'
  <2>1. /\ \A k : Approved(k)' <=> Approved(k)
        /\ \A k : GivenBack(k)' <=> GivenBack(k)
        /\ \A b : CancelAccepted(b)' <=> CancelAccepted(b)
        /\ \A b : KeysOf(b)' = KeysOf(b)
    BY <1>1 DEF Approved, GivenBack, CancelAccepted, KeysOf
  <2>2. \/ GivenBack(hrow[h][1])
        \/ \E k \in KeysOf(ptarget[hrow[h][1]]) :
              k # hrow[h][1] /\ Approved(k)
    BY <1>2, <1>3 DEF KeysOf
  <2>3. QED
    BY <1>1, <1>2, <1>3, <1>4, <2>1, <2>2 DEF RowFacts
<1>7. HookFacts'
  <2>1. hpc'[h] = "done"
    BY <1>1 DEF TypeOK, PaymentType
  <2>2. HookFact(h)'
    BY <1>1, <1>2, <2>1 DEF HookFact
  <2>3. QED
    BY <1>1, <1>5, <2>2, OtherHooksStay
<1>8. KeyFacts'
  BY <1>1, <1>5, KeysStay
<1>9. QED
  BY <1>1, <1>5, <1>6, <1>7, <1>8, RefundsStay, ConfirmedStays

LEMMA HookConfirmKeepsInv ==
    ASSUME IInv, TypeOK', NEW h \in HookIds, HookConfirm(h)
    PROVE  IInv'
<1>1. /\ hpc[h] \in {"confirm", "confirmsave"}
      /\ \E to \in {"confirmsave", "done"} :
            /\ hpc' = [hpc EXCEPT ![h] = to]
            /\ to = "confirmsave" => hpc[h] = "confirm"
      /\ UNCHANGED <<cpc, ctarget, accepted, rows, ppc, ptarget, hrow, rrow, pg,
                     webhook>>
  BY DEF HookConfirm, HookMoves, HookAt, SaveReserved, bookingVars, cancelVars,
     payVars, pgVars
<1>2. \A b \in Bookings : status'[b] = "RESERVED" =>
          status[b] = "RESERVED" \/ PaidFor(b)
  <2>1. CASE UNCHANGED bookingVars
    BY <2>1 DEF bookingVars
  <2>2. CASE SaveReserved(ptarget[h[1]])
    <3>1. rows[<<h[1], "hook">>] # "none" /\ h[1] \in Keys
      BY <1>1, KeysOfRowsAndPosts DEF IInv, HookFacts, HookFact
    <3>2. PaidFor(ptarget[h[1]])
      BY <3>1, KeysOfRowsAndPosts DEF PaidFor, IInv, RowFacts
    <3>3. QED
      BY <2>2, <3>2 DEF SaveReserved, IInv, TypeOK, BookingType
  <2>3. QED
    BY <2>1, <2>2 DEF HookConfirm
<1>3. webhook[h] # "none"
  BY <1>1 DEF IInv, HookFacts, HookFact
<1>4. QED
  BY <1>1, <1>2, <1>3, HookMovesKeepInv

LEMMA HookKeepsInv ==
    ASSUME IInv, TypeOK', NEW h \in HookIds, HookStep(h)
    PROVE  IInv'
BY HookStartKeepsInv, HookFindKeepsInv, RescueKeepsInv, MarkKeepsInv,
   HookConfirmKeepsInv DEF HookStep, HookSave

-----------------------------------------------------------------------------
\* Faults

LEMMA AbandonKeepsInv ==
    ASSUME IInv, TypeOK', Abandon
    PROVE  IInv'
<1> USE DEF Abandon, bookingVars, cancelVars, createVars, paymentVars,
            payVars, hookVars, pgVars
<1>1. CASE (\E b \in Bookings : BookingAbandoned(b)) /\ UNCHANGED paymentVars
  <2>1. UNCHANGED <<status, cpc, ctarget, accepted, rows, ppc, ptarget, hpc,
                    hrow, rrow, pg, webhook>>
    BY <1>1 DEF BookingAbandoned
  <2>2. Progress
    BY <2>1 DEF Progress, CancelAccepted
  <2>3. QED
    BY <2>1, <2>2, KeysStay, RowsStay, HooksStay, RefundsStay, ConfirmedStays
       DEF IInv
<1>2. CASE (\E c \in Cancels : CancelAbandoned(c)) /\ UNCHANGED paymentVars
  BY <1>2, CancelMovesKeepInv
<1>3. CASE (\E k \in Keys : PayAbandoned(k)) /\ UNCHANGED bookingVars
  BY <1>3, PayMovesKeepInv DEF PayAbandoned
<1>4. CASE (\E h \in HookIds : HookAbandoned(h)) /\ UNCHANGED bookingVars
  <2>1. PICK h \in HookIds : HookAbandoned(h)
    BY <1>4
  <2>2. webhook[h] # "none"
    BY <2>1 DEF HookAbandoned, IInv, HookFacts, HookFact
  <2>3. QED
    BY <1>4, <2>1, <2>2, HookMovesKeepInv DEF HookAbandoned
<1>5. QED
  BY <1>1, <1>2, <1>3, <1>4

\* A lost post and a restart of the gateway only touch what it remembers.
LEMMA GatewayFaultKeepsInv ==
    ASSUME IInv, TypeOK', LoseWebhook \/ GatewayRestarts
    PROVE  IInv'
<1> USE DEF IInv
<1>1. UNCHANGED <<status, cpc, ctarget, accepted, rows, ppc, ptarget, hpc,
                  hrow, rrow>>
  BY DEF LoseWebhook, GatewayRestarts, bookingVars, cancelVars, paymentVars,
     payVars, hookVars
<1>2. \A h \in HookIds : webhook'[h] = "none" <=> webhook[h] = "none"
  BY DEF LoseWebhook, GatewayRestarts, WebhookLeaves, PgRestart, TypeOK,
     PgType, HookIds, Events
<1>3. \A k \in Keys : pg'[k] \in {"DONE", "CANCELED"} => pg'[k] = pg[k]
  BY DEF LoseWebhook, GatewayRestarts, WebhookLeaves, PgRestart
<1>4. Progress
  BY <1>1, <1>2 DEF Progress, CancelAccepted
<1>5. KeyFacts'
  BY <1>1, <1>2, <1>3, KeysOfRowsAndPosts DEF KeyFacts, Approved, GivenBack,
     CancelAccepted
<1>6. QED
  BY <1>1, <1>4, <1>5, RowsStay, HooksStay, RefundsStay, ConfirmedStays

LEMMA CallFaultKeepsInv ==
    ASSUME IInv, TypeOK', ReleaseFails \/ ConfirmFails
    PROVE  IInv'
<1> USE DEF bookingVars, cancelVars, paymentVars, payVars, hookVars, pgVars
<1>1. CASE ReleaseFails
  BY <1>1, CancelMovesKeepInv DEF ReleaseFails
<1>2. ASSUME NEW k \in Keys, PayMoves(k, "confirm", "done"),
             UNCHANGED <<bookingVars, pgVars>>
      PROVE  IInv'
  BY <1>2, PayMovesKeepInv DEF PayMoves, PayAt
<1>3. ASSUME NEW h \in HookIds, HookMoves(h, "confirm", "done"),
             UNCHANGED <<bookingVars, pgVars>>
      PROVE  IInv'
  <2>1. webhook[h] # "none"
    BY <1>3 DEF HookMoves, HookAt, IInv, HookFacts, HookFact
  <2>2. QED
    BY <1>3, <2>1, HookMovesKeepInv DEF HookMoves, HookAt
<1>4. QED
  BY <1>1, <1>2, <1>3 DEF ConfirmFails

-----------------------------------------------------------------------------
\* The theorems

LEMMA InitEstablishes == Init => IInv
<1> SUFFICES ASSUME Init
             PROVE  IInv
  OBVIOUS
<1>1. TypeOK
  BY InitHasType
<1>2. \A k \in Keys : ~Approved(k) /\ ~GivenBack(k)
  BY KeysOfRowsAndPosts DEF Init, PgInit, Approved, GivenBack, HookIds, Events
<1>3. KeyFacts /\ RowFacts /\ HookFacts /\ RefundFacts
  BY <1>2 DEF Init, BookingInit, PaymentInit, PgInit, KeyFacts, RowFacts,
     HookFacts, HookFact, RefundFacts
<1>4. ConfirmedOnlyAfterPayment
  BY DEF Init, BookingInit, ConfirmedOnlyAfterPayment
<1>5. QED
  BY <1>1, <1>3, <1>4 DEF IInv

LEMMA NextKeepsInv == IInv /\ [Next]_sagaVars => IInv'
<1> SUFFICES ASSUME IInv, [Next]_sagaVars
             PROVE  IInv'
  OBVIOUS
<1>1. TypeOK'
  BY NextKeepsType DEF IInv
<1>2. ASSUME NEW c \in Cancels, CancelStart(c) \/ CancelStep(c)
      PROVE  IInv'
  <2>1. CASE CancelRelease(c)
    BY <1>1, <2>1, CancelMovesKeepInv DEF CancelRelease, paymentVars, payVars,
       hookVars, pgVars
  <2>2. QED
    BY <1>1, <1>2, <2>1, CancelStartKeepsInv, CancelSaveKeepsInv,
       RefundFindKeepsInv, RefundAtGatewayKeepsInv, RefundSaveKeepsInv
       DEF CancelStep
<1>3. CASE FaultStep
  BY <1>1, <1>3, AbandonKeepsInv, GatewayFaultKeepsInv, CallFaultKeepsInv
     DEF FaultStep
<1>4. CASE UNCHANGED sagaVars
  <2>1. UNCHANGED <<status, cpc, ctarget, accepted, rows, ppc, ptarget, hpc,
                    hrow, rrow, pg, webhook>>
    BY <1>4 DEF sagaVars, bookingVars, cancelVars, paymentVars, payVars,
       hookVars, pgVars
  <2>2. Progress
    BY <2>1 DEF Progress, CancelAccepted
  <2>3. QED
    BY <1>1, <2>1, <2>2, KeysStay, RowsStay, HooksStay, RefundsStay,
       ConfirmedStays DEF IInv
<1>5. QED
  BY <1>1, <1>2, <1>3, <1>4, CreateKeepsInv, PayKeepsInv, HookKeepsInv DEF Next

\* The inductive invariant holds in every reachable state.
THEOREM SagaInductive == Spec => []IInv
BY InitEstablishes, NextKeepsInv, PTL DEF Spec

\* No reservation is RESERVED without a payment on record that the gateway has
\* approved, in any interleaving of any number of requests and faults.
THEOREM NeverConfirmedUnpaid == Spec => []ConfirmedOnlyAfterPayment
<1>1. IInv => ConfirmedOnlyAfterPayment
  BY DEF IInv
<1>2. QED
  BY <1>1, SagaInductive, PTL

\* Money goes back, and is marked so, only after the cancellation of its own
\* reservation has been saved.
THEOREM NeverRefundedUncancelled == Spec => []RefundOnlyAfterCancel
<1>1. IInv => RefundOnlyAfterCancel
  BY KeysOfRowsAndPosts DEF IInv, KeyFacts, RowFacts, RefundOnlyAfterCancel
<1>2. QED
  BY <1>1, SagaInductive, PTL

\* A payment marked REFUNDED was cancelled at the gateway, for every
\* reservation that was charged only once.
THEOREM RefundsAreReal == Spec => []RefundRecordedAfterRefund
<1>1. IInv => RefundRecordedAfterRefund
  BY DEF IInv, RowFacts, RefundRecordedAfterRefund
<1>2. QED
  BY <1>1, SagaInductive, PTL

-----------------------------------------------------------------------------
\* The nights: what a stay holds from its grant on

CancelledTwice ==
    \E c1, c2 \in accepted : c1 # c2 /\ ctarget[c1] = ctarget[c2]

\* The nights are b's from the grant until a cancellation gives them back, or
\* fails to.
Owns(b) == /\ bpc[b] \in {"price", "save"} \/ status[b] # "none"
           /\ \A c \in accepted : ctarget[c] = b => cpc[c] = "release"

StayFacts ==
    \A b \in Bookings :
        /\ bpc[b] \in {"idle", "reserve", "price", "save"} => status[b] = "none"
        /\ bpc[b] \in {"reserve", "price", "save"} \/ status[b] # "none"
              => stay[b] # {}

\* Only a reservation that exists is cancelled or paid.
TargetFacts ==
    /\ \A c \in Cancels : cpc[c] # "idle" =>
          ctarget[c] \in Bookings /\ status[ctarget[c]] # "none"
    /\ \A c \in accepted : cpc[c] # "save"
    /\ \A k \in Keys : ppc[k] # "idle" =>
          ptarget[k] \in Bookings /\ status[ptarget[k]] # "none"

NightFacts ==
    \/ CancelledTwice
    \/ \A b \in Bookings : Owns(b) =>
          /\ \A d \in stay[b] : calendar[d] = "taken"
          /\ \A other \in Bookings \ {b} :
                Owns(other) => stay[b] \cap stay[other] = {}

NightInv == /\ IInv
            /\ StayFacts
            /\ TargetFacts
            /\ NightFacts
            /\ TakenNightsAreAccounted

LEMMA BookingsUntouched ==
    ASSUME NightInv, TypeOK', UNCHANGED <<calendar, bookingVars>>,
           faults' \in Nat, faults' >= faults,
           \A k \in Keys : ppc'[k] # "idle" => ppc[k] # "idle",
           ptarget' = ptarget
    PROVE  StayFacts' /\ TargetFacts' /\ NightFacts' /\ TakenNightsAreAccounted'
<1> USE DEF NightInv, bookingVars, createVars, cancelVars
<1>1. StayFacts' /\ TargetFacts'
  BY DEF StayFacts, TargetFacts
<1>2. CancelledTwice' <=> CancelledTwice
  BY DEF CancelledTwice
<1>3. \A b \in Bookings : Owns(b)' <=> Owns(b)
  BY DEF Owns
<1>4. NightFacts'
  BY <1>2, <1>3 DEF NightFacts
<1>5. \A b \in Bookings : Held(b)' <=> Held(b)
  BY DEF Held, CancelAccepted
<1>6. faults' = 0 => faults = 0
  BY SagaAssumption DEF IInv, TypeOK
<1>7. TakenNightsAreAccounted'
  BY <1>5, <1>6 DEF TakenNightsAreAccounted
<1>8. QED
  BY <1>1, <1>4, <1>7

-----------------------------------------------------------------------------
\* createBooking takes nights

LEMMA StartKeepsNights ==
    ASSUME NightInv, TypeOK', NEW b \in Bookings, CreateStart(b)
    PROVE  StayFacts' /\ TargetFacts' /\ NightFacts' /\ TakenNightsAreAccounted'
<1> USE DEF NightInv, cancelVars, paymentVars, payVars
<1>1. /\ bpc[b] = "idle" /\ status[b] = "none"
      /\ bpc' = [bpc EXCEPT ![b] = "reserve"] \/ bpc' = [bpc EXCEPT ![b] = "failed"]
      /\ UNCHANGED <<calendar, status, extras, cpc, ctarget, accepted, ppc, ptarget,
                     faults>>
  BY DEF CreateStart, StartBooking, BookingAt, StayFacts
<1>2. /\ bpc'[b] = "reserve" => stay'[b] # {}
      /\ \A x \in Bookings \ {b} : /\ bpc'[x] = bpc[x] /\ stay'[x] = stay[x]
                                   /\ wanted'[x] = wanted[x]
  <2>1. ASSUME NEW checkIn \in Dates, NEW checkOut \in Days,
               ValidDates(checkIn, checkOut)
        PROVE  NightsOf(checkIn, checkOut) # {}
    <3>1. checkIn \in Int /\ checkOut \in Int
      BY DatesAssumption DEF Days
    <3>2. checkIn \in NightsOf(checkIn, checkOut)
      BY <2>1, <3>1 DEF ValidDates, NightsOf, Span
    <3>3. QED
      BY <3>2
  <2>2. QED
    BY <2>1 DEF CreateStart, StartBooking, BookingAt, IInv, TypeOK, BookingType
<1>3. StayFacts'
  BY <1>1, <1>2 DEF StayFacts, IInv, TypeOK, BookingType
<1>4. TargetFacts'
  BY <1>1 DEF TargetFacts
<1>5. ~Owns(b)' /\ \A x \in Bookings \ {b} : Owns(x)' <=> Owns(x)
  BY <1>1, <1>2 DEF Owns, IInv, TypeOK, BookingType
<1>6. NightFacts'
  BY <1>1, <1>2, <1>5 DEF NightFacts, CancelledTwice
<1>7. \A c \in accepted : ctarget[c] # b
  BY <1>1 DEF TargetFacts, IInv, RefundFacts, TypeOK, BookingType
<1>8. \A x \in Bookings : Held(x)' <=> Held(x)
  BY <1>1 DEF Held, CancelAccepted
<1>9. ~Held(b) /\ bpc[b] = "idle"
  BY <1>1 DEF Held, Live
<1>10. TakenNightsAreAccounted'
  BY <1>1, <1>2, <1>7, <1>8, <1>9 DEF TakenNightsAreAccounted
<1>11. QED
  BY <1>3, <1>4, <1>6, <1>10

\* The nights of another guest are taken, and so not among the free ones.
LEMMA ReserveKeepsNights ==
    ASSUME NightInv, TypeOK', NEW b \in Bookings, CreateReserve(b)
    PROVE  StayFacts' /\ TargetFacts' /\ NightFacts' /\ TakenNightsAreAccounted'
<1> USE DEF NightInv, cancelVars, paymentVars, payVars
<1>1. /\ bpc[b] = "reserve" /\ status[b] = "none" /\ stay[b] # {}
      /\ UNCHANGED <<status, stay, wanted, extras, cpc, ctarget, accepted, ppc,
                     ptarget, faults>>
  BY DEF CreateReserve, NightsGranted, NightsRefused, BookingAt, StayFacts
<1>2. /\ bpc'[b] \in {"price", "failed"}
      /\ \A x \in Bookings \ {b} : bpc'[x] = bpc[x]
  BY DEF CreateReserve, NightsGranted, NightsRefused, BookingAt, IInv, TypeOK,
     BookingType
<1>3. StayFacts'
  BY <1>1, <1>2 DEF StayFacts
<1>4. TargetFacts'
  BY <1>1 DEF TargetFacts
<1>5. /\ \A x \in Bookings : Held(x)' <=> Held(x)
      /\ \A x \in Bookings \ {b} : Owns(x)' <=> Owns(x)
      /\ CancelledTwice' <=> CancelledTwice
  BY <1>1, <1>2 DEF Held, CancelAccepted, Owns, CancelledTwice
<1>6. CASE bpc'[b] = "price"
  <2>1. AllFree(stay[b]) /\ calendar' = Marked(stay[b], "taken")
    BY <1>6 DEF CreateReserve, NightsRefused, BookingAt, IInv, TypeOK,
       BookingType, Reserve
  <2>2. \A d \in Dates : calendar'[d] = "taken"
                            <=> calendar[d] = "taken" \/ d \in stay[b]
    BY <2>1 DEF AllFree, Marked
  <2>3. \A x \in Bookings : stay[x] \subseteq Dates
    BY DEF IInv, TypeOK, BookingType
  <2>4. ASSUME ~CancelledTwice, NEW x \in Bookings \ {b}, Owns(x)
        PROVE  stay[b] \cap stay[x] = {}
    BY <2>1, <2>4 DEF NightFacts, AllFree
  <2>5. NightFacts'
    BY <1>1, <1>5, <2>2, <2>3, <2>4 DEF NightFacts
  <2>6. TakenNightsAreAccounted'
    BY <1>1, <1>2, <1>5, <1>6, <2>2 DEF TakenNightsAreAccounted
  <2>7. QED
    BY <1>3, <1>4, <2>5, <2>6
<1>7. CASE bpc'[b] = "failed"
  <2>1. calendar' = calendar
    BY <1>7 DEF CreateReserve, NightsGranted, BookingAt, IInv, TypeOK, BookingType
  <2>2. ~Owns(b)'
    BY <1>1, <1>7 DEF Owns
  <2>3. NightFacts'
    BY <1>1, <1>5, <2>1, <2>2 DEF NightFacts
  <2>4. TakenNightsAreAccounted'
    BY <1>1, <1>2, <1>5, <2>1 DEF TakenNightsAreAccounted
  <2>5. QED
    BY <1>3, <1>4, <2>3, <2>4
<1>8. QED
  BY <1>2, <1>6, <1>7

LEMMA CreateRestKeepsNights ==
    ASSUME NightInv, TypeOK', NEW b \in Bookings,
           CreatePrice(b) \/ CreateSave(b) \/ CreateExtras(b)
    PROVE  StayFacts' /\ TargetFacts' /\ NightFacts' /\ TakenNightsAreAccounted'
<1> USE DEF NightInv, cancelVars, paymentVars, payVars, BookingAt, IInv, TypeOK,
            BookingType
<1>1. /\ UNCHANGED <<calendar, stay, wanted, cpc, ctarget, accepted, ppc, ptarget,
                     faults>>
      /\ \A x \in Bookings \ {b} : bpc'[x] = bpc[x] /\ status'[x] = status[x]
  BY DEF CreatePrice, CreateSave, CreateExtras, PriceFacilities, SaveReservation,
     SaveFacility
<1>2. \/ bpc[b] = "price" /\ bpc'[b] = "save" /\ status'[b] = status[b]
      \/ /\ bpc[b] = "price" /\ bpc'[b] = "failed" /\ status'[b] = status[b]
         /\ ~(wanted[b] \subseteq Catalogue)
      \/ bpc[b] = "save" /\ bpc'[b] = "extras" /\ status'[b] = "PENDING_PAYMENT"
      \/ /\ bpc[b] = "extras" /\ bpc'[b] \in {"extras", "done"}
         /\ status'[b] = status[b]
  BY DEF CreatePrice, CreateSave, CreateExtras, PriceFacilities, SaveReservation,
     SaveFacility
<1>3. StayFacts'
  BY <1>1, <1>2 DEF StayFacts
<1>4. \A x \in Bookings : status[x] # "none" => status'[x] # "none"
  BY <1>1, <1>2
<1>5. TargetFacts'
  BY <1>1, <1>4 DEF TargetFacts
<1>6. \A x \in Bookings : Owns(x)' => Owns(x)
  BY <1>1, <1>2 DEF Owns, StayFacts
<1>7. NightFacts'
  BY <1>1, <1>6 DEF NightFacts, CancelledTwice
<1>8. \A x \in Bookings : CancelAccepted(x)' <=> CancelAccepted(x)
  BY <1>1 DEF CancelAccepted
<1>9. \A x \in Bookings : Held(x) => Held(x)'
  BY <1>1, <1>2, <1>8 DEF Held, StayFacts, Live
<1>10. bpc[b] = "save" => Held(b)'
  <2>1. bpc[b] = "save" => ~CancelAccepted(b)
    BY DEF CancelAccepted, TargetFacts, RefundFacts, StayFacts
  <2>2. QED
    BY <1>2, <1>8, <2>1 DEF Held, Live
<1>11. TakenNightsAreAccounted'
  BY <1>1, <1>2, <1>9, <1>10 DEF TakenNightsAreAccounted
<1>12. QED
  BY <1>3, <1>5, <1>7, <1>11

-----------------------------------------------------------------------------
\* cancelBooking gives them back

LEMMA CancelStartKeepsNights ==
    ASSUME NightInv, TypeOK', NEW c \in Cancels, CancelStart(c)
    PROVE  StayFacts' /\ TargetFacts' /\ NightFacts' /\ TakenNightsAreAccounted'
<1> USE DEF NightInv, createVars, paymentVars, payVars
<1>1. /\ cpc[c] = "idle" /\ cpc'[c] \in {"save", "done"}
      /\ ctarget'[c] \in Bookings /\ status[ctarget'[c]] # "none"
      /\ \A x \in Cancels \ {c} : cpc'[x] = cpc[x] /\ ctarget'[x] = ctarget[x]
      /\ UNCHANGED <<calendar, status, stay, wanted, bpc, accepted, ppc, ptarget,
                     faults>>
  BY DEF CancelStart, FindForCancel, CancelAt, IInv, TypeOK, BookingType
<1>2. c \notin accepted /\ accepted \subseteq Cancels
  BY <1>1 DEF IInv, RefundFacts, TypeOK, BookingType
<1>3. StayFacts' /\ TargetFacts'
  BY <1>1, <1>2 DEF StayFacts, TargetFacts
<1>4. /\ \A x \in Bookings : Owns(x)' <=> Owns(x)
      /\ \A x \in Bookings : Held(x)' <=> Held(x)
      /\ CancelledTwice' <=> CancelledTwice
  BY <1>1, <1>2 DEF Owns, Held, CancelAccepted, CancelledTwice
<1>5. NightFacts'
  BY <1>1, <1>4 DEF NightFacts
<1>6. TakenNightsAreAccounted'
  BY <1>1, <1>2, <1>4 DEF TakenNightsAreAccounted
<1>7. QED
  BY <1>3, <1>5, <1>6

LEMMA CancelSaveKeepsNights ==
    ASSUME NightInv, TypeOK', NEW c \in Cancels, CancelSave(c)
    PROVE  StayFacts' /\ TargetFacts' /\ NightFacts' /\ TakenNightsAreAccounted'
<1> USE DEF NightInv, createVars, paymentVars, payVars
<1> DEFINE b == ctarget[c]
<1>1. /\ cpc[c] = "save" /\ cpc'[c] = "release"
      /\ b \in Bookings /\ status[b] # "none" /\ status'[b] = "CANCELLED"
      /\ \A x \in Bookings \ {b} : status'[x] = status[x]
      /\ \A x \in Cancels \ {c} : cpc'[x] = cpc[x]
      /\ accepted' = accepted \cup {c} /\ accepted' \subseteq Cancels
      /\ UNCHANGED <<calendar, stay, wanted, bpc, ctarget, ppc, ptarget, faults>>
  BY DEF CancelSave, SaveCancelled, CancelAt, TargetFacts, IInv, TypeOK, BookingType
<1>2. StayFacts' /\ TargetFacts'
  BY <1>1 DEF StayFacts, TargetFacts
<1>3. \A x \in Bookings : Owns(x)' => Owns(x)
  BY <1>1 DEF Owns, TargetFacts
<1>4. CancelledTwice => CancelledTwice'
  BY <1>1 DEF CancelledTwice
<1>5. NightFacts'
  BY <1>1, <1>3, <1>4 DEF NightFacts
<1>6. \A x \in Bookings \ {b} : Held(x) => Held(x)'
  BY <1>1 DEF Held, CancelAccepted
<1>7. TakenNightsAreAccounted'
  BY <1>1, <1>6 DEF TakenNightsAreAccounted
<1>8. QED
  BY <1>2, <1>5, <1>7

\* The nights that are opened are nobody else's, unless they have been given
\* back before.
LEMMA ReleaseKeepsNights ==
    ASSUME NightInv, TypeOK', NEW c \in Cancels, CancelRelease(c)
    PROVE  StayFacts' /\ TargetFacts' /\ NightFacts' /\ TakenNightsAreAccounted'
<1> USE DEF NightInv, createVars, paymentVars, payVars
<1> DEFINE b == ctarget[c]
<1>1. /\ cpc[c] = "release" /\ cpc'[c] = "refund" /\ c \in accepted
      /\ b \in Bookings /\ status[b] # "none"
      /\ \A x \in Cancels \ {c} : cpc'[x] = cpc[x]
      /\ calendar' = Marked(stay[b], "free")
      /\ UNCHANGED <<status, stay, wanted, bpc, ctarget, accepted, ppc, ptarget,
                     faults>>
  BY DEF CancelRelease, Release, ReleaseAnswered, CancelAt, TargetFacts, IInv,
     RefundFacts, TypeOK, BookingType
<1>2. \A d \in Dates : calendar'[d] = "taken"
                          <=> calendar[d] = "taken" /\ d \notin stay[b]
  BY <1>1 DEF Marked, IInv, TypeOK, CalendarType, Cells
<1>3. StayFacts' /\ TargetFacts'
  BY <1>1 DEF StayFacts, TargetFacts, IInv, TypeOK, BookingType
<1>4. \A x \in Bookings : stay[x] \subseteq Dates
  BY DEF IInv, TypeOK, BookingType
<1>5. /\ ~Owns(b)'
      /\ \A x \in Bookings : Owns(x)' => Owns(x)
      /\ CancelledTwice \/ Owns(b)
      /\ CancelledTwice' <=> CancelledTwice
  BY <1>1 DEF Owns, CancelledTwice, IInv, TypeOK, BookingType
<1>6. NightFacts'
  BY <1>1, <1>2, <1>4, <1>5 DEF NightFacts
<1>7. \A x \in Bookings : Held(x)' <=> Held(x)
  BY <1>1 DEF Held, CancelAccepted
<1>8. accepted \subseteq Cancels
  BY DEF IInv, TypeOK, BookingType
<1>9. TakenNightsAreAccounted'
  BY <1>1, <1>2, <1>7, <1>8 DEF TakenNightsAreAccounted
<1>10. QED
  BY <1>3, <1>6, <1>9

\* The other steps of a cancellation; one that leaves "release" without having
\* given the nights back is a fault.
LEMMA CancelMovesKeepNights ==
    ASSUME NightInv, TypeOK', NEW c \in Cancels, NEW to \in CancelSteps \ {"idle", "save", "release"},
           cpc[c] # "idle", cpc' = [cpc EXCEPT ![c] = to],
           UNCHANGED <<calendar, status, createVars, ctarget, accepted, payVars>>,
           \/ cpc[c] # "release" /\ faults' = faults
           \/ faults' = faults + 1
    PROVE  StayFacts' /\ TargetFacts' /\ NightFacts' /\ TakenNightsAreAccounted'
<1> USE DEF NightInv, createVars, payVars
<1>1. /\ cpc'[c] = to
      /\ \A x \in Cancels \ {c} : cpc'[x] = cpc[x]
      /\ accepted \subseteq Cancels
  BY DEF IInv, TypeOK, BookingType
<1>2. StayFacts' /\ TargetFacts'
  BY <1>1 DEF StayFacts, TargetFacts
<1>3. /\ \A x \in Bookings : Owns(x)' => Owns(x)
      /\ CancelledTwice' <=> CancelledTwice
  BY <1>1 DEF Owns, CancelledTwice
<1>4. NightFacts'
  BY <1>3 DEF NightFacts
<1>5. \A x \in Bookings : Held(x)' <=> Held(x)
  BY DEF Held, CancelAccepted
<1>6. ASSUME faults' = faults + 1
      PROVE  TakenNightsAreAccounted'
  <2>1. faults' # 0
    BY <1>6, SagaAssumption DEF IInv, TypeOK
  <2>2. QED
    BY <2>1 DEF TakenNightsAreAccounted
<1>7. ASSUME cpc[c] # "release", faults' = faults
      PROVE  TakenNightsAreAccounted'
  <2>1. \A x \in accepted : cpc[x] = "release" => cpc'[x] = "release"
    BY <1>1, <1>7
  <2>2. QED
    BY <1>5, <1>7, <2>1 DEF TakenNightsAreAccounted
<1>8. QED
  BY <1>2, <1>4, <1>6, <1>7

LEMMA CancellationKeepsNights ==
    ASSUME NightInv, TypeOK', NEW c \in Cancels, CancelStart(c) \/ CancelStep(c)
    PROVE  StayFacts' /\ TargetFacts' /\ NightFacts' /\ TakenNightsAreAccounted'
<1>1. CASE RefundFind(c) \/ RefundAtGateway(c) \/ RefundSave(c)
  <2>1. \E to \in CancelSteps \ {"idle", "save", "release"} :
           /\ cpc[c] \notin {"idle", "release"} /\ cpc' = [cpc EXCEPT ![c] = to]
           /\ UNCHANGED <<calendar, status, createVars, ctarget, accepted, payVars,
                          faults>>
    <3>1. UNCHANGED <<calendar, status, createVars, ctarget, accepted, payVars, faults>>
      BY <1>1 DEF RefundFind, RefundAtGateway, RefundSave, RefundMoves,
         NothingToRefund, FindForRefund, SaveRefunded, paymentVars
    <3>2. \E from \in {"refund", "pgcancel", "refundsave"},
             to \in {"pgcancel", "refundsave", "done"} : CancelAt(c, from, to)
      BY <1>1 DEF RefundFind, RefundAtGateway, RefundSave, RefundMoves
    <3>3. QED
      BY <3>1, <3>2 DEF CancelAt, CancelSteps
  <2>2. QED
    BY <2>1, CancelMovesKeepNights
<1>2. CASE CancelStart(c) \/ CancelSave(c) \/ CancelRelease(c)
  BY <1>2, CancelStartKeepsNights, CancelSaveKeepsNights, ReleaseKeepsNights
<1>3. QED
  BY <1>1, <1>2 DEF CancelStep

-----------------------------------------------------------------------------
\* Payments, webhooks and faults leave them alone

\* A confirmation cannot bring back a reservation whose cancellation is saved:
\* the status changes, the cancellation stays on record.
LEMMA ConfirmKeepsNights ==
    ASSUME NightInv, TypeOK', NEW b \in Bookings, status[b] # "none", SaveReserved(b),
           UNCHANGED <<calendar, ptarget, faults>>,
           \A k \in Keys : ppc'[k] # "idle" => ppc[k] # "idle"
    PROVE  StayFacts' /\ TargetFacts' /\ NightFacts' /\ TakenNightsAreAccounted'
<1> USE DEF NightInv, createVars, cancelVars, SaveReserved
<1>1. /\ status'[b] = "RESERVED"
      /\ \A x \in Bookings \ {b} : status'[x] = status[x]
  BY DEF IInv, TypeOK, BookingType
<1>2. StayFacts' /\ TargetFacts'
  BY <1>1 DEF StayFacts, TargetFacts
<1>3. /\ \A x \in Bookings : Owns(x)' <=> Owns(x)
      /\ CancelledTwice' <=> CancelledTwice
  BY <1>1 DEF Owns, CancelledTwice
<1>4. NightFacts'
  BY <1>3 DEF NightFacts
<1>5. \A x \in Bookings : Held(x) => Held(x)'
  BY <1>1 DEF Held, CancelAccepted, Live
<1>6. TakenNightsAreAccounted'
  BY <1>5 DEF TakenNightsAreAccounted
<1>7. QED
  BY <1>2, <1>4, <1>6

LEMMA PayKeepsNights ==
    ASSUME NightInv, TypeOK', NEW k \in Keys, PayStart(k) \/ PayStep(k)
    PROVE  StayFacts' /\ TargetFacts' /\ NightFacts' /\ TakenNightsAreAccounted'
<1> USE DEF NightInv
<1>1. CASE PayStart(k)
  <2>1. /\ UNCHANGED <<calendar, bookingVars, faults>>
        /\ ptarget'[k] \in Bookings /\ status[ptarget'[k]] # "none"
        /\ \A x \in Keys \ {k} : ptarget'[x] = ptarget[x] /\ ppc'[x] = ppc[x]
    BY <1>1 DEF PayStart, CheckBooking, PayAt, IInv, TypeOK, PaymentType
  <2>2. StayFacts' /\ TargetFacts'
    BY <2>1 DEF StayFacts, TargetFacts, bookingVars, createVars, cancelVars
  <2>3. /\ \A x \in Bookings : Owns(x)' <=> Owns(x)
        /\ \A x \in Bookings : Held(x)' <=> Held(x)
        /\ CancelledTwice' <=> CancelledTwice
    BY <2>1 DEF Owns, Held, CancelAccepted, CancelledTwice, bookingVars, createVars,
       cancelVars
  <2>4. NightFacts' /\ TakenNightsAreAccounted'
    BY <2>1, <2>3 DEF NightFacts, TakenNightsAreAccounted, bookingVars, createVars,
       cancelVars
  <2>5. QED
    BY <2>2, <2>4
<1>2. CASE PayStep(k)
  <2>1. /\ UNCHANGED <<calendar, ptarget, faults>>
        /\ ppc[k] # "idle"
        /\ \A x \in Keys \ {k} : ppc'[x] = ppc[x]
    BY <1>2 DEF PayStep, PayFind, PayCreate, PayApprove, PaySave, PayConfirm,
       CheckUnpaid, PayMoves, SavePaid, PayAt, IInv, TypeOK, PaymentType
  <2>2. CASE UNCHANGED bookingVars
    BY <2>1, <2>2, BookingsUntouched, SagaAssumption DEF IInv, TypeOK
  <2>3. CASE SaveReserved(ptarget[k])
    BY <2>1, <2>3, ConfirmKeepsNights DEF TargetFacts
  <2>4. QED
    BY <1>2, <2>2, <2>3 DEF PayStep, PayFind, PayCreate, PayApprove, PaySave,
       PayConfirm
<1>3. QED
  BY <1>1, <1>2

LEMMA HookKeepsNights ==
    ASSUME NightInv, TypeOK', NEW h \in HookIds, HookStep(h)
    PROVE  StayFacts' /\ TargetFacts' /\ NightFacts' /\ TakenNightsAreAccounted'
<1> USE DEF NightInv
<1>1. UNCHANGED <<calendar, ppc, ptarget, faults>>
  BY DEF HookStep, HookStart, HookFind, HookSave, HookConfirm, HookArrives,
     FindForApproved, FindForCanceled, RescuePaid, MarkRefunded, HookMoves, payVars
<1>2. CASE UNCHANGED bookingVars
  BY <1>1, <1>2, BookingsUntouched, SagaAssumption DEF IInv, TypeOK
<1>3. CASE HookConfirm(h) /\ SaveReserved(ptarget[h[1]])
  <2>1. h[1] \in Keys /\ (hpc[h] # "idle" => ppc[h[1]] # "idle")
    <3>1. h[1] \in Keys /\ h = <<h[1], h[2]>> /\ h[2] \in Events
      BY DEF HookIds, Events
    <3>2. hpc[h] # "idle" => Approved(h[1])
      BY <3>1 DEF IInv, HookFacts, HookFact, KeyFacts, Approved, GivenBack, Events
    <3>3. QED
      BY <3>1, <3>2 DEF IInv, KeyFacts
  <2>2. hpc[h] # "idle"
    BY <1>3 DEF HookConfirm, HookMoves, HookAt
  <2>3. ptarget[h[1]] \in Bookings /\ status[ptarget[h[1]]] # "none"
    BY <2>1, <2>2 DEF TargetFacts
  <2>4. QED
    BY <1>1, <1>3, <2>3, ConfirmKeepsNights
<1>4. QED
  BY <1>2, <1>3 DEF HookStep, HookStart, HookFind, HookSave, HookConfirm

LEMMA FaultKeepsNights ==
    ASSUME NightInv, TypeOK', FaultStep
    PROVE  StayFacts' /\ TargetFacts' /\ NightFacts' /\ TakenNightsAreAccounted'
<1> USE DEF NightInv
<1>1. calendar' = calendar /\ faults \in Nat /\ faults' = faults + 1
  BY SagaAssumption DEF FaultStep, Abandon, LoseWebhook, ReleaseFails, ConfirmFails,
     GatewayRestarts, Fault, IInv, TypeOK
<1>2. ASSUME UNCHANGED bookingVars
      PROVE  StayFacts' /\ TargetFacts' /\ NightFacts' /\ TakenNightsAreAccounted'
  <2>1. ptarget' = ptarget /\ \A k \in Keys : ppc'[k] # "idle" => ppc[k] # "idle"
    BY <1>2 DEF FaultStep, Abandon, LoseWebhook, ReleaseFails, ConfirmFails,
       GatewayRestarts, PayAbandoned, HookAbandoned, PayMoves, HookMoves, PayAt,
       paymentVars, payVars, BookingAbandoned, CancelAbandoned, ReleaseAnswered,
       CancelAt, IInv, TypeOK, PaymentType
  <2>2. QED
    BY <1>1, <1>2, <2>1, BookingsUntouched
<1>3. ASSUME NEW b \in Bookings, BookingAbandoned(b), UNCHANGED paymentVars
      PROVE  StayFacts' /\ TargetFacts' /\ NightFacts' /\ TakenNightsAreAccounted'
  <2> USE DEF cancelVars, paymentVars, payVars
  <2>1. /\ bpc[b] \in {"reserve", "price", "save", "extras"} /\ bpc'[b] = "failed"
        /\ \A x \in Bookings \ {b} : bpc'[x] = bpc[x]
        /\ UNCHANGED <<status, stay, cpc, ctarget, accepted, ppc, ptarget>>
    BY <1>3 DEF BookingAbandoned, IInv, TypeOK, BookingType
  <2>2. StayFacts' /\ TargetFacts'
    BY <2>1 DEF StayFacts, TargetFacts
  <2>3. /\ \A x \in Bookings : Owns(x)' => Owns(x)
        /\ CancelledTwice' <=> CancelledTwice
    BY <2>1 DEF Owns, CancelledTwice
  <2>4. NightFacts'
    BY <1>1, <2>1, <2>3 DEF NightFacts
  <2>5. TakenNightsAreAccounted'
    BY <1>1 DEF TakenNightsAreAccounted
  <2>6. QED
    BY <2>2, <2>4, <2>5
<1>4. ASSUME NEW c \in Cancels, CancelAbandoned(c) \/ ReleaseAnswered(c),
             UNCHANGED paymentVars
      PROVE  StayFacts' /\ TargetFacts' /\ NightFacts' /\ TakenNightsAreAccounted'
  <2>1. \E to \in CancelSteps \ {"idle", "save", "release"} :
           cpc[c] # "idle" /\ cpc' = [cpc EXCEPT ![c] = to]
    BY <1>4 DEF CancelAbandoned, ReleaseAnswered, CancelAt, CancelSteps
  <2>2. UNCHANGED <<status, createVars, ctarget, accepted, payVars>>
    BY <1>4 DEF CancelAbandoned, ReleaseAnswered, paymentVars
  <2>3. QED
    BY <1>1, <2>1, <2>2, CancelMovesKeepNights
<1>5. QED
  BY <1>2, <1>3, <1>4 DEF FaultStep, Abandon, LoseWebhook, ReleaseFails, ConfirmFails,
     GatewayRestarts

-----------------------------------------------------------------------------
\* The theorems about nights

LEMMA InitHasNights == Init => NightInv
<1> SUFFICES ASSUME Init
             PROVE  NightInv
  OBVIOUS
<1>1. IInv
  BY InitEstablishes
<1>2. StayFacts /\ TargetFacts /\ NightFacts
  BY DEF Init, BookingInit, PaymentInit, StayFacts, TargetFacts, NightFacts, Owns
<1>3. TakenNightsAreAccounted
  BY DEF Init, CalendarInit, TakenNightsAreAccounted
<1>4. QED
  BY <1>1, <1>2, <1>3 DEF NightInv

LEMMA NextKeepsNights == NightInv /\ [Next]_sagaVars => NightInv'
<1> SUFFICES ASSUME NightInv, [Next]_sagaVars
             PROVE  NightInv'
  OBVIOUS
<1>1. IInv' /\ TypeOK'
  BY NextKeepsInv DEF NightInv, IInv
<1>2. CASE UNCHANGED sagaVars
  BY <1>1, <1>2, BookingsUntouched, SagaAssumption
     DEF sagaVars, paymentVars, payVars, NightInv, IInv, TypeOK
<1>3. ASSUME NEW b \in Bookings, CreateStart(b) \/ CreateStep(b)
      PROVE  NightInv'
  BY <1>1, <1>3, StartKeepsNights, ReserveKeepsNights, CreateRestKeepsNights
     DEF CreateStep, NightInv
<1>4. QED
  BY <1>1, <1>2, <1>3, CancellationKeepsNights, PayKeepsNights, HookKeepsNights,
     FaultKeepsNights DEF Next, NightInv

\* Every stay holds its nights from the grant on.
THEOREM NightsInductive == Spec => []NightInv
BY InitHasNights, NextKeepsNights, PTL DEF Spec

\* However bookings, payments, cancellations and faults cross, no night is sold
\* to two guests who both count on it, unless a cancellation was saved twice.
THEOREM NightsNeverSoldTwice == Spec => []NightsSoldOnce
<1>1. ASSUME NightInv
      PROVE  NightsSoldOnce
  <2>1. \A b \in Bookings : Held(b) => Owns(b) /\ stay[b] # {}
    BY <1>1 DEF Held, Live, CancelAccepted, Owns, NightInv, StayFacts
  <2>2. QED
    BY <1>1, <2>1 DEF NightInv, NightFacts, CancelledTwice, NightsSoldOnce
<1>2. QED
  BY <1>1, NightsInductive, PTL

\* Without a fault no night stays closed that nobody has booked, is booking or
\* is giving back, but for the bookings that failed over a facility.
THEOREM NoNightIsLost == Spec => []TakenNightsAreAccounted
<1>1. NightInv => TakenNightsAreAccounted
  BY DEF NightInv
<1>2. QED
  BY <1>1, NightsInductive, PTL
=============================================================================
