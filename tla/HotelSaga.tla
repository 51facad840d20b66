----------------------------- MODULE HotelSaga -----------------------------
(***************************************************************************)
(* A booking from createBooking to its payment, its cancellation and its   *)
(* refund, across hotel-service (RoomCalendar), booking-service,           *)
(* payment-service and the payment gateway.  Each service has a database   *)
(* of its own; no transaction spans two of them, and a handler loses       *)
(* control at every await.  One action is one awaited call: the caller's   *)
(* step joined with what the callee does.                                  *)
(***************************************************************************)
EXTENDS RoomCalendar, BookingService, PaymentService, PgMock

CONSTANTS FaultKinds,   \* which faults happen: a subset of AllFaults
          MaxFaults     \* how many of them, at most

\* A handler that stops half-way, a webhook that gets lost, a call to
\* setRoomAvailability or confirmBooking that fails, a restart of the gateway.
AllFaults == {"abandon", "webhook", "release", "confirm", "restart"}

ASSUME SagaAssumption == /\ FaultKinds \subseteq AllFaults
                         /\ MaxFaults \in Nat
                         /\ "none" \notin Bookings

VARIABLE faults

sagaVars == <<calendar, bookingVars, paymentVars, pgVars, faults>>

TypeOK == /\ CalendarType
          /\ BookingType
          /\ PaymentType
          /\ PgType
          /\ faults \in 0..MaxFaults

Init == CalendarInit /\ BookingInit /\ PaymentInit /\ PgInit /\ faults = 0

Fault(kind) == /\ kind \in FaultKinds
               /\ faults < MaxFaults
               /\ faults' = faults + 1

-----------------------------------------------------------------------------
\* createBooking

CreateStart(b) == /\ StartBooking(b)
                  /\ UNCHANGED <<calendar, paymentVars, pgVars, faults>>

\* reserveRoomAvailability: all the nights at once, or an error.
CreateReserve(b) ==
    /\ \/ NightsGranted(b) /\ Reserve(stay[b])
       \/ NightsRefused(b) /\ ~AllFree(stay[b]) /\ UNCHANGED calendar
    /\ UNCHANGED <<paymentVars, pgVars, faults>>

CreatePrice(b) == /\ PriceFacilities(b)
                  /\ UNCHANGED <<calendar, paymentVars, pgVars, faults>>

CreateSave(b) == /\ SaveReservation(b)
                 /\ UNCHANGED <<calendar, paymentVars, pgVars, faults>>

CreateExtras(b) == /\ SaveFacility(b)
                   /\ UNCHANGED <<calendar, paymentVars, pgVars, faults>>

CreateStep(b) == \/ CreateReserve(b) \/ CreatePrice(b)
                 \/ CreateSave(b) \/ CreateExtras(b)

-----------------------------------------------------------------------------
\* cancelBooking, and the refundPayment it waits for

CancelStart(c) == /\ FindForCancel(c)
                  /\ UNCHANGED <<calendar, paymentVars, pgVars, faults>>

CancelSave(c) == /\ SaveCancelled(c)
                 /\ UNCHANGED <<calendar, paymentVars, pgVars, faults>>

\* Mutant: the nights are not given back.
CancelKeepsNights(c) == /\ ReleaseAnswered(c)
                        /\ UNCHANGED <<calendar, paymentVars, pgVars, faults>>

CancelRelease(c) == /\ ReleaseAnswered(c)
                    /\ Release(stay[ctarget[c]])
                    /\ UNCHANGED <<paymentVars, pgVars, faults>>

RefundFind(c) ==
    /\ \/ RefundMoves(c, "refund", "done") /\ NothingToRefund(ctarget[c])
       \/ RefundMoves(c, "refund", "pgcancel") /\ FindForRefund(c, ctarget[c])
    /\ UNCHANGED <<calendar, pgVars, faults>>

\* A key the gateway cannot cancel is an error, which cancelBooking logs.
RefundAtGateway(c) ==
    /\ \/ RefundMoves(c, "pgcancel", "refundsave") /\ PgCancel(RefundKey(c))
       \/ /\ RefundMoves(c, "pgcancel", "done")
          /\ pg[RefundKey(c)] # "DONE"
          /\ UNCHANGED pgVars
    /\ UNCHANGED <<calendar, paymentVars, faults>>

RefundSave(c) == /\ RefundMoves(c, "refundsave", "done")
                 /\ SaveRefunded(c)
                 /\ UNCHANGED <<calendar, pgVars, faults>>

CancelStep(c) == \/ CancelSave(c) \/ CancelRelease(c) \/ RefundFind(c)
                 \/ RefundAtGateway(c) \/ RefundSave(c)

-----------------------------------------------------------------------------
\* requestPayment

PayStart(k) ==
    /\ \E b \in Bookings :
          /\ status[b] # "none"
          /\ CheckBooking(k, b, status[b] = "PENDING_PAYMENT")
    /\ UNCHANGED <<calendar, bookingVars, pgVars, faults>>

PayFind(k) == /\ CheckUnpaid(k)
              /\ UNCHANGED <<calendar, bookingVars, pgVars, faults>>

PayCreate(k) == /\ PayMoves(k, "create", "approve")
                /\ PgCreate(k)
                /\ UNCHANGED <<calendar, bookingVars, faults>>

PayApprove(k) ==
    /\ \/ PayMoves(k, "approve", "save") /\ PgApprove(k)
       \/ /\ PayMoves(k, "approve", "failed")
          /\ pg[k] # "READY"
          /\ UNCHANGED pgVars
    /\ UNCHANGED <<calendar, bookingVars, faults>>

PaySave(k) == /\ SavePaid(k)
              /\ UNCHANGED <<calendar, bookingVars, pgVars, faults>>

PayConfirm(k) ==
    /\ \/ /\ PayMoves(k, "confirm", "confirmsave")
          /\ Confirmable(ptarget[k])
          /\ UNCHANGED bookingVars
       \/ /\ PayMoves(k, "confirm", "done")
          /\ ~Confirmable(ptarget[k])
          /\ UNCHANGED bookingVars
       \/ /\ PayMoves(k, "confirmsave", "done")
          /\ SaveReserved(ptarget[k])
    /\ UNCHANGED <<calendar, pgVars, faults>>

PayStep(k) == \/ PayFind(k) \/ PayCreate(k) \/ PayApprove(k)
              \/ PaySave(k) \/ PayConfirm(k)

-----------------------------------------------------------------------------
\* handlePaymentWebhook

HookStart(h) == /\ WebhookLeaves(h)
                /\ HookArrives(h)
                /\ UNCHANGED <<calendar, bookingVars, faults>>

HookFind(h) == /\ FindForApproved(h) \/ FindForCanceled(h)
               /\ UNCHANGED <<calendar, bookingVars, pgVars, faults>>

HookSave(h) == /\ RescuePaid(h) \/ MarkRefunded(h)
               /\ UNCHANGED <<calendar, bookingVars, pgVars, faults>>

HookConfirm(h) ==
    /\ \/ /\ HookMoves(h, "confirm", "confirmsave")
          /\ Confirmable(ptarget[h[1]])
          /\ UNCHANGED bookingVars
       \/ /\ HookMoves(h, "confirm", "done")
          /\ ~Confirmable(ptarget[h[1]])
          /\ UNCHANGED bookingVars
       \/ /\ HookMoves(h, "confirmsave", "done")
          /\ SaveReserved(ptarget[h[1]])
    /\ UNCHANGED <<calendar, pgVars, faults>>

HookStep(h) == HookStart(h) \/ HookFind(h) \/ HookSave(h) \/ HookConfirm(h)

-----------------------------------------------------------------------------
\* What can go wrong around the handlers

\* A call that fails, a reply that never comes or a pod that dies ends the
\* handler where it stands; what it has done in other services remains.
Abandon ==
    /\ Fault("abandon")
    /\ \/ /\ \E b \in Bookings : BookingAbandoned(b)
          /\ UNCHANGED paymentVars
       \/ /\ \E c \in Cancels : CancelAbandoned(c)
          /\ UNCHANGED paymentVars
       \/ /\ \E k \in Keys : PayAbandoned(k)
          /\ UNCHANGED bookingVars
       \/ /\ \E h \in HookIds : HookAbandoned(h)
          /\ UNCHANGED bookingVars
    /\ UNCHANGED <<calendar, pgVars>>

LoseWebhook == /\ Fault("webhook")
               /\ \E h \in HookIds : WebhookLeaves(h)
               /\ UNCHANGED <<calendar, bookingVars, paymentVars>>

\* Mutant: the handler returns after logging the error.
ReleaseFailsForGood == /\ Fault("release")
                       /\ \E c \in Cancels : RefundMoves(c, "release", "done")
                       /\ UNCHANGED <<calendar, paymentVars, pgVars>>

\* setRoomAvailability fails: cancelBooking logs it and goes on.
ReleaseFails == /\ Fault("release")
                /\ \E c \in Cancels : ReleaseAnswered(c)
                /\ UNCHANGED <<calendar, paymentVars, pgVars>>

\* confirmBooking cannot be reached: the payment stands without it.
ConfirmFails ==
    /\ Fault("confirm")
    /\ \/ \E k \in Keys : PayMoves(k, "confirm", "done")
       \/ \E h \in HookIds : HookMoves(h, "confirm", "done")
    /\ UNCHANGED <<calendar, bookingVars, pgVars>>

GatewayRestarts == /\ Fault("restart")
                   /\ PgRestart
                   /\ UNCHANGED <<calendar, bookingVars, paymentVars>>

FaultStep == \/ Abandon \/ LoseWebhook \/ ReleaseFails
             \/ ConfirmFails \/ GatewayRestarts

Next == \/ \E b \in Bookings : CreateStart(b) \/ CreateStep(b)
        \/ \E c \in Cancels : CancelStart(c) \/ CancelStep(c)
        \/ \E k \in Keys : PayStart(k) \/ PayStep(k)
        \/ \E h \in HookIds : HookStep(h)
        \/ FaultStep

Spec == Init /\ [][Next]_sagaVars

\* A handler that has begun goes on, and a webhook that is on its way arrives,
\* unless a fault stops them; nobody has to book, cancel or pay.
FairSpec == /\ Spec
            /\ \A b \in Bookings : WF_sagaVars(CreateStep(b))
            /\ \A c \in Cancels : WF_sagaVars(CancelStep(c))
            /\ \A k \in Keys : WF_sagaVars(PayStep(k))
            /\ \A h \in HookIds : WF_sagaVars(HookStep(h))
=============================================================================
