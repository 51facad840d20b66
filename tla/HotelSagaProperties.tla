------------------------ MODULE HotelSagaProperties ------------------------
\* What the booking, payment and refund flow promises, and where it does not
\* keep what its comments say.
EXTENDS HotelSaga

\* A cancellation of reservation b has been saved, whatever became of it since.
CancelAccepted(b) == \E c \in accepted : ctarget[c] = b

\* A guest counts on the stay: booked, and no cancellation of it ever saved.
Held(b) == status[b] \in Live /\ ~CancelAccepted(b)

\* The gateway has taken the guest's money for key k, or given it back: it has
\* posted an event about it, whatever became of the post and of its record.
Approved(k) == webhook[<<k, "PAYMENT.APPROVED">>] # "none"
GivenBack(k) == webhook[<<k, "PAYMENT.CANCELED">>] # "none"

\* A payment for reservation b is on record, and the gateway has approved it.
PaidFor(b) == \E r \in Rows : /\ rows[r] # "none"
                              /\ ptarget[r[1]] = b
                              /\ Approved(r[1])

KeysOf(b) == {k \in Keys : ptarget[k] = b}

\* No handler is running and no webhook is on its way.
Quiet == /\ \A b \in Bookings : bpc[b] \in {"idle", "done", "failed"}
         /\ \A c \in Cancels : cpc[c] \in {"idle", "done", "failed"}
         /\ \A k \in Keys : ppc[k] \in {"idle", "done", "failed"}
         /\ \A h \in HookIds : /\ hpc[h] \in {"idle", "done", "failed"}
                               /\ webhook[h] # "sent"

-----------------------------------------------------------------------------
\* What holds, with any faults

\* A reservation is RESERVED only once the gateway has approved a payment for
\* it and payment-service has recorded it: confirmBooking is never reached on
\* an unpaid booking, by either of its two callers, in any interleaving.
ConfirmedOnlyAfterPayment ==
    \A b \in Bookings : status[b] = "RESERVED" => PaidFor(b)

\* Money goes back, and a payment is marked refunded, only for a reservation
\* whose cancellation had been saved first: refunds cannot run ahead of step 1
\* of cancelBooking, nor reach another guest's payment.
RefundOnlyAfterCancel ==
    \A k \in Keys :
        \/ GivenBack(k)
        \/ \E r \in Rows : r[1] = k /\ rows[r] = "refunded"
        => CancelAccepted(ptarget[k])

\* A payment marked REFUNDED has been cancelled at the gateway, as long as the
\* reservation was charged once: refundPayment marks after the gateway has
\* answered, and a CANCELED webhook is sent after the gateway has cancelled.
RefundRecordedAfterRefund ==
    \A r \in Rows :
        /\ rows[r] = "refunded"
        /\ \A k \in KeysOf(ptarget[r[1]]) : k # r[1] => ~Approved(k)
        => GivenBack(r[1])

\* Unless some reservation has had its cancellation saved twice, every stay a
\* guest counts on is a real one with all of its nights taken in the calendar,
\* and no two such stays share a night.
NightsSoldOnce ==
    \/ \E c1, c2 \in accepted : c1 # c2 /\ ctarget[c1] = ctarget[c2]
    \/ \A b \in Bookings : Held(b) =>
          /\ stay[b] # {}
          /\ \A d \in stay[b] : calendar[d] = "taken"
          /\ \A other \in Bookings \ {b} :
                Held(other) => stay[b] \cap stay[other] = {}

\* As long as no handler is cut off, a night that is not for sale is accounted
\* for: a booking is being made for it, a guest counts on it, or a cancellation
\* is about to give it back; or its booking failed over an unknown facility.
TakenNightsAreAccounted ==
    faults = 0 => \A d \in Dates : calendar[d] = "taken" =>
        \E b \in Bookings :
            /\ d \in stay[b]
            /\ \/ bpc[b] \in {"price", "save"}
               \/ bpc[b] = "failed" /\ ~(wanted[b] \subseteq Catalogue)
               \/ Held(b)
               \/ \E c \in accepted : ctarget[c] = b /\ cpc[c] = "release"

-----------------------------------------------------------------------------
\* What eventually holds

\* With at most one fault, a payment the gateway has approved gets recorded:
\* either the request that made it survives, or the webhook rescues it.
ApprovedIsRecorded ==
    \A k \in Keys :
        pg[k] = "DONE" ~> \/ \E r \in Rows : /\ rows[r] # "none"
                                             /\ ptarget[r[1]] = ptarget[k]
                          \/ faults > 1

\* A payment on record when its reservation is cancelled goes back to the
\* guest, even if confirmBooking, the room calendar or webhooks fail, unless
\* the cancellation itself is cut off or the gateway forgets the payment.
RecordedPaymentIsRefunded ==
    \A c \in Cancels, k \in Keys :
        ( /\ cpc[c] = "release"
          /\ KeysOf(ctarget[c]) = {k}
          /\ PaidRows(ctarget[c]) # {} )
        ~> (pg[k] \in {"CANCELED", "lost"} \/ cpc[c] = "failed")

-----------------------------------------------------------------------------
\* What the comments say and the code does not keep

\* "PENDING_PAYMENT 상태가 아니면(이미 확정됐거나 취소된 예약에 뒤늦게 도달한 콜백 등)
\* 에러": a cancelled reservation does not come back to life.
CancelledIsFinal ==
    [][\A b \in Bookings : status[b] = "CANCELLED"
                              => status'[b] = "CANCELLED"]_sagaVars

\* Two guests never count on the same night, whatever is cancelled meanwhile.
NoDoubleBooking ==
    \A b, other \in Bookings :
        b # other /\ Held(b) /\ Held(other) => stay[b] \cap stay[other] = {}

\* "그 숙박일 전체가 하나라도 이미 찼으면 ... 예약 자체가 생성되지 않고": the nights of
\* a booking go together with its reservation, both or neither.
NightsTakenWithBooking ==
    \A d \in Dates : calendar[d] = "taken" =>
        \E b \in Bookings : /\ d \in stay[b]
                            /\ bpc[b] \in {"price", "save"} \/ status[b] # "none"

\* A reservation is charged once.
ChargedOnce ==
    \A k1, k2 \in Keys :
        /\ pg[k1] = "DONE" /\ pg[k2] = "DONE"
        /\ ptarget[k1] = ptarget[k2]
        => k1 = k2

\* When everything has come to rest, a cancelled reservation holds no money.
CancelRefundsAll ==
    Quiet => \A k \in Keys : pg[k] = "DONE" => ~CancelAccepted(ptarget[k])
=============================================================================
