--------------------------- MODULE PaymentService ---------------------------
(***************************************************************************)
(* payment-service: the payments table and the three handlers that write   *)
(* it: requestPayment (one per key), handlePaymentWebhook (one per post of *)
(* the gateway) and refundPayment (one per cancelBooking, which waits for  *)
(* it).  Nothing in payment.entity.ts makes a reservation or a payment key *)
(* unique, so a key can be recorded twice: by the request that made it and *)
(* by the webhook.  A row is named by its key and by who inserted it.      *)
(***************************************************************************)
EXTENDS SagaParties

HookIds == Keys \X {"PAYMENT.APPROVED", "PAYMENT.CANCELED"}

Rows == Keys \X {"sync", "hook"}
NoRow == <<"none", "none">>

PaySteps == {"idle", "findpaid", "create", "approve", "save",
             "confirm", "confirmsave", "done", "failed"}
HookSteps == {"idle", "find", "save", "confirm", "confirmsave",
              "mark", "done", "failed"}

VARIABLES rows,      \* the payments table: "none" before a row is inserted
          ppc,       \* where each requestPayment stands
          ptarget,   \* the reservation it pays, also the key's orderId
          hpc,       \* where each handlePaymentWebhook stands
          hrow,      \* the PAID row a cancellation webhook has found
          rrow       \* the PAID row a refundPayment has found

payVars == <<ppc, ptarget>>
hookVars == <<hpc, hrow>>
paymentVars == <<rows, payVars, hookVars, rrow>>

PaymentType ==
    /\ rows \in [Rows -> {"none", "paid", "refunded"}]
    /\ ppc \in [Keys -> PaySteps]
    /\ ptarget \in [Keys -> Bookings \cup {"none"}]
    /\ hpc \in [HookIds -> HookSteps]
    /\ hrow \in [HookIds -> Rows \cup {NoRow}]
    /\ rrow \in [Cancels -> Rows \cup {NoRow}]

PaymentInit ==
    /\ rows = [r \in Rows |-> "none"]
    /\ ppc = [k \in Keys |-> "idle"]
    /\ ptarget = [k \in Keys |-> "none"]
    /\ hpc = [h \in HookIds |-> "idle"]
    /\ hrow = [h \in HookIds |-> NoRow]
    /\ rrow = [c \in Cancels |-> NoRow]

PayAt(k, from, to) == ppc[k] = from /\ ppc' = [ppc EXCEPT ![k] = to]
HookAt(h, from, to) == hpc[h] = from /\ hpc' = [hpc EXCEPT ![h] = to]

\* findOne({ reservationId, status: PAID }), in no particular order.
PaidRows(b) == {r \in Rows : rows[r] = "paid" /\ ptarget[r[1]] = b}

-----------------------------------------------------------------------------
\* requestPayment

\* getBookingById has answered; the owner and status checks.
CheckBooking(k, b, payable) ==
    /\ \E isOwner \in BOOLEAN :
          \/ isOwner /\ payable /\ PayAt(k, "idle", "findpaid")
          \/ ~(isOwner /\ payable) /\ PayAt(k, "idle", "done")
    /\ ptarget' = [ptarget EXCEPT ![k] = b]
    /\ UNCHANGED <<rows, hookVars, rrow>>

\* The check against paying twice.
CheckUnpaid(k) ==
    /\ \/ PayAt(k, "findpaid", "create") /\ PaidRows(ptarget[k]) = {}
       \/ PayAt(k, "findpaid", "done") /\ PaidRows(ptarget[k]) # {}
    /\ UNCHANGED <<rows, ptarget, hookVars, rrow>>

\* A step of the request that only another service notices.
PayMoves(k, from, to) == /\ PayAt(k, from, to)
                         /\ UNCHANGED <<rows, ptarget, hookVars, rrow>>

\* Mutant: the payment is not saved before the reservation is confirmed.
ConfirmUnsaved(k) == /\ PayAt(k, "save", "confirm")
                     /\ UNCHANGED <<rows, ptarget, hookVars, rrow>>

SavePaid(k) == /\ PayAt(k, "save", "confirm")
               /\ rows' = [rows EXCEPT ![<<k, "sync">>] = "paid"]
               /\ UNCHANGED <<ptarget, hookVars, rrow>>

PayAbandoned(k) ==
    /\ ppc[k] \in {"findpaid", "create", "approve", "save",
                   "confirm", "confirmsave"}
    /\ ppc' = [ppc EXCEPT ![k] = "failed"]
    /\ UNCHANGED <<rows, ptarget, hookVars, rrow>>

-----------------------------------------------------------------------------
\* handlePaymentWebhook

HookArrives(h) == /\ HookAt(h, "idle", "find")
                  /\ UNCHANGED <<rows, payVars, hrow, rrow>>

\* Mutant: the webhook only logs an approval.
LogApproved(h) == /\ h[2] = "PAYMENT.APPROVED"
                  /\ HookAt(h, "find", "done")
                  /\ UNCHANGED <<rows, payVars, hrow, rrow>>

\* An approval that finds a PAID row of the reservation is taken for recorded.
\* Otherwise the owner is looked up: the reservation exists, and its owner
\* never changes.
FindForApproved(h) ==
    /\ h[2] = "PAYMENT.APPROVED"
    /\ \/ PaidRows(ptarget[h[1]]) # {} /\ HookAt(h, "find", "done")
       \/ PaidRows(ptarget[h[1]]) = {} /\ HookAt(h, "find", "save")
    /\ UNCHANGED <<rows, payVars, hrow, rrow>>

\* A cancellation is matched by reservation, not by payment key.
FindForCanceled(h) ==
    /\ h[2] = "PAYMENT.CANCELED"
    /\ \/ /\ PaidRows(ptarget[h[1]]) = {}
          /\ HookAt(h, "find", "done")
          /\ hrow' = hrow
       \/ \E r \in PaidRows(ptarget[h[1]]) :
             /\ HookAt(h, "find", "mark")
             /\ hrow' = [hrow EXCEPT ![h] = r]
    /\ UNCHANGED <<rows, payVars, rrow>>

RescuePaid(h) == /\ HookAt(h, "save", "confirm")
                 /\ rows' = [rows EXCEPT ![<<h[1], "hook">>] = "paid"]
                 /\ UNCHANGED <<payVars, hrow, rrow>>

MarkRefunded(h) == /\ HookAt(h, "mark", "done")
                   /\ rows' = [rows EXCEPT ![hrow[h]] = "refunded"]
                   /\ UNCHANGED <<payVars, hrow, rrow>>

HookMoves(h, from, to) == /\ HookAt(h, from, to)
                          /\ UNCHANGED <<rows, payVars, hrow, rrow>>

HookAbandoned(h) ==
    /\ hpc[h] \in {"find", "save", "confirm", "confirmsave", "mark"}
    /\ hpc' = [hpc EXCEPT ![h] = "failed"]
    /\ UNCHANGED <<rows, payVars, hrow, rrow>>

-----------------------------------------------------------------------------
\* refundPayment, on behalf of cancelBooking c for reservation b

NothingToRefund(b) == PaidRows(b) = {} /\ UNCHANGED paymentVars

FindForRefund(c, b) == /\ \E r \in PaidRows(b) : rrow' = [rrow EXCEPT ![c] = r]
                       /\ UNCHANGED <<rows, payVars, hookVars>>

RefundKey(c) == rrow[c][1]

SaveRefunded(c) == /\ rows' = [rows EXCEPT ![rrow[c]] = "refunded"]
                   /\ UNCHANGED <<payVars, hookVars, rrow>>
=============================================================================
