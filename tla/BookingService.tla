--------------------------- MODULE BookingService ---------------------------
(***************************************************************************)
(* booking-service: the reservations table and the handlers that write it. *)
(* A handler is a sequence of awaited calls; each action here is one of    *)
(* them, as far as it touches this service.  HotelSaga joins each action   *)
(* with what it does in the services it calls.                             *)
(* Every create request has a reservation of its own, named by it.         *)
(***************************************************************************)
EXTENDS StayDates, SagaParties

CONSTANTS Facilities,   \* the facilities a guest can ask for
          Catalogue     \* those the hotel has registered

\* COMPLETED is declared by reservation.entity.ts and written by no code.
Statuses == {"none", "PENDING_PAYMENT", "RESERVED", "CANCELLED"}
Live == {"PENDING_PAYMENT", "RESERVED"}

CreateSteps == {"idle", "reserve", "price", "save", "extras", "done", "failed"}
CancelSteps == {"idle", "save", "release", "refund", "pgcancel", "refundsave",
                "done", "failed"}

VARIABLES status,     \* Reservation.status; "none" before the row exists
          stay,       \* the nights from checkInDate up to checkOutDate
          wanted,     \* facilities with a guest count above zero
          extras,     \* reservation_facilities rows saved so far
          bpc,        \* where each createBooking stands
          cpc,        \* where each cancelBooking stands
          ctarget,    \* the reservation a cancelBooking is about
          accepted    \* cancelBooking requests that have saved CANCELLED

createVars == <<stay, wanted, extras, bpc>>
cancelVars == <<cpc, ctarget, accepted>>
bookingVars == <<status, createVars, cancelVars>>

BookingType ==
    /\ status \in [Bookings -> Statuses]
    /\ stay \in [Bookings -> SUBSET Dates]
    /\ wanted \in [Bookings -> SUBSET Facilities]
    /\ extras \in [Bookings -> SUBSET Facilities]
    /\ bpc \in [Bookings -> CreateSteps]
    /\ cpc \in [Cancels -> CancelSteps]
    /\ ctarget \in [Cancels -> Bookings \cup {"none"}]
    /\ accepted \in SUBSET Cancels

BookingInit ==
    /\ status = [b \in Bookings |-> "none"]
    /\ stay = [b \in Bookings |-> {}]
    /\ wanted = [b \in Bookings |-> {}]
    /\ extras = [b \in Bookings |-> {}]
    /\ bpc = [b \in Bookings |-> "idle"]
    /\ cpc = [c \in Cancels |-> "idle"]
    /\ ctarget = [c \in Cancels |-> "none"]
    /\ accepted = {}

BookingAt(b, from, to) == bpc[b] = from /\ bpc' = [bpc EXCEPT ![b] = to]
CancelAt(c, from, to) == cpc[c] = from /\ cpc' = [cpc EXCEPT ![c] = to]

-----------------------------------------------------------------------------
\* createBooking

\* The date check, and the stay up to the night before checkOutDate.
StartBooking(b) ==
    /\ \E checkIn \in Dates, checkOut \in Days, chosen \in SUBSET Facilities :
          /\ NightsOf(checkIn, checkOut) \subseteq Dates
          /\ \/ /\ ValidDates(checkIn, checkOut)
                /\ BookingAt(b, "idle", "reserve")
                /\ stay' = [stay EXCEPT ![b] = NightsOf(checkIn, checkOut)]
                /\ wanted' = [wanted EXCEPT ![b] = chosen]
             \/ /\ ~ValidDates(checkIn, checkOut)
                /\ BookingAt(b, "idle", "failed")
                /\ UNCHANGED <<stay, wanted>>
    /\ UNCHANGED <<status, extras, cancelVars>>

NightsGranted(b) == /\ BookingAt(b, "reserve", "price")
                    /\ UNCHANGED <<status, stay, wanted, extras, cancelVars>>

NightsRefused(b) == /\ BookingAt(b, "reserve", "failed")
                    /\ UNCHANGED <<status, stay, wanted, extras, cancelVars>>

\* The facilities asked for are priced from the hotel's catalogue; one that is
\* not in it is an error, which leaves the nights as they are.
PriceFacilities(b) ==
    /\ \/ wanted[b] \subseteq Catalogue /\ BookingAt(b, "price", "save")
       \/ ~(wanted[b] \subseteq Catalogue) /\ BookingAt(b, "price", "failed")
    /\ UNCHANGED <<status, stay, wanted, extras, cancelVars>>

SaveReservation(b) ==
    /\ BookingAt(b, "save", "extras")
    /\ status' = [status EXCEPT ![b] = "PENDING_PAYMENT"]
    /\ UNCHANGED <<stay, wanted, extras, cancelVars>>

\* One reservation_facilities row per facility, then the answer.
SaveFacility(b) ==
    /\ \/ /\ bpc[b] = "extras"
          /\ \E f \in wanted[b] \ extras[b] :
                extras' = [extras EXCEPT ![b] = @ \cup {f}]
          /\ bpc' = bpc
       \/ /\ wanted[b] = extras[b]
          /\ BookingAt(b, "extras", "done")
          /\ extras' = extras
    /\ UNCHANGED <<status, stay, wanted, cancelVars>>

\* An awaited call fails or the pod dies: the rest of the handler never runs.
BookingAbandoned(b) ==
    /\ bpc[b] \in {"reserve", "price", "save", "extras"}
    /\ bpc' = [bpc EXCEPT ![b] = "failed"]
    /\ UNCHANGED <<status, stay, wanted, extras, cancelVars>>

-----------------------------------------------------------------------------
\* cancelBooking

\* Mutant: a request that fails the checks goes on to the refund.
FindForCancelRefundingAll(c) ==
    /\ \E b \in Bookings, isOwner \in BOOLEAN :
          /\ status[b] # "none"
          /\ \/ /\ isOwner /\ status[b] \in Live
                /\ CancelAt(c, "idle", "save")
             \/ /\ ~(isOwner /\ status[b] \in Live)
                /\ CancelAt(c, "idle", "refund")
          /\ ctarget' = [ctarget EXCEPT ![c] = b]
    /\ UNCHANGED <<status, createVars, accepted>>

\* The owner and status checks, on the row findOne has read.
FindForCancel(c) ==
    /\ \E b \in Bookings, isOwner \in BOOLEAN :
          /\ status[b] # "none"
          /\ \/ /\ isOwner /\ status[b] \in Live
                /\ CancelAt(c, "idle", "save")
             \/ /\ ~(isOwner /\ status[b] \in Live)
                /\ CancelAt(c, "idle", "done")
          /\ ctarget' = [ctarget EXCEPT ![c] = b]
    /\ UNCHANGED <<status, createVars, accepted>>

SaveCancelled(c) ==
    /\ CancelAt(c, "save", "release")
    /\ status' = [status EXCEPT ![ctarget[c]] = "CANCELLED"]
    /\ accepted' = accepted \cup {c}
    /\ UNCHANGED <<createVars, ctarget>>

\* The call to setRoomAvailability has been answered, or has failed: both ways
\* the handler goes on to the refund.
ReleaseAnswered(c) ==
    /\ CancelAt(c, "release", "refund")
    /\ UNCHANGED <<status, createVars, ctarget, accepted>>

\* The call to refundPayment moves through payment-service.
RefundMoves(c, from, to) ==
    /\ CancelAt(c, from, to)
    /\ UNCHANGED <<status, createVars, ctarget, accepted>>

\* Mutant: a gateway that does not answer is taken for one that has refunded.
CancelAbandonedIntoRefund(c) ==
    /\ cpc[c] \in {"save", "release", "refund", "pgcancel", "refundsave"}
    /\ cpc' = [cpc EXCEPT ![c] = IF @ = "pgcancel" THEN "refundsave"
                                                  ELSE "failed"]
    /\ UNCHANGED <<status, createVars, ctarget, accepted>>

CancelAbandoned(c) ==
    /\ cpc[c] \in {"save", "release", "refund", "pgcancel", "refundsave"}
    /\ cpc' = [cpc EXCEPT ![c] = "failed"]
    /\ UNCHANGED <<status, createVars, ctarget, accepted>>

-----------------------------------------------------------------------------
\* confirmBooking, called by payment-service: a read with a check, then a save

Confirmable(b) == status[b] = "PENDING_PAYMENT"

\* Mutant: a status that the entity does not declare.
SaveConfirmed(b) == /\ status' = [status EXCEPT ![b] = "CONFIRMED"]
                    /\ UNCHANGED <<createVars, cancelVars>>

SaveReserved(b) == /\ status' = [status EXCEPT ![b] = "RESERVED"]
                   /\ UNCHANGED <<createVars, cancelVars>>
=============================================================================
