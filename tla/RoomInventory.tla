--------------------------- MODULE RoomInventory ---------------------------
(***************************************************************************)
(* The availability rows of one room in hotel-service, at the grain of the *)
(* SQL that room.service.ts issues against MariaDB (InnoDB):               *)
(*   reserve  SELECT ... BETWEEN ... ORDER BY date FOR UPDATE, a check in  *)
(*            the service's memory, UPDATE, COMMIT  (one transaction);     *)
(*   open     UPDATE ... SET is_available = true  WHERE date BETWEEN;      *)
(*   close    UPDATE ... SET is_available = false WHERE date BETWEEN;      *)
(*   delete   DELETE WHERE room_id (deleteRoom's second statement).        *)
(* A statement locks its rows one by one in date order, keeps them until   *)
(* its transaction ends, and waits at a row another transaction holds.     *)
(* Every statement names one room_id, so rooms do not interact.            *)
(***************************************************************************)
EXTENDS RoomCalendar, FiniteSets

CONSTANT Requests   \* the calls in flight, each one served once

\* The seed script fills a window of days that comes to an end.
ASSUME LastDayAssumption == \E last \in Dates : \A d \in Dates : d <= last

Kinds == {"reserve", "open", "close", "delete"}

NoJob == [kind |-> "none", nights |-> {}]

Phases == {"idle", "scan", "write", "granted", "refused", "done", "failed"}

VARIABLES phase,    \* where the handler of each request stands
          job,      \* what the request asks for, and for which nights
          left,     \* nights its locking statement has still to visit
          held,     \* rows it has locked; these are the rows it found
          open      \* among them, those it read with isAvailable = true

inventoryVars == <<calendar, phase, job, left, held, open>>

TypeOK ==
    /\ CalendarType
    /\ phase \in [Requests -> Phases]
    /\ job \in [Requests -> [kind : Kinds \cup {"none"}, nights : SUBSET Dates]]
    /\ left \in [Requests -> SUBSET Dates]
    /\ held \in [Requests -> SUBSET Dates]
    /\ open \in [Requests -> SUBSET Dates]

Init ==
    /\ CalendarInit
    /\ phase = [t \in Requests |-> "idle"]
    /\ job = [t \in Requests |-> NoJob]
    /\ left = [t \in Requests |-> {}]
    /\ held = [t \in Requests |-> {}]
    /\ open = [t \in Requests |-> {}]

\* A call arrives with a range of days (a delete covers every day of the room)
\* and its first statement starts to scan the primary key.
Begin(t) ==
    /\ phase[t] = "idle"
    /\ \E kind \in Kinds, first, last \in Dates :
          LET nights == IF kind = "delete" THEN Dates ELSE Span(first, last)
          IN  /\ nights # {}
              /\ nights \subseteq Dates
              /\ job' = [job EXCEPT ![t] = [kind |-> kind, nights |-> nights]]
              /\ left' = [left EXCEPT ![t] = nights]
    /\ phase' = [phase EXCEPT ![t] = "scan"]
    /\ UNCHANGED <<calendar, held, open>>

\* Mutant: only the locking SELECT is ordered, the other statements scan down.
NextNightUnordered(t, d) ==
    /\ d \in left[t]
    /\ IF job[t].kind = "reserve" THEN \A e \in left[t] : d <= e
                                  ELSE \A e \in left[t] : d >= e

\* The scan follows the primary key (room_id, date) upwards, and so does the
\* ORDER BY of the locking SELECT.
NextNight(t, d) == d \in left[t] /\ \A e \in left[t] : d <= e

\* Mutant: the rows are read without a lock.
NeverLocked(t, d) == FALSE

LockedByOther(t, d) == \E u \in Requests \ {t} : d \in held[u]

\* The next row is locked and read, or passed over when there is none.
VisitNight(t) ==
    /\ phase[t] = "scan"
    /\ \E d \in left[t] :
          /\ NextNight(t, d)
          /\ ~LockedByOther(t, d)
          /\ left' = [left EXCEPT ![t] = @ \ {d}]
          /\ held' = [held EXCEPT ![t] =
                        IF calendar[d] = "absent" THEN @ ELSE @ \cup {d}]
          /\ open' = [open EXCEPT ![t] =
                        IF calendar[d] = "free" THEN @ \cup {d} ELSE @]
    /\ UNCHANGED <<calendar, phase, job>>

\* Mutants: without the comparison of the number of rows, and one row short.
BookableWithGaps(t) == open[t] = held[t]

BookableButOne(t) == /\ Cardinality(held[t]) = Cardinality(job[t].nights) - 1
                     /\ open[t] = held[t]

\* rows.length === totalDays, and no row has isAvailable = false.
Bookable(t) == held[t] = job[t].nights /\ open[t] = held[t]

\* The check of reserveRoomAvailability; throwing rolls the transaction back.
Decide(t) ==
    /\ phase[t] = "scan"
    /\ left[t] = {}
    /\ job[t].kind = "reserve"
    /\ \/ /\ Bookable(t)
          /\ phase' = [phase EXCEPT ![t] = "write"]
          /\ held' = held
       \/ /\ ~Bookable(t)
          /\ phase' = [phase EXCEPT ![t] = "refused"]
          /\ held' = [held EXCEPT ![t] = {}]
    /\ UNCHANGED <<calendar, job, left, open>>

\* manager.save(rows) and the COMMIT that makes it visible.
CommitReserve(t) ==
    /\ phase[t] = "write"
    /\ calendar' = Marked(held[t], "taken")
    /\ phase' = [phase EXCEPT ![t] = "granted"]
    /\ held' = [held EXCEPT ![t] = {}]
    /\ UNCHANGED <<job, left, open>>

\* The single-statement transactions: setRoomAvailability and the DELETE.
CommitStatement(t) ==
    /\ phase[t] = "scan"
    /\ left[t] = {}
    /\ \/ job[t].kind = "open"   /\ calendar' = Marked(held[t], "free")
       \/ job[t].kind = "close"  /\ calendar' = Marked(held[t], "taken")
       \/ job[t].kind = "delete" /\ calendar' = Marked(held[t], "absent")
    /\ phase' = [phase EXCEPT ![t] = "done"]
    /\ held' = [held EXCEPT ![t] = {}]
    /\ UNCHANGED <<job, left, open>>

\* Mutant: without a transaction, what has been written before stays.
AbortWithoutRollback(t) ==
    /\ phase[t] \in {"scan", "write"}
    /\ phase' = [phase EXCEPT ![t] = "failed"]
    /\ held' = [held EXCEPT ![t] = {}]
    /\ calendar' = IF phase[t] = "write" THEN Marked(held[t], "taken")
                                         ELSE calendar
    /\ UNCHANGED <<job, left, open>>

\* A lost connection, a lock wait timeout or a crash of the service: the
\* database rolls the transaction back and the caller gets an error.
Abort(t) ==
    /\ phase[t] \in {"scan", "write"}
    /\ phase' = [phase EXCEPT ![t] = "failed"]
    /\ held' = [held EXCEPT ![t] = {}]
    /\ UNCHANGED <<calendar, job, left, open>>

Work(t) == VisitNight(t) \/ Decide(t) \/ CommitReserve(t) \/ CommitStatement(t)

Next == \E t \in Requests : Begin(t) \/ Work(t) \/ Abort(t)

Spec == Init /\ [][Next]_inventoryVars

\* Callers may stop calling and nothing need fail, but a statement that can
\* run does run: the event loop and the database serve every open transaction.
FairSpec == Spec /\ \A t \in Requests : WF_inventoryVars(Work(t))

-----------------------------------------------------------------------------

Active(t) == phase[t] \in {"scan", "write"}

\* No two open transactions hold the same row, only open ones hold any, and a
\* row a handler has read under its lock still says what the handler remembers
\* when it decides and writes: the point of lock: pessimistic_write in
\* reserveRoomAvailability.
LockedReadsAreCurrent ==
    /\ \A t, u \in Requests : t # u => held[t] \cap held[u] = {}
    /\ \A t \in Requests :
          /\ held[t] # {} => Active(t)
          /\ \A d \in held[t] :
                /\ calendar[d] # "absent"
                /\ d \in open[t] <=> calendar[d] = "free"

\* Transaction t is waiting for a row that u has locked.
Waits(t, u) == /\ phase[t] = "scan"
               /\ u # t
               /\ \E d \in left[t] : NextNight(t, d) /\ d \in held[u]

\* Transactions never wait for each other in a circle, whatever mix of ranges,
\* bookings, cancellations and deletions is open: every statement visits the
\* days of the room in the same order.
NoWaitCycle ==
    \A S \in (SUBSET Requests) \ {{}} :
        \E t \in S : \A u \in S : ~Waits(t, u)

Granted(t) == phase[t] = "granted"
Refused(t) == phase[t] = "refused"

\* A request that turns granted does so in a step that takes all of its nights
\* from free to taken: no caller is told of a booking that another caller's
\* booking, or a row that is missing or closed, stands in the way of.
GrantTakesFreeNights ==
    [][\A t \in Requests : ~Granted(t) /\ Granted(t)' =>
            /\ AllFree(job[t].nights)
            /\ \A d \in job[t].nights : calendar'[d] = "taken"]_inventoryVars

\* A request is refused only in a state where one of its nights cannot be
\* booked: the refusal is an answer some serial order of the calls would give.
RefusalIsJustified ==
    [][\A t \in Requests : ~Refused(t) /\ Refused(t)' =>
            ~AllFree(job[t].nights)]_inventoryVars

\* The SQL transactions together answer every call as NightLedger does: each
\* one all or nothing, at its commit, on what the others have committed.
Answers == [t \in Requests |-> IF Active(t) THEN "asked" ELSE phase[t]]
Ledger == INSTANCE NightLedger WITH answer <- Answers
ImplementsLedger == Ledger!LedgerSpec

\* Every call that has begun is answered, without any help from the lock wait
\* timeout: waiting for a row lock never turns into waiting for ever.
EveryCallEnds == \A t \in Requests : (phase[t] = "scan") ~> ~Active(t)
=============================================================================
