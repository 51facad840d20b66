---------------------------- MODULE RoomCalendar ----------------------------
(***************************************************************************)
(* The room_availabilities rows of one room, and the calls that            *)
(* room.service.ts offers on them, each as one indivisible step.           *)
(* NightLedger promises these steps to concurrent callers, RoomInventory   *)
(* shows that the SQL keeps the promise, and HotelSaga builds on it.       *)
(***************************************************************************)
EXTENDS StayDates

CONSTANT Seeded    \* the days scripts/seed.ts has written a row for

ASSUME SeededAssumption == Seeded \subseteq Dates

\* The row of (room_id, date): no row, is_available = true, or = false.
Cells == {"absent", "free", "taken"}

VARIABLE calendar

CalendarType == calendar \in [Dates -> Cells]

CalendarInit ==
    calendar = [d \in Dates |-> IF d \in Seeded THEN "free" ELSE "absent"]

AllFree(nights) == \A d \in nights : d \in Dates /\ calendar[d] = "free"

\* Mutant: a third value for the flag.
MarkedAsSold(nights, cell) ==
    [d \in Dates |-> IF d \in nights /\ calendar[d] # "absent"
                     THEN IF cell = "taken" THEN "sold" ELSE cell
                     ELSE calendar[d]]

\* Writes the rows that exist; a day without a row is skipped.
Marked(nights, cell) ==
    [d \in Dates |-> IF d \in nights /\ calendar[d] # "absent"
                     THEN cell ELSE calendar[d]]

Reserve(nights) == AllFree(nights) /\ calendar' = Marked(nights, "taken")

Release(nights) == calendar' = Marked(nights, "free")

Block(nights) == calendar' = Marked(nights, "taken")

Remove(nights) == calendar' = Marked(nights, "absent")
=============================================================================
