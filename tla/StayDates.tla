----------------------------- MODULE StayDates -----------------------------
\* The days of a stay.  A 'YYYY-MM-DD' string is the number of its day, and
\* addDays(day, n), dayBefore(day) are day + n, day - 1: the code computes them
\* in UTC, where every day is 24 hours long.
EXTENDS Integers

CONSTANT Dates    \* the calendar days of one room

ASSUME DatesAssumption == Dates \subseteq Int

\* The days BETWEEN the first one and the last one, both included.
Span(first, last) == first..last

\* A guest can leave on the day after the last night of the calendar.
Days == Dates \cup {d + 1 : d \in Dates}

\* Mutant: lets a stay of no night through.
ValidDatesOrSame(checkIn, checkOut) == checkIn <= checkOut

ValidDates(checkIn, checkOut) == checkIn < checkOut

\* The nights of a stay end on the day before checkOutDate, which is free for
\* the next guest's check-in.
NightsOf(checkIn, checkOut) == Span(checkIn, checkOut - 1)
=============================================================================
