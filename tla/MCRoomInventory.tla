--------------------------- MODULE MCRoomInventory ---------------------------
\* A room with a short calendar and two calls in flight.  The last day has no
\* row: it lies beyond the window the seed script has filled.
EXTENDS RoomInventory

CONSTANTS r1, r2

FourDays == 1..4
SeededOfFour == 1..3
TwoCalls == {r1, r2}
=============================================================================
