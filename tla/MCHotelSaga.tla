---------------------------- MODULE MCHotelSaga ----------------------------
\* Small hotels: one room with one to three nights, and a few requests.
EXTENDS HotelSagaProperties, TLC

CONSTANTS b1, b2, b3, c1, c2, k1, k2

OneNight == 1..1
ThreeNights == 1..3
OneBooking == {b1}
TwoBookings == {b1, b2}
ThreeBookings == {b1, b2, b3}
OneCancel == {c1}
TwoCancels == {c1, c2}
OneKey == {k1}
TwoKeys == {k1, k2}
Nothing == {}
Pool == {"pool"}
PoolAndLounge == {"pool", "lounge"}
NoFaults == {}
EveryFault == AllFaults

SameRequests == Permutations(Bookings) \cup Permutations(Cancels)
                   \cup Permutations(Keys)
=============================================================================
