--------------------------- MODULE MCGuestQuotes ---------------------------
(* A small instance of GuestQuotes: a room for one and a room for two.  *)
EXTENDS GuestQuotes

MCContent == [r \in 1..MaxRooms |-> [cap |-> r, pics |-> <<>>]]
MCOthers == {[cap |-> 1, pics |-> <<>>]}
MCPrice == [x \in (1..MaxRooms) \X (1..LastNight) |-> 10 * x[1] + x[2]]
Couple == [from |-> 1, to |-> 2, adults |-> 1, infants |-> 1]
Single == [from |-> 1, to |-> 3, adults |-> 1, infants |-> 0]
MCSearches == {Couple, Single}
MCEarlier == {[search |-> Couple, room |-> 2, cap |-> 2]}
MCSymmetry == Permutations(Slots)
=============================================================================
