---------------------------- MODULE MCAdminRooms ----------------------------
(* A small instance of AdminRooms: the rooms of the seed have one picture. *)
EXTENDS AdminRooms

CONSTANTS old, new   \* pictures

MCContent == [r \in 1..MaxRooms |-> IF r <= SeededRooms THEN [cap |-> 1, pics |-> <<old>>]
                                    ELSE NoContent]
MCOthers == {[cap |-> 1, pics |-> <<new>>]}
MCPrice == [x \in (1..MaxRooms) \X (1..LastNight) |-> 1]
MCSymmetry == Permutations(Slots)
=============================================================================
