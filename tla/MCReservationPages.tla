------------------------ MODULE MCReservationPages ------------------------
(* Instances of ReservationPages for TLC. *)
EXTENDS ReservationPages
=============================================================================
