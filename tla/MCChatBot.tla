----------------------------- MODULE MCChatBot -----------------------------
(* Instances of ChatBot for TLC: one customer with the page open twice. *)
EXTENDS ChatBot

CONSTANTS u1, w1, w2

MCUsers == {u1}
MCWidgets == {w1, w2}
MCOwner == [w \in MCWidgets |-> u1]
=============================================================================
