---------------------------- MODULE NightLedger ----------------------------
(***************************************************************************)
(* What hotel-service promises the callers of its room calendar: every     *)
(* call takes effect in one step between its arrival and its answer, on    *)
(* the committed rows; a booking is granted in a step that takes all of    *)
(* its nights from free to taken, and refused only when one is not free.   *)
(* RoomInventory implements this.                                          *)
(***************************************************************************)
EXTENDS RoomCalendar

CONSTANT Requests   \* the calls, each one served once

Kinds == {"reserve", "open", "close", "delete"}

NoJob == [kind |-> "none", nights |-> {}]

VARIABLES job,      \* what each call asks for
          answer    \* how far each call has got, and how it ended

ledgerVars == <<calendar, job, answer>>

LedgerInit == /\ CalendarInit
              /\ job = [t \in Requests |-> NoJob]
              /\ answer = [t \in Requests |-> "idle"]

\* A range of days, or every day of the room for a deletion.
Ask(t) ==
    /\ answer[t] = "idle"
    /\ \E kind \in Kinds, nights \in SUBSET Dates :
          job' = [job EXCEPT ![t] = [kind |-> kind, nights |-> nights]]
    /\ answer' = [answer EXCEPT ![t] = "asked"]
    /\ UNCHANGED calendar

Answer(t, text) == /\ answer[t] = "asked"
                   /\ answer' = [answer EXCEPT ![t] = text]
                   /\ UNCHANGED job

Serve(t) ==
    \/ /\ job[t].kind = "reserve"
       /\ \/ Reserve(job[t].nights) /\ Answer(t, "granted")
          \/ /\ ~AllFree(job[t].nights)
             /\ Answer(t, "refused")
             /\ UNCHANGED calendar
    \/ job[t].kind = "open" /\ Release(job[t].nights) /\ Answer(t, "done")
    \/ job[t].kind = "close" /\ Block(job[t].nights) /\ Answer(t, "done")
    \/ job[t].kind = "delete" /\ Remove(job[t].nights) /\ Answer(t, "done")

\* A call that fails has changed nothing.
Fail(t) == Answer(t, "failed") /\ UNCHANGED calendar

LedgerNext == \E t \in Requests : Ask(t) \/ Serve(t) \/ Fail(t)

LedgerSpec == LedgerInit /\ [][LedgerNext]_ledgerVars
=============================================================================
