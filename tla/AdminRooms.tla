----------------------------- MODULE AdminRooms -----------------------------
(***************************************************************************)
(* An administrator's tab on the pages of one hotel and of its rooms,      *)
(* over RoomService, while another administrator changes the same rooms.   *)
(***************************************************************************)
EXTENDS RoomService

CONSTANTS Capacities,      \* that are typed into the forms
          InitialContent,  \* of the rooms, with no capacity where there is no room yet
          OtherRooms, OtherContents,  \* what the other administrator changes, and how
          MaxMoves         \* times that the tab goes to another page or month

\* The gateway lets no room through without a capacity.
ASSUME RoomsAssumption ==
    /\ InitialContent \in [Rooms -> Content]
    /\ 1 <= SeededRooms /\ \A r \in 1..SeededRooms : InitialContent[r].cap # 0
    /\ Capacities \subseteq 1..MaxCapacity
    /\ OtherRooms \subseteq Rooms
    /\ OtherContents \subseteq Content /\ \A c \in OtherContents : c.cap # 0
    /\ MaxMoves \in Nat

VARIABLES view,     \* "hotel" or "room"
          at,       \* the room in the address of a room's page
          month,    \* the month of its calendar
          shown,    \* what the page shows of the room
          calendar, \* and of its nights in that month
          form,     \* the form for a new or a changed room
          saving, deleting,
          list,     \* the rooms that the hotel's page shows
          moves,
          crossed   \* history: the answer to a save has come to another room's page

page == <<view, at, month, shown, calendar, form, saving, deleting, list, moves, crossed>>
vars == <<service, page>>

\* A month of the calendar has one night here.
Months == Nights

Waiting == [state |-> "waiting"]
Failed == [state |-> "error"]
Closed == [state |-> "closed"]
States(S) == S \cup {Waiting, Failed}

TypeOK ==
    /\ ServiceTypeOK
    /\ view \in {"hotel", "room"} /\ at \in Rooms /\ month \in Months
    /\ shown \in States([state : {"shown"}, of : Rooms, cap : 1..MaxCapacity, pics : Seq(Pics)])
    /\ calendar \in States([state : {"shown"}, of : Rooms, month : Months, nights : SUBSET Nights])
    /\ form \in {Closed} \cup [state : {"open"}, of : Rooms \cup {0}, pics : Seq(Pics)]
    /\ moves \in 0..MaxMoves
    /\ saving \in BOOLEAN /\ deleting \in BOOLEAN /\ crossed \in BOOLEAN
    /\ list \in States([state : {"shown"}, found : Listing])

\* The page of the first room has been opened and has loaded.
Init ==
    /\ ServiceInit(InitialContent)
    /\ view = "room" /\ at = 1 /\ month = 1
    /\ shown = [state |-> "shown", of |-> 1, cap |-> rooms[1], pics |-> PicsOf(1)]
    /\ calendar = [state |-> "shown", of |-> 1, month |-> 1, nights |-> {1}]
    /\ form = Closed /\ list = Waiting
    /\ saving = FALSE /\ deleting = FALSE /\ crossed = FALSE /\ moves = 0

-----------------------------------------------------------------------------
\* Moving between the pages

Loads == {"room", "days", "list"}
LoadRoom(r) == Request("room", r)
LoadMonth(r, m) == [Request("days", r) EXCEPT !.from = m, !.to = m]

\* Mutant: the effects' ignore flags are forgotten.
StillHeard(kinds) == jobs

\* The requests of kinds are not waited for any more; a load that nobody waits
\* for is as good as gone.
Unheard(kinds) ==
    [q \in Slots |-> IF jobs[q].kind \notin kinds THEN jobs[q]
                     ELSE IF jobs[q].kind \in Loads THEN Free
                     ELSE [jobs[q] EXCEPT !.heard = FALSE]]

\* A page that is left hears nothing; a deletion leads to the hotel's page all the same.
Left == Unheard(Loads \cup Writes)

Move == moves < MaxMoves /\ moves' = moves + 1

Blank == /\ shown' = Waiting /\ calendar' = Waiting /\ form' = Closed
         /\ month' = 1 /\ crossed' = FALSE

\* AdminRoomDetailPage is mounted.
OpenRoom(r) ==
    /\ Move
    /\ view = "hotel" /\ list.state = "shown" /\ r \in Listed(list.found)
    /\ Sending({LoadRoom(r), LoadMonth(r, 1)}, Left)
    /\ view' = "room" /\ at' = r /\ Blank
    /\ saving' = FALSE /\ deleting' = FALSE /\ list' = Waiting
    /\ UNCHANGED <<catalogue, faults, saved, mixed>>

\* Mutant: the form stays open, and what it was filled with.
JumpKeepsForm(r) ==
    /\ Move
    /\ view = "room" /\ r # at
    /\ Sending({LoadRoom(r), LoadMonth(r, 1)}, Unheard(Loads))
    /\ at' = r /\ shown' = Waiting /\ calendar' = Waiting /\ month' = 1 /\ crossed' = FALSE
    /\ UNCHANGED <<view, form, saving, deleting, list>>
    /\ UNCHANGED <<catalogue, faults, saved, mixed>>

\* The history leads from one room's page to another's, and the page stays mounted.
Jump(r) ==
    /\ Move
    /\ view = "room" /\ r # at
    /\ Sending({LoadRoom(r), LoadMonth(r, 1)}, Unheard(Loads))
    /\ at' = r /\ Blank
    /\ UNCHANGED <<view, saving, deleting, list>>
    /\ UNCHANGED <<catalogue, faults, saved, mixed>>

ChangeMonth(m) ==
    /\ Move
    /\ view = "room" /\ shown.state = "shown" /\ m # month
    /\ Sending({LoadMonth(at, m)}, Unheard({"days"}))
    /\ month' = m /\ calendar' = Waiting
    /\ UNCHANGED <<view, at, shown, form, saving, deleting, list, crossed>>
    /\ UNCHANGED <<catalogue, faults, saved, mixed>>

\* AdminHotelDetailPage is mounted.
OpenHotel ==
    /\ Move
    /\ view # "hotel"
    /\ Sending({Request("list", 0)}, Left)
    /\ view' = "hotel" /\ list' = Waiting /\ Blank
    /\ saving' = FALSE /\ deleting' = FALSE
    /\ UNCHANGED <<at, catalogue, faults, saved, mixed>>

-----------------------------------------------------------------------------
\* The forms

FormBecomes(f) ==
    /\ form' = f
    /\ UNCHANGED <<service, view, at, month, shown, calendar, saving, deleting, list, moves, crossed>>

OpenEditForm == /\ view = "room" /\ shown.state = "shown" /\ form = Closed
                /\ FormBecomes([state |-> "open", of |-> shown.of, pics |-> shown.pics])

OpenAddForm == /\ view = "hotel" /\ list.state = "shown" /\ form = Closed
               /\ FormBecomes([state |-> "open", of |-> 0, pics |-> <<>>])

CloseEditForm == view = "room" /\ form # Closed /\ ~saving /\ FormBecomes(Closed)
CloseAddForm == view = "hotel" /\ form # Closed /\ ~saving /\ FormBecomes(Closed)

\* The form's pictures after some were removed, and at most one was added at the end.
Edited(pics) ==
    LET kept == {pics} \cup {RemoveAt(pics, k) : k \in DOMAIN pics} IN
    {s \in kept \cup {Append(k, p) : k \in kept, p \in Pics} : Len(s) <= MaxPics}

\* handleUpdateRoom sends the form to the room of the address, handleAddRoom to the hotel.
SubmitForm(cap) ==
    /\ form # Closed /\ ~saving
    /\ \E pics \in Edited(form.pics) :
         LET request == IF view = "room" THEN Request("update", at) ELSE Request("create", 0) IN
         Sending({[request EXCEPT !.body = [cap |-> cap, pics |-> pics]]}, jobs)
    /\ saving' = TRUE
    /\ UNCHANGED <<view, at, month, shown, calendar, form, deleting, list, moves, crossed>>
    /\ UNCHANGED <<catalogue, faults, saved, mixed>>

ClickDelete ==
    /\ view = "room" /\ shown.state = "shown" /\ form = Closed /\ ~deleting
    /\ Sending({Request("delete", at)}, jobs)
    /\ deleting' = TRUE
    /\ UNCHANGED <<view, at, month, shown, calendar, form, saving, list, moves, crossed>>
    /\ UNCHANGED <<catalogue, faults, saved, mixed>>

-----------------------------------------------------------------------------
\* Answers

\* Mutant: a refusal is taken for a room.
RoomLoadedAnyway(q) ==
    LET r == jobs[q].room IN
    /\ jobs[q].kind = "room"
    /\ shown' = [state |-> "shown", of |-> r,
                 cap |-> jobs[q].found[r].cap, pics |-> jobs[q].found[r].pics]
    /\ UNCHANGED <<calendar, form, saving, deleting, list, crossed>>

RoomLoaded(q) ==
    /\ jobs[q].kind = "room"
    /\ shown' = IF jobs[q].step # "ok" THEN Failed
                ELSE LET r == jobs[q].room IN
                     [state |-> "shown", of |-> r,
                      cap |-> jobs[q].found[r].cap, pics |-> jobs[q].found[r].pics]
    /\ UNCHANGED <<calendar, form, saving, deleting, list, crossed>>

MonthLoaded(q) ==
    /\ jobs[q].kind = "days"
    /\ calendar' = IF jobs[q].step # "ok" THEN Failed
                   ELSE [state |-> "shown", of |-> jobs[q].room, month |-> jobs[q].from,
                         nights |-> jobs[q].nights]
    /\ UNCHANGED <<shown, form, saving, deleting, list, crossed>>

ListLoaded(q) ==
    /\ jobs[q].kind = "list"
    /\ list' = IF jobs[q].step # "ok" THEN Failed
               ELSE [state |-> "shown", found |-> jobs[q].found]
    /\ UNCHANGED <<shown, calendar, form, saving, deleting, crossed>>

\* setRoom(updated) and setIsEditing(false), whatever room the page shows by now;
\* an error of the load stays on top.
Saved(q) ==
    /\ jobs[q].kind = "update"
    /\ IF ~jobs[q].heard THEN UNCHANGED <<shown, form, saving, crossed>>
       ELSE /\ saving' = FALSE
            /\ IF jobs[q].step # "ok" THEN UNCHANGED <<shown, form, crossed>>
               ELSE /\ form' = Closed
                    /\ crossed' = (crossed \/ jobs[q].room # at)
                    /\ shown' = IF shown = Failed THEN shown
                                ELSE [state |-> "shown", of |-> jobs[q].room,
                                      cap |-> jobs[q].body.cap, pics |-> jobs[q].body.pics]
    /\ UNCHANGED <<calendar, deleting, list>>

Added(q) ==
    /\ jobs[q].kind = "create"
    /\ IF ~jobs[q].heard THEN UNCHANGED <<form, saving, list>>
       ELSE /\ saving' = FALSE
            /\ IF jobs[q].step # "ok" THEN UNCHANGED <<form, list>>
               ELSE /\ form' = Closed
                    /\ list' = IF list.state # "shown" THEN list
                               ELSE [list EXCEPT !.found[jobs[q].room] = jobs[q].body]
    /\ UNCHANGED <<shown, calendar, deleting, crossed>>

Answered(q) ==
    /\ jobs[q].kind # "none" /\ jobs[q].step \in Ends /\ jobs[q].kind # "delete"
    /\ RoomLoaded(q) \/ MonthLoaded(q) \/ ListLoaded(q) \/ Saved(q) \/ Added(q)
    /\ jobs' = [jobs EXCEPT ![q] = Free]
    /\ UNCHANGED <<view, at, month, moves, catalogue, calls, faults, saved, mixed>>

\* After a deletion the page of the hotel is opened, wherever the tab is by then;
\* one that is open already stays as it is.
Deleted(q) ==
    LET done == [jobs EXCEPT ![q] = Free] IN
    /\ jobs[q].kind = "delete" /\ jobs[q].step \in Ends
    /\ IF jobs[q].step = "ok" /\ jobs[q].page /\ view # "hotel"
       THEN /\ Sending({Request("list", 0)},
                       [s \in Slots |-> IF s = q THEN Free ELSE Left[s]])
            /\ view' = "hotel" /\ list' = Waiting /\ Blank
            /\ saving' = FALSE /\ deleting' = FALSE
            /\ UNCHANGED at
       ELSE /\ jobs' = done /\ UNCHANGED calls
            /\ deleting' = (deleting /\ ~jobs[q].heard)
            /\ UNCHANGED <<view, at, month, shown, calendar, form, saving, list, crossed>>
    /\ UNCHANGED <<moves, catalogue, faults, saved, mixed>>

Progress(q) == (Serve(q) /\ UNCHANGED page) \/ Answered(q) \/ Deleted(q)

Next ==
    \/ \E r \in Rooms : OpenRoom(r) \/ Jump(r)
    \/ \E m \in Months : ChangeMonth(m)
    \/ OpenHotel \/ OpenEditForm \/ OpenAddForm \/ CloseEditForm \/ CloseAddForm \/ ClickDelete
    \/ \E c \in Capacities : SubmitForm(c)
    \/ \E r \in OtherRooms :
         /\ \/ Elsewhere(Request("delete", r))
            \/ \E c \in OtherContents : Elsewhere([Request("update", r) EXCEPT !.body = c])
         /\ UNCHANGED page
    \/ \E q \in Slots : Progress(q) \/ (Fault(q) /\ UNCHANGED page)

Spec == Init /\ [][Next]_vars

-----------------------------------------------------------------------------

\* What the page shows of a room, of its nights and in the form that edits it is
\* of the room, and the month, that the page is for, however the tab was moved
\* between rooms and months while their loads were on their way, unless the
\* answer to a save has come to the page of another room.
PageShowsItsRoom ==
    view = "room" =>
        /\ shown.state = "shown" => shown.of = at \/ crossed
        /\ form # Closed => form.of = at \/ crossed
        /\ calendar.state = "shown" => calendar.of = at /\ calendar.month = month
=============================================================================
