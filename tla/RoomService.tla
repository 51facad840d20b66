---------------------------- MODULE RoomService ----------------------------
(***************************************************************************)
(* The catalogue side of hotel-service: rooms, their pictures and their    *)
(* calendar, and the requests of one hotel that read and change them,      *)
(* served one statement of the database at a time.  The gateway's routes   *)
(* pass a request on and answer 404 when hotel-service refuses it.         *)
(***************************************************************************)
EXTENDS Naturals, FiniteSets, SequencesExt

CONSTANTS SeededRooms, MaxRooms,   \* rooms 1..SeededRooms come from the seed
          Pics, MaxPics,           \* pictures, and how many of them a request has at most
          MaxCapacity,
          LastNight, Price,        \* the calendar's nights, and each room's prices
          Slots,
          MaxCalls,    \* requests that change something, at most
          MaxFaults    \* failures of a service, and answers lost, at most

Rooms == 1..MaxRooms
Nights == 1..LastNight

\* The table of facilities: what each costs a guest, in ten thousand won.
FacilityPrice == [pool |-> 3, lounge |-> 5]

ASSUME CatalogueAssumption ==
    /\ SeededRooms \in Nat /\ MaxRooms \in Nat /\ SeededRooms <= MaxRooms
    /\ MaxPics \in Nat /\ MaxCapacity \in Nat \ {0} /\ LastNight \in Nat \ {0}
    /\ Price \in [Rooms \X Nights -> Nat]
    /\ MaxCalls \in Nat /\ MaxFaults \in Nat

VARIABLES rooms,    \* the capacity in the room's row, or 0 without a row
          images,   \* its pictures of each sort order, in the order of their ids
          days,     \* its rows of the calendar: "none", "open" or "taken"
          lastRoom, \* the last id given
          jobs,     \* requests in flight
          calls, faults,
          saved,    \* history: what the last write left that nothing crossed
          mixed     \* history: rooms whose writes have crossed, or failed half-way

catalogue == <<rooms, images, days, lastRoom>>
service == <<catalogue, jobs, calls, faults, saved, mixed>>

Content == [cap : 0..MaxCapacity, pics : BoundedSeq(Pics, MaxPics)]
NoContent == [cap |-> 0, pics |-> <<>>]
NoImages == [k \in 1..MaxPics |-> <<>>]

\* The picture of sort order k, if there is one.
At(pics, k) == IF k <= Len(pics) THEN <<pics[k]>> ELSE <<>>
ImagesOf(pics) == [k \in 1..MaxPics |-> At(pics, k)]

Writes == {"update", "create", "delete"}
Changes == Writes \cup {"book"}
Ends == {"ok", "refused", "failed"}

\* What an answer tells of the rooms, with no capacity for those it does not list.
Listing == [Rooms -> [cap : 0..MaxCapacity, pics : Seq(Pics)]]
Nothing == [r \in Rooms |-> NoContent]
Listed(found) == {r \in Rooms : found[r].cap # 0}
Only(R, f(_)) == [r \in Rooms |-> IF r \in R THEN f(r) ELSE NoContent]

Free == [kind |-> "none"]
Jobs == [kind : Writes \cup {"room", "list", "days", "search", "book"},
         room : Rooms \cup {0}, body : Content,
         from : 0..(LastNight + 1), to : 0..(LastNight + 1),
         guests : 0..MaxCapacity, pool : 0..MaxCapacity, lounge : 0..MaxCapacity,
         step : Ends \cup {"find", "save", "clear", "insert", "images", "calendar",
                           "row", "rows", "facilities"},
         found : Listing, nights : SUBSET Nights, amount : Nat,
         page : BOOLEAN,     \* of the page that is modelled, and not of somebody else
         heard : BOOLEAN,    \* the page still waits for the answer
         alone : BOOLEAN]    \* history: no write of the room has crossed it

ServiceTypeOK ==
    /\ rooms \in [Rooms -> 0..MaxCapacity] /\ lastRoom \in SeededRooms..MaxRooms
    /\ images \in [Rooms -> [1..MaxPics -> Seq(Pics)]]
    /\ days \in [Rooms -> [Nights -> {"none", "open", "taken"}]]
    /\ jobs \in [Slots -> Jobs \cup {Free}]
    /\ calls \in 0..MaxCalls /\ faults \in 0..MaxFaults
    /\ saved \in [Rooms -> Content] /\ mixed \subseteq Rooms

\* The rooms of the seed have their calendar; a room created later has none.
ServiceInit(content) ==
    /\ rooms = [r \in Rooms |-> content[r].cap]
    /\ images = [r \in Rooms |-> ImagesOf(content[r].pics)]
    /\ days = [r \in Rooms |-> [n \in Nights |-> IF r <= SeededRooms THEN "open" ELSE "none"]]
    /\ lastRoom = SeededRooms
    /\ jobs = [q \in Slots |-> Free]
    /\ calls = 0 /\ faults = 0
    /\ saved = content /\ mixed = {}

-----------------------------------------------------------------------------
\* Requests

Request(kind, r) ==
    [kind |-> kind, room |-> r, body |-> NoContent, from |-> 0, to |-> 0,
     guests |-> 0, pool |-> 0, lounge |-> 0, step |-> "find",
     found |-> Nothing, nights |-> {}, amount |-> 0,
     page |-> TRUE, heard |-> TRUE, alone |-> TRUE]

\* The requests of todo are sent together, into slots that are free in before.
Sending(todo, before) ==
    /\ calls' = calls + Cardinality({a \in todo : a.kind \in Changes}) /\ calls' <= MaxCalls
    /\ \E place \in [todo -> {q \in Slots : before[q] = Free}] :
         /\ \A a, b \in todo : place[a] = place[b] => a = b
         /\ jobs' = [q \in Slots |-> IF \E a \in todo : place[a] = q
                                     THEN CHOOSE a \in todo : place[a] = q ELSE before[q]]

\* Another admin's requests, and other guests'.
Elsewhere(request) ==
    /\ Sending({[request EXCEPT !.page = FALSE, !.heard = FALSE]}, jobs)
    /\ UNCHANGED <<catalogue, faults, saved, mixed>>

-----------------------------------------------------------------------------
\* room.service, one statement at a time

\* Nobody else's answer is followed any further.
Becomes(q, step) ==
    jobs' = [jobs EXCEPT ![q] = IF step \in Ends /\ ~@.page THEN Free ELSE [@ EXCEPT !.step = step]]
Unwritten == UNCHANGED <<saved, mixed>>

Present == {r \in Rooms : rooms[r] # 0}
PicsOf(r) == FlattenSeq(images[r])

Row(r) == [cap |-> rooms[r], pics |-> <<>>]

Midway(r) == {q \in Slots : /\ jobs[q].kind \in Writes
                            /\ jobs[q].step \notin Ends \cup {"find"}
                            /\ jobs[q].room = r}

\* A write of a room begins with the first statement that finds or inserts it.
Begin(q, r, step) ==
    /\ jobs' = [s \in Slots |->
          IF s = q THEN [jobs[q] EXCEPT !.room = r, !.step = step, !.alone = (Midway(r) = {})]
          ELSE IF s \in Midway(r) THEN [jobs[s] EXCEPT !.alone = FALSE] ELSE jobs[s]]
    /\ mixed' = IF Midway(r) = {} THEN mixed ELSE mixed \cup {r}
    /\ UNCHANGED saved

\* What it leaves counts when it was alone from its beginning to its end.
End(q) ==
    LET r == jobs[q].room IN
    /\ Becomes(q, "ok")
    /\ saved' = IF jobs[q].alone THEN [saved EXCEPT ![r] = jobs[q].body] ELSE saved
    /\ mixed' = IF jobs[q].alone THEN mixed \ {r} ELSE mixed

\* Mutant: the new pictures are added to the old ones.
KeepImages(q) ==
    /\ jobs[q].step \in {"clear", "insert"}
    /\ images' = [images EXCEPT ![jobs[q].room] =
                    [k \in 1..MaxPics |-> @[k] \o At(jobs[q].body.pics, k)]]
    /\ End(q)

\* All pictures are deleted, then those of the request inserted.
ReplaceRoomImages(q) ==
    LET pics == jobs[q].body.pics
        r == jobs[q].room
    IN
    \/ /\ jobs[q].step = "clear"
       /\ images' = [images EXCEPT ![r] = NoImages]
       /\ IF pics = <<>> THEN End(q) ELSE Becomes(q, "insert") /\ Unwritten
    \/ /\ jobs[q].step = "insert"
       /\ images' = [images EXCEPT ![r] = [k \in 1..MaxPics |-> @[k] \o At(pics, k)]]
       /\ End(q)

\* Ids are given in ascending order and never again.
CreateRoom(q) ==
    /\ jobs[q].kind = "create"
    /\ \/ /\ jobs[q].step = "find"
          /\ lastRoom < MaxRooms /\ lastRoom' = lastRoom + 1
          /\ rooms' = [rooms EXCEPT ![lastRoom'] = jobs[q].body.cap]
          /\ Begin(q, lastRoom + 1, "clear")
          /\ UNCHANGED <<images, days>>
       \/ ReplaceRoomImages(q) /\ UNCHANGED <<rooms, days, lastRoom>>

\* The row that was found is saved, and so inserted again when it was deleted since.
UpdateRoom(q) ==
    LET r == jobs[q].room IN
    /\ jobs[q].kind = "update"
    /\ \/ /\ jobs[q].step = "find" /\ r \in Present
          /\ Begin(q, r, "save")
          /\ UNCHANGED catalogue
       \/ /\ jobs[q].step = "save"
          /\ rooms' = [rooms EXCEPT ![r] = jobs[q].body.cap]
          /\ Becomes(q, "clear")
          /\ UNCHANGED <<images, days, lastRoom>> /\ Unwritten
       \/ ReplaceRoomImages(q) /\ UNCHANGED <<rooms, days, lastRoom>>

DeleteRoom(q) ==
    LET r == jobs[q].room IN
    /\ jobs[q].kind = "delete"
    /\ \/ /\ jobs[q].step = "find" /\ r \in Present
          /\ Begin(q, r, "images")
          /\ UNCHANGED catalogue
       \/ /\ jobs[q].step = "images"
          /\ images' = [images EXCEPT ![r] = NoImages]
          /\ Becomes(q, "calendar")
          /\ UNCHANGED <<rooms, days, lastRoom>> /\ Unwritten
       \/ /\ jobs[q].step = "calendar"
          /\ days' = [days EXCEPT ![r] = [n \in Nights |-> "none"]]
          /\ Becomes(q, "row")
          /\ UNCHANGED <<rooms, images, lastRoom>> /\ Unwritten
       \/ /\ jobs[q].step = "row"
          /\ rooms' = [rooms EXCEPT ![r] = 0]
          /\ End(q)
          /\ UNCHANGED <<images, days, lastRoom>>

\* getRoomById and getRoomsByHotel read the rows first and then the pictures.
ReadRooms(q) ==
    LET asked == IF jobs[q].kind = "room" THEN Present \cap {jobs[q].room} ELSE Present IN
    /\ jobs[q].kind \in {"room", "list"}
    /\ \/ /\ jobs[q].step = "find"
          /\ jobs[q].kind = "list" \/ asked # {}
          /\ jobs' = [jobs EXCEPT ![q].step = "images",
                        ![q].found = Only(asked, Row)]
       \/ /\ jobs[q].step = "images"
          /\ jobs' = [jobs EXCEPT ![q].step = "ok",
                        ![q].found = [r \in Rooms |-> IF @[r] = NoContent THEN NoContent
                                                     ELSE [@[r] EXCEPT !.pics = PicsOf(r)]]]
    /\ UNCHANGED catalogue /\ Unwritten

\* getRoomAvailability, with both of its days included; taken nights have a price
\* too.  That the room is looked for first makes no difference to what it reads.
GetRoomAvailability(q) ==
    LET r == jobs[q].room IN
    /\ jobs[q].kind = "days"
    /\ jobs[q].step = "find" /\ r \in Present
    /\ jobs' = [jobs EXCEPT ![q].step = "ok",
                  ![q].nights = {n \in Nights : /\ n \in jobs[q].from .. jobs[q].to
                                                /\ days[r][n] # "none"}]
    /\ UNCHANGED catalogue /\ Unwritten

\* A stay's nights, without the day of check-out, all have an open row.
OpenThroughout(r, from, to) ==
    \A n \in from..(to - 1) : n \in Nights /\ days[r][n] = "open"

\* searchAvailableRooms: rooms that hold the guests, then those open every night.
SearchAvailableRooms(q) ==
    LET stay(r) == OpenThroughout(r, jobs[q].from, jobs[q].to) IN
    /\ jobs[q].kind = "search"
    /\ \/ /\ jobs[q].step = "find"
          /\ jobs' = [jobs EXCEPT ![q].step = "rows",
                        ![q].found = Only({r \in Present : rooms[r] >= jobs[q].guests}, Row)]
       \/ /\ jobs[q].step = "rows"
          /\ jobs' = [jobs EXCEPT ![q].step = "ok",
                        ![q].found = [r \in Rooms |-> IF stay(r) THEN @[r] ELSE NoContent]]
    /\ UNCHANGED catalogue /\ Unwritten

NightsTotal(r, nights) == FoldSet(LAMBDA n, sum : Price[r, n] + sum, 0, nights)

Total(job) ==
    NightsTotal(job.room, job.from .. (job.to - 1))
      + job.pool * FacilityPrice.pool + job.lounge * FacilityPrice.lounge

\* booking-service's createBooking, which asks for the nights only: whether the
\* room has a row, or holds the guests, nobody asks.
CreateBooking(q) ==
    LET r == jobs[q].room
        stay == jobs[q].from .. (jobs[q].to - 1)
    IN
    /\ jobs[q].kind = "book"
    /\ \/ /\ jobs[q].step = "find" /\ OpenThroughout(r, jobs[q].from, jobs[q].to)
          /\ days' = [days EXCEPT ![r] = [n \in Nights |-> IF n \in stay THEN "taken" ELSE @[n]]]
          /\ Becomes(q, "facilities")
       \/ /\ jobs[q].step = "facilities"
          /\ IF jobs[q].page
             THEN jobs' = [jobs EXCEPT ![q].step = "ok", ![q].amount = Total(jobs[q])]
             ELSE Becomes(q, "ok")
          /\ UNCHANGED days
    /\ UNCHANGED <<rooms, images, lastRoom>> /\ Unwritten

Refuse(q) ==
    /\ jobs[q].kind # "none" /\ jobs[q].step = "find"
    /\ \/ jobs[q].kind \in {"update", "delete", "room", "days"} /\ jobs[q].room \notin Present
       \/ jobs[q].kind = "book" /\ ~OpenThroughout(jobs[q].room, jobs[q].from, jobs[q].to)
    /\ Becomes(q, "refused")
    /\ UNCHANGED catalogue /\ Unwritten

Serve(q) ==
    /\ \/ CreateRoom(q) \/ UpdateRoom(q) \/ DeleteRoom(q)
       \/ ReadRooms(q) \/ GetRoomAvailability(q) \/ SearchAvailableRooms(q)
       \/ CreateBooking(q) \/ Refuse(q)
    /\ UNCHANGED <<calls, faults>>

\* A service or its database fails before any statement, or the answer is lost;
\* where a read fails makes no difference.
Fault(q) ==
    /\ jobs[q].kind # "none" /\ jobs[q].step \notin {"refused", "failed"}
    /\ jobs[q].kind \in Changes \/ jobs[q].step = "find"
    /\ faults < MaxFaults /\ faults' = faults + 1
    /\ Becomes(q, "failed")
    /\ mixed' = IF q \in Midway(jobs[q].room) THEN mixed \cup {jobs[q].room} ELSE mixed
    /\ UNCHANGED <<catalogue, calls, saved>>

-----------------------------------------------------------------------------

\* A room whose writes did not cross and did not fail half-way is, between them,
\* exactly as the last of them left it: with the capacity and the pictures of an
\* update and no picture of an earlier one, and without any row after a deletion.
\* And whatever crossed or failed, no night is for sale without its room.
RoomAsSaved ==
    \A r \in Rooms :
        /\ r \notin mixed /\ Midway(r) = {} =>
               /\ rooms[r] = saved[r].cap
               /\ PicsOf(r) = saved[r].pics
        /\ r \notin Present => \A n \in Nights : days[r][n] = "none"
=============================================================================
