---------------------------- MODULE GuestQuotes ----------------------------
(***************************************************************************)
(* A guest's tab from the search to the booking, over RoomService: the     *)
(* form, the rooms that were found, the options with the price of the      *)
(* stay, and the reservation, while other guests book and administrators   *)
(* change the rooms.  The search and the room are in the pages' addresses. *)
(***************************************************************************)
EXTENDS RoomService

CONSTANTS Searches,       \* [from, to, adults, infants] as the form of the search sends them
          InitialContent,
          Earlier,        \* options pages that the tab's history has already
          OtherRooms, OtherContents,  \* that others book and change, and how
          MaxMoves,
          MaxOthers       \* requests of other guests and of administrators, at most

ASSUME SearchesAssumption ==
    \A s \in Searches : /\ {s.from, s.to} \subseteq 1..(LastNight + 1) /\ s.from < s.to
                        /\ s.adults \in Nat \ {0} /\ s.infants \in Nat
ASSUME EarlierAssumption ==
    \A v \in Earlier : /\ v.search \in Searches /\ v.room \in 1..SeededRooms
                       /\ v.cap >= v.search.adults + v.search.infants

VARIABLES view,      \* "search", "rooms", "options" or "booked"
          search,    \* of the page's address
          room,      \* of the address of the options page
          results,   \* the rooms that were found: a state, and what was found
          price,     \* the nights that have a price: a state, and the nights
          counts,    \* guests of the pool and of the lounge
          booking,   \* "idle", "submitting" or "error"
          moves,     \* ways between pages, but for OpenRooms, which leads from one to the next
          others,
          visited,   \* addresses of the options page that were opened
          deal       \* history: what is known of the booking

page == <<view, search, room, results, price, counts, booking, moves, others, visited, deal>>
vars == <<service, page>>

TypeOK ==
    /\ ServiceTypeOK
    /\ view \in {"search", "rooms", "options", "booked"}
    /\ search \in Searches /\ room \in Rooms \cup {0}
    /\ counts \in [{"pool", "lounge"} -> 0..MaxCapacity]
    /\ booking \in {"idle", "submitting", "error"}
    /\ moves \in 0..MaxMoves /\ others \in 0..MaxOthers
    /\ visited \subseteq [search : Searches, room : Rooms, cap : 0..MaxCapacity]

Guests(s) == s.adults + s.infants

\* The prices of the options that are written down in the page.
OptionPrice == [pool |-> 3, lounge |-> 5]
NoOptions == [pool |-> 0, lounge |-> 0]

\* What a page has loaded, and as history the address that it was loaded for.
Loading == [state |-> "loading", of |-> {}, answer |-> {}]
Loaded(address, answer) == [state |-> "success", of |-> {address}, answer |-> answer]
Here == [search |-> search, room |-> room]

NoDeal == [state |-> "none"]

Init ==
    /\ ServiceInit(InitialContent)
    /\ view = "search" /\ search \in Searches /\ room = 0
    /\ results = Loading /\ price = Loading
    /\ counts = NoOptions /\ booking = "idle"
    /\ moves = 0 /\ others = 0 /\ visited = Earlier /\ deal = NoDeal

Unserved == UNCHANGED <<others, catalogue, faults, saved, mixed>>
Move == moves < MaxMoves /\ moves' = moves + 1

\* A load that the page does not wait for any more is as good as gone.
Loads == {"search", "days"}
Stay == [q \in Slots |-> IF jobs[q].kind \in Loads THEN Free ELSE jobs[q]]

\* A page that is left hears nothing either of its booking, which leads on all the same.
Left == [q \in Slots |-> IF jobs[q].kind = "book" THEN [jobs[q] EXCEPT !.heard = FALSE]
                         ELSE Stay[q]]

-----------------------------------------------------------------------------
\* ReservationPage and RoomSelectionPage

\* Mutant: infants are left out.
SearchAdults(s) ==
    [Request("search", 0) EXCEPT !.from = s.from, !.to = s.to, !.guests = s.adults]

SearchRooms(s) ==
    [Request("search", 0) EXCEPT !.from = s.from, !.to = s.to, !.guests = Guests(s)]

\* What the options page knows is gone when it is left.
NoStay == room' = 0 /\ price' = Loading /\ counts' = NoOptions /\ booking' = "idle"

\* The search button, or the way back from the options: the page is mounted.
OpenRooms(s) ==
    /\ \/ view = "search"
       \/ view = "options" /\ s = search
    /\ Sending({SearchRooms(s)}, Left)
    /\ view' = "rooms" /\ search' = s
    /\ results' = Loading /\ NoStay
    /\ UNCHANGED <<moves, visited, deal>> /\ Unserved

\* The history leads from one search to another: what was found is still shown.
JumpRooms(s) ==
    /\ Move
    /\ view = "rooms" /\ s # search
    /\ Sending({SearchRooms(s)}, Stay)
    /\ search' = s
    /\ UNCHANGED <<view, room, results, price, counts, booking, visited, deal>> /\ Unserved

OpenSearch ==
    /\ Move
    /\ view \in {"rooms", "options"}
    /\ Sending({}, Left)
    /\ view' = "search"
    /\ results' = Loading /\ NoStay
    /\ UNCHANGED <<search, visited, deal>> /\ Unserved

\* A failure leaves the rooms of an earlier search where they are, unseen.
RoomsFound(q) ==
    /\ jobs[q].kind = "search"
    /\ results' = IF jobs[q].step = "ok"
                  THEN Loaded(search, {[room |-> r, cap |-> jobs[q].found[r].cap] :
                                         r \in Listed(jobs[q].found)})
                  ELSE [results EXCEPT !.state = "error"]
    /\ UNCHANGED <<view, booking, price, deal>>

-----------------------------------------------------------------------------
\* ReservationOptionsPage

\* Mutant: the day of check-out is asked for too.
LoadPriceThroughCheckOut(r, s) ==
    [Request("days", r) EXCEPT !.from = s.from, !.to = s.to]

LoadPrice(r, s) == [Request("days", r) EXCEPT !.from = s.from, !.to = s.to - 1]

\* handleSelectRoom: any room that is shown, with the search of the address.
Select(found) ==
    /\ Move
    /\ view = "rooms" /\ results.state = "success" /\ found \in results.answer
    /\ Sending({LoadPrice(found.room, search)}, Left)
    /\ view' = "options" /\ room' = found.room
    /\ results' = Loading
    /\ price' = Loading /\ counts' = NoOptions /\ booking' = "idle"
    /\ visited' = visited \cup {[search |-> search, room |-> found.room,
                                 cap |-> IF results.of = {search} THEN found.cap ELSE 0]}
    /\ UNCHANGED <<search, deal>> /\ Unserved

\* The history leads to other options: counts, price and errors stay for now.
JumpOptions(v) ==
    /\ Move
    /\ view = "options" /\ <<v.search, v.room>> # <<search, room>>
    /\ Sending({LoadPrice(v.room, v.search)}, Stay)
    /\ search' = v.search /\ room' = v.room
    /\ UNCHANGED <<view, results, price, counts, booking, visited, deal>> /\ Unserved

PriceLoaded(q) ==
    /\ jobs[q].kind = "days"
    /\ price' = IF jobs[q].step = "ok" THEN Loaded(Here, jobs[q].nights)
                ELSE [price EXCEPT !.state = "error"]
    /\ UNCHANGED <<view, booking, results, deal>>

\* updateOptionCount: one more or one less, within the guests of the address.
SetCount(option, n) ==
    /\ view = "options" /\ n <= Guests(search)
    /\ counts' = [counts EXCEPT ![option] = n]
    /\ counts' # counts
    /\ UNCHANGED <<service, view, search, room, results, price, booking, moves, others,
                   visited, deal>>

\* The sum of the nights that were answered and of the page's own prices.
GrandTotal ==
    NightsTotal(room, price.answer)
      + counts.pool * OptionPrice.pool + counts.lounge * OptionPrice.lounge

\* What the summary shows as the sum of this address, if it does.
Quote == IF price.state = "success" /\ price.of = {Here} THEN {GrandTotal} ELSE {}

\* handleReserve: also before the price is there.
Reserve ==
    /\ view = "options" /\ booking # "submitting"
    /\ Sending({[Request("book", room) EXCEPT
                   !.from = search.from, !.to = search.to, !.guests = Guests(search),
                   !.pool = counts.pool, !.lounge = counts.lounge]}, jobs)
    /\ booking' = "submitting"
    /\ \E q \in Slots :
         /\ jobs'[q] # jobs[q]
         /\ deal' = [state |-> "asked", slot |-> q, amount |-> 0,
                     guests |-> Guests(search), quote |-> Quote,
                     caps |-> {v.cap : v \in {w \in visited : w.search = search /\ w.room = room}}]
    /\ UNCHANGED <<view, search, room, results, price, counts, moves, visited>> /\ Unserved

\* History: deal is about this request.
Asked(q) == deal.state = "asked" /\ deal.slot = q

\* The reservation's page is opened, wherever the tab is by then.
Booked(q) ==
    /\ jobs[q].kind = "book"
    /\ IF jobs[q].step = "ok"
       THEN /\ view' = "booked" /\ UNCHANGED booking
            /\ deal' = IF Asked(q) THEN [deal EXCEPT !.state = "booked", !.amount = jobs[q].amount]
                       ELSE deal
       ELSE /\ booking' = IF jobs[q].heard THEN "error" ELSE booking
            /\ deal' = IF Asked(q) THEN NoDeal ELSE deal
            /\ UNCHANGED view
    /\ UNCHANGED <<results, price>>

-----------------------------------------------------------------------------

Answered(q) ==
    /\ jobs[q].kind # "none" /\ jobs[q].step \in Ends
    /\ RoomsFound(q) \/ PriceLoaded(q) \/ Booked(q)
    /\ jobs' = [jobs EXCEPT ![q] = Free]
    /\ UNCHANGED <<search, room, counts, moves, visited, calls>> /\ Unserved

Other(request) ==
    /\ others < MaxOthers /\ others' = others + 1
    /\ Elsewhere(request)
    /\ UNCHANGED <<view, search, room, results, price, counts, booking, moves, visited, deal>>

\* What becomes of the others' requests when something fails is not followed here.
FaultHere(q) == jobs[q] # Free /\ jobs[q].page /\ Fault(q)

Next ==
    \/ \E s \in Searches : OpenRooms(s) \/ JumpRooms(s)
    \/ OpenSearch \/ Reserve
    \/ \E found \in results.answer : Select(found)
    \/ \E v \in visited : JumpOptions(v)
    \/ \E option \in {"pool", "lounge"} :
         \/ SetCount(option, counts[option] + 1)
         \/ counts[option] > 0 /\ SetCount(option, counts[option] - 1)
    \/ \E r \in OtherRooms :
         \/ Other(Request("delete", r))
         \/ \E c \in OtherContents : Other([Request("update", r) EXCEPT !.body = c])
         \/ \E s \in Searches : Other([Request("book", r) EXCEPT !.from = s.from, !.to = s.to])
    \/ \E q \in Slots : Answered(q) \/ ((Serve(q) \/ FaultHere(q)) /\ UNCHANGED page)

Spec == Init /\ [][Next]_vars

-----------------------------------------------------------------------------

\* What a guest is charged is what the page showed when the reservation was asked
\* for, the options included: the page adds up its own prices of them and the
\* nights that one service has answered, the amount comes from another service's
\* sums.  The one exception is a page whose price is not there yet, or is still
\* that of another address.
QuoteIsCharge ==
    deal.state = "booked" => \A total \in deal.quote : deal.amount = total

\* The room that is booked held the guests, infants included, when it was found:
\* neither createBooking nor the calendar asks.  The one exception is a room that
\* was chosen from the rooms of another search.
BookedRoomFits ==
    deal.state = "booked" => \A cap \in deal.caps : cap = 0 \/ deal.guests <= cap
=============================================================================
