------------------------- MODULE GuestQuotesProofs -------------------------
(***************************************************************************)
(* For any number of rooms, nights, guests, searches and requests: a guest *)
(* is charged what the page showed, and the room that is booked holds the  *)
(* guests.                                                                 *)
(***************************************************************************)
EXTENDS GuestQuotes, TLAPS

-----------------------------------------------------------------------------
\* The inductive invariant

\* A request has these fields; what is in them the arguments below say.
Fields == {"kind", "room", "body", "from", "to", "guests", "pool", "lounge", "step",
           "found", "nights", "amount", "page", "heard", "alone"}
Shape(job) == job = [f \in Fields |-> job[f]]

LoadFields == {"state", "of", "answer"}
DealFields == {"state", "slot", "amount", "guests", "quote", "caps"}

\* The variables that the arguments look into.
Shapes ==
    /\ jobs = [q \in Slots |-> jobs[q]]
    /\ \A q \in Slots : jobs[q] = Free \/ (Shape(jobs[q]) /\ jobs[q].kind # "none")
    /\ days \in [Rooms -> [Nights -> {"none", "open", "taken"}]]
    /\ results = [f \in LoadFields |-> results[f]] /\ price = [f \in LoadFields |-> price[f]]

\* The nights of stay that were answered, when those that are missing have no row and
\* so cannot be booked any more.
Partial(r, stay, answered) ==
    /\ r \in Rooms /\ answered \subseteq stay
    /\ \A n \in stay \ answered : n \notin Nights \/ days[r][n] = "none"

Fits(cap, guests) == cap = 0 \/ guests <= cap

\* A load that is waited for is of the address that the page has.
LoadFacts ==
    \A q \in Slots :
        /\ jobs[q].kind = "days" =>
             /\ jobs[q].room = room /\ jobs[q].from = search.from /\ jobs[q].to = search.to - 1
             /\ jobs[q].step = "ok" =>
                  Partial(room, search.from .. (search.to - 1), jobs[q].nights)
        /\ jobs[q].kind = "search" =>
             /\ jobs[q].guests = Guests(search)
             /\ jobs[q].step \in {"rows", "ok"} =>
                  \A r \in Rooms : Fits(jobs[q].found[r].cap, jobs[q].guests)

\* What a page shows is of the address that it was loaded for.
ShownFacts ==
    /\ \A found \in results.answer : found.room \in Rooms
    /\ \A s \in results.of, found \in results.answer : Fits(found.cap, Guests(s))
    /\ \A v \in visited : Fits(v.cap, Guests(v.search))
    /\ \A here \in price.of :
         Partial(here.room, here.search.from .. (here.search.to - 1), price.answer)

StayOf(job) == job.from .. (job.to - 1)
Sum(r, nights, pool, lounge) ==
    NightsTotal(r, nights) + pool * FacilityPrice.pool + lounge * FacilityPrice.lounge

\* A quote is the sum of some nights of the stay until the nights are booked, and
\* of all of them from then on.
Quoted(total, r, stay, pool, lounge) ==
    \E answered \in SUBSET stay :
        Partial(r, stay, answered) /\ total = Sum(r, answered, pool, lounge)

DealOf(q) ==
    /\ jobs[q].kind = "book" /\ jobs[q].page = TRUE
    /\ \A total \in deal.quote :
         /\ jobs[q].step = "find" =>
              Quoted(total, jobs[q].room, StayOf(jobs[q]), jobs[q].pool, jobs[q].lounge)
         /\ jobs[q].step = "facilities" =>
              total = Sum(jobs[q].room, StayOf(jobs[q]), jobs[q].pool, jobs[q].lounge)
         /\ jobs[q].step = "ok" => jobs[q].amount = total

DealFacts ==
    /\ deal.state = "asked" =>
         /\ deal = [f \in DealFields |-> deal[f]]
         /\ deal.slot \in Slots
         /\ DealOf(deal.slot)
    /\ deal.state # "none" => \A cap \in deal.caps : Fits(cap, deal.guests)
    /\ QuoteIsCharge

IInv == Shapes /\ LoadFacts /\ ShownFacts /\ DealFacts

-----------------------------------------------------------------------------
\* Requests

\* What the invariant knows of a request.
Alike(j, k) ==
    /\ k.kind = j.kind /\ k.room = j.room /\ k.from = j.from /\ k.to = j.to
    /\ k.guests = j.guests /\ k.pool = j.pool /\ k.lounge = j.lounge /\ k.page = j.page

SameAnswer(j, k) ==
    k.step = j.step /\ k.found = j.found /\ k.nights = j.nights /\ k.amount = j.amount

LEMMA RequestIs ==
    ASSUME NEW kind, NEW r
    PROVE  LET a == Request(kind, r) IN
           /\ Shape(a) /\ a.kind = kind /\ a.room = r /\ a.step = "find" /\ a.page = TRUE
BY DEF Request, Shape, Fields

LEMMA Updated ==
    ASSUME NEW j, Shape(j), NEW x, NEW y, NEW z
    PROVE  /\ LET k == [j EXCEPT !.step = x] IN
                Shape(k) /\ Alike(j, k) /\ k.step = x
                /\ k.found = j.found /\ k.nights = j.nights /\ k.amount = j.amount
           /\ LET k == [j EXCEPT !.step = x, !.found = y] IN
                Shape(k) /\ Alike(j, k) /\ k.step = x /\ k.found = y
                /\ k.nights = j.nights /\ k.amount = j.amount
           /\ LET k == [j EXCEPT !.step = x, !.nights = y] IN
                Shape(k) /\ Alike(j, k) /\ k.step = x /\ k.nights = y
                /\ k.found = j.found /\ k.amount = j.amount
           /\ LET k == [j EXCEPT !.step = x, !.amount = y] IN
                Shape(k) /\ Alike(j, k) /\ k.step = x /\ k.amount = y
                /\ k.found = j.found /\ k.nights = j.nights
           /\ LET k == [j EXCEPT !.alone = x] IN
                Shape(k) /\ Alike(j, k) /\ SameAnswer(j, k)
           /\ LET k == [j EXCEPT !.room = x, !.step = y, !.alone = z] IN
                Shape(k) /\ k.kind = j.kind /\ k.page = j.page
BY DEF Shape, Fields, Alike, SameAnswer

-----------------------------------------------------------------------------
\* Requests are sent

LEMMA SendsOne ==
    ASSUME NEW a, NEW before, Sending({a}, before)
    PROVE  \E q \in Slots : /\ before[q] = Free
                            /\ jobs' = [s \in Slots |-> IF s = q THEN a ELSE before[s]]
<1>1. PICK place \in [{a} -> {q \in Slots : before[q] = Free}] :
         jobs' = [s \in Slots |-> IF \E b \in {a} : place[b] = s
                                  THEN CHOOSE b \in {a} : place[b] = s ELSE before[s]]
  BY DEF Sending
<1>2. PICK q \in Slots : q = place[a] /\ before[q] = Free
  BY <1>1
<1>3. ASSUME NEW s \in Slots
      PROVE  (IF \E b \in {a} : place[b] = s THEN CHOOSE b \in {a} : place[b] = s ELSE before[s])
               = IF s = q THEN a ELSE before[s]
  BY <1>2
<1>4. jobs' = [s \in Slots |-> IF s = q THEN a ELSE before[s]]
  BY <1>1, <1>3
<1>5. QED
  BY <1>2, <1>4

LEMMA SendsNone ==
    ASSUME NEW before, Sending({}, before)
    PROVE  jobs' = [s \in Slots |-> before[s]]
BY DEF Sending

\* What a page that goes elsewhere makes of the requests: loads are given up, bookings
\* are not.
Carries(before) ==
    \A s \in Slots :
        /\ before[s] # Free =>
             /\ jobs[s] # Free /\ Shape(before[s])
             /\ Alike(jobs[s], before[s]) /\ SameAnswer(jobs[s], before[s])
             /\ before[s].kind \in Loads => search' = search /\ room' = room
        /\ jobs[s].kind = "book" => before[s] # Free

LEMMA JobIs ==
    ASSUME Shapes, NEW q \in Slots
    PROVE  /\ jobs[q] # Free <=> jobs[q].kind # "none"
           /\ jobs[q] # Free => Shape(jobs[q])
BY DEF Shapes, Free

LEMMA AllCarry ==
    ASSUME Shapes
    PROVE  /\ Carries(Left) /\ Carries(Stay)
           /\ search' = search /\ room' = room => Carries(jobs)
<1>1. ASSUME NEW s \in Slots, jobs[s] # Free
      PROVE  Shape(jobs[s]) /\ Alike(jobs[s], jobs[s]) /\ SameAnswer(jobs[s], jobs[s])
  BY <1>1, JobIs DEF Alike, SameAnswer
<1>2. search' = search /\ room' = room => Carries(jobs)
  BY <1>1, JobIs DEF Carries, Free
<1>3. Carries(Stay)
  BY <1>1, JobIs DEF Carries, Stay, Loads, Free
<1>4. ASSUME NEW s \in Slots
      PROVE  /\ Left[s] # Free =>
                 /\ jobs[s] # Free /\ Shape(Left[s])
                 /\ Alike(jobs[s], Left[s]) /\ SameAnswer(jobs[s], Left[s])
                 /\ Left[s].kind \notin Loads
             /\ jobs[s].kind = "book" => Left[s] # Free
  <2>1. CASE jobs[s].kind = "book"
    <3>1. Left[s] = [jobs[s] EXCEPT !.heard = FALSE] /\ jobs[s] # Free /\ Shape(jobs[s])
      BY <2>1, JobIs DEF Left, Free
    <3>2. Shape(Left[s]) /\ Alike(jobs[s], Left[s]) /\ SameAnswer(jobs[s], Left[s])
      BY <3>1 DEF Shape, Fields, Alike, SameAnswer
    <3>3. Left[s].kind = "book"
      BY <2>1, <3>2 DEF Alike
    <3>4. QED
      BY <3>1, <3>2, <3>3 DEF Free, Loads
  <2>2. CASE jobs[s].kind # "book"
    <3>1. Left[s] = IF jobs[s].kind \in Loads THEN Free ELSE jobs[s]
      BY <2>2 DEF Left, Stay
    <3>2. CASE jobs[s].kind \in Loads
      BY <2>2, <3>1, <3>2
    <3>3. CASE jobs[s].kind \notin Loads
      <4>1. Left[s] = jobs[s]
        BY <3>1, <3>3
      <4>2. QED
        BY <1>1, <2>2, <3>3, <4>1
    <3>4. QED
      BY <3>2, <3>3
  <2>3. QED
    BY <2>1, <2>2
<1>5. Carries(Left)
  BY <1>4 DEF Carries
<1>6. QED
  BY <1>2, <1>3, <1>5

\* A request that the page has just sent.
LoadOfAddress(a) ==
    /\ Shape(a) /\ a.kind # "none" /\ a.step = "find"
    /\ a.kind = "days" => a.room = room' /\ a.from = search'.from /\ a.to = search'.to - 1
    /\ a.kind = "search" => a.guests = Guests(search')

LEMMA CarriedAreKnown ==
    ASSUME Shapes, LoadFacts, NEW before, Carries(before), days' = days,
           NEW s \in Slots, before[s] # Free
    PROVE  /\ Shape(before[s]) /\ before[s].kind # "none"
           /\ before[s].kind = "days" =>
                /\ before[s].room = room' /\ before[s].from = search'.from
                /\ before[s].to = search'.to - 1
                /\ before[s].step = "ok" =>
                     Partial(room, search.from .. (search.to - 1), before[s].nights)'
           /\ before[s].kind = "search" =>
                /\ before[s].guests = Guests(search')
                /\ before[s].step \in {"rows", "ok"} =>
                     \A r \in Rooms : Fits(before[s].found[r].cap, before[s].guests)
<1>1. /\ jobs[s] # Free /\ Shape(before[s])
      /\ Alike(jobs[s], before[s]) /\ SameAnswer(jobs[s], before[s])
      /\ before[s].kind \in Loads => search' = search /\ room' = room
  BY DEF Carries
<1>2. before[s].kind = jobs[s].kind /\ before[s].kind # "none"
  BY <1>1, JobIs DEF Alike
<1>3. CASE before[s].kind = "days"
  BY <1>1, <1>2, <1>3 DEF LoadFacts, Loads, Alike, SameAnswer, Partial
<1>4. CASE before[s].kind = "search"
  BY <1>1, <1>2, <1>4 DEF LoadFacts, Loads, Alike, SameAnswer, Guests
<1>5. QED
  BY <1>1, <1>2, <1>3, <1>4

LEMMA DealStays ==
    ASSUME DealFacts, deal' = deal, NEW q \in Slots, deal.slot = q, deal.state = "asked", DealOf(q)'
    PROVE  DealFacts'
BY DEF DealFacts, QuoteIsCharge

\* Nights without a row have none later either.
NoneStays ==
    \A r \in Rooms, n \in Nights : days[r][n] = "none" => days'[r][n] = "none"

LEMMA PartialStays ==
    ASSUME NoneStays, NEW r, NEW stay, NEW answered, Partial(r, stay, answered)
    PROVE  Partial(r, stay, answered)'
BY DEF NoneStays, Partial

LEMMA SameJobSameDeal ==
    ASSUME DealFacts, deal' = deal, NoneStays, NEW q \in Slots, deal.slot = q,
           deal.state = "asked", Alike(jobs[q], jobs'[q]), SameAnswer(jobs[q], jobs'[q])
    PROVE  DealFacts'
<1>1. DealOf(q)
  BY DEF DealFacts
<1>2. /\ jobs'[q].kind = jobs[q].kind /\ jobs'[q].page = jobs[q].page
      /\ jobs'[q].step = jobs[q].step /\ jobs'[q].amount = jobs[q].amount
      /\ jobs'[q].room = jobs[q].room /\ jobs'[q].from = jobs[q].from /\ jobs'[q].to = jobs[q].to
      /\ jobs'[q].pool = jobs[q].pool /\ jobs'[q].lounge = jobs[q].lounge
  BY DEF Alike, SameAnswer
<1>3. PICK r, stay, p, l : /\ r = jobs[q].room /\ stay = StayOf(jobs[q])
                           /\ p = jobs[q].pool /\ l = jobs[q].lounge
  OBVIOUS
<1>4. /\ r = jobs'[q].room /\ stay = StayOf(jobs'[q])
      /\ p = jobs'[q].pool /\ l = jobs'[q].lounge
  BY <1>2, <1>3 DEF StayOf
<1>5. ASSUME NEW total, Quoted(total, r, stay, p, l) PROVE Quoted(total, r, stay, p, l)'
  <2>1. PICK answered \in SUBSET stay : Partial(r, stay, answered) /\ total = Sum(r, answered, p, l)
    BY <1>5 DEF Quoted
  <2>2. Partial(r, stay, answered)'
    BY <2>1, PartialStays
  <2>3. QED
    BY <2>1, <2>2 DEF Quoted
<1>6. \A total \in deal.quote :
         /\ jobs'[q].step = "find" => Quoted(total, r, stay, p, l)'
         /\ jobs'[q].step = "facilities" => total = Sum(r, stay, p, l)
         /\ jobs'[q].step = "ok" => jobs'[q].amount = total
  BY <1>1, <1>2, <1>3, <1>5 DEF DealOf
<1>7. DealOf(q)'
  BY <1>1, <1>2, <1>4, <1>6 DEF DealOf, Quoted, Partial
<1>8. QED
  BY <1>7, DealStays

JobsShaped ==
    /\ jobs = [q \in Slots |-> jobs[q]]
    /\ \A q \in Slots : jobs[q] = Free \/ (Shape(jobs[q]) /\ jobs[q].kind # "none")

\* Whatever a page sends, what it knows of its requests holds for the address it has then.
LEMMA SendingKeeps ==
    ASSUME Shapes, LoadFacts, DealFacts, NEW before, Carries(before), days' = days,
           \/ Sending({}, before)
           \/ \E a : LoadOfAddress(a) /\ Sending({a}, before)
    PROVE  JobsShaped' /\ LoadFacts' /\ (deal' = deal => DealFacts')
<1>1. PICK new \in SUBSET Slots :
        /\ jobs' = [s \in Slots |-> jobs'[s]]
        /\ \A s \in Slots \ new : jobs'[s] = before[s]
        /\ \A s \in new : before[s] = Free /\ LoadOfAddress(jobs'[s])
  <2>1. CASE Sending({}, before)
    <3>1. jobs' = [s \in Slots |-> before[s]]
      BY <2>1, SendsNone
    <3>2. WITNESS {} \in SUBSET Slots
    <3>3. QED
      BY <3>1
  <2>2. ASSUME NEW a, LoadOfAddress(a), Sending({a}, before)
        PROVE  \E new \in SUBSET Slots :
                  /\ jobs' = [s \in Slots |-> jobs'[s]]
                  /\ \A s \in Slots \ new : jobs'[s] = before[s]
                  /\ \A s \in new : before[s] = Free /\ LoadOfAddress(jobs'[s])
    <3>1. PICK q \in Slots : /\ before[q] = Free
                             /\ jobs' = [s \in Slots |-> IF s = q THEN a ELSE before[s]]
      BY <2>2, SendsOne
    <3>2. WITNESS {q} \in SUBSET Slots
    <3>3. /\ jobs' = [s \in Slots |-> jobs'[s]] /\ jobs'[q] = a
          /\ \A s \in Slots \ {q} : jobs'[s] = before[s]
      BY <3>1
    <3>4. QED
      BY <2>2, <3>1, <3>3
  <2>3. QED
    BY <2>1, <2>2
<1>2. ASSUME NEW s \in Slots \ new, before[s] # Free
      PROVE  /\ Shape(jobs'[s]) /\ jobs'[s].kind # "none"
             /\ jobs'[s].kind = "days" =>
                  /\ jobs'[s].room = room' /\ jobs'[s].from = search'.from
                  /\ jobs'[s].to = search'.to - 1
                  /\ jobs'[s].step = "ok" =>
                       Partial(room, search.from .. (search.to - 1), jobs[s].nights)'
             /\ jobs'[s].kind = "search" =>
                  /\ jobs'[s].guests = Guests(search')
                  /\ jobs'[s].step \in {"rows", "ok"} =>
                       \A r \in Rooms : Fits(jobs'[s].found[r].cap, jobs'[s].guests)
  <2>1. jobs'[s] = before[s] /\ s \in Slots
    BY <1>1, <1>2
  <2>2. PICK j : j = before[s]
    OBVIOUS
  <2>3. /\ Shape(j) /\ j.kind # "none"
        /\ j.kind = "days" =>
                /\ j.room = room' /\ j.from = search'.from /\ j.to = search'.to - 1
                /\ j.step = "ok" => Partial(room, search.from .. (search.to - 1), j.nights)'
        /\ j.kind = "search" =>
                /\ j.guests = Guests(search')
                /\ j.step \in {"rows", "ok"} => \A r \in Rooms : Fits(j.found[r].cap, j.guests)
    BY <1>2, <2>1, <2>2, CarriedAreKnown DEF Partial
  <2>4. QED
    BY <2>1, <2>2, <2>3 DEF Partial
<1>3. ASSUME NEW s \in new
      PROVE  /\ Shape(jobs'[s]) /\ jobs'[s].kind # "none" /\ jobs'[s].step = "find"
             /\ jobs'[s].kind = "days" =>
                  /\ jobs'[s].room = room' /\ jobs'[s].from = search'.from
                  /\ jobs'[s].to = search'.to - 1
             /\ jobs'[s].kind = "search" => jobs'[s].guests = Guests(search')
  BY <1>1 DEF LoadOfAddress
<1>4. JobsShaped'
  <2>1. \A q \in Slots : jobs'[q] = Free \/ (Shape(jobs'[q]) /\ jobs'[q].kind # "none")
    BY <1>1, <1>2, <1>3
  <2>2. QED
    BY <1>1, <2>1 DEF JobsShaped
<1>5. LoadFacts'
  <2>1. ASSUME NEW q \in Slots
        PROVE  /\ jobs'[q].kind = "days" =>
                    /\ jobs'[q].room = room' /\ jobs'[q].from = search'.from
                    /\ jobs'[q].to = search'.to - 1
                    /\ jobs'[q].step = "ok" =>
                         Partial(room, search.from .. (search.to - 1), jobs[q].nights)'
               /\ jobs'[q].kind = "search" =>
                    /\ jobs'[q].guests = Guests(search')
                    /\ jobs'[q].step \in {"rows", "ok"} =>
                         \A r \in Rooms : Fits(jobs'[q].found[r].cap, jobs'[q].guests)
    <3>1. CASE q \in new
      BY <1>3, <3>1
    <3>2. CASE q \notin new /\ before[q] # Free
      BY <1>2, <3>2
    <3>3. CASE q \notin new /\ before[q] = Free
      <4>1. jobs'[q] = Free
        BY <1>1, <3>3
      <4>2. QED
        BY <4>1 DEF Free
    <3>4. QED
      BY <3>1, <3>2, <3>3
  <2>2. QED
    BY <2>1 DEF LoadFacts, Guests
<1>6. ASSUME deal' = deal PROVE DealFacts'
  <2>1. CASE deal.state = "asked"
    <3>1. PICK q \in Slots : q = deal.slot /\ jobs[q].kind = "book"
      BY <2>1 DEF DealFacts, DealOf
    <3>2. before[q] # Free /\ Alike(jobs[q], before[q]) /\ SameAnswer(jobs[q], before[q])
      BY <3>1 DEF Carries
    <3>3. jobs'[q] = before[q]
      BY <1>1, <3>2
    <3>4. NoneStays
      BY DEF NoneStays
    <3>5. QED
      BY <1>6, <2>1, <3>1, <3>2, <3>3, <3>4, SameJobSameDeal
  <2>2. CASE deal.state # "asked"
    BY <1>6, <2>2 DEF DealFacts, QuoteIsCharge
  <2>3. QED
    BY <2>1, <2>2
<1>7. QED
  BY <1>4, <1>5, <1>6

-----------------------------------------------------------------------------
\* Requests are served

OthersStay(q) ==
    /\ jobs' = [s \in Slots |-> jobs'[s]]
    /\ \A s \in Slots \ {q} :
         /\ jobs[s] = Free => jobs'[s] = Free
         /\ jobs[s] # Free => /\ Shape(jobs'[s]) /\ Alike(jobs[s], jobs'[s])
                              /\ SameAnswer(jobs[s], jobs'[s])

LEMMA OneChanges ==
    ASSUME Shapes, NEW q \in Slots, NEW x, jobs' = [jobs EXCEPT ![q] = x]
    PROVE  OthersStay(q) /\ jobs'[q] = x
<1>1. jobs = [s \in Slots |-> jobs[s]]
  BY DEF Shapes
<1>2. /\ jobs' = [s \in Slots |-> jobs'[s]] /\ jobs'[q] = x
      /\ \A s \in Slots \ {q} : jobs'[s] = jobs[s]
  BY <1>1
<1>3. \A s \in Slots \ {q} : jobs[s] # Free => Shape(jobs[s])
  BY JobIs
<1>4. QED
  BY <1>2, <1>3 DEF OthersStay, Alike, SameAnswer

LEMMA BecomesIs ==
    ASSUME Shapes, NEW q \in Slots, jobs[q] # Free, NEW step, Becomes(q, step)
    PROVE  /\ OthersStay(q)
           /\ \/ step \in Ends /\ jobs[q].page # TRUE /\ jobs'[q] = Free
              \/ /\ Shape(jobs'[q]) /\ Alike(jobs[q], jobs'[q]) /\ jobs'[q].step = step
                 /\ jobs'[q].found = jobs[q].found /\ jobs'[q].nights = jobs[q].nights
                 /\ jobs'[q].amount = jobs[q].amount
<1>1. jobs = [s \in Slots |-> jobs[s]] /\ Shape(jobs[q])
  BY JobIs DEF Shapes
<1>2. CASE step \in Ends /\ ~jobs[q].page
  <2>1. jobs' = [jobs EXCEPT ![q] = Free]
    BY <1>1, <1>2 DEF Becomes
  <2>2. QED
    BY <1>2, <2>1, OneChanges
<1>3. CASE ~(step \in Ends /\ ~jobs[q].page)
  <2>1. jobs' = [jobs EXCEPT ![q] = [jobs[q] EXCEPT !.step = step]]
    BY <1>1, <1>3 DEF Becomes
  <2>2. OthersStay(q) /\ jobs'[q] = [jobs[q] EXCEPT !.step = step]
    BY <2>1, OneChanges
  <2>3. QED
    BY <1>1, <2>2 DEF Shape, Fields, Alike
<1>4. QED
  BY <1>2, <1>3

LEMMA BeginIs ==
    ASSUME Shapes, NEW q \in Slots, jobs[q] # Free, NEW r, NEW step, Begin(q, r, step)
    PROVE  OthersStay(q) /\ Shape(jobs'[q]) /\ jobs'[q].kind = jobs[q].kind
<1>1. jobs' = [s \in Slots |->
          IF s = q THEN [jobs[q] EXCEPT !.room = r, !.step = step, !.alone = (Midway(r) = {})]
          ELSE IF s \in Midway(r) THEN [jobs[s] EXCEPT !.alone = FALSE] ELSE jobs[s]]
  BY DEF Begin
<1>2. \A s \in Slots : jobs[s] # Free => Shape(jobs[s])
  BY JobIs
<1>3. jobs'[q] = [jobs[q] EXCEPT !.room = r, !.step = step, !.alone = (Midway(r) = {})]
  BY <1>1
<1>4. Shape(jobs'[q]) /\ jobs'[q].kind = jobs[q].kind
  BY <1>2, <1>3 DEF Shape, Fields
<1>5. ASSUME NEW s \in Slots \ {q}
      PROVE  /\ jobs[s] = Free => jobs'[s] = Free
             /\ jobs[s] # Free => /\ Shape(jobs'[s]) /\ Alike(jobs[s], jobs'[s])
                                  /\ SameAnswer(jobs[s], jobs'[s])
  <2>1. CASE s \in Midway(r)
    <3>1. jobs'[s] = [jobs[s] EXCEPT !.alone = FALSE] /\ jobs[s].kind \in Writes
      BY <1>1, <2>1 DEF Midway
    <3>2. jobs[s] # Free
      BY <3>1 DEF Free, Writes
    <3>3. QED
      BY <1>2, <3>1, <3>2 DEF Shape, Fields, Alike, SameAnswer
  <2>2. CASE s \notin Midway(r)
    <3>1. jobs'[s] = jobs[s]
      BY <1>1, <2>2
    <3>2. QED
      BY <1>2, <3>1 DEF Alike, SameAnswer
  <2>3. QED
    BY <2>1, <2>2
<1>6. jobs' = [s \in Slots |-> jobs'[s]]
  BY <1>1
<1>7. QED
  BY <1>4, <1>5, <1>6 DEF OthersStay

\* A write of a room is none of the guest's requests.
WriteGoesOn(q) ==
    /\ OthersStay(q)
    /\ jobs[q].kind \in Writes /\ jobs[q] # Free
    /\ jobs'[q] = Free \/ (Shape(jobs'[q]) /\ jobs'[q].kind = jobs[q].kind)

LEMMA WritesAreServed ==
    ASSUME Shapes, NEW q \in Slots, CreateRoom(q) \/ UpdateRoom(q) \/ DeleteRoom(q)
    PROVE  /\ WriteGoesOn(q) /\ NoneStays
           /\ days' \in [Rooms -> [Nights -> {"none", "open", "taken"}]]
<1>1. jobs[q].kind \in Writes /\ jobs[q] # Free
  BY DEF CreateRoom, UpdateRoom, DeleteRoom, Writes, Free
<1>2. days \in [Rooms -> [Nights -> {"none", "open", "taken"}]]
  BY DEF Shapes
<1>3. days' = days \/ days' = [days EXCEPT ![jobs[q].room] = [n \in Nights |-> "none"]]
  BY DEF CreateRoom, UpdateRoom, DeleteRoom, ReplaceRoomImages, catalogue
<1>4. NoneStays /\ days' \in [Rooms -> [Nights -> {"none", "open", "taken"}]]
  <2>1. CASE days' = days
    BY <1>2, <2>1 DEF NoneStays
  <2>2. CASE days' = [days EXCEPT ![jobs[q].room] = [n \in Nights |-> "none"]]
    <3>1. [n \in Nights |-> "none"] \in [Nights -> {"none", "open", "taken"}]
      OBVIOUS
    <3>2. QED
      BY <1>2, <2>2, <3>1 DEF NoneStays
  <2>3. QED
    BY <1>3, <2>1, <2>2
<1>5. \/ \E r, step : Begin(q, r, step)
      \/ \E step : Becomes(q, step)
  <2>1. CASE ReplaceRoomImages(q)
    BY <2>1 DEF ReplaceRoomImages, End
  <2>2. CASE CreateRoom(q) /\ ~ReplaceRoomImages(q)
    BY <2>2 DEF CreateRoom
  <2>3. CASE UpdateRoom(q) /\ ~ReplaceRoomImages(q)
    BY <2>3 DEF UpdateRoom
  <2>4. CASE DeleteRoom(q)
    BY <2>4 DEF DeleteRoom, End
  <2>5. QED
    BY <2>1, <2>2, <2>3, <2>4
<1>6. CASE \E r, step : Begin(q, r, step)
  BY <1>1, <1>4, <1>6, BeginIs DEF WriteGoesOn
<1>7. CASE \E step : Becomes(q, step)
  BY <1>1, <1>4, <1>7, BecomesIs DEF WriteGoesOn, Alike
<1>8. QED
  BY <1>5, <1>6, <1>7

\* The arguments of a guest's request that is served step by step, and what each step adds.
Served(q) ==
    /\ Shape(jobs'[q]) /\ jobs'[q].kind = jobs[q].kind
    /\ jobs[q].kind \in Loads \cup {"book"} => Alike(jobs[q], jobs'[q])
    /\ jobs[q].kind = "days" /\ jobs'[q].step = "ok" =>
         \A r, stay : r = jobs[q].room /\ stay = jobs[q].from .. jobs[q].to =>
                        Partial(r, stay, jobs[q].nights)'
    /\ jobs[q].kind = "search" /\ jobs'[q].step \in {"rows", "ok"} =>
         \A r \in Rooms : Fits(jobs'[q].found[r].cap, jobs[q].guests)
    /\ jobs[q].kind = "book" /\ jobs[q].page = TRUE =>
         /\ jobs'[q].step # "find"
         /\ jobs'[q].step = "facilities" =>
              /\ jobs[q].step = "find"
              /\ \A n \in StayOf(jobs[q]) : n \in Nights /\ days[jobs[q].room][n] # "none"
         /\ jobs'[q].step = "ok" =>
              /\ jobs[q].step = "facilities"
              /\ jobs'[q].amount = Sum(jobs[q].room, StayOf(jobs[q]), jobs[q].pool, jobs[q].lounge)

LEMMA ServedDeal ==
    ASSUME DealFacts, deal' = deal, NEW q \in Slots, deal.slot = q, deal.state = "asked", Served(q)
    PROVE  DealFacts'
<1>1. DealOf(q)
  BY DEF DealFacts
<1>2. PICK r, stay, p, l : /\ r = jobs[q].room /\ stay = StayOf(jobs[q])
                           /\ p = jobs[q].pool /\ l = jobs[q].lounge
  OBVIOUS
<1>3. Alike(jobs[q], jobs'[q])
  BY <1>1 DEF DealOf, Served
<1>4. /\ jobs'[q].kind = "book" /\ jobs'[q].page = TRUE
      /\ r = jobs'[q].room /\ stay = StayOf(jobs'[q])
      /\ p = jobs'[q].pool /\ l = jobs'[q].lounge
  BY <1>1, <1>2, <1>3 DEF DealOf, Alike, StayOf
<1>5. /\ jobs'[q].step # "find"
      /\ jobs'[q].step = "facilities" =>
           jobs[q].step = "find" /\ \A n \in stay : n \in Nights /\ days[r][n] # "none"
      /\ jobs'[q].step = "ok" =>
           jobs[q].step = "facilities" /\ jobs'[q].amount = Sum(r, stay, p, l)
  BY <1>1, <1>2 DEF DealOf, Served
<1>6. ASSUME NEW total \in deal.quote
      PROVE  /\ jobs'[q].step = "facilities" => total = Sum(r, stay, p, l)
             /\ jobs'[q].step = "ok" => jobs'[q].amount = total
  <2>1. CASE jobs'[q].step = "facilities"
    <3>1. Quoted(total, r, stay, p, l)
      BY <1>1, <1>2, <1>5, <1>6, <2>1 DEF DealOf
    <3>2. PICK answered \in SUBSET stay :
             Partial(r, stay, answered) /\ total = Sum(r, answered, p, l)
      BY <3>1 DEF Quoted
    <3>3. answered = stay
      BY <1>5, <2>1, <3>2 DEF Partial
    <3>4. QED
      BY <2>1, <3>2, <3>3
  <2>2. CASE jobs'[q].step = "ok"
    <3>1. total = Sum(r, stay, p, l)
      BY <1>1, <1>2, <1>5, <1>6, <2>2 DEF DealOf
    <3>2. QED
      BY <1>5, <2>2, <3>1
  <2>3. QED
    BY <2>1, <2>2
<1>7. DealOf(q)'
  BY <1>4, <1>5, <1>6 DEF DealOf, Sum
<1>8. QED
  BY <1>7, DealStays

\* One request goes on, or nothing is known of it: the page and the others stay as they are.
LEMMA OneServed ==
    ASSUME IInv, NEW q \in Slots, UNCHANGED page, OthersStay(q), NoneStays,
           days' \in [Rooms -> [Nights -> {"none", "open", "taken"}]],
           jobs[q] # Free,
           \/ jobs'[q] = Free /\ ~(jobs[q].kind = "book" /\ jobs[q].page = TRUE)
           \/ Served(q)
    PROVE  IInv'
<1> USE DEF IInv
<1>1. UNCHANGED <<search, room, results, price, visited, deal>>
  BY DEF page
<1>2. Shapes'
  <2>1. \A s \in Slots : jobs'[s] = Free \/ (Shape(jobs'[s]) /\ jobs'[s].kind # "none")
    <3>1. ASSUME NEW s \in Slots \ {q}
          PROVE  jobs'[s] = Free \/ (Shape(jobs'[s]) /\ jobs'[s].kind # "none")
      BY <3>1, JobIs DEF OthersStay, Alike
    <3>2. jobs'[q] = Free \/ (Shape(jobs'[q]) /\ jobs'[q].kind # "none")
      BY JobIs DEF Served
    <3>3. QED
      BY <3>1, <3>2
  <2>2. jobs' = [s \in Slots |-> jobs'[s]]
    BY DEF OthersStay
  <2>3. QED
    BY <1>1, <2>1, <2>2 DEF Shapes
<1>3. LoadFacts'
  <2>1. ASSUME NEW s \in Slots
        PROVE  /\ jobs'[s].kind = "days" =>
                    /\ jobs'[s].room = room /\ jobs'[s].from = search.from
                    /\ jobs'[s].to = search.to - 1
                    /\ jobs'[s].step = "ok" =>
                         Partial(room, search.from .. (search.to - 1), jobs[s].nights)'
               /\ jobs'[s].kind = "search" =>
                    /\ jobs'[s].guests = Guests(search)
                    /\ jobs'[s].step \in {"rows", "ok"} =>
                         \A r \in Rooms : Fits(jobs'[s].found[r].cap, jobs'[s].guests)
    <3>1. CASE s # q /\ jobs[s] # Free
      <4>1. Alike(jobs[s], jobs'[s]) /\ SameAnswer(jobs[s], jobs'[s])
        BY <3>1 DEF OthersStay
      <4>2. CASE jobs'[s].kind = "days"
        <5>1. /\ jobs'[s].room = room /\ jobs'[s].from = search.from
              /\ jobs'[s].to = search.to - 1
              /\ jobs'[s].nights = jobs[s].nights /\ jobs'[s].step = jobs[s].step
              /\ jobs'[s].step = "ok" =>
                   Partial(room, search.from .. (search.to - 1), jobs[s].nights)
          BY <4>1, <4>2 DEF LoadFacts, Alike, SameAnswer
        <5>2. PICK stay, nights : /\ stay = search.from .. (search.to - 1)
                                  /\ nights = jobs[s].nights
          OBVIOUS
        <5>3. jobs'[s].step = "ok" => Partial(room, stay, nights)
          BY <5>1, <5>2
        <5>4. PICK r : r = room
          OBVIOUS
        <5>5. jobs'[s].step = "ok" => Partial(r, stay, nights)'
          BY <5>3, <5>4, PartialStays
        <5>6. QED
          BY <1>1, <4>2, <5>1, <5>2, <5>4, <5>5 DEF Partial
      <4>3. CASE jobs'[s].kind = "search"
        BY <4>1, <4>3 DEF LoadFacts, Alike, SameAnswer
      <4>4. QED
        BY <4>2, <4>3
    <3>2. CASE jobs'[s] = Free
      BY <3>2 DEF Free
    <3>3. CASE s = q /\ Served(q)
      <4>1. CASE jobs[q].kind = "days"
        <5>1. /\ Alike(jobs[q], jobs'[q])
              /\ jobs[q].room = room /\ jobs[q].from = search.from
              /\ jobs[q].to = search.to - 1
          BY <3>3, <4>1 DEF Served, LoadFacts, Loads
        <5>2. /\ jobs'[q].kind = "days" /\ jobs'[q].room = room
              /\ jobs'[q].from = search.from /\ jobs'[q].to = search.to - 1
          BY <4>1, <5>1 DEF Alike
        <5>3. PICK r, stay : r = room /\ stay = search.from .. (search.to - 1)
          OBVIOUS
        <5>4. jobs'[q].step = "ok" => Partial(r, stay, jobs[q].nights)'
          BY <3>3, <4>1, <5>1, <5>3 DEF Served
        <5>5. QED
          BY <1>1, <3>3, <5>2, <5>3, <5>4 DEF Partial
      <4>2. CASE jobs[q].kind = "search"
        BY <3>3, <4>2 DEF Served, LoadFacts, Loads, Alike
      <4>3. QED
        BY <3>3, <4>1, <4>2 DEF Served
    <3>4. QED
      BY <3>1, <3>2, <3>3 DEF OthersStay
  <2>2. QED
    BY <1>1, <2>1 DEF LoadFacts, Guests
<1>4. ShownFacts'
  <2>1. ASSUME NEW here \in price.of
        PROVE  Partial(here.room, here.search.from .. (here.search.to - 1), price.answer)'
    <3>1. PICK r, stay, nights : /\ r = here.room
                                 /\ stay = here.search.from .. (here.search.to - 1)
                                 /\ nights = price.answer
      OBVIOUS
    <3>2. Partial(r, stay, nights)
      BY <2>1, <3>1 DEF ShownFacts
    <3>3. Partial(r, stay, nights)'
      BY <3>2, PartialStays
    <3>4. QED
      BY <1>1, <3>1, <3>3 DEF Partial
  <2>2. QED
    BY <1>1, <2>1 DEF ShownFacts, Fits, Guests
<1>5. DealFacts'
  <2>1. CASE deal.state = "asked"
    <3>1. PICK s \in Slots : s = deal.slot
      BY <2>1 DEF DealFacts
    <3>2. jobs[s].kind = "book" /\ jobs[s].page = TRUE /\ jobs[s] # Free
      BY <2>1, <3>1 DEF DealFacts, DealOf, Free
    <3>3. CASE s = q
      <4>1. Served(q)
        BY <3>2, <3>3
      <4>2. QED
        BY <1>1, <2>1, <3>1, <3>3, <4>1, ServedDeal
    <3>4. CASE s # q
      <4>1. Alike(jobs[s], jobs'[s]) /\ SameAnswer(jobs[s], jobs'[s])
        BY <3>2, <3>4 DEF OthersStay
      <4>2. QED
        BY <1>1, <2>1, <3>1, <4>1, SameJobSameDeal
    <3>5. QED
      BY <3>3, <3>4
  <2>2. CASE deal.state # "asked"
    BY <1>1, <2>2 DEF DealFacts, QuoteIsCharge, Fits
  <2>3. QED
    BY <2>1, <2>2
<1>6. QED
  BY <1>2, <1>3, <1>4, <1>5

\* What is read of the rooms and of the calendar.
LEMMA ReadsAreServed ==
    ASSUME Shapes, LoadFacts, NEW q \in Slots,
           ReadRooms(q) \/ GetRoomAvailability(q) \/ SearchAvailableRooms(q)
    PROVE  jobs[q] # Free /\ OthersStay(q) /\ Served(q) /\ days' = days
<1>1. jobs[q] # Free /\ jobs[q].kind \in {"room", "list", "days", "search"} /\ days' = days
  BY DEF ReadRooms, GetRoomAvailability, SearchAvailableRooms, Free, catalogue
<1>2. jobs = [s \in Slots |-> jobs[s]] /\ Shape(jobs[q])
  BY <1>1, JobIs DEF Shapes
<1>3. CASE ReadRooms(q)
  <2>1. jobs[q].kind \in {"room", "list"}
    BY <1>3 DEF ReadRooms
  <2>2. PICK x, y : jobs' = [jobs EXCEPT ![q] = [jobs[q] EXCEPT !.step = x, !.found = y]]
    <3>1. PICK R : jobs' = [jobs EXCEPT ![q].step = "images", ![q].found = Only(R, Row)]
                   \/ jobs' = [jobs EXCEPT ![q].step = "ok", ![q].found =
                        [r \in Rooms |-> IF @[r] = NoContent THEN NoContent
                                         ELSE [@[r] EXCEPT !.pics = PicsOf(r)]]]
      BY <1>3 DEF ReadRooms
    <3>2. CASE jobs' = [jobs EXCEPT ![q].step = "images", ![q].found = Only(R, Row)]
      BY <1>2, <3>2
    <3>3. CASE jobs' = [jobs EXCEPT ![q].step = "ok", ![q].found =
                          [r \in Rooms |-> IF @[r] = NoContent THEN NoContent
                                           ELSE [@[r] EXCEPT !.pics = PicsOf(r)]]]
      <4>1. jobs' = [jobs EXCEPT ![q] = [jobs[q] EXCEPT !.step = "ok", !.found =
                          [r \in Rooms |-> IF jobs[q].found[r] = NoContent THEN NoContent
                                           ELSE [jobs[q].found[r] EXCEPT !.pics = PicsOf(r)]]]]
        BY <1>2, <3>3 DEF Shape, Fields
      <4>2. QED
        BY <4>1
    <3>4. QED
      BY <3>1, <3>2, <3>3
  <2>3. OthersStay(q) /\ jobs'[q] = [jobs[q] EXCEPT !.step = x, !.found = y]
    BY <2>2, OneChanges
  <2>4. Shape(jobs'[q]) /\ jobs'[q].kind = jobs[q].kind
    BY <1>2, <2>3 DEF Shape, Fields, Alike
  <2>5. QED
    BY <1>1, <2>1, <2>3, <2>4 DEF Served, Loads
<1>4. CASE GetRoomAvailability(q)
  <2>1. PICK r, f, t, nights :
          /\ r = jobs[q].room /\ f = jobs[q].from /\ t = jobs[q].to
          /\ r \in Rooms
          /\ nights = {n \in Nights : n \in f .. t /\ days[r][n] # "none"}
    BY <1>4 DEF GetRoomAvailability, Present
  <2>2. jobs' = [jobs EXCEPT ![q] = [jobs[q] EXCEPT !.step = "ok", !.nights = nights]]
        /\ jobs[q].kind = "days"
    <3>1. jobs' = [jobs EXCEPT ![q].step = "ok", ![q].nights = nights] /\ jobs[q].kind = "days"
      BY <1>4, <2>1 DEF GetRoomAvailability
    <3>2. QED
      BY <1>2, <3>1
  <2>3. OthersStay(q) /\ jobs'[q] = [jobs[q] EXCEPT !.step = "ok", !.nights = nights]
    BY <2>2, OneChanges
  <2>4. Shape(jobs'[q]) /\ Alike(jobs[q], jobs'[q]) /\ jobs'[q].nights = nights
    BY <1>2, <2>3 DEF Shape, Fields, Alike
  <2>5. PICK stay : stay = f .. t
    OBVIOUS
  <2>6. Partial(r, stay, nights)'
    BY <1>1, <2>1, <2>5 DEF Partial
  <2>7. \A r1, s1 : r1 = jobs[q].room /\ s1 = jobs[q].from .. jobs[q].to =>
                        Partial(r1, s1, jobs[q].nights)'
    BY <2>1, <2>4, <2>5, <2>6 DEF Partial
  <2>8. QED
    BY <1>1, <2>2, <2>3, <2>4, <2>7 DEF Served, Alike
<1>5. CASE SearchAvailableRooms(q)
  <2>1. jobs[q].kind = "search"
    BY <1>5 DEF SearchAvailableRooms
  <2>2. CASE jobs[q].step = "find"
    <3>1. PICK found : found = Only({r \in Present : rooms[r] >= jobs[q].guests}, Row)
      OBVIOUS
    <3>2. jobs' = [jobs EXCEPT ![q] = [jobs[q] EXCEPT !.step = "rows", !.found = found]]
      <4>1. jobs' = [jobs EXCEPT ![q].step = "rows", ![q].found = found]
        BY <1>5, <2>2, <3>1 DEF SearchAvailableRooms
      <4>2. QED
        BY <1>2, <4>1
    <3>3. OthersStay(q) /\ jobs'[q] = [jobs[q] EXCEPT !.step = "rows", !.found = found]
      BY <3>2, OneChanges
    <3>4. Shape(jobs'[q]) /\ Alike(jobs[q], jobs'[q]) /\ jobs'[q].found = found
      BY <1>2, <3>3 DEF Shape, Fields, Alike
    <3>5. \A r \in Rooms : found[r].cap = 0 \/ (rooms[r] >= jobs[q].guests /\ found[r].cap = rooms[r])
      BY <3>1 DEF Only, Row, NoContent
    <3>6. \A r \in Rooms : Fits(found[r].cap, jobs[q].guests)
      BY <3>5 DEF Fits
    <3>7. QED
      BY <1>1, <2>1, <3>3, <3>4, <3>6 DEF Served, Alike
  <2>3. CASE jobs[q].step # "find"
    <3>1. PICK before : before = jobs[q].found
      OBVIOUS
    <3>2. PICK found : found = [r \in Rooms |->
                         IF OpenThroughout(r, jobs[q].from, jobs[q].to) THEN before[r] ELSE NoContent]
      OBVIOUS
    <3>3. jobs[q].step = "rows"
          /\ jobs' = [jobs EXCEPT ![q] = [jobs[q] EXCEPT !.step = "ok", !.found = found]]
      <4>1. jobs[q].step = "rows"
            /\ jobs' = [jobs EXCEPT ![q].step = "ok", ![q].found =
                  [r \in Rooms |-> IF OpenThroughout(r, jobs[q].from, jobs[q].to)
                                   THEN @[r] ELSE NoContent]]
        BY <1>5, <2>3 DEF SearchAvailableRooms
      <4>2. QED
        BY <1>2, <3>1, <3>2, <4>1 DEF Shape, Fields
    <3>4. OthersStay(q) /\ jobs'[q] = [jobs[q] EXCEPT !.step = "ok", !.found = found]
      BY <3>3, OneChanges
    <3>5. Shape(jobs'[q]) /\ Alike(jobs[q], jobs'[q]) /\ jobs'[q].found = found
      BY <1>2, <3>4 DEF Shape, Fields, Alike
    <3>6. QED
      <4>1. \A r \in Rooms : Fits(found[r].cap, jobs[q].guests)
        <5>1. \A r \in Rooms : Fits(before[r].cap, jobs[q].guests)
          BY <2>1, <3>1, <3>3 DEF LoadFacts
        <5>2. QED
          BY <3>2, <5>1 DEF Fits, NoContent
      <4>2. QED
        BY <1>1, <2>1, <3>4, <3>5, <4>1 DEF Served, Alike
  <2>4. QED
    BY <2>2, <2>3
<1>6. QED
  BY <1>3, <1>4, <1>5

LEMMA BookingIsServed ==
    ASSUME Shapes, NEW q \in Slots, CreateBooking(q)
    PROVE  /\ jobs[q] # Free /\ OthersStay(q) /\ NoneStays
           /\ days' \in [Rooms -> [Nights -> {"none", "open", "taken"}]]
           /\ \/ jobs'[q] = Free /\ jobs[q].page # TRUE
              \/ Served(q)
<1>1. jobs[q] # Free /\ jobs[q].kind = "book"
  BY DEF CreateBooking, Free
<1>2. jobs = [s \in Slots |-> jobs[s]] /\ Shape(jobs[q])
  BY <1>1, JobIs DEF Shapes
<1>3. days \in [Rooms -> [Nights -> {"none", "open", "taken"}]]
  BY DEF Shapes
<1>4. PICK r, stay : r = jobs[q].room /\ stay = StayOf(jobs[q])
  OBVIOUS
<1>5. CASE jobs[q].step = "find"
  <2>1. /\ \A n \in stay : n \in Nights /\ days[r][n] = "open"
        /\ days' = [days EXCEPT ![r] = [n \in Nights |-> IF n \in stay THEN "taken" ELSE @[n]]]
        /\ Becomes(q, "facilities")
    BY <1>4, <1>5 DEF CreateBooking, OpenThroughout, StayOf
  <2>2. NoneStays /\ days' \in [Rooms -> [Nights -> {"none", "open", "taken"}]]
    <3>1. CASE r \notin Rooms
      <4>1. days' = days
        BY <1>3, <2>1, <3>1
      <4>2. QED
        BY <1>3, <4>1 DEF NoneStays
    <3>2. CASE r \in Rooms
      <4>1. PICK row : row = [n \in Nights |-> IF n \in stay THEN "taken" ELSE days[r][n]]
        OBVIOUS
      <4>2. row \in [Nights -> {"none", "open", "taken"}]
        BY <1>3, <3>2, <4>1
      <4>3. days' = [days EXCEPT ![r] = row]
        BY <1>3, <2>1, <3>2, <4>1
      <4>4. \A n \in Nights : days[r][n] = "none" => row[n] = "none"
        BY <2>1, <4>1
      <4>5. QED
        BY <1>3, <4>2, <4>3, <4>4 DEF NoneStays
    <3>3. QED
      BY <3>1, <3>2
  <2>3. /\ OthersStay(q)
        /\ Shape(jobs'[q]) /\ Alike(jobs[q], jobs'[q]) /\ jobs'[q].step = "facilities"
    <3>1. "facilities" \notin Ends
      BY DEF Ends
    <3>2. Becomes(q, "facilities")
      BY <2>1
    <3>3. QED
      BY <1>1, <3>1, <3>2, BecomesIs
  <2>4. \A n \in StayOf(jobs[q]) : n \in Nights /\ days[jobs[q].room][n] # "none"
    BY <1>4, <2>1
  <2>5. Served(q)
    BY <1>1, <1>5, <2>3, <2>4 DEF Served, Alike
  <2>6. QED
    BY <1>1, <2>2, <2>3, <2>5
<1>6. CASE jobs[q].step # "find"
  <2>1. /\ jobs[q].step = "facilities" /\ days' = days
        /\ IF jobs[q].page
           THEN jobs' = [jobs EXCEPT ![q].step = "ok", ![q].amount = Total(jobs[q])]
           ELSE Becomes(q, "ok")
    BY <1>6 DEF CreateBooking
  <2>2. NoneStays /\ days' \in [Rooms -> [Nights -> {"none", "open", "taken"}]]
    BY <1>3, <2>1 DEF NoneStays
  <2>3. CASE jobs[q].page
    <3>1. jobs' = [jobs EXCEPT ![q] = [jobs[q] EXCEPT !.step = "ok", !.amount = Total(jobs[q])]]
      BY <1>2, <2>1, <2>3
    <3>2. OthersStay(q)
          /\ jobs'[q] = [jobs[q] EXCEPT !.step = "ok", !.amount = Total(jobs[q])]
      BY <3>1, OneChanges
    <3>3. /\ Shape(jobs'[q]) /\ Alike(jobs[q], jobs'[q]) /\ jobs'[q].step = "ok"
          /\ jobs'[q].amount = Total(jobs[q])
      BY <1>2, <3>2 DEF Shape, Fields, Alike
    <3>4. Total(jobs[q]) = Sum(jobs[q].room, StayOf(jobs[q]), jobs[q].pool, jobs[q].lounge)
      BY DEF Total, Sum, StayOf
    <3>5. Served(q)
      BY <1>1, <2>1, <3>3, <3>4 DEF Served, Alike
    <3>6. QED
      BY <1>1, <2>2, <3>2, <3>5
  <2>4. CASE ~jobs[q].page
    <3>1. /\ OthersStay(q)
          /\ jobs'[q] = Free \/ (Shape(jobs'[q]) /\ Alike(jobs[q], jobs'[q]))
      BY <1>1, <2>1, <2>4, BecomesIs
    <3>2. jobs[q].page # TRUE
      BY <2>4
    <3>3. jobs'[q] # Free => Served(q)
      BY <1>1, <3>1, <3>2 DEF Served, Alike
    <3>4. QED
      BY <1>1, <2>2, <3>1, <3>2, <3>3
  <2>5. QED
    BY <2>3, <2>4
<1>7. QED
  BY <1>5, <1>6

\* A request that is refused or fails tells nothing more.
LEMMA EndsWithoutAnswer ==
    ASSUME Shapes, NEW q \in Slots, jobs[q] # Free, NEW step \in {"refused", "failed"},
           Becomes(q, step), days' = days
    PROVE  /\ OthersStay(q) /\ NoneStays
           /\ days' \in [Rooms -> [Nights -> {"none", "open", "taken"}]]
           /\ \/ jobs'[q] = Free /\ jobs[q].page # TRUE
              \/ Served(q)
<1>1. OthersStay(q)
      /\ \/ jobs'[q] = Free /\ jobs[q].page # TRUE
         \/ Shape(jobs'[q]) /\ Alike(jobs[q], jobs'[q]) /\ jobs'[q].step = step
  BY BecomesIs
<1>2. NoneStays /\ days' \in [Rooms -> [Nights -> {"none", "open", "taken"}]]
  BY DEF NoneStays, Shapes
<1>3. ASSUME Shape(jobs'[q]), Alike(jobs[q], jobs'[q]), jobs'[q].step = step PROVE Served(q)
  BY <1>3 DEF Served, Alike
<1>4. QED
  BY <1>1, <1>2, <1>3

LEMMA ServingKeeps ==
    ASSUME IInv, NEW q \in Slots, Serve(q) \/ FaultHere(q), UNCHANGED page
    PROVE  IInv'
<1>1. Shapes /\ LoadFacts
  BY DEF IInv
<1>2. CASE CreateRoom(q) \/ UpdateRoom(q) \/ DeleteRoom(q)
  <2>1. /\ WriteGoesOn(q) /\ NoneStays
        /\ days' \in [Rooms -> [Nights -> {"none", "open", "taken"}]]
    BY <1>1, <1>2, WritesAreServed
  <2>2. /\ OthersStay(q) /\ jobs[q] # Free /\ jobs[q].kind \in Writes
        /\ jobs'[q] = Free \/ (Shape(jobs'[q]) /\ jobs'[q].kind = jobs[q].kind)
    BY <2>1 DEF WriteGoesOn
  <2>3. jobs'[q] # Free => Served(q)
    BY <2>2 DEF Served, Writes, Loads
  <2>4. jobs[q].kind # "book"
    BY <2>2 DEF Writes
  <2>5. QED
    BY <2>1, <2>2, <2>3, <2>4, OneServed
<1>3. CASE ReadRooms(q) \/ GetRoomAvailability(q) \/ SearchAvailableRooms(q)
  <2>1. jobs[q] # Free /\ OthersStay(q) /\ Served(q) /\ days' = days
    BY <1>1, <1>3, ReadsAreServed
  <2>2. NoneStays /\ days' \in [Rooms -> [Nights -> {"none", "open", "taken"}]]
    BY <1>1, <2>1 DEF NoneStays, Shapes
  <2>3. QED
    BY <2>1, <2>2, OneServed
<1>4. CASE CreateBooking(q)
  BY <1>1, <1>4, BookingIsServed, OneServed
<1>5. CASE Refuse(q) \/ FaultHere(q)
  <2>1. jobs[q] # Free /\ days' = days /\ (Becomes(q, "refused") \/ Becomes(q, "failed"))
    BY <1>5 DEF Refuse, FaultHere, Fault, Free, catalogue
  <2>2. /\ OthersStay(q) /\ NoneStays
        /\ days' \in [Rooms -> [Nights -> {"none", "open", "taken"}]]
        /\ \/ jobs'[q] = Free /\ jobs[q].page # TRUE
           \/ Served(q)
    BY <1>1, <2>1, EndsWithoutAnswer
  <2>3. QED
    BY <2>1, <2>2, OneServed
<1>6. QED
  BY <1>2, <1>3, <1>4, <1>5 DEF Serve

-----------------------------------------------------------------------------
\* What the page does

LEMMA NothingChanges ==
    ASSUME IInv, UNCHANGED <<jobs, days, search, room, results, price, visited, deal>>
    PROVE  IInv'
<1>1. Shapes'
  BY DEF IInv, Shapes
<1>2. LoadFacts'
  BY DEF IInv, LoadFacts, Partial, Guests, Fits
<1>3. ShownFacts'
  BY DEF IInv, ShownFacts, Partial, Guests, Fits
<1>4. DealFacts'
  BY DEF IInv, DealFacts, QuoteIsCharge, DealOf, Quoted, Partial, StayOf, Fits, Sum
<1>5. QED
  BY <1>1, <1>2, <1>3, <1>4 DEF IInv

LEMMA Forgets ==
    /\ Loading = [f \in LoadFields |-> Loading[f]]
    /\ Loading.of = {} /\ Loading.answer = {}
BY DEF Loading, LoadFields

\* A page that goes elsewhere forgets what it has loaded, or still shows it.
LEMMA PageKeeps ==
    ASSUME IInv, days' = days, JobsShaped', LoadFacts', DealFacts',
           results' = results \/ results' = Loading, price' = price \/ price' = Loading,
           \A v \in visited' : Fits(v.cap, Guests(v.search))
    PROVE  IInv'
<1>1. Shapes'
  BY Forgets DEF IInv, Shapes, JobsShaped
<1>2. /\ \A found \in results'.answer : found.room \in Rooms
      /\ \A s \in results'.of, found \in results'.answer : Fits(found.cap, Guests(s))
  <2>1. CASE results' = results
    BY <2>1 DEF IInv, ShownFacts
  <2>2. CASE results' = Loading
    BY <2>2, Forgets
  <2>3. QED
    BY <2>1, <2>2
<1>3. \A here \in price'.of :
         Partial(here.room, here.search.from .. (here.search.to - 1), price.answer)'
  <2>1. CASE price' = price
    BY <2>1 DEF IInv, ShownFacts, Partial
  <2>2. CASE price' = Loading
    BY <2>2, Forgets
  <2>3. QED
    BY <2>1, <2>2
<1>4. ShownFacts'
  BY <1>2, <1>3 DEF ShownFacts, Fits, Guests
<1>5. QED
  BY <1>1, <1>4 DEF IInv

LEMMA PageSendings ==
    ASSUME NEW s, NEW r
    PROVE  /\ Shape(SearchRooms(s)) /\ SearchRooms(s).kind = "search"
           /\ SearchRooms(s).step = "find" /\ SearchRooms(s).guests = Guests(s)
           /\ Shape(LoadPrice(r, s)) /\ LoadPrice(r, s).kind = "days"
           /\ LoadPrice(r, s).step = "find" /\ LoadPrice(r, s).room = r
           /\ LoadPrice(r, s).from = s.from /\ LoadPrice(r, s).to = s.to - 1
BY DEF SearchRooms, LoadPrice, Request, Shape, Fields

LEMMA OpensKeep ==
    ASSUME IInv, NEW s \in Searches, OpenRooms(s) \/ JumpRooms(s)
    PROVE  IInv'
<1>1. /\ Shapes /\ LoadFacts /\ DealFacts
      /\ UNCHANGED <<days, visited, deal>> /\ search' = s
      /\ results' = results \/ results' = Loading
      /\ price' = price \/ price' = Loading
  BY DEF IInv, OpenRooms, JumpRooms, NoStay, Unserved, catalogue
<1>2. PICK a : a = SearchRooms(s)
  OBVIOUS
<1>3. LoadOfAddress(a)
  BY <1>1, <1>2, PageSendings DEF LoadOfAddress
<1>4. PICK before : Carries(before) /\ Sending({a}, before)
  BY <1>1, <1>2, AllCarry DEF OpenRooms, JumpRooms
<1>5. JobsShaped' /\ LoadFacts' /\ DealFacts'
  BY <1>1, <1>3, <1>4, SendingKeeps
<1>6. \A v \in visited' : Fits(v.cap, Guests(v.search))
  BY <1>1 DEF IInv, ShownFacts
<1>7. QED
  BY <1>1, <1>5, <1>6, PageKeeps

LEMMA LeavingKeeps ==
    ASSUME IInv, OpenSearch
    PROVE  IInv'
<1>1. /\ Shapes /\ LoadFacts /\ DealFacts
      /\ UNCHANGED <<days, visited, deal>>
      /\ results' = Loading /\ price' = Loading
      /\ Carries(Left) /\ Sending({}, Left)
  BY AllCarry DEF IInv, OpenSearch, NoStay, Unserved, catalogue
<1>2. JobsShaped' /\ LoadFacts' /\ DealFacts'
  BY <1>1, SendingKeeps
<1>3. \A v \in visited' : Fits(v.cap, Guests(v.search))
  BY <1>1 DEF IInv, ShownFacts
<1>4. QED
  BY <1>1, <1>2, <1>3, PageKeeps

LEMMA SelectKeeps ==
    ASSUME IInv, NEW found \in results.answer, Select(found)
    PROVE  IInv'
<1>1. /\ Shapes /\ LoadFacts /\ DealFacts
      /\ UNCHANGED <<days, search, deal>> /\ room' = found.room
      /\ results' = Loading /\ price' = Loading
      /\ Sending({LoadPrice(found.room, search)}, Left)
  BY DEF IInv, Select, Unserved, catalogue
<1>2. PICK a : a = LoadPrice(found.room, search)
  OBVIOUS
<1>3. LoadOfAddress(a)
  BY <1>1, <1>2, PageSendings DEF LoadOfAddress
<1>4. Carries(Left) /\ Sending({a}, Left)
  BY <1>1, <1>2, AllCarry
<1>5. JobsShaped' /\ LoadFacts' /\ DealFacts'
  BY <1>1, <1>3, <1>4, SendingKeeps
<1>6. PICK cap : cap = IF results.of = {search} THEN found.cap ELSE 0
  OBVIOUS
<1>7. Fits(cap, Guests(search))
  BY <1>6 DEF IInv, ShownFacts, Fits
<1>8. visited' = visited \cup {[search |-> search, room |-> found.room, cap |-> cap]}
  BY <1>6 DEF Select
<1>9. \A v \in visited' : Fits(v.cap, Guests(v.search))
  BY <1>7, <1>8 DEF IInv, ShownFacts
<1>10. QED
  BY <1>1, <1>5, <1>9, PageKeeps

LEMMA JumpKeeps ==
    ASSUME IInv, NEW v \in visited, JumpOptions(v)
    PROVE  IInv'
<1>1. /\ Shapes /\ LoadFacts /\ DealFacts
      /\ UNCHANGED <<days, results, price, visited, deal>>
      /\ search' = v.search /\ room' = v.room
      /\ Sending({LoadPrice(v.room, v.search)}, Stay)
  BY DEF IInv, JumpOptions, Unserved, catalogue
<1>2. PICK a : a = LoadPrice(v.room, v.search)
  OBVIOUS
<1>3. LoadOfAddress(a)
  BY <1>1, <1>2, PageSendings DEF LoadOfAddress
<1>4. Carries(Stay) /\ Sending({a}, Stay)
  BY <1>1, <1>2, AllCarry
<1>5. JobsShaped' /\ LoadFacts' /\ DealFacts'
  BY <1>1, <1>3, <1>4, SendingKeeps
<1>6. \A w \in visited' : Fits(w.cap, Guests(w.search))
  BY <1>1 DEF IInv, ShownFacts
<1>7. QED
  BY <1>1, <1>5, <1>6, PageKeeps

\* What others send is nothing that the page waits for.
LEMMA OthersKeep ==
    ASSUME IInv, NEW request, Other(request),
           Shape(request), request.step = "find", request.kind \in Changes
    PROVE  IInv'
<1>1. /\ Shapes /\ LoadFacts /\ DealFacts
      /\ UNCHANGED <<days, search, room, results, price, visited, deal>>
  BY DEF IInv, Other, Elsewhere, catalogue
<1>2. PICK a : a = [request EXCEPT !.page = FALSE, !.heard = FALSE]
  OBVIOUS
<1>3. Shape(a) /\ a.kind = request.kind /\ a.step = "find"
  BY <1>2 DEF Shape, Fields
<1>4. LoadOfAddress(a)
  BY <1>3 DEF LoadOfAddress, Changes, Writes
<1>5. Sending({a}, jobs)
  BY <1>2 DEF Other, Elsewhere
<1>6. JobsShaped' /\ LoadFacts' /\ DealFacts'
  BY <1>1, <1>4, <1>5, AllCarry, SendingKeeps
<1>7. \A v \in visited' : Fits(v.cap, Guests(v.search))
  BY <1>1 DEF IInv, ShownFacts
<1>8. QED
  BY <1>1, <1>6, <1>7, PageKeeps

LEMMA QuoteIsSum ==
    ASSUME ShownFacts, NEW total \in Quote
    PROVE  \E answered \in SUBSET (search.from .. (search.to - 1)) :
              /\ Partial(room, search.from .. (search.to - 1), answered)
              /\ total = Sum(room, answered, counts.pool, counts.lounge)
<1>1. price.of = {Here} /\ total = GrandTotal
  BY DEF Quote
<1>2. Here.room = room /\ Here.search = search
  BY DEF Here
<1>3. Partial(room, search.from .. (search.to - 1), price.answer)
  BY <1>1, <1>2 DEF ShownFacts
<1>4. total = Sum(room, price.answer, counts.pool, counts.lounge)
  BY <1>1 DEF GrandTotal, Sum, OptionPrice, FacilityPrice
<1>5. QED
  BY <1>3, <1>4 DEF Partial

LEMMA ReserveKeeps ==
    ASSUME IInv, Reserve
    PROVE  IInv'
<1>1. /\ Shapes /\ LoadFacts /\ ShownFacts /\ DealFacts
      /\ UNCHANGED <<days, search, room, results, price, counts, visited>>
  BY DEF IInv, Reserve, Unserved, catalogue
<1>2. PICK a : a = [Request("book", room) EXCEPT
                      !.from = search.from, !.to = search.to, !.guests = Guests(search),
                      !.pool = counts.pool, !.lounge = counts.lounge]
  OBVIOUS
<1>3. /\ Shape(a) /\ a.kind = "book" /\ a.step = "find" /\ a.page = TRUE
      /\ a.room = room /\ a.from = search.from /\ a.to = search.to
      /\ a.pool = counts.pool /\ a.lounge = counts.lounge
  BY <1>2 DEF Request, Shape, Fields
<1>4. LoadOfAddress(a)
  BY <1>3 DEF LoadOfAddress
<1>5. Carries(jobs) /\ Sending({a}, jobs)
  BY <1>1, <1>2, AllCarry DEF Reserve
<1>6. JobsShaped' /\ LoadFacts'
  BY <1>1, <1>4, <1>5, SendingKeeps
<1>7. PICK p \in Slots : jobs' = [s \in Slots |-> IF s = p THEN a ELSE jobs[s]]
  <2>1. \E p \in Slots : /\ jobs[p] = Free
                         /\ jobs' = [s \in Slots |-> IF s = p THEN a ELSE jobs[s]]
    BY <1>5, SendsOne
  <2>2. QED
    BY <2>1
<1>8. PICK q \in Slots :
         /\ jobs'[q] # jobs[q]
         /\ deal' = [state |-> "asked", slot |-> q, amount |-> 0,
                     guests |-> Guests(search), quote |-> Quote,
                     caps |-> {v.cap : v \in {w \in visited : w.search = search /\ w.room = room}}]
  BY DEF Reserve
<1>9. jobs'[q] = a
  BY <1>7, <1>8
<1>10. /\ deal' = [f \in DealFields |-> deal'[f]]
       /\ deal'.state = "asked" /\ deal'.slot = q /\ deal'.quote = Quote
       /\ deal'.guests = Guests(search)
       /\ deal'.caps = {v.cap : v \in {w \in visited : w.search = search /\ w.room = room}}
  BY <1>8 DEF DealFields
<1>11. \A cap \in deal'.caps : Fits(cap, deal'.guests)
  BY <1>1, <1>10 DEF ShownFacts
<1>12. ASSUME NEW total \in Quote
       PROVE  \E answered \in SUBSET StayOf(a) :
                Partial(a.room, StayOf(a), answered) /\ total = Sum(a.room, answered, a.pool, a.lounge)
  BY <1>1, <1>3, QuoteIsSum DEF StayOf
<1>13. \A total \in Quote : Quoted(total, a.room, StayOf(a), a.pool, a.lounge)
  BY <1>12 DEF Quoted
<1>14. DealOf(q)'
  <2>1. PICK r, stay, p1, l : /\ r = a.room /\ stay = StayOf(a)
                             /\ p1 = a.pool /\ l = a.lounge
    OBVIOUS
  <2>2. ASSUME NEW total \in Quote PROVE Quoted(total, r, stay, p1, l)'
    <3>1. PICK answered \in SUBSET stay :
             Partial(r, stay, answered) /\ total = Sum(r, answered, p1, l)
      BY <1>13, <2>1, <2>2 DEF Quoted
    <3>2. Partial(r, stay, answered)'
      BY <1>1, <3>1 DEF Partial
    <3>3. QED
      BY <3>1, <3>2 DEF Quoted
  <2>3. /\ r = jobs'[q].room /\ stay = StayOf(jobs'[q])
        /\ p1 = jobs'[q].pool /\ l = jobs'[q].lounge
        /\ jobs'[q].kind = "book" /\ jobs'[q].page = TRUE /\ jobs'[q].step = "find"
    BY <1>3, <1>9, <2>1
  <2>4. QED
    BY <1>10, <2>2, <2>3 DEF DealOf, Quoted, Partial
<1>15. DealFacts'
  BY <1>10, <1>11, <1>14 DEF DealFacts, QuoteIsCharge, Fits
<1>16. \A v \in visited' : Fits(v.cap, Guests(v.search))
  BY <1>1 DEF ShownFacts
<1>17. QED
  BY <1>1, <1>6, <1>15, <1>16, PageKeeps

LEMMA AnsweredKeeps ==
    ASSUME IInv, NEW q \in Slots, Answered(q)
    PROVE  IInv'
<1>1. /\ Shapes /\ LoadFacts /\ ShownFacts /\ DealFacts
      /\ UNCHANGED <<days, search, room, counts, visited>>
      /\ jobs[q] # Free /\ jobs' = [jobs EXCEPT ![q] = Free]
  BY DEF IInv, Answered, Unserved, catalogue, Free
<1>2. /\ OthersStay(q) /\ jobs'[q] = Free
      /\ \A s \in Slots \ {q} : jobs'[s] = jobs[s]
      /\ jobs' = [s \in Slots |-> jobs'[s]]
  BY <1>1, OneChanges DEF Shapes
<1>3. Free.kind = "none"
  BY DEF Free
<1>4. \A s \in Slots : jobs'[s] = Free \/ (Shape(jobs'[s]) /\ jobs'[s].kind # "none")
  BY <1>1, <1>2 DEF Shapes
<1>5. LoadFacts'
  <2>1. ASSUME NEW s \in Slots, jobs'[s].kind \in Loads PROVE jobs'[s] = jobs[s]
    BY <1>2, <1>3, <2>1 DEF Loads
  <2>2. QED
    BY <1>1, <2>1 DEF LoadFacts, Loads, Partial, Guests, Fits
<1>6. ASSUME deal' = deal, deal.state = "asked" => deal.slot # q
      PROVE  DealFacts'
  <2>1. CASE deal.state = "asked"
    <3>1. PICK s \in Slots : s = deal.slot /\ jobs[s].kind = "book"
      BY <1>1, <2>1 DEF DealFacts, DealOf
    <3>2. jobs[s] # Free /\ s # q
      BY <1>6, <2>1, <3>1 DEF Free
    <3>3. Alike(jobs[s], jobs'[s]) /\ SameAnswer(jobs[s], jobs'[s])
      BY <1>2, <3>1, <3>2 DEF OthersStay
    <3>4. NoneStays
      BY <1>1 DEF NoneStays
    <3>5. QED
      BY <1>1, <1>6, <2>1, <3>1, <3>3, <3>4, SameJobSameDeal
  <2>2. CASE deal.state # "asked"
    BY <1>1, <1>6, <2>2 DEF DealFacts, QuoteIsCharge, Fits
  <2>3. QED
    BY <2>1, <2>2
<1>7. jobs[q].kind # "book" => (deal.state = "asked" => deal.slot # q)
  BY <1>1 DEF DealFacts, DealOf
<1>8. CASE RoomsFound(q)
  <2>1. jobs[q].kind = "search" /\ UNCHANGED <<price, deal>>
    BY <1>8 DEF RoomsFound
  <2>2. DealFacts'
    BY <1>6, <1>7, <2>1
  <2>3. /\ results' = [f \in LoadFields |-> results'[f]]
        /\ \A found \in results'.answer : found.room \in Rooms
        /\ \A s \in results'.of, found \in results'.answer : Fits(found.cap, Guests(s))
    <3>1. CASE jobs[q].step = "ok"
      <4>1. PICK answer : answer = {[room |-> r, cap |-> jobs[q].found[r].cap] :
                                      r \in Listed(jobs[q].found)}
        OBVIOUS
      <4>2. results' = [state |-> "success", of |-> {search}, answer |-> answer]
        BY <1>8, <3>1, <4>1 DEF RoomsFound, Loaded
      <4>3. \A r \in Rooms : Fits(jobs[q].found[r].cap, Guests(search))
        BY <1>1, <2>1, <3>1 DEF LoadFacts
      <4>4. \A found \in answer : found.room \in Rooms /\ Fits(found.cap, Guests(search))
        BY <4>1, <4>3 DEF Listed
      <4>5. QED
        BY <4>2, <4>4 DEF LoadFields
    <3>2. CASE jobs[q].step # "ok"
      <4>1. results' = [results EXCEPT !.state = "error"]
        BY <1>8, <3>2 DEF RoomsFound
      <4>2. results = [f \in LoadFields |-> results[f]]
        BY <1>1 DEF Shapes
      <4>3. /\ results' = [f \in LoadFields |-> results'[f]]
            /\ results'.of = results.of /\ results'.answer = results.answer
        BY <4>1, <4>2 DEF LoadFields
      <4>4. QED
        BY <1>1, <4>3 DEF ShownFacts
    <3>3. QED
      BY <3>1, <3>2
  <2>4. Shapes'
    BY <1>1, <1>2, <1>4, <2>1, <2>3 DEF Shapes
  <2>5. ShownFacts'
    BY <1>1, <2>1, <2>3 DEF ShownFacts, Fits, Guests, Partial
  <2>6. QED
    BY <1>5, <2>2, <2>4, <2>5 DEF IInv
<1>9. CASE PriceLoaded(q)
  <2>1. jobs[q].kind = "days" /\ UNCHANGED <<results, deal>>
    BY <1>9 DEF PriceLoaded
  <2>2. DealFacts'
    BY <1>6, <1>7, <2>1
  <2>3. /\ price' = [f \in LoadFields |-> price'[f]]
        /\ \A here \in price'.of :
              Partial(here.room, here.search.from .. (here.search.to - 1), price'.answer)
    <3>1. CASE jobs[q].step = "ok"
      <4>1. PICK here : here = Here
        OBVIOUS
      <4>2. price' = [state |-> "success", of |-> {here}, answer |-> jobs[q].nights]
        BY <1>9, <3>1, <4>1 DEF PriceLoaded, Loaded
      <4>3. here.room = room /\ here.search = search
        BY <4>1 DEF Here
      <4>4. Partial(room, search.from .. (search.to - 1), jobs[q].nights)
        BY <1>1, <2>1, <3>1 DEF LoadFacts
      <4>5. QED
        BY <4>2, <4>3, <4>4 DEF LoadFields
    <3>2. CASE jobs[q].step # "ok"
      <4>1. price' = [price EXCEPT !.state = "error"]
        BY <1>9, <3>2 DEF PriceLoaded
      <4>2. price = [f \in LoadFields |-> price[f]]
        BY <1>1 DEF Shapes
      <4>3. /\ price' = [f \in LoadFields |-> price'[f]]
            /\ price'.of = price.of /\ price'.answer = price.answer
        BY <4>1, <4>2 DEF LoadFields
      <4>4. QED
        BY <1>1, <4>3 DEF ShownFacts
    <3>3. QED
      BY <3>1, <3>2
  <2>4. Shapes'
    BY <1>1, <1>2, <1>4, <2>1, <2>3 DEF Shapes
  <2>5. ShownFacts'
    BY <1>1, <2>1, <2>3 DEF ShownFacts, Fits, Guests, Partial
  <2>6. QED
    BY <1>5, <2>2, <2>4, <2>5 DEF IInv
<1>10. CASE Booked(q)
  <2>1. jobs[q].kind = "book" /\ UNCHANGED <<results, price>>
    BY <1>10 DEF Booked
  <2>2. DealFacts'
    <3>1. CASE ~Asked(q)
      <4>1. deal' = deal
        BY <1>10, <3>1 DEF Booked
      <4>2. QED
        BY <1>6, <3>1, <4>1 DEF Asked
    <3>2. CASE Asked(q) /\ jobs[q].step = "ok"
      <4>1. deal' = [deal EXCEPT !.state = "booked", !.amount = jobs[q].amount]
        BY <1>10, <3>2 DEF Booked
      <4>2. /\ deal = [f \in DealFields |-> deal[f]] /\ DealOf(q)
            /\ \A cap \in deal.caps : Fits(cap, deal.guests)
        BY <1>1, <3>2 DEF DealFacts, Asked
      <4>3. /\ deal'.state = "booked" /\ deal'.amount = jobs[q].amount
            /\ deal'.quote = deal.quote /\ deal'.caps = deal.caps /\ deal'.guests = deal.guests
        BY <4>1, <4>2 DEF DealFields
      <4>4. \A total \in deal.quote : jobs[q].amount = total
        BY <3>2, <4>2 DEF DealOf
      <4>5. QED
        BY <4>2, <4>3, <4>4 DEF DealFacts, QuoteIsCharge, Fits
    <3>3. CASE Asked(q) /\ jobs[q].step # "ok"
      <4>1. deal' = NoDeal
        BY <1>10, <3>3 DEF Booked
      <4>2. deal'.state = "none"
        BY <4>1 DEF NoDeal
      <4>3. QED
        BY <4>2 DEF DealFacts, QuoteIsCharge
    <3>4. QED
      BY <3>1, <3>2, <3>3
  <2>3. Shapes'
    BY <1>1, <1>2, <1>4, <2>1 DEF Shapes
  <2>4. ShownFacts'
    BY <1>1, <2>1 DEF ShownFacts, Fits, Guests, Partial
  <2>5. QED
    BY <1>5, <2>2, <2>3, <2>4 DEF IInv
<1>11. QED
  BY <1>8, <1>9, <1>10 DEF Answered

-----------------------------------------------------------------------------

LEMMA InitHolds == Init => IInv
<1> SUFFICES ASSUME Init PROVE IInv
  OBVIOUS
<1>1. /\ jobs = [q \in Slots |-> Free] /\ deal = NoDeal
      /\ days = [r \in Rooms |-> [n \in Nights |-> IF r <= SeededRooms THEN "open" ELSE "none"]]
      /\ results = Loading /\ price = Loading /\ visited = Earlier
  BY DEF Init, ServiceInit
<1>2. Shapes
  BY <1>1, Forgets DEF Shapes
<1>3. LoadFacts
  BY <1>1 DEF LoadFacts, Free
<1>4. \A v \in visited : Fits(v.cap, Guests(v.search))
  BY <1>1, EarlierAssumption, SearchesAssumption DEF Fits, Guests
<1>5. ShownFacts
  BY <1>1, <1>4, Forgets DEF ShownFacts
<1>6. DealFacts
  BY <1>1 DEF DealFacts, NoDeal, QuoteIsCharge
<1>7. QED
  BY <1>2, <1>3, <1>5, <1>6 DEF IInv

LEMMA StepKeeps == IInv /\ [Next]_vars => IInv'
<1> SUFFICES ASSUME IInv, [Next]_vars PROVE IInv'
  OBVIOUS
<1>1. ASSUME NEW s \in Searches, OpenRooms(s) \/ JumpRooms(s) PROVE IInv'
  BY <1>1, OpensKeep
<1>2. CASE OpenSearch
  BY <1>2, LeavingKeeps
<1>3. CASE Reserve
  BY <1>3, ReserveKeeps
<1>4. ASSUME NEW found \in results.answer, Select(found) PROVE IInv'
  BY <1>4, SelectKeeps
<1>5. ASSUME NEW v \in visited, JumpOptions(v) PROVE IInv'
  BY <1>5, JumpKeeps
<1>6. ASSUME NEW option, NEW n, SetCount(option, n) PROVE IInv'
  BY <1>6, NothingChanges DEF SetCount, service, catalogue
<1>7. ASSUME NEW r \in OtherRooms, Other(Request("delete", r)) PROVE IInv'
  BY <1>7, RequestIs, OthersKeep DEF Changes, Writes
<1>8. ASSUME NEW r \in OtherRooms, NEW c \in OtherContents,
             Other([Request("update", r) EXCEPT !.body = c])
      PROVE  IInv'
  <2>1. PICK a : a = [Request("update", r) EXCEPT !.body = c]
    OBVIOUS
  <2>2. Shape(a) /\ a.kind = "update" /\ a.step = "find"
    BY <2>1 DEF Request, Shape, Fields
  <2>3. QED
    BY <1>8, <2>1, <2>2, OthersKeep DEF Changes, Writes
<1>9. ASSUME NEW r \in OtherRooms, NEW s \in Searches,
             Other([Request("book", r) EXCEPT !.from = s.from, !.to = s.to])
      PROVE  IInv'
  <2>1. PICK a : a = [Request("book", r) EXCEPT !.from = s.from, !.to = s.to]
    OBVIOUS
  <2>2. Shape(a) /\ a.kind = "book" /\ a.step = "find"
    BY <2>1 DEF Request, Shape, Fields
  <2>3. QED
    BY <1>9, <2>1, <2>2, OthersKeep DEF Changes, Writes
<1>10. ASSUME NEW q \in Slots, Answered(q) PROVE IInv'
  BY <1>10, AnsweredKeeps
<1>11. ASSUME NEW q \in Slots, Serve(q) \/ FaultHere(q), UNCHANGED page PROVE IInv'
  BY <1>11, ServingKeeps
<1>12. CASE UNCHANGED vars
  BY <1>12, NothingChanges DEF vars, service, catalogue, page
<1>13. QED
  BY <1>1, <1>2, <1>3, <1>4, <1>5, <1>6, <1>7, <1>8, <1>9, <1>10, <1>11, <1>12 DEF Next

\* Whatever services fail, whatever others book or change, and wherever the tab's
\* history leads, what the page and its requests know of prices and of rooms is
\* about the address they were loaded for (LoadPrice, createBooking).
THEOREM QuotesInductive == Spec => []IInv
<1>1. QED
  BY InitHolds, StepKeeps, PTL DEF Spec

\* A guest is charged the sum that the page showed when the reservation was asked
\* for: the page's own prices of the options and the nights that hotel-service
\* answered give the same as booking-service's sum of the nights and facilities.
THEOREM ChargedAsQuoted == Spec => []QuoteIsCharge
<1>1. IInv => QuoteIsCharge
  BY DEF IInv, DealFacts
<1>2. QED
  BY <1>1, QuotesInductive, PTL

\* A room that is booked held the guests, infants included, when it was found, but
\* for a room that was chosen from what another search had found.
THEOREM RoomHoldsTheGuests == Spec => []BookedRoomFits
<1>1. IInv => BookedRoomFits
  BY DEF IInv, DealFacts, BookedRoomFits, Fits
<1>2. QED
  BY <1>1, QuotesInductive, PTL
=============================================================================
