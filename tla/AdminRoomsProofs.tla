-------------------------- MODULE AdminRoomsProofs --------------------------
(***************************************************************************)
(* For any number of rooms, pictures, nights, requests and moves: what an  *)
(* administrator's page shows is of the room it is for, and a room is as   *)
(* its last undisturbed write left it.                                     *)
(***************************************************************************)
EXTENDS AdminRooms, TLAPS, FiniteSetTheorems, SequenceTheorems, WellFoundedInduction

-----------------------------------------------------------------------------
\* The inductive invariant

\* A load that is waited for is of the room and the month that the page is for.
LoadFacts ==
    \A q \in Slots :
        /\ jobs[q].kind = "room" =>
             /\ jobs[q].room = at
             /\ jobs[q].step \in {"images", "ok"} => jobs[q].found[at].cap # 0
        /\ jobs[q].kind = "days" => jobs[q].room = at /\ jobs[q].from = month

Writing(q) == jobs[q].kind \in Writes /\ jobs[q].step \notin Ends \cup {"find"}

\* What the requests that write carry; nobody searches or books here.
BodyFacts ==
    \A q \in Slots :
        /\ jobs[q].kind \notin {"search", "book"}
        /\ jobs[q].kind \in {"update", "create"} => jobs[q].body.cap # 0
        /\ jobs[q].kind = "delete" => jobs[q].body = NoContent
        /\ jobs[q].kind \in {"update", "delete"} \/ Writing(q) => jobs[q].room \in Rooms

\* A write counts as alone while no other one of its room has been midway with it.
AloneFacts ==
    \A q \in Slots : Writing(q) =>
        IF jobs[q].alone THEN \A s \in Slots : Writing(s) /\ jobs[s].room = jobs[q].room => s = q
        ELSE jobs[q].room \in mixed

\* How far a write that is alone has come.
StageFacts ==
    \A q \in Slots : Writing(q) /\ jobs[q].alone =>
        LET r == jobs[q].room IN
        /\ jobs[q].kind \in {"update", "create"} /\ jobs[q].step \in {"clear", "insert"} =>
             rooms[r] = jobs[q].body.cap
        /\ jobs[q].kind \in {"update", "create"} /\ jobs[q].step = "insert" => images[r] = NoImages
        /\ jobs[q].kind = "delete" /\ jobs[q].step \in {"calendar", "row"} => images[r] = NoImages

\* No night is for sale without its room, nor from the moment its room is about to go.
NightFacts ==
    /\ \A r \in Rooms : rooms[r] = 0 => \A n \in Nights : days[r][n] = "none"
    /\ \A q \in Slots : jobs[q].kind = "delete" /\ jobs[q].step = "row" =>
         \A n \in Nights : days[jobs[q].room][n] = "none"

\* Between the writes.
RestFacts ==
    \A r \in Rooms : r \notin mixed /\ (\A q \in Slots : Writing(q) => jobs[q].room # r) =>
        rooms[r] = saved[r].cap /\ PicsOf(r) = saved[r].pics

WriteFacts == AloneFacts /\ StageFacts /\ NightFacts /\ RestFacts

IInv == TypeOK /\ PageShowsItsRoom /\ LoadFacts /\ BodyFacts /\ WriteFacts

-----------------------------------------------------------------------------
\* Sequences and pictures

\* A set of numbers has a least one: what is proved of sequences below is proved by
\* looking at the least length for which it does not hold.
LEMMA Smallest ==
    ASSUME NEW T \in SUBSET Nat, T # {}
    PROVE  \E m \in T : \A k \in T : m <= k
<1>1. \A k, m \in Nat : k < m => <<k, m>> \in OpToRel(<, Nat)
  BY Zenon DEF OpToRel
<1>2. \E m \in T : \A k \in T : ~ (<<k, m>> \in OpToRel(<, Nat))
  BY NatLessThanWellFounded, WFMin, Zenon
<1>3. PICK m \in T : \A k \in T : ~ (<<k, m>> \in OpToRel(<, Nat))
  BY <1>2, Zenon
<1>4. \A k \in T : ~(k < m)
  BY <1>1, <1>3, Zenon
<1>5. \A k \in T : m <= k
  BY <1>4
<1>6. QED
  BY <1>5

\* The recursion of FlattenSeq: f[i] is the first i sequences of s in a row.
Flattens(s, n, f) == f = [i \in 1..n |-> IF i = 1 THEN s[i] ELSE f[i - 1] \o s[i]]

LEMMA FlatteningExists ==
    ASSUME NEW s, NEW n \in Nat
    PROVE  \E f : Flattens(s, n, f)
<1> DEFINE Bad == {m \in Nat : ~ \E f : Flattens(s, m, f)}
<1>1. ASSUME Bad # {} PROVE FALSE
  <2>1. PICK m \in Bad : \A k \in Bad : m <= k
    BY <1>1, Smallest
  <2>2. CASE m = 0
    <3>1. Flattens(s, 0, <<>>)
      BY DEF Flattens
    <3>2. QED
      BY <2>1, <2>2, <3>1
  <2>3. CASE m # 0
    <3>1. PICK k \in Nat : m = k + 1
      BY <2>1, <2>3
    <3>2. PICK f : Flattens(s, k, f)
      BY <2>1, <3>1
    <3>3. PICK g : g = [i \in 1..m |-> IF i = m THEN IF i = 1 THEN s[i] ELSE f[i - 1] \o s[i]
                                       ELSE f[i]]
      OBVIOUS
    <3>4. \A i \in 1..k : g[i] = f[i]
      BY <3>1, <3>3
    <3>5. f = [i \in 1..k |-> IF i = 1 THEN s[i] ELSE f[i - 1] \o s[i]]
      BY <3>2 DEF Flattens
    <3>6. ASSUME NEW i \in 1..m
          PROVE  g[i] = IF i = 1 THEN s[i] ELSE g[i - 1] \o s[i]
      <4>1. CASE i = m
        BY <3>1, <3>3, <3>4, <4>1
      <4>2. CASE i # m
        <5>1. i \in 1..k /\ (i # 1 => i - 1 \in 1..k)
          BY <3>1, <4>2
        <5>2. f[i] = IF i = 1 THEN s[i] ELSE f[i - 1] \o s[i]
          BY <3>5, <5>1
        <5>3. QED
          BY <3>4, <5>1, <5>2
      <4>3. QED
        BY <4>1, <4>2
    <3>7. g = [i \in 1..m |-> IF i = 1 THEN s[i] ELSE g[i - 1] \o s[i]]
      BY <3>3, <3>6
    <3>8. QED
      BY <2>1, <3>7 DEF Flattens
  <2>4. QED
    BY <2>2, <2>3
<1>2. QED
  BY <1>1

LEMMA FlatIs ==
    ASSUME NEW s, Len(s) \in Nat, Len(s) # 0
    PROVE  \E f : Flattens(s, Len(s), f) /\ FlattenSeq(s) = f[Len(s)]
<1>1. PICK f : f = CHOOSE g : Flattens(s, Len(s), g)
  OBVIOUS
<1>2. Flattens(s, Len(s), f)
  BY <1>1, FlatteningExists
<1>3. FlattenSeq(s) = f[Len(s)]
  BY <1>1 DEF FlattenSeq, Flattens
<1>4. QED
  BY <1>2, <1>3

\* Pictures in the order of their sort orders are typed.
LEMMA FlatTyped ==
    ASSUME NEW S, NEW n \in Nat, NEW s \in [1..n -> Seq(S)]
    PROVE  FlattenSeq(s) \in Seq(S)
<1>1. s \in Seq(Seq(S)) /\ Len(s) = n
  OBVIOUS
<1>2. CASE n = 0
  <2>1. FlattenSeq(s) = s
    BY <1>1, <1>2 DEF FlattenSeq
  <2>2. s = <<>>
    BY <1>1, <1>2
  <2>3. QED
    BY <2>1, <2>2
<1>3. CASE n # 0
  <2>1. PICK f : Flattens(s, n, f) /\ FlattenSeq(s) = f[n]
    BY <1>1, <1>3, FlatIs
  <2>2. f = [i \in 1..n |-> IF i = 1 THEN s[i] ELSE f[i - 1] \o s[i]]
    BY <2>1 DEF Flattens
  <2> DEFINE Bad == {m \in 1..n : f[m] \notin Seq(S)}
  <2>3. ASSUME Bad # {} PROVE FALSE
    <3>1. PICK m \in Bad : \A k \in Bad : m <= k
      <4>1. Bad \in SUBSET Nat
        OBVIOUS
      <4>2. QED
        BY <2>3, <4>1, Smallest
    <3>2. CASE m = 1
      BY <2>2, <3>1, <3>2
    <3>3. CASE m # 1
      <4>1. m \in 1..n /\ m - 1 \in 1..n /\ m - 1 \notin Bad
        BY <3>1, <3>3
      <4>2. f[m - 1] \in Seq(S) /\ s[m] \in Seq(S) /\ f[m] = f[m - 1] \o s[m]
        BY <2>2, <3>3, <4>1
      <4>3. f[m] \in Seq(S)
        BY <4>2, ConcatProperties
      <4>4. QED
        BY <3>1, <4>3
    <3>4. QED
      BY <3>2, <3>3
  <2>4. f[n] \in Seq(S)
    BY <1>3, <2>3
  <2>5. QED
    BY <2>1, <2>4
<1>4. QED
  BY <1>2, <1>3

LEMMA AtIs ==
    ASSUME NEW p \in Seq(Pics), NEW k \in 1..MaxPics
    PROVE  At(p, k) \in Seq(Pics) /\ <<>> \o At(p, k) = At(p, k)
BY CatalogueAssumption DEF At

LEMMA ImagesTyped ==
    ASSUME NEW p \in Seq(Pics)
    PROVE  ImagesOf(p) \in [1..MaxPics -> Seq(Pics)]
BY AtIs DEF ImagesOf

\* What was inserted is read back as it was.
LEMMA PicturesReadBack ==
    ASSUME NEW p \in Seq(Pics), Len(p) <= MaxPics
    PROVE  FlattenSeq(ImagesOf(p)) = p
<1>1. PICK s, n : s = ImagesOf(p) /\ n = MaxPics
  OBVIOUS
<1>2. n \in Nat /\ s \in [1..n -> Seq(Pics)] /\ Len(p) \in Nat /\ Len(p) <= n
  BY <1>1, ImagesTyped, CatalogueAssumption
<1>3. s \in Seq(Seq(Pics)) /\ Len(s) = n
  BY <1>2
<1>4. CASE n = 0
  <2>1. FlattenSeq(s) = s
    BY <1>3, <1>4 DEF FlattenSeq
  <2>2. s = <<>> /\ p = <<>>
    BY <1>2, <1>3, <1>4
  <2>3. QED
    BY <1>1, <2>1, <2>2
<1>5. CASE n # 0
  <2>1. PICK f : Flattens(s, n, f) /\ FlattenSeq(s) = f[n]
    BY <1>2, <1>3, <1>5, FlatIs
  <2>2. f = [i \in 1..n |-> IF i = 1 THEN s[i] ELSE f[i - 1] \o s[i]]
    BY <2>1 DEF Flattens
  <2> DEFINE Upto(m) == IF m <= Len(p) THEN SubSeq(p, 1, m) ELSE p
             Bad == {m \in 1..n : f[m] # Upto(m)}
  <2>3. ASSUME Bad # {} PROVE FALSE
    <3>1. PICK m \in Bad : \A k \in Bad : m <= k
      <4>1. Bad \in SUBSET Nat
        OBVIOUS
      <4>2. QED
        BY <2>3, <4>1, Smallest
    <3>2. m \in 1..n /\ f[m] # Upto(m) /\ s[m] = IF m <= Len(p) THEN <<p[m]>> ELSE <<>>
      BY <1>1, <3>1 DEF ImagesOf, At
    <3>3. CASE m = 1
      <4>1. f[m] = s[m]
        BY <2>2, <3>2, <3>3
      <4>2. CASE m <= Len(p)
        <5>1. SubSeq(p, 1, 1) = <<p[1]>>
          <6>1. SubSeq(p, 1, 1) = SubSeq(p, 1, 0) \o <<p[1]>>
            BY <1>2, <3>3, <4>2, SubSeqRecursiveSecond
          <6>2. SubSeq(p, 1, 0) = <<>> /\ p[1] \in Pics
            BY <1>2, <3>3, <4>2, SubSeqEmpty
          <6>3. <<p[1]>> \in Seq(Pics)
            BY <6>2
          <6>4. <<>> \o <<p[1]>> = <<p[1]>>
            BY <6>3, ConcatEmptySeq
          <6>5. QED
            BY <6>1, <6>2, <6>4
        <5>2. QED
          BY <3>2, <3>3, <4>1, <4>2, <5>1
      <4>3. CASE ~(m <= Len(p))
        <5>1. p = <<>>
          BY <1>2, <3>3, <4>3
        <5>2. QED
          BY <3>2, <4>1, <4>3, <5>1
      <4>4. QED
        BY <4>2, <4>3
    <3>4. CASE m # 1
      <4>1. m - 1 \in 1..n /\ m - 1 \notin Bad
        BY <1>2, <3>1, <3>2, <3>4
      <4>2. f[m - 1] = Upto(m - 1) /\ f[m] = f[m - 1] \o s[m]
        BY <2>2, <3>2, <3>4, <4>1
      <4>3. CASE m <= Len(p)
        <5>1. f[m] = SubSeq(p, 1, m - 1) \o <<p[m]>>
          BY <1>2, <3>2, <4>1, <4>2, <4>3
        <5>2. SubSeq(p, 1, m - 1) \o <<p[m]>> = SubSeq(p, 1, m)
          BY <1>2, <3>2, <4>1, <4>3
        <5>3. QED
          BY <3>2, <4>3, <5>1, <5>2
      <4>4. CASE ~(m <= Len(p))
        <5>1. Upto(m - 1) = p
          BY <1>2, <3>2, <4>1, <4>4
        <5>2. f[m] = p \o <<>>
          BY <3>2, <4>2, <4>4, <5>1
        <5>3. f[m] = p
          BY <5>2
        <5>4. QED
          BY <3>2, <4>4, <5>3
      <4>5. QED
        BY <4>3, <4>4
    <3>5. QED
      BY <3>3, <3>4
  <2>4. f[n] = Upto(n)
    <3>1. n \in 1..n
      BY <1>2, <1>5
    <3>2. Bad = {}
      BY <2>3
    <3>3. QED
      BY <3>1, <3>2
  <2>5. Upto(n) = p
    BY <1>2
  <2>6. QED
    BY <1>1, <2>1, <2>4, <2>5
<1>6. QED
  BY <1>4, <1>5

-----------------------------------------------------------------------------
\* Requests

Fields == {"kind", "room", "body", "from", "to", "guests", "pool", "lounge", "step",
           "found", "nights", "amount", "page", "heard", "alone"}
Kinds == Writes \cup {"room", "list", "days", "search", "book"}
Steps == Ends \cup {"find", "save", "clear", "insert", "images", "calendar", "row", "rows",
                    "facilities"}

\* The type of a request, field by field.
Typed(job) ==
    /\ job = [f \in Fields |-> job[f]]
    /\ job.kind \in Kinds /\ job.room \in Rooms \cup {0} /\ job.body \in Content
    /\ job.from \in 0..(LastNight + 1) /\ job.to \in 0..(LastNight + 1)
    /\ job.guests \in 0..MaxCapacity /\ job.pool \in 0..MaxCapacity /\ job.lounge \in 0..MaxCapacity
    /\ job.step \in Steps
    /\ job.found \in Listing /\ job.nights \in SUBSET Nights /\ job.amount \in Nat
    /\ job.page \in BOOLEAN /\ job.heard \in BOOLEAN /\ job.alone \in BOOLEAN

LEMMA JobsAre ==
    ASSUME NEW job
    PROVE  Typed(job) <=> job \in Jobs
<1>1. ASSUME job \in Jobs PROVE Typed(job)
  BY <1>1 DEF Jobs, Typed, Fields, Kinds, Steps
<1>2. ASSUME Typed(job) PROVE job \in Jobs
  BY <1>2 DEF Jobs, Typed, Fields, Kinds, Steps
<1>3. QED
  BY <1>1, <1>2

LEMMA NoContentIs == NoContent \in Content /\ NoContent.cap = 0 /\ NoContent.pics = <<>>
<1>1. <<>> \in [1..0 -> Pics] /\ 0 \in 0..MaxPics /\ 0 \in 0..MaxCapacity
  BY CatalogueAssumption
<1>2. <<>> \in BoundedSeq(Pics, MaxPics)
  BY <1>1 DEF BoundedSeq, SeqOf
<1>3. QED
  BY <1>1, <1>2 DEF NoContent, Content

LEMMA BoundedIs ==
    ASSUME NEW p
    PROVE  p \in BoundedSeq(Pics, MaxPics) <=> p \in Seq(Pics) /\ Len(p) <= MaxPics
<1>1. ASSUME p \in BoundedSeq(Pics, MaxPics) PROVE p \in Seq(Pics) /\ Len(p) <= MaxPics
  BY <1>1, CatalogueAssumption DEF BoundedSeq, SeqOf
<1>2. ASSUME p \in Seq(Pics), Len(p) <= MaxPics PROVE p \in BoundedSeq(Pics, MaxPics)
  <2>1. Len(p) \in 0..MaxPics /\ p \in [1..Len(p) -> Pics]
    BY <1>2, CatalogueAssumption
  <2>2. QED
    BY <2>1 DEF BoundedSeq, SeqOf
<1>3. QED
  BY <1>1, <1>2

LEMMA RequestIs ==
    ASSUME NEW kind \in Kinds, NEW r \in Rooms \cup {0}
    PROVE  LET a == Request(kind, r) IN
           /\ Typed(a) /\ a.kind = kind /\ a.room = r /\ a.step = "find"
           /\ a.body = NoContent /\ a.from = 0
<1>1. Nothing \in Listing
  <2>1. NoContent \in [cap : 0..MaxCapacity, pics : Seq(Pics)]
    BY CatalogueAssumption DEF NoContent
  <2>2. QED
    BY <2>1 DEF Nothing, Listing
<1>2. /\ 0 \in 0..(LastNight + 1) /\ 0 \in 0..MaxCapacity /\ "find" \in Steps
  BY CatalogueAssumption DEF Steps
<1>3. QED
  BY <1>1, <1>2, NoContentIs DEF Request, Typed, Fields

LEMMA JobIs ==
    ASSUME ServiceTypeOK, NEW q \in Slots
    PROVE  /\ jobs[q] = Free \/ Typed(jobs[q])
           /\ jobs[q] # Free <=> jobs[q].kind # "none"
           /\ jobs = [s \in Slots |-> jobs[s]]
<1>1. jobs[q] \in Jobs \cup {Free} /\ jobs = [s \in Slots |-> jobs[s]]
  BY DEF ServiceTypeOK
<1>2. Typed(jobs[q]) => jobs[q].kind # "none"
  BY DEF Typed, Kinds, Writes
<1>3. QED
  BY <1>1, <1>2, JobsAre DEF Free

-----------------------------------------------------------------------------
\* What does not disturb the writes

SameWrite(j, k) ==
    /\ k.kind = j.kind /\ k.room = j.room /\ k.body = j.body /\ k.step = j.step
    /\ k.alone = j.alone

\* Every write that is midway stays where it is, and none begins.
WritesRest ==
    \A s \in Slots : /\ Writing(s) => SameWrite(jobs[s], jobs'[s])
                     /\ Writing(s)' => Writing(s)

LEMMA Undisturbed ==
    ASSUME BodyFacts, WriteFacts, WritesRest, UNCHANGED <<rooms, images, days, saved, mixed>>
    PROVE  WriteFacts'
<1>1. \A s \in Slots : Writing(s)' <=> Writing(s)
  BY DEF WritesRest, SameWrite, Writing
<1>2. AloneFacts'
  BY <1>1 DEF WriteFacts, AloneFacts, WritesRest, SameWrite
<1>3. StageFacts'
  BY <1>1 DEF WriteFacts, StageFacts, WritesRest, SameWrite, NoImages
<1>4. NightFacts'
  <2>1. ASSUME NEW q \in Slots, jobs'[q].kind = "delete", jobs'[q].step = "row", NEW n \in Nights
        PROVE  days'[jobs'[q].room][n] = "none"
    <3>1. Writing(q)
      BY <1>1, <2>1 DEF Writing, Writes, Ends
    <3>2. jobs[q].kind = "delete" /\ jobs[q].step = "row" /\ jobs'[q].room = jobs[q].room
      BY <2>1, <3>1 DEF WritesRest, SameWrite
    <3>3. jobs[q].room \in Rooms /\ days[jobs[q].room][n] = "none"
      BY <2>1, <3>1, <3>2 DEF BodyFacts, WriteFacts, NightFacts
    <3>4. QED
      BY <3>2, <3>3
  <2>2. \A r \in Rooms : rooms'[r] = 0 => \A n \in Nights : days'[r][n] = "none"
    BY DEF WriteFacts, NightFacts
  <2>3. QED
    BY <2>1, <2>2 DEF NightFacts
<1>5. RestFacts'
  <2>1. ASSUME NEW r \in Rooms, r \notin mixed,
               \A q \in Slots : Writing(q)' => jobs'[q].room # r
        PROVE  rooms[r] = saved[r].cap /\ PicsOf(r) = saved[r].pics
    <3>1. \A q \in Slots : Writing(q) => jobs[q].room # r
      BY <1>1, <2>1 DEF WritesRest, SameWrite
    <3>2. QED
      BY <2>1, <3>1 DEF WriteFacts, RestFacts
  <2>2. QED
    BY <2>1 DEF RestFacts, PicsOf
<1>6. QED
  BY <1>2, <1>3, <1>4, <1>5 DEF WriteFacts

-----------------------------------------------------------------------------
\* Requests are sent

\* What a page that goes elsewhere makes of the requests: what it does not wait for any
\* more is given up when it is a load, and goes on unheard when it is a write.
Carries(before) ==
    /\ before = [s \in Slots |-> before[s]]
    /\ \A s \in Slots :
         \/ before[s] = Free /\ ~Writing(s)
         \/ /\ Typed(before[s]) /\ SameWrite(jobs[s], before[s])
            /\ before[s].from = jobs[s].from /\ before[s].found = jobs[s].found
            /\ before[s].kind = "room" => at' = at
            /\ before[s].kind = "days" => at' = at /\ month' = month

NewRequest(a) ==
    /\ Typed(a) /\ a.step = "find"
    /\ a.kind \notin {"search", "book"}
    /\ a.kind = "room" => a.room = at'
    /\ a.kind = "days" => a.room = at' /\ a.from = month'
    /\ a.kind \in {"update", "create"} => a.body.cap # 0
    /\ a.kind = "delete" => a.body = NoContent
    /\ a.kind \in {"update", "delete"} => a.room \in Rooms

LEMMA SendingIs ==
    ASSUME NEW todo, NEW before, Sending(todo, before)
    PROVE  /\ jobs' = [q \in Slots |-> jobs'[q]]
           /\ \A q \in Slots : jobs'[q] = before[q] \/ (before[q] = Free /\ jobs'[q] \in todo)
<1>1. PICK place \in [todo -> {q \in Slots : before[q] = Free}] :
         jobs' = [q \in Slots |-> IF \E a \in todo : place[a] = q
                                  THEN CHOOSE a \in todo : place[a] = q ELSE before[q]]
  BY DEF Sending
<1>2. ASSUME NEW q \in Slots
      PROVE  jobs'[q] = before[q] \/ (before[q] = Free /\ jobs'[q] \in todo)
  <2>1. CASE \E a \in todo : place[a] = q
    <3>1. jobs'[q] = CHOOSE a \in todo : place[a] = q
      BY <1>1, <2>1
    <3>2. before[q] = Free
      BY <2>1
    <3>3. QED
      BY <2>1, <3>1, <3>2
  <2>2. CASE ~ \E a \in todo : place[a] = q
    BY <1>1, <2>2
  <2>3. QED
    BY <2>1, <2>2
<1>3. QED
  BY <1>1, <1>2

LEMMA CallsTyped ==
    ASSUME NEW todo, NEW before, IsFiniteSet(todo), Sending(todo, before), calls \in 0..MaxCalls
    PROVE  calls' \in 0..MaxCalls
<1>1. PICK new : new = {a \in todo : a.kind \in Changes}
  OBVIOUS
<1>2. Cardinality(new) \in Nat
  BY <1>1, FS_Subset, FS_CardinalityType
<1>3. calls' = calls + Cardinality(new) /\ calls' <= MaxCalls
  BY <1>1 DEF Sending
<1>4. QED
  BY <1>2, <1>3, CatalogueAssumption

ServiceFacts == ServiceTypeOK /\ LoadFacts /\ BodyFacts /\ WriteFacts

LEMMA SendingKeeps ==
    ASSUME ServiceFacts, NEW todo, NEW before, Sending(todo, before), Carries(before),
           IsFiniteSet(todo), \A a \in todo : NewRequest(a),
           UNCHANGED <<catalogue, faults, saved, mixed>>
    PROVE  ServiceFacts'
<1>1. /\ ServiceTypeOK /\ LoadFacts /\ BodyFacts /\ WriteFacts
      /\ UNCHANGED <<rooms, images, days, lastRoom, faults, saved, mixed>>
  BY DEF ServiceFacts, catalogue
<1>2. /\ jobs' = [q \in Slots |-> jobs'[q]]
      /\ \A q \in Slots : jobs'[q] = before[q] \/ (before[q] = Free /\ jobs'[q] \in todo)
  BY SendingIs
<1>3. ASSUME NEW q \in Slots
      PROVE  \/ jobs'[q] = Free /\ ~Writing(q)
             \/ NewRequest(jobs'[q]) /\ ~Writing(q)
             \/ /\ Typed(jobs'[q]) /\ SameWrite(jobs[q], jobs'[q])
                /\ jobs'[q].from = jobs[q].from /\ jobs'[q].found = jobs[q].found
                /\ jobs'[q].kind = "room" => at' = at
                /\ jobs'[q].kind = "days" => at' = at /\ month' = month
  <2>1. CASE jobs'[q] = before[q]
    BY <2>1 DEF Carries
  <2>2. CASE before[q] = Free /\ jobs'[q] \in todo
    <3>1. ~Typed(Free)
      BY DEF Free, Typed, Kinds, Writes
    <3>2. QED
      BY <2>2, <3>1 DEF Carries
  <2>3. QED
    BY <1>2, <2>1, <2>2
<1>4. ASSUME NEW q \in Slots PROVE jobs'[q] \in Jobs \cup {Free}
  BY <1>3, JobsAre DEF NewRequest
<1>5. ServiceTypeOK'
  <2>1. jobs' \in [Slots -> Jobs \cup {Free}]
    BY <1>2, <1>4
  <2>2. calls' \in 0..MaxCalls
    BY <1>1, CallsTyped DEF ServiceTypeOK
  <2>3. QED
    BY <1>1, <2>1, <2>2 DEF ServiceTypeOK
<1>6. LoadFacts'
  <2>1. ASSUME NEW q \in Slots
        PROVE  /\ jobs'[q].kind = "room" =>
                    /\ jobs'[q].room = at'
                    /\ jobs'[q].step \in {"images", "ok"} => jobs'[q].found[at'].cap # 0
               /\ jobs'[q].kind = "days" => jobs'[q].room = at' /\ jobs'[q].from = month'
    <3>1. CASE jobs'[q] = Free
      BY <3>1 DEF Free
    <3>2. CASE NewRequest(jobs'[q])
      BY <3>2 DEF NewRequest
    <3>3. CASE SameWrite(jobs[q], jobs'[q])
               /\ jobs'[q].from = jobs[q].from /\ jobs'[q].found = jobs[q].found
               /\ (jobs'[q].kind = "room" => at' = at)
               /\ (jobs'[q].kind = "days" => at' = at /\ month' = month)
      BY <1>1, <3>3 DEF LoadFacts, SameWrite
    <3>4. QED
      BY <1>3, <3>1, <3>2, <3>3
  <2>2. QED
    BY <2>1 DEF LoadFacts
<1>7. ASSUME NEW q \in Slots, jobs'[q] = Free \/ NewRequest(jobs'[q])
      PROVE  ~(Writing(q)')
  BY <1>7 DEF NewRequest, Writing, Free, Writes
<1>8. WritesRest
  BY <1>3, <1>7 DEF WritesRest, SameWrite, Writing
<1>9. WriteFacts'
  BY <1>1, <1>8, Undisturbed
<1>10. BodyFacts'
  <2>1. ASSUME NEW q \in Slots
        PROVE  /\ jobs'[q].kind \notin {"search", "book"}
               /\ jobs'[q].kind \in {"update", "create"} => jobs'[q].body.cap # 0
               /\ jobs'[q].kind = "delete" => jobs'[q].body = NoContent
               /\ jobs'[q].kind \in {"update", "delete"} \/ Writing(q)' => jobs'[q].room \in Rooms
    <3>1. CASE jobs'[q] = Free
      BY <1>7, <3>1 DEF Free
    <3>2. CASE NewRequest(jobs'[q])
      BY <1>7, <3>2 DEF NewRequest
    <3>3. CASE SameWrite(jobs[q], jobs'[q])
      BY <1>1, <3>3 DEF BodyFacts, SameWrite, Writing
    <3>4. QED
      BY <1>3, <3>1, <3>2, <3>3
  <2>2. QED
    BY <2>1 DEF BodyFacts, NoContent
<1>11. QED
  BY <1>5, <1>6, <1>9, <1>10 DEF ServiceFacts

-----------------------------------------------------------------------------
\* Requests are served that move no write

\* What becomes of the request q when it goes on.
GoesOn(q, x) ==
    /\ Typed(x) /\ x.kind = jobs[q].kind /\ x.room = jobs[q].room /\ x.body = jobs[q].body
    /\ x.from = jobs[q].from
    /\ x.kind = "room" /\ x.step \in {"images", "ok"} => x.found[x.room].cap # 0

LEMMA QuietStep ==
    ASSUME ServiceFacts, NEW q \in Slots, NEW x, jobs' = [jobs EXCEPT ![q] = x],
           ~Writing(q), x = Free \/ (GoesOn(q, x) /\ (x.kind \in Writes => x.step \in Ends \cup {"find"})),
           UNCHANGED <<rooms, images, days, lastRoom, saved, mixed, at, month>>,
           calls' \in 0..MaxCalls, faults' \in 0..MaxFaults
    PROVE  ServiceFacts'
<1>1. ServiceTypeOK /\ LoadFacts /\ BodyFacts /\ WriteFacts
  BY DEF ServiceFacts
<1>2. jobs \in [Slots -> Jobs \cup {Free}]
  BY <1>1 DEF ServiceTypeOK
<1>3. /\ jobs'[q] = x /\ \A s \in Slots \ {q} : jobs'[s] = jobs[s]
      /\ jobs' = [s \in Slots |-> jobs'[s]]
  BY <1>2
<1>4. ServiceTypeOK'
  <2>1. x \in Jobs \cup {Free}
    BY JobsAre DEF GoesOn
  <2>2. jobs' \in [Slots -> Jobs \cup {Free}]
    BY <1>2, <2>1
  <2>3. QED
    BY <1>1, <2>2 DEF ServiceTypeOK
<1>5. LoadFacts'
  <2>1. ASSUME NEW s \in Slots
        PROVE  /\ jobs'[s].kind = "room" =>
                    /\ jobs'[s].room = at
                    /\ jobs'[s].step \in {"images", "ok"} => jobs'[s].found[at].cap # 0
               /\ jobs'[s].kind = "days" => jobs'[s].room = at /\ jobs'[s].from = month
    <3>1. CASE s # q
      BY <1>1, <1>3, <3>1 DEF LoadFacts
    <3>2. CASE s = q /\ x = Free
      BY <1>3, <3>2 DEF Free
    <3>3. CASE s = q /\ GoesOn(q, x)
      BY <1>1, <1>3, <3>3 DEF LoadFacts, GoesOn
    <3>4. QED
      BY <3>1, <3>2, <3>3
  <2>2. QED
    BY <2>1 DEF LoadFacts
<1>6. ~(Writing(q)')
  BY <1>3 DEF Writing, Free, Writes
<1>7. WritesRest
  BY <1>3, <1>6 DEF WritesRest, SameWrite, Writing
<1>8. WriteFacts'
  BY <1>1, <1>7, Undisturbed
<1>9. BodyFacts'
  <2>1. ASSUME NEW s \in Slots
        PROVE  /\ jobs'[s].kind \notin {"search", "book"}
               /\ jobs'[s].kind \in {"update", "create"} => jobs'[s].body.cap # 0
               /\ jobs'[s].kind = "delete" => jobs'[s].body = NoContent
               /\ jobs'[s].kind \in {"update", "delete"} \/ Writing(s)' => jobs'[s].room \in Rooms
    <3>1. CASE s # q
      BY <1>1, <1>3, <3>1 DEF BodyFacts, Writing
    <3>2. CASE s = q /\ x = Free
      BY <1>3, <1>6, <3>2 DEF Free
    <3>3. CASE s = q /\ GoesOn(q, x)
      BY <1>1, <1>3, <1>6, <3>3 DEF BodyFacts, GoesOn
    <3>4. QED
      BY <3>1, <3>2, <3>3
  <2>2. QED
    BY <2>1 DEF BodyFacts, NoContent
<1>10. QED
  BY <1>4, <1>5, <1>8, <1>9 DEF ServiceFacts

LEMMA BecomesIs ==
    ASSUME ServiceTypeOK, NEW q \in Slots, jobs[q] # Free, NEW step \in Steps, Becomes(q, step)
    PROVE  \E x : /\ jobs' = [jobs EXCEPT ![q] = x]
                  /\ \/ x = Free /\ step \in Ends
                     \/ /\ Typed(x) /\ x.step = step /\ x.kind = jobs[q].kind
                        /\ x.room = jobs[q].room /\ x.body = jobs[q].body
                        /\ x.from = jobs[q].from /\ x.found = jobs[q].found
                        /\ x.alone = jobs[q].alone
<1>1. Typed(jobs[q]) /\ jobs = [s \in Slots |-> jobs[s]]
  BY JobIs
<1>2. CASE step \in Ends /\ ~jobs[q].page
  <2>1. jobs' = [jobs EXCEPT ![q] = Free]
    BY <1>1, <1>2 DEF Becomes
  <2>2. QED
    BY <1>2, <2>1
<1>3. CASE ~(step \in Ends /\ ~jobs[q].page)
  <2>1. PICK x : x = [jobs[q] EXCEPT !.step = step]
    OBVIOUS
  <2>2. jobs' = [jobs EXCEPT ![q] = x]
    BY <1>1, <1>3, <2>1 DEF Becomes
  <2>3. /\ Typed(x) /\ x.step = step /\ x.kind = jobs[q].kind
        /\ x.room = jobs[q].room /\ x.body = jobs[q].body
        /\ x.from = jobs[q].from /\ x.found = jobs[q].found
        /\ x.alone = jobs[q].alone
    BY <1>1, <2>1 DEF Typed, Fields
  <2>4. QED
    BY <2>2, <2>3
<1>4. QED
  BY <1>2, <1>3

LEMMA EndsQuietly ==
    ASSUME ServiceFacts, NEW q \in Slots, jobs[q] # Free, ~Writing(q),
           NEW step \in {"refused", "failed"}, Becomes(q, step),
           UNCHANGED <<catalogue, saved, mixed, at, month>>,
           calls' \in 0..MaxCalls, faults' \in 0..MaxFaults
    PROVE  ServiceFacts'
<1>1. ServiceTypeOK /\ step \in Steps /\ step \in Ends /\ step \notin {"images", "ok"}
  BY DEF ServiceFacts, Steps, Ends
<1>2. PICK x : /\ jobs' = [jobs EXCEPT ![q] = x]
               /\ \/ x = Free
                  \/ /\ Typed(x) /\ x.step = step /\ x.kind = jobs[q].kind
                     /\ x.room = jobs[q].room /\ x.body = jobs[q].body
                     /\ x.from = jobs[q].from
  BY <1>1, BecomesIs
<1>3. x = Free \/ (GoesOn(q, x) /\ (x.kind \in Writes => x.step \in Ends \cup {"find"}))
  BY <1>1, <1>2 DEF GoesOn
<1>4. UNCHANGED <<rooms, images, days, lastRoom>>
  BY DEF catalogue
<1>5. QED
  BY <1>2, <1>3, <1>4, QuietStep

LEMMA ListingIs ==
    ASSUME NEW found
    PROVE  /\ found \in Listing => \A r \in Rooms : /\ found[r].cap \in 0..MaxCapacity
                                                    /\ found[r].pics \in Seq(Pics)
           /\ NoContent \in [cap : 0..MaxCapacity, pics : Seq(Pics)]
BY CatalogueAssumption DEF Listing, NoContent

LEMMA RowsTyped ==
    ASSUME ServiceTypeOK, NEW R
    PROVE  /\ Only(R, Row) \in Listing
           /\ \A r \in Rooms \cap R : Only(R, Row)[r].cap = rooms[r]
<1>1. \A r \in Rooms : Row(r) \in [cap : 0..MaxCapacity, pics : Seq(Pics)] /\ Row(r).cap = rooms[r]
  BY DEF ServiceTypeOK, Row
<1>2. QED
  BY <1>1, ListingIs DEF Only, Listing

LEMMA PicsTyped ==
    ASSUME ServiceTypeOK, NEW r \in Rooms
    PROVE  PicsOf(r) \in Seq(Pics)
<1>1. images[r] \in [1..MaxPics -> Seq(Pics)] /\ MaxPics \in Nat
  BY CatalogueAssumption DEF ServiceTypeOK
<1>2. QED
  BY <1>1, FlatTyped DEF PicsOf

LEMMA RoomsAreRead ==
    ASSUME ServiceFacts, at \in Rooms, NEW q \in Slots, ReadRooms(q),
           UNCHANGED <<calls, faults, at, month>>
    PROVE  ServiceFacts'
<1>1. /\ ServiceTypeOK /\ jobs[q] # Free /\ jobs[q].kind \in {"room", "list"}
      /\ UNCHANGED <<catalogue, saved, mixed>>
  BY DEF ServiceFacts, ReadRooms, Free, Unwritten
<1>2. Typed(jobs[q]) /\ jobs = [s \in Slots |-> jobs[s]]
  BY <1>1, JobIs
<1>3. PICK x : /\ jobs' = [jobs EXCEPT ![q] = x]
               /\ GoesOn(q, x)
  <2>1. CASE jobs[q].step = "find"
    <3>1. PICK R : /\ R = IF jobs[q].kind = "room" THEN Present \cap {jobs[q].room} ELSE Present
                   /\ jobs[q].kind = "list" \/ R # {}
                   /\ jobs' = [jobs EXCEPT ![q].step = "images", ![q].found = Only(R, Row)]
      BY <1>1, <2>1 DEF ReadRooms
    <3>2. PICK found : found = Only(R, Row)
      OBVIOUS
    <3>3. found \in Listing /\ \A r \in Rooms \cap R : found[r].cap = rooms[r]
      BY <1>1, <3>2, RowsTyped
    <3>4. PICK x : x = [jobs[q] EXCEPT !.step = "images", !.found = found]
      OBVIOUS
    <3>5. jobs' = [jobs EXCEPT ![q] = x]
      BY <1>2, <3>1, <3>2, <3>4
    <3>6. /\ Typed(x) /\ x.kind = jobs[q].kind /\ x.room = jobs[q].room /\ x.body = jobs[q].body
          /\ x.from = jobs[q].from /\ x.found = found
      BY <1>2, <3>3, <3>4 DEF Typed, Fields, Steps
    <3>7. jobs[q].kind = "room" => jobs[q].room \in Rooms \cap R /\ rooms[jobs[q].room] # 0
      BY <3>1 DEF Present
    <3>8. QED
      BY <3>3, <3>5, <3>6, <3>7 DEF GoesOn
  <2>2. CASE jobs[q].step # "find"
    <3>1. PICK before : before = jobs[q].found
      OBVIOUS
    <3>2. PICK found : found = [r \in Rooms |-> IF before[r] = NoContent THEN NoContent
                                                ELSE [before[r] EXCEPT !.pics = PicsOf(r)]]
      OBVIOUS
    <3>3. jobs[q].step = "images"
          /\ jobs' = [jobs EXCEPT ![q].step = "ok",
                        ![q].found = [r \in Rooms |-> IF @[r] = NoContent THEN NoContent
                                                     ELSE [@[r] EXCEPT !.pics = PicsOf(r)]]]
      BY <1>1, <2>2 DEF ReadRooms
    <3>4. PICK x : x = [jobs[q] EXCEPT !.step = "ok", !.found = found]
      OBVIOUS
    <3>5. jobs' = [jobs EXCEPT ![q] = x]
      BY <1>2, <3>1, <3>2, <3>3, <3>4 DEF Typed, Fields
    <3>6. before \in Listing
      BY <1>2, <3>1 DEF Typed
    <3>7. ASSUME NEW r \in Rooms
          PROVE  /\ found[r] \in [cap : 0..MaxCapacity, pics : Seq(Pics)]
                 /\ found[r].cap = before[r].cap
      <4>1. before[r] \in [cap : 0..MaxCapacity, pics : Seq(Pics)] /\ PicsOf(r) \in Seq(Pics)
        BY <1>1, <3>6, PicsTyped DEF Listing
      <4>2. QED
        BY <3>2, <4>1, ListingIs
    <3>8. found \in Listing
      BY <3>2, <3>7 DEF Listing
    <3>9. /\ Typed(x) /\ x.kind = jobs[q].kind /\ x.room = jobs[q].room /\ x.body = jobs[q].body
          /\ x.from = jobs[q].from /\ x.found = found
      BY <1>2, <3>4, <3>8 DEF Typed, Fields, Steps, Ends
    <3>10. jobs[q].kind = "room" => at \in Rooms /\ jobs[q].room = at /\ before[at].cap # 0
      <4>1. ASSUME jobs[q].kind = "room"
            PROVE  jobs[q].room = at /\ before[at].cap # 0
        BY <3>1, <3>3, <4>1 DEF ServiceFacts, LoadFacts
      <4>2. QED
        BY <4>1
    <3>11. x.kind = "room" => x.found[x.room].cap # 0
      BY <3>7, <3>9, <3>10
    <3>12. GoesOn(q, x)
      BY <3>9, <3>11 DEF GoesOn
    <3>13. QED
      BY <3>5, <3>12
  <2>3. QED
    BY <2>1, <2>2
<1>4. /\ x.kind \notin Writes /\ ~Writing(q)
  BY <1>1, <1>3 DEF GoesOn, Writes, Writing
<1>5. /\ UNCHANGED <<rooms, images, days, lastRoom>>
      /\ calls' \in 0..MaxCalls /\ faults' \in 0..MaxFaults
  BY <1>1 DEF catalogue, ServiceTypeOK
<1>6. QED
  BY <1>1, <1>3, <1>4, <1>5, QuietStep

LEMMA NightsAreRead ==
    ASSUME ServiceFacts, NEW q \in Slots, GetRoomAvailability(q),
           UNCHANGED <<calls, faults, at, month>>
    PROVE  ServiceFacts'
<1>1. /\ ServiceTypeOK /\ jobs[q] # Free /\ jobs[q].kind = "days"
      /\ UNCHANGED <<catalogue, saved, mixed>>
  BY DEF ServiceFacts, GetRoomAvailability, Free, Unwritten
<1>2. Typed(jobs[q]) /\ jobs = [s \in Slots |-> jobs[s]]
  BY <1>1, JobIs
<1>3. PICK r, f, t, nights :
        /\ r = jobs[q].room /\ f = jobs[q].from /\ t = jobs[q].to
        /\ nights = {n \in Nights : n \in f .. t /\ days[r][n] # "none"}
  OBVIOUS
<1>4. PICK x : x = [jobs[q] EXCEPT !.step = "ok", !.nights = nights]
  OBVIOUS
<1>5. jobs' = [jobs EXCEPT ![q] = x]
  <2>1. jobs' = [jobs EXCEPT ![q].step = "ok", ![q].nights = nights]
    BY <1>3 DEF GetRoomAvailability
  <2>2. QED
    BY <1>2, <1>4, <2>1
<1>6. /\ Typed(x) /\ x.kind = jobs[q].kind /\ x.room = jobs[q].room /\ x.body = jobs[q].body
      /\ x.from = jobs[q].from
  BY <1>2, <1>3, <1>4 DEF Typed, Fields, Steps, Ends
<1>7. GoesOn(q, x) /\ x.kind \notin Writes /\ ~Writing(q)
  BY <1>1, <1>6 DEF GoesOn, Writes, Writing
<1>8. /\ UNCHANGED <<rooms, images, days, lastRoom>>
      /\ calls' \in 0..MaxCalls /\ faults' \in 0..MaxFaults
  BY <1>1 DEF catalogue, ServiceTypeOK
<1>9. QED
  BY <1>1, <1>5, <1>7, <1>8, QuietStep

\* A request that is refused.
LEMMA RefusesKeep ==
    ASSUME ServiceFacts, NEW q \in Slots, Refuse(q), UNCHANGED <<calls, faults, at, month>>
    PROVE  ServiceFacts'
<1>1. /\ jobs[q] # Free /\ ~Writing(q) /\ Becomes(q, "refused")
      /\ UNCHANGED <<catalogue, saved, mixed>>
  BY DEF Refuse, Unwritten, Free, Writing
<1>2. calls' \in 0..MaxCalls /\ faults' \in 0..MaxFaults
  BY DEF ServiceFacts, ServiceTypeOK
<1>3. QED
  BY <1>1, <1>2, EndsQuietly

-----------------------------------------------------------------------------
\* Writes are served

\* Only writes change, and they keep what they carry.
OnlyWrites ==
    /\ jobs' = [s \in Slots |-> jobs'[s]]
    /\ \A s \in Slots :
         \/ jobs'[s] = jobs[s]
         \/ /\ jobs[s].kind \in Writes
            /\ \/ jobs'[s] = Free
               \/ /\ Typed(jobs'[s]) /\ jobs'[s].kind = jobs[s].kind
                  /\ jobs'[s].body = jobs[s].body /\ jobs'[s].room \in Rooms

LEMMA WritesCarry ==
    ASSUME ServiceTypeOK, LoadFacts, BodyFacts, OnlyWrites, UNCHANGED <<at, month>>
    PROVE  jobs' \in [Slots -> Jobs \cup {Free}] /\ LoadFacts' /\ BodyFacts'
<1>1. jobs' \in [Slots -> Jobs \cup {Free}]
  <2>1. \A s \in Slots : jobs'[s] \in Jobs \cup {Free}
    BY JobsAre DEF OnlyWrites, ServiceTypeOK
  <2>2. QED
    BY <2>1 DEF OnlyWrites
<1>2. LoadFacts'
  <2>1. ASSUME NEW s \in Slots, jobs'[s].kind \in {"room", "days"} PROVE jobs'[s] = jobs[s]
    BY <2>1 DEF OnlyWrites, Writes, Free
  <2>2. QED
    BY <2>1 DEF LoadFacts
<1>3. BodyFacts'
  <2>1. ASSUME NEW s \in Slots
        PROVE  /\ jobs'[s].kind \notin {"search", "book"}
               /\ jobs'[s].kind \in {"update", "create"} => jobs'[s].body.cap # 0
               /\ jobs'[s].kind = "delete" => jobs'[s].body = NoContent
               /\ jobs'[s].kind \in {"update", "delete"} \/ Writing(s)' => jobs'[s].room \in Rooms
    <3>1. CASE jobs'[s] = jobs[s]
      BY <3>1 DEF BodyFacts, Writing
    <3>2. CASE jobs'[s] = Free
      BY <3>2 DEF Free, Writing, Writes
    <3>3. CASE Typed(jobs'[s]) /\ jobs'[s].kind = jobs[s].kind /\ jobs'[s].body = jobs[s].body
               /\ jobs'[s].room \in Rooms
      BY <3>3 DEF BodyFacts
    <3>4. QED
      BY <3>1, <3>2, <3>3 DEF OnlyWrites
  <2>2. QED
    BY <2>1 DEF BodyFacts, NoContent
<1>4. QED
  BY <1>1, <1>2, <1>3

\* The tables change for the room r only.
OnlyRoom(r) ==
    /\ rooms' \in [Rooms -> 0..MaxCapacity] /\ lastRoom' \in SeededRooms..MaxRooms
    /\ images' \in [Rooms -> [1..MaxPics -> Seq(Pics)]]
    /\ days' \in [Rooms -> [Nights -> {"none", "open", "taken"}]]
    /\ \A s \in Rooms \ {r} : rooms'[s] = rooms[s] /\ images'[s] = images[s] /\ days'[s] = days[s]
    /\ \A n \in Nights : r \in Rooms /\ days[r][n] = "none" => days'[r][n] = "none"
    /\ r \in Rooms /\ rooms'[r] = 0 => \A n \in Nights : days'[r][n] = "none"

LEMMA NightsGoWithTheRoom ==
    ASSUME WriteFacts, BodyFacts, NEW r, OnlyRoom(r), NEW q \in Slots,
           jobs'[q].kind = "delete" /\ jobs'[q].step = "row" =>
              jobs'[q].room \in Rooms /\ \A n \in Nights : days'[jobs'[q].room][n] = "none",
           \A s \in Slots \ {q} : jobs'[s].kind = "delete" /\ jobs'[s].step = "row" =>
              jobs[s].kind = "delete" /\ jobs[s].step = "row" /\ jobs'[s].room = jobs[s].room
    PROVE  NightFacts'
<1>1. ASSUME NEW x \in Rooms, \A n \in Nights : days[x][n] = "none"
      PROVE  \A n \in Nights : days'[x][n] = "none"
  BY <1>1 DEF OnlyRoom
<1>2. ASSUME NEW x \in Rooms, rooms'[x] = 0 PROVE \A n \in Nights : days'[x][n] = "none"
  BY <1>1, <1>2 DEF OnlyRoom, WriteFacts, NightFacts
<1>3. ASSUME NEW s \in Slots, jobs'[s].kind = "delete", jobs'[s].step = "row"
      PROVE  \A n \in Nights : days'[jobs'[s].room][n] = "none"
  <2>1. CASE s = q
    BY <1>3, <2>1
  <2>2. CASE s # q
    <3>1. jobs[s].kind = "delete" /\ jobs[s].step = "row" /\ jobs'[s].room = jobs[s].room
      BY <1>3, <2>2
    <3>2. jobs[s].room \in Rooms /\ \A n \in Nights : days[jobs[s].room][n] = "none"
      BY <3>1 DEF BodyFacts, WriteFacts, NightFacts
    <3>3. QED
      BY <1>1, <3>1, <3>2
  <2>3. QED
    BY <2>1, <2>2
<1>4. QED
  BY <1>2, <1>3 DEF NightFacts

\* Between two steps of a write.
LEMMA WriteAdvances ==
    ASSUME ServiceFacts, NEW q \in Slots, Writing(q), NEW r, r = jobs[q].room,
           NEW step \in {"clear", "insert", "calendar", "row"}, Becomes(q, step),
           OnlyRoom(r), UNCHANGED <<saved, mixed, calls, faults, at, month>>,
           jobs[q].kind \in {"update", "create"} /\ jobs[q].alone =>
              /\ rooms'[r] = jobs[q].body.cap
              /\ step = "insert" => images'[r] = NoImages,
           jobs[q].kind = "delete" =>
              /\ step \in {"calendar", "row"} /\ jobs[q].alone => images'[r] = NoImages
              /\ step = "row" => \A n \in Nights : days'[r][n] = "none"
    PROVE  ServiceFacts'
<1>1. /\ ServiceTypeOK /\ LoadFacts /\ BodyFacts
      /\ WriteFacts /\ AloneFacts /\ StageFacts /\ RestFacts
      /\ r \in Rooms /\ jobs[q].kind \in Writes /\ jobs[q] # Free
  BY DEF ServiceFacts, WriteFacts, BodyFacts, Writing, Writes, Free
<1>2. step \in Steps /\ step \notin Ends \cup {"find"}
  BY DEF Steps, Ends
<1>3. PICK x : /\ jobs' = [jobs EXCEPT ![q] = x]
               /\ Typed(x) /\ x.step = step /\ x.kind = jobs[q].kind
               /\ x.room = r /\ x.body = jobs[q].body /\ x.alone = jobs[q].alone
  BY <1>1, <1>2, BecomesIs
<1>4. /\ jobs'[q] = x /\ \A s \in Slots \ {q} : jobs'[s] = jobs[s]
      /\ jobs' = [s \in Slots |-> jobs'[s]]
  BY <1>1, <1>3 DEF ServiceTypeOK
<1>5. OnlyWrites
  BY <1>1, <1>3, <1>4 DEF OnlyWrites
<1>6. jobs' \in [Slots -> Jobs \cup {Free}] /\ LoadFacts' /\ BodyFacts'
  BY <1>1, <1>5, WritesCarry
<1>7. ServiceTypeOK'
  BY <1>1, <1>6 DEF ServiceTypeOK, OnlyRoom
<1>8. \A s \in Slots : /\ Writing(s)' <=> Writing(s)
                       /\ Writing(s) => jobs'[s].room = jobs[s].room /\ jobs'[s].alone = jobs[s].alone
  BY <1>1, <1>2, <1>3, <1>4 DEF Writing
<1>9. AloneFacts'
  BY <1>1, <1>8 DEF AloneFacts
<1>10. StageFacts'
  <2>1. ASSUME NEW s \in Slots, Writing(s), jobs'[s].alone
        PROVE  /\ jobs'[s].kind \in {"update", "create"} /\ jobs'[s].step \in {"clear", "insert"} =>
                    rooms'[jobs'[s].room] = jobs'[s].body.cap
               /\ jobs'[s].kind \in {"update", "create"} /\ jobs'[s].step = "insert" =>
                    images'[jobs'[s].room] = NoImages
               /\ jobs'[s].kind = "delete" /\ jobs'[s].step \in {"calendar", "row"} =>
                    images'[jobs'[s].room] = NoImages
    <3>1. CASE s = q
      BY <1>3, <1>4, <2>1, <3>1
    <3>2. CASE s # q
      <4>1. jobs'[s] = jobs[s] /\ jobs[s].alone
        BY <1>4, <2>1, <3>2
      <4>2. jobs[s].room # r
        BY <1>1, <2>1, <3>2, <4>1 DEF AloneFacts
      <4>3. jobs[s].room \in Rooms
        BY <1>1, <2>1 DEF BodyFacts
      <4>4. rooms'[jobs[s].room] = rooms[jobs[s].room] /\ images'[jobs[s].room] = images[jobs[s].room]
        BY <4>2, <4>3 DEF OnlyRoom
      <4>5. QED
        BY <1>1, <2>1, <4>1, <4>4 DEF StageFacts
    <3>3. QED
      BY <3>1, <3>2
  <2>2. QED
    BY <1>8, <2>1 DEF StageFacts, NoImages
<1>11. NightFacts'
  BY <1>1, <1>3, <1>4, NightsGoWithTheRoom
<1>12. RestFacts'
  <2>1. ASSUME NEW s \in Rooms, s \notin mixed, \A t \in Slots : Writing(t)' => jobs'[t].room # s
        PROVE  rooms'[s] = saved[s].cap /\ FlattenSeq(images'[s]) = saved[s].pics
    <3>1. \A t \in Slots : Writing(t) => jobs[t].room # s
      BY <1>8, <2>1
    <3>2. rooms'[s] = rooms[s] /\ images'[s] = images[s]
      BY <3>1 DEF OnlyRoom
    <3>3. QED
      BY <1>1, <2>1, <3>1, <3>2 DEF RestFacts, PicsOf
  <2>2. QED
    BY <2>1 DEF RestFacts, PicsOf
<1>13. QED
  BY <1>6, <1>7, <1>9, <1>10, <1>11, <1>12 DEF ServiceFacts, WriteFacts

\* The last step of a write.
LEMMA WriteEnds ==
    ASSUME ServiceFacts, NEW q \in Slots, Writing(q), NEW r, r = jobs[q].room, End(q),
           OnlyRoom(r), UNCHANGED <<calls, faults, at, month>>,
           jobs[q].alone => rooms'[r] = jobs[q].body.cap /\ FlattenSeq(images'[r]) = jobs[q].body.pics
    PROVE  ServiceFacts'
<1>1. /\ ServiceTypeOK /\ LoadFacts /\ BodyFacts
      /\ WriteFacts /\ AloneFacts /\ StageFacts /\ RestFacts
      /\ r \in Rooms /\ jobs[q].kind \in Writes /\ jobs[q] # Free /\ Typed(jobs[q])
  BY JobIs DEF ServiceFacts, WriteFacts, BodyFacts, Writing, Writes, Free
<1>2. "ok" \in Steps /\ "ok" \in Ends
  BY DEF Steps, Ends
<1>3. /\ Becomes(q, "ok")
      /\ saved' = IF jobs[q].alone THEN [saved EXCEPT ![r] = jobs[q].body] ELSE saved
      /\ mixed' = IF jobs[q].alone THEN mixed \ {r} ELSE mixed
  BY DEF End
<1>4. PICK x : /\ jobs' = [jobs EXCEPT ![q] = x]
               /\ \/ x = Free
                  \/ /\ Typed(x) /\ x.step = "ok" /\ x.kind = jobs[q].kind
                     /\ x.room = r /\ x.body = jobs[q].body
  BY <1>1, <1>2, <1>3, BecomesIs
<1>5. /\ jobs'[q] = x /\ \A s \in Slots \ {q} : jobs'[s] = jobs[s]
      /\ jobs' = [s \in Slots |-> jobs'[s]]
  BY <1>1, <1>4 DEF ServiceTypeOK
<1>6. OnlyWrites
  BY <1>1, <1>4, <1>5 DEF OnlyWrites
<1>7. jobs' \in [Slots -> Jobs \cup {Free}] /\ LoadFacts' /\ BodyFacts'
  BY <1>1, <1>6, WritesCarry
<1>8. ServiceTypeOK'
  <2>1. saved' \in [Rooms -> Content] /\ mixed' \subseteq Rooms
    <3>1. jobs[q].body \in Content /\ saved \in [Rooms -> Content] /\ mixed \subseteq Rooms
      BY <1>1 DEF ServiceTypeOK, Typed
    <3>2. QED
      BY <1>1, <1>3, <3>1
  <2>2. QED
    BY <1>1, <1>7, <2>1 DEF ServiceTypeOK, OnlyRoom
<1>9. ~(Writing(q)') /\ \A s \in Slots \ {q} : Writing(s)' <=> Writing(s)
  BY <1>2, <1>4, <1>5 DEF Writing, Free, Writes
<1>10. AloneFacts'
  <2>1. ASSUME NEW s \in Slots \ {q}, Writing(s), ~jobs[s].alone PROVE jobs[s].room \in mixed'
    <3>1. jobs[s].room \in mixed
      BY <1>1, <2>1 DEF AloneFacts
    <3>2. jobs[q].alone => jobs[s].room # r
      BY <1>1, <2>1 DEF AloneFacts
    <3>3. QED
      BY <1>3, <3>1, <3>2
  <2>2. ASSUME NEW s \in Slots \ {q}, Writing(s), jobs[s].alone, NEW t \in Slots \ {q}, Writing(t),
               jobs[t].room = jobs[s].room
        PROVE  t = s
    BY <1>1, <2>2 DEF AloneFacts
  <2>3. QED
    BY <1>5, <1>9, <2>1, <2>2 DEF AloneFacts
<1>11. StageFacts'
  <2>1. ASSUME NEW s \in Slots \ {q}, Writing(s), jobs[s].alone
        PROVE  /\ jobs[s].kind \in {"update", "create"} /\ jobs[s].step \in {"clear", "insert"} =>
                    rooms'[jobs[s].room] = jobs[s].body.cap
               /\ jobs[s].kind \in {"update", "create"} /\ jobs[s].step = "insert" =>
                    images'[jobs[s].room] = NoImages
               /\ jobs[s].kind = "delete" /\ jobs[s].step \in {"calendar", "row"} =>
                    images'[jobs[s].room] = NoImages
    <3>1. jobs[s].room # r
      BY <1>1, <2>1 DEF AloneFacts
    <3>2. jobs[s].room \in Rooms
      BY <1>1, <2>1 DEF BodyFacts
    <3>3. rooms'[jobs[s].room] = rooms[jobs[s].room] /\ images'[jobs[s].room] = images[jobs[s].room]
      BY <3>1, <3>2 DEF OnlyRoom
    <3>4. QED
      BY <1>1, <2>1, <3>3 DEF StageFacts
  <2>2. ASSUME NEW s \in Slots, Writing(s)'
        PROVE  s \in Slots \ {q} /\ Writing(s) /\ jobs'[s] = jobs[s]
    BY <1>5, <1>9, <2>2
  <2>3. ASSUME NEW s \in Slots, Writing(s)', jobs'[s].alone
        PROVE  /\ jobs'[s].kind \in {"update", "create"} /\ jobs'[s].step \in {"clear", "insert"} =>
                    rooms'[jobs'[s].room] = jobs'[s].body.cap
               /\ jobs'[s].kind \in {"update", "create"} /\ jobs'[s].step = "insert" =>
                    images'[jobs'[s].room] = NoImages
               /\ jobs'[s].kind = "delete" /\ jobs'[s].step \in {"calendar", "row"} =>
                    images'[jobs'[s].room] = NoImages
    BY <2>1, <2>2, <2>3
  <2>4. QED
    BY <2>3 DEF StageFacts, NoImages
<1>12. NightFacts'
  <2>1. ~(jobs'[q].kind = "delete" /\ jobs'[q].step = "row")
    BY <1>4, <1>5 DEF Free
  <2>2. QED
    BY <1>1, <1>5, <2>1, NightsGoWithTheRoom
<1>13. RestFacts'
  <2>1. ASSUME NEW s \in Rooms, s \notin mixed', \A t \in Slots : Writing(t)' => jobs'[t].room # s
        PROVE  rooms'[s] = saved'[s].cap /\ FlattenSeq(images'[s]) = saved'[s].pics
    <3>1. CASE s = r
      <4>1. jobs[q].alone
        BY <1>1, <1>3, <2>1, <3>1 DEF AloneFacts
      <4>2. saved'[r] = jobs[q].body
        BY <1>1, <1>3, <4>1 DEF ServiceTypeOK
      <4>3. QED
        BY <3>1, <4>1, <4>2
    <3>2. CASE s # r
      <4>1. \A t \in Slots : Writing(t) => jobs[t].room # s
        BY <1>5, <1>9, <2>1, <3>2
      <4>2. rooms'[s] = rooms[s] /\ images'[s] = images[s]
        BY <3>2 DEF OnlyRoom
      <4>3. s \notin mixed /\ saved'[s] = saved[s]
        BY <1>1, <1>3, <2>1, <3>2 DEF ServiceTypeOK
      <4>4. QED
        BY <1>1, <4>1, <4>2, <4>3 DEF RestFacts, PicsOf
    <3>3. QED
      BY <3>1, <3>2
  <2>2. QED
    BY <2>1 DEF RestFacts, PicsOf
<1>14. QED
  BY <1>7, <1>8, <1>10, <1>11, <1>12, <1>13 DEF ServiceFacts, WriteFacts

\* A write that fails half-way.
LEMMA WriteFails ==
    ASSUME ServiceFacts, NEW q \in Slots, Writing(q), Becomes(q, "failed"),
           mixed' = mixed \cup {jobs[q].room}, faults' \in 0..MaxFaults,
           UNCHANGED <<catalogue, saved, calls, at, month>>
    PROVE  ServiceFacts'
<1>1. /\ ServiceTypeOK /\ LoadFacts /\ BodyFacts
      /\ WriteFacts /\ AloneFacts /\ StageFacts /\ RestFacts /\ NightFacts
      /\ jobs[q].room \in Rooms /\ jobs[q].kind \in Writes /\ jobs[q] # Free
      /\ UNCHANGED <<rooms, images, days, lastRoom>>
  BY DEF ServiceFacts, WriteFacts, BodyFacts, Writing, Writes, Free, catalogue
<1>2. "failed" \in Steps /\ "failed" \in Ends
  BY DEF Steps, Ends
<1>3. PICK x : /\ jobs' = [jobs EXCEPT ![q] = x]
               /\ \/ x = Free
                  \/ /\ Typed(x) /\ x.step = "failed" /\ x.kind = jobs[q].kind
                     /\ x.room = jobs[q].room /\ x.body = jobs[q].body
  BY <1>1, <1>2, BecomesIs
<1>4. /\ jobs'[q] = x /\ \A s \in Slots \ {q} : jobs'[s] = jobs[s]
      /\ jobs' = [s \in Slots |-> jobs'[s]]
  BY <1>1, <1>3 DEF ServiceTypeOK
<1>5. OnlyWrites
  BY <1>1, <1>3, <1>4 DEF OnlyWrites
<1>6. jobs' \in [Slots -> Jobs \cup {Free}] /\ LoadFacts' /\ BodyFacts'
  BY <1>1, <1>5, WritesCarry
<1>7. ServiceTypeOK'
  BY <1>1, <1>6 DEF ServiceTypeOK
<1>8. ~(Writing(q)') /\ \A s \in Slots \ {q} : Writing(s)' <=> Writing(s)
  BY <1>2, <1>3, <1>4 DEF Writing, Free, Writes
<1>9. AloneFacts'
  BY <1>1, <1>4, <1>8 DEF AloneFacts
<1>10. StageFacts'
  BY <1>1, <1>4, <1>8 DEF StageFacts, NoImages
<1>11. NightFacts'
  <2>1. ~(jobs'[q].kind = "delete" /\ jobs'[q].step = "row")
    BY <1>3, <1>4 DEF Free
  <2>2. QED
    BY <1>1, <1>4, <2>1 DEF NightFacts
<1>12. RestFacts'
  BY <1>1, <1>4, <1>8 DEF RestFacts, PicsOf
<1>13. QED
  BY <1>6, <1>7, <1>9, <1>10, <1>11, <1>12 DEF ServiceFacts, WriteFacts

\* A write that another one crosses.
LEMMA CrossedIs ==
    ASSUME NEW job, Typed(job)
    PROVE  LET x == [job EXCEPT !.alone = FALSE] IN
           /\ Typed(x) /\ x.kind = job.kind /\ x.room = job.room /\ x.body = job.body
           /\ x.step = job.step /\ ~x.alone
BY DEF Typed, Fields

\* The first step of a write.
LEMMA WriteBegins ==
    ASSUME ServiceFacts, NEW q \in Slots, jobs[q].kind \in Writes, jobs[q].step = "find",
           NEW r \in Rooms, NEW step \in {"clear", "save", "images"}, Begin(q, r, step),
           OnlyRoom(r), UNCHANGED <<calls, faults, at, month>>,
           jobs[q].kind \in {"update", "create"} /\ step = "clear" => rooms'[r] = jobs[q].body.cap
    PROVE  ServiceFacts'
<1>1. /\ ServiceTypeOK /\ LoadFacts /\ BodyFacts
      /\ WriteFacts /\ AloneFacts /\ StageFacts /\ RestFacts
      /\ jobs[q] # Free /\ Typed(jobs[q]) /\ ~Writing(q)
  BY JobIs DEF ServiceFacts, WriteFacts, Free, Writing, Writes
<1>2. step \in Steps /\ step \notin Ends \cup {"find"}
  BY DEF Steps, Ends
<1>3. \A s \in Slots : s \in Midway(r) <=> Writing(s) /\ jobs[s].room = r
  BY DEF Midway, Writing
<1>4. PICK b \in BOOLEAN : b = (Midway(r) = {})
  OBVIOUS
<1>5. jobs' = [s \in Slots |->
          IF s = q THEN [jobs[q] EXCEPT !.room = r, !.step = step, !.alone = b]
          ELSE IF s \in Midway(r) THEN [jobs[s] EXCEPT !.alone = FALSE] ELSE jobs[s]]
  BY <1>4 DEF Begin
<1>6. /\ jobs' = [s \in Slots |-> jobs'[s]]
      /\ Typed(jobs'[q]) /\ jobs'[q].kind = jobs[q].kind /\ jobs'[q].room = r
      /\ jobs'[q].body = jobs[q].body /\ jobs'[q].step = step
      /\ (jobs'[q].alone <=> b)
  <2>1. jobs'[q] = [jobs[q] EXCEPT !.room = r, !.step = step, !.alone = b]
    BY <1>5
  <2>2. PICK job, x : job = jobs[q] /\ x = [job EXCEPT !.room = r, !.step = step, !.alone = b]
    OBVIOUS
  <2>3. Typed(job)
    BY <1>1, <2>2
  <2>4. /\ Typed(x) /\ x.kind = job.kind /\ x.room = r /\ x.body = job.body
        /\ x.step = step /\ (x.alone <=> b)
    <3>1. CASE b
      <4>1. x = [job EXCEPT !.room = r, !.step = step, !.alone = TRUE]
        BY <2>2, <3>1
      <4>2. QED
        BY <1>2, <2>3, <3>1, <4>1 DEF Typed, Fields
    <3>2. CASE ~b
      <4>1. x = [job EXCEPT !.room = r, !.step = step, !.alone = FALSE]
        BY <2>2, <3>2
      <4>2. QED
        BY <1>2, <2>3, <3>2, <4>1 DEF Typed, Fields
    <3>3. QED
      BY <3>1, <3>2
  <2>5. jobs'[q] = x
    BY <2>1, <2>2
  <2>6. QED
    BY <1>5, <2>2, <2>4, <2>5
<1>7. ASSUME NEW s \in Slots \ {q}, Writing(s), jobs[s].room = r
      PROVE  /\ Typed(jobs'[s]) /\ jobs'[s].kind = jobs[s].kind /\ jobs'[s].room = r
             /\ jobs'[s].body = jobs[s].body /\ jobs'[s].step = jobs[s].step
             /\ ~jobs'[s].alone
  <2>1. Typed(jobs[s])
    BY <1>1, <1>7, JobIs DEF Writing, Writes, Free
  <2>2. jobs'[s] = [jobs[s] EXCEPT !.alone = FALSE]
    BY <1>3, <1>5, <1>7
  <2>3. QED
    BY <1>7, <2>1, <2>2, CrossedIs
<1>8. \A s \in Slots \ {q} : ~(Writing(s) /\ jobs[s].room = r) => jobs'[s] = jobs[s]
  BY <1>3, <1>5
<1>9. OnlyWrites
  <2>1. ASSUME NEW s \in Slots
        PROVE  \/ jobs'[s] = jobs[s]
               \/ /\ jobs[s].kind \in Writes
                  /\ \/ jobs'[s] = Free
                     \/ /\ Typed(jobs'[s]) /\ jobs'[s].kind = jobs[s].kind
                        /\ jobs'[s].body = jobs[s].body /\ jobs'[s].room \in Rooms
    <3>1. CASE s = q
      BY <1>6, <3>1
    <3>2. CASE s # q /\ Writing(s) /\ jobs[s].room = r
      BY <1>7, <3>2 DEF Writing
    <3>3. CASE s # q /\ ~(Writing(s) /\ jobs[s].room = r)
      BY <1>8, <3>3
    <3>4. QED
      BY <3>1, <3>2, <3>3
  <2>2. QED
    BY <1>6, <2>1 DEF OnlyWrites
<1>10. jobs' \in [Slots -> Jobs \cup {Free}] /\ LoadFacts' /\ BodyFacts'
  BY <1>1, <1>9, WritesCarry
<1>11. /\ saved' = saved
       /\ mixed' = IF Midway(r) = {} THEN mixed ELSE mixed \cup {r}
       /\ mixed' \subseteq Rooms
  BY <1>1 DEF Begin, ServiceTypeOK
<1>12. ServiceTypeOK'
  BY <1>1, <1>10, <1>11 DEF ServiceTypeOK, OnlyRoom
<1>13. Writing(q)' /\ \A s \in Slots \ {q} : Writing(s)' <=> Writing(s)
  BY <1>2, <1>6, <1>7, <1>8 DEF Writing
<1>14. AloneFacts'
  <2>1. ASSUME NEW s \in Slots, Writing(s)', ~jobs'[s].alone PROVE jobs'[s].room \in mixed'
    <3>1. CASE s = q
      BY <1>4, <1>6, <1>11, <2>1, <3>1
    <3>2. CASE s # q /\ Writing(s) /\ jobs[s].room = r
      BY <1>3, <1>7, <1>11, <3>2
    <3>3. CASE s # q /\ Writing(s) /\ jobs[s].room # r
      BY <1>1, <1>8, <1>11, <2>1, <3>3 DEF AloneFacts
    <3>4. QED
      BY <1>13, <2>1, <3>1, <3>2, <3>3
  <2>2. ASSUME NEW s \in Slots, Writing(s)', jobs'[s].alone,
               NEW t \in Slots, Writing(t)', jobs'[t].room = jobs'[s].room
        PROVE  t = s
    <3>1. CASE s = q
      BY <1>3, <1>4, <1>6, <1>7, <1>8, <1>13, <2>2, <3>1
    <3>2. CASE s # q
      <4>1. jobs[s].room # r /\ jobs'[s] = jobs[s] /\ Writing(s)
        BY <1>7, <1>8, <1>13, <2>2, <3>2
      <4>2. t # q
        BY <1>6, <2>2, <4>1
      <4>3. Writing(t) /\ jobs'[t].room = jobs[t].room
        BY <1>7, <1>8, <1>13, <2>2, <4>2
      <4>4. QED
        BY <1>1, <2>2, <4>1, <4>3 DEF AloneFacts
    <3>3. QED
      BY <3>1, <3>2
  <2>3. QED
    BY <2>1, <2>2 DEF AloneFacts
<1>15. StageFacts'
  <2>1. ASSUME NEW s \in Slots, Writing(s)', jobs'[s].alone
        PROVE  /\ jobs'[s].kind \in {"update", "create"} /\ jobs'[s].step \in {"clear", "insert"} =>
                    rooms'[jobs'[s].room] = jobs'[s].body.cap
               /\ jobs'[s].kind \in {"update", "create"} /\ jobs'[s].step = "insert" =>
                    images'[jobs'[s].room] = NoImages
               /\ jobs'[s].kind = "delete" /\ jobs'[s].step \in {"calendar", "row"} =>
                    images'[jobs'[s].room] = NoImages
    <3>1. CASE s = q
      BY <1>6, <3>1
    <3>2. CASE s # q
      <4>1. jobs[s].room # r /\ jobs'[s] = jobs[s] /\ Writing(s)
        BY <1>7, <1>8, <1>13, <2>1, <3>2
      <4>2. jobs[s].room \in Rooms
        BY <1>1, <4>1 DEF BodyFacts
      <4>3. rooms'[jobs[s].room] = rooms[jobs[s].room] /\ images'[jobs[s].room] = images[jobs[s].room]
        BY <4>1, <4>2 DEF OnlyRoom
      <4>4. QED
        BY <1>1, <2>1, <4>1, <4>3 DEF StageFacts
    <3>3. QED
      BY <3>1, <3>2
  <2>2. QED
    BY <2>1 DEF StageFacts, NoImages
<1>16. NightFacts'
  <2>1. ~(jobs'[q].kind = "delete" /\ jobs'[q].step = "row")
    BY <1>6
  <2>2. \A s \in Slots \ {q} : jobs'[s].kind = "delete" /\ jobs'[s].step = "row" =>
              jobs[s].kind = "delete" /\ jobs[s].step = "row" /\ jobs'[s].room = jobs[s].room
    BY <1>7, <1>8
  <2>3. QED
    BY <1>1, <2>1, <2>2, NightsGoWithTheRoom
<1>17. RestFacts'
  <2>1. ASSUME NEW s \in Rooms, s \notin mixed', \A t \in Slots : Writing(t)' => jobs'[t].room # s
        PROVE  rooms'[s] = saved'[s].cap /\ FlattenSeq(images'[s]) = saved'[s].pics
    <3>1. s # r /\ s \notin mixed
      BY <1>6, <1>11, <1>13, <2>1
    <3>2. \A t \in Slots : Writing(t) => jobs[t].room # s
      BY <1>1, <1>7, <1>8, <1>13, <2>1, <3>1
    <3>3. rooms'[s] = rooms[s] /\ images'[s] = images[s]
      BY <3>1 DEF OnlyRoom
    <3>4. QED
      BY <1>1, <1>11, <3>1, <3>2, <3>3 DEF RestFacts, PicsOf
  <2>2. QED
    BY <2>1 DEF RestFacts, PicsOf
<1>18. QED
  BY <1>10, <1>12, <1>14, <1>15, <1>16, <1>17 DEF ServiceFacts, WriteFacts

LEMMA NoImagesIs ==
    /\ NoImages \in [1..MaxPics -> Seq(Pics)] /\ FlattenSeq(NoImages) = <<>>
    /\ \A p \in Seq(Pics) : [k \in 1..MaxPics |-> NoImages[k] \o At(p, k)] = ImagesOf(p)
<1>1. <<>> \in Seq(Pics) /\ Len(<<>>) = 0 /\ Len(<<>>) <= MaxPics
  BY CatalogueAssumption
<1>2. ASSUME NEW k \in 1..MaxPics PROVE At(<<>>, k) = <<>>
  BY <1>1, CatalogueAssumption DEF At
<1>3. NoImages = ImagesOf(<<>>)
  BY <1>2 DEF NoImages, ImagesOf
<1>4. ASSUME NEW p \in Seq(Pics), NEW k \in 1..MaxPics PROVE NoImages[k] \o At(p, k) = At(p, k)
  BY AtIs DEF NoImages
<1>5. QED
  BY <1>1, <1>3, <1>4, ImagesTyped, PicturesReadBack DEF ImagesOf

LEMMA OnlyPictures ==
    ASSUME ServiceFacts, NEW r \in Rooms, NEW x \in [1..MaxPics -> Seq(Pics)],
           images' = [images EXCEPT ![r] = x], UNCHANGED <<rooms, days, lastRoom>>
    PROVE  OnlyRoom(r) /\ images'[r] = x
BY DEF ServiceFacts, ServiceTypeOK, WriteFacts, NightFacts, OnlyRoom

\* The pictures of the request replace those of its room.
LEMMA PicturesReplaced ==
    ASSUME ServiceFacts, NEW q \in Slots, jobs[q].kind \in {"update", "create"},
           ReplaceRoomImages(q), UNCHANGED <<rooms, days, lastRoom, calls, faults, at, month>>
    PROVE  ServiceFacts'
<1>1. PICK r, pics : r = jobs[q].room /\ pics = jobs[q].body.pics
  OBVIOUS
<1>2. jobs[q].step \in {"clear", "insert"}
  BY DEF ReplaceRoomImages
<1>3. Writing(q)
  BY <1>2 DEF Writing, Writes, Ends
<1>4. ServiceTypeOK /\ r \in Rooms /\ Typed(jobs[q]) /\ StageFacts
  BY <1>1, <1>3, JobIs DEF ServiceFacts, BodyFacts, WriteFacts, Free
<1>5. pics \in Seq(Pics) /\ Len(pics) <= MaxPics
  BY <1>1, <1>4, BoundedIs DEF Typed, Content
<1>6. jobs[q].alone => rooms'[r] = jobs[q].body.cap
  BY <1>1, <1>2, <1>3, <1>4 DEF StageFacts
<1>7. CASE jobs[q].step = "clear"
  <2>1. /\ images' = [images EXCEPT ![r] = NoImages]
        /\ IF pics = <<>> THEN End(q) ELSE Becomes(q, "insert") /\ Unwritten
    BY <1>1, <1>7 DEF ReplaceRoomImages
  <2>2. OnlyRoom(r) /\ images'[r] = NoImages
    BY <1>4, <2>1, NoImagesIs, OnlyPictures
  <2>3. CASE pics = <<>>
    <3>1. FlattenSeq(images'[r]) = jobs[q].body.pics
      BY <1>1, <2>2, <2>3, NoImagesIs
    <3>2. End(q)
      BY <2>1, <2>3
    <3>3. QED
      BY <1>1, <1>3, <1>6, <2>2, <3>1, <3>2, WriteEnds
  <2>4. CASE pics # <<>>
    <3>1. Becomes(q, "insert") /\ UNCHANGED <<saved, mixed>>
      BY <2>1, <2>4 DEF Unwritten
    <3>2. QED
      BY <1>1, <1>3, <1>6, <2>2, <3>1, WriteAdvances
  <2>5. QED
    BY <2>3, <2>4
<1>8. CASE jobs[q].step = "insert"
  <2>1. PICK old, new : old = images[r] /\ new = [k \in 1..MaxPics |-> old[k] \o At(pics, k)]
    OBVIOUS
  <2>2. old \in [1..MaxPics -> Seq(Pics)]
    BY <1>4, <2>1 DEF ServiceTypeOK
  <2>3. new \in [1..MaxPics -> Seq(Pics)]
    <3>1. ASSUME NEW k \in 1..MaxPics PROVE new[k] \in Seq(Pics)
      <4>1. old[k] \in Seq(Pics) /\ At(pics, k) \in Seq(Pics) /\ new[k] = old[k] \o At(pics, k)
        BY <1>5, <2>1, <2>2, AtIs
      <4>2. QED
        BY <4>1, ConcatProperties
    <3>2. QED
      BY <2>1, <3>1
  <2>4. images' = [images EXCEPT ![r] = new] /\ End(q)
    BY <1>1, <1>4, <1>8, <2>1 DEF ReplaceRoomImages, ServiceTypeOK
  <2>5. OnlyRoom(r) /\ images'[r] = new
    BY <1>4, <2>3, <2>4, OnlyPictures
  <2>6. ASSUME jobs[q].alone PROVE FlattenSeq(images'[r]) = jobs[q].body.pics
    <3>1. old = NoImages
      BY <1>1, <1>3, <1>4, <1>8, <2>1, <2>6 DEF StageFacts
    <3>2. new = ImagesOf(pics)
      BY <1>5, <2>1, <3>1, NoImagesIs
    <3>3. QED
      BY <1>1, <1>5, <2>5, <3>2, PicturesReadBack
  <2>7. QED
    BY <1>1, <1>3, <1>6, <2>4, <2>5, <2>6, WriteEnds
<1>9. QED
  BY <1>2, <1>7, <1>8

LEMMA OnlyRow ==
    ASSUME ServiceFacts, NEW r \in Rooms, NEW c \in 1..MaxCapacity,
           rooms' = [rooms EXCEPT ![r] = c], UNCHANGED <<images, days>>,
           lastRoom' \in SeededRooms..MaxRooms
    PROVE  OnlyRoom(r) /\ rooms'[r] = c
BY CatalogueAssumption DEF ServiceFacts, ServiceTypeOK, OnlyRoom

\* What a request writes has a capacity.
LEMMA CapacityIs ==
    ASSUME ServiceFacts, NEW q \in Slots, jobs[q].kind \in {"update", "create"}
    PROVE  jobs[q].body.cap \in 1..MaxCapacity
<1>1. Typed(jobs[q]) /\ jobs[q].body.cap # 0
  BY JobIs DEF ServiceFacts, BodyFacts, Free
<1>2. QED
  BY <1>1, CatalogueAssumption DEF Typed, Content

LEMMA RoomIsCreated ==
    ASSUME ServiceFacts, NEW q \in Slots, CreateRoom(q), UNCHANGED <<calls, faults, at, month>>
    PROVE  ServiceFacts'
<1>1. jobs[q].kind = "create" /\ jobs[q].kind \in Writes
  BY DEF CreateRoom, Writes
<1>2. CASE /\ jobs[q].step = "find" /\ lastRoom < MaxRooms /\ lastRoom' = lastRoom + 1
           /\ rooms' = [rooms EXCEPT ![lastRoom'] = jobs[q].body.cap]
           /\ Begin(q, lastRoom + 1, "clear") /\ UNCHANGED <<images, days>>
  <2>1. PICK r, c : r = lastRoom + 1 /\ c = jobs[q].body.cap
    OBVIOUS
  <2>2. r \in Rooms /\ lastRoom' \in SeededRooms..MaxRooms
    BY <1>2, <2>1, CatalogueAssumption DEF ServiceFacts, ServiceTypeOK, Rooms
  <2>3. c \in 1..MaxCapacity
    BY <1>1, <2>1, CapacityIs
  <2>4. OnlyRoom(r) /\ rooms'[r] = c
    BY <1>2, <2>1, <2>2, <2>3, OnlyRow
  <2>5. Begin(q, r, "clear")
    BY <1>2, <2>1
  <2>6. QED
    BY <1>1, <1>2, <2>1, <2>2, <2>4, <2>5, WriteBegins
<1>3. CASE ReplaceRoomImages(q) /\ UNCHANGED <<rooms, days, lastRoom>>
  BY <1>1, <1>3, PicturesReplaced
<1>4. QED
  BY <1>2, <1>3 DEF CreateRoom

LEMMA RoomIsUpdated ==
    ASSUME ServiceFacts, NEW q \in Slots, UpdateRoom(q), UNCHANGED <<calls, faults, at, month>>
    PROVE  ServiceFacts'
<1>1. PICK r : r = jobs[q].room
  OBVIOUS
<1>2. jobs[q].kind = "update" /\ jobs[q].kind \in Writes /\ r \in Rooms
  BY <1>1 DEF UpdateRoom, Writes, ServiceFacts, BodyFacts
<1>3. CASE jobs[q].step = "find" /\ Begin(q, r, "save") /\ UNCHANGED catalogue
  <2>1. OnlyRoom(r)
    BY <1>2, <1>3 DEF catalogue, ServiceFacts, ServiceTypeOK, WriteFacts, NightFacts, OnlyRoom
  <2>2. QED
    BY <1>2, <1>3, <2>1, WriteBegins
<1>4. CASE /\ jobs[q].step = "save" /\ rooms' = [rooms EXCEPT ![r] = jobs[q].body.cap]
           /\ Becomes(q, "clear") /\ UNCHANGED <<images, days, lastRoom>> /\ Unwritten
  <2>1. PICK c : c = jobs[q].body.cap
    OBVIOUS
  <2>2. c \in 1..MaxCapacity
    BY <1>2, <2>1, CapacityIs
  <2>3. lastRoom' \in SeededRooms..MaxRooms
    BY <1>4 DEF ServiceFacts, ServiceTypeOK
  <2>4. OnlyRoom(r) /\ rooms'[r] = c
    BY <1>2, <1>4, <2>1, <2>2, <2>3, OnlyRow
  <2>5. Writing(q)
    BY <1>2, <1>4 DEF Writing, Ends
  <2>6. UNCHANGED <<saved, mixed>>
    BY <1>4 DEF Unwritten
  <2>7. QED
    BY <1>1, <1>2, <1>4, <2>1, <2>4, <2>5, <2>6, WriteAdvances
<1>5. CASE ReplaceRoomImages(q) /\ UNCHANGED <<rooms, days, lastRoom>>
  BY <1>2, <1>5, PicturesReplaced
<1>6. QED
  BY <1>1, <1>3, <1>4, <1>5 DEF UpdateRoom

LEMMA RoomIsDeleted ==
    ASSUME ServiceFacts, NEW q \in Slots, DeleteRoom(q), UNCHANGED <<calls, faults, at, month>>
    PROVE  ServiceFacts'
<1>1. PICK r : r = jobs[q].room
  OBVIOUS
<1>2. jobs[q].kind = "delete" /\ jobs[q].kind \in Writes /\ r \in Rooms /\ jobs[q].body = NoContent
  BY <1>1 DEF DeleteRoom, Writes, ServiceFacts, BodyFacts
<1>3. CASE jobs[q].step = "find" /\ Begin(q, r, "images") /\ UNCHANGED catalogue
  <2>1. OnlyRoom(r)
    BY <1>2, <1>3 DEF catalogue, ServiceFacts, ServiceTypeOK, WriteFacts, NightFacts, OnlyRoom
  <2>2. QED
    BY <1>2, <1>3, <2>1, WriteBegins
<1>4. CASE /\ jobs[q].step = "images" /\ images' = [images EXCEPT ![r] = NoImages]
           /\ Becomes(q, "calendar") /\ UNCHANGED <<rooms, days, lastRoom>> /\ Unwritten
  <2>1. OnlyRoom(r) /\ images'[r] = NoImages
    BY <1>2, <1>4, NoImagesIs, OnlyPictures
  <2>2. Writing(q)
    BY <1>2, <1>4 DEF Writing, Ends
  <2>3. UNCHANGED <<saved, mixed>>
    BY <1>4 DEF Unwritten
  <2>4. QED
    BY <1>1, <1>2, <1>4, <2>1, <2>2, <2>3, WriteAdvances
<1>5. CASE /\ jobs[q].step = "calendar" /\ days' = [days EXCEPT ![r] = [n \in Nights |-> "none"]]
           /\ Becomes(q, "row") /\ UNCHANGED <<rooms, images, lastRoom>> /\ Unwritten
  <2>1. OnlyRoom(r) /\ \A n \in Nights : days'[r][n] = "none"
    BY <1>2, <1>5 DEF ServiceFacts, ServiceTypeOK, OnlyRoom
  <2>2. Writing(q)
    BY <1>2, <1>5 DEF Writing, Ends
  <2>3. UNCHANGED <<saved, mixed>>
    BY <1>5 DEF Unwritten
  <2>4. jobs[q].alone => images'[r] = NoImages
    BY <1>1, <1>2, <1>5, <2>2 DEF ServiceFacts, WriteFacts, StageFacts
  <2>5. QED
    BY <1>1, <1>2, <1>5, <2>1, <2>2, <2>3, <2>4, WriteAdvances
<1>6. CASE /\ jobs[q].step = "row" /\ rooms' = [rooms EXCEPT ![r] = 0]
           /\ End(q) /\ UNCHANGED <<images, days, lastRoom>>
  <2>1. 0 \in 0..MaxCapacity
    BY CatalogueAssumption
  <2>2. \A n \in Nights : days'[r][n] = "none"
    BY <1>1, <1>2, <1>6 DEF ServiceFacts, WriteFacts, NightFacts
  <2>3. OnlyRoom(r) /\ rooms'[r] = 0
    BY <1>2, <1>6, <2>1, <2>2 DEF ServiceFacts, ServiceTypeOK, OnlyRoom
  <2>4. Writing(q)
    BY <1>2, <1>6 DEF Writing, Ends
  <2>5. jobs[q].alone => FlattenSeq(images'[r]) = <<>>
    BY <1>1, <1>2, <1>6, <2>4, NoImagesIs DEF ServiceFacts, WriteFacts, StageFacts
  <2>6. jobs[q].body.cap = 0 /\ jobs[q].body.pics = <<>>
    BY <1>2, NoContentIs
  <2>7. QED
    BY <1>1, <1>6, <2>3, <2>4, <2>5, <2>6, WriteEnds
<1>7. QED
  BY <1>1, <1>3, <1>4, <1>5, <1>6 DEF DeleteRoom

LEMMA ServeKeeps ==
    ASSUME ServiceFacts, at \in Rooms, NEW q \in Slots, Serve(q), UNCHANGED <<at, month>>
    PROVE  ServiceFacts'
<1>1. UNCHANGED <<calls, faults>>
  BY DEF Serve
<1>2. CASE CreateRoom(q)
  BY <1>1, <1>2, RoomIsCreated
<1>3. CASE UpdateRoom(q)
  BY <1>1, <1>3, RoomIsUpdated
<1>4. CASE DeleteRoom(q)
  BY <1>1, <1>4, RoomIsDeleted
<1>5. CASE ReadRooms(q)
  BY <1>1, <1>5, RoomsAreRead
<1>6. CASE GetRoomAvailability(q)
  BY <1>1, <1>6, NightsAreRead
<1>7. CASE SearchAvailableRooms(q) \/ CreateBooking(q)
  BY <1>7 DEF SearchAvailableRooms, CreateBooking, ServiceFacts, BodyFacts
<1>8. CASE Refuse(q)
  BY <1>1, <1>8, RefusesKeep
<1>9. QED
  BY <1>2, <1>3, <1>4, <1>5, <1>6, <1>7, <1>8 DEF Serve

LEMMA FaultKeeps ==
    ASSUME ServiceFacts, NEW q \in Slots, Fault(q), UNCHANGED <<at, month>>
    PROVE  ServiceFacts'
<1>1. /\ jobs[q] # Free /\ Becomes(q, "failed") /\ UNCHANGED <<catalogue, calls, saved>>
      /\ mixed' = IF q \in Midway(jobs[q].room) THEN mixed \cup {jobs[q].room} ELSE mixed
  BY DEF Fault, Free
<1>2. calls' \in 0..MaxCalls /\ faults' \in 0..MaxFaults
  BY CatalogueAssumption DEF Fault, ServiceFacts, ServiceTypeOK
<1>3. q \in Midway(jobs[q].room) <=> Writing(q)
  BY DEF Midway, Writing
<1>4. CASE Writing(q)
  BY <1>1, <1>2, <1>3, <1>4, WriteFails
<1>5. CASE ~Writing(q)
  BY <1>1, <1>2, <1>3, <1>5, EndsQuietly
<1>6. QED
  BY <1>4, <1>5

-----------------------------------------------------------------------------
\* The page

\* What TypeOK says of the page.
PageTyped ==
    /\ view \in {"hotel", "room"} /\ at \in Rooms /\ month \in Months
    /\ shown \in States([state : {"shown"}, of : Rooms, cap : 1..MaxCapacity, pics : Seq(Pics)])
    /\ calendar \in States([state : {"shown"}, of : Rooms, month : Months, nights : SUBSET Nights])
    /\ form \in {Closed} \cup [state : {"open"}, of : Rooms \cup {0}, pics : Seq(Pics)]
    /\ moves \in 0..MaxMoves
    /\ saving \in BOOLEAN /\ deleting \in BOOLEAN /\ crossed \in BOOLEAN
    /\ list \in States([state : {"shown"}, found : Listing])

PageFacts == PageTyped /\ PageShowsItsRoom

LEMMA InvariantIs == IInv <=> ServiceFacts /\ PageFacts
BY DEF IInv, ServiceFacts, PageFacts, TypeOK, PageTyped

\* Loads and new writes are requests that may be sent.
LEMMA LoadsAreNew ==
    ASSUME NEW r \in Rooms, NEW m \in Months, r = at', m = month'
    PROVE  NewRequest(LoadRoom(r)) /\ NewRequest(LoadMonth(r, m)) /\ NewRequest(Request("list", 0))
<1>1. NewRequest(LoadRoom(r)) /\ NewRequest(Request("list", 0))
  <2>1. "room" \in Kinds /\ "list" \in Kinds /\ r \in Rooms \cup {0} /\ 0 \in Rooms \cup {0}
    BY DEF Kinds
  <2>2. QED
    BY <2>1, RequestIs DEF NewRequest, LoadRoom
<1>2. NewRequest(LoadMonth(r, m))
  <2>1. PICK a, b : a = Request("days", r) /\ b = [a EXCEPT !.from = m, !.to = m]
    OBVIOUS
  <2>2. Typed(a) /\ a.kind = "days" /\ a.room = r /\ a.step = "find"
    BY <2>1, RequestIs DEF Kinds
  <2>3. m \in 0..(LastNight + 1)
    BY CatalogueAssumption DEF Months, Nights
  <2>4. Typed(b) /\ b.kind = "days" /\ b.room = r /\ b.step = "find" /\ b.from = m
    BY <2>1, <2>2, <2>3 DEF Typed, Fields
  <2>5. QED
    BY <2>1, <2>4 DEF NewRequest, LoadMonth
<1>3. QED
  BY <1>1, <1>2

\* The loads that are given up, when only loads of the page's room and month go on.
LEMMA UnheardCarries ==
    ASSUME ServiceFacts, NEW kinds, "room" \in kinds \/ at' = at,
           "days" \in kinds \/ (at' = at /\ month' = month)
    PROVE  Carries(Unheard(kinds))
<1>1. PICK before : before = Unheard(kinds)
  OBVIOUS
<1>2. before = [s \in Slots |-> before[s]]
  BY <1>1 DEF Unheard
<1>3. ASSUME NEW s \in Slots
      PROVE  \/ before[s] = Free /\ ~Writing(s)
             \/ /\ Typed(before[s]) /\ SameWrite(jobs[s], before[s])
                /\ before[s].from = jobs[s].from /\ before[s].found = jobs[s].found
                /\ before[s].kind = "room" => at' = at
                /\ before[s].kind = "days" => at' = at /\ month' = month
  <2>1. CASE jobs[s] = Free
    <3>1. before[s] = Free \/ before[s] = [jobs[s] EXCEPT !.heard = FALSE]
      BY <1>1, <2>1 DEF Unheard
    <3>2. [Free EXCEPT !.heard = FALSE] = Free
      BY DEF Free
    <3>3. QED
      BY <2>1, <3>1, <3>2 DEF Free, Writing, Writes
  <2>2. CASE jobs[s] # Free
    <3>1. Typed(jobs[s])
      BY <2>2, JobIs DEF ServiceFacts
    <3>2. CASE jobs[s].kind \notin kinds
      <4>1. before[s] = jobs[s]
        BY <1>1, <3>2 DEF Unheard
      <4>2. QED
        BY <3>1, <3>2, <4>1 DEF SameWrite
    <3>3. CASE jobs[s].kind \in kinds /\ jobs[s].kind \in Loads
      <4>1. before[s] = Free
        BY <1>1, <3>3 DEF Unheard
      <4>2. QED
        BY <3>3, <4>1 DEF Writing, Writes, Loads
    <3>4. CASE jobs[s].kind \in kinds /\ jobs[s].kind \notin Loads
      <4>1. before[s] = [jobs[s] EXCEPT !.heard = FALSE]
        BY <1>1, <3>4 DEF Unheard
      <4>2. /\ Typed(before[s]) /\ SameWrite(jobs[s], before[s])
            /\ before[s].from = jobs[s].from /\ before[s].found = jobs[s].found
        BY <3>1, <4>1 DEF Typed, Fields, SameWrite
      <4>3. before[s].kind \notin {"room", "days"}
        BY <3>4, <4>2 DEF SameWrite, Loads
      <4>4. QED
        BY <4>2, <4>3
    <3>5. QED
      BY <3>2, <3>3, <3>4
  <2>3. QED
    BY <2>1, <2>2
<1>4. QED
  BY <1>1, <1>2, <1>3 DEF Carries

\* A page that has nothing loaded yet.
LEMMA BlankIs ==
    ASSUME PageTyped, Blank, at' \in Rooms, view' \in {"hotel", "room"}, moves' \in 0..MaxMoves,
           saving' \in BOOLEAN, deleting' \in BOOLEAN,
           list' \in States([state : {"shown"}, found : Listing])
    PROVE  PageFacts'
<1>1. /\ shown' = Waiting /\ calendar' = Waiting /\ form' = Closed /\ month' = 1 /\ crossed' = FALSE
  BY DEF Blank
<1>2. 1 \in Months
  BY CatalogueAssumption DEF Months, Nights
<1>3. PageTyped'
  <2>1. shown' \in States([state : {"shown"}, of : Rooms, cap : 1..MaxCapacity, pics : Seq(Pics)])
    BY <1>1 DEF States
  <2>2. calendar' \in States([state : {"shown"}, of : Rooms, month : Months, nights : SUBSET Nights])
    BY <1>1 DEF States
  <2>3. crossed' \in BOOLEAN
    BY <1>1
  <2>4. QED
    BY <1>1, <1>2, <2>1, <2>2, <2>3 DEF PageTyped
<1>4. PageShowsItsRoom'
  BY <1>1 DEF PageShowsItsRoom, Waiting, Closed
<1>5. QED
  BY <1>3, <1>4 DEF PageFacts

LEMMA MoveIs == ASSUME PageTyped, Move PROVE moves' \in 0..MaxMoves
BY RoomsAssumption DEF PageTyped, Move

LEMMA WaitingIs == \A S : Waiting \in States(S) /\ Failed \in States(S)
BY DEF States

\* The requests of a page that is opened.
LEMMA PageIsOpened ==
    ASSUME ServiceFacts, NEW r \in Rooms, at' = r, month' = 1, NEW kinds, {"room", "days"} \subseteq kinds,
           Sending({LoadRoom(r), LoadMonth(r, 1)}, Unheard(kinds)),
           UNCHANGED <<catalogue, faults, saved, mixed>>
    PROVE  ServiceFacts'
<1>1. Carries(Unheard(kinds))
  BY UnheardCarries
<1>2. 1 \in Months
  BY CatalogueAssumption DEF Months, Nights
<1>3. NewRequest(LoadRoom(r)) /\ NewRequest(LoadMonth(r, 1))
  BY <1>2, LoadsAreNew
<1>4. IsFiniteSet({LoadRoom(r), LoadMonth(r, 1)})
  <2>1. IsFiniteSet({LoadRoom(r)})
    BY FS_Singleton
  <2>2. IsFiniteSet({LoadRoom(r)} \cup {LoadMonth(r, 1)})
    BY <2>1, FS_AddElement
  <2>3. {LoadRoom(r), LoadMonth(r, 1)} = {LoadRoom(r)} \cup {LoadMonth(r, 1)}
    OBVIOUS
  <2>4. QED
    BY <2>2, <2>3
<1>5. QED
  BY <1>1, <1>3, <1>4, SendingKeeps

LEMMA RoomPageIsOpened ==
    ASSUME ServiceFacts, PageFacts, NEW r \in Rooms, OpenRoom(r)
    PROVE  ServiceFacts' /\ PageFacts'
<1>1. /\ Move /\ Sending({LoadRoom(r), LoadMonth(r, 1)}, Unheard(Loads \cup Writes))
      /\ view' = "room" /\ at' = r /\ Blank
      /\ saving' = FALSE /\ deleting' = FALSE /\ list' = Waiting
      /\ UNCHANGED <<catalogue, faults, saved, mixed>>
  BY DEF OpenRoom, Left
<1>2. ServiceFacts'
  <2>1. {"room", "days"} \subseteq Loads \cup Writes /\ month' = 1
    BY <1>1 DEF Loads, Blank
  <2>2. QED
    BY <1>1, <2>1, PageIsOpened
<1>3. PageFacts'
  BY <1>1, MoveIs, WaitingIs, BlankIs DEF PageFacts
<1>4. QED
  BY <1>2, <1>3

LEMMA PageJumps ==
    ASSUME ServiceFacts, PageFacts, NEW r \in Rooms, Jump(r)
    PROVE  ServiceFacts' /\ PageFacts'
<1>1. /\ Move /\ Sending({LoadRoom(r), LoadMonth(r, 1)}, Unheard(Loads))
      /\ at' = r /\ Blank
      /\ UNCHANGED <<view, saving, deleting, list>>
      /\ UNCHANGED <<catalogue, faults, saved, mixed>>
  BY DEF Jump
<1>2. ServiceFacts'
  <2>1. {"room", "days"} \subseteq Loads /\ month' = 1
    BY <1>1 DEF Loads, Blank
  <2>2. QED
    BY <1>1, <2>1, PageIsOpened
<1>3. PageFacts'
  <2>1. /\ view' \in {"hotel", "room"} /\ saving' \in BOOLEAN /\ deleting' \in BOOLEAN
        /\ list' \in States([state : {"shown"}, found : Listing])
    BY <1>1 DEF PageFacts, PageTyped
  <2>2. QED
    BY <1>1, <2>1, MoveIs, BlankIs DEF PageFacts
<1>4. QED
  BY <1>2, <1>3

LEMMA MonthChanges ==
    ASSUME ServiceFacts, PageFacts, NEW m \in Months, ChangeMonth(m)
    PROVE  ServiceFacts' /\ PageFacts'
<1>1. /\ Move /\ Sending({LoadMonth(at, m)}, Unheard({"days"}))
      /\ month' = m /\ calendar' = Waiting /\ at' = at
      /\ UNCHANGED <<view, shown, form, saving, deleting, list, crossed>>
      /\ UNCHANGED <<catalogue, faults, saved, mixed>>
  BY DEF ChangeMonth
<1>2. ServiceFacts'
  <2>1. Carries(Unheard({"days"}))
    BY <1>1, UnheardCarries
  <2>2. at \in Rooms /\ at = at' /\ m = month'
    BY <1>1 DEF PageFacts, PageTyped
  <2>3. NewRequest(LoadMonth(at, m))
    BY <2>2, LoadsAreNew
  <2>4. IsFiniteSet({LoadMonth(at, m)})
    BY FS_Singleton
  <2>5. \A a \in {LoadMonth(at, m)} : NewRequest(a)
    BY <2>3
  <2>6. QED
    BY <1>1, <2>1, <2>4, <2>5, SendingKeeps
<1>3. PageFacts'
  <2>1. moves' \in 0..MaxMoves
    BY <1>1, MoveIs DEF PageFacts
  <2>2. calendar' \in States([state : {"shown"}, of : Rooms, month : Months, nights : SUBSET Nights])
    BY <1>1, WaitingIs
  <2>3. PageTyped'
    BY <1>1, <2>1, <2>2 DEF PageFacts, PageTyped
  <2>4. PageShowsItsRoom'
    BY <1>1 DEF PageFacts, PageShowsItsRoom, Waiting
  <2>5. QED
    BY <2>3, <2>4 DEF PageFacts
<1>4. QED
  BY <1>2, <1>3

LEMMA HotelPageIsOpened ==
    ASSUME ServiceFacts, PageFacts, OpenHotel
    PROVE  ServiceFacts' /\ PageFacts'
<1>1. /\ Move /\ Sending({Request("list", 0)}, Unheard(Loads \cup Writes))
      /\ view' = "hotel" /\ list' = Waiting /\ Blank
      /\ saving' = FALSE /\ deleting' = FALSE /\ at' = at
      /\ UNCHANGED <<catalogue, faults, saved, mixed>>
  BY DEF OpenHotel, Left
<1>2. ServiceFacts'
  <2>1. Carries(Unheard(Loads \cup Writes))
    BY UnheardCarries DEF Loads
  <2>2. NewRequest(Request("list", 0))
    <3>1. "list" \in Kinds /\ 0 \in Rooms \cup {0}
      BY DEF Kinds
    <3>2. QED
      BY <3>1, RequestIs DEF NewRequest
  <2>3. \A a \in {Request("list", 0)} : NewRequest(a)
    BY <2>2
  <2>4. IsFiniteSet({Request("list", 0)})
    BY FS_Singleton
  <2>5. QED
    BY <1>1, <2>1, <2>3, <2>4, SendingKeeps
<1>3. PageFacts'
  <2>1. at' \in Rooms
    BY <1>1 DEF PageFacts, PageTyped
  <2>2. QED
    BY <1>1, <2>1, MoveIs, WaitingIs, BlankIs DEF PageFacts
<1>4. QED
  BY <1>2, <1>3

-----------------------------------------------------------------------------
\* The forms

LEMMA ServiceRests ==
    ASSUME ServiceFacts, UNCHANGED <<service, at, month>>
    PROVE  ServiceFacts'
<1>1. ServiceTypeOK /\ LoadFacts /\ BodyFacts /\ WriteFacts
  BY DEF ServiceFacts
<1>2. UNCHANGED <<rooms, images, days, lastRoom, jobs, calls, faults, saved, mixed, at, month>>
  BY DEF service, catalogue
<1>3. WriteFacts'
  <2>1. WritesRest
    BY <1>2 DEF WritesRest, SameWrite, Writing
  <2>2. QED
    BY <1>1, <1>2, <2>1, Undisturbed
<1>4. ServiceTypeOK' /\ LoadFacts'
  BY <1>1, <1>2 DEF ServiceTypeOK, LoadFacts
<1>5. BodyFacts'
  BY <1>1, <1>2 DEF BodyFacts, NoContent, Writing
<1>6. QED
  BY <1>3, <1>4, <1>5 DEF ServiceFacts

LEMMA FormChanges ==
    ASSUME ServiceFacts, PageFacts, NEW f, FormBecomes(f),
           f \in {Closed} \cup [state : {"open"}, of : Rooms \cup {0}, pics : Seq(Pics)],
           view = "room" /\ f # Closed => f.of = at \/ crossed
    PROVE  ServiceFacts' /\ PageFacts'
<1>1. /\ form' = f
      /\ UNCHANGED <<view, at, month, shown, calendar, saving, deleting, list, moves, crossed>>
  BY DEF FormBecomes
<1>2. ServiceFacts'
  BY ServiceRests DEF FormBecomes
<1>3. PageTyped' /\ PageShowsItsRoom'
  BY <1>1 DEF PageFacts, PageTyped, PageShowsItsRoom, Closed
<1>4. QED
  BY <1>2, <1>3 DEF PageFacts

LEMMA ShownIs ==
    ASSUME PageTyped, shown.state = "shown"
    PROVE  shown \in [state : {"shown"}, of : Rooms, cap : 1..MaxCapacity, pics : Seq(Pics)]
BY DEF PageTyped, States, Waiting, Failed

LEMMA FormsChange ==
    ASSUME ServiceFacts, PageFacts,
           OpenEditForm \/ OpenAddForm \/ CloseEditForm \/ CloseAddForm
    PROVE  ServiceFacts' /\ PageFacts'
<1>1. CASE OpenEditForm
  <2>1. PICK f : f = [state |-> "open", of |-> shown.of, pics |-> shown.pics]
    OBVIOUS
  <2>2. f \in [state : {"open"}, of : Rooms \cup {0}, pics : Seq(Pics)] /\ f.of = shown.of
    BY <1>1, <2>1, ShownIs DEF OpenEditForm, PageFacts
  <2>3. view = "room" /\ f # Closed => f.of = at \/ crossed
    BY <1>1, <2>2 DEF OpenEditForm, PageFacts, PageShowsItsRoom
  <2>4. QED
    BY <1>1, <2>1, <2>2, <2>3, FormChanges DEF OpenEditForm
<1>2. CASE OpenAddForm
  <2>1. PICK f : f = [state |-> "open", of |-> 0, pics |-> <<>>]
    OBVIOUS
  <2>2. f \in [state : {"open"}, of : Rooms \cup {0}, pics : Seq(Pics)] /\ view # "room"
    BY <1>2, <2>1 DEF OpenAddForm
  <2>3. QED
    BY <1>2, <2>1, <2>2, FormChanges DEF OpenAddForm
<1>3. CASE CloseEditForm \/ CloseAddForm
  BY <1>3, FormChanges DEF CloseEditForm, CloseAddForm
<1>4. QED
  BY <1>1, <1>2, <1>3

LEMMA EditedIs ==
    ASSUME NEW pics \in Seq(Pics), NEW s \in Edited(pics)
    PROVE  s \in Seq(Pics) /\ Len(s) <= MaxPics
<1>1. ASSUME NEW k \in DOMAIN pics PROVE RemoveAt(pics, k) \in Seq(Pics)
  <2>1. SubSeq(pics, 1, k - 1) \in Seq(Pics) /\ SubSeq(pics, k + 1, Len(pics)) \in Seq(Pics)
    BY <1>1
  <2>2. QED
    BY <2>1, ConcatProperties DEF RemoveAt
<1>2. \A k \in {pics} \cup {RemoveAt(pics, k) : k \in DOMAIN pics} :
         k \in Seq(Pics) /\ \A p \in Pics : Append(k, p) \in Seq(Pics)
  BY <1>1
<1>3. PICK kept : kept = {pics} \cup {RemoveAt(pics, k) : k \in DOMAIN pics}
  OBVIOUS
<1>4. s \in {x \in kept \cup {Append(k, p) : k \in kept, p \in Pics} : Len(x) <= MaxPics}
  BY <1>3 DEF Edited
<1>5. Len(s) <= MaxPics /\ (s \in kept \/ s \in {Append(k, p) : k \in kept, p \in Pics})
  BY <1>4
<1>6. s \in kept \/ \E k \in kept : \E p \in Pics : s = Append(k, p)
  BY <1>5
<1>7. \A k \in kept : k \in Seq(Pics) /\ \A p \in Pics : Append(k, p) \in Seq(Pics)
  BY <1>2, <1>3, Zenon
<1>8. QED
  BY <1>5, <1>6, <1>7

LEMMA JobsCarry ==
    ASSUME ServiceFacts, UNCHANGED <<at, month>>
    PROVE  Carries(jobs)
<1>1. \A s \in Slots : jobs[s] = Free \/ Typed(jobs[s])
  BY JobIs DEF ServiceFacts
<1>2. \A s \in Slots : jobs[s] = Free => ~Writing(s)
  BY DEF Writing, Writes, Free
<1>3. jobs = [s \in Slots |-> jobs[s]]
  BY DEF ServiceFacts, ServiceTypeOK
<1>4. QED
  BY <1>1, <1>2, <1>3 DEF Carries, SameWrite

LEMMA WriteIsNew ==
    ASSUME NEW kind \in Writes, NEW r \in Rooms \cup {0}, kind # "create" => r \in Rooms,
           NEW c \in Content, IF kind = "delete" THEN c = NoContent ELSE c.cap # 0,
           NEW a, a = [Request(kind, r) EXCEPT !.body = c]
    PROVE  NewRequest(a)
<1>1. PICK b : b = Request(kind, r)
  OBVIOUS
<1>2. Typed(b) /\ b.kind = kind /\ b.room = r /\ b.step = "find"
  BY <1>1, RequestIs DEF Kinds
<1>3. Typed(a) /\ a.kind = kind /\ a.room = r /\ a.step = "find" /\ a.body = c
  BY <1>1, <1>2 DEF Typed, Fields
<1>4. QED
  BY <1>3 DEF NewRequest, Writes

LEMMA DeletionIsNew ==
    ASSUME NEW r \in Rooms
    PROVE  NewRequest(Request("delete", r))
BY RequestIs DEF NewRequest, Kinds, Writes

LEMMA OneIsSent ==
    ASSUME ServiceFacts, NEW a, NewRequest(a), Sending({a}, jobs),
           UNCHANGED <<catalogue, faults, saved, mixed, at, month>>
    PROVE  ServiceFacts'
<1>1. IsFiniteSet({a}) /\ \A x \in {a} : NewRequest(x)
  BY FS_Singleton
<1>2. QED
  BY <1>1, JobsCarry, SendingKeeps

LEMMA FormIsSubmitted ==
    ASSUME ServiceFacts, PageFacts, NEW cap \in Capacities, SubmitForm(cap)
    PROVE  ServiceFacts' /\ PageFacts'
<1>1. PageTyped /\ form # Closed /\ saving' = TRUE
      /\ UNCHANGED <<view, at, month, shown, calendar, form, deleting, list, moves, crossed>>
      /\ UNCHANGED <<catalogue, faults, saved, mixed>>
  BY DEF PageFacts, SubmitForm
<1>2. PICK pics \in Edited(form.pics) :
         LET request == IF view = "room" THEN Request("update", at) ELSE Request("create", 0) IN
         Sending({[request EXCEPT !.body = [cap |-> cap, pics |-> pics]]}, jobs)
  BY DEF SubmitForm
<1>3. pics \in Seq(Pics) /\ Len(pics) <= MaxPics
  BY <1>1, EditedIs DEF PageTyped
<1>4. PICK c : c = [cap |-> cap, pics |-> pics]
  OBVIOUS
<1>5. c \in Content /\ c.cap # 0
  BY <1>3, <1>4, RoomsAssumption, CatalogueAssumption, BoundedIs DEF Content
<1>6. PICK kind, r : kind = (IF view = "room" THEN "update" ELSE "create")
                     /\ r = (IF view = "room" THEN at ELSE 0)
  OBVIOUS
<1>7. kind \in Writes /\ r \in Rooms \cup {0} /\ (kind # "create" => r \in Rooms) /\ kind # "delete"
  BY <1>1, <1>6 DEF Writes, PageTyped
<1>8. PICK a : a = [Request(kind, r) EXCEPT !.body = c]
  OBVIOUS
<1>9. NewRequest(a)
  BY <1>5, <1>7, <1>8, WriteIsNew
<1>10. Sending({a}, jobs)
  BY <1>2, <1>4, <1>6, <1>8
<1>11. ServiceFacts'
  BY <1>1, <1>9, <1>10, OneIsSent
<1>12. PageTyped' /\ PageShowsItsRoom'
  BY <1>1 DEF PageFacts, PageTyped, PageShowsItsRoom, Closed
<1>13. QED
  BY <1>11, <1>12 DEF PageFacts

LEMMA DeletionIsClicked ==
    ASSUME ServiceFacts, PageFacts, ClickDelete
    PROVE  ServiceFacts' /\ PageFacts'
<1>1. /\ PageTyped /\ deleting' = TRUE /\ Sending({Request("delete", at)}, jobs)
      /\ UNCHANGED <<view, at, month, shown, calendar, form, saving, list, moves, crossed>>
      /\ UNCHANGED <<catalogue, faults, saved, mixed>>
  BY DEF PageFacts, ClickDelete
<1>2. NewRequest(Request("delete", at))
  BY <1>1, DeletionIsNew DEF PageTyped
<1>3. ServiceFacts'
  BY <1>1, <1>2, OneIsSent
<1>4. PageTyped' /\ PageShowsItsRoom'
  BY <1>1 DEF PageFacts, PageTyped, PageShowsItsRoom, Closed
<1>5. QED
  BY <1>3, <1>4 DEF PageFacts

LEMMA PageRests ==
    ASSUME PageFacts, UNCHANGED page
    PROVE  PageFacts' /\ UNCHANGED <<at, month>>
BY DEF PageFacts, PageTyped, PageShowsItsRoom, page, Closed

LEMMA OthersWrite ==
    ASSUME ServiceFacts, NEW a, NewRequest(a), Elsewhere(a), UNCHANGED <<at, month>>
    PROVE  ServiceFacts'
<1>1. PICK b : b = [a EXCEPT !.page = FALSE, !.heard = FALSE]
  OBVIOUS
<1>2. /\ Typed(b) /\ b.kind = a.kind /\ b.room = a.room /\ b.body = a.body
      /\ b.step = a.step /\ b.from = a.from
  BY <1>1 DEF NewRequest, Typed, Fields
<1>3. NewRequest(b)
  BY <1>2 DEF NewRequest
<1>4. QED
  BY <1>1, <1>3, OneIsSent DEF Elsewhere

-----------------------------------------------------------------------------
\* Answers

\* A request that has been answered is over.
LEMMA AnswerIsTaken ==
    ASSUME ServiceFacts, NEW q \in Slots, jobs[q].step \in Ends, jobs' = [jobs EXCEPT ![q] = Free],
           UNCHANGED <<catalogue, calls, faults, saved, mixed, at, month>>
    PROVE  ServiceFacts'
<1>1. ~Writing(q)
  BY DEF Writing
<1>2. /\ UNCHANGED <<rooms, images, days, lastRoom>>
      /\ calls' \in 0..MaxCalls /\ faults' \in 0..MaxFaults
  BY DEF catalogue, ServiceFacts, ServiceTypeOK
<1>3. QED
  BY <1>1, <1>2, QuietStep

LEMMA RoomIsShown ==
    ASSUME ServiceFacts, PageFacts, NEW q \in Slots, jobs[q] # Free, RoomLoaded(q),
           UNCHANGED <<view, at, month, moves>>
    PROVE  PageFacts'
<1>1. /\ Typed(jobs[q]) /\ PageTyped /\ at \in Rooms /\ jobs[q].room = at
      /\ UNCHANGED <<calendar, form, saving, deleting, list, crossed>>
  BY JobIs DEF ServiceFacts, LoadFacts, PageFacts, PageTyped, RoomLoaded
<1>2. shown' \in States([state : {"shown"}, of : Rooms, cap : 1..MaxCapacity, pics : Seq(Pics)])
      /\ (shown'.state = "shown" => shown'.of = at)
  <2>1. CASE jobs[q].step # "ok"
    BY <2>1 DEF RoomLoaded, States, Failed
  <2>2. CASE jobs[q].step = "ok"
    <3>1. shown' = [state |-> "shown", of |-> at,
                    cap |-> jobs[q].found[at].cap, pics |-> jobs[q].found[at].pics]
      BY <1>1, <2>2 DEF RoomLoaded
    <3>2. jobs[q].found[at].cap # 0
      BY <2>2 DEF RoomLoaded, ServiceFacts, LoadFacts
    <3>3. jobs[q].found[at].cap \in 0..MaxCapacity /\ jobs[q].found[at].pics \in Seq(Pics)
      BY <1>1, ListingIs DEF Typed
    <3>4. jobs[q].found[at].cap \in 1..MaxCapacity
      BY <3>2, <3>3, CatalogueAssumption
    <3>5. QED
      BY <1>1, <3>1, <3>3, <3>4 DEF States
  <2>3. QED
    BY <2>1, <2>2
<1>3. PageTyped' /\ PageShowsItsRoom'
  BY <1>1, <1>2 DEF PageFacts, PageTyped, PageShowsItsRoom, Closed
<1>4. QED
  BY <1>3 DEF PageFacts

LEMMA MonthIsShown ==
    ASSUME ServiceFacts, PageFacts, NEW q \in Slots, jobs[q] # Free, MonthLoaded(q),
           UNCHANGED <<view, at, month, moves>>
    PROVE  PageFacts'
<1>1. /\ Typed(jobs[q]) /\ PageTyped /\ at \in Rooms /\ month \in Months
      /\ jobs[q].room = at /\ jobs[q].from = month /\ jobs[q].nights \in SUBSET Nights
      /\ UNCHANGED <<shown, form, saving, deleting, list, crossed>>
  BY JobIs DEF ServiceFacts, LoadFacts, PageFacts, PageTyped, MonthLoaded, Typed
<1>2. calendar' \in States([state : {"shown"}, of : Rooms, month : Months, nights : SUBSET Nights])
      /\ (calendar'.state = "shown" => calendar'.of = at /\ calendar'.month = month)
  <2>1. CASE jobs[q].step # "ok"
    BY <2>1 DEF MonthLoaded, States, Failed
  <2>2. CASE jobs[q].step = "ok"
    <3>1. calendar' = [state |-> "shown", of |-> at, month |-> month, nights |-> jobs[q].nights]
      BY <1>1, <2>2 DEF MonthLoaded
    <3>2. QED
      BY <1>1, <3>1 DEF States
  <2>3. QED
    BY <2>1, <2>2
<1>3. PageTyped' /\ PageShowsItsRoom'
  BY <1>1, <1>2 DEF PageFacts, PageTyped, PageShowsItsRoom, Closed
<1>4. QED
  BY <1>3 DEF PageFacts

LEMMA ListIsShown ==
    ASSUME ServiceFacts, PageFacts, NEW q \in Slots, jobs[q] # Free, ListLoaded(q),
           UNCHANGED <<view, at, month, moves>>
    PROVE  PageFacts'
<1>1. /\ PageTyped /\ jobs[q].found \in Listing
      /\ UNCHANGED <<shown, calendar, form, saving, deleting, crossed>>
  BY JobIs DEF ServiceFacts, PageFacts, ListLoaded, Typed
<1>2. list' \in States([state : {"shown"}, found : Listing])
  BY <1>1 DEF ListLoaded, States
<1>3. PageTyped' /\ PageShowsItsRoom'
  BY <1>1, <1>2 DEF PageFacts, PageTyped, PageShowsItsRoom, Closed
<1>4. QED
  BY <1>3 DEF PageFacts

LEMMA SavedIsShown ==
    ASSUME ServiceFacts, PageFacts, NEW q \in Slots, jobs[q] # Free, Saved(q),
           UNCHANGED <<view, at, month, moves>>
    PROVE  PageFacts'
<1>1. /\ Typed(jobs[q]) /\ PageTyped /\ jobs[q].kind = "update"
      /\ UNCHANGED <<calendar, deleting, list>>
  BY JobIs DEF ServiceFacts, PageFacts, Saved
<1>2. CASE ~jobs[q].heard
  <2>1. UNCHANGED <<shown, form, saving, crossed>>
    BY <1>2 DEF Saved
  <2>2. PageTyped' /\ PageShowsItsRoom'
    BY <1>1, <2>1 DEF PageFacts, PageTyped, PageShowsItsRoom, Closed
  <2>3. QED
    BY <2>2 DEF PageFacts
<1>3. CASE jobs[q].heard /\ jobs[q].step # "ok"
  <2>1. saving' = FALSE /\ UNCHANGED <<shown, form, crossed>>
    BY <1>3 DEF Saved
  <2>2. PageTyped' /\ PageShowsItsRoom'
    BY <1>1, <2>1 DEF PageFacts, PageTyped, PageShowsItsRoom, Closed
  <2>3. QED
    BY <2>2 DEF PageFacts
<1>4. CASE jobs[q].heard /\ jobs[q].step = "ok"
  <2>1. PICK s : s = [state |-> "shown", of |-> jobs[q].room,
                      cap |-> jobs[q].body.cap, pics |-> jobs[q].body.pics]
    OBVIOUS
  <2>2. /\ saving' = FALSE /\ form' = Closed
        /\ crossed' = (crossed \/ jobs[q].room # at)
        /\ shown' = IF shown = Failed THEN shown ELSE s
    BY <1>4, <2>1 DEF Saved
  <2>3. jobs[q].body.cap \in 1..MaxCapacity /\ jobs[q].body.pics \in Seq(Pics)
    BY <1>1, CapacityIs, BoundedIs DEF Typed, Content
  <2>4. jobs[q].room \in Rooms
    BY <1>1 DEF ServiceFacts, BodyFacts
  <2>5. shown' \in States([state : {"shown"}, of : Rooms, cap : 1..MaxCapacity, pics : Seq(Pics)])
    BY <1>1, <2>1, <2>2, <2>3, <2>4 DEF PageTyped, States
  <2>6. crossed' \in BOOLEAN
    BY <2>2
  <2>7. PageTyped'
    BY <1>1, <2>2, <2>5, <2>6 DEF PageTyped
  <2>8. crossed \/ jobs[q].room # at => crossed'
    BY <2>2
  <2>9. shown'.state = "shown" => shown'.of = at \/ crossed'
    <3>1. s.of = jobs[q].room /\ (shown' = s \/ shown' = Failed)
      BY <2>1, <2>2
    <3>2. Failed.state # "shown"
      BY DEF Failed
    <3>3. QED
      BY <2>8, <3>1, <3>2
  <2>10. PageShowsItsRoom'
    BY <1>1, <2>2, <2>8, <2>9 DEF PageFacts, PageShowsItsRoom, Closed
  <2>11. QED
    BY <2>7, <2>10 DEF PageFacts
<1>5. QED
  BY <1>2, <1>3, <1>4

LEMMA AddedIsShown ==
    ASSUME ServiceFacts, PageFacts, NEW q \in Slots, jobs[q] # Free, Added(q),
           UNCHANGED <<view, at, month, moves>>
    PROVE  PageFacts'
<1>1. /\ Typed(jobs[q]) /\ PageTyped
      /\ UNCHANGED <<shown, calendar, deleting, crossed>>
  BY JobIs DEF ServiceFacts, PageFacts, Added
<1>2. form' = form \/ form' = Closed
  BY DEF Added
<1>3. saving' \in BOOLEAN
  BY <1>1 DEF Added, PageTyped
<1>4. list' \in States([state : {"shown"}, found : Listing])
  <2>1. CASE list' = list
    BY <1>1, <2>1 DEF PageTyped
  <2>2. CASE list' # list
    <3>1. PICK found, r, body : found = list.found /\ r = jobs[q].room /\ body = jobs[q].body
      OBVIOUS
    <3>2. list.state = "shown" /\ list' = [list EXCEPT !.found[r] = body]
      BY <2>2, <3>1 DEF Added
    <3>3. list \in [state : {"shown"}, found : Listing]
      BY <1>1, <3>2 DEF PageTyped, States, Waiting, Failed
    <3>4. body \in [cap : 0..MaxCapacity, pics : Seq(Pics)]
      BY <1>1, <3>1, BoundedIs DEF Typed, Content
    <3>5. [found EXCEPT ![r] = body] \in Listing
      BY <3>1, <3>3, <3>4 DEF Listing
    <3>6. list' = [list EXCEPT !.found = [found EXCEPT ![r] = body]]
      BY <3>1, <3>2, <3>3
    <3>7. list' \in [state : {"shown"}, found : Listing]
      BY <3>3, <3>5, <3>6
    <3>8. QED
      BY <3>7 DEF States
  <2>3. QED
    BY <2>1, <2>2
<1>5. PageTyped' /\ PageShowsItsRoom'
  BY <1>1, <1>2, <1>3, <1>4 DEF PageFacts, PageTyped, PageShowsItsRoom, Closed
<1>6. QED
  BY <1>5 DEF PageFacts

LEMMA AnswerIsShown ==
    ASSUME ServiceFacts, PageFacts, NEW q \in Slots, Answered(q)
    PROVE  ServiceFacts' /\ PageFacts'
<1>1. /\ jobs[q] # Free /\ jobs[q].step \in Ends /\ jobs' = [jobs EXCEPT ![q] = Free]
      /\ UNCHANGED <<view, at, month, moves, catalogue, calls, faults, saved, mixed>>
  BY DEF Answered, Free
<1>2. ServiceFacts'
  BY <1>1, AnswerIsTaken
<1>3. PageFacts'
  <2>1. CASE RoomLoaded(q)
    BY <1>1, <2>1, RoomIsShown
  <2>2. CASE MonthLoaded(q)
    BY <1>1, <2>2, MonthIsShown
  <2>3. CASE ListLoaded(q)
    BY <1>1, <2>3, ListIsShown
  <2>4. CASE Saved(q)
    BY <1>1, <2>4, SavedIsShown
  <2>5. CASE Added(q)
    BY <1>1, <2>5, AddedIsShown
  <2>6. QED
    BY <2>1, <2>2, <2>3, <2>4, <2>5 DEF Answered
<1>4. QED
  BY <1>2, <1>3

\* The answer to a deletion leads to the page of the hotel.
LEMMA DeletionIsShown ==
    ASSUME ServiceFacts, PageFacts, NEW q \in Slots, Deleted(q)
    PROVE  ServiceFacts' /\ PageFacts'
<1>1. /\ jobs[q].kind = "delete" /\ jobs[q].step \in Ends /\ PageTyped
      /\ UNCHANGED <<moves, catalogue, faults, saved, mixed>>
  BY DEF Deleted, PageFacts
<1>2. CASE jobs[q].step = "ok" /\ jobs[q].page /\ view # "hotel"
  <2>1. PICK before : before = [s \in Slots |-> IF s = q THEN Free ELSE Left[s]]
    OBVIOUS
  <2>2. /\ Sending({Request("list", 0)}, before)
        /\ view' = "hotel" /\ list' = Waiting /\ Blank
        /\ saving' = FALSE /\ deleting' = FALSE /\ at' = at
    BY <1>2, <2>1 DEF Deleted
  <2>3. Carries(before)
    <3>1. Carries(Left)
      BY UnheardCarries DEF Left, Loads
    <3>2. ~Writing(q)
      BY <1>1 DEF Writing
    <3>3. before = [s \in Slots |-> before[s]]
      BY <2>1
    <3>4. before[q] = Free /\ \A s \in Slots \ {q} : before[s] = Left[s]
      BY <2>1
    <3>5. QED
      BY <3>1, <3>2, <3>3, <3>4 DEF Carries
  <2>4. NewRequest(Request("list", 0))
    <3>1. "list" \in Kinds /\ 0 \in Rooms \cup {0}
      BY DEF Kinds
    <3>2. QED
      BY <3>1, RequestIs DEF NewRequest
  <2>5. IsFiniteSet({Request("list", 0)}) /\ \A a \in {Request("list", 0)} : NewRequest(a)
    BY <2>4, FS_Singleton
  <2>6. ServiceFacts'
    BY <1>1, <2>2, <2>3, <2>5, SendingKeeps
  <2>7. at' \in Rooms /\ moves' \in 0..MaxMoves
    BY <1>1, <2>2 DEF PageTyped
  <2>8. PageFacts'
    BY <1>1, <2>2, <2>7, WaitingIs, BlankIs
  <2>9. QED
    BY <2>6, <2>8
<1>3. CASE ~(jobs[q].step = "ok" /\ jobs[q].page /\ view # "hotel")
  <2>1. /\ jobs' = [jobs EXCEPT ![q] = Free] /\ UNCHANGED calls
        /\ deleting' = (deleting /\ ~jobs[q].heard)
        /\ UNCHANGED <<view, at, month, shown, calendar, form, saving, list, crossed>>
    BY <1>3 DEF Deleted
  <2>2. ServiceFacts'
    BY <1>1, <2>1, AnswerIsTaken
  <2>3. deleting' \in BOOLEAN
    BY <2>1
  <2>4. PageTyped' /\ PageShowsItsRoom'
    BY <1>1, <2>1, <2>3 DEF PageFacts, PageTyped, PageShowsItsRoom, Closed
  <2>5. QED
    BY <2>2, <2>4 DEF PageFacts
<1>4. QED
  BY <1>2, <1>3

-----------------------------------------------------------------------------
\* The theorems

LEMMA InitFacts ==
    ASSUME Init
    PROVE  ServiceFacts /\ PageFacts
<1>1. 1 \in Rooms /\ 1 \in 1..SeededRooms /\ 1 \in Months /\ 1 \in Nights
  BY CatalogueAssumption, RoomsAssumption DEF Rooms, Months, Nights
<1>2. /\ rooms = [r \in Rooms |-> InitialContent[r].cap]
      /\ images = [r \in Rooms |-> ImagesOf(InitialContent[r].pics)]
      /\ days = [r \in Rooms |-> [n \in Nights |-> IF r <= SeededRooms THEN "open" ELSE "none"]]
      /\ lastRoom = SeededRooms /\ jobs = [q \in Slots |-> Free]
      /\ calls = 0 /\ faults = 0 /\ saved = InitialContent /\ mixed = {}
  BY DEF Init, ServiceInit
<1>3. ASSUME NEW r \in Rooms
      PROVE  /\ InitialContent[r].cap \in 0..MaxCapacity
             /\ InitialContent[r].pics \in Seq(Pics) /\ Len(InitialContent[r].pics) <= MaxPics
             /\ r <= SeededRooms => InitialContent[r].cap # 0
  <2>1. InitialContent[r] \in Content
    BY RoomsAssumption
  <2>2. r <= SeededRooms => r \in 1..SeededRooms
    BY CatalogueAssumption DEF Rooms
  <2>3. QED
    BY <2>1, <2>2, RoomsAssumption, BoundedIs DEF Content
<1>4. ServiceTypeOK
  <2>1. rooms \in [Rooms -> 0..MaxCapacity] /\ lastRoom \in SeededRooms..MaxRooms
    BY <1>2, <1>3, CatalogueAssumption
  <2>2. images \in [Rooms -> [1..MaxPics -> Seq(Pics)]]
    BY <1>2, <1>3, ImagesTyped
  <2>3. days \in [Rooms -> [Nights -> {"none", "open", "taken"}]]
    BY <1>2
  <2>4. jobs \in [Slots -> Jobs \cup {Free}]
    BY <1>2
  <2>5. calls \in 0..MaxCalls /\ faults \in 0..MaxFaults
    BY <1>2, CatalogueAssumption
  <2>6. saved \in [Rooms -> Content] /\ mixed \subseteq Rooms
    BY <1>2, RoomsAssumption
  <2>7. QED
    BY <2>1, <2>2, <2>3, <2>4, <2>5, <2>6 DEF ServiceTypeOK
<1>5. \A q \in Slots : jobs[q].kind = "none"
  BY <1>2 DEF Free
<1>6. \A q \in Slots : ~Writing(q)
  BY <1>5 DEF Writing, Writes
<1>7. LoadFacts /\ BodyFacts
  BY <1>5, <1>6 DEF LoadFacts, BodyFacts
<1>8. AloneFacts /\ StageFacts
  BY <1>6 DEF AloneFacts, StageFacts
<1>9. NightFacts
  BY <1>2, <1>3, <1>5 DEF NightFacts
<1>10. RestFacts
  <2>1. ASSUME NEW r \in Rooms PROVE rooms[r] = saved[r].cap /\ PicsOf(r) = saved[r].pics
    BY <1>2, <1>3, PicturesReadBack DEF PicsOf
  <2>2. QED
    BY <2>1 DEF RestFacts
<1>11. /\ view = "room" /\ at = 1 /\ month = 1
       /\ shown = [state |-> "shown", of |-> 1, cap |-> rooms[1], pics |-> PicsOf(1)]
       /\ calendar = [state |-> "shown", of |-> 1, month |-> 1, nights |-> {1}]
       /\ form = Closed /\ list = Waiting
       /\ saving = FALSE /\ deleting = FALSE /\ crossed = FALSE /\ moves = 0
  BY DEF Init
<1>12. shown \in States([state : {"shown"}, of : Rooms, cap : 1..MaxCapacity, pics : Seq(Pics)])
  <2>1. rooms[1] \in 1..MaxCapacity
    <3>1. rooms[1] = InitialContent[1].cap /\ 1 <= SeededRooms
      BY <1>1, <1>2, RoomsAssumption
    <3>2. QED
      BY <1>1, <1>3, <3>1, CatalogueAssumption
  <2>2. PicsOf(1) \in Seq(Pics)
    BY <1>1, <1>4, PicsTyped
  <2>3. QED
    BY <1>1, <1>11, <2>1, <2>2 DEF States
<1>13. calendar \in States([state : {"shown"}, of : Rooms, month : Months, nights : SUBSET Nights])
  BY <1>1, <1>11 DEF States
<1>14. PageTyped
  <2>1. list \in States([state : {"shown"}, found : Listing])
    BY <1>11, WaitingIs
  <2>2. moves \in 0..MaxMoves
    BY <1>11, RoomsAssumption
  <2>3. saving \in BOOLEAN /\ deleting \in BOOLEAN /\ crossed \in BOOLEAN
    BY <1>11
  <2>4. view \in {"hotel", "room"} /\ at \in Rooms /\ month \in Months /\ form = Closed
    BY <1>1, <1>11
  <2>5. QED
    BY <1>12, <1>13, <2>1, <2>2, <2>3, <2>4 DEF PageTyped
<1>15. PageShowsItsRoom
  BY <1>11 DEF PageShowsItsRoom
<1>16. QED
  BY <1>4, <1>7, <1>8, <1>9, <1>10, <1>14, <1>15 DEF ServiceFacts, WriteFacts, PageFacts

LEMMA NextKeeps ==
    ASSUME ServiceFacts, PageFacts, [Next]_vars
    PROVE  ServiceFacts' /\ PageFacts'
<1>1. at \in Rooms
  BY DEF PageFacts, PageTyped
<1>2. CASE \E r \in Rooms : OpenRoom(r) \/ Jump(r)
  BY <1>2, RoomPageIsOpened, PageJumps
<1>3. CASE \E m \in Months : ChangeMonth(m)
  BY <1>3, MonthChanges
<1>4. CASE OpenHotel
  BY <1>4, HotelPageIsOpened
<1>5. CASE OpenEditForm \/ OpenAddForm \/ CloseEditForm \/ CloseAddForm
  BY <1>5, FormsChange
<1>6. CASE ClickDelete
  BY <1>6, DeletionIsClicked
<1>7. CASE \E c \in Capacities : SubmitForm(c)
  BY <1>7, FormIsSubmitted
<1>8. CASE \E r \in OtherRooms :
             /\ \/ Elsewhere(Request("delete", r))
                \/ \E c \in OtherContents : Elsewhere([Request("update", r) EXCEPT !.body = c])
             /\ UNCHANGED page
  <2>1. PICK r \in OtherRooms :
             /\ \/ Elsewhere(Request("delete", r))
                \/ \E c \in OtherContents : Elsewhere([Request("update", r) EXCEPT !.body = c])
             /\ UNCHANGED page
    BY <1>8
  <2>2. r \in Rooms /\ UNCHANGED <<at, month>> /\ PageFacts'
    BY <2>1, PageRests, RoomsAssumption
  <2>3. CASE Elsewhere(Request("delete", r))
    BY <2>2, <2>3, DeletionIsNew, OthersWrite
  <2>4. CASE \E c \in OtherContents : Elsewhere([Request("update", r) EXCEPT !.body = c])
    <3>1. PICK c \in OtherContents : Elsewhere([Request("update", r) EXCEPT !.body = c])
      BY <2>4
    <3>2. c \in Content /\ c.cap # 0
      BY RoomsAssumption
    <3>3. PICK a : a = [Request("update", r) EXCEPT !.body = c]
      OBVIOUS
    <3>4. NewRequest(a)
      <4>1. "update" \in Writes /\ r \in Rooms \cup {0} /\ "update" # "delete"
        BY <2>2 DEF Writes
      <4>2. QED
        BY <2>2, <3>2, <3>3, <4>1, WriteIsNew
    <3>5. Elsewhere(a)
      BY <3>1, <3>3
    <3>6. QED
      BY <2>2, <3>4, <3>5, OthersWrite
  <2>5. QED
    BY <2>1, <2>3, <2>4
<1>9. CASE \E q \in Slots : Progress(q) \/ (Fault(q) /\ UNCHANGED page)
  <2>1. PICK q \in Slots : Progress(q) \/ (Fault(q) /\ UNCHANGED page)
    BY <1>9
  <2>2. CASE Serve(q) /\ UNCHANGED page
    BY <1>1, <2>2, PageRests, ServeKeeps
  <2>3. CASE Fault(q) /\ UNCHANGED page
    BY <2>3, PageRests, FaultKeeps
  <2>4. CASE Answered(q)
    BY <2>4, AnswerIsShown
  <2>5. CASE Deleted(q)
    BY <2>5, DeletionIsShown
  <2>6. QED
    BY <2>1, <2>2, <2>3, <2>4, <2>5 DEF Progress
<1>10. CASE UNCHANGED vars
  <2>1. UNCHANGED service /\ UNCHANGED page
    BY <1>10 DEF vars
  <2>2. UNCHANGED <<at, month>> /\ PageFacts'
    BY <2>1, PageRests
  <2>3. UNCHANGED <<service, at, month>>
    BY <2>1, <2>2
  <2>4. QED
    BY <2>2, <2>3, ServiceRests
<1>11. QED
  BY <1>2, <1>3, <1>4, <1>5, <1>6, <1>7, <1>8, <1>9, <1>10 DEF Next

\* What the pages and the writes of the rooms rest on holds in every state.
THEOREM AdminRoomsInductive == Spec => []IInv
<1>1. Init => IInv
  BY InitFacts, InvariantIs
<1>2. IInv /\ [Next]_vars => IInv'
  <2>1. ASSUME IInv, [Next]_vars PROVE IInv'
    <3>1. ServiceFacts /\ PageFacts
      BY <2>1, InvariantIs
    <3>2. ServiceFacts' /\ PageFacts'
      BY <2>1, <3>1, NextKeeps
    <3>3. (ServiceFacts /\ PageFacts)' => IInv'
      BY InvariantIs, PTL
    <3>4. QED
      BY <3>2, <3>3
  <2>2. QED
    BY <2>1
<1>3. QED
  BY <1>1, <1>2, PTL DEF Spec

\* The tables of the rooms, the requests on their way and the page are typed.
THEOREM AdminRoomsTypeCorrect == Spec => []TypeOK
<1>1. IInv => TypeOK
  BY DEF IInv
<1>2. QED
  BY <1>1, AdminRoomsInductive, PTL

\* A room is as its last write left it, whenever its writes neither crossed nor
\* failed half-way, and no night is for sale without its room.
THEOREM RoomsAreAsSaved == Spec => []RoomAsSaved
<1>1. IInv => RoomAsSaved
  <2>1. ASSUME IInv, NEW r \in Rooms
        PROVE  /\ r \notin mixed /\ Midway(r) = {} =>
                     rooms[r] = saved[r].cap /\ PicsOf(r) = saved[r].pics
               /\ r \notin Present => \A n \in Nights : days[r][n] = "none"
    <3>1. \A q \in Slots : Writing(q) /\ jobs[q].room = r => q \in Midway(r)
      BY DEF Writing, Midway
    <3>2. RestFacts /\ NightFacts
      BY <2>1 DEF IInv, WriteFacts
    <3>3. QED
      BY <3>1, <3>2 DEF RestFacts, NightFacts, Present
  <2>2. QED
    BY <2>1 DEF RoomAsSaved
<1>2. QED
  BY <1>1, AdminRoomsInductive, PTL

\* What an administrator's page shows is of the room and the month that it is for,
\* unless the answer to a save has come to the page of another room.
THEOREM PagesShowTheirRoom == Spec => []PageShowsItsRoom
<1>1. IInv => PageShowsItsRoom
  BY DEF IInv
<1>2. QED
  BY <1>1, AdminRoomsInductive, PTL
=============================================================================
