------------------------ MODULE RoomInventoryProofs ------------------------
(***************************************************************************)
(* For every set of days, every seeded window and every set of concurrent  *)
(* calls: the row locks keep what a handler has read current until it      *)
(* commits, a booking is granted only on nights that are all free and      *)
(* refused only when one is not, and the SQL transactions implement the    *)
(* indivisible calls of NightLedger.                                       *)
(***************************************************************************)
EXTENDS RoomInventory, WellFoundedInduction, TLAPS

\* What a scan has done so far: the nights it has passed are exactly the rows
\* it holds and days that have no row; a booking that writes holds, and has
\* read as available, every night it was asked for.
ScanProgress ==
    \A t \in Requests :
        /\ phase[t] = "idle" => open[t] = {}
        /\ Active(t) =>
              /\ left[t] \subseteq job[t].nights
              /\ held[t] \subseteq job[t].nights
              /\ held[t] \cap left[t] = {}
              /\ open[t] \subseteq held[t]
              /\ \A d \in job[t].nights \ (left[t] \cup held[t]) :
                    calendar[d] = "absent"
        /\ phase[t] = "write" =>
              /\ job[t].kind = "reserve"
              /\ left[t] = {}
              /\ Bookable(t)

IInv == TypeOK /\ LockedReadsAreCurrent /\ ScanProgress

-----------------------------------------------------------------------------

\* Marking writes only cells of the calendar's type, only on rows that exist,
\* and leaves every other night alone.
LEMMA MarkedFacts ==
    ASSUME CalendarType, NEW nights \in SUBSET Dates, NEW cell \in Cells
    PROVE  /\ Marked(nights, cell) \in [Dates -> Cells]
           /\ \A d \in Dates : calendar[d] = "absent"
                  => Marked(nights, cell)[d] = "absent"
           /\ \A d \in Dates : d \notin nights
                  => Marked(nights, cell)[d] = calendar[d]
           /\ \A d \in nights : calendar[d] # "absent"
                  => Marked(nights, cell)[d] = cell
BY DEF CalendarType, Marked, Cells

\* Writing the rows one open transaction holds disturbs neither the reads of
\* the others nor what they know to be absent.
LEMMA CommitKeepsOthers ==
    ASSUME IInv, NEW t \in Requests, Active(t), NEW cell \in Cells,
           NEW outcome \in {"granted", "done"},
           calendar' = Marked(held[t], cell),
           phase' = [phase EXCEPT ![t] = outcome],
           held' = [held EXCEPT ![t] = {}],
           UNCHANGED <<job, left, open>>
    PROVE  IInv'
<1> USE DEF IInv, Active
<1>1. held[t] \in SUBSET Dates
  BY DEF TypeOK
<1>2. /\ calendar' \in [Dates -> Cells]
      /\ \A d \in Dates : calendar[d] = "absent" => calendar'[d] = "absent"
      /\ \A d \in Dates : d \notin held[t] => calendar'[d] = calendar[d]
  <2>1. CalendarType
    BY DEF TypeOK
  <2>2. QED
    BY <1>1, <2>1, MarkedFacts
<1>3. TypeOK'
  BY <1>2 DEF TypeOK, CalendarType, Phases
<1>4. LockedReadsAreCurrent'
  <2>1. \A u, v \in Requests : u # v => held'[u] \cap held'[v] = {}
    BY DEF TypeOK, LockedReadsAreCurrent
  <2>2. ASSUME NEW u \in Requests
        PROVE  /\ held'[u] # {} => Active(u)'
               /\ \A d \in held'[u] :
                     /\ calendar'[d] # "absent"
                     /\ d \in open'[u] <=> calendar'[d] = "free"
    <3>1. CASE u = t
      BY <3>1 DEF TypeOK
    <3>2. CASE u # t
      <4>1. held'[u] = held[u] /\ phase'[u] = phase[u] /\ open'[u] = open[u]
        BY <3>2 DEF TypeOK
      <4>2. \A d \in held[u] : d \in Dates /\ d \notin held[t]
        BY <3>2 DEF TypeOK, LockedReadsAreCurrent
      <4>3. QED
        BY <4>1, <4>2, <1>2 DEF LockedReadsAreCurrent
    <3>3. QED
      BY <3>1, <3>2
  <2>3. QED
    BY <2>1, <2>2 DEF LockedReadsAreCurrent
<1>5. ScanProgress'
  <2> SUFFICES ASSUME NEW u \in Requests
               PROVE  ScanProgress!(u)'
    BY DEF ScanProgress
  <2>1. CASE u = t
    BY <2>1 DEF TypeOK, ScanProgress
  <2>2. CASE u # t
    <3>1. phase'[u] = phase[u] /\ held'[u] = held[u]
      BY <2>2 DEF TypeOK
    <3>2. job[u].nights \subseteq Dates
      BY DEF TypeOK
    <3>3. QED
      BY <3>1, <3>2, <1>2 DEF ScanProgress, Bookable
  <2>3. QED
    BY <2>1, <2>2
<1>6. QED
  BY <1>3, <1>4, <1>5

\* A transaction that ends without writing gives its rows up and changes
\* nothing the others rely on.
LEMMA RollbackKeepsInv ==
    ASSUME IInv, NEW t \in Requests, Active(t),
           NEW outcome \in {"refused", "failed"},
           phase' = [phase EXCEPT ![t] = outcome],
           held' = [held EXCEPT ![t] = {}],
           UNCHANGED <<calendar, job, left, open>>
    PROVE  IInv'
<1> USE DEF IInv, Active
<1>1. TypeOK'
  BY DEF TypeOK, CalendarType, Phases
<1>2. LockedReadsAreCurrent'
  BY DEF TypeOK, LockedReadsAreCurrent
<1>3. ScanProgress'
  BY DEF TypeOK, ScanProgress, Bookable
<1>4. QED
  BY <1>1, <1>2, <1>3

LEMMA InitEstablishes == Init => IInv
BY SeededAssumption DEF Init, IInv, TypeOK, CalendarType, CalendarInit, Cells,
   Phases, NoJob, Kinds, LockedReadsAreCurrent, ScanProgress, Active

LEMMA BeginKeepsInv ==
    ASSUME IInv, NEW t \in Requests, Begin(t)
    PROVE  IInv'
<1> USE DEF IInv, Active
<1>1. PICK kind \in Kinds, nights \in SUBSET Dates :
         /\ job' = [job EXCEPT ![t] = [kind |-> kind, nights |-> nights]]
         /\ left' = [left EXCEPT ![t] = nights]
  BY DEF Begin
<1>2. /\ phase[t] = "idle"
      /\ phase' = [phase EXCEPT ![t] = "scan"]
      /\ UNCHANGED <<calendar, held, open>>
  BY DEF Begin
<1>3. TypeOK'
  BY <1>1, <1>2 DEF TypeOK, CalendarType, Phases
<1>4. held[t] = {} /\ open[t] = {}
  BY <1>2 DEF LockedReadsAreCurrent, ScanProgress
<1>5. LockedReadsAreCurrent'
  BY <1>2, <1>4 DEF TypeOK, LockedReadsAreCurrent
<1>6. ScanProgress'
  <2> SUFFICES ASSUME NEW u \in Requests
               PROVE  ScanProgress!(u)'
    BY DEF ScanProgress
  <2>1. CASE u = t
    BY <1>1, <1>2, <1>4, <2>1 DEF TypeOK
  <2>2. CASE u # t
    BY <1>1, <1>2, <2>2 DEF TypeOK, ScanProgress, Bookable
  <2>3. QED
    BY <2>1, <2>2
<1>7. QED
  BY <1>3, <1>5, <1>6

LEMMA VisitKeepsInv ==
    ASSUME IInv, NEW t \in Requests, VisitNight(t)
    PROVE  IInv'
<1> USE DEF IInv, Active
<1>1. PICK d \in left[t] :
         /\ ~LockedByOther(t, d)
         /\ left' = [left EXCEPT ![t] = @ \ {d}]
         /\ held' = [held EXCEPT ![t] =
                       IF calendar[d] = "absent" THEN @ ELSE @ \cup {d}]
         /\ open' = [open EXCEPT ![t] =
                       IF calendar[d] = "free" THEN @ \cup {d} ELSE @]
  BY DEF VisitNight
<1>2. phase[t] = "scan" /\ UNCHANGED <<calendar, phase, job>>
  BY DEF VisitNight
<1>3. d \in Dates /\ calendar[d] \in Cells
  BY DEF TypeOK, CalendarType
<1>4. TypeOK'
  BY <1>1, <1>2, <1>3 DEF TypeOK, CalendarType
<1>5. \A u \in Requests \ {t} :
         held'[u] = held[u] /\ open'[u] = open[u] /\ left'[u] = left[u]
  BY <1>1 DEF TypeOK
<1>6. LockedReadsAreCurrent'
  <2>1. \A u, v \in Requests : u # v => held'[u] \cap held'[v] = {}
    BY <1>1, <1>5 DEF TypeOK, LockedReadsAreCurrent, LockedByOther
  <2>2. ASSUME NEW u \in Requests
        PROVE  /\ held'[u] # {} => Active(u)'
               /\ \A e \in held'[u] :
                     /\ calendar'[e] # "absent"
                     /\ e \in open'[u] <=> calendar'[e] = "free"
    <3>1. CASE u = t
      <4>1. open[t] \subseteq held[t] /\ d \notin held[t]
        BY <1>2 DEF ScanProgress
      <4>2. QED
        BY <1>1, <1>2, <3>1, <4>1 DEF TypeOK, LockedReadsAreCurrent
    <3>2. CASE u # t
      BY <1>2, <1>5, <3>2 DEF LockedReadsAreCurrent
    <3>3. QED
      BY <3>1, <3>2
  <2>3. QED
    BY <2>1, <2>2 DEF LockedReadsAreCurrent
<1>7. ScanProgress'
  <2> SUFFICES ASSUME NEW u \in Requests
               PROVE  ScanProgress!(u)'
    BY DEF ScanProgress
  <2>1. CASE u = t
    <3>1. /\ left'[t] = left[t] \ {d}
          /\ held'[t] = IF calendar[d] = "absent" THEN held[t]
                                                  ELSE held[t] \cup {d}
          /\ open'[t] = IF calendar[d] = "free" THEN open[t] \cup {d}
                                                ELSE open[t]
      BY <1>1 DEF TypeOK
    <3>2. QED
      BY <1>2, <1>3, <2>1, <3>1 DEF TypeOK, ScanProgress
  <2>2. CASE u # t
    BY <1>2, <1>5, <2>2 DEF ScanProgress, Bookable
  <2>3. QED
    BY <2>1, <2>2
<1>8. QED
  BY <1>4, <1>6, <1>7

LEMMA DecideKeepsInv ==
    ASSUME IInv, NEW t \in Requests, Decide(t)
    PROVE  IInv'
<1>1. CASE Bookable(t)
  <2>1. /\ phase[t] = "scan" /\ phase' = [phase EXCEPT ![t] = "write"]
        /\ job[t].kind = "reserve" /\ left[t] = {}
        /\ UNCHANGED <<calendar, job, left, open, held>>
    BY <1>1 DEF Decide
  <2>2. TypeOK'
    BY <2>1 DEF IInv, TypeOK, CalendarType, Phases
  <2>3. LockedReadsAreCurrent'
    BY <2>1 DEF IInv, TypeOK, LockedReadsAreCurrent, Active
  <2>4. ScanProgress'
    BY <1>1, <2>1 DEF IInv, TypeOK, ScanProgress, Active, Bookable
  <2>5. QED
    BY <2>2, <2>3, <2>4 DEF IInv
<1>2. CASE ~Bookable(t)
  BY <1>2, RollbackKeepsInv DEF Decide, Active
<1>3. QED
  BY <1>1, <1>2

LEMMA NextKeepsInv == IInv /\ [Next]_inventoryVars => IInv'
<1> SUFFICES ASSUME IInv, [Next]_inventoryVars
             PROVE  IInv'
  OBVIOUS
<1>1. ASSUME NEW t \in Requests, Begin(t)
      PROVE  IInv'
  BY <1>1, BeginKeepsInv
<1>2. ASSUME NEW t \in Requests, VisitNight(t)
      PROVE  IInv'
  BY <1>2, VisitKeepsInv
<1>3. ASSUME NEW t \in Requests, Decide(t)
      PROVE  IInv'
  BY <1>3, DecideKeepsInv
<1>4. ASSUME NEW t \in Requests, CommitReserve(t)
      PROVE  IInv'
  BY <1>4, CommitKeepsOthers DEF CommitReserve, Active, Cells
<1>5. ASSUME NEW t \in Requests, CommitStatement(t)
      PROVE  IInv'
  BY <1>5, CommitKeepsOthers DEF CommitStatement, Active, Cells
<1>6. ASSUME NEW t \in Requests, Abort(t)
      PROVE  IInv'
  BY <1>6, RollbackKeepsInv DEF Abort, Active
<1>7. CASE UNCHANGED inventoryVars
  BY <1>7 DEF inventoryVars, IInv, TypeOK, CalendarType,
     LockedReadsAreCurrent, ScanProgress, Active, Bookable
<1>8. QED
  BY <1>1, <1>2, <1>3, <1>4, <1>5, <1>6, <1>7 DEF Next, Work

\* The inductive invariant holds in every reachable state.
THEOREM Inductive == Spec => []IInv
BY InitEstablishes, NextKeepsInv, PTL DEF Spec

\* The state of room_availabilities and of every open call stays well formed.
THEOREM TypeCorrect == Spec => []TypeOK
<1>1. IInv => TypeOK
  BY DEF IInv
<1>2. QED
  BY <1>1, Inductive, PTL

\* What a handler has read under a row lock is still true when it uses it, for
\* any number of concurrent calls on any ranges of days.
THEOREM LocksProtectReads == Spec => []LockedReadsAreCurrent
<1>1. IInv => LockedReadsAreCurrent
  BY DEF IInv
<1>2. QED
  BY <1>1, Inductive, PTL

\* A booking is granted only in a step that takes all of its nights, each of
\* them free until then: no night is ever sold to two callers.
THEOREM GrantsAreExclusive == Spec => GrantTakesFreeNights
<1>1. ASSUME IInv, [Next]_inventoryVars, NEW t \in Requests,
             ~Granted(t), Granted(t)'
      PROVE  /\ AllFree(job[t].nights)
             /\ \A d \in job[t].nights : calendar'[d] = "taken"
  <2>1. CommitReserve(t)
    <3>1. phase[t] # "granted" /\ phase'[t] = "granted"
      BY <1>1 DEF Granted
    <3>2. QED
      BY <1>1, <3>1 DEF Next, Work, Begin, VisitNight, Decide, CommitReserve,
         CommitStatement, Abort, inventoryVars, IInv, TypeOK
  <2>2. job[t].nights = held[t] /\ open[t] = held[t]
    BY <1>1, <2>1 DEF CommitReserve, IInv, ScanProgress, Bookable
  <2>3. held[t] \subseteq Dates
    BY <1>1 DEF IInv, TypeOK
  <2>4. ASSUME NEW d \in held[t]
        PROVE  calendar[d] = "free"
    <3>1. d \in open[t]
      BY <2>2
    <3>2. QED
      BY <1>1, <3>1 DEF IInv, LockedReadsAreCurrent
  <2>5. \A d \in held[t] : calendar'[d] = "taken"
    BY <2>1, <2>3, <2>4 DEF CommitReserve, Marked
  <2>6. QED
    BY <2>2, <2>3, <2>4, <2>5 DEF AllFree
<1>2. IInv /\ [Next]_inventoryVars
        => [\A t \in Requests : ~Granted(t) /\ Granted(t)' =>
               /\ AllFree(job[t].nights)
               /\ \A d \in job[t].nights : calendar'[d] = "taken"]_inventoryVars
  BY <1>1
<1>3. QED
  BY <1>2, Inductive, PTL DEF Spec, GrantTakesFreeNights

\* The check under the locks refuses only what is really not free.
LEMMA RefusedNightsAreNotFree ==
    ASSUME IInv, NEW t \in Requests, Decide(t), ~Bookable(t)
    PROVE  ~AllFree(job[t].nights)
<1>1. CASE held[t] # job[t].nights
  <2>1. PICK d \in job[t].nights : d \notin held[t]
    BY <1>1 DEF Decide, IInv, ScanProgress, Active
  <2>2. calendar[d] = "absent"
    BY <2>1 DEF Decide, IInv, ScanProgress, Active
  <2>3. QED
    BY <2>1, <2>2 DEF AllFree
<1>2. CASE held[t] = job[t].nights /\ open[t] # held[t]
  <2>1. PICK d \in held[t] : d \notin open[t]
    BY <1>2 DEF Decide, IInv, ScanProgress, Active
  <2>2. calendar[d] # "free"
    BY <2>1 DEF IInv, LockedReadsAreCurrent
  <2>3. QED
    BY <1>2, <2>1, <2>2 DEF AllFree
<1>3. QED
  BY <1>1, <1>2 DEF Bookable

\* A booking is refused only when one of its nights cannot be booked.
THEOREM RefusalsAreJustified == Spec => RefusalIsJustified
<1>1. ASSUME IInv, [Next]_inventoryVars, NEW t \in Requests,
             ~Refused(t), Refused(t)'
      PROVE  ~AllFree(job[t].nights)
  <2>1. Decide(t) /\ ~Bookable(t)
    BY <1>1 DEF Next, Work, Begin, VisitNight, Decide, CommitReserve,
       CommitStatement, Abort, inventoryVars, Refused, IInv, TypeOK
  <2>2. QED
    BY <1>1, <2>1, RefusedNightsAreNotFree
<1>2. IInv /\ [Next]_inventoryVars
        => [\A t \in Requests : ~Refused(t) /\ Refused(t)' =>
               ~AllFree(job[t].nights)]_inventoryVars
  BY <1>1
<1>3. QED
  BY <1>2, Inductive, PTL DEF Spec, RefusalIsJustified

\* Ending a transaction is the step of NightLedger that answers its call.
LEMMA EndIsAnswer ==
    ASSUME TypeOK, NEW t \in Requests, Active(t),
           NEW outcome \in {"granted", "refused", "done", "failed"},
           phase' = [phase EXCEPT ![t] = outcome],
           UNCHANGED job
    PROVE  Ledger!Answer(t, outcome)
<1>1. Answers[t] = "asked"
  BY DEF Answers
<1>2. Answers' = [Answers EXCEPT ![t] = outcome]
  BY DEF TypeOK, Answers, Active
<1>3. QED
  BY <1>1, <1>2 DEF Ledger!Answer

\* When the scan is over, writing the rows found is writing all the nights
\* asked for: the other nights have no row.
LEMMA HeldRowsAreTheNights ==
    ASSUME IInv, NEW t \in Requests, Active(t), left[t] = {},
           NEW cell \in Cells
    PROVE  Marked(held[t], cell) = Ledger!Marked(job[t].nights, cell)
<1>1. held[t] \subseteq job[t].nights
  BY DEF IInv, ScanProgress
<1>2. \A d \in job[t].nights \ held[t] : calendar[d] = "absent"
  BY DEF IInv, ScanProgress
<1>3. QED
  BY <1>1, <1>2 DEF Marked, Ledger!Marked

\* The two steps that end a booking: the refusal, and the COMMIT.
LEMMA ReservationIsServed ==
    ASSUME IInv, NEW t \in Requests,
           \/ Decide(t) /\ ~Bookable(t)
           \/ CommitReserve(t)
    PROVE  Ledger!Serve(t)
<1>1. CASE Decide(t) /\ ~Bookable(t)
  <2>1. Ledger!Answer(t, "refused") /\ UNCHANGED calendar
    BY <1>1, EndIsAnswer DEF Decide, IInv, Active
  <2>2. ~AllFree(job[t].nights)
    BY <1>1, RefusedNightsAreNotFree
  <2>3. QED
    BY <1>1, <2>1, <2>2 DEF Decide, Ledger!Serve, Ledger!AllFree, AllFree
<1>2. CASE CommitReserve(t)
  <2>1. Ledger!Answer(t, "granted")
    BY <1>2, EndIsAnswer DEF CommitReserve, IInv, Active
  <2>2. job[t].kind = "reserve" /\ left[t] = {} /\ Bookable(t)
    BY <1>2 DEF CommitReserve, IInv, ScanProgress
  <2>3. calendar' = Ledger!Marked(job[t].nights, "taken")
    BY <1>2, <2>2, HeldRowsAreTheNights DEF CommitReserve, Active, Cells
  <2>4. Ledger!AllFree(job[t].nights)
    BY <1>2, <2>2 DEF Bookable, IInv, TypeOK, LockedReadsAreCurrent,
       Ledger!AllFree
  <2>5. QED
    BY <2>1, <2>2, <2>3, <2>4 DEF Ledger!Serve, Ledger!Reserve
<1>3. QED
  BY <1>1, <1>2

\* The single statements: the cell they write is the one the call promises.
LEMMA StatementIsServed ==
    ASSUME IInv, NEW t \in Requests, CommitStatement(t)
    PROVE  Ledger!Serve(t)
<1>1. Ledger!Answer(t, "done")
  BY EndIsAnswer DEF CommitStatement, IInv, Active
<1>2. ASSUME NEW cell \in Cells, calendar' = Marked(held[t], cell)
      PROVE  calendar' = Ledger!Marked(job[t].nights, cell)
  BY <1>2, HeldRowsAreTheNights DEF CommitStatement, Active
<1>3. CASE job[t].kind = "open" /\ calendar' = Marked(held[t], "free")
  BY <1>1, <1>2, <1>3 DEF Ledger!Serve, Ledger!Release, Cells
<1>4. CASE job[t].kind = "close" /\ calendar' = Marked(held[t], "taken")
  BY <1>1, <1>2, <1>4 DEF Ledger!Serve, Ledger!Block, Cells
<1>5. CASE job[t].kind = "delete" /\ calendar' = Marked(held[t], "absent")
  BY <1>1, <1>2, <1>5 DEF Ledger!Serve, Ledger!Remove, Cells
<1>6. QED
  BY <1>3, <1>4, <1>5 DEF CommitStatement

\* The arrival of a call is a step of NightLedger too.
LEMMA BeginIsAsk ==
    ASSUME TypeOK, NEW t \in Requests, Begin(t)
    PROVE  Ledger!Ask(t)
<1>1. phase[t] = "idle" /\ phase' = [phase EXCEPT ![t] = "scan"]
  BY DEF Begin
<1>2. Answers[t] = "idle"
  BY <1>1 DEF Answers, Active
<1>3. Answers' = [Answers EXCEPT ![t] = "asked"]
  BY <1>1 DEF TypeOK, Answers, Active
<1>4. PICK kind \in Kinds, nights \in SUBSET Dates :
         job' = [job EXCEPT ![t] = [kind |-> kind, nights |-> nights]]
  BY DEF Begin
<1>5. QED
  BY <1>2, <1>3, <1>4 DEF Begin, Ledger!Ask, Ledger!Kinds, Kinds

\* Every transaction of the SQL statements is, at its commit, one indivisible
\* call of NightLedger, on the nights that were asked for; nothing before the
\* commit can be seen, and a call that fails has changed nothing.
THEOREM Refinement == Spec => ImplementsLedger
<1>1. Init => Ledger!LedgerInit
  BY DEF Init, CalendarInit, NoJob, Answers, Active, Ledger!LedgerInit,
     Ledger!CalendarInit, Ledger!NoJob
<1>2. ASSUME IInv, [Next]_inventoryVars
      PROVE  [Ledger!LedgerNext]_(Ledger!ledgerVars)
  <2>1. ASSUME NEW t \in Requests, Begin(t)
        PROVE  Ledger!LedgerNext
    BY <1>2, <2>1, BeginIsAsk DEF IInv, Ledger!LedgerNext
  <2>2. ASSUME NEW t \in Requests, VisitNight(t)
        PROVE  UNCHANGED Ledger!ledgerVars
    BY <2>2 DEF VisitNight, Answers, Active, Ledger!ledgerVars
  <2>3. ASSUME NEW t \in Requests, Decide(t), Bookable(t)
        PROVE  UNCHANGED Ledger!ledgerVars
    <3>1. Answers' = Answers
      BY <1>2, <2>3 DEF Decide, IInv, TypeOK, Answers, Active
    <3>2. QED
      BY <2>3, <3>1 DEF Decide, Ledger!ledgerVars
  <2>4. ASSUME NEW t \in Requests,
               (Decide(t) /\ ~Bookable(t)) \/ CommitReserve(t)
        PROVE  Ledger!LedgerNext
    BY <1>2, <2>4, ReservationIsServed DEF Ledger!LedgerNext
  <2>5. ASSUME NEW t \in Requests, CommitStatement(t)
        PROVE  Ledger!LedgerNext
    BY <1>2, <2>5, StatementIsServed DEF Ledger!LedgerNext
  <2>6. ASSUME NEW t \in Requests, Abort(t)
        PROVE  Ledger!LedgerNext
    <3>1. Ledger!Answer(t, "failed") /\ UNCHANGED calendar
      BY <1>2, <2>6, EndIsAnswer DEF Abort, IInv, Active
    <3>2. QED
      BY <3>1 DEF Ledger!LedgerNext, Ledger!Fail
  <2>7. CASE UNCHANGED inventoryVars
    BY <2>7 DEF inventoryVars, Answers, Active, Ledger!ledgerVars
  <2>8. QED
    BY <1>2, <2>1, <2>2, <2>3, <2>4, <2>5, <2>6, <2>7 DEF Next, Work
<1>3. QED
  BY <1>1, <1>2, Inductive, PTL DEF Spec, ImplementsLedger, Ledger!LedgerSpec

-----------------------------------------------------------------------------
\* No deadlock among row locks

\* A scan has locked only days below those it has still to visit.
ScanOrder == \A t \in Requests : \A d \in held[t], e \in left[t] : d < e

\* The order is kept by every step: the next day to visit is the lowest left.
LEMMA NextKeepsOrder ==
    ASSUME IInv, ScanOrder, [Next]_inventoryVars
    PROVE  ScanOrder'
<1>1. ASSUME NEW t \in Requests, Begin(t)
      PROVE  ScanOrder'
  <2>1. held[t] = {} /\ held' = held
    BY <1>1 DEF Begin, IInv, LockedReadsAreCurrent, Active
  <2>2. \A u \in Requests : u # t => left'[u] = left[u]
    BY <1>1 DEF Begin, IInv, TypeOK
  <2>3. QED
    BY <2>1, <2>2 DEF ScanOrder
<1>2. ASSUME NEW t \in Requests, VisitNight(t)
      PROVE  ScanOrder'
  <2>1. PICK d \in left[t] :
           /\ NextNight(t, d)
           /\ left' = [left EXCEPT ![t] = @ \ {d}]
           /\ held' = [held EXCEPT ![t] =
                         IF calendar[d] = "absent" THEN @ ELSE @ \cup {d}]
    BY <1>2 DEF VisitNight
  <2>2. \A e \in left[t] \ {d} : d < e
    BY <2>1, DatesAssumption DEF NextNight, IInv, TypeOK
  <2>3. left'[t] = left[t] \ {d} /\ held'[t] \subseteq held[t] \cup {d}
    BY <2>1 DEF IInv, TypeOK
  <2>4. \A u \in Requests :
           u # t => left'[u] = left[u] /\ held'[u] = held[u]
    BY <2>1 DEF IInv, TypeOK
  <2>5. QED
    BY <2>2, <2>3, <2>4 DEF ScanOrder
<1>3. ASSUME NEW t \in Requests,
             \/ Decide(t)
             \/ CommitReserve(t)
             \/ CommitStatement(t)
             \/ Abort(t)
      PROVE  ScanOrder'
  <2>1. left' = left
    BY <1>3 DEF Decide, CommitReserve, CommitStatement, Abort
  <2>2. \A u \in Requests : held'[u] \subseteq held[u]
    BY <1>3 DEF Decide, CommitReserve, CommitStatement, Abort, IInv, TypeOK
  <2>3. QED
    BY <2>1, <2>2 DEF ScanOrder
<1>4. CASE UNCHANGED inventoryVars
  BY <1>4 DEF inventoryVars, ScanOrder
<1>5. QED
  BY <1>1, <1>2, <1>3, <1>4 DEF Next, Work

\* Where every transaction of a group waits for another of the group, the day
\* each one waits at is below the day the other waits at; the calendar has a
\* last day, so some transaction of the group waits for none of the group.
LEMMA SomeoneRuns ==
    ASSUME IInv, ScanOrder, NEW S \in SUBSET Requests, S # {}
    PROVE  \E t \in S : \A u \in S : ~Waits(t, u)
<1>1. SUFFICES ASSUME \A t \in S : \E u \in S : Waits(t, u)
               PROVE  FALSE
  OBVIOUS
<1>2. PICK last \in Dates : \A d \in Dates : d <= last
  BY LastDayAssumption
<1> DEFINE Stops == {d \in Dates : \E t, u \in S : Waits(t, u) /\ NextNight(t, d)}
           Distances == {n \in Nat : \E d \in Stops : n = last - d}
<1>3. ASSUME NEW d \in Stops
      PROVE  \E e \in Stops : d < e
  <2>1. PICK t \in S, u \in S : Waits(t, u) /\ NextNight(t, d)
    BY <1>3
  <2>2. d \in held[u]
    <3>1. PICK e \in left[t] : NextNight(t, e) /\ e \in held[u]
      BY <2>1 DEF Waits
    <3>2. e = d
      BY <2>1, <3>1, DatesAssumption DEF NextNight, IInv, TypeOK
    <3>3. QED
      BY <3>1, <3>2
  <2>3. PICK v \in S : Waits(u, v)
    BY <1>1
  <2>4. PICK e \in left[u] : NextNight(u, e)
    BY <2>3 DEF Waits
  <2>5. e \in Stops
    BY <2>3, <2>4 DEF IInv, TypeOK
  <2>6. d < e
    BY <2>2, <2>4 DEF ScanOrder
  <2>7. QED
    BY <2>5, <2>6
<1>4. Distances # {}
  <2>1. PICK t \in S, u \in S : Waits(t, u)
    BY <1>1
  <2>2. PICK d \in left[t] : NextNight(t, d)
    BY <2>1 DEF Waits
  <2>3. d \in Stops
    BY <2>1, <2>2 DEF IInv, TypeOK
  <2>4. last - d \in Nat
    BY <1>2, <2>3, DatesAssumption
  <2>5. QED
    BY <2>3, <2>4
<1>5. PICK n \in Distances : \A m \in Distances : ~(<<m, n>> \in OpToRel(<, Nat))
  <2>1. Distances \subseteq Nat
    OBVIOUS
  <2> HIDE DEF Distances
  <2>2. QED
    BY <1>4, <2>1, WFMin, NatLessThanWellFounded
<1>6. PICK d \in Stops : n = last - d
  BY <1>5
<1>7. PICK e \in Stops : d < e
  BY <1>3, <1>6
<1>8. /\ last - e \in Nat
      /\ last - e < n
  BY <1>2, <1>6, <1>7, DatesAssumption
<1>9. last - e \in Distances
  BY <1>8
<1>10. <<last - e, n>> \in OpToRel(<, Nat)
  BY <1>5, <1>8 DEF OpToRel
<1>11. QED
  BY <1>5, <1>9, <1>10

\* Transactions never wait for each other in a circle, for any number of calls
\* on any ranges of a calendar with a last day: the database never has to break
\* a deadlock among them.
THEOREM NoDeadlock == Spec => []NoWaitCycle
<1>1. Init => IInv /\ ScanOrder
  <2>1. Init => ScanOrder
    BY DEF Init, ScanOrder
  <2>2. QED
    BY <2>1, InitEstablishes
<1>2. IInv /\ ScanOrder /\ [Next]_inventoryVars => (IInv /\ ScanOrder)'
  BY NextKeepsInv, NextKeepsOrder
<1>3. IInv /\ ScanOrder => NoWaitCycle
  BY SomeoneRuns DEF NoWaitCycle
<1>4. QED
  BY <1>1, <1>2, <1>3, PTL DEF Spec
=============================================================================
