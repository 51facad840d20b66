--------------------------- MODULE ChatBotProofs ---------------------------
(***************************************************************************)
(* For any number of members, widgets, messages and repeats: what the chat *)
(* bot keeps of a conversation is each message once, each answer after its *)
(* question, and the workflow is asked with the question in its context.   *)
(***************************************************************************)
EXTENDS ChatBot, FiniteSetTheorems, TLAPS

-----------------------------------------------------------------------------
\* The inductive invariant

\* The workflow answers a call once, so its clock counts calls it is done with.
Past == {c \in Calls : call[c].pc \in {"append", "answered", "refused", "done"}}
ClockFact == IsFiniteSet(Past) /\ clock <= Cardinality(Past)

\* A call that is served for a member has a session, and its question is stored
\* from then on; its time is one the clock has shown.  A call nobody has made
\* has not begun.
CallFact(c) ==
    /\ c > sent => call[c].pc = "unsent"
    /\ call[c].at <= clock
    /\ call[c].pc \in {"lookup", "create", "store", "read", "append"}
          => call[c].user \in Users
    /\ call[c].pc \in {"store", "read", "append"} => call[c].session \in Calls
    /\ call[c].pc = "read" \/ (call[c].pc = "ask" /\ call[c].user # Nobody)
          => Item(c, "USER") \in stored
    /\ call[c].pc = "append" =>
          \E j \in stored : /\ j.call = c /\ j.role = "USER"
                            /\ j.session = call[c].session /\ j.at < call[c].at

\* What is stored tells how far its call has come.
ItemFact(i) ==
    /\ i.role = "USER" => call[i.call].pc \in {"read", "ask", "append", "answered",
                                               "refused", "done"}
    /\ i.role = "ASSISTANT" => call[i.call].pc \in {"answered", "refused", "done"}

IInv == /\ TypeOK
        /\ IsFiniteSet(stored)
        /\ ClockFact
        /\ \A c \in Calls : CallFact(c)
        /\ \A i \in stored : ItemFact(i)
        /\ StoredOncePerSend
        /\ AnswersFollowQuestions
        /\ ContextHasQuestion

-----------------------------------------------------------------------------
\* Types

CallSteps == {"unsent", "sent", "lookup", "create", "store", "read", "ask",
              "append", "answered", "refused", "done"}

CallType == [pc : CallSteps, widget : Widgets \cup {"none"}, heard : BOOLEAN,
             bearer : Users \cup {Nobody}, tries : 0..MaxTries,
             user : Users \cup {Nobody}, session : 0..MaxCalls,
             at : 0..MaxCalls, context : SUBSET Items, behind : BOOLEAN]

\* An update outside of a function's domain leaves the function alone.
LEMMA UpdateIsTyped ==
    ASSUME NEW S, NEW T, NEW f \in [S -> T], NEW a, NEW v, a \in S => v \in T
    PROVE  [f EXCEPT ![a] = v] \in [S -> T]
OBVIOUS

LEMMA AppendIsTyped ==
    ASSUME NEW T, NEW s \in Seq(T), NEW e \in T
    PROVE  Append(s, e) \in Seq(T)
OBVIOUS

LEMMA CallsAreTyped == TypeOK => call \in [Calls -> CallType]
BY DEF TypeOK, CallType, CallSteps

LEMMA UnsentIsTyped == Unsent \in CallType
BY ChatAssumption DEF Unsent, CallType, CallSteps

LEMMA StepIsTyped ==
    ASSUME NEW r \in CallType, NEW pc \in CallSteps
    PROVE  [r EXCEPT !.pc = pc] \in CallType
BY DEF CallType

LEMMA WidgetKeepsType ==
    ASSUME TypeOK, NEW w \in Widgets, Submit(w) \/ Remount(w) \/ TokenChanges(w)
    PROVE  TypeOK'
<1> USE CallsAreTyped
<1>1. CASE Submit(w)
  <2> DEFINE c == sent + 1
  <2>1. c \in Calls /\ c \in 0..MaxCalls
    BY <1>1, ChatAssumption DEF Submit, TypeOK, Calls
  <2>2. call' \in [Calls -> CallType]
    <3>1. call[c] \in CallType
      BY <2>1
    <3>2. /\ "sent" \in CallSteps /\ 1 \in 0..MaxTries /\ TRUE \in BOOLEAN
          /\ Owner[w] \in Users
      BY ChatAssumption DEF CallSteps
    <3>3. PICK r : /\ call' = [call EXCEPT ![c] = r]
                   /\ \E u \in Users \cup {Nobody} :
                        r = [call[c] EXCEPT !.pc = "sent", !.widget = w, !.heard = TRUE,
                                            !.tries = 1, !.bearer = u]
      BY <1>1, <2>1, <3>2 DEF Submit
    <3>4. r \in CallType
      BY <3>1, <3>2, <3>3 DEF CallType
    <3>5. QED
      BY <3>3, <3>4
  <2>3. shown' \in [Widgets -> Seq([role : {"user", "bot"}, call : Calls])]
    BY <1>1, <2>1 DEF Submit, Show, TypeOK
  <2>4. QED
    BY <1>1, <2>1, <2>2, <2>3 DEF Submit, TypeOK, tables, CallType, CallSteps
<1>2. CASE Remount(w)
  <2>1. call' \in [Calls -> CallType]
    <3>1. \A c \in Calls : [call[c] EXCEPT !.heard = FALSE] \in CallType
      BY DEF CallType
    <3>2. QED
      BY <1>2, <3>1 DEF Remount
  <2>2. << >> \in Seq([role : {"user", "bot"}, call : Calls])
    OBVIOUS
  <2>3. QED
    BY <1>2, <2>1, <2>2 DEF Remount, TypeOK, tables, CallType, CallSteps
<1>3. CASE TokenChanges(w)
  BY <1>3 DEF TokenChanges, TypeOK, tables
<1>4. QED
  BY <1>1, <1>2, <1>3

\* As long as one call is still to be answered by the workflow, the clock has
\* not shown all its times.
LEMMA ClockHasRoom ==
    ASSUME TypeOK, ClockFact, NEW c \in Calls, call[c].pc = "ask"
    PROVE  clock + 1 \in 0..MaxCalls /\ clock + 1 <= Cardinality(Past \cup {c})
<1>1. IsFiniteSet(Calls) /\ Cardinality(Calls) = MaxCalls
  BY ChatAssumption, FS_Interval DEF Calls
<1>2. c \notin Past /\ Past \cup {c} \subseteq Calls
  BY DEF Past
<1>3. Cardinality(Past \cup {c}) = Cardinality(Past) + 1 /\ Cardinality(Past) \in Nat
  BY <1>2, FS_AddElement, FS_CardinalityType DEF ClockFact
<1>4. Cardinality(Past \cup {c}) <= MaxCalls
  BY <1>1, <1>2, FS_Subset
<1>5. QED
  BY <1>3, <1>4, ChatAssumption DEF ClockFact, TypeOK

LEMMA ServeKeepsType ==
    ASSUME TypeOK, ClockFact, NEW c \in Calls, CallFact(c), Serve(c)
    PROVE  TypeOK'
<1> USE CallsAreTyped
<1>1. call[c] \in CallType /\ c \in 0..MaxCalls
  BY DEF Calls
<1>2. ASSUME NEW r \in CallType, call' = [call EXCEPT ![c] = r],
             UNCHANGED <<sessions, indexed, settled, sent, widgetVars>>,
             stored' \subseteq Items, stored \subseteq stored', clock' \in 0..MaxCalls
      PROVE  TypeOK'
  BY <1>2 DEF TypeOK, widgetVars, CallType, CallSteps
<1>3. CASE LookUp(c)
  <2>1. CASE Goes(c, "create")
    <3>1. [call[c] EXCEPT !.pc = "create"] \in CallType
      BY <1>1, StepIsTyped DEF CallSteps
    <3>2. QED
      BY <1>2, <1>3, <2>1, <3>1 DEF LookUp, Goes, tables, TypeOK
  <2>2. CASE ~Goes(c, "create")
    <3>1. PICK s \in SessionsOf(call[c].user) \cap indexed :
             call' = [call EXCEPT ![c].pc = "store", ![c].session = s.id, ![c].at = clock]
      BY <1>3, <2>2 DEF LookUp
    <3>2. s.id \in 0..MaxCalls /\ clock \in 0..MaxCalls
      BY <3>1 DEF SessionsOf, TypeOK, Calls
    <3>3. [call[c] EXCEPT !.pc = "store", !.session = s.id, !.at = clock] \in CallType
      BY <1>1, <3>2 DEF CallType, CallSteps
    <3>4. QED
      BY <1>2, <1>3, <3>1, <3>2, <3>3 DEF LookUp, tables, TypeOK
  <2>3. QED
    BY <2>1, <2>2
<1>4. CASE CreateSession(c)
  <2>1. call[c].user \in Users
    BY <1>4 DEF CreateSession, At, CallFact
  <2>2. [call[c] EXCEPT !.pc = "store", !.session = c, !.at = clock] \in CallType
    BY <1>1 DEF CallType, CallSteps, TypeOK
  <2>3. call' \in [Calls -> CallType]
    BY <1>4, <2>2 DEF CreateSession
  <2>4. sessions' \subseteq [id : Calls, user : Users] /\ indexed' \subseteq sessions'
    BY <1>4, <2>1 DEF CreateSession, TypeOK
  <2>5. QED
    BY <1>4, <2>3, <2>4 DEF CreateSession, TypeOK, widgetVars, CallType, CallSteps
<1>5. CASE StoreQuestion(c)
  <2>1. Item(c, "USER") \in Items
    BY <1>1, <1>5 DEF StoreQuestion, At, CallFact, Item, Items, CallType
  <2>2. [call[c] EXCEPT !.pc = "read"] \in CallType
    BY <1>1, StepIsTyped DEF CallSteps
  <2>3. QED
    BY <1>2, <1>5, <2>1, <2>2 DEF StoreQuestion, Goes, TypeOK
<1>6. CASE ReadRecent(c)
  <2>1. PICK some \in SUBSET Items, b \in BOOLEAN :
           call' = [call EXCEPT ![c].pc = "ask", ![c].context = some, ![c].behind = b]
    BY <1>6 DEF ReadRecent, Newest, TypeOK
  <2>2. [call[c] EXCEPT !.pc = "ask", !.context = some, !.behind = b] \in CallType
    BY <1>1 DEF CallType, CallSteps
  <2>3. QED
    BY <1>2, <1>6, <2>1, <2>2 DEF ReadRecent, tables, TypeOK
<1>7. CASE WorkflowAnswers(c)
  <2>1. clock + 1 \in 0..MaxCalls
    BY <1>7, ClockHasRoom DEF WorkflowAnswers, At
  <2>2. PICK pc \in {"answered", "append"} :
           call' = [call EXCEPT ![c].pc = pc, ![c].at = clock + 1, ![c].context = {},
                                ![c].behind = FALSE]
    BY <1>7 DEF WorkflowAnswers
  <2>3. [call[c] EXCEPT !.pc = pc, !.at = clock + 1, !.context = {},
                        !.behind = FALSE] \in CallType
    BY <1>1, <2>1 DEF CallType, CallSteps
  <2>4. UNCHANGED <<tables, sent, widgetVars>> /\ clock' \in 0..MaxCalls
    BY <1>7, <2>1 DEF WorkflowAnswers
  <2>5. QED
    BY <1>2, <2>2, <2>3, <2>4 DEF tables, TypeOK
<1>8. CASE StoreAnswer(c) \/ Fails(c)
  <2>1. PICK pc \in {"answered", "refused"} : Ends(c, pc)
    BY <1>8 DEF StoreAnswer, Fails
  <2>2. [Unsent EXCEPT !.pc = pc, !.widget = call[c].widget, !.heard = call[c].heard]
           \in CallType
    BY <1>1, UnsentIsTyped DEF CallType, CallSteps
  <2>3. StoreAnswer(c) => Item(c, "ASSISTANT") \in Items
    BY <1>1 DEF StoreAnswer, At, CallFact, Item, Items, CallType
  <2>4. QED
    BY <1>2, <1>8, <2>1, <2>2, <2>3 DEF StoreAnswer, Fails, Ends, tables, TypeOK
<1>9. QED
  BY <1>3, <1>4, <1>5, <1>6, <1>7, <1>8 DEF Serve

LEMMA CallKeepsType ==
    ASSUME TypeOK, NEW c \in Calls, Limited(c) \/ Accept(c) \/ Hear(c) \/ Unheard(c)
    PROVE  TypeOK'
<1> USE CallsAreTyped
<1>1. call[c] \in CallType
  OBVIOUS
<1>2. CASE Limited(c) \/ Accept(c)
  <2>1. PICK r : call' = [call EXCEPT ![c] = r] /\ r \in CallType
    <3>1. CASE Limited(c) /\ call[c].tries < MaxTries
      <4>1. call[c].tries + 1 \in 0..MaxTries
        BY <1>1, <3>1, ChatAssumption DEF CallType
      <4>2. [call[c] EXCEPT !.tries = @ + 1] \in CallType
        BY <1>1, <4>1 DEF CallType
      <4>3. QED
        BY <3>1, <4>2 DEF Limited
    <3>2. CASE Limited(c) /\ ~(call[c].tries < MaxTries)
      <4>1. [call[c] EXCEPT !.pc = "refused"] \in CallType
        BY <1>1, StepIsTyped DEF CallSteps
      <4>2. QED
        BY <3>2, <4>1 DEF Limited, Goes
    <3>3. CASE Accept(c)
      <4>1. PICK u \in Users \cup {Nobody}, pc \in {"ask", "lookup"} :
               call' = [call EXCEPT ![c].user = u, ![c].bearer = Nobody, ![c].tries = 0,
                                    ![c].pc = pc]
        <5>1. PICK v \in {call[c].bearer, Nobody} :
                 call' = [call EXCEPT ![c].user = v, ![c].bearer = Nobody, ![c].tries = 0,
                                      ![c].pc = IF v = Nobody THEN "ask" ELSE "lookup"]
          BY <3>3, Zenon DEF Accept
        <5>2. v \in Users \cup {Nobody}
          BY <1>1, <5>1 DEF CallType
        <5>3. (IF v = Nobody THEN "ask" ELSE "lookup") \in {"ask", "lookup"}
          OBVIOUS
        <5>4. QED
          BY <5>1, <5>2, <5>3, Zenon
      <4>2. [call[c] EXCEPT !.user = u, !.bearer = Nobody, !.tries = 0, !.pc = pc]
               \in CallType
        <5>1. Nobody \in Users \cup {Nobody} /\ 0 \in 0..MaxTries /\ pc \in CallSteps
          BY ChatAssumption DEF CallSteps
        <5>2. QED
          BY <1>1, <5>1 DEF CallType
      <4>3. QED
        BY <4>1, <4>2
    <3>4. QED
      BY <1>2, <3>1, <3>2, <3>3
  <2>2. QED
    BY <1>2, <2>1 DEF Limited, Accept, TypeOK, tables, widgetVars, CallType, CallSteps
<1>3. CASE Hear(c) \/ Unheard(c)
  <2>1. [Unsent EXCEPT !.pc = "done"] \in CallType
    BY UnsentIsTyped, StepIsTyped DEF CallSteps
  <2>2. call' \in [Calls -> CallType]
    BY <1>3, <2>1 DEF Hear, Unheard
  <2>3. shown' \in [Widgets -> Seq([role : {"user", "bot"}, call : Calls])]
    <3>1. CASE Hear(c)
      <4>1. [role |-> "bot", call |-> c] \in [role : {"user", "bot"}, call : Calls]
        OBVIOUS
      <4>2. \A w \in Widgets : Append(shown[w], [role |-> "bot", call |-> c])
                                  \in Seq([role : {"user", "bot"}, call : Calls])
        <5>1. \A w \in Widgets : shown[w] \in Seq([role : {"user", "bot"}, call : Calls])
          BY DEF TypeOK
        <5>2. QED
          BY <4>1, <5>1, AppendIsTyped
      <4>3. shown' = [shown EXCEPT ![call[c].widget] =
                         Append(shown[call[c].widget], [role |-> "bot", call |-> c])]
        BY <3>1 DEF Hear, Show
      <4>4. shown \in [Widgets -> Seq([role : {"user", "bot"}, call : Calls])]
        BY DEF TypeOK
      <4>5. QED
        BY <4>2, <4>3, <4>4, UpdateIsTyped
    <3>2. CASE Unheard(c)
      BY <3>2 DEF Unheard, widgetVars, TypeOK
    <3>3. QED
      BY <1>3, <3>1, <3>2
  <2>4. QED
    BY <1>3, <2>2, <2>3 DEF Hear, Unheard, TypeOK, tables, widgetVars, CallType, CallSteps
<1>4. QED
  BY <1>2, <1>3

-----------------------------------------------------------------------------
\* Most steps write nothing into the history and leave the clock alone

Same(c) == /\ call'[c].pc = call[c].pc /\ call'[c].user = call[c].user
           /\ call'[c].session = call[c].session /\ call'[c].at = call[c].at
           /\ call'[c].context = call[c].context /\ call'[c].behind = call[c].behind

Served == {"lookup", "create", "store", "read", "ask", "append"}

\* What such a step may do to a call: leave it where it is, or move it on.
Quiet(c) ==
    \/ Same(c)
    \/ /\ call[c].pc = "unsent" /\ call'[c].pc = "sent" /\ c <= sent'
       /\ call'[c].at = call[c].at
    \/ /\ call[c].pc = "sent" /\ call'[c].at = call[c].at
       /\ \/ call'[c].pc = "refused"
          \/ call'[c].pc = "lookup" /\ call'[c].user \in Users
          \/ call'[c].pc = "ask" /\ call'[c].user = Nobody
    \/ /\ call[c].pc = "lookup" /\ call'[c].pc = "create"
       /\ call'[c].user = call[c].user /\ call'[c].at = call[c].at
    \/ /\ call[c].pc \in {"lookup", "create"} /\ call'[c].pc = "store"
       /\ call'[c].user = call[c].user /\ call'[c].at = clock
       /\ call'[c].session \in Calls
    \/ /\ call[c].pc \in Served /\ call'[c].pc = "refused" /\ call'[c].at = 0
    \/ /\ call[c].pc \in {"answered", "refused"} /\ call'[c].pc = "done"
       /\ call'[c].at = 0

\* A call that stays where it is keeps its facts while the history grows.
LEMMA SameKeepsCall ==
    ASSUME TypeOK, TypeOK', NEW c \in Calls, CallFact(c), Same(c),
           stored \subseteq stored', clock <= clock', sent <= sent'
    PROVE  CallFact(c)'
<1>1. c \in Nat /\ sent \in Nat /\ sent' \in Nat /\ clock \in Nat /\ clock' \in Nat
  BY DEF TypeOK, Calls
<1>2. call[c].at \in Nat
  BY CallsAreTyped DEF CallType
<1>3. Item(c, "USER")' = Item(c, "USER")
  BY DEF Same, Item
<1>4. QED
  BY <1>1, <1>2, <1>3 DEF CallFact, Same

LEMMA QuietKeepsCall ==
    ASSUME TypeOK, TypeOK', NEW c \in Calls, CallFact(c), Quiet(c),
           stored' = stored, clock' = clock, sent <= sent'
    PROVE  CallFact(c)'
<1>1. c \in Nat /\ sent \in Nat /\ sent' \in Nat /\ clock \in Nat
  BY DEF TypeOK, Calls
<1>2. CASE Same(c)
  BY <1>1, <1>2, SameKeepsCall
<1>3. CASE ~Same(c)
  BY <1>1, <1>3, NobodyAssumption DEF Quiet, CallFact, Served
<1>4. QED
  BY <1>2, <1>3

\* The calls the workflow is done with are never fewer, and as many as the clock
\* shows.
LEMMA PastGrows ==
    ASSUME TypeOK, ClockFact, clock' = clock, Past \subseteq Past'
    PROVE  ClockFact'
<1>1. IsFiniteSet(Calls)
  BY ChatAssumption, FS_Interval DEF Calls
<1>2. IsFiniteSet(Past')
  BY <1>1, FS_Subset DEF Past
<1>3. Cardinality(Past) <= Cardinality(Past') /\ Cardinality(Past) \in Nat
        /\ Cardinality(Past') \in Nat
  BY <1>2, FS_Subset, FS_CardinalityType
<1>4. QED
  BY <1>2, <1>3 DEF ClockFact, TypeOK

LEMMA QuietKeepsInv ==
    ASSUME IInv, TypeOK', stored' = stored, clock' = clock, sent' = sent \/ sent' = sent + 1,
           \A c \in Calls : Quiet(c)
    PROVE  IInv'
<1> USE DEF IInv
<1>0. sent <= sent'
  BY DEF TypeOK
<1>1. ClockFact'
  <2>1. Past \subseteq Past'
    BY DEF Past, Quiet, Same, Served
  <2>2. QED
    BY <2>1, PastGrows
<1>2. \A c \in Calls : CallFact(c)'
  BY <1>0, QuietKeepsCall
<1>3. \A i \in stored' : ItemFact(i)'
  <2>1. SUFFICES ASSUME NEW i \in stored PROVE ItemFact(i)'
    OBVIOUS
  <2>2. i.call \in Calls /\ ItemFact(i)
    BY DEF TypeOK, Items
  <2>3. QED
    BY <2>2 DEF ItemFact, Quiet, Same, Served
<1>4. StoredOncePerSend' /\ AnswersFollowQuestions'
  BY DEF StoredOncePerSend, AnswersFollowQuestions
<1>5. ContextHasQuestion'
  <2>1. SUFFICES ASSUME NEW c \in Calls, call'[c].pc = "ask", call'[c].user # Nobody
                 PROVE  \/ Item(c, "USER")' \in call'[c].context
                        \/ call'[c].behind
                        \/ Limit <= Cardinality({i \in stored :
                                        /\ i.session = call'[c].session
                                        /\ i.call # c /\ i.at >= call'[c].at})
    BY DEF ContextHasQuestion
  <2>2. Same(c)
    BY <2>1 DEF Quiet
  <2>3. QED
    BY <2>1, <2>2 DEF Same, Item, ContextHasQuestion
<1>6. QED
  BY <1>1, <1>2, <1>3, <1>4, <1>5

-----------------------------------------------------------------------------
\* The quiet steps

LEMMA WidgetIsQuiet ==
    ASSUME IInv, NEW w \in Widgets, Submit(w) \/ Remount(w) \/ TokenChanges(w)
    PROVE  IInv'
<1>0. TypeOK'
  BY WidgetKeepsType DEF IInv
<1>1. CASE Submit(w)
  <2>1. sent \in Nat /\ sent + 1 \in Calls /\ sent' = sent + 1
    BY <1>1, ChatAssumption DEF Submit, IInv, TypeOK, Calls
  <2>2. CallFact(sent + 1) /\ call \in [Calls -> CallType]
    BY <2>1, CallsAreTyped DEF IInv
  <2>3. call[sent + 1].pc = "unsent"
    BY <2>1, <2>2 DEF CallFact
  <2>4. /\ call'[sent + 1].pc = "sent" /\ call'[sent + 1].at = call[sent + 1].at
        /\ \A c \in Calls : c # sent + 1 => call'[c] = call[c]
    BY <1>1, <2>1, <2>2 DEF Submit, CallType
  <2>5. \A c \in Calls : Quiet(c)
    BY <2>1, <2>3, <2>4 DEF Quiet, Same
  <2>6. QED
    BY <1>0, <1>1, <2>1, <2>5, QuietKeepsInv DEF Submit, tables
<1>2. CASE Remount(w)
  <2>1. \A c \in Calls : Same(c)
    BY <1>2, CallsAreTyped DEF Remount, Same, IInv, CallType
  <2>2. QED
    BY <1>0, <1>2, <2>1, QuietKeepsInv DEF Remount, tables, Quiet
<1>3. CASE TokenChanges(w)
  BY <1>0, <1>3, QuietKeepsInv DEF TokenChanges, tables, Quiet, Same
<1>4. QED
  BY <1>1, <1>2, <1>3

\* One call moves, the others stay.
LEMMA OneMoves ==
    ASSUME IInv, TypeOK', NEW c \in Calls, NEW r, call' = [call EXCEPT ![c] = r], Quiet(c),
           stored' = stored, clock' = clock, sent' = sent
    PROVE  IInv'
<1>1. \A d \in Calls : Quiet(d)
  BY CallsAreTyped DEF Quiet, Same, IInv
<1>2. QED
  BY <1>1, QuietKeepsInv

LEMMA HandlingIsQuiet ==
    ASSUME IInv, NEW c \in Calls, Limited(c) \/ Accept(c) \/ Hear(c) \/ Unheard(c)
    PROVE  IInv'
<1>0. TypeOK' /\ call \in [Calls -> CallType] /\ call[c] \in CallType
  BY CallKeepsType, CallsAreTyped DEF IInv
<1>1. stored' = stored /\ clock' = clock /\ sent' = sent
  BY DEF Limited, Accept, Hear, Unheard, tables
<1>2. PICK r : call' = [call EXCEPT ![c] = r] /\ Quiet(c)
  <2>1. CASE Limited(c)
    BY <1>0, <2>1 DEF Limited, Goes, At, Quiet, Same, CallType
  <2>2. CASE Accept(c)
    <3>1. PICK u \in {call[c].bearer, Nobody}, pc \in {"ask", "lookup"} :
             /\ pc = IF u = Nobody THEN "ask" ELSE "lookup"
             /\ call' = [call EXCEPT ![c].user = u, ![c].bearer = Nobody, ![c].tries = 0,
                                     ![c].pc = pc]
      BY <2>2 DEF Accept
    <3>2. /\ call'[c].pc = pc /\ call'[c].user = u /\ call'[c].at = call[c].at
          /\ call[c].bearer \in Users \cup {Nobody}
      BY <1>0, <3>1 DEF CallType
    <3>3. Quiet(c)
      BY <2>2, <3>1, <3>2 DEF Accept, At, Quiet
    <3>4. QED
      <4> DEFINE r == [call[c] EXCEPT !.user = u, !.bearer = Nobody, !.tries = 0, !.pc = pc]
      <4>1. call' = [call EXCEPT ![c] = r]
        BY <3>1
      <4>2. QED
        BY <3>3, <4>1
  <2>3. CASE Hear(c) \/ Unheard(c)
    BY <1>0, <2>3 DEF Hear, Unheard, Quiet, Unsent
  <2>4. QED
    BY <2>1, <2>2, <2>3
<1>3. QED
  BY <1>0, <1>1, <1>2, OneMoves

LEMMA ServingIsQuiet ==
    ASSUME IInv, NEW c \in Calls, LookUp(c) \/ CreateSession(c) \/ Fails(c)
    PROVE  IInv'
<1>0. TypeOK' /\ call \in [Calls -> CallType] /\ call[c] \in CallType
  BY ServeKeepsType, CallsAreTyped DEF IInv, Serve
<1>1. stored' = stored /\ clock' = clock /\ sent' = sent
  BY DEF LookUp, CreateSession, Fails, tables
<1>2. PICK r : call' = [call EXCEPT ![c] = r] /\ Quiet(c)
  <2>1. CASE LookUp(c)
    <3>1. CASE Goes(c, "create")
      BY <1>0, <2>1, <3>1 DEF LookUp, Goes, At, Quiet, CallType
    <3>2. CASE ~Goes(c, "create")
      <4>1. PICK s \in SessionsOf(call[c].user) \cap indexed :
               call' = [call EXCEPT ![c].pc = "store", ![c].session = s.id, ![c].at = clock]
        BY <2>1, <3>2 DEF LookUp
      <4>2. s.id \in Calls
        BY <4>1 DEF SessionsOf, IInv, TypeOK
      <4>3. QED
        BY <1>0, <2>1, <4>1, <4>2 DEF LookUp, At, Quiet, CallType
    <3>3. QED
      BY <3>1, <3>2
  <2>2. CASE CreateSession(c)
    BY <1>0, <2>2 DEF CreateSession, At, Quiet, CallType
  <2>3. CASE Fails(c)
    BY <1>0, <2>3 DEF Fails, Ends, Quiet, Served, Unsent
  <2>4. QED
    BY <2>1, <2>2, <2>3
<1>3. QED
  BY <1>0, <1>1, <1>2, OneMoves

LEMMA ReplicationIsQuiet == IInv /\ Replicate => IInv'
<1> SUFFICES ASSUME IInv, Replicate PROVE IInv'
  OBVIOUS
<1>1. TypeOK'
  BY DEF Replicate, IInv, TypeOK, widgetVars
<1>2. QED
  BY <1>1, QuietKeepsInv DEF Replicate, Quiet, Same

LEMMA StutterIsQuiet == IInv /\ UNCHANGED vars => IInv'
<1> SUFFICES ASSUME IInv, UNCHANGED vars PROVE IInv'
  OBVIOUS
<1>1. TypeOK'
  BY DEF vars, tables, widgetVars, IInv, TypeOK
<1>2. QED
  BY <1>1, QuietKeepsInv DEF vars, tables, Quiet, Same

-----------------------------------------------------------------------------
\* What is written into the history

\* The calls that stay where they are do not notice what another one writes.
LEMMA OthersKeepFacts ==
    ASSUME IInv, TypeOK', NEW c \in Calls, NEW r, call' = [call EXCEPT ![c] = r],
           stored \subseteq stored', clock <= clock', sent' = sent
    PROVE  \A d \in Calls \ {c} : Same(d) /\ CallFact(d)'
<1>1. \A d \in Calls \ {c} : call'[d] = call[d]
  BY CallsAreTyped DEF IInv
<1>2. \A d \in Calls \ {c} : Same(d)
  BY <1>1 DEF Same
<1>3. sent <= sent'
  BY DEF IInv, TypeOK
<1>4. QED
  BY <1>2, <1>3, SameKeepsCall DEF IInv

\* One message more does not take from a context what it had.
LEMMA GrowthKeepsContext ==
    ASSUME IInv, TypeOK', NEW d \in Calls, Same(d), stored \subseteq stored',
           IsFiniteSet(stored'), call'[d].pc = "ask", call'[d].user # Nobody
    PROVE  \/ Item(d, "USER")' \in call'[d].context
           \/ call'[d].behind
           \/ Limit <= Cardinality({i \in stored' :
                           /\ i.session = call'[d].session
                           /\ i.call # d /\ i.at >= call'[d].at})
<1> DEFINE Later(items) == {i \in items : /\ i.session = call[d].session
                                          /\ i.call # d /\ i.at >= call[d].at}
<1>1. \/ Item(d, "USER") \in call[d].context \/ call[d].behind
      \/ Limit <= Cardinality(Later(stored))
  BY DEF IInv, ContextHasQuestion, Same
<1>2. Later(stored) \subseteq Later(stored') /\ IsFiniteSet(Later(stored'))
  BY FS_Subset
<1>3. /\ Cardinality(Later(stored)) <= Cardinality(Later(stored'))
      /\ Cardinality(Later(stored)) \in Nat /\ Cardinality(Later(stored')) \in Nat
  BY <1>2, FS_Subset, FS_CardinalityType
<1>4. Limit <= Cardinality(Later(stored)) => Limit <= Cardinality(Later(stored'))
  BY <1>3, ChatAssumption
<1>5. QED
  BY <1>1, <1>4 DEF Same, Item

LEMMA StoreQuestionKeepsInv == \A c \in Calls : IInv /\ StoreQuestion(c) => IInv'
<1> SUFFICES ASSUME NEW c \in Calls, IInv, StoreQuestion(c) PROVE IInv'
  OBVIOUS
<1>0. PICK question : question = Item(c, "USER")
  OBVIOUS
<1>1. /\ TypeOK /\ TypeOK' /\ CallFact(c) /\ call[c] \in CallType /\ ClockFact
      /\ call \in [Calls -> CallType]
  BY ServeKeepsType, CallsAreTyped DEF IInv, Serve
<1>2. /\ call[c].pc = "store" /\ call' = [call EXCEPT ![c].pc = "read"]
      /\ stored' = stored \cup {question} /\ sent' = sent /\ clock' = clock
      /\ stored \subseteq stored'
  BY <1>0 DEF StoreQuestion, At, Goes
<1>3. \A d \in Calls \ {c} : Same(d) /\ CallFact(d)'
  <2>1. clock <= clock'
    BY <1>1, <1>2 DEF TypeOK
  <2>2. PICK r : call' = [call EXCEPT ![c] = r]
    BY <1>2
  <2>3. QED
    BY <1>1, <1>2, <2>1, <2>2, OthersKeepFacts
<1>4. /\ call'[c].pc = "read" /\ call'[c].user = call[c].user
      /\ call'[c].session = call[c].session /\ call'[c].at = call[c].at
  BY <1>1, <1>2 DEF CallType
<1>5. CallFact(c)'
  BY <1>0, <1>1, <1>2, <1>4 DEF CallFact, Item
<1>6. IsFiniteSet(stored')
  BY <1>2, FS_AddElement DEF IInv
<1>7. ClockFact'
  BY <1>1, <1>2, <1>3, <1>4, PastGrows DEF Past, Same
<1>8. \A i \in stored' : ItemFact(i)'
  <2>1. ItemFact(question)'
    BY <1>0, <1>4 DEF ItemFact, Item
  <2>2. ASSUME NEW i \in stored PROVE ItemFact(i)'
    <3>1. i.call \in Calls /\ ItemFact(i)
      BY DEF IInv, TypeOK, Items
    <3>2. QED
      BY <1>2, <1>3, <1>4, <3>1 DEF ItemFact, Same
  <2>3. QED
    BY <1>2, <2>1, <2>2
<1>9. StoredOncePerSend'
  <2>1. \A i \in stored : ~(i.call = c /\ i.role = "USER")
    BY <1>2 DEF IInv, ItemFact
  <2>2. question.call = c /\ question.role = "USER"
    BY <1>0 DEF Item
  <2>3. QED
    BY <1>2, <2>1, <2>2 DEF StoredOncePerSend, IInv
<1>10. AnswersFollowQuestions'
  BY <1>0, <1>2 DEF AnswersFollowQuestions, IInv, Item
<1>11. ContextHasQuestion'
  BY <1>1, <1>2, <1>3, <1>4, <1>6, GrowthKeepsContext DEF ContextHasQuestion
<1>12. QED
  BY <1>1, <1>3, <1>5, <1>6, <1>7, <1>8, <1>9, <1>10, <1>11 DEF IInv

LEMMA StoreAnswerKeepsInv == \A c \in Calls : IInv /\ StoreAnswer(c) => IInv'
<1> SUFFICES ASSUME NEW c \in Calls, IInv, StoreAnswer(c) PROVE IInv'
  OBVIOUS
<1>0. PICK answer : answer = Item(c, "ASSISTANT")
  OBVIOUS
<1>1. /\ TypeOK /\ TypeOK' /\ CallFact(c) /\ call[c] \in CallType /\ ClockFact
      /\ call \in [Calls -> CallType]
  BY ServeKeepsType, CallsAreTyped DEF IInv, Serve
<1>a. PICK pc \in {"answered", "refused"} : Ends(c, pc)
  BY DEF StoreAnswer
<1>2. /\ call[c].pc = "append"
      /\ call' = [call EXCEPT ![c] = [Unsent EXCEPT !.pc = pc,
                          !.widget = call[c].widget, !.heard = call[c].heard]]
      /\ stored' = stored \cup {answer} /\ sent' = sent /\ clock' = clock
      /\ stored \subseteq stored'
  BY <1>0, <1>a DEF StoreAnswer, At, Ends
<1>3. \A d \in Calls \ {c} : Same(d) /\ CallFact(d)'
  <2>1. clock <= clock'
    BY <1>1, <1>2 DEF TypeOK
  <2>2. PICK r : call' = [call EXCEPT ![c] = r]
    BY <1>2
  <2>3. QED
    BY <1>1, <1>2, <2>1, <2>2, OthersKeepFacts
<1>4. call'[c].pc \in {"answered", "refused"} /\ call'[c].at = 0
  BY <1>1, <1>2 DEF Unsent
<1>5. CallFact(c)'
  BY <1>1, <1>2, <1>4 DEF CallFact, TypeOK
<1>6. IsFiniteSet(stored')
  BY <1>2, FS_AddElement DEF IInv
<1>7. ClockFact'
  BY <1>1, <1>2, <1>3, <1>4, PastGrows DEF Past, Same
<1>8. \A i \in stored' : ItemFact(i)'
  <2>1. ItemFact(answer)'
    BY <1>0, <1>4 DEF ItemFact, Item
  <2>2. ASSUME NEW i \in stored PROVE ItemFact(i)'
    <3>1. i.call \in Calls /\ ItemFact(i)
      BY DEF IInv, TypeOK, Items
    <3>2. QED
      BY <1>2, <1>3, <1>4, <3>1 DEF ItemFact, Same
  <2>3. QED
    BY <1>2, <2>1, <2>2
<1>9. StoredOncePerSend'
  <2>1. \A i \in stored : ~(i.call = c /\ i.role = "ASSISTANT")
    BY <1>2 DEF IInv, ItemFact
  <2>2. answer.call = c /\ answer.role = "ASSISTANT"
    BY <1>0 DEF Item
  <2>3. QED
    BY <1>2, <2>1, <2>2 DEF StoredOncePerSend, IInv
<1>10. AnswersFollowQuestions'
  <2>1. PICK j \in stored : /\ j.call = c /\ j.role = "USER"
                            /\ j.session = call[c].session /\ j.at < call[c].at
    BY <1>1, <1>2 DEF CallFact
  <2>2. answer.call = c /\ answer.session = call[c].session /\ answer.at = call[c].at
    BY <1>0 DEF Item
  <2>3. QED
    BY <1>2, <2>1, <2>2 DEF AnswersFollowQuestions, IInv
<1>11. ContextHasQuestion'
  BY <1>1, <1>2, <1>3, <1>4, <1>6, GrowthKeepsContext DEF ContextHasQuestion
<1>12. QED
  BY <1>1, <1>3, <1>5, <1>6, <1>7, <1>8, <1>9, <1>10, <1>11 DEF IInv

LEMMA WorkflowKeepsInv == \A c \in Calls : IInv /\ WorkflowAnswers(c) => IInv'
<1> SUFFICES ASSUME NEW c \in Calls, IInv, WorkflowAnswers(c) PROVE IInv'
  OBVIOUS
<1>1. /\ TypeOK /\ TypeOK' /\ CallFact(c) /\ call[c] \in CallType /\ ClockFact
      /\ call \in [Calls -> CallType] /\ clock \in Nat /\ c \in Nat /\ sent \in Nat
  <2>1. /\ TypeOK /\ TypeOK' /\ CallFact(c) /\ call[c] \in CallType /\ ClockFact
        /\ call \in [Calls -> CallType]
    BY ServeKeepsType, CallsAreTyped DEF IInv, Serve
  <2>2. clock \in Nat /\ c \in Nat /\ sent \in Nat
    BY <2>1 DEF TypeOK, Calls
  <2>3. QED
    BY <2>1, <2>2
<1>2. /\ call[c].pc = "ask" /\ clock' = clock + 1 /\ stored' = stored /\ sent' = sent
  BY DEF WorkflowAnswers, At, tables
<1>3. PICK r : call' = [call EXCEPT ![c] = r]
  BY DEF WorkflowAnswers
<1>4. \A d \in Calls \ {c} : Same(d) /\ CallFact(d)'
  <2>1. clock <= clock'
    BY <1>1, <1>2
  <2>2. QED
    BY <1>1, <1>2, <1>3, <2>1, OthersKeepFacts
<1>5. /\ call'[c].pc = IF call[c].user = Nobody THEN "answered" ELSE "append"
      /\ call'[c].user = call[c].user /\ call'[c].session = call[c].session
      /\ call'[c].at = clock + 1
  BY <1>1 DEF WorkflowAnswers, CallType
<1>6. CallFact(c)'
  <2>1. CASE call[c].user = Nobody
    BY <1>1, <1>2, <1>5, <2>1 DEF CallFact
  <2>2. CASE call[c].user # Nobody
    <3>1. Item(c, "USER") \in stored /\ call[c].at <= clock
      BY <1>1, <1>2, <2>2 DEF CallFact
    <3>2. call[c].session \in Calls /\ call[c].at \in Nat
      BY <1>1, <3>1 DEF TypeOK, Items, Item
    <3>3. call[c].user \in Users
      BY <1>1, <2>2 DEF CallType
    <3>4. PICK j \in stored : /\ j.call = c /\ j.role = "USER"
                              /\ j.session = call[c].session /\ j.at = call[c].at
      BY <3>1 DEF Item
    <3>5. j.at < clock + 1
      BY <1>1, <3>1, <3>2, <3>4
    <3>6. QED
      BY <1>1, <1>2, <1>5, <2>2, <3>2, <3>3, <3>4, <3>5 DEF CallFact
  <2>3. QED
    BY <2>1, <2>2
<1>7. ClockFact'
  <2>1. Past' = Past \cup {c}
    BY <1>4, <1>5 DEF Past, Same
  <2>2. IsFiniteSet(Past')
    BY <1>1, <2>1, FS_AddElement DEF ClockFact
  <2>3. clock' <= Cardinality(Past')
    BY <1>1, <1>2, <2>1, ClockHasRoom
  <2>4. QED
    BY <2>2, <2>3 DEF ClockFact
<1>8. \A i \in stored' : ItemFact(i)'
  <2>1. SUFFICES ASSUME NEW i \in stored PROVE ItemFact(i)'
    BY <1>2
  <2>2. i.call \in Calls /\ ItemFact(i)
    BY DEF IInv, TypeOK, Items
  <2>3. QED
    BY <1>2, <1>4, <1>5, <2>2 DEF ItemFact, Same
<1>9. StoredOncePerSend' /\ AnswersFollowQuestions' /\ IsFiniteSet(stored')
  BY <1>2 DEF StoredOncePerSend, AnswersFollowQuestions, IInv
<1>10. ContextHasQuestion'
  <2>1. call'[c].pc # "ask"
    BY <1>5
  <2>2. stored \subseteq stored'
    BY <1>2
  <2>3. QED
    BY <1>1, <1>4, <1>9, <2>1, <2>2, GrowthKeepsContext DEF ContextHasQuestion
<1>11. QED
  BY <1>1, <1>4, <1>6, <1>7, <1>8, <1>9, <1>10 DEF IInv

\* A full answer of the query that lacks the question consists of messages of
\* the question's moment or later.
LEMMA FullOfLater ==
    ASSUME NEW items, IsFiniteSet(items), NEW some \in Newest(items),
           NEW question \in items, question \notin some
    PROVE  /\ Limit <= Cardinality(some)
           /\ \A i \in some : i \in items /\ i # question /\ i.at >= question.at
<1>1. /\ some \subseteq items /\ Cardinality(some) = Smaller(Limit, Cardinality(items))
      /\ \A i \in some, j \in items \ some : i.at >= j.at
  BY DEF Newest
<1>2. some # items /\ Cardinality(items) \in Nat /\ Cardinality(some) \in Nat
  BY <1>1, FS_CardinalityType, FS_Subset
<1>3. Cardinality(some) # Cardinality(items)
  BY <1>1, <1>2, FS_Subset
<1>4. Limit <= Cardinality(some)
  BY <1>1, <1>2, <1>3, ChatAssumption DEF Smaller
<1>5. QED
  BY <1>1, <1>4

LEMMA ReadRecentKeepsInv == \A c \in Calls : IInv /\ ReadRecent(c) => IInv'
<1> SUFFICES ASSUME NEW c \in Calls, IInv, ReadRecent(c) PROVE IInv'
  OBVIOUS
<1>0. PICK question : question = Item(c, "USER")
  OBVIOUS
<1>1. /\ TypeOK /\ TypeOK' /\ CallFact(c) /\ call[c] \in CallType /\ ClockFact
      /\ call \in [Calls -> CallType] /\ clock \in Nat
  <2>1. /\ TypeOK /\ TypeOK' /\ CallFact(c) /\ call[c] \in CallType /\ ClockFact
        /\ call \in [Calls -> CallType]
    BY ServeKeepsType, CallsAreTyped DEF IInv, Serve
  <2>2. clock \in Nat
    BY <2>1 DEF TypeOK
  <2>3. QED
    BY <2>1, <2>2
<1>2. /\ call[c].pc = "read" /\ clock' = clock /\ stored' = stored /\ sent' = sent
      /\ stored \subseteq stored'
  BY DEF ReadRecent, At, tables
<1> DEFINE mine == {i \in stored : i.session = call[c].session}
<1>3. PICK lag \in {{}, mine \ settled} : \E some \in Newest(mine \ lag) :
         call' = [call EXCEPT ![c].pc = "ask", ![c].context = some, ![c].behind = lag # {}]
  BY DEF ReadRecent
<1>4. PICK some \in Newest(mine \ lag) :
         call' = [call EXCEPT ![c].pc = "ask", ![c].context = some, ![c].behind = lag # {}]
  BY <1>3
<1>5. \A d \in Calls \ {c} : Same(d) /\ CallFact(d)'
  <2>1. clock <= clock'
    BY <1>1, <1>2
  <2>2. QED
    BY <1>1, <1>2, <1>4, <2>1, OthersKeepFacts
<1>6. /\ call'[c].pc = "ask" /\ call'[c].user = call[c].user
      /\ call'[c].session = call[c].session /\ call'[c].at = call[c].at
      /\ call'[c].context = some /\ call'[c].behind = (lag # {})
  BY <1>1, <1>4 DEF CallType
<1>7. CallFact(c)'
  BY <1>1, <1>2, <1>6 DEF CallFact, Item
<1>8. ClockFact'
  BY <1>1, <1>2, <1>5, <1>6, PastGrows DEF Past, Same
<1>9. \A i \in stored' : ItemFact(i)'
  <2>1. SUFFICES ASSUME NEW i \in stored PROVE ItemFact(i)'
    BY <1>2
  <2>2. i.call \in Calls /\ ItemFact(i)
    BY DEF IInv, TypeOK, Items
  <2>3. QED
    BY <1>2, <1>5, <1>6, <2>2 DEF ItemFact, Same
<1>10. StoredOncePerSend' /\ AnswersFollowQuestions' /\ IsFiniteSet(stored')
  BY <1>2 DEF StoredOncePerSend, AnswersFollowQuestions, IInv
<1>11. ContextHasQuestion'
  <2>1. ASSUME NEW d \in Calls \ {c}, call'[d].pc = "ask", call'[d].user # Nobody
        PROVE  \/ Item(d, "USER")' \in call'[d].context
               \/ call'[d].behind
               \/ Limit <= Cardinality({i \in stored' :
                               /\ i.session = call'[d].session
                               /\ i.call # d /\ i.at >= call'[d].at})
    BY <1>1, <1>2, <1>5, <1>10, <2>1, GrowthKeepsContext
  <2>2. ASSUME question \notin some, lag = {}
        PROVE  Limit <= Cardinality({i \in stored : /\ i.session = call[c].session
                                                   /\ i.call # c /\ i.at >= call[c].at})
    <3> DEFINE later == {i \in stored : /\ i.session = call[c].session
                                        /\ i.call # c /\ i.at >= call[c].at}
    <3>1. question \in mine /\ question.at = call[c].at
      BY <1>0, <1>1, <1>2 DEF CallFact, Item
    <3>2. IsFiniteSet(mine) /\ mine \ lag = mine
      BY <2>2, FS_Subset DEF IInv
    <3>3. /\ Limit <= Cardinality(some)
          /\ \A i \in some : i \in mine /\ i # question /\ i.at >= call[c].at
      BY <2>2, <3>1, <3>2, FullOfLater
    <3>4. ASSUME NEW i \in some PROVE i.call # c
      <4>1. i \in stored /\ ItemFact(i) /\ i.role \in {"USER", "ASSISTANT"} /\ i # question
        BY <3>3 DEF IInv, TypeOK, Items
      <4>2. i.call = c => i.role = "USER"
        BY <1>2, <4>1 DEF ItemFact
      <4>3. question \in stored /\ question.call = c /\ question.role = "USER"
        BY <1>0, <3>1 DEF Item
      <4>4. QED
        BY <4>1, <4>2, <4>3 DEF IInv, StoredOncePerSend
    <3>5. some \subseteq later /\ IsFiniteSet(later)
      BY <3>3, <3>4, FS_Subset DEF IInv
    <3>6. /\ Cardinality(some) <= Cardinality(later)
          /\ Cardinality(some) \in Nat /\ Cardinality(later) \in Nat
      BY <3>5, FS_Subset, FS_CardinalityType
    <3>7. QED
      BY <3>3, <3>6, ChatAssumption
  <2>3. Item(c, "USER")' = question
    BY <1>0, <1>6 DEF Item
  <2>4. \/ Item(c, "USER")' \in call'[c].context
        \/ call'[c].behind
        \/ Limit <= Cardinality({i \in stored' : /\ i.session = call'[c].session
                                                 /\ i.call # c /\ i.at >= call'[c].at})
    <3>1. CASE lag = {} /\ question \notin some
      BY <1>2, <1>6, <2>2, <3>1
    <3>2. CASE lag # {} \/ question \in some
      BY <1>6, <2>3, <3>2
    <3>3. QED
      BY <3>1, <3>2
  <2>5. QED
    BY <2>1, <2>4 DEF ContextHasQuestion
<1>12. QED
  BY <1>1, <1>5, <1>7, <1>8, <1>9, <1>10, <1>11 DEF IInv

-----------------------------------------------------------------------------
\* The theorems

LEMMA InitHasInv == Init => IInv
<1> SUFFICES ASSUME Init PROVE IInv
  OBVIOUS
<1>1. TypeOK
  <2>1. call \in [Calls -> CallType] /\ 0 \in 0..MaxCalls
    BY UnsentIsTyped, ChatAssumption DEF Init
  <2>2. << >> \in Seq([role : {"user", "bot"}, call : Calls])
    OBVIOUS
  <2>3. QED
    BY <2>1, <2>2 DEF Init, TypeOK, CallType, CallSteps
<1>2. IsFiniteSet(stored)
  BY FS_EmptySet DEF Init
<1>3. ClockFact
  <2>1. Past = {}
    BY DEF Past, Init, Unsent
  <2>2. QED
    BY <2>1, FS_EmptySet DEF ClockFact, Init
<1>4. \A c \in Calls : CallFact(c)
  BY NobodyAssumption DEF CallFact, Init, Unsent
<1>5. QED
  BY <1>1, <1>2, <1>3, <1>4
     DEF Init, IInv, Unsent, StoredOncePerSend, AnswersFollowQuestions, ContextHasQuestion

LEMMA NextKeepsInv == IInv /\ [Next]_vars => IInv'
<1> SUFFICES ASSUME IInv, [Next]_vars PROVE IInv'
  OBVIOUS
<1>1. ASSUME NEW w \in Widgets, Submit(w) \/ Remount(w) \/ TokenChanges(w) PROVE IInv'
  BY <1>1, WidgetIsQuiet
<1>2. ASSUME NEW c \in Calls, Limited(c) \/ Accept(c) \/ Hear(c) \/ Unheard(c) PROVE IInv'
  BY <1>2, HandlingIsQuiet
<1>3. ASSUME NEW c \in Calls, Serve(c) PROVE IInv'
  BY <1>3, ServingIsQuiet, StoreQuestionKeepsInv, ReadRecentKeepsInv,
     WorkflowKeepsInv, StoreAnswerKeepsInv DEF Serve
<1>4. CASE Replicate
  BY <1>4, ReplicationIsQuiet
<1>5. CASE UNCHANGED vars
  BY <1>5, StutterIsQuiet
<1>6. QED
  BY <1>1, <1>2, <1>3, <1>4, <1>5 DEF Next, Handle

\* Whatever the widgets do, whichever calls run at once and wherever one fails,
\* the facts about calls and history above stay true.
THEOREM HistoryInductive == Spec => []IInv
<1>1. QED
  BY InitHasInv, NextKeepsInv, PTL DEF Spec

\* The tables, the calls and the widgets hold what the code can put there; in
\* particular the clock never shows more than there are calls.
THEOREM ChatTypeCorrect == Spec => []TypeOK
<1>1. IInv => TypeOK
  BY DEF IInv
<1>2. QED
  BY <1>1, HistoryInductive, PTL

\* A message is put into the history once and answered there once, however often
\* the rate limiter made the client send it again.
THEOREM HistoryHasNoRepeats == Spec => []StoredOncePerSend
<1>1. IInv => StoredOncePerSend
  BY DEF IInv
<1>2. QED
  BY <1>1, HistoryInductive, PTL

\* An answer in the history comes after its question and in its session.
THEOREM AnswersComeAfter == Spec => []AnswersFollowQuestions
<1>1. IInv => AnswersFollowQuestions
  BY DEF IInv
<1>2. QED
  BY <1>1, HistoryInductive, PTL

\* The workflow is asked with the question in its context, except after a read
\* that was behind or when Limit messages of other calls are as late.
THEOREM WorkflowSeesQuestion == Spec => []ContextHasQuestion
<1>1. IInv => ContextHasQuestion
  BY DEF IInv
<1>2. QED
  BY <1>1, HistoryInductive, PTL
=============================================================================
