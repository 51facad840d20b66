------------------------------ MODULE ChatBot ------------------------------
(***************************************************************************)
(* The chat widget of the page, the gateway's route with its rate limit,   *)
(* chat-bot-service with its two DynamoDB tables, and the n8n workflow it  *)
(* asks.  A call is one click on the widget's send button.                 *)
(***************************************************************************)
EXTENDS Naturals, Sequences, FiniteSets

CONSTANTS Users, Widgets,
          Owner,      \* the customer who signs in where the widget is
          MaxCalls,   \* messages sent, at most
          MaxTries,   \* attempts of one call, at most
          Limit       \* DEFAULT_HISTORY_LIMIT

ASSUME ChatAssumption == /\ Owner \in [Widgets -> Users]
                         /\ MaxCalls \in Nat /\ MaxTries \in Nat \ {0}
                         /\ Limit \in Nat \ {0}

Nobody == "nobody"       \* userId 0, a call without a valid token
ASSUME NobodyAssumption == Nobody \notin Users

Calls == 1..MaxCalls

VARIABLES sessions,   \* chat_sessions: [id, user]; a session is named by the call that created it
          indexed,    \* the sessions that userId-index has by now
          stored,     \* chat_messages: [session, at, role, call]
          settled,    \* the messages every replica has by now
          call,       \* what each call is at
          sent,       \* number of calls
          shown,      \* messages of each widget
          typing,     \* isTyping of each widget
          token,      \* the access token where the widget is: "fresh", "old" or "none"
          clock       \* advanced by the workflow, which takes its time

tables == <<sessions, indexed, stored, settled>>
widgetVars == <<shown, typing, token>>
vars == <<tables, call, sent, widgetVars, clock>>

SessionsOf(u) == {s \in sessions : s.user = u}
Items == [session : Calls, at : 0..MaxCalls, role : {"USER", "ASSISTANT"}, call : Calls]

Unsent == [pc |-> "unsent", widget |-> "none", heard |-> FALSE, bearer |-> Nobody, tries |-> 0,
           user |-> Nobody, session |-> 0, at |-> 0, context |-> {}, behind |-> FALSE]

TypeOK ==
    /\ sessions \subseteq [id : Calls, user : Users] /\ indexed \subseteq sessions
    /\ stored \subseteq Items /\ settled \subseteq stored
    /\ call \in [Calls -> [pc : {"unsent", "sent", "lookup", "create", "store", "read", "ask",
                                 "append", "answered", "refused", "done"},
                           widget : Widgets \cup {"none"}, heard : BOOLEAN,
                           bearer : Users \cup {Nobody}, tries : 0..MaxTries,
                           user : Users \cup {Nobody}, session : 0..MaxCalls,
                           at : 0..MaxCalls, context : SUBSET Items, behind : BOOLEAN]]
    /\ sent \in 0..MaxCalls
    /\ shown \in [Widgets -> Seq([role : {"user", "bot"}, call : Calls])]
    /\ typing \in [Widgets -> BOOLEAN]
    /\ token \in [Widgets -> {"fresh", "old", "none"}]
    /\ clock \in 0..MaxCalls

Init ==
    /\ sessions = {} /\ indexed = {} /\ stored = {} /\ settled = {}
    /\ call = [c \in Calls |-> Unsent]
    /\ sent = 0
    /\ shown = [w \in Widgets |-> << >>]
    /\ typing = [w \in Widgets |-> FALSE]
    /\ token \in [Widgets -> {"fresh", "none"}]
    /\ clock = 0

-----------------------------------------------------------------------------
\* The widget

Show(w, role, c) == shown' = [shown EXCEPT ![w] = Append(@, [role |-> role, call |-> c])]

\* handleSubmit.  An old token is sent too, and counts as none.
Submit(w) ==
    LET c == sent + 1 IN
    /\ ~typing[w] /\ sent < MaxCalls
    /\ sent' = c
    /\ Show(w, "user", c)
    /\ typing' = [typing EXCEPT ![w] = TRUE]
    /\ call' = [call EXCEPT ![c] = [@ EXCEPT !.pc = "sent", !.widget = w, !.heard = TRUE,
                    !.tries = 1, !.bearer = IF token[w] = "fresh" THEN Owner[w] ELSE Nobody]]
    /\ UNCHANGED <<tables, token, clock>>

\* Mutant: isTyping is reset with an answer only.
HearKeepsTyping(c) ==
    LET w == call[c].widget IN
    /\ call[c].pc \in {"answered", "refused"} /\ call[c].heard
    /\ Show(w, "bot", c)
    /\ typing' = [typing EXCEPT ![w] = call[c].pc = "refused"]
    /\ call' = [call EXCEPT ![c] = [Unsent EXCEPT !.pc = "done"]]
    /\ UNCHANGED <<tables, sent, token, clock>>

\* The answer, or a line about the failure, is shown where it is waited for,
\* also in a widget that is folded meanwhile.
Hear(c) ==
    LET w == call[c].widget IN
    /\ call[c].pc \in {"answered", "refused"} /\ call[c].heard
    /\ Show(w, "bot", c)
    /\ typing' = [typing EXCEPT ![w] = FALSE]
    /\ call' = [call EXCEPT ![c] = [Unsent EXCEPT !.pc = "done"]]
    /\ UNCHANGED <<tables, sent, token, clock>>

\* isMountedRef: the widget that asked is gone.
Unheard(c) ==
    /\ call[c].pc \in {"answered", "refused"} /\ ~call[c].heard
    /\ call' = [call EXCEPT ![c] = [Unsent EXCEPT !.pc = "done"]]
    /\ UNCHANGED <<tables, sent, widgetVars, clock>>

\* A reload, or a way through the administrators' pages, starts an empty widget.
Remount(w) ==
    /\ shown[w] # << >>
    /\ shown' = [shown EXCEPT ![w] = << >>]
    /\ typing' = [typing EXCEPT ![w] = FALSE]
    /\ token' = [token EXCEPT ![w] = IF @ = "fresh" THEN "old" ELSE @]
    /\ call' = [c \in Calls |-> IF call[c].widget = w THEN [call[c] EXCEPT !.heard = FALSE]
                                ELSE call[c]]
    /\ UNCHANGED <<tables, sent, clock>>

\* Access tokens run out; only other pages renew them.
TokenChanges(w) ==
    /\ \E to \in {"fresh", "old"} : /\ token[w] \notin {to, "none"}
                                    /\ token' = [token EXCEPT ![w] = to]
    /\ UNCHANGED <<tables, call, sent, shown, typing, clock>>

-----------------------------------------------------------------------------
\* The gateway

At(c, pc) == call[c].pc = pc
Goes(c, pc) == call' = [call EXCEPT ![c].pc = pc]
Ends(c, pc) == call' = [call EXCEPT ![c] = [Unsent EXCEPT !.pc = pc, !.widget = call[c].widget,
                                                          !.heard = call[c].heard]]

\* Mutant: the client also repeats a call that has failed.
RepeatRefused(c) ==
    /\ call[c].pc \in {"sent", "refused"}
    /\ IF call[c].tries < MaxTries
       THEN call' = [call EXCEPT ![c].tries = @ + 1, ![c].pc = "sent", 
                                 ![c].bearer = Owner[call[c].widget]]
       ELSE Goes(c, "refused")
    /\ UNCHANGED <<tables, sent, widgetVars, clock>>

\* 429: the rate limiter refuses a call before its handler sees it, and the
\* client sends it again after a pause, until its patience ends.
Limited(c) ==
    /\ At(c, "sent")
    /\ IF call[c].tries < MaxTries THEN call' = [call EXCEPT ![c].tries = @ + 1]
       ELSE Goes(c, "refused")
    /\ UNCHANGED <<tables, sent, widgetVars, clock>>

\* Mutant: sendMessage does not look at userId.
AcceptAnybody(c) ==
    /\ At(c, "sent")
    /\ call' = [call EXCEPT ![c].user = call[c].bearer, ![c].pc = "lookup",
                            ![c].bearer = Nobody, ![c].tries = 0]
    /\ UNCHANGED <<tables, sent, widgetVars, clock>>

\* OptionalJwtAuthGuard: a token that has run out during the pauses makes the
\* caller nobody, and nobody is only answered.
Accept(c) ==
    /\ At(c, "sent")
    /\ \E u \in {call[c].bearer, Nobody} :
         /\ u # call[c].bearer => call[c].tries > 1
         /\ call' = [call EXCEPT ![c].user = u, ![c].bearer = Nobody, ![c].tries = 0,
                                 ![c].pc = IF u = Nobody THEN "ask" ELSE "lookup"]
    /\ UNCHANGED <<tables, sent, widgetVars, clock>>

-----------------------------------------------------------------------------
\* chat-bot-service

\* findByUserId asks the index, which lags behind the table, for one session.
\* From here to the put nothing is awaited: the question gets its time.
LookUp(c) ==
    LET u == call[c].user
        found == SessionsOf(u) \cap indexed
    IN
    /\ At(c, "lookup")
    /\ IF found = {} THEN Goes(c, "create")
       ELSE \E s \in found :
              call' = [call EXCEPT ![c].pc = "store", ![c].session = s.id, ![c].at = clock]
    /\ UNCHANGED <<tables, sent, widgetVars, clock>>

CreateSession(c) ==
    /\ At(c, "create")
    /\ sessions' = sessions \cup {[id |-> c, user |-> call[c].user]}
    /\ call' = [call EXCEPT ![c].pc = "store", ![c].session = c, ![c].at = clock]
    /\ UNCHANGED <<indexed, stored, settled, sent, widgetVars, clock>>

Item(c, role) == [session |-> call[c].session, at |-> call[c].at, role |-> role, call |-> c]

StoreQuestion(c) ==
    /\ At(c, "store")
    /\ stored' = stored \cup {Item(c, "USER")}
    /\ Goes(c, "read")
    /\ UNCHANGED <<sessions, indexed, settled, sent, widgetVars, clock>>

Smaller(m, n) == IF m < n THEN m ELSE n

\* Mutant: ScanIndexForward is left at its default, the oldest first.
Oldest(items) ==
    {some \in SUBSET items :
        /\ Cardinality(some) = Smaller(Limit, Cardinality(items))
        /\ \A i \in some, j \in items \ some : i.at <= j.at}

\* The last Limit of them by sort key; the key's uuid decides among equal times.
Newest(items) ==
    {some \in SUBSET items :
        /\ Cardinality(some) = Smaller(Limit, Cardinality(items))
        /\ \A i \in some, j \in items \ some : i.at >= j.at}

\* getRecentMessages: the query may miss what has not reached every replica.
ReadRecent(c) ==
    LET mine == {i \in stored : i.session = call[c].session} IN
    /\ At(c, "read")
    /\ \E lag \in {{}, mine \ settled} : \E some \in Newest(mine \ lag) :
         call' = [call EXCEPT ![c].pc = "ask", ![c].context = some, ![c].behind = lag # {}]
    /\ UNCHANGED <<tables, sent, widgetVars, clock>>

\* Mutant: the answer is stored with the time of its question.
AnswerKeepsTime(c) ==
    /\ At(c, "ask")
    /\ clock' = clock + 1
    /\ call' = [call EXCEPT ![c].pc = IF call[c].user = Nobody THEN "answered" ELSE "append",
                            ![c].context = {}, ![c].behind = FALSE]
    /\ UNCHANGED <<tables, sent, widgetVars>>

\* The workflow answers; the answer gets its time.
WorkflowAnswers(c) ==
    /\ At(c, "ask")
    /\ clock' = clock + 1
    /\ call' = [call EXCEPT ![c].pc = IF call[c].user = Nobody THEN "answered" ELSE "append",
                            ![c].at = clock + 1, ![c].context = {}, ![c].behind = FALSE]
    /\ UNCHANGED <<tables, sent, widgetVars>>

\* What is stored stays, also if the answer is lost on its way to the gateway.
StoreAnswer(c) ==
    /\ At(c, "append")
    /\ stored' = stored \cup {Item(c, "ASSISTANT")}
    /\ Ends(c, "answered") \/ Ends(c, "refused")
    /\ UNCHANGED <<sessions, indexed, settled, sent, widgetVars, clock>>

\* A write or read fails, the workflow times out or answers without a reply,
\* or the replica stops: the gateway answers 503, and nothing is undone.
Fails(c) ==
    /\ call[c].pc \in {"lookup", "create", "store", "read", "ask", "append"}
    /\ Ends(c, "refused")
    /\ UNCHANGED <<tables, sent, widgetVars, clock>>

\* DynamoDB: what was written reaches the index and the replicas.
Replicate ==
    /\ \/ indexed # sessions /\ indexed' = sessions /\ UNCHANGED settled
       \/ settled # stored /\ settled' = stored /\ UNCHANGED indexed
    /\ UNCHANGED <<sessions, stored, call, sent, widgetVars, clock>>

Serve(c) == \/ LookUp(c) \/ CreateSession(c) \/ StoreQuestion(c) \/ ReadRecent(c)
            \/ WorkflowAnswers(c) \/ StoreAnswer(c) \/ Fails(c)

Handle(c) == Limited(c) \/ Accept(c) \/ Serve(c) \/ Hear(c)

Next ==
    \/ \E w \in Widgets : Submit(w) \/ Remount(w) \/ TokenChanges(w)
    \/ \E c \in Calls : Handle(c) \/ Unheard(c)
    \/ Replicate

Spec == Init /\ [][Next]_vars
FairSpec == Spec /\ \A c \in Calls : WF_vars(Handle(c))

-----------------------------------------------------------------------------

\* However often the rate limiter makes the client send a message again, it is
\* put into the history once, and answered there once.
StoredOncePerSend ==
    \A i, j \in stored : i.call = j.call /\ i.role = j.role => i = j

\* In the table's order an answer comes after the question it answers, and in
\* the same session, whichever calls run at once and whichever fail between.
AnswersFollowQuestions ==
    \A i \in stored : i.role = "ASSISTANT" =>
        \E j \in stored : /\ j.call = i.call /\ j.role = "USER"
                          /\ j.session = i.session /\ j.at < i.at

\* The context the workflow is given contains the question it is asked, unless
\* the read was behind the write or other calls have filled the context with
\* messages of the same moment or later.
ContextHasQuestion ==
    \A c \in Calls : call[c].pc = "ask" /\ call[c].user # Nobody =>
        \/ Item(c, "USER") \in call[c].context
        \/ call[c].behind
        \/ Limit <= Cardinality({i \in stored : /\ i.session = call[c].session
                                                /\ i.call # c /\ i.at >= call[c].at})

\* The widget does not say for ever that an answer is being written.
WidgetIsAnswered == \A w \in Widgets : typing[w] ~> ~typing[w]

\* What a comment says and the code does not keep: "로그인 사용자 1명당 세션
\* 1개(v1)만 유지합니다".  Two first messages, or a second one before the index
\* has the first session, make two.
OneSessionPerUser == \A u \in Users : Cardinality(SessionsOf(u)) <= 1
=============================================================================
