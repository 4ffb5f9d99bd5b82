-------------------------- MODULE ChatStreamProofs --------------------------
(***************************************************************************)
(* The safety properties of ChatStream, for any number of questions, any   *)
(* limit of the history and any failures, however the streams interleave.  *)
(***************************************************************************)
EXTENDS ChatStream, TLAPS

Saving == {"saveUser", "refresh", "saveAnswer", "confirm"}

(* What a stream has sent, by its stage. *)
EventsKnown ==
  \A t \in Turns :
    /\ pc[t] \in Preparing \cup {"new", "notFound"} => events[t] = <<>>
    /\ pc[t] = "answering" =>
         \A i \in DOMAIN events[t] : events[t][i] = "token"
    /\ pc[t] = "finishing" =>
         \A i \in DOMAIN events[t] : events[t][i] \in {"token", "sources"}
    /\ pc[t] \in Saving =>
         \A i \in DOMAIN events[t] : events[t][i] # "error"

(* A turn is saved after done: its question, then its answer. *)
Saved(t, role) == \E m \in messages : m.turn = t /\ m.role = role

SavesKnown ==
  /\ \A t \in Turns : pc[t] \in Saving => Sent(t, "done")
  /\ \A m \in messages :
       pc[m.turn] \in (Saving \ {"saveUser"}) \cup {"closed", "broken", "cut"}
  /\ \A t \in Turns :
       Alive /\ pc[t] \in Saving \ {"saveUser"} => Saved(t, "user")
  /\ \A t \in Turns : Alive /\ pc[t] = "confirm" => Saved(t, "assistant")
  /\ session = "new" => \A t \in Turns : pc[t] = "new"

(* Both timestamps of what is stored are past, and the transaction of an   *)
(* answer begins after the question was stored.                            *)
TimesKnown ==
  /\ \A t \in Turns : began[t] < clock
  /\ \A m \in messages : m.at < clock /\ m.saved < clock
  /\ \A t \in Turns : pc[t] = "refresh" => began[t] = 0
  /\ \A t \in Turns : pc[t] = "saveAnswer" =>
       \A m \in messages : m.turn = t => m.at < began[t]

IInv ==
  /\ TypeOK /\ EventsKnown /\ SavesKnown /\ TimesKnown
  /\ EventsInOrder /\ NothingPartialIsSaved /\ AnswerFollowsQuestion
  /\ OwnQuestionNotInHistory /\ UnsavedTurnIsReported

-----------------------------------------------------------------------------
(* A history that was loaded is a part of the messages. *)
LEMMA RecentMessages ==
  ASSUME NEW M, NEW h \in Recent(M)
  PROVE  h \in Seq(M) /\ \A i \in DOMAIN h : h[i] \in M
<1>1. PICK k \in 0..Limit : h \in [1..k -> M]
  BY DEF Recent, Limited
<1> QED BY <1>1, ParametersOK

(* Sending one more event. *)
LEMMA OneMore ==
  ASSUME NEW e \in Seq(Event), NEW x \in Event
  PROVE  /\ e \o <<x>> \in Seq(Event)
         /\ DOMAIN (e \o <<x>>) = 1..(Len(e) + 1)
         /\ Len(e \o <<x>>) = Len(e) + 1
         /\ (e \o <<x>>)[Len(e) + 1] = x
         /\ \A i \in DOMAIN e : /\ i \in 1..Len(e)
                                /\ (e \o <<x>>)[i] = e[i]
         /\ \A i \in 1..(Len(e) + 1) : i \in DOMAIN e \/ i = Len(e) + 1
OBVIOUS

(* What a stream does to its own stage, in every step. *)
LEMMA StagesTyped ==
  ASSUME TypeOK, NEW t \in Turns, Send(t) \/ Step(t) \/ Fail(t) \/ Cut(t)
  PROVE  pc' \in [Turns -> {"new"} \cup Running \cup Ended]
<1> USE DEF TypeOK, Goto, Running, Preparing, Answering, Ended
<1>1. CASE Send(t) \/ Open(t) \/ SetTitle(t) \/ LoadHistory(t) \/ Retrieve(t)
  BY <1>1 DEF Send, Open, SetTitle, LoadHistory, Retrieve, Raise
<1>2. CASE Token(t) \/ SendSources(t) \/ SendDone(t)
  BY <1>2 DEF Token, SendSources, SendDone
<1>3. CASE SaveUser(t) \/ RefreshUser(t) \/ SaveAnswer(t) \/ Confirm(t)
  BY <1>3 DEF SaveUser, RefreshUser, SaveAnswer, Confirm, Insert, Raise
<1>4. CASE Fail(t) \/ Cut(t)
  BY <1>4 DEF Fail, Cut, Raise
<1> QED BY <1>1, <1>2, <1>3, <1>4 DEF Step

(* A step sends one event at most. *)
LEMMA EventsGrow ==
  ASSUME TypeOK, NEW t \in Turns, Send(t) \/ Step(t) \/ Fail(t) \/ Cut(t)
  PROVE  \/ UNCHANGED events
         \/ \E x \in Event : events' = [events EXCEPT ![t] = @ \o <<x>>]
BY DEF Event, Emit, Send, Step, Fail, Cut, Raise, Open, SetTitle, LoadHistory,
   Retrieve, Token, SendSources, SendDone, SaveUser, RefreshUser, SaveAnswer,
   Confirm, Insert

LEMMA EventsTyped ==
  ASSUME TypeOK, NEW t \in Turns, NEW x \in Event,
         events' = [events EXCEPT ![t] = @ \o <<x>>]
  PROVE  events' \in [Turns -> Seq(Event)]
BY OneMore DEF TypeOK

(* The rest of the state. *)
LEMMA RestTyped ==
  ASSUME TypeOK, NEW t \in Turns, Send(t) \/ Step(t) \/ Fail(t) \/ Cut(t)
  PROVE  /\ session' \in {"new", "open", "deleted"}
         /\ title' \in Turns \cup {NoTitle}
         /\ clock' \in Nat \ {0}
         /\ began' \in [Turns -> Nat]
         /\ fallback' \subseteq Turns
<1> USE DEF Begin, Send, Step, Fail, Cut, Raise, Open, SetTitle, LoadHistory,
    Retrieve, Token, SendSources, SendDone, SaveUser, RefreshUser, SaveAnswer,
    Confirm, Insert
<1>1. session' \in {"new", "open", "deleted"}
  BY DEF TypeOK
<1>2. title' \in Turns \cup {NoTitle}
  <2>1. title' = title \/ title' = t
    OBVIOUS
  <2> QED BY <2>1 DEF TypeOK
<1>3. clock' \in Nat \ {0}
  <2>1. clock' = clock \/ clock' = clock + 1
    OBVIOUS
  <2> QED BY <2>1 DEF TypeOK
<1>4. began' \in [Turns -> Nat]
  <2>1. UNCHANGED began \/ \E n \in Nat : began' = [began EXCEPT ![t] = n]
    BY DEF TypeOK
  <2> QED BY <2>1 DEF TypeOK
<1>5. fallback' \subseteq Turns
  <2>1. fallback' = fallback \/ fallback' = fallback \cup {t}
    OBVIOUS
  <2> QED BY <2>1 DEF TypeOK
<1> QED BY <1>1, <1>2, <1>3, <1>4, <1>5

LEMMA HistoryTyped ==
  ASSUME TypeOK, NEW t \in Turns, Send(t) \/ Step(t) \/ Fail(t) \/ Cut(t)
  PROVE  history' \in [Turns -> Seq(Message)]
<1>1. CASE UNCHANGED history
  BY <1>1 DEF TypeOK
<1>2. CASE LoadHistory(t)
  <2>1. PICK h \in Recent(messages) : history' = [history EXCEPT ![t] = h]
    BY <1>2 DEF LoadHistory
  <2>2. h \in Seq(messages)
    BY RecentMessages
  <2>3. h \in Seq(Message)
    BY <2>2 DEF TypeOK
  <2> QED BY <2>1, <2>3 DEF TypeOK
<1> QED
  BY <1>1, <1>2 DEF Send, Step, Fail, Cut, Open, SetTitle, Retrieve, Token,
     SendSources, SendDone, SaveUser, RefreshUser, SaveAnswer, Confirm, Insert

(* A row is added by the two saves only. *)
Row(t, role) == [turn |-> t, role |-> role, at |-> began[t], saved |-> clock]

LEMMA MessagesGrow ==
  ASSUME NEW t \in Turns, Send(t) \/ Step(t) \/ Fail(t) \/ Cut(t)
  PROVE  \/ UNCHANGED messages
         \/ /\ SaveUser(t) /\ Alive /\ Goto(t, "refresh")
            /\ messages' = messages \cup {Row(t, "user")}
         \/ /\ SaveAnswer(t) /\ Alive /\ Goto(t, "confirm")
            /\ messages' = messages \cup {Row(t, "assistant")}
BY DEF Row, Send, Step, Fail, Cut, Open, SetTitle, LoadHistory, Retrieve, Token,
   SendSources, SendDone, SaveUser, RefreshUser, SaveAnswer, Confirm, Insert

LEMMA TypesKept == TypeOK /\ [Next]_vars => TypeOK'
<1> SUFFICES ASSUME TypeOK, [Next]_vars PROVE TypeOK'
  OBVIOUS
<1>1. ASSUME NEW t \in Turns, Send(t) \/ Step(t) \/ Fail(t) \/ Cut(t)
      PROVE  TypeOK'
  <2>1. messages' \subseteq Message
    <3>1. Row(t, "user") \in Message /\ Row(t, "assistant") \in Message
      BY DEF Row, Message, TypeOK
    <3> QED BY <1>1, <3>1, MessagesGrow DEF TypeOK
  <2>2. events' \in [Turns -> Seq(Event)]
    BY <1>1, EventsGrow, EventsTyped DEF TypeOK
  <2> QED BY <1>1, <2>1, <2>2, StagesTyped, RestTyped, HistoryTyped DEF TypeOK
<1>2. CASE CreateSession \/ DeleteSession \/ UNCHANGED vars
  BY <1>2 DEF CreateSession, DeleteSession, vars, TypeOK
<1> QED BY <1>1, <1>2 DEF Next
-----------------------------------------------------------------------------
(* The order of the stages and the event sent with each move. *)
Silent(t, next) ==
  \/ next \in {"broken", "cut"}
  \/ pc[t] = "new" /\ next \in {"open", "notFound"}
  \/ pc[t] \in Preparing /\ next \in Preparing \cup {"answering"}
  \/ pc[t] \in Saving /\ next \in (Saving \ {"saveUser"}) \cup {"closed"}

Sending(t, x, next) ==
  \/ pc[t] \in {"retrieving", "answering"} /\ x = "token" /\ next = "answering"
  \/ pc[t] = "answering" /\ x = "sources" /\ next = "finishing"
  \/ pc[t] = "finishing" /\ x = "done" /\ next = "saveUser"
  \/ pc[t] \in Answering /\ x = "error" /\ next = "closed"

LEMMA Moves ==
  ASSUME TypeOK, NEW t \in Turns, Send(t) \/ Step(t) \/ Fail(t) \/ Cut(t)
  PROVE  \E next \in {"new"} \cup Running \cup Ended :
           /\ pc' = [pc EXCEPT ![t] = next]
           /\ \/ UNCHANGED events /\ Silent(t, next)
              \/ \E x \in Event : /\ events' = [events EXCEPT ![t] = @ \o <<x>>]
                                 /\ Sending(t, x, next)
<1> USE DEF Goto, Emit, Event, Running, Preparing, Answering, Ended, Saving,
            Silent, Sending
<1>1. CASE Send(t) \/ Open(t) \/ SetTitle(t) \/ LoadHistory(t) \/ Retrieve(t)
  BY <1>1 DEF Send, Open, SetTitle, LoadHistory, Retrieve, Raise
<1>2. CASE Token(t) \/ SendSources(t) \/ SendDone(t)
  BY <1>2 DEF Token, SendSources, SendDone, TypeOK
<1>3. CASE SaveUser(t) \/ RefreshUser(t) \/ SaveAnswer(t) \/ Confirm(t)
  BY <1>3 DEF SaveUser, RefreshUser, SaveAnswer, Confirm, Insert, Raise
<1>4. CASE Fail(t) \/ Cut(t)
  BY <1>4 DEF Fail, Cut, Raise
<1> QED BY <1>1, <1>2, <1>3, <1>4 DEF Step

(* Events and their order. *)
LEMMA EventsKept ==
  ASSUME TypeOK, EventsKnown, EventsInOrder, NEW t \in Turns,
         Send(t) \/ Step(t) \/ Fail(t) \/ Cut(t)
  PROVE  EventsKnown' /\ EventsInOrder'
<1>1. PICK next \in {"new"} \cup Running \cup Ended :
           /\ pc' = [pc EXCEPT ![t] = next]
           /\ \/ UNCHANGED events /\ Silent(t, next)
              \/ \E x \in Event : /\ events' = [events EXCEPT ![t] = @ \o <<x>>]
                                 /\ Sending(t, x, next)
  BY Moves
<1>2. CASE UNCHANGED events /\ Silent(t, next)
  <2>1. EventsInOrder'
    BY <1>2 DEF EventsInOrder
  <2>2. EventsKnown'
    BY <1>1, <1>2 DEF TypeOK, EventsKnown, Silent, Preparing, Saving, Running,
                      Ended, Answering
  <2> QED BY <2>1, <2>2
<1>3. ASSUME NEW x \in Event, Sending(t, x, next),
             events' = [events EXCEPT ![t] = @ \o <<x>>]
      PROVE  EventsKnown' /\ EventsInOrder'
  <2> DEFINE e == events[t]
  <2>1. e \in Seq(Event) /\ events'[t] = e \o <<x>>
    BY <1>3 DEF TypeOK
  <2>2. \A s \in Turns \ {t} : events'[s] = events[s] /\ pc'[s] = pc[s]
    BY <1>1, <1>3 DEF TypeOK
  <2>3. pc'[t] = next
    BY <1>1 DEF TypeOK
  <2>4. \A i \in DOMAIN e : (e \o <<x>>)[i] = e[i]
    BY <2>1, OneMore
  <2>5. /\ DOMAIN (e \o <<x>>) = (DOMAIN e) \cup {Len(e) + 1}
        /\ (e \o <<x>>)[Len(e) + 1] = x
        /\ \A i \in DOMAIN e : i < Len(e) + 1 /\ ~(Len(e) + 1 < i)
        /\ ~(Len(e) + 1 < Len(e) + 1)
    BY <2>1
  <2>6. /\ pc[t] = "retrieving" => DOMAIN e = {}
        /\ pc[t] = "answering" => \A i \in DOMAIN e : e[i] = "token"
        /\ pc[t] = "finishing" => \A i \in DOMAIN e : e[i] \in {"token", "sources"}
        /\ pc[t] \in Saving => \A i \in DOMAIN e : e[i] # "error"
    BY DEF EventsKnown, Preparing
  <2>7. \A i, j \in DOMAIN (e \o <<x>>) : i < j =>
          /\ (e \o <<x>>)[i] # "error"
          /\ (e \o <<x>>)[i] = "done" => (e \o <<x>>)[j] = "error"
          /\ (e \o <<x>>)[i] = "sources" => (e \o <<x>>)[j] \in {"done", "error"}
    <3> HIDE DEF e
    <3>1. SUFFICES ASSUME NEW i \in DOMAIN (e \o <<x>>),
                          NEW j \in DOMAIN (e \o <<x>>), i < j
                   PROVE  /\ (e \o <<x>>)[i] # "error"
                          /\ (e \o <<x>>)[i] = "done" => (e \o <<x>>)[j] = "error"
                          /\ (e \o <<x>>)[i] = "sources" =>
                               (e \o <<x>>)[j] \in {"done", "error"}
      OBVIOUS
    <3>2. i \in DOMAIN e
      BY <3>1, <2>5
    <3>3. CASE j \in DOMAIN e
      BY <3>1, <3>2, <3>3, <2>4 DEF EventsInOrder, e
    <3>4. CASE j = Len(e) + 1
      BY <3>2, <3>4, <2>4, <2>5, <2>6, <1>3 DEF Sending, Answering, Saving
    <3> QED BY <3>3, <3>4, <2>5
  <2>8. EventsInOrder'
    <3> HIDE DEF e
    <3>1. ASSUME NEW s \in Turns
          PROVE  \A i, j \in DOMAIN events'[s] : i < j =>
                   /\ events'[s][i] # "error"
                   /\ events'[s][i] = "done" => events'[s][j] = "error"
                   /\ events'[s][i] = "sources" =>
                        events'[s][j] \in {"done", "error"}
      <4>1. CASE s = t
        BY <4>1, <2>1, <2>7
      <4>2. CASE s # t
        BY <4>2, <2>2 DEF EventsInOrder
      <4> QED BY <4>1, <4>2
    <3> QED BY <3>1 DEF EventsInOrder
  <2>9. /\ next = "answering" => \A i \in DOMAIN (e \o <<x>>) : (e \o <<x>>)[i] = "token"
        /\ next = "finishing" =>
             \A i \in DOMAIN (e \o <<x>>) : (e \o <<x>>)[i] \in {"token", "sources"}
        /\ next = "saveUser" => \A i \in DOMAIN (e \o <<x>>) : (e \o <<x>>)[i] # "error"
        /\ next \in {"answering", "finishing", "saveUser", "closed"}
    <3> HIDE DEF e
    <3> QED BY <2>4, <2>5, <2>6, <1>3 DEF Sending
  <2>10. EventsKnown'
    <3> HIDE DEF e
    <3> USE DEF Preparing, Saving
    <3>1. ASSUME NEW s \in Turns, s # t
          PROVE  EventsKnown!(s)'
      BY <3>1, <2>2 DEF EventsKnown
    <3>2. EventsKnown!(t)'
      BY <2>1, <2>3, <2>9
    <3> QED BY <3>1, <3>2 DEF EventsKnown
  <2> QED BY <2>8, <2>10
<1> QED BY <1>1, <1>2, <1>3
-----------------------------------------------------------------------------
(* Done was sent before anything is saved; events are never taken back. *)
LEMMA DoneStaysSent ==
  ASSUME TypeOK, NEW t \in Turns, Send(t) \/ Step(t) \/ Fail(t) \/ Cut(t),
         NEW s \in Turns, Sent(s, "done")
  PROVE  Sent(s, "done")'
<1>1. PICK i \in 1..Len(events[s]) : events[s][i] = "done"
  BY DEF Sent, Contains
<1>2. CASE UNCHANGED events
  BY <1>2 DEF Sent
<1>3. ASSUME NEW x \in Event, events' = [events EXCEPT ![t] = @ \o <<x>>]
      PROVE  Sent(s, "done")'
  <2>1. events[s] \in Seq(Event)
    BY DEF TypeOK
  <2>2. events'[s] = events[s] \/ events'[s] = events[s] \o <<x>>
    BY <1>3 DEF TypeOK
  <2>3. i \in 1..Len(events'[s]) /\ events'[s][i] = "done"
    BY <1>1, <2>1, <2>2
  <2> QED BY <2>3 DEF Sent, Contains
<1> QED BY <1>2, <1>3, EventsGrow

LEMMA SavingAfterDone ==
  ASSUME TypeOK, NEW t \in Turns, Send(t) \/ Step(t) \/ Fail(t) \/ Cut(t),
         \A s \in Turns : pc[s] \in Saving => Sent(s, "done")
  PROVE  \A s \in Turns : pc'[s] \in Saving => Sent(s, "done")'
<1>1. PICK next \in {"new"} \cup Running \cup Ended :
           /\ pc' = [pc EXCEPT ![t] = next]
           /\ \/ UNCHANGED events /\ Silent(t, next)
              \/ \E x \in Event : /\ events' = [events EXCEPT ![t] = @ \o <<x>>]
                                 /\ Sending(t, x, next)
  BY Moves
<1>2. SUFFICES ASSUME NEW s \in Turns, pc'[s] \in Saving
               PROVE  Sent(s, "done")'
  OBVIOUS
<1>3. CASE pc[s] \in Saving
  BY <1>3, DoneStaysSent
<1>4. CASE pc[s] \notin Saving
  <2>1. s = t /\ next \in Saving
    BY <1>1, <1>2, <1>4 DEF TypeOK
  <2>2. PICK x \in Event : /\ events' = [events EXCEPT ![t] = @ \o <<x>>]
                           /\ Sending(t, x, next)
    BY <1>1, <1>4, <2>1 DEF Silent, Saving, Preparing
  <2>3. x = "done"
    BY <2>1, <2>2 DEF Sending, Saving
  <2>4. events[t] \in Seq(Event) /\ events'[t] = events[t] \o <<"done">>
    BY <2>2, <2>3 DEF TypeOK
  <2>5. /\ Len(events'[t]) \in 1..Len(events'[t])
        /\ events'[t][Len(events'[t])] = "done"
    BY <2>4
  <2> QED BY <2>1, <2>5 DEF Sent, Contains
<1> QED BY <1>3, <1>4

(* Which rows exist at which stage. *)
LEMMA SavesKept ==
  ASSUME TypeOK, SavesKnown, NothingPartialIsSaved, NEW t \in Turns,
         Send(t) \/ Step(t) \/ Fail(t) \/ Cut(t)
  PROVE  SavesKnown' /\ NothingPartialIsSaved'
<1>1. \A s \in Turns : pc'[s] \in Saving => Sent(s, "done")'
  BY SavingAfterDone DEF SavesKnown
<1>2. PICK next \in {"new"} \cup Running \cup Ended :
           /\ pc' = [pc EXCEPT ![t] = next]
           /\ \/ Silent(t, next)
              \/ \E x \in Event : Sending(t, x, next)
  BY Moves
<1>3. \A m \in messages : m.turn \in Turns
  BY DEF TypeOK, Message
<1>4. \A m \in messages' :
        pc'[m.turn] \in (Saving \ {"saveUser"}) \cup {"closed", "broken", "cut"}
  <2>1. CASE UNCHANGED messages
    BY <1>2, <1>3, <2>1 DEF SavesKnown, TypeOK, Saving, Silent, Sending,
       Preparing, Answering
  <2>2. CASE SaveUser(t) /\ Goto(t, "refresh")
             /\ messages' = messages \cup {Row(t, "user")}
    BY <1>3, <2>2 DEF SavesKnown, TypeOK, Saving, Goto, Row
  <2>3. CASE SaveAnswer(t) /\ Goto(t, "confirm")
             /\ messages' = messages \cup {Row(t, "assistant")}
    BY <1>3, <2>3 DEF SavesKnown, TypeOK, Saving, Goto, Row
  <2> QED BY <2>1, <2>2, <2>3, MessagesGrow
<1>5. session' = session
  BY DEF Send, Step, Fail, Cut, Open, SetTitle, LoadHistory, Retrieve, Token,
     SendSources, SendDone, SaveUser, RefreshUser, SaveAnswer, Confirm, Insert
<1>6. session # "new"
  BY <1>2 DEF SavesKnown, Send, Step, Fail, Cut, Open, SetTitle, LoadHistory,
     Retrieve, Token, SendSources, SendDone, SaveUser, RefreshUser, SaveAnswer,
     Confirm, Running, Preparing, Answering
<1>7. \A s \in Turns : Alive /\ pc'[s] \in Saving \ {"saveUser"} =>
        \E m \in messages' : m.turn = s /\ m.role = "user"
  <2>1. SUFFICES ASSUME NEW s \in Turns, Alive,
                        pc'[s] \in Saving \ {"saveUser"}
                 PROVE  \E m \in messages' : m.turn = s /\ m.role = "user"
    OBVIOUS
  <2>2. CASE pc[s] \in Saving \ {"saveUser"}
    BY <2>1, <2>2, MessagesGrow DEF SavesKnown, Saved
  <2>3. CASE pc[s] \notin Saving \ {"saveUser"}
    <3>1. s = t
      BY <1>2, <2>1, <2>3 DEF TypeOK
    <3>2. SaveUser(t) /\ messages' = messages \cup {Row(t, "user")}
      BY <2>1, <2>3, <3>1 DEF TypeOK, Goto, Saving, Send, Step, Fail, Cut,
         Raise, Open, SetTitle, LoadHistory, Retrieve, Token, SendSources,
         SendDone, SaveUser, RefreshUser, SaveAnswer, Confirm, Insert, Row
    <3>3. /\ Row(t, "user") \in messages'
          /\ Row(t, "user").turn = t /\ Row(t, "user").role = "user"
      BY <3>2 DEF Row
    <3> QED BY <3>1, <3>3
  <2> QED BY <2>2, <2>3
<1>8. \A s \in Turns : Alive /\ pc'[s] = "confirm" =>
        \E m \in messages' : m.turn = s /\ m.role = "assistant"
  <2>1. SUFFICES ASSUME NEW s \in Turns, Alive, pc'[s] = "confirm"
                 PROVE  \E m \in messages' : m.turn = s /\ m.role = "assistant"
    OBVIOUS
  <2>2. CASE pc[s] = "confirm"
    BY <2>1, <2>2, MessagesGrow DEF SavesKnown, Saved
  <2>3. CASE pc[s] # "confirm"
    <3>1. s = t
      BY <1>2, <2>1, <2>3 DEF TypeOK
    <3>2. SaveAnswer(t) /\ messages' = messages \cup {Row(t, "assistant")}
      BY <2>1, <2>3, <3>1 DEF TypeOK, Goto, Saving, Send, Step, Fail, Cut,
         Raise, Open, SetTitle, LoadHistory, Retrieve, Token, SendSources,
         SendDone, SaveUser, RefreshUser, SaveAnswer, Confirm, Insert, Row
    <3>3. /\ Row(t, "assistant") \in messages'
          /\ Row(t, "assistant").turn = t /\ Row(t, "assistant").role = "assistant"
      BY <3>2 DEF Row
    <3> QED BY <3>1, <3>3
  <2> QED BY <2>2, <2>3
<1>9. SavesKnown'
  BY <1>1, <1>4, <1>5, <1>6, <1>7, <1>8 DEF SavesKnown, Saved, Alive
<1>10. NothingPartialIsSaved'
  <2>1. \A m \in messages : Sent(m.turn, "done")'
    BY <1>3, DoneStaysSent DEF NothingPartialIsSaved
  <2>2. \/ UNCHANGED messages
        \/ /\ Sent(t, "done")'
           /\ \A m \in messages' \ messages : m.turn = t
    <3>1. pc'[t] \in {"refresh", "confirm"} => Sent(t, "done")'
      BY <1>1 DEF Saving
    <3> QED BY <3>1, MessagesGrow DEF Goto, TypeOK, Row
  <2> QED BY <2>1, <2>2 DEF NothingPartialIsSaved, Sent
<1> QED BY <1>9, <1>10
(* Timestamps, and the question before its answer. *)
LEMMA ClockMoves ==
  ASSUME TypeOK, TimesKnown, NEW t \in Turns,
         Send(t) \/ Step(t) \/ Fail(t) \/ Cut(t)
  PROVE  /\ clock' \in {clock, clock + 1}
         /\ UNCHANGED messages \/ clock' = clock + 1
         /\ \/ UNCHANGED began
            \/ \E b \in {0, clock} : /\ began' = [began EXCEPT ![t] = b]
                                    /\ b < clock'
         /\ pc'[t] = "refresh" => began'[t] = 0
         /\ pc'[t] = "saveAnswer" => began'[t] = clock
<1> USE DEF TypeOK, TimesKnown, Begin, Goto, Raise
<1>1. CASE Send(t) \/ Open(t) \/ SetTitle(t) \/ LoadHistory(t) \/ Retrieve(t)
  BY <1>1 DEF Send, Open, SetTitle, LoadHistory, Retrieve, Answering
<1>2. CASE Token(t) \/ SendSources(t) \/ SendDone(t) \/ Confirm(t) \/ Fail(t)
           \/ Cut(t)
  BY <1>2 DEF Token, SendSources, SendDone, Confirm, Fail, Cut, Running
<1>3. CASE SaveUser(t) \/ SaveAnswer(t)
  BY <1>3 DEF SaveUser, SaveAnswer, Insert
<1>4. CASE RefreshUser(t)
  <2>1. began[t] = 0
    BY <1>4 DEF RefreshUser
  <2>2. began' = [began EXCEPT ![t] = clock] /\ clock' = clock + 1
    BY <1>4, <2>1 DEF RefreshUser
  <2>3. UNCHANGED messages /\ pc'[t] # "refresh"
    BY <1>4 DEF RefreshUser
  <2> QED BY <2>2, <2>3
<1> QED BY <1>1, <1>2, <1>3, <1>4 DEF Step

LEMMA TimesKept ==
  ASSUME TypeOK, TimesKnown, NEW t \in Turns,
         Send(t) \/ Step(t) \/ Fail(t) \/ Cut(t)
  PROVE  TimesKnown'
<1>1. \E next \in {"new"} \cup Running \cup Ended : pc' = [pc EXCEPT ![t] = next]
  BY Moves
<1>2. clock' \in Nat /\ clock <= clock' /\ clock \in Nat
  <2>1. clock' \in {clock, clock + 1}
    BY ClockMoves
  <2>2. clock \in Nat
    BY DEF TypeOK
  <2> QED BY <2>1, <2>2
<1>3. \A s \in Turns : began[s] \in Nat
  BY DEF TypeOK
<1>4. \A m \in messages : m.at \in Nat /\ m.saved \in Nat /\ m.turn \in Turns
  BY DEF TypeOK, Message
<1>5. \A s \in Turns : began'[s] < clock'
  <2>1. CASE UNCHANGED began
    BY <1>2, <1>3, <2>1 DEF TimesKnown
  <2>2. ASSUME NEW b \in {0, clock}, began' = [began EXCEPT ![t] = b], b < clock'
        PROVE  \A s \in Turns : began'[s] < clock'
    BY <1>2, <1>3, <2>2 DEF TimesKnown, TypeOK
  <2> QED BY <2>1, <2>2, ClockMoves
<1>6. \A m \in messages' : m.at < clock' /\ m.saved < clock'
  <2>1. \A m \in messages : m.at < clock' /\ m.saved < clock'
    BY <1>2, <1>4 DEF TimesKnown
  <2>2. \A m \in messages' \ messages : m.at = began[t] /\ m.saved = clock
    BY MessagesGrow DEF Row
  <2>3. messages' \subseteq messages \/ clock' = clock + 1
    BY ClockMoves
  <2>4. began[t] < clock
    BY DEF TimesKnown
  <2> QED BY <1>2, <1>3, <2>1, <2>2, <2>3, <2>4
<1>7. \A s \in Turns : pc'[s] = "refresh" => began'[s] = 0
  <2>1. \A s \in Turns \ {t} : pc'[s] = pc[s] /\ began'[s] = began[s]
    BY <1>1, ClockMoves DEF TypeOK
  <2> QED BY <2>1, ClockMoves DEF TimesKnown
<1>8. \A s \in Turns : pc'[s] = "saveAnswer" =>
        \A m \in messages' : m.turn = s => m.at < began'[s]
  <2>1. \A s \in Turns \ {t} : pc'[s] = pc[s] /\ began'[s] = began[s]
    BY <1>1, ClockMoves DEF TypeOK
  <2>2. \A m \in messages' \ messages : m.turn = t
    BY MessagesGrow DEF Row
  <2>3. CASE pc'[t] # "saveAnswer"
    BY <2>1, <2>2, <2>3 DEF TimesKnown
  <2>4. CASE pc'[t] = "saveAnswer"
    <3>1. UNCHANGED messages
      BY <2>4, MessagesGrow DEF Goto, TypeOK
    <3>2. began'[t] = clock
      BY <2>4, ClockMoves
    <3> QED BY <2>1, <3>1, <3>2 DEF TimesKnown
  <2> QED BY <2>3, <2>4
<1> QED BY <1>5, <1>6, <1>7, <1>8 DEF TimesKnown

LEMMA QuestionFirst ==
  ASSUME TypeOK, SavesKnown, TimesKnown, AnswerFollowsQuestion, NEW t \in Turns,
         Send(t) \/ Step(t) \/ Fail(t) \/ Cut(t)
  PROVE  AnswerFollowsQuestion'
<1>1. CASE UNCHANGED messages
  BY <1>1 DEF AnswerFollowsQuestion
<1>2. CASE messages' = messages \cup {Row(t, "user")}
  BY <1>2 DEF AnswerFollowsQuestion, Row
<1>3. CASE /\ SaveAnswer(t) /\ Alive
           /\ messages' = messages \cup {Row(t, "assistant")}
  <2>1. pc[t] = "saveAnswer"
    BY <1>3 DEF SaveAnswer
  <2>2. PICK q \in messages : q.turn = t /\ q.role = "user"
    BY <1>3, <2>1 DEF SavesKnown, Saved, Saving
  <2>3. q.at < began[t] /\ q.saved < clock
    BY <2>1, <2>2 DEF TimesKnown
  <2>4. /\ Row(t, "assistant").turn = t
        /\ Row(t, "assistant").at = began[t]
        /\ Row(t, "assistant").saved = clock
    BY DEF Row
  <2> QED BY <1>3, <2>2, <2>3, <2>4 DEF AnswerFollowsQuestion
<1> QED BY <1>1, <1>2, <1>3, MessagesGrow

(* What the model is shown. *)
LEMMA HistoriesKept ==
  ASSUME TypeOK, SavesKnown, OwnQuestionNotInHistory,
         NEW t \in Turns, Send(t) \/ Step(t) \/ Fail(t) \/ Cut(t)
  PROVE  OwnQuestionNotInHistory'
<1>1. CASE UNCHANGED history
  BY <1>1 DEF OwnQuestionNotInHistory
<1>2. CASE LoadHistory(t)
  <2>1. PICK h \in Recent(messages) : history' = [history EXCEPT ![t] = h]
    BY <1>2 DEF LoadHistory
  <2>2. history'[t] = h /\ \A s \in Turns \ {t} : history'[s] = history[s]
    BY <2>1 DEF TypeOK
  <2>3. \A m \in messages : m.turn # t
    BY <1>2 DEF LoadHistory, SavesKnown, Saving
  <2>4. \A i \in DOMAIN h : h[i].turn # t
    BY <2>3, RecentMessages
  <2> QED BY <2>2, <2>4 DEF OwnQuestionNotInHistory
<1> QED
  BY <1>1, <1>2 DEF Send, Step, Fail, Cut, Open, SetTitle, Retrieve, Token,
     SendSources, SendDone, SaveUser, RefreshUser, SaveAnswer, Confirm, Insert

LEMMA UnsavedKept ==
  ASSUME TypeOK, SavesKnown, UnsavedTurnIsReported, NEW t \in Turns,
         Send(t) \/ Step(t) \/ Fail(t) \/ Cut(t)
  PROVE  UnsavedTurnIsReported'
<1>1. SUFFICES ASSUME NEW s \in Turns, pc'[s] = "closed", Alive', ~Sent(s, "error")'
               PROVE  {m.role : m \in {n \in messages' : n.turn = s}}
                        = {"user", "assistant"}
  BY DEF UnsavedTurnIsReported
<1>2. PICK next \in {"new"} \cup Running \cup Ended :
           /\ pc' = [pc EXCEPT ![t] = next]
           /\ \/ UNCHANGED events /\ Silent(t, next)
              \/ \E x \in Event : /\ events' = [events EXCEPT ![t] = @ \o <<x>>]
                                 /\ Sending(t, x, next)
  BY Moves
<1>3. Alive
  BY <1>1 DEF Alive, Send, Step, Fail, Cut, Open, SetTitle, LoadHistory,
     Retrieve, Token, SendSources, SendDone, SaveUser, RefreshUser, SaveAnswer,
     Confirm, Insert
<1>4. CASE s # t
  <2>1. pc[s] = "closed" /\ events'[s] = events[s]
    BY <1>1, <1>2, <1>4 DEF TypeOK
  <2>2. \A m \in messages' : m.turn = s => m \in messages
    BY <1>4, MessagesGrow DEF Row
  <2>3. messages \subseteq messages'
    BY MessagesGrow
  <2>4. {n \in messages' : n.turn = s} = {n \in messages : n.turn = s}
    BY <2>2, <2>3
  <2> QED BY <1>1, <1>3, <2>1, <2>4 DEF UnsavedTurnIsReported, Sent
<1>5. CASE s = t
  <2>1. pc[t] = "confirm" /\ UNCHANGED messages
    <3>1. ~\E x \in Event : /\ events' = [events EXCEPT ![t] = @ \o <<x>>]
                            /\ Sending(t, x, next)
      <4>1. SUFFICES ASSUME events' = [events EXCEPT ![t] = @ \o <<"error">>]
                     PROVE  Sent(t, "error")'
        BY <1>1, <1>2, <1>5 DEF Sending, TypeOK
      <4>2. events[t] \in Seq(Event) /\ events'[t] = events[t] \o <<"error">>
        BY <4>1 DEF TypeOK
      <4>3. /\ Len(events'[t]) \in 1..Len(events'[t])
            /\ events'[t][Len(events'[t])] = "error"
        BY <4>2
      <4> QED BY <4>3 DEF Sent, Contains
    <3>2. pc[t] \in Saving \cup {"closed"} /\ pc'[t] = "closed" /\ UNCHANGED events
      BY <1>1, <1>2, <1>5, <3>1 DEF Silent, TypeOK, Preparing
    <3> QED
      BY <1>3, <3>2 DEF TypeOK, Goto, Emit, Saving, Preparing, Answering,
         Running, Ended, Send, Step, Fail, Cut, Raise, Open, SetTitle,
         LoadHistory, Retrieve, Token, SendSources, SendDone, SaveUser,
         RefreshUser, SaveAnswer, Confirm, Insert
  <2>2. Saved(t, "user") /\ Saved(t, "assistant")
    BY <1>3, <2>1 DEF SavesKnown, Saving
  <2>3. \A m \in messages : m.role \in {"user", "assistant"}
    BY DEF TypeOK, Message
  <2> QED BY <1>5, <2>1, <2>2, <2>3 DEF Saved
<1> QED BY <1>4, <1>5

-----------------------------------------------------------------------------
(* Creation and deletion of the session. *)
LEMMA SessionKeeps ==
  ASSUME IInv, CreateSession \/ DeleteSession
  PROVE  IInv'
<1> USE DEF IInv, CreateSession, DeleteSession
<1>1. messages' \subseteq messages /\ (messages' = messages \/ messages' = {})
  OBVIOUS
<1>2. TypeOK'
  BY TypesKept DEF Next
<1>3. EventsKnown' /\ EventsInOrder' /\ TimesKnown'
  BY <1>1 DEF EventsKnown, EventsInOrder, TimesKnown
<1>4. SavesKnown'
  BY <1>1 DEF SavesKnown, Alive, Saving, Sent, Saved
<1>5. NothingPartialIsSaved' /\ AnswerFollowsQuestion'
  BY <1>1 DEF NothingPartialIsSaved, AnswerFollowsQuestion, Sent
<1>6. OwnQuestionNotInHistory'
  BY DEF OwnQuestionNotInHistory
<1>7. UnsavedTurnIsReported'
  BY DEF UnsavedTurnIsReported, SavesKnown, Alive, Sent
<1> QED BY <1>2, <1>3, <1>4, <1>5, <1>6, <1>7

(* No question has been sent and nothing is stored when the process starts. *)
THEOREM Initial == Init => IInv
<1> SUFFICES ASSUME Init PROVE IInv
  OBVIOUS
<1> USE DEF Init
<1>1. TypeOK
  BY DEF TypeOK
<1>2. EventsKnown /\ EventsInOrder
  BY DEF EventsKnown, EventsInOrder, Preparing, Saving
<1>3. SavesKnown /\ TimesKnown
  BY DEF SavesKnown, TimesKnown, Saving, Alive
<1>4. NothingPartialIsSaved /\ AnswerFollowsQuestion
  BY DEF NothingPartialIsSaved, AnswerFollowsQuestion
<1>5. OwnQuestionNotInHistory /\ UnsavedTurnIsReported
  BY DEF OwnQuestionNotInHistory, UnsavedTurnIsReported
<1> QED BY <1>1, <1>2, <1>3, <1>4, <1>5 DEF IInv

(* Every step of a generator (rag_service.py:31-137), every request and    *)
(* every failure keeps the invariant.                                      *)
THEOREM Inductive == IInv /\ [Next]_vars => IInv'
<1> SUFFICES ASSUME IInv, [Next]_vars PROVE IInv'
  OBVIOUS
<1>1. ASSUME NEW t \in Turns, Send(t) \/ Step(t) \/ Fail(t) \/ Cut(t)
      PROVE  IInv'
  <2>1. TypeOK'
    BY <1>1, TypesKept DEF IInv, Next
  <2>2. EventsKnown' /\ EventsInOrder'
    BY <1>1, EventsKept DEF IInv
  <2>3. SavesKnown' /\ NothingPartialIsSaved'
    BY <1>1, SavesKept DEF IInv
  <2>4. TimesKnown' /\ AnswerFollowsQuestion'
    BY <1>1, TimesKept, QuestionFirst DEF IInv
  <2>5. OwnQuestionNotInHistory'
    BY <1>1, HistoriesKept DEF IInv
  <2>6. UnsavedTurnIsReported'
    BY <1>1, UnsavedKept DEF IInv
  <2> QED BY <2>1, <2>2, <2>3, <2>4, <2>5, <2>6 DEF IInv
<1>2. CASE UNCHANGED vars
  <2> USE <1>2 DEF vars, IInv
  <2>1. TypeOK' /\ EventsKnown' /\ TimesKnown'
    BY DEF TypeOK, EventsKnown, TimesKnown
  <2>2. SavesKnown' /\ NothingPartialIsSaved'
    BY DEF SavesKnown, Saved, Sent, Alive, NothingPartialIsSaved
  <2>3. EventsInOrder' /\ AnswerFollowsQuestion' /\ UnsavedTurnIsReported'
    BY DEF EventsInOrder, AnswerFollowsQuestion, UnsavedTurnIsReported, Sent, Alive
  <2>4. OwnQuestionNotInHistory'
    BY DEF OwnQuestionNotInHistory
  <2> QED BY <2>1, <2>2, <2>3, <2>4
<1> QED BY <1>1, <1>2, SessionKeeps DEF Next

LEMMA Invariance == Spec => []IInv
<1>1. Init => IInv
  BY Initial
<1>2. IInv /\ [Next]_vars => IInv'
  BY Inductive
<1> QED BY <1>1, <1>2, PTL DEF Spec

(* Type correctness: one session, any number of questions. *)
THEOREM TypeCorrect == Spec => []TypeOK
<1>1. IInv => TypeOK
  BY DEF IInv
<1> QED BY <1>1, Invariance, PTL

(* A stored answer has its question stored before it, by both timestamps. *)
THEOREM AnswersHaveQuestions == Spec => []AnswerFollowsQuestion
<1>1. IInv => AnswerFollowsQuestion
  BY DEF IInv
<1> QED BY <1>1, Invariance, PTL

(* Nothing of a turn is stored before its client was sent the whole answer. *)
THEOREM PartialAnswersAreDiscarded == Spec => []NothingPartialIsSaved
<1>1. IInv => NothingPartialIsSaved
  BY DEF IInv
<1> QED BY <1>1, Invariance, PTL

(* No model finds its own question in the history. *)
THEOREM HistoryExcludesQuestion == Spec => []OwnQuestionNotInHistory
<1>1. IInv => OwnQuestionNotInHistory
  BY DEF IInv
<1> QED BY <1>1, Invariance, PTL

(* A stream that ends as a whole has stored its turn or sent an error. *)
THEOREM LostTurnsAreReported == Spec => []UnsavedTurnIsReported
<1>1. IInv => UnsavedTurnIsReported
  BY DEF IInv
<1> QED BY <1>1, Invariance, PTL

(* Events come in the order of the protocol, an error last. *)
THEOREM StreamsAreOrdered == Spec => []EventsInOrder
<1>1. IInv => EventsInOrder
  BY DEF IInv
<1> QED BY <1>1, Invariance, PTL

-----------------------------------------------------------------------------
(* The title is a question that was sent. *)
TitleKnown ==
  \A t \in Turns : title = t => pc[t] # "new"

(* A question t that cannot become the title any more. *)
Titled(t) == title # NoTitle /\ title # t /\ pc[t] # "titling"

(* Only the stream of t makes t the title or moves t to that stage.        *)
LEMMA TitleSteps ==
  ASSUME TypeOK, NEW t \in Turns, Send(t) \/ Step(t) \/ Fail(t) \/ Cut(t)
  PROVE  /\ \/ UNCHANGED title
            \/ title' = t /\ pc[t] = "titling" /\ pc'[t] = "loading"
         /\ pc'[t] # "new"
         /\ pc'[t] = "titling" => title = NoTitle \/ pc[t] = "titling"
         /\ \A s \in Turns \ {t} : pc'[s] = pc[s]
<1> USE DEF TypeOK, Goto, Running, Preparing, Answering, Ended
<1>1. CASE Send(t) \/ Open(t) \/ SetTitle(t) \/ LoadHistory(t) \/ Retrieve(t)
  BY <1>1 DEF Send, Open, SetTitle, LoadHistory, Retrieve, Raise
<1>2. CASE Token(t) \/ SendSources(t) \/ SendDone(t)
  BY <1>2 DEF Token, SendSources, SendDone
<1>3. CASE SaveUser(t) \/ RefreshUser(t) \/ SaveAnswer(t) \/ Confirm(t)
  BY <1>3 DEF SaveUser, RefreshUser, SaveAnswer, Confirm, Insert, Raise
<1>4. CASE Fail(t) \/ Cut(t)
  BY <1>4 DEF Fail, Cut, Raise
<1> QED BY <1>1, <1>2, <1>3, <1>4 DEF Step

LEMMA TitleInvariance == Spec => []TitleKnown
<1>1. Init => TitleKnown
  BY DEF Init, TitleKnown, Turns, NoTitle
<1>2. TypeOK /\ TitleKnown /\ [Next]_vars => TitleKnown'
  <2> SUFFICES ASSUME TypeOK, TitleKnown, [Next]_vars PROVE TitleKnown'
    OBVIOUS
  <2>1. ASSUME NEW t \in Turns, Send(t) \/ Step(t) \/ Fail(t) \/ Cut(t)
        PROVE  TitleKnown'
    BY <2>1, TitleSteps DEF TitleKnown
  <2>2. CASE CreateSession \/ DeleteSession \/ UNCHANGED vars
    BY <2>2 DEF CreateSession, DeleteSession, vars, TitleKnown
  <2> QED BY <2>1, <2>2 DEF Next
<1> QED BY <1>1, <1>2, TypeCorrect, PTL DEF Spec

LEMMA TitledStays ==
  ASSUME NEW t \in Turns
  PROVE  TypeOK /\ Titled(t) /\ [Next]_vars => Titled(t)'
<1> SUFFICES ASSUME TypeOK, Titled(t), [Next]_vars PROVE Titled(t)'
  OBVIOUS
<1>1. ASSUME NEW s \in Turns, Send(s) \/ Step(s) \/ Fail(s) \/ Cut(s)
      PROVE  Titled(t)'
  <2>1. s # NoTitle
    BY DEF Turns, NoTitle
  <2> QED BY <1>1, <2>1, TitleSteps DEF Titled
<1>2. CASE CreateSession \/ DeleteSession \/ UNCHANGED vars
  BY <1>2 DEF CreateSession, DeleteSession, vars, Titled
<1> QED BY <1>1, <1>2 DEF Next

(* A question sent when the session has a title never changes it, whatever *)
(* other streams of the session do (rag_service.py:33-36,                  *)
(* chat_service.py:82-92).                                                 *)
THEOREM TitlesAreKept == Spec => LateQuestionKeepsTitle
<1> SUFFICES ASSUME NEW t \in Turns
             PROVE  Spec => [](pc[t] = "new" /\ title # NoTitle => [](title # t))
  BY DEF LateQuestionKeepsTitle
<1>1. TitleKnown => (pc[t] = "new" /\ title # NoTitle => Titled(t))
  BY DEF TitleKnown, Titled
<1>2. Titled(t) => title # t
  BY DEF Titled
<1> QED BY <1>1, <1>2, TitleInvariance, TitledStays, TypeCorrect, PTL DEF Spec
=============================================================================
