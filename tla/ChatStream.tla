----------------------------- MODULE ChatStream ------------------------------
(***************************************************************************)
(* One chat session and the questions sent to it: app/api/v1/chat.py,      *)
(* app/services/chat_service.py and the generator stream_rag_response of   *)
(* app/services/rag_service.py.  Every question runs its own generator     *)
(* over its own database session; they share the rows of the chat session  *)
(* and of its messages, and nothing serialises them.                       *)
(*                                                                         *)
(* PostgreSQL's now(), the default of created_at, is the time the          *)
(* transaction began.  The transaction that inserts a question began when  *)
(* the generator first read the database (or, when it set the title,       *)
(* after that commit); the one that inserts the answer began with the      *)
(* refresh of the stored question.                                         *)
(***************************************************************************)
EXTENDS Integers, Sequences, FiniteSets, SequencesExt

CONSTANTS
  N,          \* number of questions sent
  Limit,      \* messages of history given to the model (20)
  MaxTokens,  \* most tokens of an answer
  Client,     \* when the client sends the next question, and hangs up
  Faults      \* the kinds of failure that may happen

Clients == {"concurrent",    \* sends questions at any time
            "patient",       \* waits for the stream of the last one to end
            "hangsUp"}       \* closes at the done event, then goes on

FaultKinds == {"embed",       \* the query embedding fails
               "llm",         \* the model's stream fails
               "db",          \* a statement or commit fails
               "disconnect",  \* a client goes away at any time
               "delete"}      \* the session is deleted meanwhile

ASSUME ParametersOK ==
  /\ N \in Nat /\ Limit \in Nat \ {0} /\ MaxTokens \in Nat
  /\ Client \in Clients
  /\ Faults \subseteq FaultKinds

Turns == 1..N
NoTitle == 0

VARIABLES
  session,   \* whether its row is new, open or deleted
  title,     \* the question the title was cut from, or NoTitle
  messages,  \* the rows of chat_messages
  clock,     \* database time, ticking at every transaction and insert
  pc,        \* where each generator stands
  began,     \* begin of the open transaction of its session, 0 if none
  history,   \* what it loaded for the model
  events,    \* the SSE events it sent
  fallback   \* the questions without a matching chunk

vars == <<session, title, messages, clock, pc, began, history, events, fallback>>

Preparing == {"open", "titling", "loading", "retrieving"}
Answering == {"answering", "finishing",                      \* within the try
              "saveUser", "refresh", "saveAnswer", "confirm"}
Running == Preparing \cup Answering
Ended == {"closed",     \* the generator returned
          "broken",     \* it raised: the body ends without its last chunk
          "cut",        \* the client went away and it was cancelled
          "notFound"}   \* 404
Event == {"token", "sources", "done", "error"}
Message == [turn : Turns, role : {"user", "assistant"}, at : Nat, saved : Nat]

Init ==
  /\ session  = "new"
  /\ title    = NoTitle
  /\ messages = {}
  /\ clock    = 1
  /\ pc       = [t \in Turns |-> "new"]
  /\ began    = [t \in Turns |-> 0]
  /\ history  = [t \in Turns |-> <<>>]
  /\ events   = [t \in Turns |-> <<>>]
  /\ fallback = {}

-----------------------------------------------------------------------------
Alive == session = "open"
Sent(t, e) == Contains(events[t], e)
Goto(t, next) == pc' = [pc EXCEPT ![t] = next]
Emit(t, es) == events' = [events EXCEPT ![t] = @ \o es]

(* Statements run in the open transaction or open one now. *)
Begin(t) ==
  /\ began' = [began EXCEPT ![t] = IF @ = 0 THEN clock ELSE @]
  /\ clock' = clock + 1

Ascending(h) == \A i, j \in DOMAIN h : i < j => h[i].at < h[j].at

(* The elements of M in some order, Limit of them or all there are. *)
Limited(M) ==
  {h \in UNION {[1..k -> M] : k \in 0..Limit} :
     /\ \A i, j \in DOMAIN h : i # j => h[i] # h[j]
     /\ Range(h) # M => Len(h) = Limit}

(* Faulty variant: the limit is applied to ascending order. *)
RecentOldest(M) ==
  {h \in Limited(M) :
     /\ Ascending(h)
     /\ \A m \in M \ Range(h) : \A i \in DOMAIN h : h[i].at < m.at}

(* get_recent_messages: the Limit newest by created_at, oldest first. *)
Recent(M) ==
  {h \in Limited(M) :
     /\ Ascending(h)
     /\ \A m \in M \ Range(h) : \A i \in DOMAIN h : m.at < h[i].at}

(* The elements of S by ascending key; keys are distinct. *)
InOrderOf(S, key) ==
  [i \in 1..Cardinality(S) |->
     CHOOSE m \in S : Cardinality({n \in S : key[n] < key[m]}) = i - 1]
Itself == [t \in Turns |-> t]
CreatedAt == [m \in Message |-> m.at]

-----------------------------------------------------------------------------
(* When the client sends question t. *)
MaySend(t) ==
  \A s \in 1..(t - 1) :
    CASE Client = "concurrent" -> TRUE
      [] Client = "patient"    -> pc[s] \in Ended
      [] Client = "hangsUp"    -> pc[s] \in Ended \/ Sent(s, "done")

(* POST /chats *)
CreateSession ==
  /\ session = "new"
  /\ session' = "open"
  /\ UNCHANGED <<title, messages, clock, pc, began, history, events, fallback>>

(* POST /chats/{id}/messages up to its response header. *)
Send(t) ==
  /\ session # "new"
  /\ pc[t] = "new" /\ MaySend(t)
  /\ Goto(t, IF Alive THEN "open" ELSE "notFound")
  /\ UNCHANGED <<session, title, messages, clock, began, history, events,
                 fallback>>

(* Faulty variant: what was generated before the failure is kept. *)
RaiseKeepingPartial(t) ==
  CASE pc[t] = "answering" -> Goto(t, "saveUser") /\ Emit(t, <<"error">>)
    [] pc[t] # "answering" /\ pc[t] \in Answering
                           -> Goto(t, "closed") /\ Emit(t, <<"error">>)
    [] OTHER               -> Goto(t, "broken") /\ UNCHANGED events

(* Faulty variant: the exception is only logged. *)
RaiseSilently(t) == Goto(t, "closed") /\ UNCHANGED events

(* Faulty variant: an event that clients do not know. *)
RaiseUnknownEvent(t) == Goto(t, "closed") /\ Emit(t, <<"exception">>)

(* An exception inside the try becomes an error event; one before it, or   *)
(* on the fallback path, escapes the generator.                            *)
Raise(t) ==
  IF t \notin fallback /\ pc[t] \in Answering
  THEN Goto(t, "closed") /\ Emit(t, <<"error">>)
  ELSE Goto(t, "broken") /\ UNCHANGED events

(* Faulty variant: every question sets the title. *)
OpenRetitling(t) ==
  /\ pc[t] = "open"
  /\ Begin(t)
  /\ Goto(t, IF Alive THEN "titling" ELSE "loading")
  /\ UNCHANGED <<session, title, messages, history, events, fallback>>

(* get_session *)
Open(t) ==
  /\ pc[t] = "open"
  /\ Begin(t)
  /\ Goto(t, IF Alive /\ title = NoTitle THEN "titling" ELSE "loading")
  /\ UNCHANGED <<session, title, messages, history, events, fallback>>

(* set_session_title.  A session deleted before its select is skipped, one *)
(* deleted after it makes the UPDATE match no row and the commit raise.    *)
SetTitle(t) ==
  /\ pc[t] = "titling"
  /\ \/ /\ Alive
        /\ title' = t
        /\ began' = [began EXCEPT ![t] = 0]
        /\ Goto(t, "loading") /\ UNCHANGED events
     \/ /\ ~Alive
        /\ Goto(t, "loading") /\ UNCHANGED <<title, began, events>>
     \/ /\ ~Alive /\ Raise(t) /\ UNCHANGED <<title, began>>
  /\ UNCHANGED <<session, messages, clock, history, fallback>>

(* Faulty variant: the history is loaded after the question was saved. *)
SaveThenLoad(t) ==
  LET question == [turn |-> t, role |-> "user", at |-> clock, saved |-> clock]
  IN  /\ pc[t] = "loading"
      /\ Begin(t)
      /\ messages' = messages \cup {question}
      /\ \E h \in Recent(messages') : history' = [history EXCEPT ![t] = h]
      /\ Goto(t, "retrieving")
      /\ UNCHANGED <<session, title, events, fallback>>

(* get_recent_messages, before the question is saved. *)
LoadHistory(t) ==
  /\ pc[t] = "loading"
  /\ Begin(t)
  /\ \E h \in Recent(messages) : history' = [history EXCEPT ![t] = h]
  /\ Goto(t, "retrieving")
  /\ UNCHANGED <<session, title, messages, events, fallback>>

(* The embedding of the query and the search.  With no hit the fallback    *)
(* text is the whole answer.                                               *)
Retrieve(t) ==
  /\ pc[t] = "retrieving"
  /\ Goto(t, "answering")
  /\ \/ UNCHANGED <<events, fallback>>
     \/ Emit(t, <<"token">>) /\ fallback' = fallback \cup {t}
  /\ UNCHANGED <<session, title, messages, clock, began, history>>

Token(t) ==
  /\ pc[t] = "answering" /\ t \notin fallback
  /\ Len(events[t]) < MaxTokens
  /\ Emit(t, <<"token">>)
  /\ UNCHANGED <<session, title, messages, clock, pc, began, history, fallback>>

(* Faulty variant: done is sent before the file names are looked up. *)
SendSourcesAfterDone(t) ==
  /\ pc[t] = "answering"
  /\ Emit(t, <<"done", "sources">>)
  /\ Goto(t, "saveUser")
  /\ UNCHANGED <<session, title, messages, clock, began, history, fallback>>

(* The model's stream is over: look up the file names, send the sources. *)
SendSources(t) ==
  /\ pc[t] = "answering"
  /\ Emit(t, <<"sources">>)
  /\ Goto(t, "finishing")
  /\ UNCHANGED <<session, title, messages, clock, began, history, fallback>>

SendDone(t) ==
  /\ pc[t] = "finishing"
  /\ Emit(t, <<"done">>)
  /\ Goto(t, "saveUser")
  /\ UNCHANGED <<session, title, messages, clock, began, history, fallback>>

(* INSERT and commit, in a transaction that began before.  A deleted       *)
(* session fails the foreign key.                                          *)
Insert(t, role, next) ==
  /\ \/ /\ Alive
        /\ messages' = messages \cup
             {[turn |-> t, role |-> role, at |-> began[t], saved |-> clock]}
        /\ Goto(t, next) /\ UNCHANGED events
     \/ ~Alive /\ Raise(t) /\ UNCHANGED messages
  /\ began' = [began EXCEPT ![t] = 0]
  /\ clock' = clock + 1
  /\ UNCHANGED <<session, title, history, fallback>>

(* Faulty variant: the answer is saved first. *)
SaveAnswerFirst(t) ==
  pc[t] = "saveUser" /\ Insert(t, "assistant", "refresh")

(* Faulty variant: a lock of the session is kept when a turn fails. *)
SaveUserLocked(t) ==
  /\ pc[t] = "saveUser"
  /\ \A s \in Turns : pc[s] # "broken"
  /\ Insert(t, "user", "refresh")

SaveUser(t) == pc[t] = "saveUser" /\ Insert(t, "user", "refresh")

(* refresh() of the saved question begins the transaction of the answer,   *)
(* and raises when the question is gone with its session.                  *)
RefreshUser(t) ==
  /\ pc[t] = "refresh"
  /\ Begin(t)
  /\ \/ Alive /\ Goto(t, "saveAnswer") /\ UNCHANGED events
     \/ ~Alive /\ Raise(t)
  /\ UNCHANGED <<session, title, messages, history, fallback>>

SaveAnswer(t) == pc[t] = "saveAnswer" /\ Insert(t, "assistant", "confirm")

(* refresh() of the saved answer. *)
Confirm(t) ==
  /\ pc[t] = "confirm"
  /\ \/ Alive /\ Goto(t, "closed") /\ UNCHANGED events
     \/ ~Alive /\ Raise(t)
  /\ UNCHANGED <<session, title, messages, clock, began, history, fallback>>

(* A call to OpenAI or a statement fails; an open transaction is undone. *)
Fail(t) ==
  /\ \/ "embed" \in Faults /\ pc[t] = "retrieving"
     \/ /\ pc[t] = "answering" /\ t \notin fallback
        /\ Faults \cap {"llm", "db"} # {}
     \/ "db" \in Faults /\ pc[t] \in Running \ {"answering", "finishing"}
  /\ Raise(t)
  /\ UNCHANGED <<session, title, messages, clock, began, history, fallback>>

(* The connection is lost or closed by the client: the generator is        *)
(* cancelled where it waits, and its database session rolled back.         *)
Cut(t) ==
  /\ pc[t] \in Running
  /\ \/ "disconnect" \in Faults
     \/ Client = "hangsUp" /\ Sent(t, "done")
  /\ Goto(t, "cut")
  /\ UNCHANGED <<session, title, messages, clock, began, history, events,
                 fallback>>

(* DELETE /chats/{id}, its messages with it. *)
DeleteSession ==
  /\ "delete" \in Faults
  /\ Alive
  /\ session' = "deleted"
  /\ messages' = {}
  /\ UNCHANGED <<title, clock, pc, began, history, events, fallback>>

Step(t) ==
  \/ Open(t) \/ SetTitle(t) \/ LoadHistory(t) \/ Retrieve(t) \/ Token(t)
  \/ SendSources(t) \/ SendDone(t) \/ SaveUser(t) \/ RefreshUser(t)
  \/ SaveAnswer(t) \/ Confirm(t)

Next ==
  \/ \E t \in Turns : Send(t) \/ Step(t) \/ Fail(t) \/ Cut(t)
  \/ CreateSession \/ DeleteSession

Spec == Init /\ [][Next]_vars

(* A generator that was started is run to its end. *)
FairSpec == Spec /\ \A t \in Turns : WF_vars(Step(t))

-----------------------------------------------------------------------------
TypeOK ==
  /\ session \in {"new", "open", "deleted"}
  /\ title \in Turns \cup {NoTitle}
  /\ messages \subseteq Message
  /\ clock \in Nat \ {0}
  /\ pc \in [Turns -> {"new"} \cup Running \cup Ended]
  /\ began \in [Turns -> Nat]
  /\ history \in [Turns -> Seq(Message)]
  /\ events \in [Turns -> Seq(Event)]
  /\ fallback \subseteq Turns

(* A saved answer has its question saved before it, by both timestamps,    *)
(* however the turns of a session interleave (rag_service.py:131-133).     *)
AnswerFollowsQuestion ==
  \A a \in messages :
    a.role = "assistant" =>
      \E q \in messages : /\ q.turn = a.turn /\ q.role = "user"
                          /\ q.at < a.at /\ q.saved < a.saved

(* Nothing of a turn is saved unless its client was sent the whole answer: *)
(* a partial answer is discarded (chat design.md:60, rag_service.py:135).  *)
NothingPartialIsSaved ==
  \A m \in messages : Sent(m.turn, "done")

(* The model never finds in the history the question it is asked           *)
(* (rag_service.py:38, "must be read before the user message is saved").   *)
OwnQuestionNotInHistory ==
  \A t \in Turns : \A i \in DOMAIN history[t] : history[t][i].turn # t

(* A question sent when the session has a title never changes the title,   *)
(* whatever other questions are in flight (chat-session/spec.md:119-123).  *)
LateQuestionKeepsTitle ==
  \A t \in Turns :
    [](pc[t] = "new" /\ title # NoTitle => [](title # t))

(* The events of a stream are tokens, then sources and done; an error ends *)
(* it wherever it stands, which may be after done, for the saves run last  *)
(* and inside the try (docstring of rag_service.py:31, lines 102-137).     *)
EventsInOrder ==
  \A t \in Turns : \A i, j \in DOMAIN events[t] :
    i < j =>
      /\ events[t][i] # "error"
      /\ events[t][i] = "done" => events[t][j] = "error"
      /\ events[t][i] = "sources" => events[t][j] \in {"done", "error"}

(* When a stream ends without a connection lost, its turn is saved as a    *)
(* whole or the client was told: by an error event or a broken body.       *)
UnsavedTurnIsReported ==
  \A t \in Turns :
    pc[t] = "closed" /\ Alive =>
      \/ Sent(t, "error")
      \/ {m.role : m \in {n \in messages : n.turn = t}} = {"user", "assistant"}

(* Messages as turn and role. *)
Told(h) == [i \in DOMAIN h |-> <<h[i].turn, h[i].role>>]

(* The turns before t whose client was sent done. *)
DoneBefore(t) == {s \in 1..(t - 1) : Sent(s, "done")}

(* "When the next request loads the history the turn is part of it"        *)
(* (chat-message/spec.md:97-99): what a question is answered from are the  *)
(* last questions and answers that were completed before it, in order and  *)
(* whole.                                                                  *)
CompletedTurnsAreRemembered ==
  \A t \in Turns :
    pc[t] \notin {"new", "open", "titling", "loading", "notFound"} =>
      LET kept == {s \in DoneBefore(t) :
                     2 * Cardinality({r \in DoneBefore(t) : r > s}) < Limit}
          turns == InOrderOf(kept, Itself)
          talk == FlattenSeq([i \in DOMAIN turns |->
                    <<<<turns[i], "user">>, <<turns[i], "assistant">>>>])
      IN  Told(history[t]) = talk

(* Every question that was taken is brought to an end. *)
StreamEnds == \A t \in Turns : pc[t] = "open" ~> pc[t] \in Ended
-----------------------------------------------------------------------------
(* Refinement, for a patient client: a turn happens when its answer is     *)
(* saved, or when its stream has ended without.                            *)
Status(t) ==
  CASE pc[t] \in {"new", "open", "titling", "loading"} -> "new"
    [] pc[t] \in Ended \cup {"confirm"} -> "over"
    [] OTHER -> "asked"

Talk == INSTANCE Conversation WITH
  status     <- [t \in Turns |-> Status(t)],
  transcript <- Told(InOrderOf({m \in messages : Status(m.turn) = "over"},
                               CreatedAt)),
  shown      <- [t \in Turns |-> Told(history[t])]

ImplementsConversation == Talk!Spec
=============================================================================
