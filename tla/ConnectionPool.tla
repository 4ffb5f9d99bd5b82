--------------------------- MODULE ConnectionPool ---------------------------
(***************************************************************************)
(* The connections of app/db/base.py, and who holds one for how long.  The *)
(* engine's pool is bounded (SQLAlchemy's default, 5 and 10 more); a       *)
(* session takes a connection at its first statement, waits for one when   *)
(* none is free, and gives it back at commit or close.                     *)
(*                                                                         *)
(* A request works on the session of get_db, which FastAPI closes before   *)
(* the response is sent.  The stream of a question then opens a session of *)
(* its own (app/api/v1/chat.py); the index task of an upload goes on with  *)
(* the request's closed session, which nobody closes again.                *)
(***************************************************************************)
EXTENDS Integers, FiniteSets

CONSTANTS
  Questions,  \* POST /chats/{id}/messages requests with their streams
  Uploads,    \* POST /files requests with their index tasks
  Others,     \* every other request: it reads or writes, then answers
  Capacity    \* most connections at a time (15)

Actors == Questions \cup Uploads \cup Others

ASSUME ParametersOK ==
  /\ Questions \cap Uploads = {} /\ Others \cap (Questions \cup Uploads) = {}
  /\ Capacity \in Nat \ {0}

VARIABLES
  pc,    \* where each request, stream or task stands
  held   \* the sessions that hold a connection

vars == <<pc, held>>

(* Named by what comes next. *)
Handling == {"selectUser", "handle", "refresh", "close"}
Streaming == {"getSession", "setTitle", "loadHistory", "generate", "saveUser",
              "refreshUser", "saveAnswer", "refreshAnswer"}
Indexing == {"selectRow", "mark", "embed", "flush", "commit"}
Stage == {"verifyToken", "raise", "closeStream", "ended"}
           \cup Handling \cup Streaming \cup Indexing

Request(a) == <<a, "request">>   \* the session of get_db
Stream(a) == <<a, "stream">>     \* the session of _stream_with_own_session
Sessions == Actors \X {"request", "stream"}

Init ==
  /\ pc = [a \in Actors |-> "verifyToken"]
  /\ held = {}

-----------------------------------------------------------------------------
Goto(a, next) == pc' = [pc EXCEPT ![a] = next]

(* Faulty variant: a pool without a bound. *)
TakeUnbounded(s) == held' = held \cup {s}

(* A statement of session s, which waits until it has a connection. *)
Take(s) ==
  /\ s \in held \/ Cardinality(held) < Capacity
  /\ held' = held \cup {s}

Return(s) == held' = held \ {s}

-----------------------------------------------------------------------------
(* Every request: get_current_user.  The token is verified, perhaps over   *)
(* a slow Keycloak, before the session runs its first statement.           *)
VerifyToken(a) ==
  /\ pc[a] = "verifyToken"
  /\ Goto(a, "selectUser")
  /\ UNCHANGED held

SelectUser(a) ==
  /\ pc[a] = "selectUser"
  /\ Take(Request(a))
  /\ Goto(a, "handle")

(* The body of a handler that only reads, as that of a question, or ends   *)
(* with a commit, as a deletion does.                                      *)
Answer(a) ==
  /\ pc[a] = "handle" /\ a \notin Uploads
  /\ \/ UNCHANGED held
     \/ a \in Others /\ Return(Request(a))
  /\ Goto(a, "close")

(* upload_file and create_session commit a new row and refresh it. *)
Create(a) ==
  /\ pc[a] = "handle" /\ a \notin Questions
  /\ Return(Request(a))
  /\ Goto(a, "refresh")

Refresh(a) ==
  /\ pc[a] = "refresh"
  /\ Take(Request(a))
  /\ Goto(a, "close")

(* Faulty variant: the session is closed when the response has been sent,  *)
(* as FastAPI did before 0.106.                                            *)
CloseAfterResponse(a) ==
  \/ /\ pc[a] = "close"
     /\ IF a \in Questions
        THEN Goto(a, "getSession") /\ UNCHANGED held
        ELSE Goto(a, "ended") /\ Return(Request(a))
  \/ /\ pc[a] = "raise"
     /\ Return(Request(a)) /\ Goto(a, "ended")

(* get_db closes the session, after an exception too.  Then the response   *)
(* is sent: the body of a stream, or 201 and the background task.          *)
Close(a) ==
  /\ pc[a] \in {"close", "raise"}
  /\ Return(Request(a))
  /\ Goto(a, CASE pc[a] = "raise" \/ a \in Others -> "ended"
               [] pc[a] = "close" /\ a \in Questions -> "getSession"
               [] pc[a] = "close" /\ a \in Uploads -> "selectRow")

-----------------------------------------------------------------------------
(* stream_rag_response over its own session. *)

GetSession(a) ==
  /\ pc[a] = "getSession"
  /\ Take(Stream(a))
  /\ \E next \in {"setTitle", "loadHistory"} : Goto(a, next)

SetTitle(a) ==
  /\ pc[a] = "setTitle"
  /\ Return(Stream(a))
  /\ Goto(a, "loadHistory")

LoadHistory(a) ==
  /\ pc[a] = "loadHistory"
  /\ Take(Stream(a))
  /\ Goto(a, "generate")

(* Embedding, search, the model's answer and the names of its sources: the *)
(* transaction that read the history stays open.                           *)
Generate(a) ==
  /\ pc[a] = "generate"
  /\ Goto(a, "saveUser")
  /\ UNCHANGED held

(* Each save commits and then refreshes what it saved. *)
Save(a) ==
  /\ \/ pc[a] = "saveUser" /\ Goto(a, "refreshUser")
     \/ pc[a] = "saveAnswer" /\ Goto(a, "refreshAnswer")
  /\ Return(Stream(a))

RefreshSaved(a) ==
  /\ \/ pc[a] = "refreshUser" /\ Goto(a, "saveAnswer")
     \/ pc[a] = "refreshAnswer" /\ Goto(a, "closeStream")
  /\ Take(Stream(a))

CloseStream(a) ==
  /\ pc[a] = "closeStream"
  /\ Return(Stream(a))
  /\ Goto(a, "ended")

-----------------------------------------------------------------------------
(* index_file over the session of the request, open again. *)

(* A row that is not found ends the task without commit or close. *)
SelectRow(a) ==
  /\ pc[a] = "selectRow"
  /\ Take(Request(a))
  /\ \E next \in {"mark", "ended"} : Goto(a, next)

(* Faulty variant: the status is flushed and committed with the chunks. *)
MarkUncommitted(a) ==
  /\ pc[a] = "mark"
  /\ Goto(a, "embed")
  /\ UNCHANGED held

Mark(a) ==
  /\ pc[a] = "mark"
  /\ Return(Request(a))
  /\ Goto(a, "embed")

(* Reading, parsing and embedding; whatever fails in it, a status is saved *)
(* next.                                                                   *)
Embed(a) ==
  /\ pc[a] = "embed"
  /\ Goto(a, "flush")
  /\ UNCHANGED held

Flush(a) ==
  /\ pc[a] = "flush"
  /\ Take(Request(a))
  /\ Goto(a, "commit")

CommitIndex(a) ==
  /\ pc[a] = "commit"
  /\ Return(Request(a))
  /\ Goto(a, "ended")

-----------------------------------------------------------------------------
(* Faulty variant: get_db does not close the session after an exception. *)
FailUnclosed(a) ==
  /\ \/ pc[a] \in Handling \cup {"verifyToken"} /\ Goto(a, "ended")
     \/ pc[a] \in Streaming /\ Goto(a, "closeStream")
     \/ pc[a] \in Indexing \ {"embed"} /\ Goto(a, "ended")
  /\ UNCHANGED held

(* An exception: a refused token, 404, a failed statement or call, no      *)
(* connection within pool_timeout, or, for a stream, a client that left.   *)
(* Requests and streams close their session on the way out; a flush that   *)
(* fails in the index task leaves it as it is.                             *)
Fail(a) ==
  /\ \/ pc[a] \in Handling \cup {"verifyToken"} /\ Goto(a, "raise")
     \/ pc[a] \in Streaming /\ Goto(a, "closeStream")
     \/ pc[a] \in Indexing \ {"embed"} /\ Goto(a, "ended")
  /\ UNCHANGED held

(* The garbage collector finds the session that nobody closed, and the     *)
(* pool terminates its connection.                                         *)
Collect(a) ==
  /\ pc[a] = "ended"
  /\ Request(a) \in held
  /\ Return(Request(a))
  /\ UNCHANGED pc

Step(a) ==
  \/ SelectUser(a) \/ Answer(a) \/ Create(a) \/ Refresh(a) \/ Close(a)
  \/ GetSession(a) \/ SetTitle(a) \/ LoadHistory(a) \/ Generate(a) \/ Save(a)
  \/ RefreshSaved(a) \/ CloseStream(a)
  \/ SelectRow(a) \/ Mark(a) \/ Embed(a) \/ Flush(a) \/ CommitIndex(a)
  \/ Collect(a)

Next == \E a \in Actors : VerifyToken(a) \/ Step(a) \/ Fail(a)

Spec == Init /\ [][Next]_vars

(* The event loop resumes whoever can go on; calls to other services and   *)
(* the garbage collector come to an end.  No timeout is relied on.         *)
FairSpec == Spec /\ \A a \in Actors : WF_vars(Step(a))

-----------------------------------------------------------------------------
TypeOK ==
  /\ pc \in [Actors -> Stage]
  /\ held \subseteq Sessions
  /\ IsFiniteSet(held) /\ Cardinality(held) <= Capacity

(* The session whose statement comes next for a. *)
Wants(a) == IF pc[a] \in Streaming THEN Stream(a) ELSE Request(a)

Waits(a) ==
  /\ pc[a] \in {"selectUser", "refresh", "selectRow", "flush", "getSession",
                "loadHistory", "refreshUser", "refreshAnswer"}
  /\ Wants(a) \notin held

(* Nobody who waits for a connection has one: the two sessions of a        *)
(* question never overlap, so that no number of streams can lock each      *)
(* other out of the pool (chat.py:74-81, base.py:15-16).                   *)
NoHoldAndWait ==
  \A a \in Actors : Waits(a) => Request(a) \notin held /\ Stream(a) \notin held

(* Calls that may take long are made without a connection by the token     *)
(* verification and by the index task, whose mark is committed first       *)
(* (dependencies.py:21-23, file_service.py:82-138).                        *)
SlowCallsHoldNothing ==
  \A a \in Actors :
    pc[a] \in {"verifyToken", "embed"} =>
      Request(a) \notin held /\ Stream(a) \notin held

(* Whoever has ended holds no connection, whatever failed and whenever the *)
(* client left; but for index tasks, whose session nobody closes.  A       *)
(* stream never holds the one of its request ("async with", base.py:15-16, *)
(* chat.py:77; rag-presentation.md:299-303 knows the symptom).             *)
OnlyIndexTasksAbandon ==
  \A a \in Actors :
    /\ Stream(a) \in held => pc[a] \in Streaming \cup {"closeStream"}
    /\ Request(a) \in held =>
         \/ pc[a] \in Handling \cup {"raise"}
         \/ a \in Uploads /\ pc[a] \in Indexing \cup {"ended"}

(* Every request that passed its token check comes to its end with its     *)
(* connection given back, although nobody ever times out and others hold   *)
(* connections while models write their answers.                           *)
EveryoneIsServed ==
  \A a \in Actors :
    pc[a] = "selectUser"
      ~> pc[a] = "ended" /\ Request(a) \notin held /\ Stream(a) \notin held
=============================================================================
