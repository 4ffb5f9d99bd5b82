------------------------ MODULE ConnectionPoolProofs ------------------------
(***************************************************************************)
(* The safety properties of ConnectionPool, for any number of requests and *)
(* any capacity of the pool.                                               *)
(***************************************************************************)
EXTENDS ConnectionPool, FiniteSetTheorems, TLAPS

(* Where a session may hold a connection, stage by stage. *)
HoldersKnown ==
  \A a \in Actors :
    /\ Stream(a) \in held =>
         pc[a] \in {"setTitle", "loadHistory", "generate", "saveUser",
                    "saveAnswer", "closeStream"}
    /\ Request(a) \in held =>
         \/ pc[a] \in {"handle", "close", "raise"}
         \/ pc[a] \in {"mark", "commit", "ended"} /\ a \in Uploads

(* Only uploads have an index task. *)
KindsKnown == \A a \in Actors : pc[a] \in Indexing => a \in Uploads

IInv == TypeOK /\ HoldersKnown /\ KindsKnown

(* Sessions of different actors, and the two of one actor, are different. *)
LEMMA SessionsDiffer ==
  /\ \A a, b : Request(a) # Stream(b)
  /\ \A a, b : Request(a) = Request(b) <=> a = b
  /\ \A a, b : Stream(a) = Stream(b) <=> a = b
BY DEF Request, Stream

LEMMA SessionsTyped ==
  \A a \in Actors : Request(a) \in Sessions /\ Stream(a) \in Sessions
BY DEF Request, Stream, Sessions

(* A statement keeps the pool within its capacity. *)
LEMMA TakeKeeps ==
  ASSUME NEW s \in Sessions, Take(s), held \subseteq Sessions,
         IsFiniteSet(held), Cardinality(held) <= Capacity
  PROVE  held' \subseteq Sessions /\ IsFiniteSet(held')
           /\ Cardinality(held') <= Capacity
<1>1. held' = held \cup {s} /\ held' \subseteq Sessions
  BY DEF Take
<1>2. /\ IsFiniteSet(held')
      /\ Cardinality(held') =
           IF s \in held THEN Cardinality(held) ELSE Cardinality(held) + 1
  BY <1>1, FS_AddElement
<1>3. Cardinality(held) \in Nat
  BY FS_CardinalityType
<1>4. CASE s \in held
  BY <1>1, <1>2, <1>4
<1>5. CASE s \notin held
  BY <1>1, <1>2, <1>3, <1>5, ParametersOK DEF Take
<1> QED BY <1>4, <1>5

(* So does a commit or close. *)
LEMMA ReturnKeeps ==
  ASSUME NEW s, Return(s), held \subseteq Sessions,
         IsFiniteSet(held), Cardinality(held) <= Capacity
  PROVE  held' \subseteq Sessions /\ IsFiniteSet(held')
           /\ Cardinality(held') <= Capacity
<1>1. held' = held \ {s} /\ held' \subseteq Sessions
  BY DEF Return
<1>2. IsFiniteSet(held') /\ Cardinality(held') <= Cardinality(held)
  BY <1>1, FS_Subset
<1>3. Cardinality(held) \in Nat /\ Cardinality(held') \in Nat
  BY <1>2, FS_CardinalityType
<1> QED BY <1>1, <1>2, <1>3, ParametersOK

THEOREM Initial == Init => IInv
BY FS_EmptySet, ParametersOK
   DEF Init, IInv, TypeOK, HoldersKnown, KindsKnown, Stage, Indexing

(* What every step leaves to prove: the stage it goes to, the one session  *)
(* it is about, and the two parts of the invariant about holders.          *)
LEMMA KeepsTypes ==
  ASSUME TypeOK, pc' \in [Actors -> Stage],
         \/ \E s \in Sessions : Take(s) \/ Return(s)
         \/ UNCHANGED held
  PROVE  TypeOK'
BY TakeKeeps, ReturnKeeps DEF TypeOK

(* The handler of a request. *)
LEMMA RequestStepKeeps ==
  ASSUME IInv, NEW a \in Actors,
         VerifyToken(a) \/ SelectUser(a) \/ Answer(a) \/ Create(a)
           \/ Refresh(a) \/ Close(a)
  PROVE  IInv'
<1> USE DEF VerifyToken, SelectUser, Answer, Create, Refresh, Close
<1>1. pc' \in [Actors -> Stage]
  BY DEF IInv, TypeOK, Actors, Stage, Handling, Streaming, Indexing, Goto
<1>2. \/ \E s \in Sessions : Take(s) \/ Return(s)
      \/ UNCHANGED held
  BY SessionsTyped
<1>3. HoldersKnown'
  BY SessionsDiffer DEF IInv, TypeOK, HoldersKnown, KindsKnown, Actors,
     Handling, Streaming, Indexing, Goto, Take, Return
<1>4. KindsKnown'
  BY DEF IInv, TypeOK, KindsKnown, Actors, Handling, Streaming, Indexing, Goto
<1> QED BY <1>1, <1>2, <1>3, <1>4, KeepsTypes DEF IInv

(* The stream of a question. *)
LEMMA StreamStepKeeps ==
  ASSUME IInv, NEW a \in Actors,
         GetSession(a) \/ SetTitle(a) \/ LoadHistory(a) \/ Generate(a)
           \/ Save(a) \/ RefreshSaved(a) \/ CloseStream(a)
  PROVE  IInv'
<1> USE DEF GetSession, SetTitle, LoadHistory, Generate, Save, RefreshSaved,
       CloseStream
<1>1. pc' \in [Actors -> Stage]
  BY DEF IInv, TypeOK, Actors, Stage, Handling, Streaming, Indexing, Goto
<1>2. \/ \E s \in Sessions : Take(s) \/ Return(s)
      \/ UNCHANGED held
  BY SessionsTyped
<1>3. HoldersKnown'
  BY SessionsDiffer DEF IInv, TypeOK, HoldersKnown, KindsKnown, Actors,
     Handling, Streaming, Indexing, Goto, Take, Return
<1>4. KindsKnown'
  BY DEF IInv, TypeOK, KindsKnown, Actors, Handling, Streaming, Indexing, Goto
<1> QED BY <1>1, <1>2, <1>3, <1>4, KeepsTypes DEF IInv

(* The index task of an upload, and the garbage collector. *)
LEMMA TaskStepKeeps ==
  ASSUME IInv, NEW a \in Actors,
         SelectRow(a) \/ Mark(a) \/ Embed(a) \/ Flush(a) \/ CommitIndex(a)
           \/ Collect(a)
  PROVE  IInv'
<1> USE DEF SelectRow, Mark, Embed, Flush, CommitIndex, Collect
<1>1. pc' \in [Actors -> Stage]
  BY DEF IInv, TypeOK, Actors, Stage, Handling, Streaming, Indexing, Goto
<1>2. \/ \E s \in Sessions : Take(s) \/ Return(s)
      \/ UNCHANGED held
  BY SessionsTyped
<1>3. HoldersKnown'
  BY SessionsDiffer DEF IInv, TypeOK, HoldersKnown, KindsKnown, Actors,
     Handling, Streaming, Indexing, Goto, Take, Return
<1>4. KindsKnown'
  BY DEF IInv, TypeOK, KindsKnown, Actors, Handling, Streaming, Indexing, Goto
<1> QED BY <1>1, <1>2, <1>3, <1>4, KeepsTypes DEF IInv

(* An exception. *)
LEMMA FailStepKeeps ==
  ASSUME IInv, NEW a \in Actors,
         Fail(a)
  PROVE  IInv'
<1> USE DEF Fail
<1>1. pc' \in [Actors -> Stage]
  BY DEF IInv, TypeOK, Actors, Stage, Handling, Streaming, Indexing, Goto
<1>2. \/ \E s \in Sessions : Take(s) \/ Return(s)
      \/ UNCHANGED held
  BY SessionsTyped
<1>3. HoldersKnown'
  BY SessionsDiffer DEF IInv, TypeOK, HoldersKnown, KindsKnown, Actors,
     Handling, Streaming, Indexing, Goto, Take, Return
<1>4. KindsKnown'
  BY DEF IInv, TypeOK, KindsKnown, Actors, Handling, Streaming, Indexing, Goto
<1> QED BY <1>1, <1>2, <1>3, <1>4, KeepsTypes DEF IInv

(* The invariant is inductive. *)
THEOREM Inductive == IInv /\ [Next]_vars => IInv'
<1> SUFFICES ASSUME IInv, [Next]_vars PROVE IInv'
  OBVIOUS
<1>1. CASE UNCHANGED vars
  BY <1>1 DEF vars, IInv, TypeOK, HoldersKnown, KindsKnown
<1>2. CASE Next
  <2>1. PICK a \in Actors : VerifyToken(a) \/ Step(a) \/ Fail(a)
    BY <1>2 DEF Next
  <2> QED BY <2>1, RequestStepKeeps, StreamStepKeeps, TaskStepKeeps,
             FailStepKeeps DEF Step
<1> QED BY <1>1, <1>2

LEMMA Invariance == Spec => []IInv
<1>1. Init => IInv
  BY Initial
<1>2. IInv /\ [Next]_vars => IInv'
  BY Inductive
<1> QED BY <1>1, <1>2, PTL DEF Spec

(* Types, and no more connections than the pool has. *)
THEOREM TypeCorrect == Spec => []TypeOK
<1>1. IInv => TypeOK
  BY DEF IInv
<1> QED BY <1>1, Invariance, PTL

(* Whoever waits for a connection holds none, for pools and loads of every *)
(* size: waiting for the pool never closes a circle.                       *)
THEOREM NobodyHoldsAndWaits == Spec => []NoHoldAndWait
<1>1. IInv => NoHoldAndWait
  BY SessionsDiffer
     DEF IInv, HoldersKnown, NoHoldAndWait, Waits, Wants, Streaming
<1> QED BY <1>1, Invariance, PTL

(* Tokens are verified and documents embedded without a connection. *)
THEOREM SlowCallsAreFree == Spec => []SlowCallsHoldNothing
<1>1. IInv => SlowCallsHoldNothing
  BY DEF IInv, HoldersKnown, SlowCallsHoldNothing
<1> QED BY <1>1, Invariance, PTL

(* Only the index task of an upload leaves a connection behind. *)
THEOREM LeaksAreFromIndexTasks == Spec => []OnlyIndexTasksAbandon
<1>1. IInv => OnlyIndexTasksAbandon
  BY DEF IInv, HoldersKnown, OnlyIndexTasksAbandon, Handling, Streaming,
     Indexing
<1> QED BY <1>1, Invariance, PTL
=============================================================================
