-------------------------- MODULE ConversationProofs --------------------------
(***************************************************************************)
(* A client that waits for each stream to end talks to a Conversation: the *)
(* refinement of module Conversation by ChatStream, for any number of      *)
(* questions, any limit of the history and any failures.                   *)
(***************************************************************************)
EXTENDS ChatStreamProofs, FiniteSetTheorems

Patient == Client = "patient"

(* Only one stream runs at a time. *)
InTurn ==
  \A s, t \in Turns : s < t /\ pc[t] # "new" => pc[s] \in Ended

(* No row is stored after its session was deleted. *)
RowsNeedSession ==
  /\ IsFiniteSet(messages)
  /\ ~Alive => messages = {}

(* The open transaction of a stream began after all that is stored, and    *)
(* the one that saves was begun.                                           *)
BeganLast ==
  /\ \A t \in Turns : pc[t] \in Running /\ began[t] # 0 =>
       \A m \in messages : m.at < began[t]
  /\ \A t \in Turns :
       pc[t] \in {"retrieving", "answering", "finishing", "saveUser", "saveAnswer"}
         => began[t] # 0
  /\ \A t \in Turns : pc[t] = "new" => began[t] = 0

(* No two rows have the same created_at. *)
TimesAreDistinct == \A m, n \in messages : m.at = n.at => m = n

(* While an answer is to be stored its question is the last row. *)
QuestionIsLast ==
  \A t \in Turns : pc[t] \in {"refresh", "saveAnswer"} /\ Alive =>
    \E q \in messages :
      /\ q.turn = t /\ q.role = "user"
      /\ \A m \in messages \ {q} : m.turn # t /\ m.at < q.at

PatientInv ==
  /\ IInv
  /\ InTurn /\ RowsNeedSession /\ BeganLast /\ TimesAreDistinct /\ QuestionIsLast
-----------------------------------------------------------------------------
(* Listings: the elements of a finite set by ascending key, where no two   *)
(* elements have the same key.                                             *)

Below(S, k, m) == {n \in S : k[n] < k[m]}

Keyed(S, k) ==
  /\ IsFiniteSet(S)
  /\ \A m \in S : k[m] \in Int
  /\ \A m, n \in S : k[m] = k[n] => m = n

LEMMA BelowIsFinite ==
  ASSUME NEW S, NEW k, Keyed(S, k), NEW m
  PROVE  IsFiniteSet(Below(S, k, m)) /\ Cardinality(Below(S, k, m)) \in Nat
<1>1. Below(S, k, m) \in SUBSET S
  BY DEF Below
<1> QED BY <1>1, FS_Subset, FS_CardinalityType DEF Keyed

(* An element with a smaller key has fewer elements below it. *)
LEMMA RanksAscend ==
  ASSUME NEW S, NEW k, Keyed(S, k), NEW m \in S, NEW n \in S, k[m] < k[n]
  PROVE  Cardinality(Below(S, k, m)) < Cardinality(Below(S, k, n))
<1>1. \A x \in S : k[x] \in Int
  BY DEF Keyed
<1>2. Below(S, k, m) \in SUBSET Below(S, k, n)
  BY <1>1 DEF Below
<1>3. m \in Below(S, k, n) /\ m \notin Below(S, k, m)
  BY <1>1 DEF Below
<1>4. /\ Cardinality(Below(S, k, m)) <= Cardinality(Below(S, k, n))
      /\ Cardinality(Below(S, k, m)) # Cardinality(Below(S, k, n))
  BY <1>2, <1>3, BelowIsFinite, FS_Subset
<1> QED BY <1>4, BelowIsFinite

(* Every rank is the rank of one element. *)
LEMMA RanksAreAll ==
  ASSUME NEW S, NEW k, Keyed(S, k)
  PROVE  /\ Cardinality(S) \in Nat
         /\ \A m \in S : Cardinality(Below(S, k, m)) \in 0..(Cardinality(S) - 1)
         /\ \A r \in 0..(Cardinality(S) - 1) :
              \E m \in S : Cardinality(Below(S, k, m)) = r
<1> DEFINE c == Cardinality(S)
           rank == [m \in S |-> Cardinality(Below(S, k, m))]
<1>1. c \in Nat
  BY FS_CardinalityType DEF Keyed
<1>2. ASSUME NEW m \in S PROVE rank[m] \in 0..(c - 1)
  <2>1. Below(S, k, m) \in SUBSET S /\ m \notin Below(S, k, m)
    BY DEF Below, Keyed
  <2>2. Cardinality(Below(S, k, m)) <= c /\ Cardinality(Below(S, k, m)) # c
    BY <2>1, FS_Subset DEF Keyed
  <2> QED BY <1>1, <2>2, BelowIsFinite
<1>3. \A m, n \in S : rank[m] = rank[n] => m = n
  <2>1. SUFFICES ASSUME NEW m \in S, NEW n \in S, m # n
                 PROVE  rank[m] # rank[n]
    OBVIOUS
  <2>2. k[m] < k[n] \/ k[n] < k[m]
    BY <2>1 DEF Keyed
  <2> QED BY <2>2, RanksAscend, BelowIsFinite
<1>4. rank \in Injection(S, 0..(c - 1))
  BY <1>2, <1>3 DEF Injection, IsInjective
<1>5. IsFiniteSet(0..(c - 1)) /\ Cardinality(0..(c - 1)) = c
  <2>1. c - 1 \in Int
    BY <1>1
  <2> QED BY <1>1, <2>1, FS_Interval
<1>6. rank \in Surjection(S, 0..(c - 1))
  <2> HIDE DEF rank
  <2> QED BY <1>4, <1>5, FS_Injection
<1> QED BY <1>1, <1>2, <1>6 DEF Surjection

(* A listing names every element at its rank. *)
LEMMA ListingRanks ==
  ASSUME NEW S, NEW k, Keyed(S, k)
  PROVE  /\ Cardinality(S) \in Nat
         /\ InOrderOf(S, k) \in [1..Cardinality(S) -> S]
         /\ \A i \in 1..Cardinality(S) :
              Cardinality(Below(S, k, InOrderOf(S, k)[i])) = i - 1
<1>1. Cardinality(S) \in Nat
  BY RanksAreAll
<1>2. \A i \in 1..Cardinality(S) :
        \E m \in S : Cardinality(Below(S, k, m)) = i - 1
  BY <1>1, RanksAreAll
<1> QED BY <1>1, <1>2 DEF InOrderOf, Below

(* Ranks are told apart, so a listing is known from the ranks. *)
LEMMA SameRank ==
  ASSUME NEW S, NEW k, Keyed(S, k), NEW m \in S, NEW n \in S,
         Cardinality(Below(S, k, m)) = Cardinality(Below(S, k, n))
  PROVE  m = n
<1>1. ~(k[m] < k[n]) /\ ~(k[n] < k[m])
  BY RanksAscend, BelowIsFinite
<1> QED BY <1>1 DEF Keyed

(* A last element is listed last. *)
LEMMA ListingGrows ==
  ASSUME NEW S, NEW k, NEW x, Keyed(S, k), k[x] \in Int,
         \A m \in S : k[m] < k[x]
  PROVE  /\ Keyed(S \cup {x}, k)
         /\ Cardinality(S \cup {x}) = Cardinality(S) + 1
         /\ InOrderOf(S \cup {x}, k) =
              [i \in 1..(Cardinality(S) + 1) |->
                 IF i = Cardinality(S) + 1 THEN x ELSE InOrderOf(S, k)[i]]
<1> DEFINE T == S \cup {x}
           c == Cardinality(S)
<1>1. x \notin S
  OBVIOUS
<1>2. IsFiniteSet(T) /\ Cardinality(T) = c + 1
  BY <1>1, FS_AddElement DEF Keyed
<1>3. Keyed(T, k)
  BY <1>2 DEF Keyed
<1>4. \A m \in S : Below(T, k, m) = Below(S, k, m)
  BY DEF Below, Keyed
<1>5. Below(T, k, x) = S
  BY DEF Below
<1>6. c \in Nat
  BY ListingRanks
<1>7. ASSUME NEW i \in 1..(c + 1)
      PROVE  InOrderOf(T, k)[i] = IF i = c + 1 THEN x ELSE InOrderOf(S, k)[i]
  <2> DEFINE y == InOrderOf(T, k)[i]
             z == IF i = c + 1 THEN x ELSE InOrderOf(S, k)[i]
  <2>1. y \in T /\ Cardinality(Below(T, k, y)) = i - 1
    BY <1>2, <1>3, ListingRanks
  <2>2. z \in T /\ Cardinality(Below(T, k, z)) = i - 1
    <3>1. CASE i = c + 1
      BY <1>5, <1>6, <3>1
    <3>2. CASE i # c + 1
      <4>1. i \in 1..c
        BY <1>6, <3>2
      <4>2. z \in S /\ Cardinality(Below(S, k, z)) = i - 1
        BY <3>2, <4>1, ListingRanks
      <4>3. Cardinality(Below(T, k, z)) = i - 1
        BY <1>4, <4>2
      <4> QED BY <4>2, <4>3
    <3> QED BY <3>1, <3>2
  <2> HIDE DEF y, z, T
  <2>3. y = z
    BY <1>3, <2>1, <2>2, SameRank
  <2> QED BY <2>3 DEF y, z
<1>8. InOrderOf(T, k) = [i \in 1..(c + 1) |-> InOrderOf(T, k)[i]]
  BY <1>2, <1>3, ListingRanks
<1> HIDE DEF T
<1>9. InOrderOf(T, k) =
        [i \in 1..(c + 1) |-> IF i = c + 1 THEN x ELSE InOrderOf(S, k)[i]]
  BY <1>7, <1>8
<1> QED BY <1>2, <1>3, <1>9 DEF T

(* An ascending sequence of the greatest elements is the end of the        *)
(* listing.                                                                *)
LEMMA EndOfListing ==
  ASSUME NEW S, NEW k, Keyed(S, k), NEW n \in Nat, NEW h \in [1..n -> S],
         \A i, j \in 1..n : i < j => k[h[i]] < k[h[j]],
         \A m \in S \ Range(h) : \A i \in 1..n : k[m] < k[h[i]]
  PROVE  /\ n <= Cardinality(S)
         /\ n = Cardinality(S) => Range(h) = S
         /\ Range(h) = S => n = Cardinality(S)
         /\ \A i \in 1..n : h[i] = InOrderOf(S, k)[Cardinality(S) - n + i]
<1> DEFINE c == Cardinality(S)
           rest == S \ Range(h)
<1>1. c \in Nat
  BY ListingRanks
<1>2. \A i, j \in 1..n : h[i] = h[j] => i = j
  <2>1. SUFFICES ASSUME NEW i \in 1..n, NEW j \in 1..n, i < j, h[i] = h[j]
                 PROVE  FALSE
    OBVIOUS
  <2>2. k[h[i]] < k[h[j]] /\ k[h[i]] \in Int
    BY <2>1 DEF Keyed
  <2> QED BY <2>1, <2>2
<1>3. ASSUME NEW i \in 0..n
      PROVE  /\ IsFiniteSet({h[j] : j \in 1..i})
             /\ Cardinality({h[j] : j \in 1..i}) = i
  <2> DEFINE H == {h[j] : j \in 1..i}
             f == [j \in 1..i |-> h[j]]
  <2>1. 1..i \subseteq 1..n
    BY <1>1
  <2>2. f \in Bijection(1..i, H)
    BY <1>2, <2>1 DEF Bijection, Injection, Surjection, IsInjective
  <2>3. ExistsBijection(1..i, H)
    BY <2>2 DEF ExistsBijection
  <2>4. IsFiniteSet(1..i) /\ Cardinality(1..i) = i
    BY FS_Interval
  <2> HIDE DEF H
  <2> QED BY <2>3, <2>4, FS_Bijection DEF H
<1>4. Range(h) = {h[j] : j \in 1..n} /\ Range(h) \in SUBSET S
  BY DEF Range
<1>5. IsFiniteSet(S) /\ Cardinality(Range(h)) = n
  <2>1. n \in 0..n
    OBVIOUS
  <2> QED BY <1>3, <1>4, <2>1 DEF Keyed
<1>6. n <= c /\ (n = c => Range(h) = S) /\ (Range(h) = S => n = c)
  <2> HIDE DEF c
  <2> QED BY <1>4, <1>5, FS_Subset DEF c
<1>7. /\ IsFiniteSet(rest) /\ Cardinality(rest) = c - n
  <2>1. S \cap Range(h) = Range(h)
    BY <1>4
  <2> QED BY <1>5, <2>1, FS_Difference
<1>8. ASSUME NEW i \in 1..n
      PROVE  h[i] = InOrderOf(S, k)[c - n + i]
  <2> DEFINE H == {h[j] : j \in 1..(i - 1)}
  <2>1. Below(S, k, h[i]) = rest \cup H
    <3>1. rest \subseteq Below(S, k, h[i])
      BY DEF Below
    <3>2. H \subseteq Below(S, k, h[i])
      BY DEF Below
    <3>3. ASSUME NEW m \in Below(S, k, h[i]), m \notin rest
          PROVE  m \in H
      <4>1. PICK j \in 1..n : m = h[j]
        BY <1>4, <3>3 DEF Below
      <4>2. ~(i < j) /\ i # j
        <5>1. k[h[j]] < k[h[i]] /\ k[h[j]] \in Int /\ k[h[i]] \in Int
          BY <4>1 DEF Below, Keyed
        <5> QED BY <5>1
      <4>3. j \in 1..(i - 1)
        BY <4>2
      <4> QED BY <4>1, <4>3
    <3> QED BY <3>1, <3>2, <3>3
  <2>2. rest \cap H = {}
    BY <1>4
  <2>3. IsFiniteSet(H) /\ Cardinality(H) = i - 1
    <3>1. i - 1 \in 0..n
      OBVIOUS
    <3> QED BY <1>3, <3>1
  <2>4. Cardinality(Below(S, k, h[i])) = (c - n) + (i - 1)
    <3> HIDE DEF H, rest
    <3>1. Cardinality(rest \cup H) =
            Cardinality(rest) + Cardinality(H) - Cardinality({})
      BY <1>7, <2>2, <2>3, FS_Union
    <3> QED BY <1>1, <1>7, <2>1, <2>3, <3>1, FS_EmptySet
  <2>5. c - n + i \in 1..c
    BY <1>1, <1>6
  <2>6. /\ InOrderOf(S, k)[c - n + i] \in S
        /\ Cardinality(Below(S, k, InOrderOf(S, k)[c - n + i])) = c - n + i - 1
    BY <2>5, ListingRanks
  <2>7. (c - n) + (i - 1) = c - n + i - 1
    BY <1>1
  <2> QED BY <2>4, <2>6, <2>7, SameRank
<1> QED BY <1>6, <1>8

-----------------------------------------------------------------------------
(* The invariant of a patient client. *)

(* Who takes a step has started and is not through. *)
LEMMA StepsAreOfRunning ==
  ASSUME NEW t \in Turns, Step(t) \/ Fail(t) \/ Cut(t)
  PROVE  pc[t] \in Running
BY DEF Running, Preparing, Answering, Step, Fail, Cut, Open, SetTitle, LoadHistory,
   Retrieve, Token, SendSources, SendDone, SaveUser, RefreshUser, SaveAnswer,
   Confirm

(* Nobody else runs then. *)
LEMMA OthersRest ==
  ASSUME TypeOK, InTurn, NEW t \in Turns, pc[t] \in Running, NEW s \in Turns,
         s # t
  PROVE  pc[s] \in Ended \cup {"new"} /\ (s < t => pc[s] \in Ended)
<1>1. s < t \/ t < s
  BY ParametersOK DEF Turns
<1>2. pc[t] # "new" /\ pc[t] \notin Ended
  BY DEF Running, Preparing, Answering, Ended
<1> QED BY <1>1, <1>2 DEF InTurn

LEMMA InTurnKept ==
  ASSUME Patient, TypeOK, InTurn, NEW t \in Turns,
         Send(t) \/ Step(t) \/ Fail(t) \/ Cut(t)
  PROVE  InTurn'
<1>1. PICK next : pc' = [pc EXCEPT ![t] = next]
  BY Moves
<1>2. SUFFICES ASSUME NEW s \in Turns, NEW u \in Turns, s < u, pc'[u] # "new"
               PROVE  pc'[s] \in Ended
  BY DEF InTurn
<1>3. s # u
  BY <1>2, ParametersOK DEF Turns
<1>4. CASE Send(t)
  <2>1. pc[t] = "new" /\ \A r \in 1..(t - 1) : pc[r] \in Ended
    BY <1>4 DEF Send, MaySend, Patient
  <2>2. u = t => s \in 1..(t - 1)
    BY <1>2, ParametersOK DEF Turns
  <2>3. s # t
    BY <1>1, <1>2, <1>3, <2>1 DEF InTurn, TypeOK, Ended
  <2> QED BY <1>1, <1>2, <2>1, <2>2, <2>3 DEF InTurn, TypeOK
<1>5. CASE Step(t) \/ Fail(t) \/ Cut(t)
  <2>1. pc[t] \in Running /\ pc[t] # "new" /\ pc[t] \notin Ended
    BY <1>5, StepsAreOfRunning DEF Running, Preparing, Answering, Ended
  <2>2. pc[u] # "new"
    BY <1>1, <1>2, <2>1 DEF TypeOK
  <2>3. pc[s] \in Ended
    BY <1>2, <2>2 DEF InTurn
  <2> QED BY <1>1, <2>1, <2>3 DEF TypeOK
<1> QED BY <1>4, <1>5

LEMMA RowsKept ==
  ASSUME RowsNeedSession, NEW t \in Turns,
         Send(t) \/ Step(t) \/ Fail(t) \/ Cut(t)
  PROVE  RowsNeedSession'
<1>1. UNCHANGED session
  BY DEF Send, Step, Fail, Cut, Open, SetTitle, LoadHistory, Retrieve, Token,
     SendSources, SendDone, SaveUser, RefreshUser, SaveAnswer, Confirm, Insert
<1>2. \/ UNCHANGED messages
      \/ Alive /\ \E row : messages' = messages \cup {row}
  BY MessagesGrow
<1> QED BY <1>1, <1>2, FS_AddElement DEF RowsNeedSession, Alive

(* A row is stored in a transaction that began after all others. *)
LEMMA RowsAreLast ==
  ASSUME TypeOK, TimesKnown, BeganLast, NEW t \in Turns,
         pc[t] \in {"saveUser", "saveAnswer"}
  PROVE  began[t] \in Nat /\ \A m \in messages : m.at < began[t]
BY DEF TypeOK, TimesKnown, BeganLast, Running, Answering

LEMMA BeganKept ==
  ASSUME TypeOK, TimesKnown, InTurn, BeganLast, NEW t \in Turns,
         Send(t) \/ Step(t) \/ Fail(t) \/ Cut(t)
  PROVE  BeganLast'
<1>1. PICK next : pc' = [pc EXCEPT ![t] = next]
  BY Moves
<1>2. PICK b : began' = [began EXCEPT ![t] = b]
  <2>1. UNCHANGED began => began' = [began EXCEPT ![t] = began[t]]
    BY DEF TypeOK
  <2> QED BY <2>1, ClockMoves
<1>3. /\ pc'[t] = next /\ began'[t] = b
      /\ \A s \in Turns \ {t} : pc'[s] = pc[s] /\ began'[s] = began[s]
  BY <1>1, <1>2 DEF TypeOK
<1>4. clock # 0
  BY DEF TypeOK
<1>5. next \in {"retrieving", "answering", "finishing", "saveUser", "saveAnswer"}
        => b # 0
  <2> USE DEF TypeOK, BeganLast, Begin, Goto, Emit, Raise
  <2>1. CASE Send(t) \/ Open(t) \/ SetTitle(t) \/ LoadHistory(t)
    BY <1>3, <1>4, <2>1 DEF Send, Open, SetTitle, LoadHistory
  <2>2. CASE Retrieve(t) \/ Token(t) \/ SendSources(t) \/ SendDone(t)
    BY <1>3, <2>2 DEF Retrieve, Token, SendSources, SendDone
  <2>3. CASE SaveUser(t) \/ RefreshUser(t) \/ SaveAnswer(t) \/ Confirm(t)
    BY <1>3, <1>4, <2>3 DEF SaveUser, RefreshUser, SaveAnswer, Confirm, Insert
  <2>4. CASE Fail(t) \/ Cut(t)
    BY <1>3, <2>4 DEF Fail, Cut
  <2> QED BY <2>1, <2>2, <2>3, <2>4 DEF Step
<1>6. next # "new"
  BY <1>3 DEF TypeOK, Begin, Goto, Emit, Raise, Send, Step, Fail, Cut, Open,
     SetTitle, LoadHistory, Retrieve, Token, SendSources, SendDone, SaveUser,
     RefreshUser, SaveAnswer, Confirm, Insert
<1>7. b # 0 /\ next \in Running => \A m \in messages' : m.at < b
  <2>1. CASE UNCHANGED began /\ UNCHANGED messages
    <3>1. b = began[t]
      BY <1>3, <2>1
    <3>2. pc[t] \in Running \/ pc[t] = "new"
      BY StepsAreOfRunning DEF Send
    <3> QED BY <2>1, <3>1, <3>2 DEF BeganLast
  <2>2. CASE b = clock /\ UNCHANGED messages
    BY <2>2 DEF TimesKnown
  <2>3. CASE SaveUser(t) \/ SaveAnswer(t)
    BY <1>3, <2>3 DEF SaveUser, SaveAnswer, Insert, TypeOK
  <2>4. b = 0 \/ b = clock \/ UNCHANGED began
    BY <1>3, ClockMoves DEF TypeOK
  <2> QED BY <2>1, <2>2, <2>3, <2>4, MessagesGrow
<1>8. ASSUME NEW s \in Turns, s # t, pc[s] \in Running
      PROVE  UNCHANGED messages
  <2>1. pc[t] \notin Running
    BY <1>8, OthersRest DEF Running, Preparing, Answering, Ended
  <2>2. Send(t)
    BY <2>1, StepsAreOfRunning
  <2> QED BY <2>2 DEF Send
<1>9. \A s \in Turns \ {t} : pc[s] \in Running /\ began[s] # 0 =>
        \A m \in messages' : m.at < began[s]
  BY <1>8 DEF BeganLast
<1> QED BY <1>3, <1>5, <1>6, <1>7, <1>9 DEF BeganLast

LEMMA OrderKept ==
  ASSUME TypeOK, TimesKnown, BeganLast, TimesAreDistinct, NEW t \in Turns,
         Send(t) \/ Step(t) \/ Fail(t) \/ Cut(t)
  PROVE  TimesAreDistinct'
<1>1. CASE UNCHANGED messages
  BY <1>1 DEF TimesAreDistinct
<1>2. ASSUME NEW role, pc[t] \in {"saveUser", "saveAnswer"},
             messages' = messages \cup {Row(t, role)}
      PROVE  TimesAreDistinct'
  <2>1. began[t] \in Nat /\ \A m \in messages : m.at < began[t]
    BY <1>2, RowsAreLast
  <2>2. \A m \in messages : m.at \in Nat
    BY DEF TypeOK, Message
  <2>3. Row(t, role).at = began[t]
    BY DEF Row
  <2> QED BY <1>2, <2>1, <2>2, <2>3 DEF TimesAreDistinct
<1> QED BY <1>1, <1>2, MessagesGrow DEF SaveUser, SaveAnswer

LEMMA QuestionKept ==
  ASSUME TypeOK, TimesKnown, SavesKnown, InTurn, BeganLast, QuestionIsLast,
         NEW t \in Turns, Send(t) \/ Step(t) \/ Fail(t) \/ Cut(t)
  PROVE  QuestionIsLast'
<1>1. PICK next : pc' = [pc EXCEPT ![t] = next]
  BY Moves
<1>2. UNCHANGED session
  BY DEF Send, Step, Fail, Cut, Open, SetTitle, LoadHistory, Retrieve, Token,
     SendSources, SendDone, SaveUser, RefreshUser, SaveAnswer, Confirm, Insert
<1>3. SUFFICES ASSUME NEW s \in Turns, pc'[s] \in {"refresh", "saveAnswer"}, Alive
               PROVE  \E q \in messages' :
                        /\ q.turn = s /\ q.role = "user"
                        /\ \A m \in messages' \ {q} : m.turn # s /\ m.at < q.at
  BY <1>2 DEF QuestionIsLast, Alive
<1>4. CASE pc[s] \in {"refresh", "saveAnswer"} /\ UNCHANGED messages
  BY <1>3, <1>4 DEF QuestionIsLast
<1>5. CASE SaveUser(t) /\ messages' = messages \cup {Row(t, "user")}
  <2>1. s = t
    <3>1. pc[t] = "saveUser" /\ pc[t] \in Running
      BY <1>5 DEF SaveUser, Running, Answering
    <3>2. s # t => pc[s] \in {"refresh", "saveAnswer"}
      BY <1>1, <1>3 DEF TypeOK
    <3> QED BY <3>1, <3>2, OthersRest DEF Ended
  <2>2. \A m \in messages : m.turn # t
    BY <1>5 DEF SaveUser, SavesKnown, Saving
  <2>3. \A m \in messages : m.at < began[t]
    BY <1>5, RowsAreLast DEF SaveUser
  <2>4. /\ Row(t, "user").turn = t /\ Row(t, "user").role = "user"
        /\ Row(t, "user").at = began[t]
    BY DEF Row
  <2> QED BY <1>5, <2>1, <2>2, <2>3, <2>4
<1>6. CASE SaveAnswer(t) /\ Goto(t, "confirm")
  <2>1. pc'[t] = "confirm" /\ pc[t] \in Running
    BY <1>6 DEF SaveAnswer, Goto, TypeOK, Running, Answering
  <2>2. s # t /\ pc[s] \in {"refresh", "saveAnswer"}
    BY <1>1, <1>3, <2>1 DEF TypeOK
  <2> QED BY <2>1, <2>2, OthersRest DEF Ended
<1>7. CASE pc[s] \notin {"refresh", "saveAnswer"} /\ ~SaveUser(t)
  <2>1. s = t
    BY <1>1, <1>3, <1>7 DEF TypeOK
  <2>2. RefreshUser(t)
    <3> USE <1>3, <1>7, <2>1 DEF TypeOK, Goto, Raise
    <3>1. ~(Send(t) \/ Open(t) \/ SetTitle(t) \/ LoadHistory(t) \/ Retrieve(t))
      BY DEF Send, Open, SetTitle, LoadHistory, Retrieve
    <3>2. ~(Token(t) \/ SendSources(t) \/ SendDone(t) \/ Fail(t) \/ Cut(t))
      BY DEF Token, SendSources, SendDone, Fail, Cut
    <3>3. ~(SaveAnswer(t) \/ Confirm(t))
      BY DEF SaveAnswer, Confirm, Insert
    <3> QED BY <3>1, <3>2, <3>3 DEF Step
  <2> QED BY <1>7, <2>1, <2>2 DEF RefreshUser
<1>8. SaveUser(t) => messages' = messages \cup {Row(t, "user")}
  BY <1>3 DEF SaveUser, Insert, Row
<1> QED BY <1>4, <1>5, <1>6, <1>7, <1>8, MessagesGrow

(* Deletion takes all rows; creation finds none. *)
LEMMA SessionKeepsPatient ==
  ASSUME PatientInv, CreateSession \/ DeleteSession
  PROVE  PatientInv'
<1> USE DEF PatientInv, CreateSession, DeleteSession
<1>1. messages' = messages \/ messages' = {}
  OBVIOUS
<1>2. InTurn' /\ TimesAreDistinct'
  BY <1>1 DEF InTurn, TimesAreDistinct
<1>3. RowsNeedSession'
  BY FS_EmptySet DEF RowsNeedSession, Alive
<1>4. BeganLast'
  BY <1>1 DEF BeganLast
<1>5. QuestionIsLast'
  BY DEF IInv, QuestionIsLast, Alive, SavesKnown
<1> QED BY <1>2, <1>3, <1>4, <1>5, SessionKeeps

LEMMA PatientInitial == Init => PatientInv
<1> SUFFICES ASSUME Init PROVE PatientInv
  OBVIOUS
<1>1. IsFiniteSet(messages)
  BY FS_EmptySet DEF Init
<1>2. InTurn /\ RowsNeedSession /\ BeganLast /\ TimesAreDistinct /\ QuestionIsLast
  BY <1>1 DEF Init, InTurn, RowsNeedSession, BeganLast, TimesAreDistinct,
     QuestionIsLast, Running, Preparing, Answering
<1> QED BY <1>2, Initial DEF PatientInv

LEMMA PatientInductive ==
  ASSUME Patient
  PROVE  PatientInv /\ [Next]_vars => PatientInv'
<1> SUFFICES ASSUME PatientInv, [Next]_vars PROVE PatientInv'
  OBVIOUS
<1>1. IInv /\ IInv'
  BY Inductive DEF PatientInv
<1>2. ASSUME NEW t \in Turns, Send(t) \/ Step(t) \/ Fail(t) \/ Cut(t)
      PROVE  PatientInv'
  <2>1. TypeOK /\ TimesKnown /\ SavesKnown
    BY <1>1 DEF IInv
  <2>2. InTurn' /\ RowsNeedSession'
    BY <1>2, <2>1, InTurnKept, RowsKept DEF PatientInv
  <2>3. BeganLast' /\ TimesAreDistinct'
    BY <1>2, <2>1, BeganKept, OrderKept DEF PatientInv
  <2>4. QuestionIsLast'
    BY <1>2, <2>1, QuestionKept DEF PatientInv
  <2> QED BY <1>1, <2>2, <2>3, <2>4 DEF PatientInv
<1>3. CASE UNCHANGED vars
  <2> USE <1>3 DEF vars
  <2>1. InTurn' /\ RowsNeedSession' /\ BeganLast'
    BY DEF PatientInv, InTurn, RowsNeedSession, Alive, BeganLast
  <2>2. TimesAreDistinct' /\ QuestionIsLast'
    BY DEF PatientInv, TimesAreDistinct, QuestionIsLast, Alive
  <2> QED BY <1>1, <2>1, <2>2 DEF PatientInv
<1> QED BY <1>2, <1>3, SessionKeepsPatient DEF Next

LEMMA PatientInvariance == Patient => (Spec => []PatientInv)
<1> SUFFICES ASSUME Patient PROVE Spec => []PatientInv
  OBVIOUS
<1>1. Init => PatientInv
  BY PatientInitial
<1>2. PatientInv /\ [Next]_vars => PatientInv'
  BY PatientInductive
<1> QED BY <1>1, <1>2, PTL DEF Spec

-----------------------------------------------------------------------------
(* The rows as they are listed. *)
LEMMA RowsAreKeyed ==
  ASSUME PatientInv, NEW S \in SUBSET messages
  PROVE  S \in SUBSET Message /\ Keyed(S, CreatedAt)
<1>1. S \in SUBSET Message
  BY DEF PatientInv, IInv, TypeOK
<1>2. \A m \in S : CreatedAt[m] = m.at /\ m.at \in Int
  BY <1>1 DEF CreatedAt, Message
<1>3. IsFiniteSet(S)
  BY FS_Subset DEF PatientInv, RowsNeedSession
<1>4. \A m, n \in S : m.at = n.at => m = n
  BY DEF PatientInv, TimesAreDistinct
<1> QED BY <1>1, <1>2, <1>3, <1>4 DEF Keyed

(* The state of the conversation. *)

Statuses == [t \in Turns |-> Status(t)]
Over == {m \in messages : Status(m.turn) = "over"}
Transcript == Told(InOrderOf(Over, CreatedAt))
Shown == [t \in Turns |-> Told(history[t])]
talk == <<session, Statuses, Transcript, Shown>>

LEMMA TwoMore ==
  ASSUME NEW T, NEW s \in Seq(T), NEW x \in T, NEW y \in T
  PROVE  Append(Append(s, x), y) = s \o <<x, y>>
OBVIOUS

(* One row more makes the transcript longer by what it says. *)
LEMMA TranscriptGrows ==
  ASSUME NEW S \in SUBSET Message, Keyed(S, CreatedAt), NEW x \in Message,
         \A m \in S : m.at < x.at
  PROVE  /\ Keyed(S \cup {x}, CreatedAt)
         /\ Told(InOrderOf(S, CreatedAt)) \in Seq(Turns \X {"user", "assistant"})
         /\ Told(InOrderOf(S \cup {x}, CreatedAt)) =
              Append(Told(InOrderOf(S, CreatedAt)), <<x.turn, x.role>>)
<1> DEFINE L == InOrderOf(S, CreatedAt)
           M == InOrderOf(S \cup {x}, CreatedAt)
           c == Cardinality(S)
           T == Turns \X {"user", "assistant"}
<1>1. c \in Nat /\ L \in [1..c -> S]
  BY ListingRanks
<1>2. CreatedAt[x] \in Int /\ \A m \in S : CreatedAt[m] < CreatedAt[x]
  BY DEF CreatedAt, Message
<1>3. /\ Keyed(S \cup {x}, CreatedAt)
      /\ M = [i \in 1..(c + 1) |-> IF i = c + 1 THEN x ELSE L[i]]
  <2> HIDE DEF L
  <2> QED BY <1>2, ListingGrows DEF L
<1> HIDE DEF L, M, c
<1>4. \A m \in S \cup {x} : <<m.turn, m.role>> \in T
  BY DEF Message
<1>5. Told(L) = [i \in 1..c |-> <<L[i].turn, L[i].role>>] /\ Told(L) \in [1..c -> T]
  BY <1>1, <1>4 DEF Told
<1>6. Told(M) = [i \in 1..(c + 1) |-> IF i = c + 1 THEN <<x.turn, x.role>> ELSE Told(L)[i]]
  <2>1. Told(M) = [i \in 1..(c + 1) |-> <<M[i].turn, M[i].role>>]
    BY <1>3 DEF Told
  <2>2. ASSUME NEW i \in 1..(c + 1)
        PROVE  <<M[i].turn, M[i].role>> =
                 IF i = c + 1 THEN <<x.turn, x.role>> ELSE Told(L)[i]
    <3>1. CASE i = c + 1
      BY <1>3, <3>1
    <3>2. CASE i # c + 1
      <4>1. i \in 1..c
        BY <1>1, <3>2
      <4> QED BY <1>3, <1>5, <3>2, <4>1
    <3> QED BY <3>1, <3>2
  <2> QED BY <2>1, <2>2
<1> HIDE DEF T
<1>7. Told(L) \in Seq(T) /\ Len(Told(L)) = c
  BY <1>1, <1>5
<1>8. /\ Append(Told(L), <<x.turn, x.role>>) =
           [i \in 1..(c + 1) |-> IF i = c + 1 THEN <<x.turn, x.role>> ELSE Told(L)[i]]
  BY <1>1, <1>7
<1> QED BY <1>3, <1>6, <1>7, <1>8 DEF L, M, T

(* What a question is shown is the end of the transcript.                  *)
LEMMA HistoryIsNewest ==
  ASSUME NEW S \in SUBSET Message, Keyed(S, CreatedAt), NEW h \in Recent(S)
  PROVE  Told(h) = Talk!Newest(Told(InOrderOf(S, CreatedAt)))
<1> DEFINE L == InOrderOf(S, CreatedAt)
           c == Cardinality(S)
           n == Len(h)
           T == Turns \X {"user", "assistant"}
<1>1. /\ n \in Nat /\ n <= Limit /\ h \in [1..n -> S] /\ DOMAIN h = 1..n
      /\ Range(h) # S => n = Limit
      /\ \A i, j \in 1..n : i < j => h[i].at < h[j].at
      /\ \A m \in S \ Range(h) : \A i \in 1..n : m.at < h[i].at
  <2>1. PICK k \in 0..Limit : h \in [1..k -> S]
    BY DEF Recent, Limited
  <2>2. n = k /\ DOMAIN h = 1..k
    BY <2>1, ParametersOK
  <2> QED BY <2>1, <2>2, ParametersOK DEF Recent, Limited, Ascending
<1>2. \A m \in S : CreatedAt[m] = m.at
  BY DEF CreatedAt
<1>3. /\ n <= c
      /\ n = c => Range(h) = S
      /\ Range(h) = S => n = c
      /\ \A i \in 1..n : h[i] = L[c - n + i]
  <2> HIDE DEF L, c, n
  <2>1. \A i, j \in 1..n : i < j => CreatedAt[h[i]] < CreatedAt[h[j]]
    BY <1>1, <1>2
  <2>2. \A m \in S \ Range(h) : \A i \in 1..n : CreatedAt[m] < CreatedAt[h[i]]
    BY <1>1, <1>2
  <2>3. n \in Nat /\ h \in [1..n -> S]
    BY <1>1
  <2> QED BY <2>1, <2>2, <2>3, EndOfListing DEF L, c
<1>4. c \in Nat /\ L \in [1..c -> S]
  BY ListingRanks
<1> HIDE DEF L, c, n
<1>5. /\ Told(L) = [i \in 1..c |-> <<L[i].turn, L[i].role>>]
      /\ Told(L) \in [1..c -> T]
      /\ Told(h) = [i \in 1..n |-> <<h[i].turn, h[i].role>>]
      /\ Told(h) \in [1..n -> T]
  BY <1>1, <1>4 DEF Told, Message
<1> HIDE DEF T
<1>6. Told(L) \in Seq(T) /\ Len(Told(L)) = c
  BY <1>4, <1>5
<1>7. \A i \in 1..n : c - n + i \in 1..c /\ Told(h)[i] = Told(L)[c - n + i]
  BY <1>1, <1>3, <1>4, <1>5
<1>8. (IF c > Limit THEN c - Limit + 1 ELSE 1) = c - n + 1
  <2>1. n = c \/ (n # c /\ n = Limit)
    BY <1>1, <1>3
  <2> QED BY <1>1, <1>3, <1>4, <2>1, ParametersOK
<1>9. SubSeq(Told(L), c - n + 1, c) = [i \in 1..n |-> Told(L)[c - n + i]]
  BY <1>1, <1>3, <1>4, <1>6
<1>10. Told(h) = SubSeq(Told(L), c - n + 1, c)
  BY <1>5, <1>7, <1>9
<1> QED BY <1>6, <1>8, <1>10 DEF Talk!Newest, L

(* A row belongs to the transcript unless it is the question of a turn     *)
(* that is still being saved.                                              *)
LEMMA RowsAreOver ==
  ASSUME PatientInv
  PROVE  /\ Over = {m \in messages : pc[m.turn] \notin {"refresh", "saveAnswer"}}
         /\ Over \in SUBSET messages
BY DEF PatientInv, IInv, SavesKnown, Saving, Over, Status, Ended

LEMMA AllAreOver ==
  ASSUME PatientInv, NEW t \in Turns, pc[t] \in Running,
         pc[t] \notin {"refresh", "saveAnswer"}
  PROVE  Over = messages
<1>1. \A s \in Turns : pc[s] \notin {"refresh", "saveAnswer"}
  BY OthersRest DEF PatientInv, IInv, Ended
<1>2. \A m \in messages : m.turn \in Turns
  BY DEF PatientInv, IInv, TypeOK, Message
<1> QED BY <1>1, <1>2, RowsAreOver

LEMMA AllButQuestionAreOver ==
  ASSUME PatientInv, NEW t \in Turns, pc[t] \in {"refresh", "saveAnswer"}, Alive
  PROVE  \E q \in messages :
           /\ q.turn = t /\ q.role = "user"
           /\ Over = messages \ {q}
           /\ \A m \in Over : m.at < q.at
<1>1. PICK q \in messages :
        /\ q.turn = t /\ q.role = "user"
        /\ \A m \in messages \ {q} : m.turn # t /\ m.at < q.at
  BY DEF PatientInv, QuestionIsLast
<1>2. \A s \in Turns \ {t} : pc[s] \notin {"refresh", "saveAnswer"}
  BY OthersRest DEF PatientInv, IInv, Ended, Running, Answering
<1>3. \A m \in messages : m.turn \in Turns
  BY DEF PatientInv, IInv, TypeOK, Message
<1>4. Over = messages \ {q}
  BY <1>1, <1>2, <1>3, RowsAreOver
<1> QED BY <1>1, <1>4

(* What a step of a stream means to the conversation. *)
Talking(t) ==
  Talk!Ask(t) \/ Talk!Answer(t) \/ Talk!Refuse(t) \/ UNCHANGED talk

LEMMA StatusMoves ==
  ASSUME TypeOK, NEW t \in Turns, NEW next, pc' = [pc EXCEPT ![t] = next]
  PROVE  /\ pc'[t] = next
         /\ Statuses' = [Statuses EXCEPT ![t] = Status(t)']
         /\ \A s \in Turns \ {t} : Status(s)' = Status(s)
<1>1. pc'[t] = next /\ \A s \in Turns \ {t} : pc'[s] = pc[s]
  BY DEF TypeOK
<1>2. \A s \in Turns \ {t} : Status(s)' = Status(s)
  BY <1>1 DEF Status
<1> QED BY <1>1, <1>2 DEF Statuses

(* The rows of other turns are over or not as before. *)
LEMMA OverMoves ==
  ASSUME TypeOK, NEW t \in Turns, NEW next, pc' = [pc EXCEPT ![t] = next],
         messages' \subseteq Message
  PROVE  Over' = {m \in messages' :
                    IF m.turn = t THEN Status(t)' = "over" ELSE Status(m.turn) = "over"}
<1>1. \A m \in messages' : m.turn \in Turns
  BY DEF Message
<1>2. \A m \in messages' :
        (Status(m.turn) = "over")' <=>
          IF m.turn = t THEN Status(t)' = "over" ELSE Status(m.turn) = "over"
  BY <1>1, StatusMoves
<1> QED BY <1>2 DEF Over

LEMMA TurnsBeforeAreOver ==
  ASSUME PatientInv, NEW t \in Turns, pc[t] \in Running
  PROVE  \A s \in Turns : s < t => Statuses[s] = "over"
<1>1. TypeOK /\ InTurn
  BY DEF PatientInv, IInv
<1>2. \A s \in Turns : s < t => s # t
  BY ParametersOK DEF Turns
<1> QED BY <1>1, <1>2, OthersRest DEF Statuses, Status, Ended

(* The history is loaded: the question is asked. *)
LEMMA LoadHistoryAsks ==
  ASSUME PatientInv, NEW t \in Turns, LoadHistory(t)
  PROVE  Talk!Ask(t)
<1>1. PICK h \in Recent(messages) : history' = [history EXCEPT ![t] = h]
  BY DEF LoadHistory
<1>2. pc[t] = "loading" /\ pc[t] \in Running /\ TypeOK /\ SavesKnown
  BY DEF LoadHistory, Running, Preparing, PatientInv, IInv
<1>3. pc' = [pc EXCEPT ![t] = "retrieving"] /\ UNCHANGED <<session, messages>>
  BY DEF LoadHistory, Goto
<1>4. Status(t) = "new" /\ Status(t)' = "asked"
  <2>1. pc'[t] = "retrieving"
    BY <1>2, <1>3, StatusMoves
  <2> QED BY <1>2, <2>1 DEF Status, Ended
<1>5. Over = messages
  BY <1>2, AllAreOver
<1>6. Over' = messages
  <2>1. \A m \in messages : m.turn # t
    BY <1>2 DEF SavesKnown, Saving
  <2>2. \A m \in messages : Status(m.turn) = "over"
    BY <1>5 DEF Over
  <2>3. messages' \subseteq Message
    BY <1>2, <1>3 DEF TypeOK
  <2> QED BY <1>2, <1>3, <2>1, <2>2, <2>3, OverMoves
<1>7. Told(h) = Talk!Newest(Transcript)
  <2>1. messages \in SUBSET Message /\ Keyed(messages, CreatedAt)
    BY RowsAreKeyed
  <2> QED BY <1>1, <1>5, <2>1, HistoryIsNewest DEF Transcript
<1>8. Shown' = [Shown EXCEPT ![t] = Talk!Newest(Transcript)]
  BY <1>1, <1>2, <1>7 DEF TypeOK, Shown
<1>9. Statuses' = [Statuses EXCEPT ![t] = "asked"]
  BY <1>2, <1>3, <1>4, StatusMoves
<1>10. Statuses[t] = "new" /\ session # "new"
  BY <1>2, <1>4 DEF Statuses, SavesKnown
<1>11. Transcript' = Transcript
  BY <1>5, <1>6 DEF Transcript
<1>12. \A s \in Turns : s < t => Statuses[s] = "over"
  BY <1>2, TurnsBeforeAreOver
<1> QED
  BY <1>3, <1>8, <1>9, <1>10, <1>11, <1>12
  DEF Talk!Ask, Statuses, Transcript, Over, Shown

(* The answer is stored: the transcript grows by the whole turn. *)
LEMMA SaveAnswerAnswers ==
  ASSUME PatientInv, NEW t \in Turns, SaveAnswer(t), Alive
  PROVE  Talk!Answer(t)
<1> DEFINE a == Row(t, "assistant")
<1>1. pc[t] = "saveAnswer" /\ TypeOK /\ TimesKnown /\ BeganLast
  BY DEF SaveAnswer, PatientInv, IInv
<1>2. /\ pc' = [pc EXCEPT ![t] = "confirm"] /\ UNCHANGED <<session, history>>
      /\ messages' = messages \cup {a}
  BY DEF SaveAnswer, Insert, Goto, Row
<1>3. Status(t) = "asked" /\ Status(t)' = "over"
  <2>1. pc'[t] = "confirm"
    BY <1>1, <1>2, StatusMoves
  <2> QED BY <1>1, <2>1 DEF Status, Ended
<1>4. PICK q \in messages : /\ q.turn = t /\ q.role = "user"
                            /\ Over = messages \ {q}
                            /\ \A m \in Over : m.at < q.at
  BY <1>1, AllButQuestionAreOver
<1>5. /\ a \in Message /\ a.turn = t /\ a.role = "assistant"
      /\ \A m \in messages : m.at < a.at
  BY <1>1, RowsAreLast DEF Row, Message, TypeOK
<1> HIDE DEF a
<1>6. Over' = messages \cup {a}
  <2>1. messages \subseteq Message /\ messages' \subseteq Message
    BY <1>1, <1>2, <1>5 DEF TypeOK
  <2>2. \A m \in messages' :
          IF m.turn = t THEN Status(t)' = "over" ELSE Status(m.turn) = "over"
    BY <1>2, <1>3, <1>4, <1>5 DEF Over
  <2> QED BY <1>1, <1>2, <2>1, <2>2, OverMoves
<1>7. Transcript' = Transcript \o <<<<t, "user">>, <<t, "assistant">>>>
  <2> DEFINE T == Turns \X {"user", "assistant"}
  <2>1. Over \in SUBSET Message /\ Keyed(Over, CreatedAt) /\ q \in Message
    BY <1>4, RowsAreKeyed, <1>1 DEF TypeOK
  <2>2. /\ Transcript \in Seq(T)
        /\ Told(InOrderOf(Over \cup {q}, CreatedAt)) = Append(Transcript, <<t, "user">>)
    BY <1>4, <2>1, TranscriptGrows DEF Transcript
  <2>3. Over \cup {q} = messages
    BY <1>4
  <2>4. messages \in SUBSET Message /\ Keyed(messages, CreatedAt)
    BY RowsAreKeyed
  <2>5. Told(InOrderOf(messages \cup {a}, CreatedAt)) =
          Append(Append(Transcript, <<t, "user">>), <<t, "assistant">>)
    BY <1>5, <2>2, <2>3, <2>4, TranscriptGrows
  <2>6. Transcript' = Append(Append(Transcript, <<t, "user">>), <<t, "assistant">>)
    BY <1>6, <2>5 DEF Transcript
  <2>7. <<t, "user">> \in T /\ <<t, "assistant">> \in T
    OBVIOUS
  <2> HIDE DEF T
  <2> QED BY <2>2, <2>6, <2>7, TwoMore
<1>8. Statuses' = [Statuses EXCEPT ![t] = "over"] /\ Statuses[t] = "asked"
  BY <1>1, <1>2, <1>3, StatusMoves DEF Statuses
<1>9. UNCHANGED Shown
  BY <1>2 DEF Shown
<1> QED
  BY <1>2, <1>7, <1>8, <1>9
  DEF Alive, Talk!Answer, Statuses, Transcript, Over, Shown

(* A stream ends without its answer being stored by that step: the         *)
(* transcript gains the question if that had been stored.                  *)
LEMMA EndRefuses ==
  ASSUME PatientInv, NEW t \in Turns, NEW next \in Ended, session # "new",
         pc[t] \in Running \cup {"new"}, pc' = [pc EXCEPT ![t] = next],
         UNCHANGED <<session, messages, history>>
  PROVE  Talk!Refuse(t) \/ UNCHANGED talk
<1>1. TypeOK /\ SavesKnown
  BY DEF PatientInv, IInv
<1>2. Status(t)' = "over"
  BY <1>1, StatusMoves DEF Status, Ended
<1>3. Statuses' = [Statuses EXCEPT ![t] = "over"] /\ Statuses[t] = Status(t)
  BY <1>1, <1>2, StatusMoves DEF Statuses
<1>4. UNCHANGED Shown
  BY DEF Shown
<1>5. Over' = {m \in messages : m.turn = t \/ Status(m.turn) = "over"}
  <2>1. messages' \subseteq Message
    BY <1>1 DEF TypeOK
  <2> QED BY <1>1, <1>2, <2>1, OverMoves
<1>6. CASE pc[t] = "confirm"
  <2>1. Status(t) = "over"
    BY <1>6 DEF Status, Ended
  <2>2. Over' = Over
    BY <1>5, <2>1 DEF Over
  <2>3. Statuses' = Statuses
    BY <1>3, <2>1 DEF Statuses
  <2> QED BY <1>4, <2>2, <2>3 DEF talk, Transcript
<1>7. CASE pc[t] # "confirm" /\ UNCHANGED Transcript
  <2>1. Statuses[t] # "over"
    BY <1>3, <1>7 DEF Status, Running, Preparing, Answering, Ended
  <2> QED
    BY <1>3, <1>4, <1>7, <2>1 DEF Talk!Refuse, Statuses, Transcript, Over, Shown
<1>8. CASE pc[t] \notin {"confirm", "refresh", "saveAnswer"}
  <2>1. \A m \in messages : m.turn # t
    BY <1>1, <1>8 DEF SavesKnown, Saving, Running, Preparing, Answering
  <2>2. Over' = Over
    BY <1>5, <2>1 DEF Over
  <2> QED BY <1>7, <1>8, <2>2 DEF Transcript
<1>9. CASE pc[t] \in {"refresh", "saveAnswer"} /\ ~Alive
  <2>1. messages = {}
    BY <1>9 DEF PatientInv, RowsNeedSession
  <2>2. Over' = Over
    BY <1>5, <2>1 DEF Over
  <2> QED BY <1>7, <1>9, <2>2 DEF Transcript
<1>10. CASE pc[t] \in {"refresh", "saveAnswer"} /\ Alive
  <2>1. PICK q \in messages : /\ q.turn = t /\ q.role = "user"
                              /\ Over = messages \ {q}
                              /\ \A m \in Over : m.at < q.at
    BY <1>10, AllButQuestionAreOver
  <2>2. Over' = Over \cup {q}
    BY <1>5, <2>1 DEF Over
  <2>3. Over \in SUBSET Message /\ Keyed(Over, CreatedAt) /\ q \in Message
    BY <1>1, <2>1, RowsAreKeyed DEF TypeOK
  <2>4. Transcript' = Append(Transcript, <<t, "user">>)
    BY <2>1, <2>2, <2>3, TranscriptGrows DEF Transcript
  <2>5. Statuses[t] = "asked"
    BY <1>3, <1>10 DEF Status, Ended
  <2>6. session = "open"
    BY <1>10 DEF Alive
  <2> QED
    BY <1>3, <1>4, <2>4, <2>5, <2>6
    DEF Talk!Refuse, Statuses, Transcript, Over, Shown
<1> QED BY <1>6, <1>8, <1>9, <1>10

(* What happens within a turn is not seen. *)
LEMMA MovesAreUnseen ==
  ASSUME PatientInv, NEW t \in Turns, NEW next, pc' = [pc EXCEPT ![t] = next],
         Status(t)' = Status(t), UNCHANGED <<session, history>>,
         \/ UNCHANGED messages
         \/ Status(t) # "over" /\ messages' = messages \cup {Row(t, "user")}
  PROVE  UNCHANGED talk
<1>1. TypeOK
  BY DEF PatientInv, IInv
<1>2. UNCHANGED Statuses
  BY <1>1, StatusMoves DEF Statuses
<1>3. messages' \subseteq Message /\ Row(t, "user").turn = t
  BY <1>1 DEF TypeOK, Row, Message
<1>4. Over' = Over
  BY <1>1, <1>3, OverMoves DEF Over
<1>5. UNCHANGED Shown
  BY DEF Shown
<1> QED BY <1>2, <1>4, <1>5 DEF talk, Transcript

(* Apart from the history and the rows a step only moves a stream. *)
LEMMA OnlyMoves ==
  ASSUME TypeOK, SavesKnown, NEW t \in Turns,
         Send(t) \/ Step(t) \/ Fail(t) \/ Cut(t),
         ~LoadHistory(t), ~(Alive /\ (SaveUser(t) \/ SaveAnswer(t)))
  PROVE  /\ UNCHANGED <<session, messages, history>> /\ session # "new"
         /\ pc[t] \in Running \cup {"new"}
         /\ pc'[t] \in Ended \/ Status(t)' = Status(t)
<1>1. session # "new" /\ pc[t] \in Running \cup {"new"}
  <2>1. CASE Send(t)
    BY <2>1 DEF Send
  <2>2. CASE Step(t) \/ Fail(t) \/ Cut(t)
    <3>1. pc[t] \in Running /\ pc[t] # "new"
      BY <2>2, StepsAreOfRunning DEF Running, Preparing, Answering
    <3> QED BY <3>1 DEF SavesKnown
  <2> QED BY <2>1, <2>2
<1>2. UNCHANGED <<session, messages, history>>
  BY DEF Alive, Send, Step, Fail, Cut, Open, SetTitle, Retrieve, Token,
     SendSources, SendDone, SaveUser, RefreshUser, SaveAnswer, Confirm, Insert
<1>3. \/ pc'[t] \in Ended
      \/ {pc[t], pc'[t]} \subseteq {"new", "open", "titling", "loading"}
      \/ {pc[t], pc'[t]} \subseteq {"retrieving", "answering", "finishing",
                                   "saveUser", "refresh", "saveAnswer"}
  <2> USE DEF TypeOK, Goto, Raise, Ended
  <2>1. CASE Send(t) \/ Open(t) \/ SetTitle(t) \/ Retrieve(t) \/ Token(t)
    BY <2>1 DEF Send, Open, SetTitle, Retrieve, Token
  <2>2. CASE SendSources(t) \/ SendDone(t) \/ Fail(t) \/ Cut(t)
    BY <2>2 DEF SendSources, SendDone, Fail, Cut
  <2>3. CASE SaveUser(t) \/ RefreshUser(t) \/ SaveAnswer(t) \/ Confirm(t)
    BY <2>3 DEF SaveUser, RefreshUser, SaveAnswer, Confirm, Insert
  <2> QED BY <2>1, <2>2, <2>3 DEF Step
<1>4. \/ pc'[t] \in Ended
      \/ Status(t) = "new" /\ Status(t)' = "new"
      \/ Status(t) = "asked" /\ Status(t)' = "asked"
  BY <1>3 DEF Status, Ended
<1> QED BY <1>1, <1>2, <1>4

LEMMA StreamsTalk ==
  ASSUME PatientInv, NEW t \in Turns, Send(t) \/ Step(t) \/ Fail(t) \/ Cut(t)
  PROVE  Talking(t)
<1>1. TypeOK /\ SavesKnown
  BY DEF PatientInv, IInv
<1>2. PICK next : pc' = [pc EXCEPT ![t] = next] /\ pc'[t] = next
  BY <1>1, Moves, StatusMoves
<1>3. CASE LoadHistory(t)
  BY <1>3, LoadHistoryAsks DEF Talking
<1>4. CASE SaveAnswer(t) /\ Alive
  BY <1>4, SaveAnswerAnswers DEF Talking
<1>5. CASE SaveUser(t) /\ Alive
  <2>1. /\ pc[t] = "saveUser" /\ pc'[t] = "refresh"
        /\ messages' = messages \cup {Row(t, "user")}
        /\ UNCHANGED <<session, history>>
    BY <1>1, <1>5 DEF SaveUser, Insert, Goto, TypeOK, Row
  <2>2. Status(t) = "asked" /\ Status(t)' = "asked"
    BY <2>1 DEF Status, Ended
  <2> QED BY <1>2, <2>1, <2>2, MovesAreUnseen DEF Talking
<1>6. CASE ~LoadHistory(t) /\ ~(Alive /\ (SaveUser(t) \/ SaveAnswer(t)))
  <2>1. /\ UNCHANGED <<session, messages, history>> /\ session # "new"
        /\ pc[t] \in Running \cup {"new"}
        /\ next \in Ended \/ Status(t)' = Status(t)
    BY <1>1, <1>2, <1>6, OnlyMoves
  <2>2. CASE next \in Ended
    BY <1>2, <2>1, <2>2, EndRefuses DEF Talking
  <2>3. CASE Status(t)' = Status(t)
    BY <1>2, <2>1, <2>3, MovesAreUnseen DEF Talking
  <2> QED BY <2>1, <2>2, <2>3
<1> QED BY <1>3, <1>4, <1>5, <1>6

-----------------------------------------------------------------------------
(* With its stages, transactions, failures and deletion, one stream after  *)
(* the other, a chat session is a Conversation: a question is answered     *)
(* from the end of the transcript, and the transcript grows by whole turns *)
(* or by the question of one that failed (rag_service.py:31-137).          *)
THEOREM Refinement == Patient => (Spec => ImplementsConversation)
<1> SUFFICES ASSUME Patient PROVE Spec => ImplementsConversation
  OBVIOUS
<1>1. Init => Talk!Init
  <2> SUFFICES ASSUME Init PROVE Talk!Init
    OBVIOUS
  <2>1. Over = {} /\ Cardinality({}) = 0
    BY FS_EmptySet DEF Init, Over
  <2>2. Transcript = <<>>
    BY <2>1 DEF Transcript, Told, InOrderOf
  <2>3. \A t \in Turns : Status(t) = "new"
    BY DEF Init, Status, Ended
  <2>4. Statuses = [t \in Turns |-> "new"]
    BY <2>3 DEF Statuses
  <2>5. Told(<<>>) = <<>>
    BY DEF Told
  <2>6. \A t \in Turns : history[t] = <<>>
    BY DEF Init
  <2>7. Shown = [t \in Turns |-> <<>>]
    BY <2>5, <2>6 DEF Shown
  <2> QED BY <2>2, <2>4, <2>7 DEF Init, Talk!Init, Transcript, Over, Statuses, Shown
<1>2. PatientInv /\ [Next]_vars => [Talk!Next]_(Talk!vars)
  <2> SUFFICES ASSUME PatientInv, [Next]_vars
               PROVE  Talk!Next \/ UNCHANGED talk
    BY DEF Talk!vars, talk, Transcript, Over, Statuses, Shown
  <2>1. ASSUME NEW t \in Turns, Send(t) \/ Step(t) \/ Fail(t) \/ Cut(t)
        PROVE  Talk!Next \/ UNCHANGED talk
    BY <2>1, StreamsTalk DEF Talking, Talk!Next
  <2>2. CASE CreateSession
    <3>1. UNCHANGED <<Statuses, Over, Shown>>
      BY <2>2 DEF CreateSession, Statuses, Status, Over, Shown
    <3>2. UNCHANGED Transcript
      BY <3>1 DEF Transcript
    <3>3. Talk!Create
      BY <2>2, <3>1, <3>2
      DEF CreateSession, Talk!Create, Statuses, Over, Shown, Transcript
    <3> QED BY <3>3 DEF Talk!Next
  <2>3. CASE DeleteSession
    <3>1. UNCHANGED <<Statuses, Shown>>
      BY <2>3 DEF DeleteSession, Statuses, Status, Shown
    <3>2. Over' = {} /\ Cardinality({}) = 0
      BY <2>3, FS_EmptySet DEF DeleteSession, Over
    <3>3. Transcript' = <<>>
      BY <3>2 DEF Transcript, Told, InOrderOf
    <3>4. Talk!Delete
      BY <2>3, <3>1, <3>3
      DEF DeleteSession, Alive, Talk!Delete, Statuses, Over, Shown, Transcript
    <3> QED BY <3>4 DEF Talk!Next
  <2>4. CASE UNCHANGED vars
    <3>1. UNCHANGED <<Statuses, Over, Shown>>
      BY <2>4 DEF vars, Statuses, Status, Over, Shown
    <3> QED BY <2>4, <3>1 DEF vars, talk, Transcript
  <2> QED BY <2>1, <2>2, <2>3, <2>4 DEF Next
<1> QED
  BY <1>1, <1>2, PatientInvariance, PTL
  DEF Spec, ImplementsConversation, Talk!Spec

=============================================================================
