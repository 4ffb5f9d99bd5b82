---------------------------- MODULE Conversation ----------------------------
(***************************************************************************)
(* What a chat session promises a client that waits for each answer before *)
(* its next question, with every turn an atomic step.  A question is       *)
(* answered from the last messages of the transcript; when it is answered  *)
(* the transcript grows by the whole turn, and when that fails by nothing  *)
(* or by the question alone.  ChatStream is shown to implement this.       *)
(***************************************************************************)
EXTENDS Integers, Sequences

CONSTANTS Turns, Limit

VARIABLES
  session,     \* "new", "open" or "deleted"
  status,      \* of each turn: "new", "asked" or "over"
  transcript,  \* the messages of the session, <<turn, role>>
  shown        \* what the model was shown for each turn

vars == <<session, status, transcript, shown>>

Init ==
  /\ session    = "new"
  /\ status     = [t \in Turns |-> "new"]
  /\ transcript = <<>>
  /\ shown      = [t \in Turns |-> <<>>]

Newest(s) == SubSeq(s, IF Len(s) > Limit THEN Len(s) - Limit + 1 ELSE 1, Len(s))

Create ==
  /\ session = "new"
  /\ session' = "open"
  /\ UNCHANGED <<status, transcript, shown>>

Ask(t) ==
  /\ session # "new" /\ status[t] = "new"
  /\ \A s \in Turns : s < t => status[s] = "over"
  /\ status' = [status EXCEPT ![t] = "asked"]
  /\ shown' = [shown EXCEPT ![t] = Newest(transcript)]
  /\ UNCHANGED <<session, transcript>>

Answer(t) ==
  /\ session = "open" /\ status[t] = "asked"
  /\ status' = [status EXCEPT ![t] = "over"]
  /\ transcript' = transcript \o <<<<t, "user">>, <<t, "assistant">>>>
  /\ UNCHANGED <<session, shown>>

Refuse(t) ==
  /\ session # "new" /\ status[t] # "over"
  /\ status' = [status EXCEPT ![t] = "over"]
  /\ \/ UNCHANGED transcript
     \/ /\ session = "open" /\ status[t] = "asked"
        /\ transcript' = Append(transcript, <<t, "user">>)
  /\ UNCHANGED <<session, shown>>

Delete ==
  /\ session = "open"
  /\ session' = "deleted"
  /\ transcript' = <<>>
  /\ UNCHANGED <<status, shown>>

Next == Create \/ Delete \/ \E t \in Turns : Ask(t) \/ Answer(t) \/ Refuse(t)

Spec == Init /\ [][Next]_vars
=============================================================================
