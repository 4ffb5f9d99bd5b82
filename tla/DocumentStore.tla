---------------------------- MODULE DocumentStore ----------------------------
(***************************************************************************)
(* What the file service promises its clients, with every request and      *)
(* every background task an atomic step.  A document is added, is indexed  *)
(* at most once, becomes searchable as a whole or is given up on, and can  *)
(* be removed at any moment after it was added.  Nothing follows removal.  *)
(* FileLifecycle is shown to implement this specification.                 *)
(***************************************************************************)
EXTENDS Integers

CONSTANTS Files, MaxChunks

VARIABLES
  status,   \* what GET /files/{id} would report of each document
  content   \* the chunk indexes that a similarity search can reach

vars == <<status, content>>

Present == {"pending", "indexing", "indexed", "failed", "unsupported"}

Init ==
  /\ status  = [f \in Files |-> "absent"]
  /\ content = [f \in Files |-> {}]

Add(f) ==
  /\ status[f] = "absent"
  /\ status' = [status EXCEPT ![f] = "pending"]
  /\ UNCHANGED content

StartIndexing(f) ==
  /\ status[f] = "pending"
  /\ status' = [status EXCEPT ![f] = "indexing"]
  /\ UNCHANGED content

(* All the chunks of the document become visible with its status. *)
Publish(f) ==
  /\ status[f] = "indexing"
  /\ status' = [status EXCEPT ![f] = "indexed"]
  /\ \E n \in 0..MaxChunks : content' = [content EXCEPT ![f] = 0..(n - 1)]

GiveUp(f) ==
  /\ status[f] = "indexing"
  /\ \E s \in {"failed", "unsupported"} : status' = [status EXCEPT ![f] = s]
  /\ UNCHANGED content

Remove(f) ==
  /\ status[f] \in Present
  /\ status'  = [status EXCEPT ![f] = "removed"]
  /\ content' = [content EXCEPT ![f] = {}]

Next ==
  \E f \in Files :
    Add(f) \/ StartIndexing(f) \/ Publish(f) \/ GiveUp(f) \/ Remove(f)

Spec == Init /\ [][Next]_vars
=============================================================================
