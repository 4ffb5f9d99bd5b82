---------------------------- MODULE MCRetrieval -----------------------------
(* Instances of Retrieval for TLC: two files of the asker and one of       *)
(* somebody else; presentations with an empty slide between others, with   *)
(* two texts on the last, and without any text; a PDF of two pages.        *)
EXTENDS Retrieval, TLC

CONSTANTS f1, f2, f3, u1, u2, q1

Text(t) == <<"text", t>>
MCOwner == f1 :> u1 @@ f2 :> u1 @@ f3 :> u2
MCAsker == q1 :> u1

MCDocuments == {
  [slides |-> TRUE,
   body |-> <<<<Text("a")>>, <<>>, <<Text("b"), Text("c")>>>>],
  [slides |-> TRUE, body |-> <<<<>>>>],
  [slides |-> FALSE, body |-> <<<<Text("a")>>, <<Text("d")>>>>]}
=============================================================================
