----------------------------- MODULE MCJwksCache -----------------------------
(* Instances of JwksCache for TLC.  Requests and keys are interchangeable. *)
EXTENDS JwksCache, TLC

Symmetry == Permutations(Requests) \cup Permutations(Keys)
=============================================================================
