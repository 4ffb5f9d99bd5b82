----------------------------- MODULE MCAccounts -----------------------------
(* Instances of Accounts for TLC: requests, subjects and names are         *)
(* interchangeable.                                                        *)
EXTENDS Accounts, TLC

Symmetry ==
  Permutations(Requests) \cup Permutations(Subs) \cup Permutations(Names)
=============================================================================
