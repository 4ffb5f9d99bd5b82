--------------------------- MODULE MCFileLifecycle ---------------------------
(* Instances of FileLifecycle for TLC: two users with one upload each, and *)
(* delete requests of any of them for any file.                            *)
EXTENDS FileLifecycle, TLC

CONSTANTS f1, f2, u1, u2, d1, d2

MCFiles == {f1, f2}
MCUsers == {u1, u2}
MCOwner == f1 :> u1 @@ f2 :> u2
OneFile == {f1}
OneOwner == f1 :> u1
=============================================================================
