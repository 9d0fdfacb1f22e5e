--------------------------- MODULE MCRequestCancel ---------------------------
(* Small instances of RequestCancel for TLC.                               *)
EXTENDS RequestCancel, TLC

\* Requests are interchangeable when none, or all, take a reference.
RequestSymmetry == Permutations(Requests)
=============================================================================
