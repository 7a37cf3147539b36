--------------------------- MODULE MCWriterLease ----------------------------
(***************************************************************************)
(* The writer lease with two interchangeable writers.  LeaseDuration       *)
(* exceeds StaleMs, as the defaults do (180 s and 15 s), and the gate      *)
(* waits longer than the stale bound (25 s and 15 s).                      *)
(***************************************************************************)
EXTENDS WriterLease, TLC

CONSTANTS w1, w2

WriterSymmetry == Permutations({w1, w2})
=============================================================================
