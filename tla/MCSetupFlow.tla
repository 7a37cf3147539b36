---------------------------- MODULE MCSetupFlow -----------------------------
(* Instances of SetupFlow for TLC: runs of one command that follow each    *)
(* other after failures and kills.                                         *)
EXTENDS SetupFlow, TLC

CONSTANTS p1, p2

Whoever == Permutations({p1, p2})
=============================================================================
