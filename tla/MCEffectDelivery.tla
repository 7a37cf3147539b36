-------------------------- MODULE MCEffectDelivery --------------------------
(***************************************************************************)
(* Two workers deliver a stream of two effects.  People may leave the      *)
(* baseline, a value of their own, or the first effect's target.           *)
(***************************************************************************)
EXTENDS EffectDelivery, TLC

CONSTANTS w1, w2

WorkerSymmetry == Permutations({w1, w2})

\* Claims of each effect.
Claims == <<2, 1>>
Edits == {0, 1, 9}
=============================================================================
