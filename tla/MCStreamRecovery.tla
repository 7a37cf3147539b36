-------------------------- MODULE MCStreamRecovery --------------------------
(***************************************************************************)
(* One stream of either projection, two values, one human edit or delivery *)
(* fault each; the configurations differ in the bounds.                    *)
(***************************************************************************)
EXTENDS StreamRecovery
=============================================================================
