-------------------------- MODULE MCRequestPacing --------------------------
(* Values for model checking RequestPacing.                                *)
EXTENDS RequestPacing, TLC

CONSTANTS r1, r2, r3, r4

FourRequests == {r1, r2, r3, r4}
Symmetric == Permutations(Requests)

Count(mix, class) == Cardinality({r \in Requests : mix[r] = class})

(* A burst of polling reads around one preflight read, or of writes: the   *)
(* two lanes of a slot share nothing but the cursor of the pool.           *)
Bursts ==
    {mix \in [Requests -> {"polling", "preflight", "write"}] :
        \/ Count(mix, "preflight") = 1 /\ Count(mix, "write") = 0
        \/ Count(mix, "write") = Cardinality(Requests)}

(* Every caller writes.                                                    *)
AllWrites == [Requests -> {"write"}]
=============================================================================
