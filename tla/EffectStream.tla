---------------------------- MODULE EffectStream ----------------------------
(***************************************************************************)
(* What the outbox promises about one target stream (the effects of one    *)
(* spreadsheet row): effects are appended one after the other, an effect   *)
(* is closed as applied only after every earlier one is closed, and a      *)
(* closed effect never changes again.  Claims, leases, fences, retries and *)
(* uncertainty are absent: EffectOutbox implements this specification.     *)
(***************************************************************************)
EXTENDS Naturals

CONSTANT Seqs       \* stream sequences, a set of naturals

VARIABLE fate       \* per sequence: "none", "open", "applied" or "superseded"

streamVars == <<fate>>

Closed == {"applied", "superseded"}

Init == fate = [s \in Seqs |-> "none"]

Append(s) ==
    /\ fate[s] = "none"
    /\ \A p \in Seqs : p < s => fate[p] # "none"
    /\ fate' = [fate EXCEPT ![s] = "open"]

Apply(s) ==
    /\ fate[s] = "open"
    /\ \A p \in Seqs : p < s => fate[p] \in Closed
    /\ fate' = [fate EXCEPT ![s] = "applied"]

Supersede(s) ==
    /\ fate[s] = "open"
    /\ fate' = [fate EXCEPT ![s] = "superseded"]

\* A correction is appended and the effect it replaces closed, at once.
Replace(s, n) ==
    /\ fate[s] = "open"
    /\ fate[n] = "none"
    /\ \A p \in Seqs : p < n => fate[p] # "none"
    /\ fate' = [fate EXCEPT ![s] = "superseded", ![n] = "open"]

Next == \E s \in Seqs :
    Append(s) \/ Apply(s) \/ Supersede(s) \/ \E n \in Seqs : Replace(s, n)

Spec == Init /\ [][Next]_streamVars
=============================================================================
