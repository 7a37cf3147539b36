------------------------- MODULE MCLanesAndService --------------------------
(***************************************************************************)
(* One run for two small components that share no state: `part` says which *)
(* of them moves, the other one stays in its initial state.                *)
(*                                                                         *)
(* Three calls over three lanes are the smallest cycle that is not an      *)
(* exchange; two callers of close() are one that joins or comes late.      *)
(* Symmetry is left out, because of the liveness properties.               *)
(***************************************************************************)
EXTENDS MutationLanes, SyncService

VARIABLE part       \* the component that moves

partVars == <<part, vars, serviceVars>>

LanesMove(step) == part = "lanes" /\ step /\ UNCHANGED <<part, serviceVars>>
ServiceMoves(step) == part = "service" /\ step /\ UNCHANGED <<part, vars>>

PartsInit ==
    /\ part \in {"lanes", "service"}
    /\ Init /\ ServiceInit
    /\ part = "lanes" => (backlog = 0 /\ ~wedged)

PartsNext == LanesMove(Next) \/ ServiceMoves(ServiceNext)

\* Some call under way goes on while one can, loops go on, passes end and timers
\* fire: the event loop runs what is due, and what is remote has a timeout.  Not
\* every pass of the loop fails while there is something to deliver, and not every
\* read of a gate throws.  Nobody has to call, flush, run a pass, stop or close.
PartsSpec ==
    /\ PartsInit /\ [][PartsNext]_partVars
    /\ WF_partVars(LanesMove(\E c \in Calls : Runs(c)))
    /\ WF_partVars(ServiceMoves(EffectsLoop)) /\ WF_partVars(ServiceMoves(PollingLoop))
    /\ WF_partVars(ServiceMoves(EffectsPassEnds)) /\ WF_partVars(ServiceMoves(PollingPassEnds))
    /\ WF_partVars(ServiceMoves(ScanFallsDue)) /\ WF_partVars(ServiceMoves(Shutdown))
    /\ SF_partVars(ServiceMoves(LoopDelivers))
    /\ SF_partVars(ServiceMoves(ScanGateAnswers)) /\ SF_partVars(ServiceMoves(PollGateOpens))
=============================================================================
