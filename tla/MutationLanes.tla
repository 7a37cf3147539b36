--------------------------- MODULE MutationLanes ---------------------------
(***************************************************************************)
(* The mutation lanes of the coordinated provider: every remote write, and *)
(* every read that must not see half of one, holds the lanes of all the    *)
(* sheets it touches.  A lane is a chain of promises: who comes takes the  *)
(* newest gate as the one to wait for and leaves a gate of its own, which  *)
(* is opened when the lane is released.  Several lanes are taken one after *)
(* the other.                                                              *)
(*                                                                         *)
(* Lanes are numbered in the order in which their keys are sorted.  Gate 0 *)
(* of a lane is open from the start, and gate n belongs to its n-th call.  *)
(***************************************************************************)
EXTENDS Naturals

CONSTANTS
    Calls,          \* mutations, each of them once
    NLanes          \* lanes that exist

ASSUME NLanesAssumption == NLanes \in Nat

Lanes == 1 .. NLanes

VARIABLES
    at,             \* where a call is
    keys,           \* lanes of a call
    ticket,         \* its gate in each lane, 0 for none
    held,           \* lanes whose release token it has
    gates,          \* gates made in a lane; the newest is its tail
    open,           \* gates that are resolved
    active          \* the flag of a lane

lanes == <<gates, open, active>>
vars == <<at, keys, ticket, held, lanes>>

Phases == {"new", "queued", "granted", "checking", "remote", "done"}

Asked(c) == {l \in Lanes : ticket[c][l] # 0}

\* Mutant: the lanes are taken in any order.
NextLanes_Unsorted(c, K) == K \ Asked(c)

\* The lane of K a call asks for next, if there is one left.
NextLanes(c, K) ==
    {l \in K \ Asked(c) : \A k \in K \ Asked(c) : l <= k}

\* Mutant: a call waits for the one before it to get the lane.
Free_Acquired(c, l) ==
    \/ ticket[c][l] = 1
    \/ \E d \in Calls : ticket[d][l] = ticket[c][l] - 1 /\ l \in held[d]
    \/ ticket[c][l] - 1 \in open[l]

\* The gate of the call before is open.
Free(c, l) == ticket[c][l] - 1 \in open[l]

\* AsyncMutex.acquire
Ask(c, l) ==
    /\ gates' = [gates EXCEPT ![l] = @ + 1]
    /\ ticket' = [ticket EXCEPT ![c][l] = gates[l] + 1]
    /\ at' = [at EXCEPT ![c] = "queued"]
    /\ UNCHANGED <<held, open, active>>

\* The acquisitions of runInLanes, from one await to the next.
Advance(c, K) ==
    \/ \E l \in NextLanes(c, K) : Ask(c, l)
    \/ /\ NextLanes(c, K) = {}
       /\ at' = [at EXCEPT ![c] = "checking"]
       /\ UNCHANGED <<ticket, held, lanes>>

\* The call runs up to its first await.  A request may name any sheets.
Begin(c) ==
    /\ at[c] = "new"
    /\ \E K \in SUBSET Lanes :
        /\ keys' = [keys EXCEPT ![c] = K]
        /\ Advance(c, K)

Granted(c, l) ==
    /\ at[c] = "queued"
    /\ l \in Asked(c) \ held[c]
    /\ Free(c, l)
    /\ active' = [active EXCEPT ![l] = TRUE]
    /\ held' = [held EXCEPT ![c] = @ \cup {l}]
    /\ at' = [at EXCEPT ![c] = "granted"]
    /\ UNCHANGED <<keys, ticket, gates, open>>

Proceed(c) ==
    /\ at[c] = "granted"
    /\ Advance(c, keys[c])
    /\ UNCHANGED keys

\* beforeRemote agrees, or there is none.
StartRemote(c) ==
    /\ at[c] = "checking"
    /\ at' = [at EXCEPT ![c] = "remote"]
    /\ UNCHANGED <<keys, ticket, held, lanes>>

\* The gate a token opens.
Gate(c, l) == ticket[c][l]

\* Mutant: a call that ends keeps its lanes.
Release_Kept(c) == UNCHANGED <<held, lanes>>

\* The tokens of a call, all of them at once; a lane that is not active is
\* left as it is.
Release(c) ==
    LET freed == {l \in held[c] : active[l]} IN
    /\ active' = [l \in Lanes |-> active[l] /\ l \notin freed]
    /\ open' = [l \in Lanes |-> open[l] \cup (IF l \in freed THEN {Gate(c, l)} ELSE {})]
    /\ held' = [held EXCEPT ![c] = {}]
    /\ UNCHANGED gates

\* beforeRemote refuses or throws, or the task ends one way or the other.
End(c) ==
    /\ at[c] \in {"checking", "remote"}
    /\ Release(c)
    /\ at' = [at EXCEPT ![c] = "done"]
    /\ UNCHANGED <<keys, ticket>>

-----------------------------------------------------------------------------
Init ==
    /\ at = [c \in Calls |-> "new"]
    /\ keys = [c \in Calls |-> {}]
    /\ ticket = [c \in Calls |-> [l \in Lanes |-> 0]]
    /\ held = [c \in Calls |-> {}]
    /\ gates = [l \in Lanes |-> 0]
    /\ open = [l \in Lanes |-> {0}]
    /\ active = [l \in Lanes |-> FALSE]

Runs(c) == (\E l \in Lanes : Granted(c, l)) \/ Proceed(c) \/ StartRemote(c) \/ End(c)

Next == \E c \in Calls : Begin(c) \/ Runs(c)

Spec == Init /\ [][Next]_vars

-----------------------------------------------------------------------------
\* Types; the gates of a lane open in the order they were made, and those that
\* are not open belong to calls that are still to release the lane.
LanesTypeOK ==
    /\ at \in [Calls -> Phases]
    /\ keys \in [Calls -> SUBSET Lanes] /\ held \in [Calls -> SUBSET Lanes]
    /\ ticket \in [Calls -> [Lanes -> Nat]]
    /\ gates \in [Lanes -> Nat] /\ open \in [Lanes -> SUBSET Nat]
    /\ active \in [Lanes -> BOOLEAN]
    /\ \A l \in Lanes : \E n \in 0 .. gates[l] : open[l] = 0 .. n
    /\ \A c \in Calls, l \in Lanes :
           (ticket[c][l] # 0 /\ ticket[c][l] \notin open[l]) => at[c] \notin {"new", "done"}

\* What runs at the provider has all its lanes to itself.
LaneHasOneHolder ==
    \A c, d \in Calls :
        (c # d /\ at[c] \in {"checking", "remote"})
            => keys[c] \subseteq held[c] /\ keys[c] \cap held[d] = {}

\* A call that is not waiting for another one.
CanMove(c) ==
    \/ at[c] \in {"granted", "checking", "remote"}
    \/ at[c] = "queued" /\ \E l \in Asked(c) \ held[c] : Free(c, l)

\* The calls under way never all wait for each other: lanes are not taken in a
\* cycle, and none is lost.
SomeCallMoves ==
    (\E c \in Calls : at[c] \notin {"new", "done"}) => \E c \in Calls : CanMove(c)

\* Every call ends, whatever others ask for meanwhile and however they fail: each
\* is made at most once, and in the end all that were made are done.
CallsEnd == <>[](\A c \in Calls : at[c] \in {"new", "done"})
=============================================================================
