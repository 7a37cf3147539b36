------------------------ MODULE LanesAndService_proofs ----------------------
(***************************************************************************)
(* Theorems of the two components one runtime is built around.             *)
(*                                                                         *)
(* Lanes, for any set of calls and any number of lanes: what runs has its  *)
(* lanes to itself, and the calls under way never all wait for each other. *)
(* The first gate of a lane that is closed belongs to one call, the only   *)
(* one that may hold the lane.  Lanes are asked for in ascending order, so *)
(* of the calls that wait the one at the highest lane finds a call in      *)
(* front of it that waits for nobody, or for that lane and is the first.   *)
(*                                                                         *)
(* Service: the runtime closes in order, for any number of callers.        *)
(***************************************************************************)
EXTENDS MutationLanes, SyncService, WellFoundedInduction, TLAPS

LaneTypes ==
    /\ at \in [Calls -> Phases]
    /\ keys \in [Calls -> SUBSET Lanes] /\ held \in [Calls -> SUBSET Lanes]
    /\ ticket \in [Calls -> [Lanes -> Nat]]
    /\ gates \in [Lanes -> Nat] /\ open \in [Lanes -> SUBSET Nat]
    /\ active \in [Lanes -> BOOLEAN]

\* The gates of a lane open in order.
OpenInOrder == \A l \in Lanes : \E n \in 0 .. gates[l] : open[l] = 0 .. n

\* Every gate belongs to exactly one call.
GatesOwned ==
    /\ \A l \in Lanes, n \in Nat : n \in 1 .. gates[l] => \E c \in Calls : ticket[c][l] = n
    /\ \A c \in Calls, l \in Lanes : ticket[c][l] <= gates[l]
    /\ \A c, d \in Calls, l \in Lanes :
           ticket[c][l] # 0 /\ ticket[c][l] = ticket[d][l] => c = d

\* A lane that is held is active, and the gate of its holder is the first that
\* is closed.
HeldIsFirst ==
    \A c \in Calls : \A l \in held[c] :
        /\ active[l] /\ ticket[c][l] # 0
        /\ ticket[c][l] - 1 \in open[l] /\ ticket[c][l] \notin open[l]

\* Lanes are asked for from the lowest to the highest.
AskedInOrder ==
    \A c \in Calls :
        /\ Asked(c) \subseteq keys[c]
        /\ \A a \in Asked(c), b \in keys[c] \ Asked(c) : a <= b

\* The lane a queued call waits for is the highest it has asked for.
WaitsAt(c, l) ==
    /\ Asked(c) = held[c] \cup {l} /\ l \notin held[c]
    /\ \A a \in Asked(c) : a <= l

\* What a call holds in each of its phases.
PhaseHolds ==
    \A c \in Calls :
        /\ at[c] = "new" => Asked(c) = {} /\ held[c] = {}
        /\ at[c] = "queued" => \E l \in Lanes : WaitsAt(c, l)
        /\ at[c] = "granted" => Asked(c) = held[c]
        /\ at[c] \in {"checking", "remote"} => Asked(c) = held[c] /\ held[c] = keys[c]
        /\ at[c] = "done" => held[c] = {} /\ \A l \in Asked(c) : ticket[c][l] \in open[l]

\* The gates of a call stay closed until it is done.
ClosedUntilDone ==
    \A c \in Calls : at[c] # "done" => \A l \in Asked(c) : ticket[c][l] \notin open[l]

LInv ==
    /\ LaneTypes /\ OpenInOrder /\ GatesOwned /\ HeldIsFirst /\ AskedInOrder
    /\ PhaseHolds /\ ClosedUntilDone

-----------------------------------------------------------------------------
(* What the invariant says of the properties                               *)

\* The holder of a lane has the gate right after the open ones.
LEMMA HolderTicket ==
    ASSUME LInv, NEW l \in Lanes, NEW n \in 0 .. gates[l], open[l] = 0 .. n,
           NEW c \in Calls, l \in held[c]
    PROVE  ticket[c][l] = n + 1
<1>1. ticket[c][l] \in Nat /\ gates[l] \in Nat /\ n \in Nat
  BY DEF LInv, LaneTypes
<1>2. ticket[c][l] - 1 \in 0 .. n /\ ticket[c][l] \notin 0 .. n
  BY DEF LInv, HeldIsFirst
<1> QED
  BY <1>1, <1>2

LEMMA OneHolder ==
    ASSUME LInv, NEW c \in Calls, NEW d \in Calls, NEW l \in Lanes,
           l \in held[c], l \in held[d]
    PROVE  c = d
<1>1. PICK n \in 0 .. gates[l] : open[l] = 0 .. n
  BY DEF LInv, OpenInOrder
<1>2. ticket[c][l] = n + 1 /\ ticket[d][l] = n + 1
  BY <1>1, HolderTicket
<1>3. ticket[c][l] # 0
  BY DEF LInv, HeldIsFirst
<1> QED
  BY <1>2, <1>3 DEF LInv, GatesOwned

LEMMA InvImpliesTypeOK == LInv => LanesTypeOK
<1> SUFFICES ASSUME LInv PROVE LanesTypeOK
  OBVIOUS
<1>1. \A c \in Calls, l \in Lanes :
          (ticket[c][l] # 0 /\ ticket[c][l] \notin open[l]) => at[c] \notin {"new", "done"}
  BY DEF LInv, PhaseHolds, Asked
<1> QED
  BY <1>1 DEF LInv, LaneTypes, OpenInOrder, LanesTypeOK

LEMMA InvImpliesOneHolder == LInv => LaneHasOneHolder
<1> SUFFICES ASSUME LInv, NEW c \in Calls, NEW d \in Calls, c # d,
                    at[c] \in {"checking", "remote"}
             PROVE  keys[c] \subseteq held[c] /\ keys[c] \cap held[d] = {}
  BY DEF LaneHasOneHolder
<1>1. held[c] = keys[c] /\ keys[c] \subseteq Lanes
  BY DEF LInv, PhaseHolds, LaneTypes
<1>2. ASSUME NEW l \in keys[c], l \in held[d] PROVE FALSE
  BY <1>1, <1>2, OneHolder
<1> QED
  BY <1>1, <1>2

\* Of the lanes of a set that is not empty one is the highest.
LEMMA HighestLane ==
    ASSUME NEW W, W \subseteq Lanes, W # {}
    PROVE  \E l \in W : \A k \in W : k <= l
<1> DEFINE D == {NLanes - l : l \in W}
<1>1. D \subseteq Nat
  BY NLanesAssumption DEF Lanes
<1>2. D # {}
  OBVIOUS
<1>3. PICK m \in D : \A k \in D : <<k, m>> \notin OpToRel(<, Nat)
  <2> HIDE DEF D
  <2> QED
    BY <1>1, <1>2, WFMin, NatLessThanWellFounded, Zenon
<1>4. \A k \in D : ~(k < m)
  <2> HIDE DEF D
  <2> QED
    BY <1>1, <1>3, Zenon DEF OpToRel
<1>5. PICK l \in W : m = NLanes - l
  OBVIOUS
<1>6. ASSUME NEW k \in W PROVE k <= l
  <2>1. ~(NLanes - k < NLanes - l)
    BY <1>4, <1>5
  <2> QED
    BY <2>1, NLanesAssumption DEF Lanes
<1> QED
  BY <1>6

\* In front of a call that has to wait there is one that is not through yet.
LEMMA SomeoneInFront ==
    ASSUME LInv, NEW c \in Calls, NEW l \in Asked(c), ~Free(c, l)
    PROVE  \E d \in Calls : /\ l \in Asked(d) /\ Free(d, l)
                            /\ at[d] \notin {"new", "done"}
<1>1. l \in Lanes /\ ticket[c][l] \in Nat /\ ticket[c][l] # 0 /\ gates[l] \in Nat
  BY DEF LInv, LaneTypes, Asked
<1>2. PICK n \in 0 .. gates[l] : open[l] = 0 .. n
  BY <1>1 DEF LInv, OpenInOrder
<1>3. ticket[c][l] - 1 \notin 0 .. n /\ ticket[c][l] <= gates[l]
  BY <1>1, <1>2 DEF Free, LInv, GatesOwned
<1>4. n + 1 \in 1 .. gates[l] /\ n + 1 \in Nat
  BY <1>1, <1>3
<1>5. PICK d \in Calls : ticket[d][l] = n + 1
  BY <1>1, <1>4 DEF LInv, GatesOwned
<1>6. l \in Asked(d) /\ Free(d, l)
  BY <1>1, <1>2, <1>5 DEF Asked, Free
<1>7. ticket[d][l] \notin open[l]
  BY <1>2, <1>5
<1>8. at[d] \notin {"new", "done"}
  BY <1>6, <1>7 DEF LInv, PhaseHolds
<1> QED
  BY <1>6, <1>8

LEMMA InvImpliesSomeCallMoves == LInv => SomeCallMoves
<1> SUFFICES ASSUME LInv, NEW e \in Calls, at[e] \notin {"new", "done"},
                    \A c \in Calls : ~CanMove(c)
             PROVE  FALSE
  BY DEF SomeCallMoves
<1> DEFINE W == {l \in Lanes : \E c \in Calls : at[c] = "queued" /\ WaitsAt(c, l)}
<1>1. \A c \in Calls : at[c] \notin {"new", "done"} => at[c] = "queued"
  BY DEF CanMove, LInv, LaneTypes, Phases
<1>2. W # {}
  BY <1>1 DEF LInv, PhaseHolds
<1>3. PICK l \in W : \A k \in W : k <= l
  <2> HIDE DEF W
  <2>1. W \subseteq Lanes
    BY DEF W
  <2> QED
    BY <1>2, <2>1, HighestLane
<1>4. PICK c \in Calls : at[c] = "queued" /\ WaitsAt(c, l)
  OBVIOUS
<1>5. l \in Asked(c) \ held[c] /\ ~Free(c, l)
  BY <1>4 DEF WaitsAt, CanMove
<1>6. PICK d \in Calls : l \in Asked(d) /\ Free(d, l) /\ at[d] \notin {"new", "done"}
  BY <1>5, SomeoneInFront
<1>7. PICK k \in Lanes : WaitsAt(d, k)
  BY <1>1, <1>6 DEF LInv, PhaseHolds
<1>8. l <= k /\ k <= l
  BY <1>1, <1>3, <1>6, <1>7 DEF WaitsAt
<1>9. k = l
  BY <1>8 DEF Lanes
<1>10. l \in Asked(d) \ held[d]
  BY <1>7, <1>9 DEF WaitsAt
<1> QED
  BY <1>1, <1>6, <1>10 DEF CanMove

-----------------------------------------------------------------------------
(* The invariant is inductive                                              *)

LEMMA InitInv == Init => LInv
<1> SUFFICES ASSUME Init PROVE LInv
  OBVIOUS
<1> USE DEF Init
<1>1. LaneTypes
  BY DEF LaneTypes, Phases
<1>2. OpenInOrder
  BY DEF OpenInOrder
<1>3. GatesOwned
  BY DEF GatesOwned
<1>4. HeldIsFirst
  BY DEF HeldIsFirst
<1>5. \A c \in Calls : Asked(c) = {}
  BY DEF Asked
<1>6. AskedInOrder
  BY <1>5 DEF AskedInOrder
<1>7. PhaseHolds /\ ClosedUntilDone
  BY <1>5 DEF PhaseHolds, ClosedUntilDone
<1> QED
  BY <1>1, <1>2, <1>3, <1>4, <1>6, <1>7 DEF LInv

\* A set of lanes that is not empty has a lowest one: a call with lanes left
\* asks for one of them.
LEMMA LowestLane ==
    ASSUME NEW W, W \subseteq Lanes, W # {}
    PROVE  \E l \in W : \A k \in W : l <= k
<1>1. W \subseteq Nat
  BY DEF Lanes
<1>2. PICK m \in W : \A k \in W : <<k, m>> \notin OpToRel(<, Nat)
  BY <1>1, WFMin, NatLessThanWellFounded, Zenon
<1>3. \A k \in W : ~(k < m)
  BY <1>1, <1>2, Zenon DEF OpToRel
<1> QED
  BY <1>1, <1>3

\* A call asks for one more lane, the lowest of K that is left.
LEMMA AskKeepsInv ==
    ASSUME LInv, NEW c \in Calls, NEW K \in SUBSET Lanes,
           Asked(c) = held[c], Asked(c) \subseteq K,
           \A a \in Asked(c), b \in K \ Asked(c) : a <= b,
           keys' = [keys EXCEPT ![c] = K],
           at[c] # "done", NEW l \in NextLanes(c, K), Ask(c, l)
    PROVE  LInv'
<1> DEFINE g == gates[l] + 1
<1>1. l \in Lanes /\ l \in K \ Asked(c) /\ \A k \in K \ Asked(c) : l <= k
  BY DEF NextLanes
<1>2. gates[l] \in Nat /\ g \in Nat /\ g # 0
  BY <1>1 DEF LInv, LaneTypes
<1>3. LaneTypes'
  BY <1>1, <1>2 DEF LInv, LaneTypes, Ask, Phases
<1>4. /\ gates'[l] = g /\ \A k \in Lanes : k # l => gates'[k] = gates[k]
      /\ ticket'[c][l] = g
      /\ \A d \in Calls, k \in Lanes : d # c \/ k # l => ticket'[d][k] = ticket[d][k]
      /\ held' = held /\ open' = open /\ active' = active
      /\ at'[c] = "queued" /\ \A d \in Calls : d # c => at'[d] = at[d]
      /\ keys'[c] = K /\ \A d \in Calls : d # c => keys'[d] = keys[d]
  BY <1>1 DEF LInv, LaneTypes, Ask
<1> HIDE DEF g
<1>5. Asked(c)' = Asked(c) \cup {l} /\ \A d \in Calls : d # c => Asked(d)' = Asked(d)
  BY <1>1, <1>2, <1>4 DEF Asked
<1>6. OpenInOrder'
  <2> SUFFICES ASSUME NEW k \in Lanes PROVE \E n \in 0 .. gates'[k] : open'[k] = 0 .. n
    BY DEF OpenInOrder
  <2>1. PICK n \in 0 .. gates[k] : open[k] = 0 .. n
    BY DEF LInv, OpenInOrder
  <2>2. gates[k] \in Nat /\ (gates'[k] = gates[k] \/ gates'[k] = gates[k] + 1)
    BY <1>4 DEF g, LInv, LaneTypes
  <2>3. n \in 0 .. gates'[k]
    BY <2>2
  <2> QED
    BY <1>4, <2>1, <2>3
<1>7. GatesOwned'
  <2>1. ASSUME NEW k \in Lanes, NEW n \in Nat, n \in 1 .. gates'[k]
        PROVE  \E d \in Calls : ticket'[d][k] = n
    <3>1. CASE k = l /\ n = g
      BY <1>4, <3>1
    <3>2. CASE ~(k = l /\ n = g)
      <4>1. n \in 1 .. gates[k]
        <5>1. CASE k # l
          BY <1>4, <2>1, <5>1
        <5>2. CASE k = l
          <6>1. n # g /\ n \in 1 .. g
            BY <1>4, <2>1, <3>2, <5>2
          <6> QED
            BY <1>2, <5>2, <6>1 DEF g
        <5> QED
          BY <5>1, <5>2
      <4>2. PICK d \in Calls : ticket[d][k] = n
        BY <4>1 DEF LInv, GatesOwned
      <4>3. ~(d = c /\ k = l)
        BY <1>1, <4>1, <4>2 DEF Asked
      <4> QED
        BY <1>4, <4>2, <4>3
    <3> QED
      BY <3>1, <3>2
  <2>2. ASSUME NEW d \in Calls, NEW k \in Lanes PROVE ticket'[d][k] <= gates'[k]
    <3>1. ticket[d][k] \in Nat /\ gates[k] \in Nat /\ ticket[d][k] <= gates[k]
      BY DEF LInv, LaneTypes, GatesOwned
    <3>2. CASE d = c /\ k = l
      BY <1>2, <1>4, <3>2
    <3>3. CASE ~(d = c /\ k = l)
      BY <1>4, <3>1, <3>3 DEF g
    <3> QED
      BY <3>2, <3>3
  <2>3. ASSUME NEW d \in Calls, NEW e \in Calls, NEW k \in Lanes,
               ticket'[d][k] # 0, ticket'[d][k] = ticket'[e][k]
        PROVE  d = e
    <3>1. /\ ticket[d][k] \in Nat /\ ticket[e][k] \in Nat
          /\ ticket[d][k] <= gates[k] /\ ticket[e][k] <= gates[k]
      BY DEF LInv, LaneTypes, GatesOwned
    <3>2. CASE k # l \/ (d # c /\ e # c)
      BY <1>4, <2>3, <3>2 DEF LInv, GatesOwned
    <3>3. CASE k = l /\ (d = c \/ e = c)
      BY <1>2, <1>4, <2>3, <3>1, <3>3 DEF g
    <3> QED
      BY <3>2, <3>3
  <2> QED
    BY <2>1, <2>2, <2>3 DEF GatesOwned
<1>8. \A d \in Calls : \A k \in held[d] : k \in Lanes /\ ticket'[d][k] = ticket[d][k]
  BY <1>1, <1>4 DEF LInv, LaneTypes
<1>9. HeldIsFirst'
  BY <1>4, <1>8 DEF LInv, HeldIsFirst
<1>10. AskedInOrder'
  <2> SUFFICES ASSUME NEW d \in Calls
               PROVE  /\ Asked(d)' \subseteq keys'[d]
                      /\ \A a \in Asked(d)', b \in keys'[d] \ Asked(d)' : a <= b
    BY DEF AskedInOrder
  <2>1. CASE d = c
    BY <1>1, <1>4, <1>5, <2>1
  <2>2. CASE d # c
    BY <1>4, <1>5, <2>2 DEF LInv, AskedInOrder
  <2> QED
    BY <2>1, <2>2
<1>11. PhaseHolds'
  <2> DEFINE Holds(d) ==
        /\ at[d] = "new" => Asked(d) = {} /\ held[d] = {}
        /\ at[d] = "queued" => \E k \in Lanes : WaitsAt(d, k)
        /\ at[d] = "granted" => Asked(d) = held[d]
        /\ at[d] \in {"checking", "remote"} => Asked(d) = held[d] /\ held[d] = keys[d]
        /\ at[d] = "done" => held[d] = {} /\ \A k \in Asked(d) : ticket[d][k] \in open[k]
  <2> SUFFICES ASSUME NEW d \in Calls PROVE Holds(d)'
    BY DEF PhaseHolds
  <2>1. CASE d = c
    <3>1. WaitsAt(c, l)'
      BY <1>1, <1>4, <1>5 DEF WaitsAt, Lanes
    <3> QED
      BY <1>1, <1>4, <2>1, <3>1
  <2>2. CASE d # c
    <3>1. /\ at'[d] = at[d] /\ Asked(d)' = Asked(d) /\ held'[d] = held[d] /\ keys'[d] = keys[d]
          /\ \A k \in Lanes : ticket'[d][k] = ticket[d][k] /\ open'[k] = open[k]
      BY <1>4, <1>5, <2>2
    <3>2. \A k \in Lanes : WaitsAt(d, k) => WaitsAt(d, k)'
      BY <3>1 DEF WaitsAt
    <3>3. Holds(d)
      BY DEF LInv, PhaseHolds
    <3> QED
      BY <3>1, <3>2, <3>3 DEF Asked
  <2> QED
    BY <2>1, <2>2
<1>12. ClosedUntilDone'
  <2> SUFFICES ASSUME NEW d \in Calls, at'[d] # "done", NEW k \in Asked(d)'
               PROVE  ticket'[d][k] \notin open'[k]
    BY DEF ClosedUntilDone
  <2>1. CASE d = c /\ k = l
    <3>1. PICK n \in 0 .. gates[l] : open[l] = 0 .. n
      BY <1>1 DEF LInv, OpenInOrder
    <3> QED
      BY <1>2, <1>4, <2>1, <3>1 DEF g
  <2>2. CASE ~(d = c /\ k = l)
    <3>1. k \in Asked(d) /\ k \in Lanes /\ at[d] # "done"
      BY <1>4, <1>5, <2>2 DEF Asked
    <3> QED
      BY <1>4, <2>2, <3>1 DEF LInv, ClosedUntilDone
  <2> QED
    BY <2>1, <2>2
<1> QED
  BY <1>3, <1>6, <1>7, <1>9, <1>10, <1>11, <1>12 DEF LInv

\* A call that has all its lanes goes on to its precondition.
LEMMA AllLanesKeepInv ==
    ASSUME LInv, NEW c \in Calls, NEW K \in SUBSET Lanes,
           Asked(c) = held[c], Asked(c) \subseteq K,
           keys' = [keys EXCEPT ![c] = K],
           at[c] # "done", NextLanes(c, K) = {}, at' = [at EXCEPT ![c] = "checking"],
           UNCHANGED <<ticket, held, lanes>>
    PROVE  LInv'
<1>1. K \subseteq Asked(c)
  <2> SUFFICES ASSUME K \ Asked(c) # {} PROVE FALSE
    OBVIOUS
  <2>1. \E l \in K \ Asked(c) : \A k \in K \ Asked(c) : l <= k
    BY LowestLane
  <2> QED
    BY <2>1 DEF NextLanes
<1>2. K = Asked(c)
  BY <1>1
<1>3. \A d \in Calls : Asked(d)' = Asked(d)
  BY DEF Asked
<1>4. /\ at'[c] = "checking" /\ keys'[c] = K
      /\ \A d \in Calls : d # c => at'[d] = at[d] /\ keys'[d] = keys[d]
      /\ held' = held /\ ticket' = ticket /\ gates' = gates /\ open' = open /\ active' = active
  BY DEF LInv, LaneTypes, lanes
<1>5. LaneTypes'
  BY DEF LInv, LaneTypes, Phases, lanes
<1>6. OpenInOrder' /\ GatesOwned' /\ HeldIsFirst'
  BY <1>4 DEF LInv, OpenInOrder, GatesOwned, HeldIsFirst
<1>7. AskedInOrder'
  BY <1>2, <1>3, <1>4 DEF LInv, AskedInOrder
<1>8. PhaseHolds'
  <2> SUFFICES ASSUME NEW d \in Calls
               PROVE  /\ at'[d] = "new" => Asked(d)' = {} /\ held'[d] = {}
                      /\ at'[d] = "queued" => \E k \in Lanes : WaitsAt(d, k)'
                      /\ at'[d] = "granted" => Asked(d)' = held'[d]
                      /\ at'[d] \in {"checking", "remote"} => Asked(d)' = held'[d] /\ held'[d] = keys'[d]
                      /\ at'[d] = "done" => held'[d] = {} /\ \A k \in Asked(d)' : ticket'[d][k] \in open'[k]
    BY DEF PhaseHolds
  <2>1. CASE d = c
    BY <1>2, <1>3, <1>4, <2>1
  <2>2. CASE d # c
    BY <1>3, <1>4, <2>2 DEF LInv, PhaseHolds, WaitsAt
  <2> QED
    BY <2>1, <2>2
<1>9. ClosedUntilDone'
  BY <1>3, <1>4 DEF LInv, ClosedUntilDone
<1> QED
  BY <1>5, <1>6, <1>7, <1>8, <1>9 DEF LInv

\* A call gets the lane it waits for: nobody else holds it.
LEMMA GrantedKeepsInv ==
    ASSUME LInv, NEW c \in Calls, NEW l \in Lanes, Granted(c, l)
    PROVE  LInv'
<1>1. /\ at[c] = "queued" /\ l \in Asked(c) /\ l \notin held[c]
      /\ ticket[c][l] # 0 /\ ticket[c][l] - 1 \in open[l]
  BY DEF Granted, Free, Asked
<1>2. LaneTypes'
  BY DEF LInv, LaneTypes, Granted, Phases
<1>3. /\ at'[c] = "granted" /\ \A d \in Calls : d # c => at'[d] = at[d]
      /\ held'[c] = held[c] \cup {l} /\ \A d \in Calls : d # c => held'[d] = held[d]
      /\ active'[l] /\ \A k \in Lanes : active[k] => active'[k]
      /\ keys' = keys /\ ticket' = ticket /\ gates' = gates /\ open' = open
  BY DEF LInv, LaneTypes, Granted
<1>4. \A d \in Calls : Asked(d)' = Asked(d)
  BY <1>3 DEF Asked
<1>5. OpenInOrder' /\ GatesOwned' /\ AskedInOrder'
  BY <1>3, <1>4 DEF LInv, OpenInOrder, GatesOwned, AskedInOrder
<1>6. Asked(c) = held[c] \cup {l}
  BY <1>1 DEF LInv, PhaseHolds, WaitsAt
<1>7. ticket[c][l] \notin open[l]
  BY <1>1 DEF LInv, ClosedUntilDone
<1>8. HeldIsFirst'
  <2> SUFFICES ASSUME NEW d \in Calls, NEW k \in held'[d]
               PROVE  /\ active'[k] /\ ticket'[d][k] # 0
                      /\ ticket'[d][k] - 1 \in open'[k] /\ ticket'[d][k] \notin open'[k]
    BY DEF HeldIsFirst
  <2>1. CASE k \in held[d]
    <3>1. k \in Lanes
      BY <2>1 DEF LInv, LaneTypes
    <3> QED
      BY <1>3, <2>1, <3>1 DEF LInv, HeldIsFirst
  <2>2. CASE k \notin held[d]
    <3>1. d = c /\ k = l
      BY <1>3, <2>2
    <3> QED
      BY <1>1, <1>3, <1>7, <3>1
  <2> QED
    BY <2>1, <2>2
<1>9. PhaseHolds'
  <2> SUFFICES ASSUME NEW d \in Calls
               PROVE  /\ at'[d] = "new" => Asked(d)' = {} /\ held'[d] = {}
                      /\ at'[d] = "queued" => \E k \in Lanes : WaitsAt(d, k)'
                      /\ at'[d] = "granted" => Asked(d)' = held'[d]
                      /\ at'[d] \in {"checking", "remote"} => Asked(d)' = held'[d] /\ held'[d] = keys'[d]
                      /\ at'[d] = "done" => held'[d] = {} /\ \A k \in Asked(d)' : ticket'[d][k] \in open'[k]
    BY DEF PhaseHolds
  <2>1. CASE d = c
    BY <1>3, <1>4, <1>6, <2>1
  <2>2. CASE d # c
    BY <1>3, <1>4, <2>2 DEF LInv, PhaseHolds, WaitsAt
  <2> QED
    BY <2>1, <2>2
<1>10. ClosedUntilDone'
  BY <1>1, <1>3, <1>4 DEF LInv, ClosedUntilDone
<1> QED
  BY <1>2, <1>5, <1>8, <1>9, <1>10 DEF LInv

\* A call that ends opens its own gates, the next ones of their lanes.
LEMMA EndKeepsInv ==
    ASSUME LInv, NEW c \in Calls, End(c)
    PROVE  LInv'
<1>1. at[c] \in {"checking", "remote"} /\ Asked(c) = held[c] /\ held[c] \subseteq Lanes
  BY DEF End, LInv, LaneTypes, PhaseHolds
<1>2. \A l \in held[c] : active[l]
  BY DEF LInv, HeldIsFirst
<1>3. /\ at'[c] = "done" /\ \A d \in Calls : d # c => at'[d] = at[d]
      /\ held'[c] = {} /\ \A d \in Calls : d # c => held'[d] = held[d]
      /\ keys' = keys /\ ticket' = ticket /\ gates' = gates
      /\ \A l \in held[c] : open'[l] = open[l] \cup {ticket[c][l]}
      /\ \A l \in Lanes : l \notin held[c] => open'[l] = open[l] /\ (active'[l] <=> active[l])
  BY <1>1, <1>2 DEF LInv, LaneTypes, End, Release, Gate
<1>4. LaneTypes'
  <2>1. open' \in [Lanes -> SUBSET Nat] /\ active' \in [Lanes -> BOOLEAN]
    BY DEF LInv, LaneTypes, End, Release, Gate
  <2> QED
    BY <2>1 DEF LInv, LaneTypes, End, Release, Phases
<1>5. \A d \in Calls : Asked(d)' = Asked(d)
  BY <1>3 DEF Asked
<1>6. OpenInOrder'
  <2> SUFFICES ASSUME NEW l \in Lanes PROVE \E n \in 0 .. gates'[l] : open'[l] = 0 .. n
    BY DEF OpenInOrder
  <2>1. PICK n \in 0 .. gates[l] : open[l] = 0 .. n
    BY DEF LInv, OpenInOrder
  <2>2. CASE l \in held[c]
    <3>1. ticket[c][l] = n + 1 /\ ticket[c][l] <= gates[l] /\ gates[l] \in Nat
      BY <2>1, <2>2, HolderTicket DEF LInv, LaneTypes, GatesOwned
    <3>2. n + 1 \in 0 .. gates'[l]
      BY <1>3, <3>1
    <3>3. open'[l] = (0 .. n) \cup {n + 1}
      BY <1>3, <2>1, <2>2, <3>1
    <3>4. (0 .. n) \cup {n + 1} = 0 .. (n + 1)
      BY <3>1
    <3> QED
      BY <3>2, <3>3, <3>4
  <2>3. CASE l \notin held[c]
    BY <1>3, <2>1, <2>3
  <2> QED
    BY <2>2, <2>3
<1>7. GatesOwned' /\ AskedInOrder'
  BY <1>3, <1>5 DEF LInv, GatesOwned, AskedInOrder
<1>8. HeldIsFirst'
  <2> SUFFICES ASSUME NEW d \in Calls, NEW l \in held'[d]
               PROVE  /\ active'[l] /\ ticket'[d][l] # 0
                      /\ ticket'[d][l] - 1 \in open'[l] /\ ticket'[d][l] \notin open'[l]
    BY DEF HeldIsFirst
  <2>1. d # c /\ l \in held[d] /\ l \in Lanes
    BY <1>3 DEF LInv, LaneTypes
  <2>2. l \notin held[c]
    BY <2>1, OneHolder
  <2> QED
    BY <1>3, <2>1, <2>2 DEF LInv, HeldIsFirst
<1>9. PhaseHolds'
  <2> SUFFICES ASSUME NEW d \in Calls
               PROVE  /\ at'[d] = "new" => Asked(d)' = {} /\ held'[d] = {}
                      /\ at'[d] = "queued" => \E k \in Lanes : WaitsAt(d, k)'
                      /\ at'[d] = "granted" => Asked(d)' = held'[d]
                      /\ at'[d] \in {"checking", "remote"} => Asked(d)' = held'[d] /\ held'[d] = keys'[d]
                      /\ at'[d] = "done" => held'[d] = {} /\ \A k \in Asked(d)' : ticket'[d][k] \in open'[k]
    BY DEF PhaseHolds
  <2>1. CASE d = c
    BY <1>1, <1>3, <1>5, <2>1
  <2>2. CASE d # c
    <3>1. \A k \in Lanes : open[k] \subseteq open'[k]
      BY <1>3
    <3> QED
      BY <1>3, <1>5, <2>2, <3>1 DEF LInv, PhaseHolds, WaitsAt, Asked
  <2> QED
    BY <2>1, <2>2
<1>10. ClosedUntilDone'
  <2> SUFFICES ASSUME NEW d \in Calls, at'[d] # "done", NEW l \in Asked(d)'
               PROVE  ticket'[d][l] \notin open'[l]
    BY DEF ClosedUntilDone
  <2>1. d # c /\ at[d] # "done" /\ l \in Asked(d) /\ l \in Lanes
    BY <1>3, <1>5 DEF Asked
  <2>2. ticket[d][l] \notin open[l] /\ ticket[d][l] # 0
    BY <2>1 DEF LInv, ClosedUntilDone, Asked
  <2>3. ticket[c][l] # ticket[d][l]
    BY <2>1, <2>2 DEF LInv, GatesOwned
  <2> QED
    BY <1>3, <2>1, <2>2, <2>3
<1> QED
  BY <1>4, <1>6, <1>7, <1>8, <1>9, <1>10 DEF LInv

LEMMA StartRemoteKeepsInv ==
    ASSUME LInv, NEW c \in Calls, StartRemote(c)
    PROVE  LInv'
<1>1. at[c] = "checking" /\ at' = [at EXCEPT ![c] = "remote"] /\ UNCHANGED <<keys, ticket, held, gates, open, active>>
  BY DEF StartRemote, lanes
<1>2. \A d \in Calls : Asked(d)' = Asked(d)
  BY <1>1 DEF Asked
<1>3. at'[c] = "remote" /\ \A d \in Calls : d # c => at'[d] = at[d]
  BY <1>1 DEF LInv, LaneTypes
<1>4. LaneTypes'
  BY <1>1 DEF LInv, LaneTypes, Phases
<1>5. OpenInOrder' /\ GatesOwned' /\ HeldIsFirst' /\ AskedInOrder'
  BY <1>1, <1>2 DEF LInv, OpenInOrder, GatesOwned, HeldIsFirst, AskedInOrder
<1>6. PhaseHolds'
  BY <1>1, <1>2, <1>3 DEF LInv, PhaseHolds, WaitsAt
<1>7. ClosedUntilDone'
  BY <1>1, <1>2, <1>3 DEF LInv, ClosedUntilDone
<1> QED
  BY <1>4, <1>5, <1>6, <1>7 DEF LInv

LEMMA AdvanceKeepsInv ==
    ASSUME LInv, NEW c \in Calls, NEW K \in SUBSET Lanes,
           Asked(c) = held[c], Asked(c) \subseteq K,
           \A a \in Asked(c), b \in K \ Asked(c) : a <= b,
           keys' = [keys EXCEPT ![c] = K], at[c] # "done", Advance(c, K)
    PROVE  LInv'
<1>1. CASE \E l \in NextLanes(c, K) : Ask(c, l)
  BY <1>1, AskKeepsInv
<1>2. CASE /\ NextLanes(c, K) = {}
           /\ at' = [at EXCEPT ![c] = "checking"]
           /\ UNCHANGED <<ticket, held, lanes>>
  BY <1>2, AllLanesKeepInv
<1> QED
  BY <1>1, <1>2 DEF Advance

LEMMA BeginKeepsInv ==
    ASSUME LInv, NEW c \in Calls, Begin(c)
    PROVE  LInv'
<1>1. PICK K \in SUBSET Lanes : keys' = [keys EXCEPT ![c] = K] /\ Advance(c, K)
  BY DEF Begin
<1>2. Asked(c) = {} /\ held[c] = {} /\ at[c] # "done"
  BY DEF Begin, LInv, PhaseHolds
<1> QED
  BY <1>1, <1>2, AdvanceKeepsInv

LEMMA ProceedKeepsInv ==
    ASSUME LInv, NEW c \in Calls, Proceed(c)
    PROVE  LInv'
<1>1. keys[c] \in SUBSET Lanes /\ keys' = [keys EXCEPT ![c] = keys[c]]
  BY DEF Proceed, LInv, LaneTypes
<1>2. Asked(c) = held[c] /\ at[c] # "done" /\ Advance(c, keys[c])
  BY DEF Proceed, LInv, PhaseHolds
<1>3. Asked(c) \subseteq keys[c] /\ \A a \in Asked(c), b \in keys[c] \ Asked(c) : a <= b
  BY DEF LInv, AskedInOrder
<1> QED
  BY <1>1, <1>2, <1>3, AdvanceKeepsInv

LEMMA StutterKeepsInv == LInv /\ UNCHANGED vars => LInv'
<1> SUFFICES ASSUME LInv, UNCHANGED vars PROVE LInv'
  OBVIOUS
<1>1. UNCHANGED <<at, keys, ticket, held, gates, open, active>>
  BY DEF vars, lanes
<1>2. \A c \in Calls : Asked(c)' = Asked(c)
  BY <1>1 DEF Asked
<1>3. LaneTypes' /\ OpenInOrder' /\ GatesOwned' /\ HeldIsFirst'
  BY <1>1 DEF LInv, LaneTypes, OpenInOrder, GatesOwned, HeldIsFirst
<1>4. AskedInOrder' /\ ClosedUntilDone'
  BY <1>1, <1>2 DEF LInv, AskedInOrder, ClosedUntilDone
<1>5. PhaseHolds'
  BY <1>1, <1>2 DEF LInv, PhaseHolds, WaitsAt
<1> QED
  BY <1>3, <1>4, <1>5 DEF LInv

LEMMA NextKeepsInv == LInv /\ [Next]_vars => LInv'
<1> SUFFICES ASSUME LInv, [Next]_vars PROVE LInv'
  OBVIOUS
<1>1. ASSUME NEW c \in Calls, Begin(c) PROVE LInv'
  BY <1>1, BeginKeepsInv
<1>2. ASSUME NEW c \in Calls, Runs(c) PROVE LInv'
  BY <1>2, GrantedKeepsInv, ProceedKeepsInv, StartRemoteKeepsInv, EndKeepsInv DEF Runs
<1>3. CASE UNCHANGED vars
  BY <1>3, StutterKeepsInv
<1> QED
  BY <1>1, <1>2, <1>3 DEF Next

LEMMA InvHolds == Spec => []LInv
  BY InitInv, NextKeepsInv, PTL DEF Spec

-----------------------------------------------------------------------------
(* Theorems                                                                *)

\* The state has its types; the gates of a lane open in the order in which they
\* were made, and a closed one belongs to a call that is still under way.
THEOREM LanesTypeCorrect == Spec => []LanesTypeOK
  BY InvHolds, InvImpliesTypeOK, PTL

\* What runs at the provider holds all its lanes, and nobody else holds one of
\* them, for any number of calls and lanes.
THEOREM LanesAreExclusive == Spec => []LaneHasOneHolder
  BY InvHolds, InvImpliesOneHolder, PTL

\* As long as a call is under way some call can move: lanes are never taken in
\* a cycle, and no lane is lost with a call that failed.
THEOREM LanesNeverDeadlock == Spec => []SomeCallMoves
  BY InvHolds, InvImpliesSomeCallMoves, PTL

-----------------------------------------------------------------------------
(* The service.                                                            *)

LoopPhases == {"off", "gate", "pass", "passed", "threw", "wait", "scan", "drain", "tail", "ended"}

WorkTypeOK ==
    /\ firstScan \in BOOLEAN /\ firstPoll \in BOOLEAN /\ due \in BOOLEAN
    /\ backlog \in Nat /\ wedged \in BOOLEAN /\ flushes \in Nat

ServiceTypeOK ==
    /\ loop \in [Supervisors -> LoopPhases]
    /\ slot \in [Supervisors -> BOOLEAN] /\ accepting \in [Supervisors -> BOOLEAN]
    /\ stopper \in [Supervisors -> {"no", "loop", "pass", "done"}]
    /\ WorkTypeOK
    /\ handler \in {"no", "polling", "effects", "stopped"}
    /\ storage \in {"open", "closed"} /\ closeState \in {"open", "closing", "closed"}
    /\ attempt \in {"none", "hook", "provider", "closed", "failed"}
    /\ caller \in [Closers -> {"new", "waiting", "closed", "failed"}]

\* A supervisor that was told to stop takes no pass; its stop() has got past the
\* loop once that has ended, and past the pass once none is under way.
StopsInOrder ==
    \A s \in Supervisors :
        /\ accepting[s] <=> stopper[s] = "no"
        /\ stopper[s] \in {"pass", "done"} => loop[s] = "ended"
        /\ stopper[s] = "done" => ~slot[s]

\* The handler stops one supervisor after the other, and a service that has started.
HandlerInOrder ==
    /\ handler # "no" => Started
    /\ handler = "no" => stopper["polling"] = "no"
    /\ handler \in {"no", "polling"} => stopper["effects"] = "no"
    /\ handler \in {"effects", "stopped"} => stopper["polling"] = "done"
    /\ handler = "stopped" => stopper["effects"] = "done"

\* What a step of a stop() or of the handler is to keep.
StopsOK ==
    /\ StopsInOrder /\ HandlerInOrder
    /\ accepting \in [Supervisors -> BOOLEAN]
    /\ stopper \in [Supervisors -> {"no", "loop", "pass", "done"}]
    /\ handler \in {"no", "polling", "effects", "stopped"}

\* SQLite is closed after the handler, and a success is final.
AttemptInOrder ==
    /\ (attempt \in {"provider", "closed", "failed"} \/ storage = "closed") => handler = "stopped"
    /\ attempt = "closed" => closeState = "closed"
    /\ closeState = "closed" => (storage = "closed" /\ attempt \in {"none", "closed"})
    /\ \A c \in Closers : caller[c] = "closed" => (closeState = "closed" /\ attempt = "none")

CloseInv == ServiceTypeOK /\ StopsInOrder /\ HandlerInOrder /\ AttemptInOrder

\* What loops and passes do: the rest stays, a loop that ended has ended, and a
\* pass is under way that was, or that a supervisor took.
LoopsMove ==
    /\ ServiceTypeOK' /\ UNCHANGED <<stops, closing>>
    /\ Started => Started'
    /\ \A s \in Supervisors :
           (loop[s] = "ended" => loop'[s] = "ended") /\ (slot'[s] => slot[s] \/ accepting[s])

-----------------------------------------------------------------------------
LEMMA InitCloses == ServiceInit => CloseInv
<1> SUFFICES ASSUME ServiceInit PROVE CloseInv
  OBVIOUS
<1>1. ServiceTypeOK
  <2>1. flushes \in Nat /\ backlog \in Nat
    BY ServiceAssumption DEF ServiceInit
  <2>. QED  BY <2>1 DEF ServiceInit, ServiceTypeOK, WorkTypeOK, LoopPhases
<1>2. StopsInOrder
  BY DEF ServiceInit, StopsInOrder
<1>3. HandlerInOrder
  BY DEF ServiceInit, HandlerInOrder, Supervisors
<1>4. AttemptInOrder
  BY DEF ServiceInit, AttemptInOrder
<1>. QED  BY <1>1, <1>2, <1>3, <1>4 DEF CloseInv

LEMMA LoopsKeepOrder == CloseInv /\ LoopsMove => CloseInv'
<1> SUFFICES ASSUME CloseInv, LoopsMove PROVE CloseInv'
  OBVIOUS
<1> USE DEF LoopsMove, stops, closing
<1>1. ServiceTypeOK'
  OBVIOUS
<1>2. StopsInOrder'
  BY DEF CloseInv, StopsInOrder
<1>3. HandlerInOrder'
  BY DEF CloseInv, HandlerInOrder
<1>4. AttemptInOrder'
  BY DEF CloseInv, AttemptInOrder
<1>. QED  BY <1>1, <1>2, <1>3, <1>4 DEF CloseInv

-----------------------------------------------------------------------------
(* The loops and their passes.                                             *)

LEMMA GoingOn ==
  ASSUME ServiceTypeOK, WorkTypeOK', UNCHANGED <<stops, closing>>,
         NEW s \in Supervisors, loop[s] \notin {"off", "ended"}, NEW pc \in LoopPhases \ {"off"},
         \/ Goto(s, pc) /\ UNCHANGED slot
         \/ accepting[s] /\ RunOnce(s, pc)
  PROVE  LoopsMove
<1>1. loop' \in [Supervisors -> LoopPhases] /\ slot' \in [Supervisors -> BOOLEAN]
  BY DEF ServiceTypeOK, Goto, RunOnce
<1>2. ServiceTypeOK'
  BY <1>1 DEF ServiceTypeOK, stops, closing
<1>3. Started => Started'
  BY DEF Started, Goto, RunOnce, ServiceTypeOK, Supervisors
<1>4. ASSUME NEW t \in Supervisors
      PROVE  (loop[t] = "ended" => loop'[t] = "ended") /\ (slot'[t] => slot[t] \/ accepting[t])
  BY DEF Goto, RunOnce, ServiceTypeOK
<1>. QED  BY <1>2, <1>3, <1>4 DEF LoopsMove

\* What is under way in the loops may change the rest in its types only.
LEMMA WorkTyped ==
  ASSUME WorkTypeOK,
         UNCHANGED <<gating, work>>
  PROVE  WorkTypeOK'
  BY DEF WorkTypeOK, gating, work

LEMMA WaitGoesOn ==
  ASSUME ServiceTypeOK, WorkTypeOK', UNCHANGED <<stops, closing>>,
         NEW s \in Supervisors, loop[s] \notin {"off", "ended"},
         Wait(s) /\ UNCHANGED slot
  PROVE  LoopsMove
<1>. DEFINE pc == IF accepting[s] THEN "wait" ELSE "ended"
<1>1. pc \in LoopPhases \ {"off"} /\ Goto(s, pc)
  BY DEF Wait, LoopPhases
<1>. QED  BY <1>1, GoingOn

LEMMA IterationGoesOn ==
  ASSUME ServiceTypeOK, WorkTypeOK', UNCHANGED <<stops, closing>>,
         NEW s \in Supervisors, loop[s] \notin {"off", "ended"}, Iterate(s)
  PROVE  LoopsMove
<1>1. CASE Goto(s, "ended") /\ UNCHANGED slot
  BY <1>1, GoingOn DEF LoopPhases
<1>2. CASE Goto(s, "gate") /\ UNCHANGED slot
  BY <1>2, GoingOn DEF LoopPhases
<1>3. CASE accepting[s] /\ RunOnce(s, "pass")
  BY <1>3, GoingOn DEF LoopPhases
<1>. QED  BY <1>1, <1>2, <1>3 DEF Iterate

LEMMA SettlingMoves ==
  ASSUME ServiceTypeOK, WorkTypeOK', NEW s \in Supervisors, NEW result \in {"passed", "threw"},
         Settle(s, result)
  PROVE  LoopsMove
<1>1. UNCHANGED <<stops, closing>>
  BY DEF Settle
<1>2. PICK pc \in LoopPhases \ {"off"} :
          (loop[s] \in {"pass", "drain"} /\ loop' = [loop EXCEPT ![s] = pc]) \/ UNCHANGED loop
  <2>1. CASE loop[s] = "pass"
    BY <2>1 DEF Settle, ServiceTypeOK, LoopPhases
  <2>2. CASE loop[s] = "drain"
    BY <2>2 DEF Settle, ServiceTypeOK, LoopPhases
  <2>3. CASE loop[s] \notin {"pass", "drain"}
    <3>1. loop' = [loop EXCEPT ![s] = loop[s]]
      BY <2>3 DEF Settle
    <3>. QED  BY <3>1 DEF ServiceTypeOK, LoopPhases
  <2>. QED  BY <2>1, <2>2, <2>3
<1>3. loop' \in [Supervisors -> LoopPhases] /\ slot' \in [Supervisors -> BOOLEAN]
  BY <1>2 DEF Settle, ServiceTypeOK
<1>4. ServiceTypeOK'
  BY <1>1, <1>3 DEF ServiceTypeOK, stops, closing
<1>5. Started => Started'
  BY <1>2 DEF Started, ServiceTypeOK, Supervisors
<1>6. ASSUME NEW t \in Supervisors
      PROVE  (loop[t] = "ended" => loop'[t] = "ended") /\ (slot'[t] => slot[t] \/ accepting[t])
  BY <1>2 DEF Settle, ServiceTypeOK
<1>. QED  BY <1>1, <1>4, <1>5, <1>6 DEF LoopsMove

LEMMA EffectsLoopMoves == ServiceTypeOK /\ EffectsLoop => LoopsMove
<1> SUFFICES ASSUME ServiceTypeOK, EffectsLoop PROVE LoopsMove
  OBVIOUS
<1>0. WorkTypeOK /\ "effects" \in Supervisors
  BY DEF ServiceTypeOK, Supervisors
<1>1. CASE WaitEnds("effects")
  BY <1>0, <1>1, WorkTyped, IterationGoesOn DEF WaitEnds
<1>2. CASE PassIsNoted("effects")
  BY <1>0, <1>2, WorkTyped, WaitGoesOn DEF PassIsNoted
<1>3. CASE AfterPass
  <2>0. due' \in BOOLEAN
    BY <1>0, <1>3 DEF AfterPass, WorkTypeOK
  <2>1. WorkTypeOK' /\ UNCHANGED <<stops, closing>>
    <3>1. UNCHANGED <<stops, firstScan, firstPoll, work, closing>>
      BY <1>3 DEF AfterPass
    <3>. QED  BY <1>0, <2>0, <3>1 DEF WorkTypeOK, work
  <2>2. PICK pc \in {"ended", "tail", "gate", "scan"} : Goto("effects", pc)
    BY <1>3 DEF AfterPass
  <2>. QED  BY <1>0, <1>3, <2>1, <2>2, GoingOn DEF AfterPass, LoopPhases
<1>4. CASE Tail
  <2>1. UNCHANGED <<stops, gating, work, closing>> /\ loop["effects"] = "tail"
    BY <1>4 DEF Tail
  <2>2. WorkTypeOK'
    BY <1>0, <2>1, WorkTyped
  <2>3. CASE Wait("effects") /\ UNCHANGED slot
    BY <1>0, <2>1, <2>2, <2>3, WaitGoesOn
  <2>4. CASE Iterate("effects")
    BY <1>0, <2>1, <2>2, <2>4, IterationGoesOn
  <2>. QED  BY <1>4, <2>3, <2>4 DEF Tail
<1>5. CASE ScanGateAnswers
  <2>1. WorkTypeOK' /\ UNCHANGED <<stops, closing>>
    BY <1>0, <1>5 DEF ScanGateAnswers, WorkTypeOK, work
  <2>2. PICK pc \in {"scan", "tail"} : Goto("effects", pc)
    BY <1>5 DEF ScanGateAnswers
  <2>. QED  BY <1>0, <1>5, <2>1, <2>2, GoingOn DEF ScanGateAnswers, LoopPhases
<1>6. CASE ScanGateThrows
  BY <1>0, <1>6, WorkTyped, GoingOn DEF ScanGateThrows, LoopPhases
<1>7. CASE ScanRepairs
  <2>1. WorkTypeOK' /\ UNCHANGED <<stops, closing>>
    <3>1. UNCHANGED <<stops, gating, flushes, closing>> /\ wedged' = FALSE
      BY <1>7 DEF ScanRepairs
    <3>2. backlog' \in Nat
      BY <1>0, <1>7 DEF ScanRepairs, WorkTypeOK
    <3>. QED  BY <1>0, <3>1, <3>2 DEF WorkTypeOK, gating
  <2>. QED  BY <1>0, <1>7, <2>1, GoingOn DEF ScanRepairs, LoopPhases
<1>8. CASE ScanDoesNothing
  BY <1>0, <1>8, WorkTyped, GoingOn DEF ScanDoesNothing, LoopPhases
<1>. QED  BY <1>1, <1>2, <1>3, <1>4, <1>5, <1>6, <1>7, <1>8 DEF EffectsLoop

LEMMA PollingMoves == ServiceTypeOK /\ (PollingLoop \/ PollGateOpens) => LoopsMove
<1> SUFFICES ASSUME ServiceTypeOK, PollingLoop \/ PollGateOpens PROVE LoopsMove
  OBVIOUS
<1>0. WorkTypeOK /\ "polling" \in Supervisors
  BY DEF ServiceTypeOK, Supervisors
<1>1. CASE WaitEnds("polling")
  BY <1>0, <1>1, WorkTyped, IterationGoesOn DEF WaitEnds
<1>2. CASE PassIsNoted("polling")
  BY <1>0, <1>2, WorkTyped, WaitGoesOn DEF PassIsNoted
<1>3. CASE PollGateThrows
  BY <1>0, <1>3, WorkTyped, WaitGoesOn DEF PollGateThrows
<1>4. CASE PollGateOpens
  <2>1. WorkTypeOK' /\ UNCHANGED <<stops, closing>>
    BY <1>0, <1>4 DEF PollGateOpens, WorkTypeOK, work
  <2>. QED  BY <1>0, <1>4, <2>1, GoingOn DEF PollGateOpens, LoopPhases
<1>. QED  BY <1>1, <1>2, <1>3, <1>4 DEF PollingLoop

LEMMA PassesMove == ServiceTypeOK /\ (EffectsPassEnds \/ PollingPassEnds) => LoopsMove
<1> SUFFICES ASSUME ServiceTypeOK, EffectsPassEnds \/ PollingPassEnds PROVE LoopsMove
  OBVIOUS
<1>0. WorkTypeOK /\ {"effects", "polling"} \subseteq Supervisors
  BY DEF ServiceTypeOK, Supervisors
<1>1. ASSUME NEW s \in {"effects", "polling"}, PassThrows(s) PROVE LoopsMove
  <2>1. WorkTypeOK'
    BY <1>0, <1>1 DEF PassThrows, Settle, WorkTypeOK, gating
  <2>. QED  BY <1>0, <1>1, <2>1, SettlingMoves DEF PassThrows
<1>2. CASE EffectsReport
  <2>1. WorkTypeOK'
    BY <1>0, <1>2 DEF EffectsReport, Settle, WorkTypeOK, gating
  <2>. QED  BY <1>0, <1>2, <2>1, SettlingMoves DEF EffectsReport
<1>3. CASE PollReports
  <2>1. WorkTypeOK'
    BY <1>0, <1>3 DEF PollReports, Settle, WorkTypeOK, gating
  <2>. QED  BY <1>0, <1>3, <2>1, SettlingMoves DEF PollReports
<1>. QED  BY <1>1, <1>2, <1>3 DEF EffectsPassEnds, PollingPassEnds

LEMMA OthersMove ==
  ServiceTypeOK /\ (ScanFallsDue \/ Flush \/ \E s \in Supervisors : ManualRun(s)) => LoopsMove
<1> SUFFICES ASSUME ServiceTypeOK, ScanFallsDue \/ Flush \/ \E s \in Supervisors : ManualRun(s)
             PROVE  LoopsMove
  OBVIOUS
<1>0. WorkTypeOK
  BY DEF ServiceTypeOK
<1>1. CASE ScanFallsDue
  <2>1. WorkTypeOK'
    BY <1>0, <1>1 DEF ScanFallsDue, WorkTypeOK, work
  <2>. QED  BY <1>1, <2>1 DEF ScanFallsDue, LoopsMove, ServiceTypeOK, loops, stops, closing, Started
<1>2. CASE Flush
  <2>1. WorkTypeOK'
    BY <1>0, <1>2 DEF Flush, WorkTypeOK, gating
  <2>. QED  BY <1>2, <2>1 DEF Flush, LoopsMove, ServiceTypeOK, loops, stops, closing, Started
<1>3. ASSUME NEW s \in Supervisors, ManualRun(s) PROVE LoopsMove
  <2>1. WorkTypeOK'
    BY <1>0, <1>3, WorkTyped DEF ManualRun
  <2>. QED  BY <1>3, <2>1 DEF ManualRun, LoopsMove, ServiceTypeOK, stops, closing, Started
<1>. QED  BY <1>1, <1>2, <1>3

-----------------------------------------------------------------------------
(* The start, the stops and the closes.                                    *)

LEMMA StartCloses == CloseInv /\ StartService => CloseInv'
<1> SUFFICES ASSUME CloseInv, StartService PROVE CloseInv'
  OBVIOUS
<1> USE DEF StartService, stops, closing
<1>1. handler = "no" /\ \A s \in Supervisors : stopper[s] = "no"
  BY DEF CloseInv, HandlerInOrder, Started, Supervisors
<1>2. ServiceTypeOK'
  <2>1. WorkTypeOK'
    BY WorkTyped DEF CloseInv, ServiceTypeOK
  <2>2. loop' \in [Supervisors -> LoopPhases] /\ slot' \in [Supervisors -> BOOLEAN]
    BY DEF CloseInv, ServiceTypeOK, Supervisors, LoopPhases
  <2>. QED  BY <2>1, <2>2 DEF CloseInv, ServiceTypeOK
<1>3. StopsInOrder'
  BY <1>1 DEF CloseInv, StopsInOrder
<1>4. HandlerInOrder'
  BY <1>1 DEF CloseInv, HandlerInOrder
<1>5. AttemptInOrder'
  BY DEF CloseInv, AttemptInOrder
<1>. QED  BY <1>2, <1>3, <1>4, <1>5 DEF CloseInv

\* The first call of the handler stops inbound reads.
LEMMA HandlerCalled ==
  ASSUME CloseInv, Started, StopHandler, UNCHANGED loops
  PROVE  StopsOK' /\ (handler = "stopped" => handler' = "stopped")
<1> USE DEF StopHandler, loops
<1>1. CASE handler = "no"
  <2>1. handler' = "polling" /\ Stop("polling")
    BY <1>1
  <2>2. accepting' \in [Supervisors -> BOOLEAN]
        /\ stopper' \in [Supervisors -> {"no", "loop", "pass", "done"}]
    BY <2>1 DEF Stop, CloseInv, ServiceTypeOK
  <2>3. StopsInOrder'
    <3>1. ASSUME NEW s \in Supervisors
          PROVE  /\ accepting'[s] <=> stopper'[s] = "no"
                 /\ stopper'[s] \in {"pass", "done"} => loop'[s] = "ended"
                 /\ stopper'[s] = "done" => ~slot'[s]
      <4>1. CASE s = "polling"
        BY <2>1, <4>1 DEF Stop, CloseInv, ServiceTypeOK
      <4>2. CASE s # "polling"
        BY <2>1, <4>2 DEF Stop, CloseInv, ServiceTypeOK, StopsInOrder
      <4>. QED  BY <4>1, <4>2
    <3>. QED  BY <3>1 DEF StopsInOrder
  <2>4. HandlerInOrder'
    BY <1>1, <2>1 DEF Stop, CloseInv, ServiceTypeOK, HandlerInOrder, Started, Supervisors
  <2>. QED  BY <1>1, <2>1, <2>2, <2>3, <2>4 DEF StopsOK
<1>2. CASE handler # "no"
  <2>1. UNCHANGED stops
    BY <1>2
  <2>. QED  BY <2>1 DEF stops, CloseInv, ServiceTypeOK, StopsOK, StopsInOrder, HandlerInOrder, Started
<1>. QED  BY <1>1, <1>2

LEMMA StopsKeepOrder ==
  CloseInv /\ (StopService \/ HandlerStopsEffects \/ HandlerEnds
                 \/ \E s \in Supervisors : LoopIsOver(s) \/ StopEnds(s)) => CloseInv'
<1> SUFFICES ASSUME CloseInv,
                    \/ StopService \/ HandlerStopsEffects \/ HandlerEnds
                    \/ \E s \in Supervisors : LoopIsOver(s) \/ StopEnds(s)
             PROVE  CloseInv'
  OBVIOUS
<1>1. UNCHANGED <<loops, gating, work, closing>>
  BY DEF StopService, HandlerStopsEffects, HandlerEnds, LoopIsOver, StopEnds
<1>2. StopsOK' /\ (handler = "stopped" => handler' = "stopped")
  <2>1. CASE StopService
    BY <1>1, <2>1, HandlerCalled DEF StopService
  <2>2. CASE HandlerStopsEffects
    <3>1. accepting' \in [Supervisors -> BOOLEAN]
          /\ stopper' \in [Supervisors -> {"no", "loop", "pass", "done"}]
      BY <2>2 DEF HandlerStopsEffects, Stop, CloseInv, ServiceTypeOK
    <3>2. HandlerInOrder'
      BY <1>1, <2>2 DEF HandlerStopsEffects, Stop, CloseInv, ServiceTypeOK, HandlerInOrder,
         Started, Supervisors, loops
    <3>3. ASSUME NEW s \in Supervisors
          PROVE  /\ accepting'[s] <=> stopper'[s] = "no"
                 /\ stopper'[s] \in {"pass", "done"} => loop'[s] = "ended"
                 /\ stopper'[s] = "done" => ~slot'[s]
      <4>1. CASE s = "effects"
        BY <2>2, <4>1 DEF HandlerStopsEffects, Stop, CloseInv, ServiceTypeOK
      <4>2. CASE s # "effects"
        BY <1>1, <2>2, <4>2 DEF HandlerStopsEffects, Stop, CloseInv, ServiceTypeOK, StopsInOrder,
           loops
      <4>. QED  BY <4>1, <4>2
    <3>. QED  BY <2>2, <3>1, <3>2, <3>3 DEF HandlerStopsEffects, StopsOK, StopsInOrder
  <2>3. CASE HandlerEnds
    <3>1. UNCHANGED <<accepting, stopper>>
      BY <2>3 DEF HandlerEnds
    <3>2. StopsInOrder'
      BY <1>1, <3>1 DEF CloseInv, StopsInOrder, loops
    <3>3. HandlerInOrder'
      BY <1>1, <2>3, <3>1 DEF HandlerEnds, CloseInv, HandlerInOrder, Started, loops
    <3>. QED  BY <2>3, <3>1, <3>2, <3>3 DEF HandlerEnds, CloseInv, ServiceTypeOK, StopsOK
  <2>4. ASSUME NEW s \in Supervisors, LoopIsOver(s) \/ StopEnds(s)
        PROVE  StopsOK' /\ (handler = "stopped" => handler' = "stopped")
    <3>0. UNCHANGED <<accepting, handler>>
      BY <2>4 DEF LoopIsOver, StopEnds
    <3>1. PICK now \in {"pass", "done"} :
              /\ stopper[s] \in {"loop", "pass"} /\ stopper' = [stopper EXCEPT ![s] = now]
              /\ now = "pass" => loop[s] = "ended"
              /\ now = "done" => (stopper[s] = "pass" /\ ~slot[s])
      BY <2>4 DEF LoopIsOver, StopEnds, PassIsOver
    <3>2. StopsInOrder'
      <4>1. ASSUME NEW t \in Supervisors
            PROVE  /\ accepting'[t] <=> stopper'[t] = "no"
                   /\ stopper'[t] \in {"pass", "done"} => loop'[t] = "ended"
                   /\ stopper'[t] = "done" => ~slot'[t]
        <5>1. CASE t = s
          BY <1>1, <3>0, <3>1, <5>1 DEF CloseInv, ServiceTypeOK, StopsInOrder, loops
        <5>2. CASE t # s
          BY <1>1, <3>0, <3>1, <5>2 DEF CloseInv, ServiceTypeOK, StopsInOrder, loops
        <5>. QED  BY <5>1, <5>2
      <4>. QED  BY <4>1 DEF StopsInOrder
    <3>3. HandlerInOrder'
      BY <1>1, <3>0, <3>1 DEF CloseInv, ServiceTypeOK, HandlerInOrder, Started, Supervisors, loops
    <3>. QED  BY <3>0, <3>1, <3>2, <3>3 DEF CloseInv, ServiceTypeOK, StopsOK
  <2>. QED  BY <2>1, <2>2, <2>3, <2>4
<1>3. ServiceTypeOK'
  <2>1. WorkTypeOK'
    BY <1>1, WorkTyped DEF CloseInv, ServiceTypeOK
  <2>. QED  BY <1>1, <1>2, <2>1 DEF CloseInv, ServiceTypeOK, StopsOK, loops, closing
<1>4. AttemptInOrder'
  BY <1>1, <1>2 DEF CloseInv, AttemptInOrder, closing
<1>. QED  BY <1>2, <1>3, <1>4 DEF CloseInv, StopsOK

LEMMA ClosesKeepOrder ==
  CloseInv /\ (HookEnds \/ ProviderCloses \/ AttemptEnds \/ \E c \in Closers : CloseCalled(c))
      => CloseInv'
<1> SUFFICES ASSUME CloseInv,
                    \/ HookEnds \/ ProviderCloses \/ AttemptEnds
                    \/ \E c \in Closers : CloseCalled(c)
             PROVE  CloseInv'
  OBVIOUS
<1>1. UNCHANGED <<loops, gating, work>>
  BY DEF HookEnds, ProviderCloses, AttemptEnds, CloseCalled
<1>2. WorkTypeOK'
  BY <1>1, WorkTyped DEF CloseInv, ServiceTypeOK
<1>3. ASSUME UNCHANGED stops
      PROVE  StopsInOrder' /\ HandlerInOrder'
  BY <1>1, <1>3 DEF CloseInv, StopsInOrder, HandlerInOrder, Started, stops, loops
<1>4. CASE HookEnds
  <2>1. ServiceTypeOK'
    BY <1>1, <1>2, <1>4 DEF HookEnds, CloseInv, ServiceTypeOK, stops, loops
  <2>2. AttemptInOrder'
    BY <1>4 DEF HookEnds, CloseInv, AttemptInOrder, stops
  <2>. QED  BY <1>3, <1>4, <2>1, <2>2 DEF HookEnds, CloseInv
<1>5. CASE ProviderCloses
  <2>1. ServiceTypeOK'
    BY <1>1, <1>2, <1>5 DEF ProviderCloses, CloseInv, ServiceTypeOK, stops, loops
  <2>2. AttemptInOrder'
    BY <1>5 DEF ProviderCloses, CloseInv, AttemptInOrder, stops
  <2>. QED  BY <1>3, <1>5, <2>1, <2>2 DEF ProviderCloses, CloseInv
<1>6. CASE AttemptEnds
  <2>1. ServiceTypeOK'
    BY <1>1, <1>2, <1>6 DEF AttemptEnds, Answer, CloseInv, ServiceTypeOK, stops, loops
  <2>2. AttemptInOrder'
    BY <1>6 DEF AttemptEnds, Answer, CloseInv, AttemptInOrder, stops
  <2>. QED  BY <1>3, <1>6, <2>1, <2>2 DEF AttemptEnds, CloseInv
<1>7. ASSUME NEW c \in Closers, CloseCalled(c) PROVE CloseInv'
  <2>1. CASE Join(c) \/ IsClosed(c)
    <3>1. UNCHANGED stops
      BY <2>1 DEF Join, IsClosed
    <3>2. ServiceTypeOK'
      BY <1>1, <1>2, <2>1 DEF Join, IsClosed, CloseInv, ServiceTypeOK, stops, loops
    <3>3. AttemptInOrder'
      BY <2>1, <3>1 DEF Join, IsClosed, CloseInv, ServiceTypeOK, AttemptInOrder, stops
    <3>. QED  BY <1>3, <3>1, <3>2, <3>3 DEF CloseInv
  <2>2. CASE Attempt(c)
    <3>1. Started /\ StopHandler
      BY <1>7, <2>2 DEF CloseCalled, Attempt
    <3>2. StopsOK' /\ (handler = "stopped" => handler' = "stopped")
      BY <1>1, <3>1, HandlerCalled
    <3>3. ServiceTypeOK'
      BY <1>1, <1>2, <2>2, <3>2 DEF Attempt, CloseInv, ServiceTypeOK, StopsOK, loops
    <3>4. AttemptInOrder'
      BY <2>2, <3>2 DEF Attempt, CloseInv, ServiceTypeOK, AttemptInOrder
    <3>. QED  BY <3>2, <3>3, <3>4 DEF CloseInv, StopsOK
  <2>. QED  BY <1>7, <2>1, <2>2 DEF CloseCalled
<1>. QED  BY <1>4, <1>5, <1>6, <1>7

-----------------------------------------------------------------------------
LEMMA CloseInvHolds == ServiceSpec => []CloseInv
<1>1. ASSUME CloseInv, [ServiceNext]_serviceVars
      PROVE  CloseInv'
  <2>0. ServiceTypeOK
    BY <1>1 DEF CloseInv
  <2>1. CASE EffectsLoop
    BY <1>1, <2>0, <2>1, EffectsLoopMoves, LoopsKeepOrder
  <2>2. CASE PollingLoop \/ PollGateOpens
    BY <1>1, <2>0, <2>2, PollingMoves, LoopsKeepOrder
  <2>3. CASE EffectsPassEnds \/ PollingPassEnds
    BY <1>1, <2>0, <2>3, PassesMove, LoopsKeepOrder
  <2>4. CASE ScanFallsDue \/ Flush \/ \E s \in Supervisors : ManualRun(s)
    BY <1>1, <2>0, <2>4, OthersMove, LoopsKeepOrder
  <2>5. CASE StartService
    BY <1>1, <2>5, StartCloses
  <2>6. CASE StopService
    BY <1>1, <2>6, StopsKeepOrder
  <2>7. CASE Shutdown
    BY <1>1, <2>7, StopsKeepOrder, ClosesKeepOrder DEF Shutdown
  <2>8. CASE \E c \in Closers : CloseCalled(c)
    BY <1>1, <2>8, ClosesKeepOrder
  <2>9. CASE UNCHANGED serviceVars
    <3>1. UNCHANGED <<loops, stops, gating, work, closing>>
      BY <2>9 DEF serviceVars
    <3>2. LoopsMove
      <4>1. WorkTypeOK'
        BY <2>0, <3>1, WorkTyped DEF ServiceTypeOK
      <4>. QED  BY <2>0, <3>1, <4>1 DEF LoopsMove, ServiceTypeOK, Started, loops, stops, closing
    <3>. QED  BY <1>1, <3>2, LoopsKeepOrder
  <2>. QED  BY <1>1, <2>1, <2>2, <2>3, <2>4, <2>5, <2>6, <2>7, <2>8, <2>9 DEF ServiceNext
<1>. QED  BY InitCloses, <1>1, PTL DEF ServiceSpec

LEMMA InvCloses == CloseInv => CloseInOrder
<1> SUFFICES ASSUME CloseInv PROVE CloseInOrder
  OBVIOUS
<1>1. \A c \in Closers : caller[c] = "closed" => (storage = "closed" /\ attempt = "none")
  BY DEF CloseInv, AttemptInOrder
<1>2. ASSUME handler = "stopped" \/ storage = "closed", NEW s \in Supervisors
      PROVE  ~slot[s] /\ loop[s] = "ended"
  <2>1. handler = "stopped"
    BY <1>2 DEF CloseInv, AttemptInOrder
  <2>2. stopper[s] = "done"
    BY <2>1 DEF CloseInv, HandlerInOrder, Supervisors
  <2>. QED  BY <2>2 DEF CloseInv, StopsInOrder
<1>. QED  BY <1>1, <1>2 DEF CloseInOrder

\* Every variable of a runtime keeps its type.
THEOREM ServiceTypeCorrect == ServiceSpec => []ServiceTypeOK
<1>1. CloseInv => ServiceTypeOK
  BY DEF CloseInv
<1>. QED  BY <1>1, CloseInvHolds, PTL

\* A caller that is told of a close finds SQLite closed and the log drained, and no
\* loop, pass or scan is under way while the leases expire or once SQLite is closed:
\* performClose after the stop handler, for any number of callers, retries, flushes
\* and passes of others.
THEOREM ClosesInOrder == ServiceSpec => []CloseInOrder
  BY CloseInvHolds, InvCloses, PTL
=============================================================================
