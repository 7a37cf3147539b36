------------------------ MODULE RequestPacing_proofs ------------------------
(***************************************************************************)
(* Theorems about request admission, for every number of requests and      *)
(* slots, every interval, budget, window and bound.                        *)
(***************************************************************************)
EXTENDS RequestPacing, TLAPS, SequenceTheorems, FiniteSetTheorems, WellFoundedInduction

-----------------------------------------------------------------------------
(* Facts about the operators                                               *)

LEMMA LaterFact ==
    ASSUME NEW a \in Nat, NEW b \in Nat
    PROVE  Later(a, b) \in Nat /\ Later(a, b) >= a /\ Later(a, b) >= b
BY DEF Later

LEMMA SlotFact == ASSUME NEW q \in Request PROVE SlotOf(q) \in Slots /\ LaneOf(q) \in Lanes
<1>1. q.first \in Nat /\ q.step \in Nat /\ SlotCount \in Nat \ {0}
  BY PacingAssumption DEF Request, Slots
<1>2. (q.first + q.step) % SlotCount \in 0 .. SlotCount - 1
  BY <1>1
<1>3. QED
  BY <1>2 DEF SlotOf, LaneOf, Slots, Lanes

Entry == [at : Nat, by : Requests]

(* The code that ages, books and rolls back only cuts and inserts entries. *)
LEMMA CutFact ==
    ASSUME NEW b \in Seq(Entry), NEW m \in Nat \ {0}, NEW n \in Int, n <= Len(b)
    PROVE  SubSeq(b, m, n) \in Seq(Entry)
<1>1. \A i \in m .. n : b[i] \in Entry
  BY ElementOfSeq
<1>2. QED
  BY <1>1, SubSeqProperties

LEMMA CountFact ==
    ASSUME NEW n \in Nat, NEW T \in SUBSET (1 .. n)
    PROVE  Cardinality(T) \in Nat /\ Cardinality(T) <= n
<1>1. IsFiniteSet(1 .. n) /\ Cardinality(1 .. n) = n
  BY FS_Interval
<1>2. IsFiniteSet(T) /\ Cardinality(T) <= n
  BY <1>1, FS_Subset
<1>3. QED
  BY <1>2, FS_CardinalityType

LEMMA LiveBookFact == ASSUME NEW b \in Seq(Entry) PROVE LiveBook(b) \in Seq(Entry)
<1> DEFINE expired == {i \in 1 .. Len(b) : \A j \in 1 .. i : b[j].at + Window <= clock}
<1>1. Len(b) \in Nat
  OBVIOUS
<1>2. Cardinality(expired) \in Nat
  BY <1>1, CountFact
<1>3. SubSeq(b, Cardinality(expired) + 1, Len(b)) \in Seq(Entry)
  <2> HIDE DEF expired
  <2> QED
    BY <1>1, <1>2, CutFact
<1>4. QED
  BY <1>3 DEF LiveBook

LEMMA BookedFact ==
    ASSUME NEW b \in Seq(Entry), NEW entry \in Entry
    PROVE  Booked(b, entry) \in Seq(Entry)
<1> DEFINE after == {i \in 1 .. Len(b) : \A j \in i .. Len(b) : b[j].at > entry.at}
           n == Len(b) - Cardinality(after)
<1>1. Len(b) \in Nat
  OBVIOUS
<1>2. n \in Nat /\ n <= Len(b)
  BY <1>1, CountFact
<1>3. Booked(b, entry) = SubSeq(b, 1, n) \o <<entry>> \o SubSeq(b, n + 1, Len(b))
  BY DEF Booked
<1> HIDE DEF n
<1>4. SubSeq(b, 1, n) \in Seq(Entry) /\ SubSeq(b, n + 1, Len(b)) \in Seq(Entry)
  BY <1>1, <1>2, CutFact
<1>5. QED
  BY <1>3, <1>4, ConcatProperties

LEMMA RolledBackFact ==
    ASSUME NEW b \in Seq(Entry), NEW r
    PROVE  RolledBack(b, r) \in Seq(Entry)
<1> DEFINE mine == {i \in 1 .. Len(b) : b[i].by = r}
           i == CHOOSE i \in mine : TRUE
<1>1. CASE mine = {}
  BY <1>1 DEF RolledBack
<1>2. CASE mine # {}
  <2>1. i \in 1 .. Len(b)
    BY <1>2
  <2>2. RolledBack(b, r) = SubSeq(b, 1, i - 1) \o SubSeq(b, i + 1, Len(b))
    BY <1>2 DEF RolledBack
  <2> HIDE DEF i
  <2>3. SubSeq(b, 1, i - 1) \in Seq(Entry) /\ SubSeq(b, i + 1, Len(b)) \in Seq(Entry)
    BY <2>1, CutFact
  <2>4. QED
    BY <2>2, <2>3, ConcatProperties
<1>3. QED
  BY <1>1, <1>2

(* A full book proposes a start that is not in the past.                   *)
LEMMA BudgetSlotFact ==
    ASSUME NEW b \in Seq(Entry), NEW l \in Lanes, clock \in Nat
    PROVE  BudgetSlot(b, Budget(l)) \in Nat /\ BudgetSlot(b, Budget(l)) >= clock
<1>1. Budget(l) \in Nat \ {0} /\ Window \in Nat /\ Len(b) \in Nat
  BY PacingAssumption DEF Budget
<1>2. CASE Len(b) >= Budget(l)
  <2> DEFINE i == Len(b) - Budget(l) + 1
  <2>1. i \in 1 .. Len(b)
    BY <1>1, <1>2
  <2>2. BudgetSlot(b, Budget(l)) = Later(clock, b[i].at + Window)
    BY <1>2 DEF BudgetSlot
  <2> HIDE DEF i
  <2>3. b[i] \in Entry
    BY <2>1, ElementOfSeq
  <2>4. b[i].at + Window \in Nat
    BY <1>1, <2>3 DEF Entry
  <2>5. QED
    BY <2>2, <2>4, LaterFact
<1>3. QED
  BY <1>1, <1>2 DEF BudgetSlot

Pace == [mult : 1 .. MaxMult, event : Nat, quiet : Nat]

LEMMA DivFact ==
    ASSUME NEW a \in Nat, NEW k \in Nat \ {0}
    PROVE  a \div k \in Nat /\ a \div k <= a
OBVIOUS

LEMMA PaceFact ==
    ASSUME NEW p \in Pace, clock \in Nat
    PROVE  /\ SteppedDown(p) \in Pace /\ Observed(p) \in Pace
           /\ StartRecorded(p) \in Pace /\ QuotaLimited(p) \in Pace
<1>1. p.mult \in 1 .. MaxMult /\ MaxMult \in Nat \ {0} /\ p.quiet \in Nat
  BY PacingAssumption DEF Pace
<1>2. SteppedDown(p) \in Pace
  <2>1. p.mult \div StepFactor \in Nat /\ p.mult \div StepFactor <= p.mult
    BY <1>1, DivFact, PacingAssumption
  <2>2. Later(p.mult \div StepFactor, 1) \in 1 .. MaxMult
    BY <1>1, <2>1 DEF Later
  <2>3. QED
    BY <2>2 DEF SteppedDown, Pace
<1>3. QuotaLimited(p) \in Pace
  <2>1. p.mult * Growth \in Nat \ {0}
    BY <1>1, PacingAssumption
  <2>2. Lesser(p.mult * Growth, MaxMult) \in 1 .. MaxMult
    BY <1>1, <2>1 DEF Lesser
  <2>3. QED
    BY <2>2 DEF QuotaLimited, Pace
<1>4. [p EXCEPT !.quiet = p.quiet + 1] \in Pace
  BY <1>1 DEF Pace
<1>5. QED
  BY <1>2, <1>3, <1>4 DEF Observed, StartRecorded
-----------------------------------------------------------------------------
(* Type correctness                                                        *)

LEMMA RemainingFact ==
    ASSUME NEW q \in Request, clock \in Nat
    PROVE  Remaining(q) \in Nat /\ (q.deadline > clock => clock + Remaining(q) <= q.deadline)
BY PacingAssumption DEF Remaining, Lesser, Request

LEMMA NestedFact ==
    ASSUME NEW X, NEW f \in [Slots -> [Lanes -> X]], NEW s \in Slots, NEW l \in Lanes, NEW x \in X
    PROVE  [f EXCEPT ![s][l] = x] \in [Slots -> [Lanes -> X]]
<1>1. f[s] \in [Lanes -> X]
  OBVIOUS
<1>2. [f[s] EXCEPT ![l] = x] \in [Lanes -> X]
  BY <1>1
<1>3. QED
  BY <1>2

LEMMA PhaseFact ==
    ASSUME NEW q \in Request, NEW pc \in Phases
    PROVE  [q EXCEPT !.pc = pc] \in Request
BY DEF Request

LEMMA AsleepFact ==
    ASSUME NEW q \in Request, NEW pc \in Phases, NEW wake \in Nat, NEW w \in Nat
    PROVE  /\ Asleep(q, pc, wake, w) \in Request
           /\ Asleep(q, pc, wake, w).pc = pc /\ Asleep(q, pc, wake, w).wake = wake
           /\ Asleep(q, pc, wake, w).waited = q.waited + w
           /\ Asleep(q, pc, wake, w).deadline = q.deadline
           /\ Asleep(q, pc, wake, w).room = q.room
           /\ Asleep(q, pc, wake, w).pacing = q.pacing
           /\ SlotOf(Asleep(q, pc, wake, w)) = SlotOf(q)
<1> DEFINE n == q.waited + w
<1>1. n \in Nat
  BY DEF Request
<1>2. Asleep(q, pc, wake, w) = [q EXCEPT !.pc = pc, !.wake = wake, !.waited = n]
  BY DEF Asleep
<1>3. n = q.waited + w
  OBVIOUS
<1> HIDE DEF n
<1>4. QED
  BY <1>1, <1>2, <1>3 DEF Request, SlotOf

LEMMA AttemptFact ==
    ASSUME NEW r \in Requests, NEW q \in Request, Attempt(r, q)
    PROVE  LET s == SlotOf(q)
               l == LaneOf(q)
               live == LiveBook(book[s][l])
               start == BudgetSlot(live, Budget(l))
           IN  \/ /\ book' = [book EXCEPT ![s][l] = live]
                  /\ request' = [request EXCEPT ![r] = Asleep(q, "select", clock, 0)]
               \/ /\ start - clock <= Remaining(q)
                  /\ book' = [book EXCEPT ![s][l] = Booked(live, [at |-> start, by |-> r])]
                  /\ request' = [request EXCEPT ![r] = Asleep(q, "budget", start, start - clock)]
BY DEF Attempt

LEMMA AttemptTypes ==
    ASSUME TypeOK, NEW r \in Requests, NEW q \in Request, Attempt(r, q)
    PROVE  /\ book' \in [Slots -> [Lanes -> Seq(Entry)]]
           /\ request' \in [Requests -> Request]
<1> DEFINE s == SlotOf(q)
           l == LaneOf(q)
           live == LiveBook(book[s][l])
           start == BudgetSlot(live, Budget(l))
<1>1. s \in Slots /\ l \in Lanes
  BY SlotFact
<1>2. clock \in Nat /\ book \in [Slots -> [Lanes -> Seq(Entry)]] /\ request \in [Requests -> Request]
  BY DEF TypeOK, Entry
<1>3. live \in Seq(Entry)
  BY <1>1, <1>2, LiveBookFact
<1>4. start \in Nat /\ start >= clock
  BY <1>1, <1>2, <1>3, BudgetSlotFact
<1>5. Booked(live, [at |-> start, by |-> r]) \in Seq(Entry)
  BY <1>3, <1>4, BookedFact DEF Entry
<1>6. \/ /\ book' = [book EXCEPT ![s][l] = live]
         /\ request' = [request EXCEPT ![r] = Asleep(q, "select", clock, 0)]
      \/ /\ book' = [book EXCEPT ![s][l] = Booked(live, [at |-> start, by |-> r])]
         /\ request' = [request EXCEPT ![r] = Asleep(q, "budget", start, start - clock)]
  BY AttemptFact
<1>7. start - clock \in Nat /\ 0 \in Nat /\ {"select", "budget"} \subseteq Phases
  BY <1>2, <1>4 DEF Phases
<1> HIDE DEF s, l, live, start
<1>8. Asleep(q, "select", clock, 0) \in Request /\ Asleep(q, "budget", start, start - clock) \in Request
  BY <1>2, <1>4, <1>7, AsleepFact
<1> HIDE DEF Asleep
<1>9. request' \in [Requests -> Request]
  BY <1>2, <1>6, <1>8
<1> DEFINE entry == [at |-> start, by |-> r]
<1>10. Booked(live, entry) \in Seq(Entry)
  BY <1>5
<1> HIDE DEF entry
<1>11. /\ [book EXCEPT ![s][l] = live] \in [Slots -> [Lanes -> Seq(Entry)]]
       /\ [book EXCEPT ![s][l] = Booked(live, entry)] \in [Slots -> [Lanes -> Seq(Entry)]]
  BY <1>1, <1>2, <1>3, <1>10, NestedFact
<1>12. book' = [book EXCEPT ![s][l] = live] \/ book' = [book EXCEPT ![s][l] = Booked(live, entry)]
  BY <1>6 DEF entry
<1>13. QED
  BY <1>9, <1>11, <1>12

(* Where the lane would let a start be, and what the gate leaves behind.   *)
LEMMA LaneStartFact ==
    ASSUME TypeOK, NEW s \in Slots, NEW l \in Lanes
    PROVE  /\ LaneStart(s, l) \in Nat /\ LaneStart(s, l) >= clock
           /\ Observes(s, l) \in Pace
<1>1. clock \in Nat /\ horizon[s][l] \in Nat /\ pace[s][l] \in Pace
  BY DEF TypeOK, Pace
<1>2. Observes(s, l) \in Pace
  BY <1>1, PaceFact DEF Observes
<1>3. Observes(s, l).mult \in Nat /\ Interval \in Nat
  BY <1>2, PacingAssumption DEF Pace
<1> DEFINE gap == Interval * Observes(s, l).mult
<1>4. gap \in Nat
  BY <1>3
<1>5. LaneStart(s, l) = IF horizon[s][l] = Never THEN clock ELSE Later(clock, horizon[s][l] + gap)
  BY DEF LaneStart
<1> HIDE DEF gap
<1> DEFINE next == horizon[s][l] + gap
<1>6. next \in Nat
  BY <1>1, <1>4
<1>7. LaneStart(s, l) = clock \/ LaneStart(s, l) = Later(clock, next)
  BY <1>5
<1> HIDE DEF next
<1>8. LaneStart(s, l) \in Nat /\ LaneStart(s, l) >= clock
  <2>1. CASE LaneStart(s, l) = clock
    BY <1>1, <2>1
  <2>2. CASE LaneStart(s, l) = Later(clock, next)
    <3>1. Later(clock, next) \in Nat /\ Later(clock, next) >= clock
      BY <1>1, <1>6, LaterFact
    <3>2. QED
      BY <2>2, <3>1
  <2>3. QED
    BY <1>7, <2>1, <2>2
<1>9. QED
  BY <1>2, <1>8

LEMMA GateFact ==
    ASSUME TypeOK, NEW r \in Requests, NEW room \in Nat, LaneGate(r, room)
    PROVE  LET q == request[r]
               s == SlotOf(q)
               l == LaneOf(q)
               start == LaneStart(s, l)
           IN  \/ /\ request' = [request EXCEPT ![r] = Asleep(q, "undo", clock, 0)]
                  /\ horizon' = horizon
               \/ /\ start - clock <= room
                  /\ horizon' = [horizon EXCEPT ![s][l] = start]
                  /\ request' = [request EXCEPT ![r] = Asleep(q, "lane", start, start - clock)]
BY Zenon DEF LaneGate, Admits

LEMMA GateTypes ==
    ASSUME TypeOK, NEW r \in Requests, NEW room \in Nat, LaneGate(r, room)
    PROVE  /\ request' \in [Requests -> Request]
           /\ horizon' \in [Slots -> [Lanes -> Nat]]
           /\ pace' \in [Slots -> [Lanes -> Pace]]
<1> DEFINE q == request[r]
           s == SlotOf(q)
           l == LaneOf(q)
           start == LaneStart(s, l)
<1>1. q \in Request /\ s \in Slots /\ l \in Lanes /\ clock \in Nat
  BY SlotFact DEF TypeOK
<1>2. start \in Nat /\ start >= clock /\ Observes(s, l) \in Pace
  BY <1>1, LaneStartFact
<1>3. /\ request \in [Requests -> Request] /\ horizon \in [Slots -> [Lanes -> Nat]]
      /\ pace \in [Slots -> [Lanes -> Pace]]
  BY DEF TypeOK, Pace
<1>4. pace' = pace \/ pace' = [pace EXCEPT ![s][l] = Observes(s, l)]
  BY Zenon DEF LaneGate
<1>5. \/ /\ request' = [request EXCEPT ![r] = Asleep(q, "undo", clock, 0)]
         /\ horizon' = horizon
      \/ /\ horizon' = [horizon EXCEPT ![s][l] = start]
         /\ request' = [request EXCEPT ![r] = Asleep(q, "lane", start, start - clock)]
  BY GateFact
<1>6. start - clock \in Nat /\ 0 \in Nat /\ {"undo", "lane"} \subseteq Phases
  BY <1>1, <1>2 DEF Phases
<1> HIDE DEF q, s, l, start
<1>7. Asleep(q, "undo", clock, 0) \in Request /\ Asleep(q, "lane", start, start - clock) \in Request
  BY <1>1, <1>2, <1>6, AsleepFact
<1> HIDE DEF Asleep
<1>8. request' \in [Requests -> Request]
  BY <1>3, <1>5, <1>7
<1>9. horizon' \in [Slots -> [Lanes -> Nat]]
  <2>1. [horizon EXCEPT ![s][l] = start] \in [Slots -> [Lanes -> Nat]]
    BY <1>1, <1>2, <1>3, NestedFact
  <2>2. QED
    BY <1>3, <1>5, <2>1
<1>10. pace' \in [Slots -> [Lanes -> Pace]]
  <2>1. [pace EXCEPT ![s][l] = Observes(s, l)] \in [Slots -> [Lanes -> Pace]]
    BY <1>1, <1>2, <1>3, NestedFact
  <2>2. QED
    BY <1>3, <1>4, <2>1
<1>11. QED
  BY <1>8, <1>9, <1>10

(* The request that a pick of the scheduler takes from its queue.          *)
LEMMA PickFact ==
    ASSUME TypeOK, NEW s \in Slots, Waiting(s)
    PROVE  /\ PickClass(s) \in ReadClasses
           /\ queue[s][PickClass(s)] \in Seq(Requests)
           /\ queue[s][PickClass(s)] # <<>>
           /\ Head(queue[s][PickClass(s)]) \in Requests
           /\ Tail(queue[s][PickClass(s)]) \in Seq(Requests)
<1>1. \A c \in ReadClasses : queue[s][c] \in Seq(Requests)
  BY DEF TypeOK
<1>2. PickClass(s) \in ReadClasses /\ queue[s][PickClass(s)] # <<>>
  BY DEF PickClass, Waiting, ReadClasses
<1>3. QED
  BY <1>1, <1>2

LEMMA TypeInit == Init => TypeOK
<1> SUFFICES ASSUME Init PROVE TypeOK
  OBVIOUS
<1>1. 0 \in Nat /\ 0 \in Slots /\ Nobody = SlotCount /\ Never \in Nat /\ 1 \in 1 .. MaxMult
  BY PacingAssumption DEF Slots, Nobody, Never
<1>2. PICK mix \in Mixes : request = [r \in Requests |-> Fresh(mix[r])]
  BY DEF Init
<1>3. \A r \in Requests : Fresh(mix[r]) \in Request
  BY <1>1, <1>2, PacingAssumption DEF Fresh, Request, Phases, ReadClasses
<1>4. QED
  BY <1>1, <1>2, <1>3 DEF Init, TypeOK, Nominal, Nobody

(* The request an admission begins with, and the one it tries the next     *)
(* slot with.                                                              *)
LEMMA BegunFact ==
    ASSUME TypeOK, NEW r \in Requests
    PROVE  LET q == [request[r] EXCEPT !.deadline = clock + MaxWait, !.first = cursor]
           IN  q \in Request /\ q.waited = request[r].waited /\ q.deadline = clock + MaxWait
<1> DEFINE d == clock + MaxWait
<1>1. request[r] \in Request /\ d \in Nat /\ cursor \in Slots
  <2>1. request[r] \in Request /\ clock \in Nat /\ cursor \in Slots
    BY DEF TypeOK
  <2>2. MaxWait \in Nat
    BY PacingAssumption
  <2>3. QED
    BY <2>1, <2>2
<1> HIDE DEF d
<1>2. LET x == [request[r] EXCEPT !.deadline = d, !.first = cursor]
      IN  x \in Request /\ x.waited = request[r].waited /\ x.deadline = d
  BY <1>1 DEF Request
<1>3. QED
  BY <1>2 DEF d

LEMMA SteppedFact ==
    ASSUME TypeOK, NEW r \in Requests
    PROVE  LET q == [request[r] EXCEPT !.step = request[r].step + 1]
           IN  /\ q \in Request /\ q.waited = request[r].waited
               /\ q.deadline = request[r].deadline
<1> DEFINE n == request[r].step + 1
<1>1. request[r] \in Request /\ n \in Nat
  BY DEF TypeOK, Request
<1> HIDE DEF n
<1>2. LET x == [request[r] EXCEPT !.step = n]
      IN  x \in Request /\ x.waited = request[r].waited /\ x.deadline = request[r].deadline
  BY <1>1 DEF Request
<1>3. QED
  BY <1>2 DEF n

(* The parts of TypeOK one action can disturb, one lemma per action.       *)
LEMMA BeginTypes == ASSUME TypeOK, NEW r \in Requests, Begin(r) PROVE TypeOK'
<1> DEFINE q == [request[r] EXCEPT !.deadline = clock + MaxWait, !.first = cursor]
<1>1. q \in Request
  BY BegunFact
<1>2. Attempt(r, q)
  BY DEF Begin
<1> HIDE DEF q
<1>3. book' \in [Slots -> [Lanes -> Seq(Entry)]] /\ request' \in [Requests -> Request]
  BY <1>1, <1>2, AttemptTypes
<1>4. cursor' \in Slots
  <2>1. SlotCount \in Nat \ {0}
    BY PacingAssumption
  <2>2. cursor \in Nat /\ cursor' = (cursor + 1) % SlotCount
    BY <2>1 DEF Begin, TypeOK, Slots
  <2>3. QED
    BY <2>1, <2>2 DEF Slots
<1>5. QED
  BY <1>3, <1>4 DEF Begin, TypeOK, readVars, Entry

LEMMA NextSlotTypes == ASSUME TypeOK, NEW r \in Requests, NextSlot(r) PROVE TypeOK'
<1> DEFINE q == [request[r] EXCEPT !.step = request[r].step + 1]
<1>1. q \in Request
  BY SteppedFact
<1>2. \/ Attempt(r, q)
      \/ request' = [request EXCEPT ![r].pc = "refused"] /\ UNCHANGED book
  BY DEF NextSlot
<1> HIDE DEF q
<1>3. book' \in [Slots -> [Lanes -> Seq(Entry)]] /\ request' \in [Requests -> Request]
  <2>1. CASE Attempt(r, q)
    BY <1>1, <2>1, AttemptTypes
  <2>2. CASE request' = [request EXCEPT ![r].pc = "refused"] /\ UNCHANGED book
    <3>1. request[r] \in Request /\ "refused" \in Phases
      BY DEF TypeOK, Phases
    <3>2. [request[r] EXCEPT !.pc = "refused"] \in Request
      BY <3>1, PhaseFact
    <3>3. QED
      BY <2>2, <3>2 DEF TypeOK, Entry
  <2>3. QED
    BY <1>2, <2>1, <2>2
<1>4. QED
  BY <1>3 DEF NextSlot, TypeOK, readVars, Entry

LEMMA WriteGateTypes == ASSUME TypeOK, NEW r \in Requests, WriteGate(r) PROVE TypeOK'
<1>1. Remaining(request[r]) \in Nat
  BY RemainingFact DEF TypeOK
<1>2. /\ request' \in [Requests -> Request]
      /\ horizon' \in [Slots -> [Lanes -> Nat]]
      /\ pace' \in [Slots -> [Lanes -> Pace]]
  BY <1>1, GateTypes DEF WriteGate
<1>3. QED
  BY <1>2 DEF WriteGate, TypeOK, readVars, Pace

LEMMA EnqueueTypes == ASSUME TypeOK, NEW r \in Requests, Enqueue(r) PROVE TypeOK'
<1> DEFINE q == request[r]
           s == SlotOf(q)
<1>1. q \in Request /\ s \in Slots /\ Remaining(q) \in Nat /\ q.pacing \in ReadClasses
  BY SlotFact, RemainingFact DEF TypeOK, Enqueue
<1>2. queue' \in [Slots -> [ReadClasses -> Seq(Requests)]]
  <2>1. Append(queue[s][q.pacing], r) \in Seq(Requests)
    BY <1>1 DEF TypeOK
  <2>2. queue' = [queue EXCEPT ![s][q.pacing] = Append(queue[s][q.pacing], r)]
    BY DEF Enqueue
  <2> HIDE DEF q, s
  <2>3. QED
    BY <1>1, <2>1, <2>2 DEF TypeOK
<1>3. request' \in [Requests -> Request]
  <2>1. clock \in Nat /\ "queued" \in Phases
    BY DEF TypeOK, Phases
  <2>2. [q EXCEPT !.pc = "queued", !.wake = clock, !.room = Remaining(q)] \in Request
    BY <1>1, <2>1 DEF Request
  <2>3. QED
    BY <2>2 DEF Enqueue, TypeOK
<1>4. QED
  BY <1>1, <1>2, <1>3 DEF Enqueue, TypeOK, laneVars, Nobody

LEMMA PickTypes == ASSUME TypeOK, NEW s \in Slots, Pick(s) PROVE TypeOK'
<1> DEFINE c == PickClass(s)
           r == Head(queue[s][c])
<1>1. c \in ReadClasses /\ r \in Requests /\ Tail(queue[s][c]) \in Seq(Requests)
  BY PickFact DEF Pick
<1>2. request[r].room \in Nat
  BY <1>1 DEF TypeOK, Request
<1>3. /\ request' \in [Requests -> Request]
      /\ horizon' \in [Slots -> [Lanes -> Nat]]
      /\ pace' \in [Slots -> [Lanes -> Pace]]
  BY <1>1, <1>2, GateTypes DEF Pick
<1>4. queue' = [queue EXCEPT ![s][c] = Tail(queue[s][c])]
  BY DEF Pick
<1>5. streak' \in [Slots -> Nat]
  BY DEF Pick, TypeOK
<1>6. UNCHANGED <<clock, cursor, book, draining, serving>>
  BY DEF Pick
<1> HIDE DEF c, r
<1>7. queue' \in [Slots -> [ReadClasses -> Seq(Requests)]]
  BY <1>1, <1>4 DEF TypeOK
<1>8. QED
  BY <1>3, <1>5, <1>6, <1>7 DEF TypeOK, Pace

LEMMA UndoTypes == ASSUME TypeOK, NEW r \in Requests, Undo(r) PROVE TypeOK'
<1> DEFINE q == request[r]
           s == SlotOf(q)
           l == LaneOf(q)
<1>1. q \in Request /\ s \in Slots /\ l \in Lanes /\ clock \in Nat
  BY SlotFact DEF TypeOK
<1>2. book \in [Slots -> [Lanes -> Seq(Entry)]] /\ request \in [Requests -> Request]
  BY DEF TypeOK, Entry
<1>3. RolledBack(book[s][l], r) \in Seq(Entry)
  BY <1>1, <1>2, RolledBackFact
<1>4. book' = [book EXCEPT ![s][l] = RolledBack(book[s][l], r)]
  BY DEF Undo
<1>5. request' = [request EXCEPT ![r] = Asleep(q, "select", clock, 0)]
  BY DEF Undo
<1>6. UNCHANGED <<clock, cursor, horizon, pace, queue, streak, draining, serving>>
  BY DEF Undo, readVars
<1> HIDE DEF q, s, l
<1>7. Asleep(q, "select", clock, 0) \in Request
  BY <1>1, AsleepFact DEF Phases
<1>8. book' \in [Slots -> [Lanes -> Seq(Entry)]]
  BY <1>1, <1>2, <1>3, <1>4, NestedFact
<1>9. request' \in [Requests -> Request]
  BY <1>2, <1>5, <1>7
<1>10. QED
  BY <1>6, <1>8, <1>9 DEF TypeOK, Entry

LEMMA PaceTypes ==
    ASSUME TypeOK, NEW s \in Slots, NEW l \in Lanes, NEW p \in Pace,
           pace' = [pace EXCEPT ![s][l] = p]
    PROVE  pace' \in [Slots -> [Lanes -> Pace]]
<1>1. pace \in [Slots -> [Lanes -> Pace]]
  BY DEF TypeOK, Pace
<1>2. QED
  BY <1>1, NestedFact

LEMMA StartTypes == ASSUME TypeOK, NEW r \in Requests, Start(r) PROVE TypeOK'
<1> DEFINE s == SlotOf(request[r])
           l == LaneOf(request[r])
<1>1. s \in Slots /\ l \in Lanes /\ clock \in Nat /\ pace[s][l] \in Pace
  BY SlotFact DEF TypeOK, Pace
<1>2. pace' = [pace EXCEPT ![s][l] = StartRecorded(pace[s][l])]
  BY DEF Start
<1>3. request' \in [Requests -> Request]
  <2>1. [request[r] EXCEPT !.pc = "flying", !.at = clock] \in Request
    <3>1. request[r] \in Request /\ clock \in Nat /\ "flying" \in Phases
      BY DEF TypeOK, Phases
    <3>2. QED
      BY <3>1 DEF Request
  <2>2. request' = [request EXCEPT ![r] = [request[r] EXCEPT !.pc = "flying", !.at = clock]]
    BY DEF Start, TypeOK
  <2>3. QED
    BY <2>1, <2>2 DEF TypeOK
<1> HIDE DEF s, l
<1>4. pace' \in [Slots -> [Lanes -> Pace]]
  BY <1>1, <1>2, PaceFact, PaceTypes
<1>5. QED
  BY <1>3, <1>4 DEF Start, TypeOK, Pace, readVars

LEMMA SettleTypes ==
    ASSUME TypeOK, NEW r \in Requests, NEW limited \in BOOLEAN, Settle(r, limited)
    PROVE  TypeOK'
<1> DEFINE s == SlotOf(request[r])
           l == LaneOf(request[r])
<1>1. s \in Slots /\ l \in Lanes /\ clock \in Nat /\ pace[s][l] \in Pace
  BY SlotFact DEF TypeOK, Pace
<1>2. pace' = pace \/ pace' = [pace EXCEPT ![s][l] = QuotaLimited(pace[s][l])]
  BY DEF Settle
<1>3. request' \in [Requests -> Request]
  <2>1. request[r] \in Request /\ "done" \in Phases
    BY DEF TypeOK, Phases
  <2>2. [request[r] EXCEPT !.pc = "done"] \in Request
    BY <2>1, PhaseFact
  <2>3. QED
    BY <2>2 DEF Settle, TypeOK
<1> HIDE DEF s, l
<1>4. pace' \in [Slots -> [Lanes -> Pace]]
  <2>1. CASE pace' = pace
    BY <2>1 DEF TypeOK, Pace
  <2>2. QED
    BY <1>1, <1>2, <2>1, PaceFact, PaceTypes
<1>5. QED
  BY <1>3, <1>4 DEF Settle, TypeOK, Pace, readVars

LEMMA TypeStep == TypeOK /\ [Next]_vars => TypeOK'
<1> SUFFICES ASSUME TypeOK, [Next]_vars PROVE TypeOK'
  OBVIOUS
<1>1. ASSUME NEW r \in Requests, Continue(r) PROVE TypeOK'
  BY <1>1, NextSlotTypes, WriteGateTypes, EnqueueTypes, UndoTypes, StartTypes DEF Continue
<1>2. ASSUME NEW s \in Slots, BatchEnds(s) \/ Drain(s) PROVE TypeOK'
  <2>1. /\ serving' \in Slots \cup {Nobody}
        /\ draining' = draining \/ draining' = [draining EXCEPT ![s] = FALSE]
    BY <1>2 DEF BatchEnds, Drain, TypeOK
  <2>2. UNCHANGED <<clock, cursor, request, book, horizon, pace, queue, streak>>
    BY <1>2 DEF BatchEnds, Drain, laneVars
  <2>3. draining' \in [Slots -> BOOLEAN]
    BY <2>1 DEF TypeOK
  <2>4. QED
    BY <2>1, <2>2, <2>3 DEF TypeOK
<1>3. ASSUME NEW s \in Slots, Scheduler(s) PROVE TypeOK'
  BY <1>2, <1>3, PickTypes DEF Scheduler
<1>4. CASE Tick
  <2>1. clock' \in Nat
    BY <1>4 DEF Tick, TypeOK
  <2>2. UNCHANGED <<cursor, request, book, horizon, pace, queue, streak, draining, serving>>
    BY <1>4 DEF Tick, laneVars, readVars
  <2>3. QED
    BY <2>1, <2>2 DEF TypeOK
<1>5. CASE UNCHANGED vars
  BY <1>5 DEF vars, laneVars, readVars, TypeOK
<1>6. QED
  BY <1>1, <1>3, <1>4, <1>5, BeginTypes, SettleTypes DEF Next

(* Every variable keeps a value the code can give it; in particular the    *)
(* pacing multiplier never leaves the range between the base interval and  *)
(* the configured ceiling, for any growth and recovery factors.            *)
THEOREM TypeCorrect == Spec => []TypeOK
BY TypeInit, TypeStep, PTL DEF Spec
-----------------------------------------------------------------------------
(* The drain loop                                                          *)

(* A waiter in a read queue always has a drain loop that will serve it,    *)
(* however enqueues fall between the loop's last batch and its return.     *)
THEOREM NoWaiterIsLost == Spec => []NoLostWaiter
<1>1. Init => NoLostWaiter
  BY DEF Init, NoLostWaiter, Waiting
<1>2. TypeOK /\ NoLostWaiter /\ [Next]_vars => NoLostWaiter'
  <2> SUFFICES ASSUME TypeOK, NoLostWaiter, [Next]_vars PROVE NoLostWaiter'
    OBVIOUS
  <2>1. CASE UNCHANGED <<queue, draining>>
    BY <2>1 DEF NoLostWaiter, Waiting
  <2>2. ASSUME NEW r \in Requests, Enqueue(r) PROVE NoLostWaiter'
    <3> DEFINE s == SlotOf(request[r])
    <3>1. /\ s \in Slots
          /\ draining' = [draining EXCEPT ![s] = TRUE]
          /\ \A x \in Slots : x # s => queue'[x] = queue[x]
      BY <2>2, SlotFact DEF Enqueue, TypeOK
    <3>2. draining \in [Slots -> BOOLEAN]
      BY DEF TypeOK
    <3> HIDE DEF s
    <3>3. QED
      BY <3>1, <3>2 DEF NoLostWaiter, Waiting
  <2>3. ASSUME NEW s \in Slots, Pick(s) PROVE NoLostWaiter'
    <3>1. /\ Waiting(s) /\ draining' = draining
          /\ \A x \in Slots : x # s => queue'[x] = queue[x]
      BY <2>3 DEF Pick, TypeOK
    <3>2. QED
      BY <3>1 DEF NoLostWaiter, Waiting
  <2>4. ASSUME NEW s \in Slots, Drain(s) PROVE NoLostWaiter'
    BY <2>4 DEF Drain, NoLostWaiter, Waiting, TypeOK
  <2>5. ASSUME NEW r \in Requests,
               Begin(r) \/ NextSlot(r) \/ WriteGate(r) \/ Undo(r) \/ Start(r)
        PROVE  NoLostWaiter'
    BY <2>1, <2>5 DEF Begin, NextSlot, WriteGate, Undo, Start, readVars
  <2>6. ASSUME NEW r \in Requests, NEW limited \in BOOLEAN, Settle(r, limited)
        PROVE  NoLostWaiter'
    BY <2>1, <2>6 DEF Settle, readVars
  <2>7. ASSUME NEW s \in Slots, BatchEnds(s) PROVE NoLostWaiter'
    BY <2>1, <2>7 DEF BatchEnds
  <2>8. CASE Tick \/ UNCHANGED vars
    BY <2>1, <2>8 DEF Tick, vars, readVars
  <2>9. QED
    BY <2>2, <2>3, <2>4, <2>5, <2>6, <2>7, <2>8 DEF Next, Continue, Scheduler
<1>3. QED
  BY <1>1, <1>2, TypeCorrect, PTL DEF Spec
-----------------------------------------------------------------------------
(* The admission bound                                                     *)

(* What a request has waited fits between its begin, which is deadline -   *)
(* MaxWait, and its wake; a queued read has room left for one more wait.   *)
Begun(q) == q.pc # "new"
Frugal(q) ==
    /\ q.waited <= MaxWait
    /\ ~Begun(q) => q.waited = 0
    /\ Begun(q) => q.waited + q.deadline <= q.wake + MaxWait
    /\ q.pc \in {"select", "queued", "undo"} => q.wake <= clock
    /\ q.pc = "queued" => q.waited + q.room <= MaxWait

(* A read is in its own queue, once, and only while it is queued.          *)
InQueue(s, c, i) ==
    LET q == request[queue[s][c][i]]
    IN  q.pc = "queued" /\ SlotOf(q) = s /\ q.pacing = c

Queued ==
    \A s \in Slots, c \in ReadClasses : \A i \in 1 .. Len(queue[s][c]) :
        /\ InQueue(s, c, i)
        /\ \A j \in 1 .. Len(queue[s][c]) : queue[s][c][j] = queue[s][c][i] => j = i

WaitInv == (\A r \in Requests : Frugal(request[r])) /\ Queued

(* A wait within what remains of the bound keeps the account.              *)
LEMMA WaitFact ==
    ASSUME clock \in Nat, NEW q \in Request, NEW w \in Nat,
           w <= Remaining(q), q.waited <= MaxWait, q.waited + q.deadline <= clock + MaxWait
    PROVE  q.waited + w <= MaxWait /\ q.waited + w + q.deadline <= clock + w + MaxWait
<1>1. q.waited \in Nat /\ q.deadline \in Nat /\ MaxWait \in Nat
  BY PacingAssumption DEF Request
<1>2. CASE q.deadline > clock
  BY <1>1, <1>2 DEF Remaining, Lesser
<1>3. CASE ~(q.deadline > clock)
  BY <1>1, <1>3 DEF Remaining
<1>4. QED
  BY <1>2, <1>3

(* An attempt of a request whose account is kept leaves it kept.           *)
LEMMA AttemptFrugal ==
    ASSUME TypeOK, NEW r \in Requests, NEW q \in Request, Attempt(r, q),
           q.waited <= MaxWait, q.waited + q.deadline <= clock + MaxWait
    PROVE  /\ \A x \in Requests \ {r} : request'[x] = request[x]
           /\ Frugal(request'[r]) /\ request'[r].pc # "queued"
<1> DEFINE s == SlotOf(q)
           l == LaneOf(q)
           live == LiveBook(book[s][l])
           start == BudgetSlot(live, Budget(l))
<1>1. s \in Slots /\ l \in Lanes /\ clock \in Nat /\ live \in Seq(Entry)
      /\ request \in [Requests -> Request]
  BY SlotFact, LiveBookFact DEF TypeOK, Entry
<1>2. start \in Nat /\ start >= clock
  BY <1>1, BudgetSlotFact
<1>3. \/ request' = [request EXCEPT ![r] = Asleep(q, "select", clock, 0)]
      \/ /\ start - clock <= Remaining(q)
         /\ request' = [request EXCEPT ![r] = Asleep(q, "budget", start, start - clock)]
  BY AttemptFact
<1> HIDE DEF s, l, live, start
<1>4. \A x \in Requests \ {r} : request'[x] = request[x]
  BY <1>1, <1>3
<1>5. q.waited \in Nat /\ q.deadline \in Nat /\ MaxWait \in Nat
  BY PacingAssumption DEF Request
<1>6. CASE request' = [request EXCEPT ![r] = Asleep(q, "select", clock, 0)]
  <2> DEFINE a == Asleep(q, "select", clock, 0)
  <2>1. a.pc = "select" /\ a.wake = clock /\ a.waited = q.waited + 0 /\ a.deadline = q.deadline
    BY <1>1 DEF Asleep, Request
  <2>2. request'[r] = a
    BY <1>1, <1>6
  <2> HIDE DEF a
  <2>3. Frugal(a)
    BY <2>1, <1>1, <1>5 DEF Frugal, Begun
  <2>4. QED
    BY <1>4, <2>1, <2>2, <2>3
<1>7. CASE /\ start - clock <= Remaining(q)
           /\ request' = [request EXCEPT ![r] = Asleep(q, "budget", start, start - clock)]
  <2> DEFINE w == start - clock
             a == Asleep(q, "budget", start, w)
  <2>1. w \in Nat /\ start = clock + w
    BY <1>1, <1>2
  <2>2. request'[r] = a
    BY <1>1, <1>7
  <2>3. w <= Remaining(q)
    BY <1>7
  <2> HIDE DEF w
  <2>4. /\ a.pc = "budget" /\ a.wake = start /\ a.waited = q.waited + w
        /\ a.deadline = q.deadline
    BY <1>2, <2>1 DEF Asleep, Request
  <2>5. q.waited + w <= MaxWait /\ q.waited + w + q.deadline <= clock + w + MaxWait
    BY <1>1, <2>1, <2>3, WaitFact
  <2> HIDE DEF a
  <2>6. Frugal(a)
    BY <2>1, <2>4, <2>5, <1>1, <1>5 DEF Frugal, Begun
  <2>7. QED
    BY <1>4, <2>2, <2>4, <2>6
<1>8. QED
  BY <1>3, <1>6, <1>7

LEMMA GateFrugal ==
    ASSUME TypeOK, NEW r \in Requests, NEW room \in Nat, LaneGate(r, room),
           request[r].waited + room <= MaxWait \/ room = Remaining(request[r]),
           request[r].waited <= MaxWait,
           request[r].waited + request[r].deadline <= clock + MaxWait
    PROVE  /\ \A x \in Requests \ {r} : request'[x] = request[x]
           /\ Frugal(request'[r]) /\ request'[r].pc # "queued"
<1> DEFINE q == request[r]
           s == SlotOf(q)
           l == LaneOf(q)
           start == LaneStart(s, l)
<1>1. /\ q \in Request /\ s \in Slots /\ l \in Lanes /\ clock \in Nat
      /\ request \in [Requests -> Request]
  BY SlotFact DEF TypeOK
<1>2. start \in Nat /\ start >= clock
  BY <1>1, LaneStartFact
<1>3. \/ request' = [request EXCEPT ![r] = Asleep(q, "undo", clock, 0)]
      \/ /\ start - clock <= room
         /\ request' = [request EXCEPT ![r] = Asleep(q, "lane", start, start - clock)]
  BY GateFact
<1>4. q.waited \in Nat /\ q.deadline \in Nat /\ MaxWait \in Nat
  BY <1>1, PacingAssumption DEF Request
<1>5. q.waited + room <= MaxWait \/ room = Remaining(q)
  OBVIOUS
<1>6. q.waited <= MaxWait /\ q.waited + q.deadline <= clock + MaxWait
  OBVIOUS
<1> HIDE DEF q, s, l, start
<1>7. \A x \in Requests \ {r} : request'[x] = request[x]
  BY <1>1, <1>3
<1>8. CASE request' = [request EXCEPT ![r] = Asleep(q, "undo", clock, 0)]
  <2> DEFINE a == Asleep(q, "undo", clock, 0)
  <2>1. a.pc = "undo" /\ a.wake = clock /\ a.waited = q.waited + 0 /\ a.deadline = q.deadline
    BY <1>1 DEF Asleep, Request
  <2>2. request'[r] = a
    BY <1>1, <1>8
  <2> HIDE DEF a
  <2>3. Frugal(a)
    BY <2>1, <1>1, <1>4, <1>6 DEF Frugal, Begun
  <2>4. QED
    BY <1>7, <2>1, <2>2, <2>3
<1>9. CASE /\ start - clock <= room
           /\ request' = [request EXCEPT ![r] = Asleep(q, "lane", start, start - clock)]
  <2> DEFINE w == start - clock
             a == Asleep(q, "lane", start, w)
  <2>1. w \in Nat /\ start = clock + w
    BY <1>1, <1>2
  <2>2. request'[r] = a
    BY <1>1, <1>9
  <2>3. w <= room
    BY <1>9
  <2> HIDE DEF w
  <2>4. /\ a.pc = "lane" /\ a.wake = start /\ a.waited = q.waited + w
        /\ a.deadline = q.deadline
    BY <1>1, <1>2, <2>1 DEF Asleep, Request
  <2>5. q.waited + w <= MaxWait
    <3>1. CASE q.waited + room <= MaxWait
      BY <1>4, <2>1, <2>3, <3>1
    <3>2. CASE room = Remaining(q)
      BY <1>1, <1>6, <2>1, <2>3, <3>2, WaitFact
    <3>3. QED
      BY <1>5, <3>1, <3>2
  <2> HIDE DEF a
  <2>6. Frugal(a)
    BY <2>1, <2>4, <2>5, <1>1, <1>4, <1>6 DEF Frugal, Begun
  <2>7. QED
    BY <1>7, <2>2, <2>4, <2>6
<1>10. QED
  BY <1>3, <1>8, <1>9

(* A step of one request that is not queued disturbs nothing else.         *)
LEMMA OneMoves ==
    ASSUME TypeOK, WaitInv, NEW r \in Requests, request[r].pc # "queued",
           \A x \in Requests \ {r} : request'[x] = request[x],
           Frugal(request'[r]), clock' = clock, queue' = queue
    PROVE  WaitInv'
<1>1. \A x \in Requests : Frugal(request[x])'
  BY DEF WaitInv, Frugal
<1>2. Queued'
  <2>1. \A s \in Slots, c \in ReadClasses : \A i \in 1 .. Len(queue[s][c]) :
           queue[s][c][i] \in Requests \ {r}
    <3>1. ASSUME NEW s \in Slots, NEW c \in ReadClasses, NEW i \in 1 .. Len(queue[s][c])
          PROVE  queue[s][c][i] \in Requests \ {r}
      <4>1. queue[s][c] \in Seq(Requests)
        BY DEF TypeOK
      <4>2. queue[s][c][i] \in Requests
        BY <4>1, ElementOfSeq
      <4>3. request[queue[s][c][i]].pc = "queued"
        BY DEF WaitInv, Queued, InQueue
      <4>4. QED
        BY <4>2, <4>3
    <3>2. QED
      BY <3>1
  <2>2. QED
    BY <2>1 DEF WaitInv, Queued, InQueue
<1>3. QED
  BY <1>1, <1>2 DEF WaitInv

(* What the account says of a request whose wake has come.                 *)
LEMMA AwakeFact ==
    ASSUME TypeOK, WaitInv, NEW r \in Requests, Begun(request[r]), clock >= request[r].wake
    PROVE  /\ request[r].waited <= MaxWait
           /\ request[r].waited + request[r].deadline <= clock + MaxWait
<1>1. request[r] \in Request /\ clock \in Nat /\ MaxWait \in Nat
  BY PacingAssumption DEF TypeOK
<1>2. Frugal(request[r])
  BY DEF WaitInv
<1>3. QED
  BY <1>1, <1>2 DEF Frugal, Request

LEMMA BeginWaits ==
    ASSUME TypeOK, WaitInv, NEW r \in Requests, Begin(r) PROVE WaitInv'
<1> DEFINE q == [request[r] EXCEPT !.deadline = clock + MaxWait, !.first = cursor]
<1>1. request[r] \in Request /\ clock \in Nat /\ MaxWait \in Nat /\ cursor \in Slots
  BY PacingAssumption DEF TypeOK
<1>2. request[r].pc = "new" /\ request[r].waited = 0
  BY DEF Begin, WaitInv, Frugal, Begun
<1>3. q \in Request /\ q.waited = 0 /\ q.deadline = clock + MaxWait
  BY <1>2, BegunFact
<1>4. Attempt(r, q) /\ UNCHANGED <<clock, queue>>
  BY DEF Begin, readVars
<1> HIDE DEF q
<1>5. q.waited <= MaxWait /\ q.waited + q.deadline <= clock + MaxWait
  BY <1>1, <1>3
<1>6. (\A x \in Requests \ {r} : request'[x] = request[x]) /\ Frugal(request'[r])
  BY <1>3, <1>4, <1>5, AttemptFrugal
<1>7. QED
  BY <1>2, <1>4, <1>6, OneMoves

LEMMA NextSlotWaits ==
    ASSUME TypeOK, WaitInv, NEW r \in Requests, NextSlot(r) PROVE WaitInv'
<1> DEFINE q == [request[r] EXCEPT !.step = request[r].step + 1]
<1>1. request[r] \in Request /\ clock \in Nat /\ request \in [Requests -> Request]
  BY DEF TypeOK
<1>2. request[r].pc = "select" /\ UNCHANGED <<clock, queue>>
  BY DEF NextSlot, readVars
<1>3. Frugal(request[r]) /\ request[r].wake <= clock
  BY <1>2 DEF WaitInv, Frugal
<1>4. q \in Request /\ q.waited = request[r].waited /\ q.deadline = request[r].deadline
  BY SteppedFact
<1>5. request[r].waited <= MaxWait /\ request[r].waited + request[r].deadline <= clock + MaxWait
  BY <1>1, <1>2, <1>3, AwakeFact DEF Begun, Request
<1>6. Attempt(r, q) \/ request' = [request EXCEPT ![r].pc = "refused"]
  BY DEF NextSlot
<1> HIDE DEF q
<1>7. CASE Attempt(r, q)
  <2>1. (\A x \in Requests \ {r} : request'[x] = request[x]) /\ Frugal(request'[r])
    BY <1>4, <1>5, <1>7, AttemptFrugal
  <2>2. QED
    BY <1>2, <2>1, OneMoves
<1>8. CASE request' = [request EXCEPT ![r].pc = "refused"]
  <2>1. \A x \in Requests \ {r} : request'[x] = request[x]
    BY <1>1, <1>8
  <2>2. request'[r] = [request[r] EXCEPT !.pc = "refused"]
    BY <1>1, <1>8
  <2>3. Frugal(request'[r])
    BY <1>1, <1>2, <1>3, <2>2 DEF Frugal, Begun, Request
  <2>4. QED
    BY <1>2, <2>1, <2>3, OneMoves
<1>9. QED
  BY <1>6, <1>7, <1>8

LEMMA WriteGateWaits ==
    ASSUME TypeOK, WaitInv, NEW r \in Requests, WriteGate(r) PROVE WaitInv'
<1>1. /\ request[r].pc = "budget" /\ clock >= request[r].wake
      /\ LaneGate(r, Remaining(request[r])) /\ UNCHANGED <<clock, queue>>
  BY DEF WriteGate, readVars
<1>2. /\ request[r].waited <= MaxWait
      /\ request[r].waited + request[r].deadline <= clock + MaxWait
  BY <1>1, AwakeFact DEF Begun
<1>3. Remaining(request[r]) \in Nat
  BY RemainingFact DEF TypeOK
<1>4. (\A x \in Requests \ {r} : request'[x] = request[x]) /\ Frugal(request'[r])
  BY <1>1, <1>2, <1>3, GateFrugal
<1>5. QED
  BY <1>1, <1>4, OneMoves

LEMMA EnqueueWaits ==
    ASSUME TypeOK, WaitInv, NEW r \in Requests, Enqueue(r) PROVE WaitInv'
<1> DEFINE q == request[r]
           s == SlotOf(q)
           c == q.pacing
           a == [q EXCEPT !.pc = "queued", !.wake = clock, !.room = Remaining(q)]
<1>1. /\ q \in Request /\ clock \in Nat /\ MaxWait \in Nat /\ s \in Slots
      /\ request \in [Requests -> Request] /\ Remaining(q) \in Nat
  BY SlotFact, RemainingFact, PacingAssumption DEF TypeOK
<1>2. q.pc = "budget" /\ clock >= q.wake /\ c \in ReadClasses /\ clock' = clock
  BY DEF Enqueue
<1>3. queue' = [queue EXCEPT ![s][c] = Append(queue[s][c], r)]
  BY DEF Enqueue
<1>4. request' = [request EXCEPT ![r] = a]
  BY DEF Enqueue
<1>5. /\ a.pc = "queued" /\ a.wake = clock /\ a.waited = q.waited /\ a.pacing = c
      /\ a.deadline = q.deadline /\ a.room = Remaining(q) /\ SlotOf(a) = s
  BY <1>1 DEF Request, SlotOf
<1>6. q.waited <= MaxWait /\ q.waited + q.deadline <= clock + MaxWait
  BY <1>2, AwakeFact DEF Begun
<1>7. queue[s][c] \in Seq(Requests)
  BY <1>1, <1>2 DEF TypeOK
<1>8. \A x \in Slots, y \in ReadClasses :
         queue'[x][y] = IF x = s /\ y = c THEN Append(queue[s][c], r) ELSE queue[x][y]
  BY <1>1, <1>2, <1>3 DEF TypeOK
<1>9. \A x \in Requests : request'[x] = IF x = r THEN a ELSE request[x]
  BY <1>1, <1>4
<1>10. Frugal(a)
  <2>1. q.waited + Remaining(q) <= MaxWait
    BY <1>1, <1>6, WaitFact
  <2> HIDE DEF a
  <2>2. QED
    BY <1>1, <1>5, <1>6, <2>1 DEF Frugal, Begun, Request
<1>11. \A x \in Slots, y \in ReadClasses : \A i \in 1 .. Len(queue[x][y]) :
          queue[x][y][i] \in Requests \ {r}
  <2>1. ASSUME NEW x \in Slots, NEW y \in ReadClasses, NEW i \in 1 .. Len(queue[x][y])
        PROVE  queue[x][y][i] \in Requests \ {r}
    <3>1. queue[x][y] \in Seq(Requests)
      BY DEF TypeOK
    <3>2. queue[x][y][i] \in Requests
      BY <3>1, ElementOfSeq
    <3>3. request[queue[x][y][i]].pc = "queued"
      BY DEF WaitInv, Queued, InQueue
    <3>4. QED
      BY <1>2, <3>2, <3>3
  <2>2. QED
    BY <2>1
<1> HIDE DEF q, s, c, a
<1>12. ASSUME NEW x \in Slots, NEW y \in ReadClasses, NEW i \in 1 .. Len(queue'[x][y])
       PROVE  /\ InQueue(x, y, i)'
              /\ \A j \in 1 .. Len(queue'[x][y]) : queue'[x][y][j] = queue'[x][y][i] => j = i
  <2>1. CASE ~(x = s /\ y = c)
    <3>1. queue'[x][y] = queue[x][y]
      BY <1>8, <2>1
    <3>2. i \in 1 .. Len(queue[x][y])
      BY <3>1
    <3>3. request'[queue[x][y][i]] = request[queue[x][y][i]]
      BY <1>9, <1>11, <3>2
    <3>4. QED
      BY <3>1, <3>2, <3>3 DEF WaitInv, Queued, InQueue
  <2>2. CASE x = s /\ y = c
    <3> DEFINE b == queue[s][c]
    <3>1. queue'[x][y] = Append(b, r) /\ b \in Seq(Requests)
      BY <1>7, <1>8, <2>2
    <3> HIDE DEF b
    <3>2. /\ Len(Append(b, r)) = Len(b) + 1 /\ Append(b, r)[Len(b) + 1] = r
          /\ \A j \in 1 .. Len(b) : Append(b, r)[j] = b[j]
      BY <3>1
    <3>3. \A j \in 1 .. Len(b) : b[j] \in Requests \ {r}
      BY <1>1, <1>2, <1>11, <2>2 DEF b
    <3>4. \A j \in 1 .. Len(b) :
             /\ request[b[j]].pc = "queued" /\ SlotOf(request[b[j]]) = s
             /\ request[b[j]].pacing = c
             /\ \A k \in 1 .. Len(b) : b[k] = b[j] => k = j
      BY <1>1, <1>2, <2>2 DEF WaitInv, Queued, InQueue, b
    <3>5. InQueue(x, y, i)'
      <4>1. CASE i = Len(b) + 1
        BY <1>5, <1>9, <2>2, <3>1, <3>2, <4>1 DEF InQueue
      <4>2. CASE i # Len(b) + 1
        <5>1. i \in 1 .. Len(b)
          BY <3>1, <3>2, <4>2
        <5>2. request'[queue'[x][y][i]] = request[b[i]]
          BY <1>9, <3>1, <3>2, <3>3, <5>1
        <5>3. QED
          BY <2>2, <3>4, <5>1, <5>2 DEF InQueue
      <4>3. QED
        BY <4>1, <4>2
    <3>6. \A j \in 1 .. Len(queue'[x][y]) : queue'[x][y][j] = queue'[x][y][i] => j = i
      BY <3>1, <3>2, <3>3, <3>4
    <3>7. QED
      BY <3>5, <3>6
  <2>3. QED
    BY <2>1, <2>2
<1>13. \A x \in Requests : Frugal(request[x])'
  BY <1>2, <1>9, <1>10 DEF WaitInv, Frugal
<1>14. QED
  BY <1>12, <1>13 DEF WaitInv, Queued

LEMMA PickWaits ==
    ASSUME TypeOK, WaitInv, NEW s \in Slots, Pick(s) PROVE WaitInv'
<1> DEFINE c == PickClass(s)
           b == queue[s][c]
           r == Head(b)
<1>1. /\ c \in ReadClasses /\ b \in Seq(Requests) /\ b # <<>>
      /\ r \in Requests /\ Tail(b) \in Seq(Requests)
  BY PickFact DEF Pick
<1>2. /\ queue' = [queue EXCEPT ![s][c] = Tail(b)]
      /\ LaneGate(r, request[r].room) /\ clock' = clock
  BY DEF Pick
<1>3. clock \in Nat /\ request[r] \in Request /\ MaxWait \in Nat
  BY <1>1, PacingAssumption DEF TypeOK
<1> HIDE DEF c
<1>4. /\ Len(b) \in Nat /\ 1 \in 1 .. Len(b) /\ b[1] = r
      /\ Len(Tail(b)) = Len(b) - 1
      /\ \A j \in 1 .. Len(Tail(b)) : Tail(b)[j] = b[j + 1]
  BY <1>1
<1>5. \A j \in 1 .. Len(b) :
         /\ b[j] \in Requests /\ request[b[j]].pc = "queued"
         /\ SlotOf(request[b[j]]) = s /\ request[b[j]].pacing = c
         /\ \A k \in 1 .. Len(b) : b[k] = b[j] => k = j
  <2>1. \A j \in 1 .. Len(b) : b[j] \in Requests
    BY <1>1, ElementOfSeq
  <2>2. QED
    BY <1>1, <2>1 DEF WaitInv, Queued, InQueue
<1>6. request[r].pc = "queued" /\ SlotOf(request[r]) = s /\ request[r].pacing = c
  BY <1>4, <1>5
<1>7. Frugal(request[r])
  BY <1>1 DEF WaitInv
<1>8. /\ request[r].waited + request[r].room <= MaxWait /\ request[r].waited <= MaxWait
      /\ request[r].wake <= clock
  BY <1>6, <1>7 DEF Frugal
<1>9. request[r].waited + request[r].deadline <= clock + MaxWait
  BY <1>1, <1>3, <1>6, <1>8, AwakeFact DEF Begun, Request
<1>10. request[r].room \in Nat
  BY <1>3 DEF Request
<1> HIDE DEF r
<1>11. (\A x \in Requests \ {r} : request'[x] = request[x]) /\ Frugal(request'[r])
  BY <1>1, <1>2, <1>8, <1>9, <1>10, GateFrugal
<1>12. \A x \in Slots, y \in ReadClasses :
          queue'[x][y] = IF x = s /\ y = c THEN Tail(b) ELSE queue[x][y]
  BY <1>1, <1>2 DEF TypeOK
<1> HIDE DEF b
<1>13. ASSUME NEW x \in Slots, NEW y \in ReadClasses, NEW i \in 1 .. Len(queue'[x][y])
       PROVE  /\ InQueue(x, y, i)'
              /\ \A j \in 1 .. Len(queue'[x][y]) : queue'[x][y][j] = queue'[x][y][i] => j = i
  <2>1. CASE ~(x = s /\ y = c)
    <3>1. queue'[x][y] = queue[x][y]
      BY <1>12, <2>1
    <3>2. i \in 1 .. Len(queue[x][y])
      BY <3>1
    <3>3. InQueue(x, y, i)
      BY <3>2 DEF WaitInv, Queued
    <3>4. queue[x][y][i] \in Requests \ {r}
      <4>1. queue[x][y] \in Seq(Requests)
        BY DEF TypeOK
      <4>2. queue[x][y][i] \in Requests
        BY <3>2, <4>1, ElementOfSeq
      <4>3. QED
        BY <1>6, <2>1, <3>3, <4>2 DEF InQueue
    <3>5. request'[queue[x][y][i]] = request[queue[x][y][i]]
      BY <1>11, <3>4
    <3>6. QED
      BY <3>1, <3>2, <3>3, <3>5 DEF WaitInv, Queued, InQueue
  <2>2. CASE x = s /\ y = c
    <3>1. queue'[x][y] = Tail(b)
      BY <1>12, <2>2
    <3>2. /\ i \in 1 .. Len(Tail(b)) /\ i + 1 \in 1 .. Len(b) /\ i + 1 # 1
          /\ Tail(b)[i] = b[i + 1]
      BY <1>4, <3>1
    <3>3. b[i + 1] \in Requests \ {r}
      BY <1>4, <1>5, <3>2
    <3>4. request'[b[i + 1]] = request[b[i + 1]]
      BY <1>11, <3>3
    <3>5. InQueue(x, y, i)'
      BY <1>5, <2>2, <3>1, <3>2, <3>4 DEF InQueue
    <3>6. ASSUME NEW j \in 1 .. Len(Tail(b)), Tail(b)[j] = Tail(b)[i] PROVE j = i
      <4>1. j + 1 \in 1 .. Len(b) /\ b[j + 1] = b[i + 1]
        BY <1>4, <3>2, <3>6
      <4>2. j + 1 = i + 1
        BY <1>5, <3>2, <4>1
      <4>3. QED
        BY <4>2
    <3>7. QED
      BY <3>1, <3>5, <3>6
  <2>3. QED
    BY <2>1, <2>2
<1>14. \A x \in Requests : Frugal(request[x])'
  BY <1>2, <1>11 DEF WaitInv, Frugal
<1>15. QED
  BY <1>13, <1>14 DEF WaitInv, Queued

LEMMA UndoWaits ==
    ASSUME TypeOK, WaitInv, NEW r \in Requests, Undo(r) PROVE WaitInv'
<1> DEFINE q == request[r]
           a == Asleep(q, "select", clock, 0)
<1>1. /\ q \in Request /\ clock \in Nat /\ MaxWait \in Nat
      /\ request \in [Requests -> Request]
  BY PacingAssumption DEF TypeOK
<1>2. q.pc = "undo" /\ request' = [request EXCEPT ![r] = a] /\ UNCHANGED <<clock, queue>>
  BY DEF Undo, readVars
<1>3. Frugal(q) /\ q.wake <= clock
  BY <1>2 DEF WaitInv, Frugal
<1>4. q.waited <= MaxWait /\ q.waited + q.deadline <= clock + MaxWait
  BY <1>1, <1>2, <1>3, AwakeFact DEF Begun, Request
<1>5. /\ a.pc = "select" /\ a.wake = clock /\ a.waited = q.waited + 0
      /\ a.deadline = q.deadline
  BY <1>1 DEF Asleep, Request
<1>6. (\A x \in Requests \ {r} : request'[x] = request[x]) /\ request'[r] = a
  BY <1>1, <1>2
<1>7. q.waited \in Nat /\ q.deadline \in Nat
  BY <1>1 DEF Request
<1> HIDE DEF a, q
<1>8. Frugal(a)
  BY <1>1, <1>4, <1>5, <1>7 DEF Frugal, Begun
<1>9. QED
  BY <1>2, <1>6, <1>8, OneMoves DEF q

(* A request that starts, or whose call settles, waits no more.            *)
LEMMA FlightWaits ==
    ASSUME TypeOK, WaitInv, NEW r \in Requests,
           Start(r) \/ \E limited \in BOOLEAN : Settle(r, limited)
    PROVE  WaitInv'
<1>1. request[r] \in Request /\ request \in [Requests -> Request] /\ Frugal(request[r])
  BY DEF TypeOK, WaitInv
<1>2. request[r].pc \in {"lane", "flying"} /\ UNCHANGED <<clock, queue>>
  BY DEF Start, Settle, readVars
<1>3. \/ request' = [request EXCEPT ![r] = [request[r] EXCEPT !.pc = "flying", !.at = clock]]
      \/ request' = [request EXCEPT ![r] = [request[r] EXCEPT !.pc = "done"]]
  BY <1>1 DEF Start, Settle
<1>4. \A x \in Requests \ {r} : request'[x] = request[x]
  BY <1>1, <1>3
<1>5. /\ request'[r].pc \in {"flying", "done"} /\ request'[r].wake = request[r].wake
      /\ request'[r].waited = request[r].waited /\ request'[r].deadline = request[r].deadline
  <2>1. \/ request'[r] = [request[r] EXCEPT !.pc = "flying", !.at = clock]
        \/ request'[r] = [request[r] EXCEPT !.pc = "done"]
    BY <1>1, <1>3
  <2>2. CASE request'[r] = [request[r] EXCEPT !.pc = "flying", !.at = clock]
    BY <1>1, <2>2 DEF Request
  <2>3. CASE request'[r] = [request[r] EXCEPT !.pc = "done"]
    BY <1>1, <2>3 DEF Request
  <2>4. QED
    BY <2>1, <2>2, <2>3
<1>6. Frugal(request'[r])
  BY <1>1, <1>2, <1>5 DEF Frugal, Begun
<1>7. QED
  BY <1>2, <1>4, <1>6, OneMoves

LEMMA TickWaits == ASSUME TypeOK, WaitInv, Tick PROVE WaitInv'
<1>1. clock \in Nat /\ clock' = clock + 1 /\ UNCHANGED <<request, queue>>
  BY DEF Tick, TypeOK, readVars
<1>2. \A r \in Requests : Frugal(request[r])'
  <2>1. ASSUME NEW r \in Requests PROVE Frugal(request[r])'
    <3>1. request[r] \in Request /\ Frugal(request[r])
      BY DEF TypeOK, WaitInv
    <3>2. QED
      BY <1>1, <3>1 DEF Frugal, Begun, Request
  <2>2. QED
    BY <2>1
<1>3. Queued'
  BY <1>1 DEF WaitInv, Queued, InQueue
<1>4. QED
  BY <1>2, <1>3 DEF WaitInv

(* The account is kept by every step.                                      *)
LEMMA WaitsKept == Spec => []WaitInv
<1>1. Init => WaitInv
  <2> SUFFICES ASSUME Init PROVE WaitInv
    OBVIOUS
  <2>1. PICK mix \in Mixes : request = [r \in Requests |-> Fresh(mix[r])]
    BY DEF Init
  <2>2. \A r \in Requests : Frugal(request[r])
    BY <2>1, PacingAssumption DEF Fresh, Frugal, Begun
  <2>3. \A s \in Slots, c \in ReadClasses : queue[s][c] = <<>>
    BY DEF Init
  <2>4. Queued
    BY <2>3 DEF Queued
  <2>5. QED
    BY <2>2, <2>4 DEF WaitInv
<1>2. TypeOK /\ WaitInv /\ [Next]_vars => WaitInv'
  <2> SUFFICES ASSUME TypeOK, WaitInv, [Next]_vars PROVE WaitInv'
    OBVIOUS
  <2>1. ASSUME NEW r \in Requests, Continue(r) PROVE WaitInv'
    BY <2>1, NextSlotWaits, WriteGateWaits, EnqueueWaits, UndoWaits, FlightWaits DEF Continue
  <2>2. CASE UNCHANGED <<clock, request, queue>>
    BY <2>2 DEF WaitInv, Frugal, Queued, InQueue
  <2>3. ASSUME NEW s \in Slots, Scheduler(s) PROVE WaitInv'
    BY <2>2, <2>3, PickWaits DEF Scheduler, BatchEnds, Drain
  <2>4. CASE UNCHANGED vars
    BY <2>2, <2>4 DEF vars, readVars
  <2>5. QED
    BY <2>1, <2>3, <2>4, BeginWaits, FlightWaits, TickWaits DEF Next
<1>3. QED
  BY <1>1, <1>2, TypeCorrect, PTL DEF Spec

(* The waits an admission is put to add up to at most its bound, however   *)
(* many slots and gates it tried and however late its continuations ran:   *)
(* the effect lease of a paced batch may count on it.                      *)
THEOREM BoundedWait == Spec => []WaitBounded
<1>1. WaitInv => WaitBounded
  BY DEF WaitInv, Frugal, WaitBounded
<1>2. QED
  BY <1>1, WaitsKept, PTL
-----------------------------------------------------------------------------
(* The spacing of a lane                                                   *)

(* Each lane's horizon is the latest start planned on it, and a lane that  *)
(* planned none is recognised by it: no start is later than the clock and  *)
(* one admission bound.                                                    *)
Behind(r, s, l) == Planned(r, s, l) => /\ horizon[s][l] # Never
                                       /\ request[r].wake <= horizon[s][l]
SpaceInv ==
    /\ clock <= MaxClock
    /\ \A s \in Slots, l \in Lanes : \A r \in Requests : Behind(r, s, l)
    /\ StartsSpaced

LEMMA LongerFact ==
    ASSUME NEW a \in Nat, NEW m \in Nat, m >= 1
    PROVE  a * m \in Nat /\ a * m >= a
<1>1. PICK k \in Nat : m = k + 1
  <2>1. m - 1 \in Nat /\ m = (m - 1) + 1
    OBVIOUS
  <2>2. QED
    BY <2>1
<1>2. a * k \in Nat /\ a * (k + 1) = a * k + a
  OBVIOUS
<1>3. QED
  BY <1>1, <1>2

(* The gap a governor asks for is never less than the base interval.       *)
LEMMA GapFact ==
    ASSUME TypeOK, NEW s \in Slots, NEW l \in Lanes, horizon[s][l] # Never
    PROVE  LaneStart(s, l) >= horizon[s][l] + Interval
<1>1. clock \in Nat /\ horizon[s][l] \in Nat /\ Interval \in Nat
  BY PacingAssumption DEF TypeOK
<1>2. Observes(s, l).mult \in Nat /\ Observes(s, l).mult >= 1
  BY LaneStartFact, PacingAssumption DEF Pace
<1> DEFINE m == Observes(s, l).mult
           gap == Interval * m
<1>3. m \in Nat /\ m >= 1
  BY <1>2
<1> HIDE DEF m
<1>4. gap \in Nat /\ gap >= Interval
  BY <1>1, <1>3, LongerFact
<1>5. LaneStart(s, l) = Later(clock, horizon[s][l] + gap)
  BY DEF LaneStart, m
<1> HIDE DEF gap
<1> DEFINE next == horizon[s][l] + gap
<1>6. next \in Nat /\ next >= horizon[s][l] + Interval
  BY <1>1, <1>4
<1>7. LaneStart(s, l) = Later(clock, next)
  BY <1>5
<1> HIDE DEF next
<1>8. Later(clock, next) >= next /\ Later(clock, next) \in Nat
  BY <1>1, <1>6, LaterFact
<1>9. QED
  BY <1>1, <1>6, <1>7, <1>8

(* Planned starts stay spaced when no request but r moves, r takes no lane *)
(* start, and the horizons stay.                                           *)
LEMMA OtherMoves ==
    ASSUME TypeOK, SpaceInv, NEW r \in Requests, clock' = clock, horizon' = horizon,
           \A x \in Requests \ {r} : request'[x] = request[x],
           request'[r].pc \notin {"lane", "flying", "done"}
    PROVE  SpaceInv'
<1>1. \A x \in Requests, s \in Slots, l \in Lanes :
         Planned(x, s, l)' => x # r /\ Planned(x, s, l) /\ request'[x] = request[x]
  BY DEF Planned
<1>2. \A s \in Slots, l \in Lanes : \A x \in Requests : Behind(x, s, l)'
  BY <1>1 DEF SpaceInv, Behind
<1>3. StartsSpaced'
  BY <1>1 DEF SpaceInv, StartsSpaced
<1>4. QED
  BY <1>2, <1>3 DEF SpaceInv

(* The interval gate: a start it grants lies an interval behind all        *)
(* earlier ones of its lane, and becomes the horizon.                      *)
LEMMA GateSpaces ==
    ASSUME TypeOK, SpaceInv, NEW r \in Requests, NEW room \in 0 .. MaxWait,
           LaneGate(r, room), request[r].pc \in {"budget", "queued"}, clock' = clock
    PROVE  SpaceInv'
<1> DEFINE q == request[r]
           s == SlotOf(q)
           l == LaneOf(q)
           start == LaneStart(s, l)
           a == Asleep(q, "lane", start, start - clock)
<1>1. /\ q \in Request /\ s \in Slots /\ l \in Lanes /\ clock \in Nat
      /\ request \in [Requests -> Request]
      /\ horizon \in [Slots -> [Lanes -> Nat]]
  BY SlotFact DEF TypeOK
<1>2. /\ room \in Nat /\ room <= MaxWait /\ MaxWait \in Nat /\ MaxClock \in Nat
      /\ Interval \in Nat
  BY PacingAssumption
<1>3. \/ /\ request' = [request EXCEPT ![r] = Asleep(q, "undo", clock, 0)]
         /\ horizon' = horizon
      \/ /\ start - clock <= room
         /\ horizon' = [horizon EXCEPT ![s][l] = start]
         /\ request' = [request EXCEPT ![r] = a]
  BY <1>2, GateFact
<1>4. start \in Nat /\ start >= clock
  BY <1>1, LaneStartFact
<1>5. horizon[s][l] # Never => start >= horizon[s][l] + Interval
  BY <1>1, GapFact
<1>6. CASE /\ request' = [request EXCEPT ![r] = Asleep(q, "undo", clock, 0)]
           /\ horizon' = horizon
  <2>1. Asleep(q, "undo", clock, 0).pc = "undo"
    BY <1>1 DEF Asleep, Request
  <2> HIDE DEF q
  <2>2. /\ \A x \in Requests \ {r} : request'[x] = request[x]
        /\ request'[r].pc = "undo"
    BY <1>1, <1>6, <2>1
  <2>3. QED
    BY <1>6, <2>2, OtherMoves
<1>7. CASE /\ start - clock <= room
           /\ horizon' = [horizon EXCEPT ![s][l] = start]
           /\ request' = [request EXCEPT ![r] = a]
  <2>1. start - clock \in Nat /\ "lane" \in Phases
    BY <1>1, <1>4 DEF Phases
  <2>2. a.pc = "lane" /\ a.wake = start /\ SlotOf(a) = s /\ LaneOf(a) = l
    <3> DEFINE w == start - clock
    <3>1. w \in Nat
      BY <2>1
    <3> HIDE DEF w, start, q
    <3>2. /\ Asleep(q, "lane", start, w).pc = "lane" /\ Asleep(q, "lane", start, w).wake = start
          /\ Asleep(q, "lane", start, w).pacing = q.pacing
          /\ SlotOf(Asleep(q, "lane", start, w)) = SlotOf(q)
      BY <1>1, <1>4, <2>1, <3>1, AsleepFact
    <3>3. QED
      BY <3>2 DEF LaneOf, w
  <2>3. start # Never
    BY <1>1, <1>2, <1>4, <1>7 DEF SpaceInv, Never
  <2> HIDE DEF a, start, s, l, q
  <2>5. /\ \A x \in Requests \ {r} : request'[x] = request[x]
        /\ request'[r] = a
    BY <1>1, <1>7
  <2>6. /\ horizon'[s][l] = start
        /\ \A t \in Slots, k \in Lanes : <<t, k>> # <<s, l>> => horizon'[t][k] = horizon[t][k]
    BY <1>1, <1>7
  <2>7. \A x \in Requests, t \in Slots, k \in Lanes : Planned(x, t, k)' =>
           \/ (x # r /\ Planned(x, t, k) /\ request'[x] = request[x])
           \/ (x = r /\ t = s /\ k = l)
    BY <2>2, <2>5 DEF Planned
  <2>8. \A x \in Requests : x # r /\ Planned(x, s, l) =>
           /\ request[x].wake \in Nat
           /\ start >= request[x].wake + Interval
    <3> SUFFICES ASSUME NEW x \in Requests, Planned(x, s, l)
                 PROVE  request[x].wake \in Nat /\ start >= request[x].wake + Interval
      OBVIOUS
    <3>1. request[x].wake \in Nat /\ horizon[s][l] \in Nat
      BY <1>1 DEF Request
    <3>2. horizon[s][l] # Never /\ request[x].wake <= horizon[s][l]
      BY <1>1 DEF SpaceInv, Behind
    <3>3. QED
      BY <1>2, <1>4, <1>5, <3>1, <3>2
  <2>9. \A t \in Slots, k \in Lanes : \A x \in Requests : Behind(x, t, k)'
    <3> SUFFICES ASSUME NEW t \in Slots, NEW k \in Lanes, NEW x \in Requests,
                        Planned(x, t, k)'
                 PROVE  horizon'[t][k] # Never /\ request'[x].wake <= horizon'[t][k]
      BY DEF Behind, Never
    <3>1. CASE x = r /\ t = s /\ k = l
      BY <1>4, <2>2, <2>3, <2>5, <2>6, <3>1
    <3>2. CASE x # r /\ Planned(x, t, k) /\ request'[x] = request[x]
      <4>1. CASE t = s /\ k = l
        BY <1>2, <1>4, <2>3, <2>6, <2>8, <3>2, <4>1
      <4>2. CASE <<t, k>> # <<s, l>>
        BY <2>6, <3>2, <4>2 DEF SpaceInv, Behind
      <4>3. QED
        BY <4>1, <4>2
    <3>3. QED
      BY <2>7, <3>1, <3>2
  <2>10. StartsSpaced'
    <3> SUFFICES ASSUME NEW t \in Slots, NEW k \in Lanes, NEW x \in Requests,
                        NEW y \in Requests, x # y, Planned(x, t, k)', Planned(y, t, k)'
                 PROVE  \/ request'[x].wake >= request'[y].wake + Interval
                        \/ request'[y].wake >= request'[x].wake + Interval
      BY DEF StartsSpaced
    <3>1. CASE x = r
      BY <2>2, <2>5, <2>7, <2>8, <3>1
    <3>2. CASE y = r
      BY <2>2, <2>5, <2>7, <2>8, <3>2
    <3>3. CASE x # r /\ y # r
      BY <2>7, <3>3 DEF SpaceInv, StartsSpaced
    <3>4. QED
      BY <3>1, <3>2, <3>3
  <2>11. QED
    BY <2>9, <2>10 DEF SpaceInv
<1>8. QED
  BY <1>3, <1>6, <1>7

(* A started request keeps its plan.                                       *)
LEMMA FlightSpaces ==
    ASSUME TypeOK, SpaceInv, NEW r \in Requests,
           Start(r) \/ \E limited \in BOOLEAN : Settle(r, limited)
    PROVE  SpaceInv'
<1>1. request[r] \in Request /\ request \in [Requests -> Request]
  BY DEF TypeOK
<1>2. request[r].pc \in {"lane", "flying"} /\ UNCHANGED <<clock, horizon>>
  BY DEF Start, Settle
<1>3. \/ request' = [request EXCEPT ![r] = [request[r] EXCEPT !.pc = "flying", !.at = clock]]
      \/ request' = [request EXCEPT ![r] = [request[r] EXCEPT !.pc = "done"]]
  BY <1>1 DEF Start, Settle
<1>4. \A x \in Requests \ {r} : request'[x] = request[x]
  BY <1>1, <1>3
<1>5. /\ request'[r].wake = request[r].wake /\ SlotOf(request'[r]) = SlotOf(request[r])
      /\ LaneOf(request'[r]) = LaneOf(request[r])
  <2>1. \/ request'[r] = [request[r] EXCEPT !.pc = "flying", !.at = clock]
        \/ request'[r] = [request[r] EXCEPT !.pc = "done"]
    BY <1>1, <1>3
  <2>2. QED
    BY <1>1, <2>1 DEF Request, SlotOf, LaneOf
<1>6. \A x \in Requests, s \in Slots, l \in Lanes :
         Planned(x, s, l)' => Planned(x, s, l) /\ request'[x].wake = request[x].wake
  BY <1>2, <1>4, <1>5 DEF Planned
<1>7. \A s \in Slots, l \in Lanes : \A x \in Requests : Behind(x, s, l)'
  BY <1>2, <1>6 DEF SpaceInv, Behind
<1>8. StartsSpaced'
  BY <1>6 DEF SpaceInv, StartsSpaced
<1>9. QED
  BY <1>2, <1>7, <1>8 DEF SpaceInv

(* A request that a budget refuses or books has no lane start.             *)
LEMMA AttemptSpaces ==
    ASSUME TypeOK, SpaceInv, NEW r \in Requests, NEW q \in Request, Attempt(r, q),
           clock' = clock, horizon' = horizon
    PROVE  SpaceInv'
<1> DEFINE s == SlotOf(q)
           l == LaneOf(q)
           start == BudgetSlot(LiveBook(book[s][l]), Budget(l))
<1>1. request \in [Requests -> Request]
  BY DEF TypeOK
<1>2. \/ request' = [request EXCEPT ![r] = Asleep(q, "select", clock, 0)]
      \/ request' = [request EXCEPT ![r] = Asleep(q, "budget", start, start - clock)]
  BY AttemptFact
<1>3. \A wake, w : /\ Asleep(q, "select", wake, w).pc = "select"
                   /\ Asleep(q, "budget", wake, w).pc = "budget"
  BY DEF Asleep, Request
<1> HIDE DEF start
<1>4. /\ \A x \in Requests \ {r} : request'[x] = request[x]
      /\ request'[r].pc \in {"select", "budget"}
  <2>1. CASE request' = [request EXCEPT ![r] = Asleep(q, "select", clock, 0)]
    BY <1>1, <1>3, <2>1
  <2>2. CASE request' = [request EXCEPT ![r] = Asleep(q, "budget", start, start - clock)]
    BY <1>1, <1>3, <2>2
  <2>3. QED
    BY <1>2, <2>1, <2>2
<1>5. QED
  BY <1>4, OtherMoves

(* The start that a pick of the read scheduler grants.                     *)
LEMMA PickSpaces ==
    ASSUME TypeOK, WaitInv, SpaceInv, NEW s \in Slots, Pick(s)
    PROVE  SpaceInv'
<1> DEFINE c == PickClass(s)
           b == queue[s][c]
           r == Head(b)
<1>1. c \in ReadClasses /\ b \in Seq(Requests) /\ b # <<>> /\ r \in Requests
  BY PickFact DEF Pick
<1>2. LaneGate(r, request[r].room) /\ clock' = clock
  BY DEF Pick
<1> HIDE DEF c
<1>3. 1 \in 1 .. Len(b) /\ b[1] = r
  BY <1>1
<1>4. request[r].pc = "queued"
  BY <1>1, <1>3 DEF WaitInv, Queued, InQueue
<1>5. request[r].room \in Nat /\ request[r].waited \in Nat /\ MaxWait \in Nat
  BY <1>1, PacingAssumption DEF TypeOK, Request
<1>6. request[r].waited + request[r].room <= MaxWait
  BY <1>1, <1>4 DEF WaitInv, Frugal
<1>7. request[r].room \in 0 .. MaxWait
  BY <1>5, <1>6
<1> HIDE DEF r
<1>8. QED
  BY <1>1, <1>2, <1>4, <1>7, GateSpaces

(* Two starts of a lane are planned at least the base interval apart, for  *)
(* any number of callers that pass its budget and its gate concurrently.   *)
THEOREM StartsAreSpaced == Spec => []StartsSpaced
<1>1. Init => SpaceInv
  <2> SUFFICES ASSUME Init PROVE SpaceInv
    OBVIOUS
  <2>1. PICK mix \in Mixes : request = [r \in Requests |-> Fresh(mix[r])]
    BY DEF Init
  <2>2. \A r \in Requests, s \in Slots, l \in Lanes : ~Planned(r, s, l)
    BY <2>1 DEF Planned, Fresh
  <2>3. clock <= MaxClock
    BY PacingAssumption DEF Init
  <2>4. QED
    BY <2>2, <2>3 DEF SpaceInv, Behind, StartsSpaced
<1>2. TypeOK /\ WaitInv /\ SpaceInv /\ [Next]_vars => SpaceInv'
  <2> SUFFICES ASSUME TypeOK, WaitInv, SpaceInv, [Next]_vars PROVE SpaceInv'
    OBVIOUS
  <2>1. ASSUME NEW r \in Requests, Begin(r) PROVE SpaceInv'
    <3> DEFINE q == [request[r] EXCEPT !.deadline = clock + MaxWait, !.first = cursor]
    <3>1. q \in Request
      BY BegunFact
    <3>2. Attempt(r, q) /\ UNCHANGED <<clock, horizon>>
      BY <2>1 DEF Begin
    <3> HIDE DEF q
    <3>3. QED
      BY <3>1, <3>2, AttemptSpaces
  <2>2. ASSUME NEW r \in Requests, NextSlot(r) PROVE SpaceInv'
    <3> DEFINE q == [request[r] EXCEPT !.step = request[r].step + 1]
    <3>1. q \in Request /\ request \in [Requests -> Request] /\ request[r] \in Request
      BY SteppedFact DEF TypeOK
    <3>2. /\ Attempt(r, q) \/ request' = [request EXCEPT ![r].pc = "refused"]
          /\ UNCHANGED <<clock, horizon>>
      BY <2>2 DEF NextSlot
    <3> HIDE DEF q
    <3>3. CASE request' = [request EXCEPT ![r].pc = "refused"]
      <4>1. (\A x \in Requests \ {r} : request'[x] = request[x]) /\ request'[r].pc = "refused"
        BY <3>1, <3>3 DEF Request
      <4>2. QED
        BY <3>2, <4>1, OtherMoves
    <3>4. QED
      BY <3>1, <3>2, <3>3, AttemptSpaces
  <2>3. ASSUME NEW r \in Requests, WriteGate(r) PROVE SpaceInv'
    <3>1. Remaining(request[r]) \in 0 .. MaxWait
      BY RemainingFact, PacingAssumption DEF TypeOK, Remaining, Lesser
    <3>2. QED
      BY <2>3, <3>1, GateSpaces DEF WriteGate
  <2>4. ASSUME NEW r \in Requests, Enqueue(r) \/ Undo(r) PROVE SpaceInv'
    <3>1. request \in [Requests -> Request] /\ request[r] \in Request
      BY DEF TypeOK
    <3>2. /\ \A x \in Requests \ {r} : request'[x] = request[x]
          /\ request'[r].pc \in {"queued", "select"}
      BY <2>4, <3>1 DEF Enqueue, Undo, Asleep, Request
    <3>3. UNCHANGED <<clock, horizon>>
      BY <2>4 DEF Enqueue, Undo, laneVars
    <3>4. QED
      BY <3>2, <3>3, OtherMoves
  <2>5. ASSUME NEW r \in Requests, Continue(r) PROVE SpaceInv'
    BY <2>2, <2>3, <2>4, <2>5, FlightSpaces DEF Continue
  <2>6. CASE /\ UNCHANGED <<request, horizon>>
             /\ clock' = clock \/ (clock < MaxClock /\ clock' = clock + 1)
    <3>1. clock' <= MaxClock
      BY <2>6, PacingAssumption DEF SpaceInv, TypeOK
    <3>2. QED
      BY <2>6, <3>1 DEF SpaceInv, Behind, StartsSpaced, Planned
  <2>7. ASSUME NEW s \in Slots, Scheduler(s) PROVE SpaceInv'
    BY <2>6, <2>7, PickSpaces DEF Scheduler, BatchEnds, Drain, laneVars
  <2>8. CASE Tick \/ UNCHANGED vars
    BY <2>6, <2>8 DEF Tick, vars, laneVars
  <2>9. QED
    BY <2>1, <2>5, <2>7, <2>8, FlightSpaces DEF Next
<1>3. SpaceInv => StartsSpaced
  BY DEF SpaceInv
<1>4. QED
  BY <1>1, <1>2, <1>3, TypeCorrect, WaitsKept, PTL DEF Spec
-----------------------------------------------------------------------------
(* The window budget                                                       *)

Sorted(b) == \A i \in 1 .. Len(b) : \A j \in i .. Len(b) : b[i].at <= b[j].at
Apart(b, max) == \A i \in 1 .. Len(b) - max : b[i + max].at >= b[i].at + Window
Spread(b, max) == Sorted(b) /\ Apart(b, max)

Inserted(b, entry, n) == SubSeq(b, 1, n) \o <<entry>> \o SubSeq(b, n + 1, Len(b))

LEMMA LeastFact ==
    ASSUME NEW T \in SUBSET Nat, T # {}
    PROVE  \E x \in T : \A y \in T : x <= y
<1> DEFINE R == OpToRel(<, Nat)
<1>1. IsWellFoundedOn(R, Nat)
  BY NatLessThanWellFounded
<1> HIDE DEF R
<1>2. PICK x \in T : \A y \in T : ~ (<<y, x>> \in R)
  BY <1>1, WFMin
<1>3. \A y \in T : ~(y < x)
  BY <1>2 DEF R, OpToRel
<1>4. QED
  BY <1>3

(* Where the insertion stops: nothing up to n is later than the entry, and *)
(* everything beyond n is.                                                 *)
LEMMA BookedAt ==
    ASSUME NEW b \in Seq(Entry), Sorted(b), NEW entry \in Entry
    PROVE  \E n \in 0 .. Len(b) :
              /\ Booked(b, entry) = Inserted(b, entry, n)
              /\ \A i \in 1 .. n : b[i].at <= entry.at
              /\ \A i \in n + 1 .. Len(b) : b[i].at > entry.at
<1> DEFINE late == {i \in 1 .. Len(b) : \A j \in i .. Len(b) : b[j].at > entry.at}
<1>1. Len(b) \in Nat /\ entry.at \in Nat /\ \A i \in 1 .. Len(b) : b[i].at \in Nat
  <2>1. \A i \in 1 .. Len(b) : b[i] \in Entry
    BY ElementOfSeq
  <2>2. QED
    BY <2>1 DEF Entry
<1>2. Booked(b, entry) = LET n == Len(b) - Cardinality(late)
                         IN  Inserted(b, entry, n)
  BY DEF Booked, Inserted
<1>3. CASE late = {}
  <2>1. Cardinality(late) = 0
    BY <1>3, FS_EmptySet
  <2>2. Booked(b, entry) = Inserted(b, entry, Len(b))
    <3>1. Len(b) - Cardinality(late) = Len(b)
      BY <1>1, <2>1
    <3> HIDE DEF late
    <3>2. QED
      BY <1>2, <3>1
  <2>3. \A i \in 1 .. Len(b) : b[i].at <= entry.at
    <3>1. CASE Len(b) = 0
      BY <3>1
    <3>2. CASE Len(b) # 0
      <4>1. Len(b) \in 1 .. Len(b)
        BY <1>1, <3>2
      <4>2. ~(b[Len(b)].at > entry.at)
        BY <1>1, <1>3, <4>1
      <4>3. \A i \in 1 .. Len(b) : b[i].at <= b[Len(b)].at
        BY <4>1 DEF Sorted
      <4>4. QED
        BY <1>1, <4>1, <4>2, <4>3
    <3>3. QED
      BY <3>1, <3>2
  <2>4. Len(b) \in 0 .. Len(b) /\ \A i \in Len(b) + 1 .. Len(b) : b[i].at > entry.at
    BY <1>1
  <2>5. QED
    BY <2>2, <2>3, <2>4
<1>4. CASE late # {}
  <2>1. PICK x \in late : \A y \in late : x <= y
    <3>1. late \in SUBSET Nat
      BY <1>1
    <3> HIDE DEF late
    <3>2. QED
      BY <1>4, <3>1, LeastFact
  <2>2. x \in 1 .. Len(b) /\ \A j \in x .. Len(b) : b[j].at > entry.at
    OBVIOUS
  <2>3. late = x .. Len(b)
    <3>1. \A y \in late : y \in x .. Len(b)
      <4>1. \A y \in late : y \in 1 .. Len(b)
        OBVIOUS
      <4> HIDE DEF late
      <4>2. QED
        BY <1>1, <2>1, <2>2, <4>1
    <3>2. \A y \in x .. Len(b) : y \in late
      BY <1>1, <2>2
    <3>3. QED
      BY <3>1, <3>2
  <2>4. Cardinality(late) = Len(b) - x + 1
    <3>1. x \in Int /\ Len(b) \in Int /\ ~(x > Len(b))
      BY <1>1, <2>2
    <3>2. Cardinality(x .. Len(b)) = Len(b) - x + 1
      BY <3>1, FS_Interval
    <3> HIDE DEF late
    <3>3. QED
      BY <2>3, <3>2
  <2> DEFINE n == x - 1
  <2>5. n \in 0 .. Len(b) /\ Len(b) - Cardinality(late) = n
    BY <1>1, <2>2, <2>4
  <2>6. Booked(b, entry) = Inserted(b, entry, n)
    <3> HIDE DEF late, n
    <3>1. QED
      BY <1>2, <2>5
  <2>7. \A i \in 1 .. n : b[i].at <= entry.at
    <3>1. CASE n = 0
      BY <3>1
    <3>2. CASE n # 0
      <4>1. n \in 1 .. Len(b) /\ n \notin late /\ \A j \in n + 1 .. Len(b) : b[j].at > entry.at
        <5>1. n \in 1 .. Len(b) /\ n \notin x .. Len(b) /\ n + 1 = x
          BY <1>1, <2>2, <3>2
        <5> HIDE DEF n, late
        <5>2. QED
          BY <2>2, <2>3, <5>1
      <4>2. ~(b[n].at > entry.at)
        BY <1>1, <4>1
      <4>3. \A i \in 1 .. n : b[i].at <= b[n].at
        BY <1>1, <4>1 DEF Sorted
      <4>4. QED
        BY <1>1, <4>1, <4>2, <4>3
    <3>3. QED
      BY <3>1, <3>2
  <2>8. \A i \in n + 1 .. Len(b) : b[i].at > entry.at
    BY <1>1, <2>2
  <2>9. QED
    BY <2>5, <2>6, <2>7, <2>8
<1>5. QED
  BY <1>3, <1>4

(* A cut-out segment of a book is as spread as the book.                   *)
LEMMA SuffixSpread ==
    ASSUME NEW b \in Seq(Entry), NEW max \in Nat \ {0}, Spread(b, max),
           NEW m \in 1 .. Len(b) + 1
    PROVE  Spread(SubSeq(b, m, Len(b)), max)
<1> DEFINE d == SubSeq(b, m, Len(b))
<1>1. Len(b) \in Nat
  OBVIOUS
<1>2. Len(d) = Len(b) - m + 1 /\ \A i \in 1 .. Len(d) : d[i] = b[m + i - 1]
  <2>1. \A i \in m .. Len(b) : b[i] \in Entry
    BY <1>1, ElementOfSeq
  <2>2. QED
    BY <1>1, <2>1, SubSeqProperties
<1> HIDE DEF d
<1>3. Sorted(d)
  <2>1. ASSUME NEW i \in 1 .. Len(d), NEW j \in i .. Len(d) PROVE d[i].at <= d[j].at
    <3>1. j \in 1 .. Len(d)
      BY <1>1, <1>2
    <3>2. m + i - 1 \in 1 .. Len(b) /\ m + j - 1 \in m + i - 1 .. Len(b)
      BY <1>1, <1>2
    <3>3. b[m + i - 1].at <= b[m + j - 1].at
      BY <3>2 DEF Spread, Sorted
    <3>4. QED
      BY <1>2, <3>1, <3>3
  <2>2. QED
    BY <2>1 DEF Sorted
<1>4. Apart(d, max)
  <2>1. ASSUME NEW i \in 1 .. Len(d) - max PROVE d[i + max].at >= d[i].at + Window
    <3>1. i \in 1 .. Len(d) /\ i + max \in 1 .. Len(d)
      BY <1>1, <1>2
    <3>2. m + i - 1 \in 1 .. Len(b) - max /\ m + (i + max) - 1 = (m + i - 1) + max
      BY <1>1, <1>2
    <3>3. QED
      BY <1>2, <3>1, <3>2 DEF Spread, Apart
  <2>2. QED
    BY <2>1 DEF Apart
<1>5. QED
  BY <1>3, <1>4 DEF Spread, d

LEMMA CatFact ==
    ASSUME NEW u \in Seq(Entry), NEW v \in Seq(Entry)
    PROVE  /\ u \o v \in Seq(Entry) /\ Len(u \o v) = Len(u) + Len(v)
           /\ \A i \in 1 .. Len(u) : (u \o v)[i] = u[i]
           /\ \A i \in 1 .. Len(v) : (u \o v)[Len(u) + i] = v[i]
BY ConcatProperties

(* What an insertion after position n puts where.                          *)
LEMMA InsertFact ==
    ASSUME NEW b \in Seq(Entry), NEW entry \in Entry, NEW n \in 0 .. Len(b)
    PROVE  /\ Len(Inserted(b, entry, n)) = Len(b) + 1
           /\ \A i \in 1 .. n : Inserted(b, entry, n)[i] = b[i]
           /\ Inserted(b, entry, n)[n + 1] = entry
           /\ \A i \in n + 2 .. Len(b) + 1 : Inserted(b, entry, n)[i] = b[i - 1]
<1>1. Len(b) \in Nat /\ \A i \in 1 .. Len(b) : b[i] \in Entry
  BY ElementOfSeq
<1> DEFINE u == SubSeq(b, 1, n)
           v == SubSeq(b, n + 1, Len(b))
<1>2. u \in Seq(Entry) /\ Len(u) = n /\ \A i \in 1 .. n : u[i] = b[i]
  <2>1. \A i \in 1 .. n : b[i] \in Entry
    BY <1>1
  <2>2. QED
    BY <1>1, <2>1, SubSeqProperties
<1>3. v \in Seq(Entry) /\ Len(v) = Len(b) - n /\ \A i \in 1 .. Len(b) - n : v[i] = b[n + i]
  <2>1. \A i \in n + 1 .. Len(b) : b[i] \in Entry
    BY <1>1
  <2>2. QED
    BY <1>1, <2>1, SubSeqProperties
<1> HIDE DEF u, v
<1> DEFINE w == u \o <<entry>>
<1>4. /\ w \in Seq(Entry) /\ Len(w) = n + 1 /\ w[n + 1] = entry
      /\ \A i \in 1 .. n : w[i] = b[i]
  <2> DEFINE e == <<entry>>
  <2>1. e \in Seq(Entry) /\ Len(e) = 1 /\ e[1] = entry
    OBVIOUS
  <2>2. w = u \o e
    OBVIOUS
  <2> HIDE DEF e, w
  <2>3. /\ w \in Seq(Entry) /\ Len(w) = Len(u) + Len(e)
        /\ \A i \in 1 .. Len(u) : w[i] = u[i]
        /\ \A i \in 1 .. Len(e) : w[Len(u) + i] = e[i]
    BY <1>2, <2>1, <2>2, CatFact
  <2>4. QED
    BY <1>2, <2>1, <2>3
<1>5. Inserted(b, entry, n) = w \o v
  BY DEF u, v, w, Inserted
<1> HIDE DEF w
<1>6. /\ Len(w \o v) = Len(b) + 1
      /\ \A i \in 1 .. n + 1 : (w \o v)[i] = w[i]
      /\ \A i \in n + 2 .. Len(b) + 1 : (w \o v)[i] = v[i - (n + 1)]
  BY <1>1, <1>3, <1>4, ConcatProperties
<1>7. \A i \in n + 2 .. Len(b) + 1 : v[i - (n + 1)] = b[i - 1]
  <2>1. ASSUME NEW i \in n + 2 .. Len(b) + 1 PROVE v[i - (n + 1)] = b[i - 1]
    <3>1. i - (n + 1) \in 1 .. Len(b) - n /\ n + (i - (n + 1)) = i - 1
      BY <1>1
    <3>2. QED
      BY <1>3, <3>1
  <2>2. QED
    BY <2>1
<1>8. n + 1 \in 1 .. n + 1 /\ \A i \in 1 .. n : i \in 1 .. n + 1
  OBVIOUS
<1>9. QED
  BY <1>5, <1>4, <1>6, <1>7, <1>8

(* A start that the full budget's window allows keeps the book spread.     *)
LEMMA BookedSpread ==
    ASSUME NEW b \in Seq(Entry), NEW max \in Nat \ {0}, Spread(b, max), NEW entry \in Entry,
           Len(b) >= max => entry.at >= b[Len(b) - max + 1].at + Window
    PROVE  Spread(Booked(b, entry), max)
<1> DEFINE d == Booked(b, entry)
<1>1. Len(b) \in Nat /\ entry.at \in Nat /\ Window \in Nat \ {0}
      /\ \A i \in 1 .. Len(b) : b[i].at \in Nat
  <2> HIDE DEF d
  <2>1. Len(b) \in Nat
    OBVIOUS
  <2>2. entry.at \in Nat
    BY DEF Entry
  <2>3. Window \in Nat \ {0}
    BY PacingAssumption
  <2>4. \A i \in 1 .. Len(b) : b[i] \in Entry
    BY ElementOfSeq
  <2>5. \A i \in 1 .. Len(b) : b[i].at \in Nat
    BY <2>4 DEF Entry
  <2>6. QED
    BY <2>1, <2>2, <2>3, <2>5
<1>2. PICK n \in 0 .. Len(b) :
         /\ d = Inserted(b, entry, n)
         /\ \A i \in 1 .. n : b[i].at <= entry.at
         /\ \A i \in n + 1 .. Len(b) : b[i].at > entry.at
  BY BookedAt DEF Spread
<1>3. /\ Len(d) = Len(b) + 1
      /\ \A i \in 1 .. n : d[i] = b[i]
      /\ d[n + 1] = entry
      /\ \A i \in n + 2 .. Len(b) + 1 : d[i] = b[i - 1]
  <2> HIDE DEF d
  <2>1. QED
    BY <1>2, InsertFact
<1> HIDE DEF d
<1>4. /\ \A i \in 1 .. Len(b) : \A j \in i .. Len(b) : b[i].at <= b[j].at
      /\ \A i \in 1 .. Len(b) - max : b[i + max].at >= b[i].at + Window
  BY DEF Spread, Sorted, Apart
<1>5. Sorted(d)
  <2>1. ASSUME NEW i \in 1 .. Len(d), NEW j \in i .. Len(d) PROVE d[i].at <= d[j].at
    <3>1. CASE j <= n
      <4>1. i \in 1 .. Len(b) /\ j \in i .. Len(b) /\ i \in 1 .. n /\ j \in 1 .. n
        BY <1>1, <1>3, <3>1
      <4>2. QED
        BY <1>3, <1>4, <4>1
    <3>2. CASE j = n + 1
      <4>1. i \in 1 .. n \/ i = n + 1
        BY <3>2
      <4>2. QED
        BY <1>1, <1>2, <1>3, <3>2, <4>1
    <3>3. CASE j > n + 1
      <4>1. j \in n + 2 .. Len(b) + 1 /\ j - 1 \in n + 1 .. Len(b) /\ j - 1 \in 1 .. Len(b)
        BY <1>1, <1>3, <3>3
      <4>2. d[j] = b[j - 1] /\ b[j - 1].at > entry.at
        BY <1>2, <1>3, <4>1
      <4>3. CASE i \in 1 .. n
        <5>1. i \in 1 .. Len(b) /\ j - 1 \in i .. Len(b)
          BY <1>1, <4>1, <4>3
        <5>2. QED
          BY <1>3, <1>4, <4>2, <4>3, <5>1
      <4>4. CASE i = n + 1
        BY <1>1, <1>3, <4>1, <4>2, <4>4
      <4>5. CASE i \in n + 2 .. Len(b) + 1
        <5>1. i - 1 \in 1 .. Len(b) /\ j - 1 \in i - 1 .. Len(b)
          BY <1>1, <4>1, <4>5
        <5>2. QED
          BY <1>3, <1>4, <4>2, <4>5, <5>1
      <4>6. QED
        BY <1>1, <1>3, <4>3, <4>4, <4>5
    <3>4. QED
      BY <1>1, <1>3, <3>1, <3>2, <3>3
  <2>2. QED
    BY <2>1 DEF Sorted
<1>6. Apart(d, max)
  <2>1. ASSUME NEW i \in 1 .. Len(d) - max PROVE d[i + max].at >= d[i].at + Window
    <3>1. Len(b) >= max /\ i \in 1 .. Len(b) - max + 1
      BY <1>1, <1>3
    <3> DEFINE k == Len(b) - max + 1
    <3>2. k \in 1 .. Len(b) /\ entry.at >= b[k].at + Window /\ k \in i .. Len(b)
      BY <1>1, <3>1
    <3> HIDE DEF k
    <3>3. b[i].at <= b[k].at
      <4>1. i \in 1 .. Len(b)
        BY <1>1, <3>1
      <4>2. QED
        BY <1>4, <3>2, <4>1
    <3>4. i \in 1 .. Len(b) /\ b[i].at + Window <= entry.at
      <4>1. i \in 1 .. Len(b)
        BY <1>1, <3>1
      <4>2. b[i].at \in Nat /\ b[k].at \in Nat
        BY <1>1, <3>2, <4>1
      <4>3. QED
        BY <1>1, <3>2, <3>3, <4>1, <4>2, SMTT(30)
    <3>5. ~(i >= n + 1)
      <4>1. SUFFICES ASSUME i >= n + 1 PROVE FALSE
        OBVIOUS
      <4>2. i \in n + 1 .. Len(b)
        BY <3>4, <4>1
      <4>3. b[i].at > entry.at
        BY <1>2, <4>2
      <4>4. QED
        BY <1>1, <3>4, <4>3
    <3>6. i \in 1 .. n /\ d[i] = b[i]
      BY <1>3, <3>4, <3>5
    <3>7. CASE i + max <= n
      <4>1. i + max \in 1 .. n /\ i \in 1 .. Len(b) - max
        BY <1>1, <3>4, <3>7
      <4>2. QED
        BY <1>3, <1>4, <3>6, <4>1
    <3>8. CASE i + max = n + 1
      BY <1>1, <1>3, <3>4, <3>6, <3>8
    <3>9. CASE i + max > n + 1
      <4>1. i + max \in n + 2 .. Len(b) + 1 /\ i + max - 1 \in n + 1 .. Len(b)
        BY <1>1, <3>1, <3>9
      <4>2. d[i + max] = b[i + max - 1] /\ b[i + max - 1].at > entry.at
        BY <1>2, <1>3, <4>1
      <4>3. i + max - 1 \in 1 .. Len(b)
        BY <1>1, <4>1
      <4>4. b[i + max - 1].at \in Nat /\ b[i].at \in Nat
        BY <1>1, <3>4, <4>3
      <4>5. d[i + max].at = b[i + max - 1].at /\ d[i].at = b[i].at
        BY <3>6, <4>2
      <4> DEFINE y == b[i + max - 1].at
      <4>6. y \in Nat /\ y > entry.at /\ d[i + max].at = y
        BY <4>2, <4>4, <4>5
      <4> HIDE DEF y
      <4>7. QED
        BY <1>1, <3>4, <4>4, <4>5, <4>6
    <3>10. QED
      BY <3>7, <3>8, <3>9, <3>4
  <2>2. QED
    BY <2>1 DEF Apart
<1>7. QED
  BY <1>5, <1>6 DEF Spread, d

Without(b, m) == SubSeq(b, 1, m - 1) \o SubSeq(b, m + 1, Len(b))

(* What stands where after the entry at m was taken out.                   *)
LEMMA RemovalFact ==
    ASSUME NEW b \in Seq(Entry), NEW m \in 1 .. Len(b)
    PROVE  /\ Len(Without(b, m)) = Len(b) - 1
           /\ \A i \in 1 .. m - 1 : Without(b, m)[i] = b[i]
           /\ \A i \in m .. Len(b) - 1 : Without(b, m)[i] = b[i + 1]
<1> DEFINE d == Without(b, m)
           u == SubSeq(b, 1, m - 1)
           v == SubSeq(b, m + 1, Len(b))
<1>1. Len(b) \in Nat /\ \A i \in 1 .. Len(b) : b[i] \in Entry
  BY ElementOfSeq
<1>2. u \in Seq(Entry) /\ Len(u) = m - 1 /\ \A i \in 1 .. m - 1 : u[i] = b[i]
  <2>1. \A i \in 1 .. m - 1 : b[i] \in Entry
    BY <1>1
  <2>2. QED
    BY <1>1, <2>1, SubSeqProperties
<1>3. v \in Seq(Entry) /\ Len(v) = Len(b) - m /\ \A i \in 1 .. Len(b) - m : v[i] = b[m + i]
  <2>1. \A i \in m + 1 .. Len(b) : b[i] \in Entry
    BY <1>1
  <2>2. QED
    BY <1>1, <2>1, SubSeqProperties
<1>4. d = u \o v
  BY DEF Without
<1> HIDE DEF u, v, d
<1>5. /\ Len(d) = Len(u) + Len(v)
      /\ \A i \in 1 .. Len(u) : d[i] = u[i]
      /\ \A i \in 1 .. Len(v) : d[Len(u) + i] = v[i]
  BY <1>2, <1>3, <1>4, CatFact
<1>6. ASSUME NEW i \in m .. Len(b) - 1 PROVE d[i] = b[i + 1]
  <2>1. i - (m - 1) \in 1 .. Len(v) /\ Len(u) + (i - (m - 1)) = i
    BY <1>1, <1>2, <1>3
  <2>2. d[Len(u) + (i - (m - 1))] = v[i - (m - 1)]
    BY <1>5, <2>1
  <2>3. i - (m - 1) \in 1 .. Len(b) - m /\ m + (i - (m - 1)) = i + 1
    BY <1>1
  <2>4. v[i - (m - 1)] = b[i + 1]
    BY <1>3, <2>3
  <2>5. QED
    BY <2>1, <2>2, <2>4
<1>7. QED
  BY <1>1, <1>2, <1>3, <1>5, <1>6 DEF d

(* Handing one reservation back keeps the book spread.                     *)
LEMMA RolledBackSpread ==
    ASSUME NEW b \in Seq(Entry), NEW max \in Nat \ {0}, Spread(b, max), NEW r
    PROVE  Spread(RolledBack(b, r), max)
<1> DEFINE mine == {i \in 1 .. Len(b) : b[i].by = r}
           m == CHOOSE i \in mine : TRUE
           d == RolledBack(b, r)
<1>1. CASE mine = {}
  BY <1>1 DEF RolledBack
<1>2. CASE mine # {}
  <2>1. m \in 1 .. Len(b)
    BY <1>2
  <2>2. d = SubSeq(b, 1, m - 1) \o SubSeq(b, m + 1, Len(b))
    BY <1>2 DEF RolledBack
  <2> HIDE DEF m, mine
  <2>3. Len(b) \in Nat /\ Window \in Nat /\ \A i \in 1 .. Len(b) : b[i] \in Entry
    BY ElementOfSeq, PacingAssumption
  <2>4. /\ Len(d) = Len(b) - 1
        /\ \A i \in 1 .. m - 1 : d[i] = b[i]
        /\ \A i \in m .. Len(b) - 1 : d[i] = b[i + 1]
    <3> HIDE DEF d
    <3>1. QED
      BY <2>1, <2>2, RemovalFact DEF Without
  <2> HIDE DEF d
  <2>5. \A i \in 1 .. Len(b) : b[i].at \in Nat
    BY <2>3 DEF Entry
  <2>6. /\ \A i \in 1 .. Len(b) : \A j \in i .. Len(b) : b[i].at <= b[j].at
        /\ \A i \in 1 .. Len(b) - max : b[i + max].at >= b[i].at + Window
    BY DEF Spread, Sorted, Apart
  (* Where an entry of d was in b.                                         *)
  <2> DEFINE old(i) == IF i < m THEN i ELSE i + 1
  <2>7. \A i \in 1 .. Len(d) : old(i) \in 1 .. Len(b) /\ d[i] = b[old(i)]
    BY <2>1, <2>3, <2>4
  <2>8. \A i \in 1 .. Len(d) : \A j \in i .. Len(d) : old(j) \in old(i) .. Len(b)
    BY <2>1, <2>3, <2>4
  <2>9. \A i \in 1 .. Len(d) - max :
           old(i) \in 1 .. Len(b) - max /\ old(i + max) \in old(i) + max .. Len(b)
    BY <2>1, <2>3, <2>4
  <2>10. \A i \in 1 .. Len(d) - max : i \in 1 .. Len(d) /\ i + max \in 1 .. Len(d)
    BY <2>3, <2>4
  <2> HIDE DEF old
  <2>11. Sorted(d)
    <3>1. ASSUME NEW i \in 1 .. Len(d), NEW j \in i .. Len(d) PROVE d[i].at <= d[j].at
      <4>1. j \in 1 .. Len(d)
        BY <2>3, <2>4
      <4>2. QED
        BY <2>6, <2>7, <2>8, <4>1
    <3>2. QED
      BY <3>1 DEF Sorted
  <2>12. Apart(d, max)
    <3>1. ASSUME NEW i \in 1 .. Len(d) - max PROVE d[i + max].at >= d[i].at + Window
      <4>1. d[i] = b[old(i)] /\ d[i + max] = b[old(i + max)]
        BY <2>7, <2>10
      <4>2. /\ old(i) \in 1 .. Len(b) - max
            /\ old(i) + max \in 1 .. Len(b)
            /\ old(i + max) \in old(i) + max .. Len(b)
        BY <2>3, <2>9
      <4>3. b[old(i) + max].at >= b[old(i)].at + Window /\ b[old(i + max)].at >= b[old(i) + max].at
        BY <2>6, <4>2
      <4>4. /\ b[old(i)].at \in Nat /\ b[old(i) + max].at \in Nat /\ b[old(i + max)].at \in Nat
        BY <2>3, <2>5, <4>2, SMTT(30)
      <4> DEFINE x == b[old(i)].at
                 y == b[old(i) + max].at
                 z == b[old(i + max)].at
      <4>5. d[i].at = x /\ d[i + max].at = z /\ y >= x + Window /\ z >= y
        BY <4>1, <4>3
      <4>6. x \in Nat /\ y \in Nat /\ z \in Nat
        BY <4>4
      <4> HIDE DEF x, y, z
      <4>7. QED
        BY <2>3, <4>5, <4>6
    <3>2. QED
      BY <3>1 DEF Apart
  <2>13. QED
    BY <2>11, <2>12 DEF Spread, d
<1>3. QED
  BY <1>1, <1>2

LEMMA LiveSpread ==
    ASSUME NEW b \in Seq(Entry), NEW max \in Nat \ {0}, Spread(b, max)
    PROVE  Spread(LiveBook(b), max)
<1> DEFINE expired == {i \in 1 .. Len(b) : \A j \in 1 .. i : b[j].at + Window <= clock}
           m == Cardinality(expired) + 1
<1>1. Len(b) \in Nat
  OBVIOUS
<1>2. Cardinality(expired) \in Nat /\ Cardinality(expired) <= Len(b)
  BY <1>1, CountFact
<1>3. LiveBook(b) = SubSeq(b, m, Len(b))
  BY DEF LiveBook
<1>4. m \in 1 .. Len(b) + 1
  <2> HIDE DEF expired
  <2>1. QED
    BY <1>1, <1>2
<1> HIDE DEF m
<1>5. QED
  BY <1>3, <1>4, SuffixSpread

BookInv == \A s \in Slots, l \in Lanes : Spread(book[s][l], Budget(l))

LEMMA BudgetFact == ASSUME NEW l \in Lanes PROVE Budget(l) \in Nat \ {0}
BY PacingAssumption DEF Budget

(* Replacing one lane's book by a spread one.                              *)
LEMMA BookMoves ==
    ASSUME TypeOK, BookInv, NEW s \in Slots, NEW l \in Lanes, NEW b, Spread(b, Budget(l)),
           book' = [book EXCEPT ![s][l] = b]
    PROVE  BookInv'
<1>1. \A x \in Slots, y \in Lanes :
         book'[x][y] = IF x = s /\ y = l THEN b ELSE book[x][y]
  BY DEF TypeOK
<1>2. \A x \in Slots, y \in Lanes : Spread(book'[x][y], Budget(y))
  BY <1>1 DEF BookInv
<1>3. QED
  BY <1>2 DEF BookInv, Spread, Sorted, Apart

LEMMA AttemptSpread ==
    ASSUME TypeOK, BookInv, NEW r \in Requests, NEW q \in Request, Attempt(r, q)
    PROVE  BookInv'
<1> DEFINE s == SlotOf(q)
           l == LaneOf(q)
           live == LiveBook(book[s][l])
           start == BudgetSlot(live, Budget(l))
           entry == [at |-> start, by |-> r]
<1>1. s \in Slots /\ l \in Lanes /\ clock \in Nat /\ Budget(l) \in Nat \ {0}
  BY SlotFact, BudgetFact DEF TypeOK
<1>2. book[s][l] \in Seq(Entry) /\ Spread(book[s][l], Budget(l))
  BY <1>1 DEF TypeOK, Entry, BookInv
<1>3. live \in Seq(Entry) /\ Spread(live, Budget(l))
  BY <1>1, <1>2, LiveBookFact, LiveSpread
<1>4. start \in Nat
  BY <1>1, <1>3, BudgetSlotFact
<1>5. entry \in Entry /\ entry.at = start
  BY <1>4 DEF Entry
<1>6. \/ book' = [book EXCEPT ![s][l] = live]
      \/ book' = [book EXCEPT ![s][l] = Booked(live, entry)]
  BY AttemptFact
<1> HIDE DEF entry
<1>7. Len(live) >= Budget(l) => start >= live[Len(live) - Budget(l) + 1].at + Window
  <2>1. SUFFICES ASSUME Len(live) >= Budget(l)
                 PROVE  start >= live[Len(live) - Budget(l) + 1].at + Window
    OBVIOUS
  <2> DEFINE k == Len(live) - Budget(l) + 1
  <2>2. start = Later(clock, live[k].at + Window)
    BY <2>1 DEF BudgetSlot
  <2>3. k \in 1 .. Len(live)
    <3> HIDE DEF live, l
    <3>1. QED
      BY <1>1, <1>3, <2>1
  <2> HIDE DEF live, start, k
  <2>4. live[k] \in Entry
    BY <1>3, <2>3, ElementOfSeq
  <2>5. live[k].at + Window \in Nat
    BY <2>4, PacingAssumption DEF Entry
  <2>6. start >= live[k].at + Window
    BY <1>1, <2>2, <2>5, LaterFact
  <2>7. QED
    BY <2>6 DEF k
<1> HIDE DEF live, start, s, l
<1>8. Spread(Booked(live, entry), Budget(l))
  BY <1>1, <1>3, <1>5, <1>7, BookedSpread
<1>9. QED
  BY <1>1, <1>3, <1>6, <1>8, BookMoves

(* Books stay spread.                                                      *)
LEMMA BooksKept == Spec => []BookInv
<1>1. Init => BookInv
  BY BudgetFact DEF Init, BookInv, Spread, Sorted, Apart
<1>2. TypeOK /\ BookInv /\ [Next]_vars => BookInv'
  <2> SUFFICES ASSUME TypeOK, BookInv, [Next]_vars PROVE BookInv'
    OBVIOUS
  <2>1. CASE UNCHANGED book
    BY <2>1 DEF BookInv, Spread, Sorted, Apart
  <2>2. ASSUME NEW r \in Requests, Begin(r) PROVE BookInv'
    <3> DEFINE q == [request[r] EXCEPT !.deadline = clock + MaxWait, !.first = cursor]
    <3>1. q \in Request
      BY BegunFact
    <3>2. Attempt(r, q)
      BY <2>2 DEF Begin
    <3> HIDE DEF q
    <3>3. QED
      BY <3>1, <3>2, AttemptSpread
  <2>3. ASSUME NEW r \in Requests, NextSlot(r) PROVE BookInv'
    <3> DEFINE q == [request[r] EXCEPT !.step = request[r].step + 1]
    <3>1. q \in Request
      BY SteppedFact
    <3>2. Attempt(r, q) \/ UNCHANGED book
      BY <2>3 DEF NextSlot
    <3> HIDE DEF q
    <3>3. QED
      BY <2>1, <3>1, <3>2, AttemptSpread
  <2>4. ASSUME NEW r \in Requests, Undo(r) PROVE BookInv'
    <3> DEFINE s == SlotOf(request[r])
               l == LaneOf(request[r])
    <3>1. s \in Slots /\ l \in Lanes /\ Budget(l) \in Nat \ {0}
      BY SlotFact, BudgetFact DEF TypeOK
    <3>2. book' = [book EXCEPT ![s][l] = RolledBack(book[s][l], r)]
      BY <2>4 DEF Undo
    <3> HIDE DEF s, l
    <3>3. Spread(RolledBack(book[s][l], r), Budget(l))
      BY <3>1, RolledBackSpread DEF TypeOK, Entry, BookInv
    <3>4. QED
      BY <3>1, <3>2, <3>3, BookMoves
  <2>5. ASSUME NEW r \in Requests, Continue(r) PROVE BookInv'
    BY <2>1, <2>3, <2>4, <2>5 DEF Continue, WriteGate, Enqueue, Start, laneVars
  <2>6. ASSUME NEW r \in Requests, NEW limited \in BOOLEAN, Settle(r, limited)
        PROVE  BookInv'
    BY <2>1, <2>6 DEF Settle
  <2>7. ASSUME NEW s \in Slots, Scheduler(s) PROVE BookInv'
    BY <2>1, <2>7 DEF Scheduler, Pick, BatchEnds, Drain, laneVars
  <2>8. CASE Tick \/ UNCHANGED vars
    BY <2>1, <2>8 DEF Tick, vars, laneVars
  <2>9. QED
    BY <2>2, <2>5, <2>6, <2>7, <2>8 DEF Next
<1>3. QED
  BY <1>1, <1>2, TypeCorrect, PTL DEF Spec

(* Every window of a lane's budget holds at most its budget of             *)
(* reservations, whatever order concurrent admissions book, age out and    *)
(* hand back their starts in, for any budget and any window.               *)
THEOREM WindowsWithinBudget == Spec => []WindowBudget
<1>1. BookInv => WindowBudget
  BY DEF BookInv, WindowBudget, Spread, Apart
<1>2. QED
  BY <1>1, BooksKept, PTL
-----------------------------------------------------------------------------
(* Whose the reservations are                                              *)

Entries(b) == {b[i] : i \in 1 .. Len(b)}
Once(b) == \A i, j \in 1 .. Len(b) : b[i].by = b[j].by => i = j

(* Aging out only drops reservations that no window counts any more.       *)
LEMMA LiveEntries ==
    ASSUME NEW b \in Seq(Entry), clock \in Nat, Once(b)
    PROVE  /\ Once(LiveBook(b)) /\ Entries(LiveBook(b)) \subseteq Entries(b)
           /\ \A e \in Entries(b) : e.at + Window > clock => e \in Entries(LiveBook(b))
<1> DEFINE expired == {i \in 1 .. Len(b) : \A j \in 1 .. i : b[j].at + Window <= clock}
           k == Cardinality(expired)
           d == LiveBook(b)
<1>1. Len(b) \in Nat /\ \A i \in 1 .. Len(b) : b[i] \in Entry
  BY ElementOfSeq
<1>2. k \in Nat /\ k <= Len(b)
  BY <1>1, CountFact
<1>3. \A j \in 1 .. Len(b) : b[j].at + Window > clock => j > k
  <2> SUFFICES ASSUME NEW j \in 1 .. Len(b), b[j].at + Window > clock PROVE j > k
    OBVIOUS
  <2>1. b[j].at + Window \in Nat
    <3>1. b[j].at \in Nat /\ Window \in Nat
      BY <1>1, PacingAssumption DEF Entry
    <3> HIDE DEF expired
    <3>2. QED
      BY <3>1
  <2>2. expired \in SUBSET (1 .. j - 1)
    <3> SUFFICES ASSUME NEW i \in expired PROVE i < j
      BY <1>1
    <3>1. i \in 1 .. Len(b) /\ \A x \in 1 .. i : b[x].at + Window <= clock
      OBVIOUS
    <3>2. j \notin 1 .. i
      BY <2>1, <3>1
    <3>3. QED
      BY <1>1, <3>1, <3>2
  <2> HIDE DEF expired
  <2>3. k <= j - 1
    BY <1>1, <2>2, CountFact
  <2>4. QED
    BY <1>1, <1>2, <2>3
<1>4. d = SubSeq(b, k + 1, Len(b))
  BY DEF LiveBook
<1> HIDE DEF d, k, expired
<1>5. d \in Seq(Entry) /\ Len(d) = Len(b) - k /\ \A i \in 1 .. Len(d) : d[i] = b[k + i]
  <2>1. \A i \in k + 1 .. Len(b) : b[i] \in Entry
    BY <1>1, <1>2
  <2>2. QED
    BY <1>1, <1>2, <1>4, <2>1, SubSeqProperties
<1>6. \A i \in 1 .. Len(d) : k + i \in 1 .. Len(b)
  BY <1>1, <1>2, <1>5
<1>7. Once(d)
  <2> SUFFICES ASSUME NEW i \in 1 .. Len(d), NEW j \in 1 .. Len(d), d[i].by = d[j].by
               PROVE  i = j
    BY DEF Once
  <2>1. k + i = k + j
    BY <1>5, <1>6 DEF Once
  <2>2. QED
    BY <1>1, <1>2, <1>5, <2>1
<1>8. Entries(d) \subseteq Entries(b)
  BY <1>5, <1>6 DEF Entries
<1>9. \A e \in Entries(b) : e.at + Window > clock => e \in Entries(d)
  <2> SUFFICES ASSUME NEW j \in 1 .. Len(b), b[j].at + Window > clock PROVE b[j] \in Entries(d)
    BY DEF Entries
  <2>1. j > k
    BY <1>3
  <2>2. j - k \in 1 .. Len(d) /\ k + (j - k) = j
    BY <1>1, <1>2, <1>5, <2>1
  <2>3. d[j - k] = b[j]
    BY <1>5, <2>2
  <2>4. QED
    BY <2>2, <2>3 DEF Entries
<1>10. QED
  BY <1>7, <1>8, <1>9 DEF d

(* Booking adds one reservation.                                           *)
LEMMA BookedEntries ==
    ASSUME NEW b \in Seq(Entry), Sorted(b), Once(b), NEW entry \in Entry,
           \A e \in Entries(b) : e.by # entry.by
    PROVE  Once(Booked(b, entry)) /\ Entries(Booked(b, entry)) = Entries(b) \cup {entry}
<1>1. PICK n \in 0 .. Len(b) : Booked(b, entry) = Inserted(b, entry, n)
  BY BookedAt
<1> DEFINE d == Inserted(b, entry, n)
           old(i) == IF i <= n THEN i ELSE i - 1
<1>2. /\ Len(d) = Len(b) + 1 /\ d[n + 1] = entry
      /\ \A i \in 1 .. n : d[i] = b[i]
      /\ \A i \in n + 2 .. Len(b) + 1 : d[i] = b[i - 1]
  BY InsertFact
<1>3. Len(b) \in Nat /\ n \in Nat
  OBVIOUS
<1> HIDE DEF d
<1>4. \A i \in 1 .. Len(d) : i # n + 1 => old(i) \in 1 .. Len(b) /\ d[i] = b[old(i)]
  <2> SUFFICES ASSUME NEW i \in 1 .. Len(d), i # n + 1
               PROVE  old(i) \in 1 .. Len(b) /\ d[i] = b[old(i)]
    OBVIOUS
  <2>1. CASE i <= n
    BY <1>2, <1>3, <2>1
  <2>2. CASE ~(i <= n)
    <3>1. i \in n + 2 .. Len(b) + 1
      BY <1>2, <1>3, <2>2
    <3>2. QED
      BY <1>2, <1>3, <2>2, <3>1
  <2>3. QED
    BY <2>1, <2>2
<1>5. n + 1 \in 1 .. Len(d)
  BY <1>2, <1>3
<1>6. \A i, j \in 1 .. Len(d) : i # n + 1 /\ j # n + 1 /\ old(i) = old(j) => i = j
  BY <1>2, <1>3
<1>7. \A j \in 1 .. Len(b) : \E i \in 1 .. Len(d) : i # n + 1 /\ old(i) = j
  <2> SUFFICES ASSUME NEW j \in 1 .. Len(b)
               PROVE  \E i \in 1 .. Len(d) : i # n + 1 /\ old(i) = j
    OBVIOUS
  <2>1. CASE j <= n
    <3>1. j \in 1 .. Len(d) /\ j # n + 1 /\ old(j) = j
      BY <1>2, <1>3, <2>1
    <3>2. QED
      BY <3>1
  <2>2. CASE ~(j <= n)
    <3>1. j + 1 \in 1 .. Len(d) /\ j + 1 # n + 1 /\ old(j + 1) = j
      BY <1>2, <1>3, <2>2
    <3>2. QED
      BY <3>1
  <2>3. QED
    BY <2>1, <2>2
<1> HIDE DEF old
<1>8. Once(d)
  <2> SUFFICES ASSUME NEW i \in 1 .. Len(d), NEW j \in 1 .. Len(d), d[i].by = d[j].by
               PROVE  i = j
    BY DEF Once
  <2>1. \A x \in 1 .. Len(d) : x # n + 1 => d[x].by # entry.by
    BY <1>4 DEF Entries
  <2>2. CASE i = n + 1 \/ j = n + 1
    BY <1>2, <2>1, <2>2
  <2>3. CASE i # n + 1 /\ j # n + 1
    <3>1. old(i) = old(j)
      BY <1>4, <2>3 DEF Once
    <3>2. QED
      BY <1>6, <2>3, <3>1
  <2>4. QED
    BY <2>2, <2>3
<1>9. Entries(d) \subseteq Entries(b) \cup {entry}
  BY <1>2, <1>4 DEF Entries
<1>10. Entries(b) \cup {entry} \subseteq Entries(d)
  <2>1. entry \in Entries(d)
    BY <1>2, <1>5 DEF Entries
  <2>2. ASSUME NEW j \in 1 .. Len(b) PROVE b[j] \in Entries(d)
    <3>1. PICK i \in 1 .. Len(d) : i # n + 1 /\ old(i) = j
      BY <1>7
    <3>2. d[i] = b[j]
      BY <1>4, <3>1
    <3>3. QED
      BY <3>2 DEF Entries
  <2>3. QED
    BY <2>1, <2>2 DEF Entries
<1>11. QED
  BY <1>1, <1>8, <1>9, <1>10 DEF d

(* A rollback hands back the reservation of its caller, and no other.      *)
LEMMA RolledBackEntries ==
    ASSUME NEW b \in Seq(Entry), Once(b), NEW r
    PROVE  /\ Once(RolledBack(b, r))
           /\ Entries(RolledBack(b, r)) = {e \in Entries(b) : e.by # r}
<1> DEFINE mine == {i \in 1 .. Len(b) : b[i].by = r}
           m == CHOOSE i \in mine : TRUE
           d == RolledBack(b, r)
<1>1. CASE mine = {}
  BY <1>1 DEF RolledBack, Entries
<1>2. CASE mine # {}
  <2>1. m \in 1 .. Len(b) /\ b[m].by = r
    BY <1>2
  <2>2. d = Without(b, m)
    BY <1>2 DEF RolledBack, Without
  <2> HIDE DEF m, mine, d
  <2>3. /\ Len(b) \in Nat /\ Len(d) = Len(b) - 1
        /\ \A i \in 1 .. m - 1 : d[i] = b[i]
        /\ \A i \in m .. Len(b) - 1 : d[i] = b[i + 1]
    <3>1. Len(b) \in Nat
      OBVIOUS
    <3>2. /\ Len(Without(b, m)) = Len(b) - 1
          /\ \A i \in 1 .. m - 1 : Without(b, m)[i] = b[i]
          /\ \A i \in m .. Len(b) - 1 : Without(b, m)[i] = b[i + 1]
      BY <2>1, RemovalFact
    <3>3. QED
      BY <2>2, <3>1, <3>2, Zenon
  <2> DEFINE old(i) == IF i < m THEN i ELSE i + 1
  <2>4. \A i \in 1 .. Len(d) : old(i) \in 1 .. Len(b) /\ old(i) # m /\ d[i] = b[old(i)]
    BY <2>1, <2>3
  <2>5. \A i, j \in 1 .. Len(d) : old(i) = old(j) => i = j
    BY <2>1, <2>3
  <2>6. \A j \in 1 .. Len(b) : j # m => \E i \in 1 .. Len(d) : old(i) = j
    <3> SUFFICES ASSUME NEW j \in 1 .. Len(b), j # m PROVE \E i \in 1 .. Len(d) : old(i) = j
      OBVIOUS
    <3>1. CASE j < m
      <4>1. j \in 1 .. Len(d) /\ old(j) = j
        BY <2>1, <2>3, <3>1
      <4>2. QED
        BY <4>1
    <3>2. CASE ~(j < m)
      <4>1. j - 1 \in 1 .. Len(d) /\ old(j - 1) = j
        BY <2>1, <2>3, <3>2
      <4>2. QED
        BY <4>1
    <3>3. QED
      BY <3>1, <3>2
  <2> HIDE DEF old
  <2>7. Once(d)
    <3> SUFFICES ASSUME NEW i \in 1 .. Len(d), NEW j \in 1 .. Len(d), d[i].by = d[j].by
                 PROVE  i = j
      BY DEF Once
    <3>1. old(i) = old(j)
      BY <2>4 DEF Once
    <3>2. QED
      BY <2>5, <3>1
  <2>8. \A i \in 1 .. Len(d) : d[i] \in Entries(b) /\ d[i].by # r
    <3> SUFFICES ASSUME NEW i \in 1 .. Len(d) PROVE d[i] \in Entries(b) /\ d[i].by # r
      OBVIOUS
    <3>1. old(i) \in 1 .. Len(b) /\ old(i) # m /\ d[i] = b[old(i)]
      BY <2>4
    <3>2. b[old(i)].by # b[m].by
      BY <2>1, <3>1 DEF Once
    <3>3. QED
      BY <2>1, <3>1, <3>2 DEF Entries
  <2>9. \A j \in 1 .. Len(b) : b[j].by # r => b[j] \in Entries(d)
    <3> SUFFICES ASSUME NEW j \in 1 .. Len(b), b[j].by # r PROVE b[j] \in Entries(d)
      OBVIOUS
    <3>1. PICK i \in 1 .. Len(d) : old(i) = j
      BY <2>1, <2>6
    <3>2. d[i] = b[j]
      BY <2>4, <3>1
    <3>3. QED
      BY <3>2 DEF Entries
  <2>10. Entries(d) = {e \in Entries(b) : e.by # r}
    BY <2>8, <2>9 DEF Entries
  <2>11. QED
    BY <2>7, <2>10 DEF d
<1>3. QED
  BY <1>1, <1>2

(* Every reservation is its holder's only one, in the book of the slot and *)
(* lane its holder is at, and no earlier than its holder began: it counts  *)
(* while a window since then does.                                         *)
Asking(q) == q.pc \in {"budget", "queued", "undo", "lane"}
OwnedBy(e, q, s, l) ==
    Holds(q) /\ SlotOf(q) = s /\ LaneOf(q) = l /\ e.at + MaxWait >= q.deadline
Covered(r) ==
    LET q == request[r]
    IN  Asking(q) /\ q.deadline + Window > clock + MaxWait
           => \E e \in Entries(book[SlotOf(q)][LaneOf(q)]) : e.by = r
OwnInv ==
    /\ \A s \in Slots, l \in Lanes :
          /\ Once(book[s][l])
          /\ \A e \in Entries(book[s][l]) : OwnedBy(e, request[e.by], s, l)
    /\ \A r \in Requests : request[r].pc # "new" => request[r].deadline <= clock + MaxWait
    /\ \A r \in Requests : Covered(r)

LEMMA EntryFact ==
    ASSUME TypeOK, NEW s \in Slots, NEW l \in Lanes
    PROVE  book[s][l] \in Seq(Entry) /\ Entries(book[s][l]) \subseteq Entry
<1>1. book[s][l] \in Seq(Entry)
  BY DEF TypeOK, Entry
<1>2. QED
  BY <1>1, ElementOfSeq DEF Entries

(* A request that moves on with the reservation it holds, or without one.  *)
LEMMA HolderMoves ==
    ASSUME TypeOK, OwnInv, NEW r \in Requests, book' = book, clock' = clock,
           \A x \in Requests \ {r} : request'[x] = request[x],
           /\ request[r].pc # "new" /\ request'[r].deadline = request[r].deadline
           /\ \/ ~Holds(request[r]) /\ ~Holds(request'[r])
              \/ /\ Holds(request'[r]) /\ (Asking(request'[r]) => Asking(request[r]))
                 /\ SlotOf(request'[r]) = SlotOf(request[r])
                 /\ LaneOf(request'[r]) = LaneOf(request[r])
    PROVE  OwnInv'
<1>1. \A s \in Slots, l \in Lanes : Once(book'[s][l])
  BY DEF OwnInv
<1>2. ASSUME NEW s \in Slots, NEW l \in Lanes, NEW e \in Entries(book[s][l])
      PROVE  OwnedBy(e, request'[e.by], s, l)
  <2>1. e.by \in Requests /\ OwnedBy(e, request[e.by], s, l)
    BY EntryFact DEF OwnInv, Entry
  <2>2. CASE e.by = r
    BY <2>1, <2>2 DEF OwnedBy
  <2>3. CASE e.by # r
    BY <2>1, <2>3
  <2>4. QED
    BY <2>2, <2>3
<1>3. \A x \in Requests : request'[x].pc # "new" => request'[x].deadline <= clock' + MaxWait
  BY DEF OwnInv
<1>4. ASSUME NEW x \in Requests PROVE Covered(x)'
  <2>1. Covered(x)
    BY DEF OwnInv
  <2>2. CASE x = r
    BY <2>1, <2>2 DEF Covered, Holds, Asking
  <2>3. CASE x # r
    BY <2>1, <2>3 DEF Covered
  <2>4. QED
    BY <2>2, <2>3
<1>5. QED
  BY <1>1, <1>2, <1>3, <1>4 DEF OwnInv, Once, Entries, OwnedBy, Holds, SlotOf, LaneOf

(* A book of one slot and lane is replaced, and every request but r finds  *)
(* its live reservation there as before.                                   *)
RebookedOf(r, s, l, b) ==
    /\ Once(b)
    /\ \A e \in Entries(b) : \/ e \in Entries(book[s][l]) /\ e.by # r
                             \/ e.by = r /\ OwnedBy(e, request'[r], s, l)
    /\ \A e \in Entries(book[s][l]) : e.by # r /\ e.at + Window > clock => e \in Entries(b)
UnbookedElsewhere(r, s, l) ==
    \A t \in Slots, k \in Lanes : <<t, k>> # <<s, l>> =>
       \A e \in Entries(book[t][k]) : e.by # r
PlacedAt(r, s, l, b) ==
    /\ request'[r].pc # "new" => request'[r].deadline <= clock + MaxWait
    /\ Asking(request'[r]) => /\ SlotOf(request'[r]) = s /\ LaneOf(request'[r]) = l
                              /\ \E e \in Entries(b) : e.by = r

LEMMA BookReplaced ==
    ASSUME TypeOK, OwnInv, NEW r \in Requests, NEW s \in Slots, NEW l \in Lanes, NEW b,
           book' = [book EXCEPT ![s][l] = b], clock' = clock,
           \A x \in Requests \ {r} : request'[x] = request[x],
           RebookedOf(r, s, l, b), UnbookedElsewhere(r, s, l), PlacedAt(r, s, l, b)
    PROVE  OwnInv'
<1>1. \A t \in Slots, k \in Lanes :
         book'[t][k] = IF t = s /\ k = l THEN b ELSE book[t][k]
  BY DEF TypeOK
<1>2. \A t \in Slots, k \in Lanes : Once(book'[t][k])
  BY <1>1 DEF OwnInv, RebookedOf
<1>3. ASSUME NEW t \in Slots, NEW k \in Lanes, NEW e \in Entries(book'[t][k])
      PROVE  OwnedBy(e, request'[e.by], t, k)
  <2>1. CASE e \in Entries(book[t][k]) /\ e.by # r
    <3>1. e.by \in Requests /\ OwnedBy(e, request[e.by], t, k)
      BY <2>1, EntryFact DEF OwnInv, Entry
    <3>2. QED
      BY <2>1, <3>1
  <2>2. CASE t = s /\ k = l
    BY <1>1, <2>1, <2>2 DEF RebookedOf
  <2>3. CASE <<t, k>> # <<s, l>>
    BY <1>1, <2>1, <2>3 DEF UnbookedElsewhere
  <2>4. QED
    BY <2>2, <2>3
<1>4. \A x \in Requests : request'[x].pc # "new" => request'[x].deadline <= clock' + MaxWait
  BY DEF OwnInv, PlacedAt
<1>5. ASSUME NEW x \in Requests PROVE Covered(x)'
  <2>1. CASE x = r
    BY <1>1, <2>1 DEF Covered, PlacedAt
  <2>2. CASE x # r
    <3> DEFINE q == request[x]
    <3>1. request'[x] = q /\ q \in Request /\ SlotOf(q) \in Slots /\ LaneOf(q) \in Lanes
      BY <2>2, SlotFact DEF TypeOK
    <3> HIDE DEF q
    <3>2. SUFFICES ASSUME Asking(q), q.deadline + Window > clock + MaxWait
                   PROVE  \E e \in Entries(book'[SlotOf(q)][LaneOf(q)]) : e.by = x
      BY <3>1 DEF Covered, Asking, SlotOf, LaneOf, Entries
    <3>3. PICK e \in Entries(book[SlotOf(q)][LaneOf(q)]) : e.by = x
      BY <3>2 DEF OwnInv, Covered, q
    <3>4. /\ e \in Entry /\ e.at + MaxWait >= q.deadline
      BY <3>1, <3>3, EntryFact DEF OwnInv, OwnedBy, q
    <3>5. e.at + Window > clock
      <4>1. e.at \in Nat /\ q.deadline \in Nat /\ clock \in Nat /\ MaxWait \in Nat /\ Window \in Nat
        BY <3>1, <3>4, PacingAssumption DEF TypeOK, Entry, Request
      <4>2. QED
        BY <3>2, <3>4, <4>1
    <3>6. e \in Entries(book'[SlotOf(q)][LaneOf(q)])
      BY <1>1, <2>2, <3>1, <3>3, <3>5 DEF RebookedOf
    <3>7. QED
      BY <3>3, <3>6
  <2>3. QED
    BY <2>1, <2>2
<1>6. QED
  BY <1>2, <1>3, <1>4, <1>5 DEF OwnInv, Once, Entries, OwnedBy, Holds, SlotOf, LaneOf

(* A request without a reservation is refused by a budget, or booked once. *)
LEMMA AttemptOwns ==
    ASSUME TypeOK, BookInv, OwnInv, NEW r \in Requests, NEW q \in Request, Attempt(r, q),
           ~Holds(request[r]), q.deadline <= clock + MaxWait, clock' = clock
    PROVE  OwnInv'
<1> DEFINE s == SlotOf(q)
           l == LaneOf(q)
           live == LiveBook(book[s][l])
           start == BudgetSlot(live, Budget(l))
           entry == [at |-> start, by |-> r]
<1>1. /\ s \in Slots /\ l \in Lanes /\ clock \in Nat /\ MaxWait \in Nat /\ Window \in Nat
      /\ request \in [Requests -> Request] /\ q.deadline \in Nat
  BY SlotFact, PacingAssumption DEF TypeOK, Request
<1>2. \A t \in Slots, k \in Lanes : \A e \in Entries(book[t][k]) : e.by # r
  BY DEF OwnInv, OwnedBy
<1>3. book[s][l] \in Seq(Entry) /\ Once(book[s][l])
  BY <1>1, EntryFact DEF OwnInv
<1>4. /\ Once(live) /\ Entries(live) \subseteq Entries(book[s][l])
      /\ \A e \in Entries(book[s][l]) : e.at + Window > clock => e \in Entries(live)
  BY <1>1, <1>3, LiveEntries
<1>5. live \in Seq(Entry) /\ Sorted(live)
  <2>1. Budget(l) \in Nat \ {0} /\ Spread(book[s][l], Budget(l))
    BY <1>1, BudgetFact DEF BookInv
  <2>2. QED
    BY <1>3, <2>1, LiveSpread, LiveBookFact DEF Spread
<1>6. start \in Nat /\ start >= clock
  BY <1>1, <1>5, BudgetSlotFact
<1>7. \/ /\ book' = [book EXCEPT ![s][l] = live]
         /\ request' = [request EXCEPT ![r] = Asleep(q, "select", clock, 0)]
      \/ /\ book' = [book EXCEPT ![s][l] = Booked(live, entry)]
         /\ request' = [request EXCEPT ![r] = Asleep(q, "budget", start, start - clock)]
  BY AttemptFact
<1> HIDE DEF start, live, s, l
<1>8. CASE /\ book' = [book EXCEPT ![s][l] = live]
           /\ request' = [request EXCEPT ![r] = Asleep(q, "select", clock, 0)]
  <2> DEFINE a == Asleep(q, "select", clock, 0)
  <2>1. a.pc = "select" /\ a.deadline = q.deadline
    BY <1>1 DEF Asleep, Request
  <2> HIDE DEF a
  <2>2. request'[r] = a /\ \A x \in Requests \ {r} : request'[x] = request[x]
    BY <1>1, <1>8 DEF a
  <2>3. ~Asking(request'[r]) /\ request'[r].deadline <= clock + MaxWait
    BY <2>1, <2>2 DEF Asking
  <2>4. \A e \in Entries(live) : e \in Entries(book[s][l]) /\ e.by # r
    BY <1>1, <1>2, <1>4
  <2>5. RebookedOf(r, s, l, live)
    BY <1>4, <2>4 DEF RebookedOf
  <2>6. UnbookedElsewhere(r, s, l) /\ PlacedAt(r, s, l, live)
    BY <1>2, <2>3 DEF UnbookedElsewhere, PlacedAt
  <2>7. QED
    BY <1>1, <1>8, <2>2, <2>5, <2>6, BookReplaced
<1>9. CASE /\ book' = [book EXCEPT ![s][l] = Booked(live, entry)]
           /\ request' = [request EXCEPT ![r] = Asleep(q, "budget", start, start - clock)]
  <2> DEFINE w == start - clock
             a == Asleep(q, "budget", start, w)
             b == Booked(live, entry)
  <2>1. w \in Nat /\ "budget" \in Phases
    BY <1>1, <1>6 DEF Phases
  <2>2. book' = [book EXCEPT ![s][l] = b] /\ request' = [request EXCEPT ![r] = a]
    BY <1>9
  <2> HIDE DEF w
  <2>3. /\ a.pc = "budget" /\ a.deadline = q.deadline
        /\ SlotOf(a) = s /\ LaneOf(a) = l
    BY <1>6, <2>1, AsleepFact DEF LaneOf, s, l
  <2> HIDE DEF a
  <2>4. request'[r] = a /\ \A x \in Requests \ {r} : request'[x] = request[x]
    BY <1>1, <2>2
  <2>5. entry \in Entry /\ entry.by = r /\ entry.at = start
    BY <1>6 DEF Entry
  <2> HIDE DEF entry
  <2>6. Once(b) /\ Entries(b) = Entries(live) \cup {entry}
    BY <1>1, <1>2, <1>4, <1>5, <2>5, BookedEntries
  <2> HIDE DEF b
  <2>7. OwnedBy(entry, request'[r], s, l)
    <3>1. entry.at + MaxWait >= q.deadline
      BY <1>1, <1>6, <2>5
    <3>2. QED
      BY <2>3, <2>4, <3>1 DEF OwnedBy, Holds
  <2>8. \A e \in Entries(b) : \/ e \in Entries(book[s][l]) /\ e.by # r
                              \/ e.by = r /\ OwnedBy(e, request'[r], s, l)
    BY <1>1, <1>2, <1>4, <2>5, <2>6, <2>7
  <2>9. \A e \in Entries(book[s][l]) : e.by # r /\ e.at + Window > clock => e \in Entries(b)
    BY <1>4, <2>6
  <2>10. /\ request'[r].deadline <= clock + MaxWait
         /\ SlotOf(request'[r]) = s /\ LaneOf(request'[r]) = l
         /\ \E e \in Entries(b) : e.by = r
    BY <2>3, <2>4, <2>5, <2>6
  <2>11. RebookedOf(r, s, l, b)
    BY <2>6, <2>8, <2>9 DEF RebookedOf
  <2>12. UnbookedElsewhere(r, s, l) /\ PlacedAt(r, s, l, b)
    BY <1>2, <2>10 DEF UnbookedElsewhere, PlacedAt
  <2>13. QED
    BY <1>1, <2>2, <2>4, <2>11, <2>12, BookReplaced
<1>10. QED
  BY <1>7, <1>8, <1>9

(* A refused request hands back its own reservation.                       *)
LEMMA UndoOwns ==
    ASSUME TypeOK, OwnInv, NEW r \in Requests, Undo(r) PROVE OwnInv'
<1> DEFINE q == request[r]
           s == SlotOf(q)
           l == LaneOf(q)
           b == RolledBack(book[s][l], r)
           a == Asleep(q, "select", clock, 0)
<1>1. /\ q \in Request /\ s \in Slots /\ l \in Lanes /\ clock \in Nat
      /\ request \in [Requests -> Request]
  BY SlotFact DEF TypeOK
<1>2. /\ q.pc = "undo" /\ clock' = clock
      /\ book' = [book EXCEPT ![s][l] = b] /\ request' = [request EXCEPT ![r] = a]
  BY DEF Undo
<1>3. book[s][l] \in Seq(Entry) /\ Once(book[s][l])
  BY <1>1, EntryFact DEF OwnInv
<1>4. Once(b) /\ Entries(b) = {e \in Entries(book[s][l]) : e.by # r}
  BY <1>3, RolledBackEntries
<1>5. a.pc = "select" /\ a.deadline = q.deadline
  BY <1>1 DEF Asleep, Request
<1>6. UnbookedElsewhere(r, s, l)
  BY DEF OwnInv, OwnedBy, UnbookedElsewhere
<1>7. q.deadline <= clock + MaxWait
  BY <1>2 DEF OwnInv
<1> HIDE DEF a, b, s, l, q
<1>8. request'[r] = a /\ \A x \in Requests \ {r} : request'[x] = request[x]
  BY <1>1, <1>2
<1>9. ~Asking(request'[r]) /\ request'[r].deadline <= clock + MaxWait
  BY <1>5, <1>7, <1>8 DEF Asking
<1>10. RebookedOf(r, s, l, b)
  BY <1>4 DEF RebookedOf
<1>11. PlacedAt(r, s, l, b)
  BY <1>9 DEF PlacedAt
<1>12. QED
  BY <1>1, <1>2, <1>6, <1>8, <1>10, <1>11, BookReplaced

(* A slot that refused a request keeps none of its budget, a rollback      *)
(* never frees another request's reservation, and whoever is still being   *)
(* admitted is covered by one: for any number of slots and requests.       *)
THEOREM ReservationsBelongToStarts == Spec => []ReservationsAreStarts
<1>1. Init => OwnInv
  <2> SUFFICES ASSUME Init PROVE OwnInv
    OBVIOUS
  <2>1. PICK mix \in Mixes : request = [r \in Requests |-> Fresh(mix[r])]
    BY DEF Init
  <2>2. \A r \in Requests : request[r].pc = "new"
    BY <2>1 DEF Fresh
  <2>3. \A s \in Slots, l \in Lanes : Once(book[s][l]) /\ Entries(book[s][l]) = {}
    BY DEF Init, Once, Entries
  <2>4. QED
    BY <2>2, <2>3 DEF OwnInv, Covered, Asking
<1>2. TypeOK /\ WaitInv /\ BookInv /\ OwnInv /\ [Next]_vars => OwnInv'
  <2> SUFFICES ASSUME TypeOK, WaitInv, BookInv, OwnInv, [Next]_vars PROVE OwnInv'
    OBVIOUS
  <2>1. ASSUME NEW r \in Requests, Begin(r) PROVE OwnInv'
    <3> DEFINE q == [request[r] EXCEPT !.deadline = clock + MaxWait, !.first = cursor]
    <3>1. q \in Request /\ q.deadline = clock + MaxWait
      BY BegunFact
    <3>2. Attempt(r, q) /\ clock' = clock /\ request[r].pc = "new"
      BY <2>1 DEF Begin
    <3> HIDE DEF q
    <3>3. ~Holds(request[r]) /\ q.deadline <= clock + MaxWait
      BY <3>1, <3>2, PacingAssumption DEF Holds, TypeOK
    <3>4. QED
      BY <3>1, <3>2, <3>3, AttemptOwns
  <2>2. ASSUME NEW r \in Requests, NextSlot(r) PROVE OwnInv'
    <3> DEFINE q == [request[r] EXCEPT !.step = request[r].step + 1]
    <3>1. /\ q \in Request /\ q.deadline = request[r].deadline
          /\ request \in [Requests -> Request] /\ request[r] \in Request
      BY SteppedFact DEF TypeOK
    <3>2. /\ \/ Attempt(r, q)
             \/ book' = book /\ request' = [request EXCEPT ![r].pc = "refused"]
          /\ clock' = clock /\ request[r].pc = "select"
      BY <2>2 DEF NextSlot
    <3> HIDE DEF q
    <3>3. CASE book' = book /\ request' = [request EXCEPT ![r].pc = "refused"]
      <4>1. /\ \A x \in Requests \ {r} : request'[x] = request[x]
            /\ request'[r].pc = "refused" /\ request'[r].deadline = request[r].deadline
        BY <3>1, <3>3 DEF Request
      <4>2. ~Holds(request[r]) /\ ~Holds(request'[r]) /\ request[r].pc # "new"
        BY <3>2, <4>1 DEF Holds
      <4>3. QED
        BY <3>2, <3>3, <4>1, <4>2, HolderMoves
    <3>4. CASE Attempt(r, q)
      <4>1. ~Holds(request[r]) /\ q.deadline <= clock + MaxWait
        BY <3>1, <3>2 DEF Holds, OwnInv
      <4>2. QED
        BY <3>1, <3>2, <3>4, <4>1, AttemptOwns
    <3>5. QED
      BY <3>2, <3>3, <3>4
  (* A step that only moves a holder on.                                   *)
  <2>3. ASSUME NEW r \in Requests, NEW pc \in Phases, UNCHANGED <<clock, book>>,
               \A x \in Requests \ {r} : request'[x] = request[x],
               request'[r].pc = pc, request'[r].deadline = request[r].deadline,
               request'[r].first = request[r].first, request'[r].step = request[r].step,
               request'[r].pacing = request[r].pacing,
               \/ Asking(request[r]) /\ pc \in {"queued", "undo", "lane", "flying"}
               \/ request[r].pc = "flying" /\ pc = "done"
        PROVE  OwnInv'
    <3>1. SlotOf(request'[r]) = SlotOf(request[r]) /\ LaneOf(request'[r]) = LaneOf(request[r])
      BY <2>3 DEF SlotOf, LaneOf
    <3>2. /\ Holds(request'[r]) /\ request[r].pc # "new"
          /\ Asking(request'[r]) => Asking(request[r])
      BY <2>3 DEF Holds, Asking
    <3>3. QED
      BY <2>3, <3>1, <3>2, HolderMoves
  <2>4. ASSUME NEW r \in Requests, NEW room \in Nat, LaneGate(r, room),
               UNCHANGED <<clock, book>>, request[r].pc \in {"budget", "queued"}
        PROVE  OwnInv'
    <3> DEFINE start == LaneStart(SlotOf(request[r]), LaneOf(request[r]))
    <3>1. request \in [Requests -> Request] /\ request[r] \in Request
      BY DEF TypeOK
    <3>2. \/ request' = [request EXCEPT ![r] = Asleep(request[r], "undo", clock, 0)]
          \/ request' = [request EXCEPT ![r] = Asleep(request[r], "lane", start, start - clock)]
      BY <2>4, GateFact
    <3> HIDE DEF start
    <3>3. /\ \A x \in Requests \ {r} : request'[x] = request[x]
          /\ request'[r].pc \in {"undo", "lane"} /\ request'[r].deadline = request[r].deadline
          /\ request'[r].first = request[r].first /\ request'[r].step = request[r].step
          /\ request'[r].pacing = request[r].pacing
      BY <3>1, <3>2 DEF Asleep, Request
    <3>4. request'[r].pc \in Phases /\ Asking(request[r])
      BY <2>4, <3>3 DEF Phases, Asking
    <3>5. QED
      BY <2>3, <2>4, <3>3, <3>4
  <2>5. ASSUME NEW r \in Requests, WriteGate(r) PROVE OwnInv'
    <3>1. Remaining(request[r]) \in Nat
      BY RemainingFact DEF TypeOK
    <3>2. QED
      BY <2>4, <2>5, <3>1 DEF WriteGate
  <2>6. ASSUME NEW s \in Slots, Pick(s) PROVE OwnInv'
    <3> DEFINE c == PickClass(s)
               b == queue[s][c]
               r == Head(b)
    <3>1. c \in ReadClasses /\ b \in Seq(Requests) /\ b # <<>> /\ r \in Requests
      BY <2>6, PickFact DEF Pick
    <3>2. LaneGate(r, request[r].room) /\ UNCHANGED <<clock, book>>
      BY <2>6 DEF Pick
    <3> HIDE DEF c
    <3>3. 1 \in 1 .. Len(b) /\ b[1] = r
      BY <3>1
    <3>4. request[r].pc = "queued"
      BY <3>1, <3>3 DEF WaitInv, Queued, InQueue
    <3>5. request[r].room \in Nat
      BY <3>1 DEF TypeOK, Request
    <3> HIDE DEF r
    <3>6. QED
      BY <2>4, <3>1, <3>2, <3>4, <3>5
  <2>7. ASSUME NEW r \in Requests,
               Enqueue(r) \/ Start(r) \/ \E limited \in BOOLEAN : Settle(r, limited)
        PROVE  OwnInv'
    <3>1. request \in [Requests -> Request] /\ request[r] \in Request
      BY DEF TypeOK
    <3>2. UNCHANGED <<clock, book>>
      BY <2>7 DEF Enqueue, Start, Settle, laneVars
    <3> DEFINE after(q) ==
                  \/ /\ request[r].pc = "budget"
                     /\ q = [request[r] EXCEPT !.pc = "queued", !.wake = clock,
                                               !.room = Remaining(request[r])]
                  \/ /\ request[r].pc = "lane"
                     /\ q = [request[r] EXCEPT !.pc = "flying", !.at = clock]
                  \/ /\ request[r].pc = "flying"
                     /\ q = [request[r] EXCEPT !.pc = "done"]
    <3>9. \E q : after(q) /\ request' = [request EXCEPT ![r] = q]
      BY <2>7, <3>1 DEF Enqueue, Start, Settle
    <3>10. PICK q : after(q) /\ request' = [request EXCEPT ![r] = q]
      BY <3>9
    <3>11. /\ q.deadline = request[r].deadline /\ q.first = request[r].first
           /\ q.step = request[r].step /\ q.pacing = request[r].pacing
           /\ \/ request[r].pc = "budget" /\ q.pc = "queued"
              \/ request[r].pc = "lane" /\ q.pc = "flying"
              \/ request[r].pc = "flying" /\ q.pc = "done"
      BY <3>1, <3>10 DEF Request
    <3> HIDE DEF after
    <3>12. request'[r] = q /\ \A x \in Requests \ {r} : request'[x] = request[x]
      BY <3>1, <3>10
    <3>3. /\ \A x \in Requests \ {r} : request'[x] = request[x]
          /\ request'[r].deadline = request[r].deadline
          /\ request'[r].first = request[r].first /\ request'[r].step = request[r].step
          /\ request'[r].pacing = request[r].pacing
      BY <3>11, <3>12
    <3>4. \/ request[r].pc = "budget" /\ request'[r].pc = "queued"
          \/ request[r].pc = "lane" /\ request'[r].pc = "flying"
          \/ request[r].pc = "flying" /\ request'[r].pc = "done"
      BY <3>11, <3>12
    <3>5. {"queued", "flying", "done"} \subseteq Phases
      BY DEF Phases
    <3>6. CASE request[r].pc = "flying" /\ request'[r].pc = "done"
      BY <2>3, <3>2, <3>3, <3>5, <3>6
    <3>7. CASE Asking(request[r]) /\ request'[r].pc \in {"queued", "flying"}
      BY <2>3, <3>2, <3>3, <3>5, <3>7
    <3>8. QED
      BY <3>4, <3>6, <3>7 DEF Asking
  <2>8. CASE UNCHANGED <<request, book>> /\ clock' \in {clock, clock + 1}
    <3>1. clock \in Nat /\ MaxWait \in Nat /\ Window \in Nat /\ request \in [Requests -> Request]
      BY PacingAssumption DEF TypeOK
    <3>2. ASSUME NEW x \in Requests
          PROVE  (request[x].pc # "new" => request[x].deadline <= clock' + MaxWait) /\ Covered(x)'
      <4>1. request[x].deadline \in Nat
        BY <3>1 DEF Request
      <4>2. Covered(x) /\ (request[x].pc # "new" => request[x].deadline <= clock + MaxWait)
        BY DEF OwnInv
      <4>3. request[x].deadline + Window > clock' + MaxWait
               => request[x].deadline + Window > clock + MaxWait
        BY <2>8, <3>1, <4>1
      <4>4. QED
        BY <2>8, <3>1, <4>1, <4>2, <4>3 DEF Covered, Asking, SlotOf, LaneOf, Entries
    <3>3. QED
      BY <2>8, <3>2 DEF OwnInv, Once, Entries, OwnedBy, Holds, SlotOf, LaneOf
  <2>9. ASSUME NEW s \in Slots, Scheduler(s) PROVE OwnInv'
    BY <2>6, <2>8, <2>9 DEF Scheduler, BatchEnds, Drain, laneVars
  <2>10. ASSUME NEW r \in Requests, Continue(r) PROVE OwnInv'
    BY <2>2, <2>5, <2>7, <2>10, UndoOwns DEF Continue
  <2>11. CASE Tick \/ UNCHANGED vars
    BY <2>8, <2>11 DEF Tick, vars, laneVars
  <2>12. QED
    BY <2>1, <2>7, <2>9, <2>10, <2>11 DEF Next
<1>3. TypeOK /\ OwnInv => ReservationsAreStarts
  <2> SUFFICES ASSUME TypeOK, OwnInv PROVE ReservationsAreStarts
    OBVIOUS
  <2>1. \A s \in Slots, l \in Lanes : \A i \in 1 .. Len(book[s][l]) :
           OwnedBy(book[s][l][i], request[book[s][l][i].by], s, l)
    BY DEF OwnInv, Entries
  <2>2. ASSUME NEW r \in Requests, Asking(request[r]),
               request[r].deadline + Window > clock + MaxWait
        PROVE  LET b == book[SlotOf(request[r])][LaneOf(request[r])]
               IN  \E i \in 1 .. Len(b) : b[i].by = r
    BY <2>2 DEF OwnInv, Covered, Entries
  <2>3. QED
    BY <2>1, <2>2 DEF ReservationsAreStarts, OwnedBy, Asking
<1>4. QED
  BY <1>1, <1>2, <1>3, TypeCorrect, WaitsKept, BooksKept, PTL DEF Spec
=============================================================================
