--------------------------- MODULE RequestPacing ---------------------------
(***************************************************************************)
(* Admission of remote request starts: `admitRequestStart` and the state   *)
(* it paces against.  Every request walks the credential pool from a       *)
(* round-robin cursor; on one credential (a slot) it must pass the rolling *)
(* quota budget of its lane and then the lane's interval pacing - the      *)
(* write limiter, or the read scheduler that two read classes share - all  *)
(* under one deadline, and the AIMD governor of the slot sets the interval.*)
(*                                                                         *)
(* The code is single threaded: an action is what runs between two awaits. *)
(* `wake' is the instant from which a request's continuation may run;      *)
(* `MaxLate' bounds how long the event loop may keep it waiting.           *)
(***************************************************************************)
EXTENDS Naturals, Sequences, FiniteSets

CONSTANTS
    Requests,       \* the request starts of one behaviour
    Mixes,          \* the pacing classes they may have: functions on Requests
    SlotCount,      \* pooled credentials
    Interval,       \* base interval between two starts of a lane
    MaxWait,        \* maxRequestStartWaitMs
    ReadBudget,     \* maxStartsPerWindow of a slot's read budget
    WriteBudget,    \* ... and of its write budget
    Window,         \* windowMs
    Growth,         \* backoffGrowthFactor
    MaxMult,        \* backoffMaxMultiplier
    StepFactor,     \* recoveryStepFactor
    QuietStarts,    \* recoverySuccessThreshold
    QuietMs,        \* recoveryQuietMs
    LastBegin,      \* bound: no request begins after this instant
    MaxClock,       \* bound on the clock
    MaxLate         \* bound on the delay of a ready continuation

ASSUME PacingAssumption ==
    /\ Mixes \subseteq [Requests -> {"polling", "preflight", "write"}]
    /\ {SlotCount, ReadBudget, WriteBudget, Window, Growth, MaxMult, StepFactor} \subseteq Nat \ {0}
    /\ {Interval, MaxWait, QuietStarts, QuietMs, LastBegin, MaxClock, MaxLate} \subseteq Nat

VARIABLES
    clock,      \* Date.now
    cursor,     \* CredentialPacingPool.nextIndex
    request,    \* the local state of each admitRequestStart call
    book,       \* RollingQuotaBudget.starts, per slot and lane
    horizon,    \* lastStartAt of the write limiter and the read scheduler
    pace,       \* QuotaPacingGovernor.lanes
    queue,      \* pollingQueue and preflightQueue of a slot's scheduler
    streak,     \* pollingSincePreflight
    draining,   \* the scheduler's drain loop is alive
    serving     \* the slot whose serveBatch is on the stack, or Nobody

laneVars == <<book, horizon, pace>>
readVars == <<queue, streak, draining, serving>>
vars == <<clock, cursor, request, laneVars, readVars>>

Slots == 0 .. SlotCount - 1
Lanes == {"read", "write"}
ReadClasses == {"polling", "preflight"}
Nobody == SlotCount
Never == MaxClock + MaxWait + 1     \* lastStartAt === undefined

Later(a, b) == IF a > b THEN a ELSE b
Lesser(a, b) == IF a < b THEN a ELSE b
-----------------------------------------------------------------------------
(* The local state of one admission.                                       *)

Phases == {"new",       \* not begun
           "select",    \* a slot refused it; the search goes on to the next
           "budget",    \* holds a provisional budget reservation, asleep
           "queued",    \* in a read queue of its slot
           "undo",      \* refused by the lane, reservation not yet rolled back
           "lane",      \* owns a lane start, asleep until it
           "flying",    \* the transport call is running
           "done", "refused"}

Request == [pc: Phases, pacing: ReadClasses \cup {"write"}, deadline: Nat,
            first: Slots, step: Nat, wake: Nat, waited: Nat, room: Nat,
            at: Nat]

Fresh(pacing) ==
    [pc |-> "new", pacing |-> pacing, deadline |-> 0, first |-> 0, step |-> 0,
     wake |-> 0, waited |-> 0, room |-> 0, at |-> 0]

(* The request sleeps in phase pc until wake, after w of waiting more.      *)
Asleep(q, pc, wake, w) == [q EXCEPT !.pc = pc, !.wake = wake, !.waited = @ + w]

LaneOf(q) == IF q.pacing = "write" THEN "write" ELSE "read"
SlotOf(q) == (q.first + q.step) % SlotCount

(* What is left of the one admission budget, at this instant.              *)
Remaining_PerGate(q) == MaxWait   \* Mutant: each gate gets the whole bound
Remaining(q) == IF q.deadline > clock THEN Lesser(MaxWait, q.deadline - clock) ELSE 0
-----------------------------------------------------------------------------
(* RollingQuotaBudget.                                                     *)

(* Reservations are aged out from the front, up to the first live one.     *)
LiveBook(b) ==
    LET expired == {i \in 1 .. Len(b) : \A j \in 1 .. i : b[j].at + Window <= clock}
    IN  SubSeq(b, Cardinality(expired) + 1, Len(b))

Budget(l) == IF l = "read" THEN ReadBudget ELSE WriteBudget

(* The earliest start the window allows: the oldest counted reservation    *)
(* must have aged out when the budget is full.                             *)
BudgetSlot_Oldest(b, max) ==   \* Mutant: measures from the front of the book
    IF Len(b) >= max THEN Later(clock, b[1].at + Window) ELSE clock
BudgetSlot(b, max) ==
    IF Len(b) >= max THEN Later(clock, b[Len(b) - max + 1].at + Window) ELSE clock

(* Insertion after every reservation that is not later.                    *)
Booked(b, entry) ==
    LET before == {i \in 1 .. Len(b) : \A j \in i .. Len(b) : b[j].at > entry.at}
        n == Len(b) - Cardinality(before)
    IN  SubSeq(b, 1, n) \o <<entry>> \o SubSeq(b, n + 1, Len(b))

(* rollback: the entry is matched by identity; one already gone is a no-op. *)
RolledBack_Kept(b, r) == b   \* Mutant: a refused start keeps its reservation
RolledBack(b, r) ==
    LET mine == {i \in 1 .. Len(b) : b[i].by = r}
    IN  IF mine = {} THEN b
        ELSE LET i == CHOOSE i \in mine : TRUE
             IN  SubSeq(b, 1, i - 1) \o SubSeq(b, i + 1, Len(b))

(* waitForSlot of the budget, for request r whose state is to become q:    *)
(* refused without a reservation, or provisionally booked and asleep.      *)
Attempt(r, q) ==
    LET s == SlotOf(q)
        l == LaneOf(q)
        live == LiveBook(book[s][l])
        start == BudgetSlot(live, Budget(l))
        wait == start - clock
    IN  \/ /\ wait > Remaining(q)
           /\ book' = [book EXCEPT ![s][l] = live]
           /\ request' = [request EXCEPT ![r] = Asleep(q, "select", clock, 0)]
        \/ /\ wait <= Remaining(q)
           /\ book' = [book EXCEPT ![s][l] = Booked(live, [at |-> start, by |-> r])]
           /\ request' = [request EXCEPT ![r] = Asleep(q, "budget", start, wait)]
-----------------------------------------------------------------------------
(* QuotaPacingGovernor.                                                    *)

Nominal == [mult |-> 1, event |-> 0, quiet |-> 0]

SteppedDown(p) == [mult |-> Later(p.mult \div StepFactor, 1), event |-> clock, quiet |-> 0]

(* Observing the interval takes a recovery step once the quiet time passed. *)
Observed(p) == IF p.mult # 1 /\ clock >= p.event + QuietMs THEN SteppedDown(p) ELSE p

StartRecorded(p) ==
    LET quiet == p.quiet + 1
    IN  IF p.mult = 1 THEN p
        ELSE IF quiet < QuietStarts /\ clock < p.event + QuietMs
             THEN [p EXCEPT !.quiet = quiet]
             ELSE SteppedDown(p)

QuotaLimited(p) == [mult |-> Lesser(p.mult * Growth, MaxMult), event |-> clock, quiet |-> 0]
-----------------------------------------------------------------------------
(* The interval gate, one decision for the write limiter and for a pick of *)
(* the read scheduler: a start after the shared horizon, or a refusal that *)
(* leaves the horizon where it was.                                        *)

Observes(s, l) == IF horizon[s][l] = Never THEN pace[s][l] ELSE Observed(pace[s][l])

LaneStart_Unspaced(s, l) ==   \* Mutant: the interval is forgotten
    IF horizon[s][l] = Never THEN clock ELSE Later(clock, horizon[s][l])
LaneStart(s, l) ==
    IF horizon[s][l] = Never THEN clock
    ELSE Later(clock, horizon[s][l] + Interval * Observes(s, l).mult)

Admits(s, l, room) == LaneStart(s, l) - clock <= room

LaneGate(r, room) ==
    LET q == request[r]
        s == SlotOf(q)
        l == LaneOf(q)
        start == LaneStart(s, l)
    IN  /\ pace' = IF horizon[s][l] = Never THEN pace
                   ELSE [pace EXCEPT ![s][l] = Observes(s, l)]
        /\ \/ /\ ~Admits(s, l, room)
              /\ request' = [request EXCEPT ![r] = Asleep(q, "undo", clock, 0)]
              /\ UNCHANGED horizon
           \/ /\ Admits(s, l, room)
              /\ horizon' = [horizon EXCEPT ![s][l] = start]
              /\ request' = [request EXCEPT ![r] = Asleep(q, "lane", start, start - clock)]
-----------------------------------------------------------------------------
(* Steps of an admission.  No other code runs while a serveBatch is on the *)
(* stack.                                                                  *)

(* admitRequestStart: one deadline, one step of the cursor, first attempt. *)
Begin(r) ==
    /\ serving = Nobody
    /\ request[r].pc = "new" /\ clock <= LastBegin
    /\ cursor' = (cursor + 1) % SlotCount
    /\ Attempt(r, [request[r] EXCEPT !.deadline = clock + MaxWait, !.first = cursor])
    /\ UNCHANGED <<clock, horizon, pace, readVars>>

(* The slot refused: the next one, or the whole request is refused.        *)
NextSlot(r) ==
    LET q == [request[r] EXCEPT !.step = @ + 1]
    IN  /\ serving = Nobody
        /\ request[r].pc = "select"
        /\ IF q.step < SlotCount THEN Attempt(r, q)
           ELSE /\ request' = [request EXCEPT ![r].pc = "refused"]
                /\ UNCHANGED book
        /\ UNCHANGED <<clock, cursor, horizon, pace, readVars>>

(* The budget wait ends; a write goes through the limiter at once.         *)
WriteGate(r) ==
    /\ serving = Nobody
    /\ request[r].pc = "budget" /\ clock >= request[r].wake
    /\ request[r].pacing = "write"
    /\ LaneGate(r, Remaining(request[r]))
    /\ UNCHANGED <<clock, cursor, book, readVars>>

(* The budget wait ends; a read joins its class queue, and starts the      *)
(* drain loop unless one is alive.                                         *)
Enqueue(r) ==
    LET q == request[r]
        s == SlotOf(q)
    IN  /\ serving = Nobody
        /\ q.pc = "budget" /\ clock >= q.wake
        /\ q.pacing \in ReadClasses
        /\ queue' = [queue EXCEPT ![s][q.pacing] = Append(@, r)]
        /\ request' = [request EXCEPT ![r] =
              [q EXCEPT !.pc = "queued", !.wake = clock, !.room = Remaining(q)]]
        /\ draining' = [draining EXCEPT ![s] = TRUE]
        /\ serving' = IF draining[s] THEN Nobody ELSE s
        /\ UNCHANGED <<clock, cursor, laneVars, streak>>

(* pickClass: FIFO in a class, two polling starts to one preflight start   *)
(* when both wait.                                                         *)
PickClass(s) ==
    IF queue[s]["polling"] = <<>> THEN "preflight"
    ELSE IF queue[s]["preflight"] = <<>> THEN "polling"
    ELSE IF streak[s] >= 2 THEN "preflight" ELSE "polling"

Waiting(s) == \E c \in ReadClasses : queue[s][c] # <<>>

(* One iteration of serveBatch.                                            *)
Pick(s) ==
    LET c == PickClass(s)
        r == Head(queue[s][c])
    IN  /\ serving = s /\ Waiting(s)
        /\ queue' = [queue EXCEPT ![s][c] = Tail(@)]
        /\ LaneGate(r, request[r].room)
        /\ streak' = IF ~Admits(s, "read", request[r].room) THEN streak
                     ELSE [streak EXCEPT ![s] = IF c = "polling" THEN @ + 1 ELSE 0]
        /\ UNCHANGED <<clock, cursor, book, draining, serving>>

(* serveBatch found both queues empty and returns to the drain loop.       *)
BatchEnds(s) ==
    /\ serving = s /\ ~Waiting(s)
    /\ serving' = Nobody
    /\ UNCHANGED <<clock, cursor, request, laneVars, queue, streak, draining>>

(* The drain loop resumes: another batch, or nothing was left to serve.    *)
Drain_Once(s) ==   \* Mutant: the loop ends after its first batch
    /\ serving = Nobody /\ draining[s]
    /\ draining' = [draining EXCEPT ![s] = FALSE]
    /\ UNCHANGED <<clock, cursor, request, laneVars, queue, streak, serving>>
Drain(s) ==
    /\ serving = Nobody /\ draining[s]
    /\ IF Waiting(s) THEN serving' = s /\ UNCHANGED draining
       ELSE draining' = [draining EXCEPT ![s] = FALSE] /\ UNCHANGED serving
    /\ UNCHANGED <<clock, cursor, request, laneVars, queue, streak>>

(* The lane refused: the budget reservation is handed back.                *)
Undo(r) ==
    LET q == request[r]
        s == SlotOf(q)
        l == LaneOf(q)
    IN  /\ serving = Nobody
        /\ q.pc = "undo"
        /\ book' = [book EXCEPT ![s][l] = RolledBack(@, r)]
        /\ request' = [request EXCEPT ![r] = Asleep(q, "select", clock, 0)]
        /\ UNCHANGED <<clock, cursor, horizon, pace, readVars>>

(* The lane wait ends: the start is recorded and the transport call made.  *)
Start(r) ==
    LET q == request[r]
    IN  /\ serving = Nobody
        /\ q.pc = "lane" /\ clock >= q.wake
        /\ pace' = [pace EXCEPT ![SlotOf(q)][LaneOf(q)] = StartRecorded(@)]
        /\ request' = [request EXCEPT ![r].pc = "flying", ![r].at = clock]
        /\ UNCHANGED <<clock, cursor, book, horizon, readVars>>

(* The call settles; a quota-limited answer slows the same slot and lane.  *)
Settle(r, limited) ==
    LET q == request[r]
    IN  /\ serving = Nobody
        /\ q.pc = "flying"
        /\ request' = [request EXCEPT ![r].pc = "done"]
        /\ pace' = IF limited
                   THEN [pace EXCEPT ![SlotOf(q)][LaneOf(q)] = QuotaLimited(@)]
                   ELSE pace
        /\ UNCHANGED <<clock, cursor, book, horizon, readVars>>

(* Time passes while no ready continuation is held back beyond MaxLate.    *)
Pending(q) == q.pc \in {"select", "budget", "queued", "undo", "lane"}

Tick ==
    /\ serving = Nobody
    /\ clock < MaxClock
    /\ \A r \in Requests : Pending(request[r]) => clock < request[r].wake + MaxLate
    /\ clock' = clock + 1
    /\ UNCHANGED <<cursor, request, laneVars, readVars>>
-----------------------------------------------------------------------------
Init ==
    /\ clock = 0 /\ cursor = 0
    /\ \E mix \in Mixes : request = [r \in Requests |-> Fresh(mix[r])]
    /\ book = [s \in Slots |-> [l \in Lanes |-> <<>>]]
    /\ horizon = [s \in Slots |-> [l \in Lanes |-> Never]]
    /\ pace = [s \in Slots |-> [l \in Lanes |-> Nominal]]
    /\ queue = [s \in Slots |-> [c \in ReadClasses |-> <<>>]]
    /\ streak = [s \in Slots |-> 0]
    /\ draining = [s \in Slots |-> FALSE]
    /\ serving = Nobody

Scheduler(s) == Pick(s) \/ BatchEnds(s) \/ Drain(s)

Continue(r) == NextSlot(r) \/ WriteGate(r) \/ Enqueue(r) \/ Undo(r) \/ Start(r)

Next ==
    \/ \E r \in Requests :
          \/ Begin(r)
          \/ Continue(r)
          \/ \E limited \in BOOLEAN : Settle(r, limited)
    \/ \E s \in Slots : Scheduler(s)
    \/ Tick

Spec == Init /\ [][Next]_vars
-----------------------------------------------------------------------------
(* Properties.                                                             *)

(* Every variable holds a value the code can give it; a multiplier stays   *)
(* between the base interval and the configured ceiling.                   *)
TypeOK ==
    /\ clock \in Nat /\ cursor \in Slots
    /\ request \in [Requests -> Request]
    /\ book \in [Slots -> [Lanes -> Seq([at : Nat, by : Requests])]]
    /\ horizon \in [Slots -> [Lanes -> Nat]]
    /\ pace \in [Slots -> [Lanes -> [mult : 1 .. MaxMult, event : Nat, quiet : Nat]]]
    /\ queue \in [Slots -> [ReadClasses -> Seq(Requests)]]
    /\ streak \in [Slots -> Nat] /\ draining \in [Slots -> BOOLEAN]
    /\ serving \in Slots \cup {Nobody}

(* No window of a lane ever holds more reservations than its budget,       *)
(* whatever order reservations are made in and rolled back in.             *)
WindowBudget ==
    \A s \in Slots, l \in Lanes :
        LET b == book[s][l]
        IN  \A i \in 1 .. Len(b) - Budget(l) : b[i + Budget(l)].at >= b[i].at + Window

Holds(q) == q.pc \in {"budget", "queued", "undo", "lane", "flying", "done"}

(* The reservations of a slot are those of the requests it admitted or is  *)
(* still admitting: a slot that was tried and refused keeps none of its    *)
(* budget, and a rollback never frees the reservation of another request.  *)
ReservationsAreStarts ==
    /\ \A s \in Slots, l \in Lanes : \A i \in 1 .. Len(book[s][l]) :
          LET q == request[book[s][l][i].by]
          IN  Holds(q) /\ SlotOf(q) = s /\ LaneOf(q) = l
    /\ \A r \in Requests :
          LET q == request[r]
              b == book[SlotOf(q)][LaneOf(q)]
          IN  q.pc \in {"budget", "queued", "undo", "lane"} /\ q.deadline + Window > clock + MaxWait
                 => \E i \in 1 .. Len(b) : b[i].by = r

(* All the gates of all the slots a request tried never make it wait       *)
(* longer than one admission bound: the effect lease counts on it.         *)
WaitBounded == \A r \in Requests : request[r].waited <= MaxWait

Planned(r, s, l) ==
    request[r].pc \in {"lane", "flying", "done"} /\ SlotOf(request[r]) = s /\ LaneOf(request[r]) = l

(* Two starts of a lane are never planned less than the base interval      *)
(* apart, although their callers reserve concurrently.                     *)
StartsSpaced ==
    \A s \in Slots, l \in Lanes : \A r, x \in Requests :
        r # x /\ Planned(r, s, l) /\ Planned(x, s, l)
        => \/ request[r].wake >= request[x].wake + Interval
           \/ request[x].wake >= request[r].wake + Interval

(* No waiter is left in a read queue that no drain loop will serve: a      *)
(* caller that finds the loop alive relies on it.                          *)
NoLostWaiter == \A s \in Slots : Waiting(s) => draining[s]

StartedWithin(r, span) ==
    {x \in Requests : /\ request[x].pc \in {"flying", "done"}
                      /\ SlotOf(request[x]) = SlotOf(request[r])
                      /\ LaneOf(request[x]) = LaneOf(request[r])
                      /\ request[x].at >= request[r].at
                      /\ request[x].at < request[r].at + span}

(* The ceiling as documented: in no window do more requests of a lane      *)
(* start than its budget admits.                                           *)
PerWindowCeiling ==
    \A r \in Requests : request[r].pc \in {"flying", "done"} =>
        Cardinality(StartedWithin(r, Window)) <= Budget(LaneOf(request[r]))
=============================================================================
