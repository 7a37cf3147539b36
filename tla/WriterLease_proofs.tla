------------------------- MODULE WriterLease_proofs -------------------------
(***************************************************************************)
(* Proofs about WriterLease, for every set of writers and every duration.  *)
(* EpochInv says why an epoch order kept in one durable row never          *)
(* restarts; HandoffInv says why the two transactions of a release cannot  *)
(* expire somebody else's lease nor leave the runtime's own one live.      *)
(***************************************************************************)
EXTENDS WriterLease, TLAPS

\* The newest epoch is the row's, and it was granted to the row's writer.
RowIsNewest ==
    /\ ~HasLease => granted = {} /\ lastWrite = 0
    /\ HasLease =>
         /\ <<lease.epoch, lease.writer>> \in granted
         /\ \A g \in granted : g[1] <= lease.epoch
         /\ lastWrite <= lease.epoch

\* A stamp was read off the clock, which starts after zero.
StampPositive == HasLease /\ lease.beat # NoBeat => lease.beat > 0

\* Nobody but the runtime itself renews or claims for it, so an epoch read
\* after its supervisors drained stays the epoch of its row, unless one of
\* its flushes claimed a new one since.
DrainedReadIsCurrent ==
    \A w \in Writers :
        /\ seenEpoch[w] # 0 => proc[w] \in {"stopping", "drained"}
        /\ proc[w] = "drained" /\ seenEpoch[w] # 0 /\ HasLease /\ lease.writer = w
           => lease.epoch = seenEpoch[w] \/ w \in escaped

-----------------------------------------------------------------------------
(* Facts about the reading of the row                                      *)

\* Every `now` a caller may use is a positive time that is not in the future.
LEMMA ReadTimesFact ==
    ASSUME clock \in Nat, NEW now \in ReadTimes
    PROVE  now \in Nat /\ now > 0 /\ now <= clock
  BY ConstantsAssumption DEF ReadTimes, Max2

\* A row is never the value that stands for its absence.
LEMMA RowFact ==
    \A r \in LeaseRow : /\ r # NoLease
                        /\ r.writer \in Writers
                        /\ r.epoch \in Nat \ {0}
                        /\ r.until \in Nat
                        /\ r.beat \in Nat \cup {NoBeat}
  BY NoLeaseAssumption DEF LeaseRow

\* A stale bound read now is never later than what the clock allows.
LEMMA StaleBoundFact ==
    ASSUME NEW now \in Nat
    PROVE  /\ HeartbeatStaleBound(now) \in Nat
           /\ HeartbeatStaleBound(now) = 0 \/ HeartbeatStaleBound(now) + StaleMs = now
  BY ConstantsAssumption DEF HeartbeatStaleBound, Max2

\* What a claim leaves behind, whichever of its three cases applied.
LEMMA GrantFact ==
    ASSUME TypeOK, NEW w \in Writers, NEW e \in Nat \ {0},
           NEW now \in Nat, now > 0, Grant(w, e, now)
    PROVE  /\ lease' \in LeaseRow
           /\ lease' # NoLease
           /\ lease'.writer = w /\ lease'.epoch = e /\ lease'.beat = now
           /\ fences' \in [Writers -> SUBSET (Nat \ {0})]
           /\ granted' = granted \cup {<<e, w>>}
           /\ granted' \in SUBSET ((Nat \ {0}) \X Writers)
           /\ escaped' \in SUBSET Writers
<1>1. lease' = [writer |-> w, epoch |-> e, until |-> now + LeaseDuration, beat |-> now]
  BY DEF Grant
<1>2. lease' \in LeaseRow
  BY <1>1, ConstantsAssumption DEF LeaseRow
<1>3. fences' \in [Writers -> SUBSET (Nat \ {0})]
  BY DEF Grant, TypeOK
<1>4. QED
  BY <1>1, <1>2, <1>3, NoLeaseAssumption DEF Grant, TypeOK

-----------------------------------------------------------------------------
(* Type correctness                                                        *)

LEMMA TypeInit == Init => TypeOK
<1> SUFFICES ASSUME Init PROVE TypeOK
  OBVIOUS
<1>1. lease \in LeaseRow \cup {NoLease}
  BY ConstantsAssumption DEF Init, InitLease, LeaseRow
<1>2. granted \in SUBSET ((Nat \ {0}) \X Writers)
  BY <1>1, RowFact DEF Init, HasLease
<1>3. gate \in [Writers -> [state : GateStates, start : Nat, wake : Nat]]
  BY DEF Init, IdleGate, GateStates
<1>4. QED
  BY <1>1, <1>2, <1>3, ConstantsAssumption DEF Init, TypeOK, ProcStates

LEMMA TypeClaim ==
    ASSUME TypeOK, NEW w \in Writers, Claim(w)
    PROVE  TypeOK'
<1>1. PICK now \in ReadTimes :
          \/ ClaimInitial(w, now)
          \/ ClaimOwn(w, now)
          \/ \E bound \in Bounds(now) : ClaimTakeover(w, now, bound)
  BY DEF Claim
<1>2. now \in Nat /\ now > 0
  BY ReadTimesFact DEF TypeOK
<1>3. PICK e \in Nat \ {0} : Grant(w, e, now)
  <2>1. CASE ClaimInitial(w, now)
    BY <2>1 DEF ClaimInitial, FirstEpoch
  <2>2. CASE ClaimOwn(w, now)
    BY <2>2, RowFact DEF ClaimOwn, OwnLive, HasLease, TypeOK
  <2>3. CASE \E bound \in Bounds(now) : ClaimTakeover(w, now, bound)
    <3>1. Grant(w, lease.epoch + 1, now) /\ HasLease
      BY <2>3 DEF ClaimTakeover, Takeable, NextEpoch
    <3>2. lease.epoch + 1 \in Nat \ {0}
      BY <3>1, RowFact DEF HasLease, TypeOK
    <3>3. QED
      BY <3>1, <3>2
  <2>4. QED
    BY <1>1, <2>1, <2>2, <2>3
<1>4. UNCHANGED <<clock, proc, seenEpoch, crashes, gate, lastWrite>>
  BY <1>1 DEF ClaimInitial, ClaimOwn, ClaimTakeover, procVars
<1>5. QED
  BY <1>2, <1>3, <1>4, GrantFact DEF TypeOK

LEMMA TypeHeartbeat ==
    ASSUME TypeOK, NEW w \in Writers, Heartbeat(w)
    PROVE  TypeOK'
<1>1. PICK at \in ReadTimes : HeartbeatTick(w, at)
  BY DEF Heartbeat
<1>2. at \in Nat
  BY ReadTimesFact DEF TypeOK
<1>3. lease \in LeaseRow
  BY <1>1 DEF HeartbeatTick, OwnLive, HasLease, TypeOK
<1>4. lease' \in LeaseRow
  <2>1. PICK mid : mid = [lease EXCEPT !.until = at + LeaseDuration]
    OBVIOUS
  <2>2. mid \in LeaseRow
    BY <1>2, <1>3, <2>1, ConstantsAssumption DEF LeaseRow
  <2>3. lease' = [mid EXCEPT !.beat = at]
    BY <1>1, <2>1 DEF HeartbeatTick
  <2>4. QED
    BY <1>2, <2>2, <2>3 DEF LeaseRow
<1>5. QED
  BY <1>1, <1>4 DEF HeartbeatTick, procVars, TypeOK

LEMMA TypeGate ==
    ASSUME TypeOK, NEW w \in Writers, GateBegin(w) \/ GatePoll(w)
    PROVE  TypeOK'
<1>1. UNCHANGED <<clock, lease, fences, granted, escaped, proc, seenEpoch, crashes,
                lastWrite>>
  BY DEF GateBegin, GatePoll, leaseVars, procVars
<1>2. CASE GateBegin(w)
  BY <1>1, <1>2 DEF GateBegin, TypeOK, GateStates
<1>3. CASE GatePoll(w)
  <2> DEFINE verdict == GateVerdict(w, clock)
  <2>1. verdict \in GateStates
    BY DEF GateVerdict, GateStates
  <2>2. verdict = "waiting" =>
          Min2(lease.beat + StaleMs, gate[w].start + MaxWaitMs) \in Nat
    <3> SUFFICES ASSUME verdict = "waiting"
                 PROVE  Min2(lease.beat + StaleMs, gate[w].start + MaxWaitMs) \in Nat
      OBVIOUS
    <3>1. HasLease /\ lease.beat # NoBeat
      BY DEF GateVerdict, FreeFor
    <3>2. lease.beat \in Nat
      BY <3>1, RowFact DEF HasLease, TypeOK
    <3>3. gate[w].start \in Nat
      BY DEF TypeOK
    <3>4. QED
      BY <3>2, <3>3, ConstantsAssumption DEF Min2
  <2>3. gate' \in [Writers -> [state : GateStates, start : Nat, wake : Nat]]
    <3> DEFINE wake == IF verdict = "waiting"
                       THEN Min2(lease.beat + StaleMs, gate[w].start + MaxWaitMs)
                       ELSE gate[w].wake
    <3>1. gate \in [Writers -> [state : GateStates, start : Nat, wake : Nat]]
      BY DEF TypeOK
    <3>2. wake \in Nat
      BY <2>2, <3>1
    <3>3. gate' = [gate EXCEPT ![w].state = verdict, ![w].wake = wake]
      BY <1>3 DEF GatePoll
    <3> HIDE DEF verdict, wake
    <3>4. QED
      BY <2>1, <3>1, <3>2, <3>3
  <2>4. QED
    BY <1>1, <2>3 DEF TypeOK
<1>4. QED
  BY <1>2, <1>3

LEMMA TypeShutdown ==
    ASSUME TypeOK, NEW w \in Writers, Shutdown(w)
    PROVE  TypeOK'
<1>1. CASE BeginStop(w) \/ Drain(w)
  BY <1>1 DEF BeginStop, Drain, leaseVars, TypeOK, ProcStates
<1>6. ASSUME ReleaseEnds(w)
      PROVE  proc' \in [Writers -> ProcStates] /\ seenEpoch' \in [Writers -> Nat]
  BY <1>6 DEF ReleaseEnds, TypeOK, ProcStates
<1>2. CASE ReadOwnLease(w)
  <2>1. lease.epoch \in Nat
    BY <1>2, RowFact DEF ReadOwnLease, HasLease, TypeOK
  <2>2. QED
    BY <1>2, <2>1 DEF ReadOwnLease, leaseVars, TypeOK
<1>3. CASE \E now \in ReadTimes : Release(w, now)
  <2>1. PICK now \in ReadTimes : Release(w, now)
    BY <1>3
  <2>2. now \in Nat
    BY ReadTimesFact DEF TypeOK
  <2>3. lease' \in LeaseRow \cup {NoLease}
    BY <2>1, <2>2 DEF Release, HasLease, TypeOK, LeaseRow
  <2>4. QED
    BY <1>6, <2>1, <2>3 DEF Release, TypeOK
<1>4. CASE ReleaseFails(w)
  BY <1>4, <1>6 DEF ReleaseFails, TypeOK
<1>5. CASE SkipRelease(w) \/ CloseStorage(w)
  BY <1>5 DEF SkipRelease, CloseStorage, leaseVars, TypeOK, ProcStates
<1>7. QED
  BY <1>1, <1>2, <1>3, <1>4, <1>5 DEF Shutdown

LEMMA TypeStep == TypeOK /\ [Next]_vars => TypeOK'
<1> SUFFICES ASSUME TypeOK, [Next]_vars PROVE TypeOK'
  OBVIOUS
<1>1. ASSUME NEW w \in Writers, Mutate(w) PROVE TypeOK'
  BY <1>1 DEF Mutate, FencedMutation, leaseVars, procVars, TypeOK
<1>2. ASSUME NEW w \in Writers, Crash(w) PROVE TypeOK'
  BY <1>2 DEF Crash, TypeOK, ProcStates, IdleGate, GateStates
<1>3. ASSUME NEW w \in Writers, Restart(w) PROVE TypeOK'
  BY <1>3 DEF Restart, leaseVars, TypeOK, ProcStates
<1>4. CASE Tick
  BY <1>4 DEF Tick, leaseVars, procVars, TypeOK
<1>5. CASE UNCHANGED vars
  BY <1>5 DEF vars, TypeOK
<1>6. QED
  BY <1>1, <1>2, <1>3, <1>4, <1>5, TypeClaim, TypeHeartbeat, TypeGate, TypeShutdown
  DEF Next

(***************************************************************************)
(* Type correctness of the lease, for every set of writers and all         *)
(* durations: claims, renewals, the gate and shutdown (writerLease.ts,     *)
(* shutdown.ts) keep the row well formed.                                  *)
(***************************************************************************)
THEOREM TypeCorrect == Spec => []TypeOK
  BY TypeInit, TypeStep, PTL DEF Spec

-----------------------------------------------------------------------------
(* One writer per epoch                                                    *)

EpochInv == TypeOK /\ RowIsNewest /\ EpochHasOneWriter

LEMMA EpochInit == Init => EpochInv
<1> SUFFICES ASSUME Init PROVE EpochInv
  OBVIOUS
<1>1. TypeOK
  BY TypeInit
<1>2. RowIsNewest
  <2>1. CASE HasLease
    BY <1>1, <2>1, RowFact DEF Init, RowIsNewest, HasLease, TypeOK
  <2>2. CASE ~HasLease
    BY <2>2 DEF Init, RowIsNewest
  <2>3. QED
    BY <2>1, <2>2
<1>3. EpochHasOneWriter
  BY DEF Init, EpochHasOneWriter
<1>4. QED
  BY <1>1, <1>2, <1>3 DEF EpochInv

\* A claim grants the current epoch to its owner again, or a newer one.
LEMMA EpochClaim ==
    ASSUME EpochInv, NEW w \in Writers, Claim(w)
    PROVE  RowIsNewest' /\ EpochHasOneWriter'
<1>0. TypeOK
  BY DEF EpochInv
<1>1. PICK now \in ReadTimes :
          \/ ClaimInitial(w, now)
          \/ ClaimOwn(w, now)
          \/ \E bound \in Bounds(now) : ClaimTakeover(w, now, bound)
  BY DEF Claim
<1>2. now \in Nat /\ now > 0
  BY <1>0, ReadTimesFact DEF TypeOK
<1>3. UNCHANGED lastWrite
  BY <1>1 DEF ClaimInitial, ClaimOwn, ClaimTakeover
<1>4. granted \subseteq (Nat \ {0}) \X Writers
  BY <1>0 DEF TypeOK
<1>5. CASE ClaimInitial(w, now)
  <2>1. Grant(w, 1, now) /\ granted = {} /\ lastWrite = 0
    BY <1>5 DEF ClaimInitial, FirstEpoch, EpochInv, RowIsNewest
  <2>2. lease' # NoLease /\ lease'.writer = w /\ lease'.epoch = 1 /\ granted' = {<<1, w>>}
    BY <1>0, <1>2, <2>1, GrantFact
  <2>3. QED
    BY <1>3, <2>1, <2>2 DEF RowIsNewest, EpochHasOneWriter, HasLease
<1>6. CASE ClaimOwn(w, now)
  <2>1. Grant(w, lease.epoch, now) /\ HasLease /\ lease.writer = w
    BY <1>6 DEF ClaimOwn, OwnLive
  <2>2. lease.epoch \in Nat \ {0}
    BY <1>0, <2>1, RowFact DEF HasLease, TypeOK
  <2>3. <<lease.epoch, lease.writer>> \in granted
    BY <2>1 DEF EpochInv, RowIsNewest
  <2>4. /\ lease' # NoLease
        /\ lease'.writer = w /\ lease'.epoch = lease.epoch
        /\ granted' = granted \cup {<<lease.epoch, w>>}
    BY <1>0, <1>2, <2>1, <2>2, GrantFact
  <2>5. granted' = granted
    BY <2>1, <2>3, <2>4
  <2>6. QED
    BY <1>3, <2>1, <2>4, <2>5 DEF RowIsNewest, EpochHasOneWriter, HasLease, EpochInv
<1>7. CASE \E bound \in Bounds(now) : ClaimTakeover(w, now, bound)
  <2>1. Grant(w, lease.epoch + 1, now) /\ HasLease
    BY <1>7 DEF ClaimTakeover, Takeable, NextEpoch
  <2>2. lease.epoch \in Nat \ {0} /\ lease.epoch + 1 \in Nat \ {0}
    BY <1>0, <2>1, RowFact DEF HasLease, TypeOK
  <2>3. /\ \A g \in granted : g[1] <= lease.epoch
        /\ lastWrite <= lease.epoch
    BY <2>1 DEF EpochInv, RowIsNewest
  <2>4. /\ lease' # NoLease
        /\ lease'.writer = w /\ lease'.epoch = lease.epoch + 1
        /\ granted' = granted \cup {<<lease.epoch + 1, w>>}
    BY <1>0, <1>2, <2>1, <2>2, GrantFact
  <2>5. \A g \in granted : g[1] \in Nat /\ g[1] < lease.epoch + 1
    BY <1>4, <2>2, <2>3
  <2>6. EpochHasOneWriter'
    BY <2>4, <2>5 DEF EpochHasOneWriter, EpochInv
  <2>7. \A g \in granted' : g[1] <= lease'.epoch
    BY <2>2, <2>4, <2>5
  <2>8. lastWrite' <= lease'.epoch
    BY <1>0, <1>3, <2>2, <2>3, <2>4 DEF TypeOK
  <2>9. QED
    BY <2>4, <2>6, <2>7, <2>8 DEF RowIsNewest, HasLease
<1>8. QED
  BY <1>1, <1>5, <1>6, <1>7

\* Renewals and releases move the row's times only.
LEMMA EpochRest ==
    ASSUME EpochInv, UNCHANGED <<granted, lastWrite>>,
           \/ UNCHANGED lease
           \/ HasLease /\ HasLease' /\ lease'.epoch = lease.epoch /\ lease'.writer = lease.writer
    PROVE  RowIsNewest' /\ EpochHasOneWriter'
  BY DEF EpochInv, RowIsNewest, EpochHasOneWriter, HasLease

\* What the steps other than a claim and a fenced mutation do to the row.
LEMMA RowKept ==
    ASSUME TypeOK, NEW w \in Writers, Heartbeat(w) \/ Shutdown(w)
    PROVE  /\ UNCHANGED <<granted, lastWrite>>
           /\ \/ UNCHANGED lease
              \/ /\ HasLease /\ HasLease'
                 /\ lease'.epoch = lease.epoch /\ lease'.writer = lease.writer
<1>1. CASE Heartbeat(w)
  <2>1. PICK at \in ReadTimes : HeartbeatTick(w, at)
    BY <1>1 DEF Heartbeat
  <2>2. lease \in LeaseRow
    BY <2>1 DEF HeartbeatTick, OwnLive, HasLease, TypeOK
  <2>3. PICK mid : mid = [lease EXCEPT !.until = at + LeaseDuration]
    OBVIOUS
  <2>4. lease' = [mid EXCEPT !.beat = at]
    BY <2>1, <2>3 DEF HeartbeatTick
  <2>5. /\ lease'.epoch = lease.epoch /\ lease'.writer = lease.writer
        /\ UNCHANGED <<granted, lastWrite>>
    BY <2>1, <2>2, <2>3, <2>4 DEF HeartbeatTick, LeaseRow
  <2>6. lease' \in LeaseRow \cup {NoLease}
    BY <1>1, TypeHeartbeat DEF TypeOK
  <2>7. lease' # NoLease
    <3>1. at \in Nat
      BY ReadTimesFact DEF TypeOK
    <3>2. mid \in LeaseRow
      BY <2>2, <2>3, <3>1, ConstantsAssumption DEF LeaseRow
    <3>3. lease' \in LeaseRow
      BY <2>4, <3>1, <3>2 DEF LeaseRow
    <3>4. QED
      BY <3>3, NoLeaseAssumption
  <2>8. QED
    BY <2>1, <2>5, <2>7 DEF HeartbeatTick, OwnLive, HasLease
<1>2. CASE \E now \in ReadTimes : Release(w, now)
  <2>1. PICK now \in ReadTimes : Release(w, now)
    BY <1>2
  <2>2. now \in Nat
    BY ReadTimesFact DEF TypeOK
  <2>3. CASE HasLease /\ lease.writer = w /\ lease.epoch = seenEpoch[w]
    <3>1. lease' = [lease EXCEPT !.until = now] /\ lease \in LeaseRow
      BY <2>1, <2>3 DEF Release, HasLease, TypeOK
    <3>2. lease' \in LeaseRow /\ lease'.epoch = lease.epoch /\ lease'.writer = lease.writer
      BY <2>2, <3>1 DEF LeaseRow
    <3>3. QED
      BY <2>1, <2>3, <3>2, NoLeaseAssumption DEF Release, HasLease
  <2>4. CASE ~(HasLease /\ lease.writer = w /\ lease.epoch = seenEpoch[w])
    BY <2>1, <2>4 DEF Release
  <2>5. QED
    BY <2>3, <2>4
<1>3. CASE BeginStop(w) \/ Drain(w) \/ ReadOwnLease(w) \/ ReleaseFails(w)
           \/ SkipRelease(w) \/ CloseStorage(w)
  BY <1>3 DEF BeginStop, Drain, ReadOwnLease, ReleaseFails, SkipRelease, CloseStorage,
              leaseVars
<1>4. QED
  BY <1>1, <1>2, <1>3 DEF Shutdown

LEMMA EpochStep == EpochInv /\ [Next]_vars => EpochInv'
<1> SUFFICES ASSUME EpochInv, [Next]_vars PROVE EpochInv'
  OBVIOUS
<1>1. TypeOK /\ TypeOK'
  BY TypeStep DEF EpochInv
<1>2. ASSUME NEW w \in Writers, Claim(w)
      PROVE  RowIsNewest' /\ EpochHasOneWriter'
  BY <1>2, EpochClaim
<1>3. ASSUME NEW w \in Writers, Heartbeat(w) \/ Shutdown(w)
      PROVE  RowIsNewest' /\ EpochHasOneWriter'
  BY <1>1, <1>3, RowKept, EpochRest
<1>4. ASSUME NEW w \in Writers, Mutate(w)
      PROVE  RowIsNewest' /\ EpochHasOneWriter'
  <2>1. PICK e \in fences[w], now \in ReadTimes : FencedMutation(w, e, now)
    BY <1>4 DEF Mutate
  <2>2. /\ HasLease /\ lastWrite' = lease.epoch
        /\ UNCHANGED <<lease, granted>>
    BY <2>1 DEF FencedMutation, FenceValid, leaseVars
  <2>3. lease.epoch \in Nat
    BY <1>1, <2>2, RowFact DEF HasLease, TypeOK
  <2>4. QED
    BY <2>2, <2>3 DEF EpochInv, RowIsNewest, EpochHasOneWriter, HasLease
<1>5. ASSUME NEW w \in Writers, GateBegin(w) \/ GatePoll(w) \/ Crash(w) \/ Restart(w)
      PROVE  RowIsNewest' /\ EpochHasOneWriter'
  <2>1. UNCHANGED <<lease, granted, lastWrite>>
    BY <1>5 DEF GateBegin, GatePoll, Crash, Restart, leaseVars
  <2>2. QED
    BY <2>1, EpochRest
<1>6. CASE Tick \/ UNCHANGED vars
  <2>1. UNCHANGED <<lease, granted, lastWrite>>
    BY <1>6 DEF Tick, vars, leaseVars
  <2>2. QED
    BY <1>1, <2>1, EpochRest DEF EpochInv
<1>7. QED
  BY <1>1, <1>2, <1>3, <1>4, <1>5, <1>6 DEF Next, EpochInv

(***************************************************************************)
(* No epoch is handed to two writers: an expired, stale or released row is *)
(* taken over, never removed, so the row always carries the newest epoch   *)
(* (claimWriterLeaseWithSql, releaseWriterLeaseWithSql).                   *)
(***************************************************************************)
THEOREM EpochsAreUnique == Spec => []EpochHasOneWriter
<1>1. Init => EpochInv
  BY EpochInit
<1>2. EpochInv /\ [Next]_vars => EpochInv'
  BY EpochStep
<1>3. EpochInv => EpochHasOneWriter
  BY DEF EpochInv
<1>4. QED
  BY <1>1, <1>2, <1>3, PTL DEF Spec

-----------------------------------------------------------------------------
(* The lease implements the epoch register                                 *)

LEMMA RefinesInit == Init => Role!Init
<1> SUFFICES ASSUME Init PROVE Role!Init
  OBVIOUS
<1>1. lease \in LeaseRow \cup {NoLease}
  BY TypeInit DEF TypeOK
<1>2. QED
  BY <1>1, RowFact DEF Role!Init, Init, HasLease

LEMMA RefinesStep == EpochInv /\ [Next]_vars => [Role!Next]_Role!vars
<1> SUFFICES ASSUME EpochInv, [Next]_vars PROVE [Role!Next]_Role!vars
  OBVIOUS
<1>1. TypeOK
  BY DEF EpochInv
<1>2. ASSUME NEW w \in Writers, Claim(w) PROVE Role!Next \/ UNCHANGED Role!vars
  <2>1. PICK now \in ReadTimes :
            \/ ClaimInitial(w, now)
            \/ ClaimOwn(w, now)
            \/ \E bound \in Bounds(now) : ClaimTakeover(w, now, bound)
    BY <1>2 DEF Claim
  <2>2. now \in Nat /\ now > 0
    BY <1>1, ReadTimesFact DEF TypeOK
  <2>3. UNCHANGED lastWrite
    BY <2>1 DEF ClaimInitial, ClaimOwn, ClaimTakeover
  <2>4. CASE ClaimInitial(w, now)
    <3>1. ~HasLease /\ Grant(w, 1, now)
      BY <2>4 DEF ClaimInitial, FirstEpoch
    <3>2. lease' # NoLease /\ lease'.writer = w /\ lease'.epoch = 1
      BY <1>1, <2>2, <3>1, GrantFact
    <3>3. Role!Grant(w)
      BY <2>3, <3>1, <3>2 DEF Role!Grant, HasLease
    <3>4. QED
      BY <3>3 DEF Role!Next
  <2>5. CASE ClaimOwn(w, now)
    <3>1. HasLease /\ lease.writer = w /\ Grant(w, lease.epoch, now)
      BY <2>5 DEF ClaimOwn, OwnLive
    <3>2. lease.epoch \in Nat \ {0}
      BY <1>1, <3>1, RowFact DEF HasLease, TypeOK
    <3>3. lease' # NoLease /\ lease'.writer = w /\ lease'.epoch = lease.epoch
      BY <1>1, <2>2, <3>1, <3>2, GrantFact
    <3>4. QED
      BY <2>3, <3>1, <3>3 DEF Role!vars, HasLease
  <2>6. CASE \E bound \in Bounds(now) : ClaimTakeover(w, now, bound)
    <3>1. HasLease /\ Grant(w, lease.epoch + 1, now)
      BY <2>6 DEF ClaimTakeover, Takeable, NextEpoch
    <3>2. lease.epoch \in Nat \ {0} /\ lease.epoch + 1 \in Nat \ {0}
      BY <1>1, <3>1, RowFact DEF HasLease, TypeOK
    <3>3. lease' # NoLease /\ lease'.writer = w /\ lease'.epoch = lease.epoch + 1
      BY <1>1, <2>2, <3>1, <3>2, GrantFact
    <3>4. Role!Grant(w)
      BY <2>3, <3>1, <3>3 DEF Role!Grant, HasLease
    <3>5. QED
      BY <3>4 DEF Role!Next
  <2>7. QED
    BY <2>1, <2>4, <2>5, <2>6
<1>3. ASSUME NEW w \in Writers, Heartbeat(w) \/ Shutdown(w) PROVE UNCHANGED Role!vars
  BY <1>1, <1>3, RowKept DEF Role!vars, HasLease
<1>4. ASSUME NEW w \in Writers, Mutate(w) PROVE Role!Next
  <2>1. PICK e \in fences[w], now \in ReadTimes : FencedMutation(w, e, now)
    BY <1>4 DEF Mutate
  <2>2. HasLease /\ lastWrite' = lease.epoch /\ UNCHANGED lease
    BY <2>1 DEF FencedMutation, FenceValid, leaseVars
  <2>3. lease.epoch \in Nat \ {0}
    BY <1>1, <2>2, RowFact DEF HasLease, TypeOK
  <2>4. Role!Write
    BY <2>2, <2>3 DEF Role!Write, HasLease
  <2>5. QED
    BY <2>4 DEF Role!Next
<1>5. ASSUME NEW w \in Writers, GateBegin(w) \/ GatePoll(w) \/ Crash(w) \/ Restart(w)
      PROVE  UNCHANGED Role!vars
  BY <1>5 DEF GateBegin, GatePoll, Crash, Restart, leaseVars, Role!vars, HasLease
<1>6. CASE Tick \/ UNCHANGED vars
  BY <1>6 DEF Tick, vars, leaseVars, Role!vars, HasLease
<1>7. QED
  BY <1>2, <1>3, <1>4, <1>5, <1>6 DEF Next

(***************************************************************************)
(* The durable lease implements FencedRole, the register the other modules *)
(* build on: an epoch is granted by adding one, a mutation commits under   *)
(* the newest epoch, nothing else moves either (claimWriterLeaseWithSql,   *)
(* isFencingValidWithSql).                                                 *)
(***************************************************************************)
THEOREM ImplementsFencedRole == Spec => RefinesFencedRole
<1>1. EpochInv /\ [Next]_vars => EpochInv' /\ [Role!Next]_Role!vars
  BY EpochStep, RefinesStep
<1>2. QED
  BY <1>1, EpochInit, RefinesInit, PTL DEF Spec, RefinesFencedRole, Role!Spec

-----------------------------------------------------------------------------
(* Graceful hand-off                                                       *)

HandoffInv == DrainedReadIsCurrent /\ GracefulHandoff

LEMMA HandoffInit == Init => HandoffInv
  BY DEF Init, HandoffInv, DrainedReadIsCurrent, GracefulHandoff

\* A runtime claims for itself only, and marks a claim its release misses.
LEMMA HandoffClaim ==
    ASSUME TypeOK, HandoffInv, NEW v \in Writers, Claim(v)
    PROVE  HandoffInv'
<1>1. PICK e \in Int, now \in ReadTimes : Grant(v, e, now)
  <2>1. HasLease => lease.epoch \in Int /\ lease.epoch + 1 \in Int
    BY RowFact DEF HasLease, TypeOK
  <2>2. QED
    BY <2>1 DEF Claim, ClaimInitial, ClaimOwn, ClaimTakeover, OwnLive, Takeable,
                FirstEpoch, NextEpoch
<1>2. UNCHANGED <<clock, proc, seenEpoch>>
  BY DEF Claim, ClaimInitial, ClaimOwn, ClaimTakeover, procVars
<1>3. lease'.writer = v /\ lease'.epoch = e
  BY <1>1 DEF Grant
<1>4. /\ escaped \subseteq escaped'
      /\ proc[v] = "drained" /\ seenEpoch[v] # 0 => e = seenEpoch[v] \/ v \in escaped'
      /\ proc[v] = "released" => v \in escaped'
  BY <1>1 DEF Grant, ReleaseMisses
<1>5. proc[v] # "closed"
  BY DEF Claim, ClaimInitial, ClaimOwn, ClaimTakeover, MayClaim, Running
<1>6. DrainedReadIsCurrent'
  BY <1>2, <1>3, <1>4 DEF HandoffInv, DrainedReadIsCurrent
<1>7. GracefulHandoff'
  BY <1>2, <1>3, <1>4, <1>5 DEF HandoffInv, GracefulHandoff
<1>8. QED
  BY <1>6, <1>7 DEF HandoffInv

\* Only a running runtime renews, for itself.
LEMMA HandoffBeat ==
    ASSUME TypeOK, HandoffInv, NEW v \in Writers, Heartbeat(v)
    PROVE  HandoffInv'
<1>1. PICK at \in ReadTimes : HeartbeatTick(v, at)
  BY DEF Heartbeat
<1>2. PICK mid : mid = [lease EXCEPT !.until = at + LeaseDuration]
  OBVIOUS
<1>3. lease \in LeaseRow /\ lease.writer = v /\ lease' = [mid EXCEPT !.beat = at]
  BY <1>1, <1>2 DEF HeartbeatTick, OwnLive, HasLease, TypeOK
<1>4. lease'.writer = v
  BY <1>2, <1>3 DEF LeaseRow
<1>5. proc[v] \in Running /\ UNCHANGED <<clock, proc, seenEpoch, escaped>>
  BY <1>1 DEF HeartbeatTick, MayBeat, procVars
<1>6. QED
  BY <1>4, <1>5 DEF HandoffInv, DrainedReadIsCurrent, GracefulHandoff, Running

LEMMA HandoffShutdown ==
    ASSUME TypeOK, HandoffInv, NEW v \in Writers, Shutdown(v)
    PROVE  HandoffInv'
<1>1. CASE BeginStop(v) \/ Drain(v)
  <2>1. UNCHANGED <<clock, lease, seenEpoch, escaped>>
    BY <1>1 DEF BeginStop, Drain, leaseVars
  <2>2. /\ \A w \in Writers : w # v => proc'[w] = proc[w]
        /\ \/ proc[v] = "up" /\ proc'[v] = "stopping"
           \/ seenEpoch[v] = 0 /\ proc'[v] = "drained"
    BY <1>1 DEF BeginStop, Drain, TypeOK
  <2>3. QED
    BY <2>1, <2>2 DEF HandoffInv, DrainedReadIsCurrent, GracefulHandoff, HasLease
<1>2. CASE ReadOwnLease(v)
  BY <1>2 DEF ReadOwnLease, leaseVars, HandoffInv, DrainedReadIsCurrent, GracefulHandoff,
              HasLease, TypeOK
<1>3. ASSUME ReleaseEnds(v)
      PROVE  /\ \A w \in Writers : w # v => proc'[w] = proc[w] /\ seenEpoch'[w] = seenEpoch[w]
             /\ seenEpoch'[v] = 0
             /\ proc'[v] = IF proc[v] = "drained" THEN "released" ELSE proc[v]
  BY <1>3 DEF ReleaseEnds, TypeOK
<1>4. CASE \E now \in ReadTimes : Release(v, now)
  <2>1. PICK now \in ReadTimes : Release(v, now)
    BY <1>4
  <2>2. now \in Nat /\ now <= clock /\ clock \in Nat
    BY ReadTimesFact DEF TypeOK
  <2>3. UNCHANGED <<clock, escaped>> /\ ReleaseEnds(v) /\ seenEpoch[v] # 0
    BY <2>1 DEF Release
  <2>4. proc[v] \in {"stopping", "drained"}
    BY <2>3 DEF HandoffInv, DrainedReadIsCurrent
  <2>5. CASE HasLease /\ lease.writer = v /\ lease.epoch = seenEpoch[v]
    <3>1. lease' = [lease EXCEPT !.until = now] /\ lease \in LeaseRow
      BY <2>1, <2>5 DEF Release, HasLease, TypeOK
    <3>2. lease'.writer = v /\ lease'.until = now
      BY <2>5, <3>1 DEF LeaseRow
    <3>3. QED
      BY <1>3, <2>2, <2>3, <3>2 DEF HandoffInv, DrainedReadIsCurrent, GracefulHandoff
  <2>6. CASE ~(HasLease /\ lease.writer = v /\ lease.epoch = seenEpoch[v])
    <3>1. UNCHANGED lease
      BY <2>1, <2>6 DEF Release
    <3>2. proc[v] = "drained" => ~(HasLease /\ lease.writer = v) \/ v \in escaped
      BY <2>3, <2>6 DEF HandoffInv, DrainedReadIsCurrent
    <3>3. QED
      BY <1>3, <2>3, <2>4, <3>1, <3>2
      DEF HandoffInv, DrainedReadIsCurrent, GracefulHandoff, HasLease
  <2>7. QED
    BY <2>5, <2>6
<1>5. CASE ReleaseFails(v)
  <2>1. /\ UNCHANGED <<clock, lease>> /\ ReleaseEnds(v)
        /\ proc[v] \in {"stopping", "drained"}
        /\ escaped \subseteq escaped'
        /\ proc[v] = "drained" => v \in escaped'
    BY <1>5 DEF ReleaseFails
  <2>2. QED
    BY <1>3, <2>1 DEF HandoffInv, DrainedReadIsCurrent, GracefulHandoff, HasLease
<1>6. CASE SkipRelease(v)
  BY <1>6 DEF SkipRelease, leaseVars, HandoffInv, DrainedReadIsCurrent, GracefulHandoff,
              HasLease, TypeOK
<1>7. CASE CloseStorage(v)
  BY <1>7 DEF CloseStorage, HandoffInv, DrainedReadIsCurrent, GracefulHandoff, HasLease, TypeOK
<1>8. QED
  BY <1>1, <1>2, <1>4, <1>5, <1>6, <1>7 DEF Shutdown

LEMMA HandoffStep == TypeOK /\ HandoffInv /\ [Next]_vars => HandoffInv'
<1> SUFFICES ASSUME TypeOK, HandoffInv, [Next]_vars PROVE HandoffInv'
  OBVIOUS
<1> USE DEF HandoffInv, DrainedReadIsCurrent, GracefulHandoff, HasLease
<1>1. ASSUME NEW v \in Writers, Mutate(v) \/ GateBegin(v) \/ GatePoll(v)
      PROVE  HandoffInv'
  BY <1>1 DEF Mutate, FencedMutation, GateBegin, GatePoll, leaseVars, procVars
<1>2. ASSUME NEW v \in Writers, Crash(v) \/ Restart(v)
      PROVE  HandoffInv'
  <2>1. /\ UNCHANGED <<clock, lease>>
        /\ \A w \in Writers : w # v => /\ proc'[w] = proc[w] /\ seenEpoch'[w] = seenEpoch[w]
                                       /\ w \in escaped => w \in escaped'
        /\ proc'[v] \in {"crashed", "up"}
        /\ seenEpoch'[v] = 0
    BY <1>2 DEF Crash, Restart, leaseVars, TypeOK
  <2>2. QED
    BY <2>1
<1>3. CASE Tick
  <2>1. UNCHANGED <<lease, proc, seenEpoch, escaped>> /\ clock \in Nat /\ clock' = clock + 1
    BY <1>3 DEF Tick, leaseVars, procVars, TypeOK
  <2>2. \A w \in Writers : HasLease /\ lease.until <= clock => lease.until <= clock'
    BY <2>1, RowFact DEF TypeOK
  <2>3. QED
    BY <2>1, <2>2
<1>4. CASE UNCHANGED vars
  BY <1>4 DEF vars
<1>5. QED
  BY <1>1, <1>2, <1>3, <1>4, HandoffClaim, HandoffBeat, HandoffShutdown DEF Next

(***************************************************************************)
(* A released runtime leaves a live lease behind only if its release       *)
(* failed, or a flush claimed a new epoch between the release's read and   *)
(* its CAS or claimed after it: the supervisors are drained first, so      *)
(* nothing else can outdate what the release read (createStopHandler).     *)
(***************************************************************************)
THEOREM HandoffIsGraceful == Spec => []GracefulHandoff
<1>1. TypeOK /\ HandoffInv /\ [Next]_vars => TypeOK' /\ HandoffInv'
  BY TypeStep, HandoffStep
<1>2. HandoffInv => GracefulHandoff
  BY DEF HandoffInv
<1>3. QED
  BY <1>1, <1>2, TypeInit, HandoffInit, PTL DEF Spec

-----------------------------------------------------------------------------
(* Takeover evidence                                                       *)

LEMMA StampInit == Init => StampPositive
<1> SUFFICES ASSUME Init, HasLease PROVE lease.beat = NoBeat
  BY DEF StampPositive
<1>1. QED
  BY DEF Init, InitLease, HasLease

LEMMA StampStep == TypeOK /\ StampPositive /\ [Next]_vars => StampPositive'
<1> SUFFICES ASSUME TypeOK, StampPositive, [Next]_vars PROVE StampPositive'
  OBVIOUS
<1>1. ASSUME NEW w \in Writers, Claim(w) PROVE StampPositive'
  <2>1. PICK now \in ReadTimes, e \in Int : Grant(w, e, now)
    <3>1. HasLease => lease.epoch \in Int /\ lease.epoch + 1 \in Int
      BY RowFact DEF HasLease, TypeOK
    <3>2. QED
      BY <1>1, <3>1 DEF Claim, ClaimInitial, ClaimOwn, ClaimTakeover, OwnLive, Takeable,
                        FirstEpoch, NextEpoch
  <2>2. lease'.beat = now /\ now > 0
    BY <2>1, ReadTimesFact DEF Grant, TypeOK
  <2>3. QED
    BY <2>2 DEF StampPositive
<1>2. ASSUME NEW w \in Writers, Heartbeat(w) PROVE StampPositive'
  <2>1. PICK at \in ReadTimes : HeartbeatTick(w, at)
    BY <1>2 DEF Heartbeat
  <2>2. PICK mid : mid = [lease EXCEPT !.until = at + LeaseDuration]
    OBVIOUS
  <2>3. lease \in LeaseRow /\ lease' = [mid EXCEPT !.beat = at] /\ at > 0
    BY <2>1, <2>2, ReadTimesFact DEF HeartbeatTick, OwnLive, HasLease, TypeOK
  <2>4. lease'.beat = at
    BY <2>2, <2>3 DEF LeaseRow
  <2>5. QED
    BY <2>3, <2>4 DEF StampPositive
<1>3. ASSUME NEW w \in Writers, Shutdown(w) PROVE StampPositive'
  <2>1. CASE UNCHANGED lease
    BY <2>1 DEF StampPositive, HasLease
  <2>2. CASE \E now \in ReadTimes : HasLease /\ lease' = [lease EXCEPT !.until = now]
    BY <2>2, RowFact DEF StampPositive, HasLease, TypeOK, LeaseRow
  <2>3. QED
    BY <1>3, <2>1, <2>2 DEF Shutdown, BeginStop, Drain, ReadOwnLease, Release, ReleaseFails,
                            SkipRelease, CloseStorage, leaseVars
<1>4. CASE UNCHANGED lease
  BY <1>4 DEF StampPositive, HasLease
<1>5. QED
  BY <1>1, <1>2, <1>3, <1>4
  DEF Next, Mutate, FencedMutation, GateBegin, GatePoll, Crash, Restart, Tick, vars, leaseVars

KeepsLease ==
    HasLease /\ lease.until > clock /\ (lease.beat = NoBeat \/ lease.beat + StaleMs > clock)
    => HasLease' /\ lease'.epoch = lease.epoch

LEMMA LiveOwnerStep == EpochInv /\ StampPositive /\ [Next]_vars => [KeepsLease]_lease
<1> SUFFICES ASSUME EpochInv, StampPositive, [Next]_vars,
                    HasLease, lease.until > clock,
                    lease.beat = NoBeat \/ lease.beat + StaleMs > clock
             PROVE  (HasLease' /\ lease'.epoch = lease.epoch) \/ UNCHANGED lease
  BY DEF KeepsLease
<1>1. TypeOK /\ lease \in LeaseRow /\ clock \in Nat
  BY DEF EpochInv, TypeOK, HasLease
<1>2. ASSUME NEW w \in Writers, Claim(w)
      PROVE  HasLease' /\ lease'.epoch = lease.epoch
  <2>1. PICK now \in ReadTimes :
            ClaimOwn(w, now) \/ \E bound \in Bounds(now) : ClaimTakeover(w, now, bound)
    BY <1>2 DEF Claim, ClaimInitial
  <2>2. now \in Nat /\ now > 0 /\ now <= clock
    BY <1>1, ReadTimesFact
  <2>3. ~Takeable(now, NoBound)
    BY <1>1, <2>2, RowFact DEF Takeable, HeartbeatStale
  <2>4. ~Takeable(now, HeartbeatStaleBound(now))
    <3> SUFFICES ASSUME lease.beat \in Nat, lease.beat > 0, lease.beat + StaleMs > clock
                 PROVE  ~(lease.beat <= HeartbeatStaleBound(now))
      BY <1>1, <2>2, RowFact DEF Takeable, HeartbeatStale, StampPositive
    <3>1. QED
      BY <1>1, <2>2, StaleBoundFact, ConstantsAssumption
  <2>5. ClaimOwn(w, now)
    BY <2>1, <2>3, <2>4 DEF ClaimTakeover, Bounds
  <2>6. Grant(w, lease.epoch, now) /\ lease.epoch \in Nat \ {0}
    BY <1>1, <2>5, RowFact DEF ClaimOwn
  <2>7. QED
    BY <1>1, <2>2, <2>6, GrantFact DEF HasLease
<1>3. ASSUME NEW w \in Writers, Heartbeat(w) \/ Shutdown(w)
      PROVE  (HasLease' /\ lease'.epoch = lease.epoch) \/ UNCHANGED lease
  BY <1>1, <1>3, RowKept
<1>4. QED
  BY <1>2, <1>3
  DEF Next, Mutate, FencedMutation, GateBegin, GatePoll, Crash, Restart, Tick, vars, leaseVars

(***************************************************************************)
(* A live writer that keeps heartbeating is never dispossessed: a stale    *)
(* bound taken from any clock reading that is not in the future cannot     *)
(* reach its stamp (claimWriterLeaseWithSql, heartbeatStaleBound).         *)
(***************************************************************************)
THEOREM LiveOwnerIsSafe == Spec => LiveOwnerKeepsLease
<1>1. EpochInv /\ StampPositive /\ [Next]_vars => EpochInv' /\ StampPositive' /\ [KeepsLease]_lease
  BY EpochStep, StampStep, LiveOwnerStep DEF EpochInv
<1>2. QED
  BY <1>1, EpochInit, StampInit, PTL DEF Spec, LiveOwnerKeepsLease, KeepsLease

CapIsLive ==
    \A w \in Writers :
        gate[w].state = "waiting" /\ gate'[w].state = "wait_cap_reached"
        => lease.beat > gate[w].start

LEMMA CapStep ==
    ASSUME MaxWaitMs >= StaleMs
    PROVE  TypeOK /\ [Next]_vars => [CapIsLive]_gate
<1> SUFFICES ASSUME TypeOK, [Next]_vars, NEW w \in Writers,
                    gate[w].state = "waiting", gate'[w].state = "wait_cap_reached"
             PROVE  lease.beat > gate[w].start
  BY DEF CapIsLive
<1>1. PICK v \in Writers : GatePoll(v)
  <2>1. ~UNCHANGED gate
    OBVIOUS
  <2>2. ASSUME NEW v \in Writers PROVE ~GateBegin(v) /\ ~Crash(v)
    BY DEF GateBegin, Crash, IdleGate, TypeOK
  <2>3. QED
    BY <2>1, <2>2
    DEF Next, vars, Claim, ClaimInitial, ClaimOwn, ClaimTakeover, Heartbeat, HeartbeatTick,
        Mutate, FencedMutation, Shutdown, BeginStop, Drain, ReadOwnLease, Release,
        ReleaseFails, SkipRelease, CloseStorage, Restart, Tick
<1>2. v = w
  BY <1>1 DEF GatePoll, TypeOK
<1>3. GateVerdict(w, clock) = "wait_cap_reached"
  BY <1>1, <1>2 DEF GatePoll, TypeOK
<1>4. HasLease /\ lease.beat # NoBeat /\ ~(lease.beat + StaleMs <= clock) /\ CapReached(w, clock)
  BY <1>3 DEF GateVerdict, FreeFor
<1>5. lease.beat \in Nat /\ clock \in Nat /\ gate[w].start \in Nat
  BY <1>4, RowFact DEF HasLease, TypeOK
<1>6. QED
  BY <1>4, <1>5, ConstantsAssumption DEF CapReached

(***************************************************************************)
(* With a wait cap no shorter than the stale bound (the defaults are 25 s  *)
(* and 15 s), a gate that reaches its cap waited on a writer that          *)
(* heartbeat meanwhile (awaitTakeoverableWriterLeaseWithAdapter).          *)
(***************************************************************************)
THEOREM CapMeansLiveOwner ==
    ASSUME MaxWaitMs >= StaleMs
    PROVE  Spec => GateCapMeansLiveOwner
<1>1. TypeOK /\ [Next]_vars => [CapIsLive]_gate
  BY CapStep
<1>2. QED
  BY <1>1, TypeInit, TypeStep, PTL DEF Spec, GateCapMeansLiveOwner, CapIsLive
=============================================================================
