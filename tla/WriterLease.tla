---------------------------- MODULE WriterLease -----------------------------
(***************************************************************************)
(* The durable writer lease of ONE role: the `writer_lease` row, the       *)
(* operations of packages/protocol/ikisaki/src/outbox/writerLease.ts on    *)
(* it, the renew-only heartbeat timer (worker/leaseHeartbeat.ts), the      *)
(* startup wait gate, and the graceful shutdown that expires the row       *)
(* (sync-engine/src/sync/service/shutdown.ts).                             *)
(*                                                                         *)
(* Every operation is one SQLite transaction, so it is one action; the     *)
(* `now` it compares with was read by its caller before the transaction    *)
(* started, so it may lag the clock by up to MaxLag.  A fencing token is   *)
(* `fence-<epoch>:<writer>`: the pair of an epoch and a writer stands for  *)
(* it, and a writer never holds the token of another one.                  *)
(***************************************************************************)
EXTENDS Integers, FiniteSets

CONSTANTS
    Writers,        \* writer identities: no two live runtimes share one
    Waiters,        \* bound: the writers whose startup goes through the wait gate
    Mutators,       \* bound: the writers that mutate under their fences
    LeaseDuration,  \* leaseDurationMs of every claim and renewal
    StaleMs,        \* age at which a heartbeat is takeover evidence
    MaxWaitMs,      \* cap of the startup wait gate
    StartTime,      \* first clock value
    MaxTime,        \* bound: last clock value
    MaxLag,         \* how late a `now` may be used after it was read
    MaxEpoch,       \* bound: epochs handed out
    MaxCrashes,     \* bound: abnormal exits
    NoWriter,       \* refinement only: holder of an absent row
    NoLease,        \* the role has no row
    NoBeat,         \* heartbeat_at IS NULL (row of an earlier release)
    NoBound         \* the caller supplied no heartbeatStaleBeforeMs

ASSUME ConstantsAssumption ==
    /\ Waiters \subseteq Writers
    /\ Mutators \subseteq Writers
    /\ LeaseDuration \in Nat \ {0}
    /\ StaleMs \in Nat
    /\ MaxWaitMs \in Nat
    /\ StartTime \in Nat \ {0}
    /\ MaxTime \in Nat
    /\ MaxLag \in Nat
    /\ MaxEpoch \in Nat
    /\ MaxCrashes \in Nat
    /\ NoWriter \notin Writers
    /\ NoBeat \notin Int
    /\ NoBound \notin Int

\* One row of writer_lease (the role column is the instance of this module).
LeaseRow ==
    [writer : Writers, epoch : Nat \ {0}, until : Nat, beat : Nat \cup {NoBeat}]

ASSUME NoLeaseAssumption == NoLease \notin LeaseRow

VARIABLES
    clock,          \* wall clock, shared by the processes of one host
    lease,          \* the row, or NoLease
    proc,           \* per writer: its runtime, one of ProcStates
    seenEpoch,      \* per writer: epoch its shutdown read, 0 when none
    fences,         \* per writer: epochs of the fences its components hold
    gate,           \* per writer: the startup wait gate
    crashes,        \* abnormal exits so far
    granted,        \* history: every <<epoch, writer>> a claim returned
    escaped,        \* history: writers whose release failed or was overtaken
    lastWrite       \* history: epoch of the newest committed fenced mutation

leaseVars == <<lease, fences, granted, escaped>>
procVars  == <<proc, seenEpoch, crashes>>
vars ==
    <<clock, lease, proc, seenEpoch, fences, gate, crashes, granted, escaped, lastWrite>>

IdleGate == [state |-> "idle", start |-> 0, wake |-> 0]

GateStates == {"idle", "waiting", "ready", "live_legacy_lease", "wait_cap_reached"}
\* "released": the leases are expired, SQLite is still open; "crashed": not
\* running (never started, or abnormal exit).
ProcStates == {"up", "stopping", "drained", "released", "closed", "crashed"}
Running == {"up", "stopping"}

-----------------------------------------------------------------------------
(* Reading the row                                                         *)

Min2(a, b) == IF a <= b THEN a ELSE b
Max2(a, b) == IF a >= b THEN a ELSE b

\* A `now` some caller read no more than MaxLag before this transaction.
ReadTimes == Max2(StartTime, clock - MaxLag) .. clock

\* Mutant: the stale age is not subtracted.
HeartbeatStaleBound_NoAge(now) == now

\* Earliest heartbeat that still counts as fresh, clamped at zero.
HeartbeatStaleBound(now) == Max2(0, now - StaleMs)

HasLease == lease # NoLease
OwnLive(w, now) == HasLease /\ lease.writer = w /\ lease.until > now

\* Stamped, and stamped at or before the bound the caller supplied.
HeartbeatStale(bound) ==
    bound # NoBound /\ lease.beat # NoBeat /\ lease.beat <= bound

\* Mutant: heartbeat evidence is ignored.
Takeable_ExpiryOnly(now, bound) == HasLease /\ lease.until <= now

\* The takeover CAS: expired, or presumed dead by its heartbeat.
Takeable(now, bound) == HasLease /\ (lease.until <= now \/ HeartbeatStale(bound))

\* Mutant: the fence is checked by its writer only.
FenceValid_AnyEpoch(w, e, now) == HasLease /\ lease.writer = w /\ lease.until > now

\* FENCE_EXISTS_SQL for the token <<e, w>>.
FenceValid(w, e, now) ==
    HasLease /\ lease.writer = w /\ lease.epoch = e /\ lease.until > now

\* Heartbeat takeover bounds a claim may be called with.
Bounds(now) == {NoBound, HeartbeatStaleBound(now)}

-----------------------------------------------------------------------------
(* claimWriterLease: absent, own live, takeover; otherwise not claimed      *)

\* The release has read the row, and expires another epoch or nothing more.
ReleaseMisses(w, e) ==
    \/ proc[w] = "drained" /\ seenEpoch[w] \notin {0, e}
    \/ proc[w] = "released"

Grant(w, e, now) ==
    /\ lease' = [writer |-> w, epoch |-> e, until |-> now + LeaseDuration, beat |-> now]
    /\ fences' = [fences EXCEPT ![w] = @ \cup {e}]
    /\ granted' = granted \cup {<<e, w>>}
    /\ escaped' = IF ReleaseMisses(w, e) THEN escaped \cup {w} ELSE escaped

\* Supervisors claim until they are drained, flushes until SQLite is closed.
MayClaim(w) == proc[w] \in Running \cup {"drained", "released"}

FirstEpoch == 1

ClaimInitial(w, now) ==
    /\ MayClaim(w)
    /\ ~HasLease
    /\ FirstEpoch <= MaxEpoch
    /\ Grant(w, FirstEpoch, now)
    /\ UNCHANGED <<clock, procVars, gate, lastWrite>>

ClaimOwn(w, now) ==
    /\ MayClaim(w)
    /\ OwnLive(w, now)
    /\ Grant(w, lease.epoch, now)
    /\ UNCHANGED <<clock, procVars, gate, lastWrite>>

\* Mutant: a takeover keeps the epoch.
NextEpoch_Same == lease.epoch

\* The epoch a takeover hands out.
NextEpoch == lease.epoch + 1

ClaimTakeover(w, now, bound) ==
    /\ MayClaim(w)
    /\ ~OwnLive(w, now)
    /\ Takeable(now, bound)
    /\ lease.epoch < MaxEpoch
    /\ Grant(w, NextEpoch, now)
    /\ UNCHANGED <<clock, procVars, gate, lastWrite>>

-----------------------------------------------------------------------------
(* Renew-only heartbeat.  Its timer is stopped, and an in-flight tick       *)
(* awaited, before the runtime counts as drained.                          *)

\* Mutant: closing the runtime does not stop the timer.
MayBeat_AfterClose(w) == proc[w] \notin {"crashed", "closed"}

MayBeat(w) == proc[w] \in Running

HeartbeatTick(w, at) ==
    /\ MayBeat(w)
    /\ OwnLive(w, at)
    /\ lease' = [lease EXCEPT !.until = at + LeaseDuration, !.beat = at]
    /\ UNCHANGED <<clock, procVars, fences, gate, granted, escaped, lastWrite>>

-----------------------------------------------------------------------------
(* A mutation of the durable state under a fence some component kept       *)

FencedMutation(w, e, now) ==
    /\ w \in Mutators
    /\ MayClaim(w)
    /\ e \in fences[w]
    /\ FenceValid(w, e, now)
    /\ lastWrite' = e
    /\ UNCHANGED <<clock, leaseVars, procVars, gate>>

-----------------------------------------------------------------------------
(* Startup wait gate (awaitTakeoverableWriterLease): reads, never writes    *)

\* Bound: the gate starts only when its cap lies inside the clock's range.
GateBegin(w) ==
    /\ w \in Waiters
    /\ proc[w] = "up"
    /\ gate[w].state # "waiting"
    /\ clock + MaxWaitMs <= MaxTime
    /\ gate' = [gate EXCEPT ![w] = [state |-> "waiting", start |-> clock, wake |-> clock]]
    /\ UNCHANGED <<clock, leaseVars, procVars, lastWrite>>

\* The row is absent, expired, or this writer's own.
FreeFor(w, now) == ~HasLease \/ lease.until <= now \/ lease.writer = w

CapReached(w, now) == now - gate[w].start >= MaxWaitMs

\* Mutant: the wait has no cap.
GateVerdict_NoCap(w, now) ==
    IF FreeFor(w, now) THEN "ready"
    ELSE IF lease.beat = NoBeat THEN "live_legacy_lease"
    ELSE IF lease.beat + StaleMs <= now THEN "ready"
    ELSE "waiting"

\* Rules 1 to 4 of the loop, in order; "waiting" is rule 5 (sleep again).
GateVerdict(w, now) ==
    IF FreeFor(w, now) THEN "ready"
    ELSE IF lease.beat = NoBeat THEN "live_legacy_lease"
    ELSE IF lease.beat + StaleMs <= now THEN "ready"
    ELSE IF CapReached(w, now) THEN "wait_cap_reached"
    ELSE "waiting"

GatePoll(w) ==
    /\ proc[w] = "up"
    /\ gate[w].state = "waiting"
    /\ clock >= gate[w].wake
    /\ LET verdict == GateVerdict(w, clock) IN
         gate' = [gate EXCEPT ![w].state = verdict,
                              ![w].wake = IF verdict = "waiting"
                                          THEN Min2(lease.beat + StaleMs,
                                                    gate[w].start + MaxWaitMs)
                                          ELSE @]
    /\ UNCHANGED <<clock, leaseVars, procVars, lastWrite>>

-----------------------------------------------------------------------------
(* Graceful shutdown (createStopHandler, expireRuntimeWriterLeases), and    *)
(* the close of SQLite behind it (HikouteiImpl.performClose)                *)

BeginStop(w) ==
    /\ proc[w] = "up"
    /\ gate[w].state # "waiting"
    /\ proc' = [proc EXCEPT ![w] = "stopping"]
    /\ UNCHANGED <<clock, leaseVars, seenEpoch, crashes, gate, lastWrite>>

\* The heartbeat and both supervisors stopped; flushes are not waited for.
Drain(w) ==
    /\ proc[w] = "stopping"
    /\ seenEpoch[w] = 0
    /\ proc' = [proc EXCEPT ![w] = "drained"]
    /\ UNCHANGED <<clock, leaseVars, seenEpoch, crashes, gate, lastWrite>>

\* The release always runs, also when a supervisor failed to stop.
ReadOwnLease(w) ==
    /\ proc[w] \in {"stopping", "drained"}
    /\ seenEpoch[w] = 0
    /\ HasLease /\ lease.writer = w
    /\ seenEpoch' = [seenEpoch EXCEPT ![w] = lease.epoch]
    /\ UNCHANGED <<clock, leaseVars, proc, crashes, gate, lastWrite>>

\* However the release went, a drained runtime is done with it.
ReleaseEnds(w) ==
    /\ seenEpoch' = [seenEpoch EXCEPT ![w] = 0]
    /\ proc' = [proc EXCEPT ![w] = IF @ = "drained" THEN "released" ELSE @]

\* CAS on role, writer, epoch and token; the row is kept.
Release(w, now) ==
    /\ seenEpoch[w] # 0
    /\ IF HasLease /\ lease.writer = w /\ lease.epoch = seenEpoch[w]
       THEN lease' = [lease EXCEPT !.until = now]
       ELSE UNCHANGED lease
    /\ ReleaseEnds(w)
    /\ UNCHANGED <<clock, fences, crashes, gate, granted, escaped, lastWrite>>

\* The read or the CAS throws: a warning, and the close goes on.
ReleaseFails(w) ==
    /\ proc[w] \in {"stopping", "drained"}
    /\ ReleaseEnds(w)
    /\ escaped' = IF proc[w] = "drained" THEN escaped \cup {w} ELSE escaped
    /\ UNCHANGED <<clock, lease, fences, crashes, gate, granted, lastWrite>>

\* Nothing of this runtime's to expire.
SkipRelease(w) ==
    /\ proc[w] = "drained"
    /\ seenEpoch[w] = 0
    /\ ~(HasLease /\ lease.writer = w)
    /\ proc' = [proc EXCEPT ![w] = "released"]
    /\ UNCHANGED <<clock, leaseVars, seenEpoch, crashes, gate, lastWrite>>

\* SQLite is closed: no component of the runtime reaches the row any more.
CloseStorage(w) ==
    /\ proc[w] = "released"
    /\ proc' = [proc EXCEPT ![w] = "closed"]
    /\ fences' = [fences EXCEPT ![w] = {}]
    /\ UNCHANGED <<clock, lease, granted, escaped, seenEpoch, crashes, gate, lastWrite>>

-----------------------------------------------------------------------------
(* Processes and time                                                      *)

Crash(w) ==
    /\ MayClaim(w)
    /\ crashes < MaxCrashes
    /\ crashes' = crashes + 1
    /\ proc' = [proc EXCEPT ![w] = "crashed"]
    /\ seenEpoch' = [seenEpoch EXCEPT ![w] = 0]
    /\ fences' = [fences EXCEPT ![w] = {}]
    /\ gate' = [gate EXCEPT ![w] = IdleGate]
    /\ UNCHANGED <<clock, lease, granted, escaped, lastWrite>>

\* A runtime with a configured writerId comes back under the same identity.
Restart(w) ==
    /\ proc[w] \in {"crashed", "closed"}
    /\ proc' = [proc EXCEPT ![w] = "up"]
    /\ escaped' = escaped \ {w}
    /\ UNCHANGED <<clock, lease, fences, granted, seenEpoch, crashes, gate, lastWrite>>

Tick ==
    /\ clock < MaxTime
    /\ clock' = clock + 1
    /\ UNCHANGED <<leaseVars, procVars, gate, lastWrite>>

\* No row yet, or a live or expired row of a release that never heartbeat.
InitLease ==
    \/ lease = NoLease
    \/ \E w \in Writers, until \in {StartTime, StartTime + LeaseDuration} :
         lease = [writer |-> w, epoch |-> 1, until |-> until, beat |-> NoBeat]

Init ==
    /\ clock = StartTime
    /\ InitLease
    /\ proc \in [Writers -> {"up", "crashed"}]
    /\ seenEpoch = [w \in Writers |-> 0]
    /\ fences = [w \in Writers |-> {}]
    /\ gate = [w \in Writers |-> IdleGate]
    /\ crashes = 0
    /\ granted = IF HasLease THEN {<<lease.epoch, lease.writer>>} ELSE {}
    /\ escaped = {}
    /\ lastWrite = 0

Claim(w) ==
    \E now \in ReadTimes :
        \/ ClaimInitial(w, now)
        \/ ClaimOwn(w, now)
        \/ \E bound \in Bounds(now) : ClaimTakeover(w, now, bound)

Heartbeat(w) == \E at \in ReadTimes : HeartbeatTick(w, at)

Mutate(w) == \E e \in fences[w], now \in ReadTimes : FencedMutation(w, e, now)

Shutdown(w) ==
    \/ BeginStop(w)
    \/ Drain(w)
    \/ ReadOwnLease(w)
    \/ \E now \in ReadTimes : Release(w, now)
    \/ ReleaseFails(w)
    \/ SkipRelease(w)
    \/ CloseStorage(w)

Next ==
    \/ \E w \in Writers :
         \/ Claim(w)
         \/ Heartbeat(w)
         \/ Mutate(w)
         \/ GateBegin(w)
         \/ GatePoll(w)
         \/ Shutdown(w)
         \/ Crash(w)
         \/ Restart(w)
    \/ Tick

Spec == Init /\ [][Next]_vars

(***************************************************************************)
(* Time passes; a waiting gate wakes up and reads again; a running runtime *)
(* keeps calling claim (every worker pass, scan, poll and flush does).     *)
(* One that is closing need not: its loops are over.                       *)
(***************************************************************************)
RunningClaim(w) == proc[w] \in Running /\ Claim(w)

Fairness ==
    /\ WF_vars(Tick)
    /\ \A w \in Writers : WF_vars(GatePoll(w)) /\ WF_vars(RunningClaim(w))

FairSpec == Spec /\ Fairness

-----------------------------------------------------------------------------
(* Properties                                                              *)

\* Every variable stays in its domain, and the row stays well formed.
TypeOK ==
    /\ clock \in Nat
    /\ lease \in LeaseRow \cup {NoLease}
    /\ proc \in [Writers -> ProcStates]
    /\ seenEpoch \in [Writers -> Nat]
    /\ fences \in [Writers -> SUBSET (Nat \ {0})]
    /\ gate \in [Writers -> [state : GateStates, start : Nat, wake : Nat]]
    /\ crashes \in Nat
    /\ granted \in SUBSET ((Nat \ {0}) \X Writers)
    /\ escaped \in SUBSET Writers
    /\ lastWrite \in Nat

(***************************************************************************)
(* No epoch is ever handed to two writers, whatever mix of expiries,       *)
(* stale-heartbeat takeovers, releases, crashes and restarts occurs: the   *)
(* row is kept on release so that the epoch order never restarts           *)
(* (releaseWriterLeaseWithSql).                                            *)
(***************************************************************************)
EpochHasOneWriter ==
    \A g, h \in granted : g[1] = h[1] => g[2] = h[2]

(***************************************************************************)
(* A graceful close hands over at once, although the release reads the row *)
(* and expires it in two transactions and flushes of the application claim *)
(* between them and after them: the lease a released runtime leaves behind *)
(* has expired, or the release failed (a warning, shutdown.ts:81), or a    *)
(* claim came between its read and its CAS with a new epoch, or a claim    *)
(* came after it.  Nothing else, a renewal under the same epoch included,  *)
(* survives it (createStopHandler, releaseWriterLeaseWithSql).             *)
(***************************************************************************)
GracefulHandoff ==
    \A w \in Writers :
        proc[w] \in {"released", "closed"} /\ HasLease /\ lease.writer = w
        => lease.until <= clock \/ w \in escaped

\* What shutdown.ts:126 and :133-138 promise; a late flush or a failed release
\* breaks it.  In no run.
HandoffIsImmediate ==
    \A w \in Writers :
        proc[w] = "closed" /\ HasLease /\ lease.writer = w => lease.until <= clock

(***************************************************************************)
(* A writer whose lease has not expired and whose heartbeat is younger     *)
(* than the stale bound (or that never heartbeat) is not dispossessed,     *)
(* however late the claimant's clock reading is (claimWriterLeaseWithSql). *)
(***************************************************************************)
LiveOwnerKeepsLease ==
    [][ HasLease /\ lease.until > clock
        /\ (lease.beat = NoBeat \/ lease.beat + StaleMs > clock)
        => HasLease' /\ lease'.epoch = lease.epoch ]_lease

(***************************************************************************)
(* The startup gate gives up at its cap only on a writer that heartbeat    *)
(* after the gate started waiting: a writer that died before is never      *)
(* waited out (awaitTakeoverableWriterLeaseWithAdapter: "a live writer     *)
(* kept its heartbeat moving").  Needs MaxWaitMs >= StaleMs.  Proved; in   *)
(* no run.                                                                 *)
(***************************************************************************)
GateCapMeansLiveOwner ==
    [][ \A w \in Writers :
          gate[w].state = "waiting" /\ gate'[w].state = "wait_cap_reached"
          => lease.beat > gate[w].start ]_gate

(***************************************************************************)
(* The lease implements the epoch register every fenced component relies   *)
(* on: epochs grow by one, renewals, heartbeats and releases change        *)
(* nothing, and a mutation commits only under the newest epoch.            *)
(***************************************************************************)
Role == INSTANCE FencedRole WITH
    epoch <- IF HasLease THEN lease.epoch ELSE 0,
    holder <- IF HasLease THEN lease.writer ELSE NoWriter

RefinesFencedRole == Role!Spec

\* The startup gate always comes to a verdict, even against a live writer.
GateEnds ==
    \A w \in Writers : gate[w].state = "waiting" ~> gate[w].state # "waiting"

(***************************************************************************)
(* Failover within the stale-heartbeat bound: when the owner is gone and   *)
(* some runtime keeps running, a live runtime becomes the owner without    *)
(* waiting for the lease itself to expire.                                 *)
(***************************************************************************)
OwnerLives == HasLease /\ proc[lease.writer] \notin {"crashed", "closed"}

Failover ==
    HasLease /\ ~OwnerLives /\ lease.beat # NoBeat /\ clock + StaleMs <= MaxTime
    ~> OwnerLives \/ (\A w \in Writers : proc[w] \notin Running)
                \/ (HasLease /\ lease.epoch = MaxEpoch)
=============================================================================
