--------------------------- MODULE StreamRecovery ---------------------------
(***************************************************************************)
(* Everybody who writes the effect stream of one projected row: flushes,   *)
(* the reconciliation scan (System_State) or the cleanup scan and conflict *)
(* resolution (User_Input), the delivery that settles effects and confirms *)
(* what became visible, polling, and people who edit the sheet.            *)
(*                                                                         *)
(* A scan reads the sheet, then canonical state, then the stream, and      *)
(* appends in a last transaction; anything may happen between its steps.   *)
(* Claims, leases and late requests are the business of EffectDelivery:    *)
(* here an effect is delivered, rejected or left uncertain in one step.    *)
(*                                                                         *)
(* A row is its value, which stands for the visible hash; the rows that    *)
(* carry the target's anchor or identity form a sequence, top row first.   *)
(***************************************************************************)
EXTENDS Naturals, Sequences, FiniteSets

CONSTANTS
    Projections,    \* of {"user_input", "system_state"}
    SharedLoop,     \* scans and delivery run in one supervisor loop
    FullScans,      \* polls may read whole tables, as safety scans and escalations do
    Values,         \* field values, of flushes and of people
    MaxSeq,         \* bound: effects of the stream
    MaxFlushes,     \* bound: flushes
    Backlog,        \* bound: open effects a flush may queue behind
    MaxEdits,       \* bound: human edits
    MaxFaults       \* bound: rejected, refused or unanswered deliveries

\* The value of a deleted entity: the tombstone row of System_State.
Gone == 0

\* The empty hash, expected by an effect that creates its row.
Empty == 99

ASSUME RecoveryAssumption ==
    /\ Projections \subseteq {"user_input", "system_state"}
    /\ {SharedLoop, FullScans} \subseteq BOOLEAN
    /\ Values \subseteq Nat /\ Gone \notin Values /\ Empty \notin Values
    /\ {MaxSeq, MaxFlushes, Backlog, MaxEdits, MaxFaults} \subseteq Nat

VARIABLES
    projection,     \* which projection's stream this is
    canon,          \* canonical value
    revision,       \* canonical entity revision
    fx,             \* the effects, by stream sequence
    confirmed,      \* sheet_visible_state: hash, visible and entity revision
    sheet,          \* rows with the target's anchor
    receipts,       \* effects with a receipt
    candidate,      \* unresolved conflict: its evidence, rev 0 when none
    scan,           \* what the running scan knows
    poll,           \* what the running poll knows
    refused,        \* history: effects whose confirmation was refused
    disputed,       \* history: a conflict was opened
    flushes, edits, faults

vars == <<projection, canon, revision, fx, confirmed, sheet, receipts, candidate,
          scan, poll, refused, disputed, flushes, edits, faults>>

durable == <<canon, revision, fx, confirmed, candidate>>
remote == <<sheet, receipts>>
counters == <<disputed, flushes, edits, faults>>

InFlight == {"pending", "delivery_uncertain"}
Settled == {"applied", "superseded"}

\* sheet_visible_state without a receipt; an entity revision of 0 is NULL.
NoConfirmation == [hash |-> Empty, rev |-> 0, entity |-> 0]

\* No conflict.  command: a deferred system-wins command waits for its retry.
NoCandidate == [hash |-> Empty, rev |-> 0, command |-> FALSE]

IsUser == projection = "user_input"
Alive == canon # Gone
HasCandidate == candidate.rev > 0

Larger(a, b) == IF a >= b THEN a ELSE b

-----------------------------------------------------------------------------
(* The stream                                                              *)

Latest == Len(fx)

Terminal(s) ==
    \/ fx[s].status \in {"conflict", "blocked_candidate"}
    \/ fx[s].status = "failed" /\ fx[s].terminal

AtHead(s) == \A p \in 1 .. s - 1 : fx[p].status \in Settled

NewEffect(kind, create, value, hash, rev, entity) ==
    [kind |-> kind, create |-> create, value |-> value, hash |-> hash, rev |-> rev,
     entity |-> entity, status |-> "pending", terminal |-> FALSE]

Supersede(stream, s) == [stream EXCEPT ![s].status = "superseded"]

\* Mutant: the confirmation repeats what the effect expected.
TargetHash_Expected(e) == e.hash

\* What the row will show once effect e is applied.
TargetHash(e) == e.value

-----------------------------------------------------------------------------
(* Flushes                                                                 *)

\* projectionBaselineFromConfirmedState
ConfirmedBaseline ==
    IF confirmed.rev > 0
    THEN [hash |-> confirmed.hash, rev |-> confirmed.rev, create |-> FALSE]
    ELSE [hash |-> Empty, rev |-> 0, create |-> TRUE]

\* A row that is gone is created from the empty baseline.
CreateBaseline == [hash |-> Empty, rev |-> 0, create |-> TRUE]

\* Mutant: a follower is planned from the confirmed row.
FollowerBaseline_Confirmed(e) ==
    [hash |-> confirmed.hash, rev |-> Larger(e.rev + 1, confirmed.rev), create |-> FALSE]

\* Behind an effect in flight: its target, its revision + 1, never below the
\* confirmed revision.
FollowerBaseline(e) ==
    [hash |-> TargetHash(e), rev |-> Larger(e.rev + 1, confirmed.rev), create |-> FALSE]

\* A delete's recreate baseline accepts more states than a write's follower.
RecreateAllowed(e) ==
    \/ e.status \in InFlight \cup {"applied"}
    \/ e.status = "failed" /\ ~e.terminal

FlushAllowed ==
    \/ Latest = 0
    \/ IF IsUser /\ fx[Latest].kind = "delete"
       THEN RecreateAllowed(fx[Latest])
       ELSE fx[Latest].status \in {"pending", "applied"}

\* projectionBaseline; a flush whose baseline throws is rolled back.
FlushBaseline ==
    IF Latest = 0 THEN ConfirmedBaseline
    ELSE LET e == fx[Latest] IN
         IF IsUser /\ e.kind = "delete" THEN CreateBaseline
         ELSE IF e.status = "pending" THEN FollowerBaseline(e)
         ELSE ConfirmedBaseline

OpenEffects == {s \in 1 .. Latest : fx[s].status \notin Settled}

\* The canonical commit of a flush and its effects are one transaction.
Commits(v) ==
    /\ flushes < MaxFlushes
    /\ v # canon
    /\ canon' = v
    /\ revision' = revision + 1
    /\ flushes' = flushes + 1
    /\ UNCHANGED <<projection, confirmed, remote, scan, poll, refused, disputed, edits, faults>>

\* The stream with the effect of a flush.
Enqueued(kind, v) ==
    LET b == FlushBaseline IN
    Append(fx, NewEffect(kind, b.create, v, b.hash, b.rev, revision + 1))

MayEnqueue ==
    /\ FlushAllowed
    /\ Cardinality(OpenEffects) <= Backlog
    /\ Latest < MaxSeq

Enqueue(kind, v) == MayEnqueue /\ fx' = Enqueued(kind, v) /\ UNCHANGED candidate

\* The system wins: value v is written over the candidate's row.  The latest
\* effect is superseded unless it is closed, and so is every pending rewrite.
Resolved(stream, v, entity) ==
    LET n == Len(stream)
        replaced(s) == \/ stream[s].status = "pending" /\ stream[s].kind = "write"
                       \/ s = n /\ stream[s].status \in {"pending", "blocked_candidate",
                                                        "conflict", "failed"}
    IN  Append([s \in 1 .. n |-> IF replaced(s) THEN [stream[s] EXCEPT !.status = "superseded"]
                                 ELSE stream[s]],
               NewEffect("write", FALSE, v, candidate.hash, candidate.rev, entity))

\* A predecessor under delivery defers the command (READ_PROCESSING_PREDECESSOR).
Deferred == \E s \in 1 .. Latest : fx[s].status = "delivery_uncertain"

\* planMappedFlushConflictSyncWithSql: a new value for the field in conflict
\* plans the system-wins command.  busy: an audit effect is under delivery.
ConflictSync(stream, v) ==
    /\ Len(stream) < MaxSeq
    /\ \E busy \in BOOLEAN :
        IF busy \/ Deferred
        THEN fx' = stream /\ candidate' = [candidate EXCEPT !.command = TRUE]
        ELSE fx' = Resolved(stream, v, revision + 1) /\ candidate' = NoCandidate

\* createMappedEntity and reactivateMappedEntity: never suppressed.
FlushCreate(v) ==
    /\ ~Alive
    /\ Commits(v)
    /\ MayEnqueue
    /\ IF IsUser /\ HasCandidate THEN ConflictSync(Enqueued("write", v), v)
       ELSE Enqueue("write", v)

\* A live candidate suppresses the User_Input effect.
FlushUpdate(v) ==
    /\ Alive
    /\ Commits(v)
    /\ IF IsUser /\ HasCandidate THEN ConflictSync(fx, v)
       ELSE Enqueue("write", v)

\* System_State keeps a tombstone row; the User_Input row is deleted, and
\* only when it is expected to hold the entity's fields.
FlushDelete ==
    /\ Alive
    /\ Commits(Gone)
    /\ IF ~IsUser THEN Enqueue("write", Gone)
       ELSE IF HasCandidate THEN UNCHANGED <<fx, candidate>>
       ELSE FlushBaseline.hash = canon /\ Enqueue("delete", canon)

-----------------------------------------------------------------------------
(* Delivery                                                                *)

\* The provider's anchor index keeps the first row.
Row == IF sheet = <<>> THEN Empty ELSE sheet[1]

\* planEffectBatch and planReceiptReplay for one effect.
Outcome(s) ==
    LET e == fx[s] IN
    CASE s \in receipts /\ e.kind = "delete" ->
             IF sheet = <<>> THEN "already_applied" ELSE "guard_mismatch"
      [] s \in receipts /\ e.kind = "write" ->
             IF Row = e.value THEN "already_applied" ELSE "guard_mismatch"
      [] s \notin receipts /\ sheet = <<>> ->
             IF e.kind = "write" /\ e.create /\ e.rev = 0 /\ e.hash = Empty
             THEN "create" ELSE "guard_mismatch"
      [] s \notin receipts /\ sheet # <<>> /\ e.kind = "delete" ->
             IF Row = e.hash THEN "remove" ELSE "guard_mismatch"
      [] OTHER ->
             IF Row = e.value THEN "stamp"
             ELSE IF Row = e.hash THEN "overwrite"
             ELSE "guard_mismatch"

\* One atomic batch of the row and its receipt.
Mutate(s, outcome) ==
    /\ receipts' = receipts \cup {s}
    /\ sheet' = CASE outcome = "create" -> <<fx[s].value>>
                  [] outcome = "overwrite" -> [sheet EXCEPT ![1] = fx[s].value]
                  [] outcome = "remove" -> Tail(sheet)
                  [] OTHER -> sheet

\* The revision a receipt carries.
ReceiptRevision(e) == IF e.kind = "delete" THEN e.rev ELSE e.rev + 1

\* resolveConfirmationVisibleRevisionWithSql
ConfirmedRevision(e) ==
    IF e.kind = "delete" THEN Larger(confirmed.rev, ReceiptRevision(e))
    ELSE IF e.create THEN Larger(confirmed.rev + 1, ReceiptRevision(e))
    ELSE ReceiptRevision(e)

\* applyEffectResult and the confirmation are one transaction; an upsert that
\* would move the confirmed revision backwards rolls both back, and the claim
\* lapses into uncertainty.
Confirm(s) ==
    LET e == fx[s] IN
    IF ConfirmedRevision(e) >= confirmed.rev
    THEN /\ fx' = [fx EXCEPT ![s].status = "applied"]
         /\ confirmed' = [hash |-> TargetHash(e), rev |-> ConfirmedRevision(e), entity |-> e.entity]
         /\ UNCHANGED refused
    ELSE /\ fx' = [fx EXCEPT ![s].status = "delivery_uncertain"]
         /\ refused' = refused \cup {s}
         /\ UNCHANGED confirmed

Settle(s, status, terminal) ==
    /\ fx' = [fx EXCEPT ![s].status = status, ![s].terminal = terminal]
    /\ UNCHANGED <<confirmed, refused>>

DeliveryKeeps ==
    UNCHANGED <<projection, canon, revision, candidate, scan, poll, disputed, flushes, edits>>

\* EffectWorkerSupervisor.runLoop: a pass, then a scan when one is due.  The
\* worker and the scanner of two processes hold different leases and overlap.
PassRuns == SharedLoop => scan.at = "idle"

Dispatchable(s) ==
    /\ PassRuns
    /\ AtHead(s)
    /\ fx[s].status = "pending" \/ (fx[s].status = "failed" /\ ~fx[s].terminal)

\* The candidate gate, before anything is sent.
Gate(s) ==
    /\ Dispatchable(s)
    /\ IsUser /\ HasCandidate
    /\ Settle(s, "blocked_candidate", FALSE)
    /\ UNCHANGED <<remote, faults>>
    /\ DeliveryKeeps

Deliver(s) ==
    LET outcome == Outcome(s) IN
    /\ Dispatchable(s)
    /\ ~(IsUser /\ HasCandidate)
    /\ IF outcome = "guard_mismatch"
       THEN /\ Settle(s, IF IsUser THEN "blocked_candidate" ELSE "conflict", FALSE)
            /\ UNCHANGED remote
       ELSE /\ IF outcome = "already_applied" THEN UNCHANGED remote ELSE Mutate(s, outcome)
            /\ Confirm(s)
    /\ UNCHANGED faults
    /\ DeliveryKeeps

\* No reply, whether or not the batch was committed.
LoseReply(s) ==
    LET outcome == Outcome(s) IN
    /\ faults < MaxFaults
    /\ Dispatchable(s)
    /\ ~(IsUser /\ HasCandidate)
    /\ outcome \notin {"guard_mismatch", "already_applied"}
    /\ UNCHANGED remote \/ Mutate(s, outcome)
    /\ Settle(s, "delivery_uncertain", FALSE)
    /\ faults' = faults + 1
    /\ DeliveryKeeps

\* A schema error, a rejected batch, a spent retry, or a retryable error.
Reject(s) ==
    /\ faults < MaxFaults
    /\ Dispatchable(s)
    /\ \E terminal \in BOOLEAN : Settle(s, "failed", terminal)
    /\ faults' = faults + 1
    /\ UNCHANGED remote
    /\ DeliveryKeeps

\* classifyCasPostcondition on the receipt and the row.
Postcondition(s) ==
    LET e == fx[s] IN
    IF e.kind = "delete"
    THEN IF sheet = <<>> THEN IF s \in receipts THEN "applied" ELSE "unavailable"
         ELSE IF s \in receipts \/ Row # e.hash THEN "changed"
         ELSE "unapplied"
    ELSE IF sheet = <<>> THEN IF s \in receipts \/ ~e.create THEN "changed" ELSE "unapplied"
    ELSE IF Row = e.value THEN IF s \in receipts THEN "applied" ELSE "unavailable"
    ELSE IF Row = e.hash THEN "unapplied"
    ELSE "changed"

\* recoverUnknownResults and settleUnknownPostcondition; what stays
\* unavailable longer than the probe bound is failed.
Probe(s) ==
    /\ PassRuns
    /\ fx[s].status = "delivery_uncertain"
    /\ CASE Postcondition(s) = "applied" -> Confirm(s)
         [] Postcondition(s) = "unapplied" -> Settle(s, "pending", FALSE)
         [] OTHER -> Settle(s, "failed", TRUE)
    /\ UNCHANGED <<remote, faults>>
    /\ DeliveryKeeps

-----------------------------------------------------------------------------
(* Scans                                                                   *)

NoPlan == [effect |-> NewEffect("write", FALSE, Gone, Empty, 0, 0), position |-> 0,
           over |-> 0, by |-> 0]

Idle == [at |-> "idle", rows |-> <<>>, kind |-> "none", value |-> Gone, entity |-> 0,
         plan |-> NoPlan]

ScanKeeps ==
    UNCHANGED <<projection, canon, revision, confirmed, remote, candidate, poll, refused, counters>>

ObserveSheet ==
    /\ scan.at = "idle"
    /\ scan' = [Idle EXCEPT !.at = "observed", !.rows = sheet]
    /\ UNCHANGED fx
    /\ ScanKeeps

\* classifyCleanupStreamTargets for the anchor of a bound row.
CleanupKind ==
    IF HasCandidate THEN "none"
    ELSE IF Len(scan.rows) > 1 THEN "duplicate"
    ELSE IF Len(scan.rows) = 1 /\ Alive /\ scan.rows[1] # canon THEN "rewrite"
    ELSE "none"

TerminalFailures == {s \in 1 .. Latest : fx[s].status = "failed" /\ fx[s].terminal}

Failures == {s \in 1 .. Latest : fx[s].status = "failed"}

\* classifyDesiredRow, and the terminal failed heads read with it; an
\* ambiguous anchor leaves the row unmatched.  Desired rows are those of
\* active entities: no scan visits a tombstone.
ReconcileKind ==
    IF ~Alive THEN "none"
    ELSE IF Len(scan.rows) # 1 THEN "missing"
    ELSE IF scan.rows[1] # canon THEN "drifted"
    ELSE IF TerminalFailures # {} THEN "wedged"
    ELSE "none"

\* The second read: desired state, and for cleanup the candidates.
ReadEvidence ==
    LET kind == IF IsUser THEN CleanupKind ELSE ReconcileKind IN
    /\ scan.at = "observed"
    /\ scan' = IF kind = "none" THEN Idle
               ELSE [scan EXCEPT !.at = "classified", !.kind = kind, !.value = canon,
                                 !.entity = revision]
    /\ UNCHANGED fx
    /\ ScanKeeps

\* resolveCleanupBaselineWithSql looks at the latest effect only.
CleanupDefers ==
    /\ Latest > 0
    /\ \/ fx[Latest].status \in InFlight
       \/ fx[Latest].status = "failed" /\ ~fx[Latest].terminal

CleanupSupersedes == IF Latest > 0 /\ Terminal(Latest) THEN Latest ELSE 0

\* resolveCleanupExpectedVisibleRevisionWithSql: observed revisions are 1.
CleanupRevision == Larger(1, confirmed.rev)

\* buildRewriteEffect, buildDeleteEffect; neither names an entity revision.
CleanupEffect ==
    IF scan.kind = "rewrite"
    THEN NewEffect("write", FALSE, scan.value, scan.rows[1], CleanupRevision, 0)
    ELSE NewEffect("delete", FALSE, scan.rows[1], scan.rows[1], CleanupRevision, 0)

\* Mutant: the heads of the worker's retry path are taken for terminal ones.
FailedHead_Recoverable ==
    LET newest == CHOOSE s \in Failures : \A t \in Failures : t <= s IN
    IF Failures = {} \/ fx[newest].terminal THEN 0 ELSE newest

\* The head reconciliation may supersede: the newest failed effect, unless a
\* retry is due for it.
FailedHead ==
    LET newest == CHOOSE s \in Failures : \A t \in Failures : t <= s IN
    IF Failures = {} \/ ~fx[newest].terminal THEN 0 ELSE newest

\* resolveCorrectionBaselineWithSql: an equivalent correction is in flight.
Covered == /\ Latest > 0
           /\ fx[Latest].status \in InFlight
           /\ TargetHash(fx[Latest]) = scan.value

\* Mutant: the revision of the snapshot, which has none.
VisibleBaseline_Observed ==
    LET observed == IF Len(scan.rows) = 1 THEN scan.rows[1] ELSE Empty IN
    [hash |-> observed, rev |-> 0, create |-> observed = Empty]

\* baselineFromVisible: the fresh row is the guard, the confirmed revision
\* the receipt baseline.
VisibleBaseline ==
    LET observed == IF Len(scan.rows) = 1 THEN scan.rows[1] ELSE Empty IN
    IF confirmed.rev > 0
    THEN [hash |-> IF observed = Empty THEN confirmed.hash ELSE observed,
          rev |-> confirmed.rev, create |-> FALSE]
    ELSE [hash |-> observed, rev |-> 0, create |-> observed = Empty]

CorrectionBaseline ==
    IF scan.kind = "missing" THEN CreateBaseline
    ELSE IF Latest > 0 /\ fx[Latest].status \in InFlight THEN FollowerBaseline(fx[Latest])
    ELSE VisibleBaseline

\* The third read: the stream.  A correction that is covered only moves a
\* failed head out of its way.
CorrectionPlan ==
    IF Covered
    THEN [NoPlan EXCEPT !.over = FailedHead, !.by = Latest]
    ELSE [effect |-> NewEffect("write", CorrectionBaseline.create, scan.value,
                               CorrectionBaseline.hash, CorrectionBaseline.rev, scan.entity),
          position |-> Latest + 1, over |-> FailedHead, by |-> 0]

CleanupPlan == [effect |-> CleanupEffect, position |-> Latest + 1,
                over |-> CleanupSupersedes, by |-> 0]

\* buildCleanupEffects reads the candidates again.
NothingToPlan ==
    IF IsUser THEN HasCandidate \/ CleanupDefers
    ELSE \/ Covered /\ FailedHead = 0
         \/ scan.kind = "wedged" /\ FailedHead = 0

PlanCorrection ==
    /\ scan.at = "classified"
    /\ scan' = IF NothingToPlan THEN Idle
               ELSE [scan EXCEPT !.at = "planned",
                                 !.plan = IF IsUser THEN CleanupPlan ELSE CorrectionPlan]
    /\ UNCHANGED fx
    /\ ScanKeeps

\* UNIQUE(stream, stream_sequence): a taken position rolls the append back, and
\* so does the supersede of a head that is closed by now.
Appendable(p) ==
    /\ p.position = Latest + 1 /\ p.position <= MaxSeq
    /\ p.over > 0 => fx[p.over].status \notin Settled

\* appendEffectsWithSupersedes, and the supersede-only plans.
Enlist ==
    LET p == scan.plan IN
    /\ scan.at = "planned"
    /\ \/ p.by > 0 /\ fx' = IF fx[p.over].status \in Settled THEN fx ELSE Supersede(fx, p.over)
       \/ /\ p.by = 0 /\ Appendable(p)
          /\ fx' = Append(IF p.over > 0 THEN Supersede(fx, p.over) ELSE fx, p.effect)
       \/ p.by = 0 /\ ~Appendable(p) /\ UNCHANGED fx
    /\ scan' = Idle
    /\ ScanKeeps

ScanStep == ObserveSheet \/ ReadEvidence \/ PlanCorrection \/ Enlist

-----------------------------------------------------------------------------
(* Polling and resolution                                                  *)

NoPoll == [at |-> "idle", canon |-> Gone, revision |-> 0, seen |-> NoConfirmation,
           candidate |-> FALSE, row |-> Empty]

PollKeeps == UNCHANGED <<projection, fx, remote, scan, refused, flushes, edits, faults>>

\* The row-check gate leaves a binding with an effect in flight alone; a read
\* of the whole table does not.
RowIsRead == FullScans \/ \A s \in 1 .. Latest : fx[s].status \notin InFlight

\* Canonical and visible state are read before the sheet.
PollReadState ==
    /\ IsUser /\ Alive /\ poll.at = "idle"
    /\ RowIsRead
    /\ poll' = [NoPoll EXCEPT !.at = "read", !.canon = canon, !.revision = revision,
                              !.seen = confirmed, !.candidate = HasCandidate]
    /\ UNCHANGED <<canon, revision, confirmed, candidate, disputed>>
    /\ PollKeeps

PollObserve ==
    /\ poll.at = "read"
    /\ poll' = IF Len(sheet) = 1 /\ sheet[1] # poll.canon
               THEN [poll EXCEPT !.at = "observed", !.row = sheet[1]] ELSE NoPoll
    /\ UNCHANGED <<canon, revision, confirmed, candidate, disputed>>
    /\ PollKeeps

\* The row was not materialized from the canonical revision that was read, or
\* its field is in conflict already.
EditConflicts == poll.candidate \/ poll.seen.entity < poll.revision

\* assertObservedProjectionBaselineWithSql
BaselineMoved == poll.seen.hash # confirmed.hash \/ poll.seen.rev # confirmed.rev

AcceptEdit ==
    /\ ~EditConflicts /\ ~BaselineMoved /\ poll.revision = revision
    /\ canon' = poll.row
    /\ revision' = revision + 1
    /\ confirmed' = [hash |-> poll.row, rev |-> confirmed.rev + 1, entity |-> revision + 1]
    /\ UNCHANGED candidate

OpenConflict ==
    /\ EditConflicts /\ ~BaselineMoved /\ Alive
    /\ candidate' = IF HasCandidate /\ candidate.hash = poll.row THEN candidate
                    ELSE [hash |-> poll.row, rev |-> confirmed.rev + 1, command |-> FALSE]
    /\ UNCHANGED <<canon, revision, confirmed>>

\* Stale, or an observation the ledger has seen before.
DropEdit == UNCHANGED <<canon, revision, confirmed, candidate>>

\* persistObservedRowWithSql for one row with one user field.
PollPersist ==
    /\ poll.at = "observed"
    /\ poll' = NoPoll
    /\ AcceptEdit \/ OpenConflict \/ DropEdit
    /\ disputed' = (disputed \/ HasCandidate')
    /\ PollKeeps

\* retryPendingCommandsForConflictWithSql, after a polling pass.
RetryResolution ==
    /\ HasCandidate /\ candidate.command
    /\ ~Deferred /\ Latest < MaxSeq
    /\ IF Alive THEN fx' = Resolved(fx, canon, revision)
       ELSE \E v \in Values : fx' = Resolved(fx, v, 0)    \* the fields of the deleted entity
    /\ candidate' = NoCandidate
    /\ UNCHANGED <<projection, canon, revision, confirmed, remote, scan, poll, refused, counters>>

\* What a scan or a poll knows is gone with its process.
Restart ==
    /\ faults < MaxFaults
    /\ faults' = faults + 1
    /\ scan.at # "idle" \/ poll.at # "idle"
    /\ scan' = Idle /\ poll' = NoPoll
    /\ UNCHANGED <<projection, durable, remote, refused, disputed, flushes, edits>>

-----------------------------------------------------------------------------
(* People                                                                  *)

HumanEdit ==
    /\ edits < MaxEdits
    /\ edits' = edits + 1
    /\ sheet # <<>>
    /\ \/ \E v \in Values : v # sheet[1] /\ sheet' = [sheet EXCEPT ![1] = v]
       \/ sheet' = Tail(sheet)                                  \* a row is deleted
       \/ Len(sheet) = 1 /\ sheet' = <<sheet[1], sheet[1]>>     \* a row is copied
    /\ UNCHANGED <<projection, durable, receipts, scan, poll, refused, disputed, flushes, faults>>

-----------------------------------------------------------------------------
\* The entity was created with some value and its first effect is applied.
Init ==
    /\ projection \in Projections
    /\ canon \in Values
    /\ revision = 1
    /\ fx = <<[NewEffect("write", TRUE, canon, Empty, 0, 1) EXCEPT !.status = "applied"]>>
    /\ confirmed = [hash |-> canon, rev |-> 1, entity |-> 1]
    /\ sheet = <<canon>>
    /\ receipts = {1}
    /\ candidate = NoCandidate
    /\ scan = Idle
    /\ poll = NoPoll
    /\ refused = {} /\ disputed = FALSE
    /\ flushes = 0 /\ edits = 0 /\ faults = 0

DeliveryStep(s) == Gate(s) \/ Deliver(s) \/ Probe(s)

Next ==
    \/ \E v \in Values : FlushCreate(v) \/ FlushUpdate(v)
    \/ FlushDelete
    \/ \E s \in 1 .. Latest : DeliveryStep(s) \/ LoseReply(s) \/ Reject(s)
    \/ ScanStep
    \/ PollReadState \/ PollObserve \/ PollPersist
    \/ RetryResolution
    \/ Restart
    \/ HumanEdit

Spec == Init /\ [][Next]_vars

(***************************************************************************)
(* The worker goes on delivering, scans run periodically, and the sweep of *)
(* system-wins resolutions retries.  Strong for delivery: the shared loop  *)
(* starts with a pass and makes one before every scan, so however often    *)
(* scans run, a deliverable effect gets its turn.                          *)
(***************************************************************************)
Fairness ==
    /\ \A s \in 1 .. MaxSeq : SF_vars(s <= Latest /\ DeliveryStep(s))
    /\ WF_vars(ScanStep)
    /\ WF_vars(RetryResolution)

FairSpec == Spec /\ Fairness

-----------------------------------------------------------------------------
(* Properties                                                              *)

\* The guard of a queued effect is planned from effects that have not landed
\* yet.  As long as nobody touches the sheet, nothing is disputed and no effect
\* fails or is given up, the guards match one after the other: no effect ends blocked or in a
\* conflict.
QueuedGuardsMatch ==
    (edits = 0 /\ ~disputed
        /\ \A s \in 1 .. Latest : fx[s].status \notin {"failed", "superseded"})
        => \A s \in 1 .. Latest : fx[s].status \notin {"conflict", "blocked_candidate"}

\* sheet_visible_state tells the truth: when nobody touched the sheet and
\* nothing is uncertain or given up, the confirmed hash is that of the row, if any.
ConfirmedIsVisible ==
    (edits = 0 /\ \A s \in 1 .. Latest : fx[s].status \in {"applied", "pending"})
        => sheet \in {<<>>, <<confirmed.hash>>}

\* The row of a live entity shows something else than canonical state.
Drifted ==
    /\ Alive
    /\ IF IsUser THEN ~HasCandidate /\ sheet # <<>> /\ sheet # <<canon>>
       ELSE sheet # <<canon>>

\* The streams the scans can still move: no position left, a refused
\* confirmation and a closed head they may not supersede stop them.
Movable ==
    /\ Latest < MaxSeq /\ refused = {}
    /\ \A s \in 1 .. Latest :
           Terminal(s) => IF IsUser THEN s = Latest ELSE fx[s].status = "failed"

(***************************************************************************)
(* The row of a live entity does not stay different from canonical state   *)
(* for ever while its stream can be moved: lost replies, failed effects    *)
(* ahead of it, restarts of the scan and flushes that take the position it *)
(* planned for only delay the repair (scanAndEnqueue, resolveCorrection-   *)
(* Baseline, buildCleanupEffects).                                         *)
(***************************************************************************)
DriftIsRepaired == ~<>[](Drifted /\ Movable)

\* In no run, as a scan that read the entity before its delete breaks it: its
\* correction queues behind the tombstone, and no later scan visits the row.
TombstonesLast ==
    ~IsUser /\ ~Alive /\ (\A s \in 1 .. Latest : fx[s].status = "applied")
        => fx[Latest].value = Gone

\* A confirmation whose revision would move backwards is refused, and its
\* effect is probed and refused for ever.  The baselines of flushes, scans and
\* resolutions keep clear of that: a refusal takes an effect that creates the
\* row again (its revision restarts), one that was superseded before its
\* followers were planned anew, or an edit that polling accepted in between.
RevisionsChain ==
    (/\ \A s \in 2 .. Latest : ~fx[s].create /\ fx[s].status # "superseded"
     /\ ~(IsUser /\ edits > 0))
        => refused = {}

\* repair.ts:370: "The confirmed revision is the receipt baseline so the
\* confirmation upsert never regresses."  System_State rows that nothing
\* creates again are never refused.
CorrectionsNeverRegress ==
    (~IsUser /\ \A s \in 2 .. Latest : ~fx[s].create) => refused = {}
=============================================================================
