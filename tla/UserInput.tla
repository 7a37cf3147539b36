------------------------------ MODULE UserInput ------------------------------
(***************************************************************************)
(* One User_Input row with several fields: what people type is polled,     *)
(* accepted into canonical state field by field, or recorded as the        *)
(* conflict of a field, which a later flush of that field resolves in      *)
(* favour of the system.                                                   *)
(*                                                                         *)
(* A poll reads canonical state, then the sheet, and persists in a last    *)
(* transaction: flushes, deliveries and people come in between.  So they   *)
(* do between the candidate gate of an effect, its preflight, which        *)
(* compares the row, and the write, which does not compare it again.       *)
(* Closed effects leave the stream; what revives a stream behind a failed  *)
(* head is the business of StreamRecovery, and a scan is one step here.  A *)
(* candidate epoch is part of the identity of its conflict.                *)
(***************************************************************************)
EXTENDS Naturals, Sequences, FiniteSets, Functions

CONSTANTS
    Fields,         \* user fields of the row
    Values,         \* their values
    FullScans,      \* polls may read whole tables, as safety scans and escalations do
    MaxFlushes,     \* bound: flushes
    MaxEdits,       \* bound: human edits
    MaxConflicts,   \* bound: conflicts opened
    MaxFaults       \* bound: lost replies and restarts

ASSUME UserInputAssumption ==
    /\ IsFiniteSet(Fields) /\ FullScans \in BOOLEAN
    /\ {MaxFlushes, MaxEdits, MaxConflicts, MaxFaults} \subseteq Nat

VARIABLES
    value, rev,     \* canonical value and revision of each field
    entity,         \* canonical entity revision
    confirmed,      \* sheet_visible_state: row, visible and entity revision
    sheet,          \* the row as it is
    stream,         \* the open effects of the row, in stream order
    conflicts,      \* sync_conflict, in the order of insertion
    pointer,        \* active_candidate_conflict_id of each field, 0 for NULL
    pending,        \* pending system-wins commands
    ledger,         \* rows of the observations on record
    poll,           \* what the running poll knows
    shown,          \* history: the revision of the field its cell was last made to show
    written,        \* history: the rows the system has written or confirmed
    typed,          \* history: somebody typed since the last preflight of the row
    overtaken,      \* history: a poll persisted what a flush or a rewrite had overtaken
    flushes, edits, faults

canonical == <<value, rev, entity>>
disputes == <<conflicts, pointer, pending>>
history == <<shown, written, typed, overtaken>>
counters == <<flushes, edits, faults>>
vars == <<canonical, confirmed, sheet, stream, disputes, ledger, poll, history, counters>>

Rows == [Fields -> Values]
Revisions == [Fields -> Nat]

\* "claimed": past the candidate gate; "planned": a preflight found the row the
\* effect expects; "matched": it found the row as the effect would have it.
\* candidate: a reconcile effect of a resolution.  An entity revision of 0 is
\* NULL: rewrites of the cleanup scan name none.
Effect == [row : Rows, guard : Rows, rev : Nat, entity : Nat, shows : Revisions,
           candidate : BOOLEAN, landed : BOOLEAN,
           status : {"pending", "claimed", "planned", "matched", "uncertain", "stuck"}]

\* user, base: the candidate, whose hash they are; cur, rev: the canonical
\* field it is up against; row, vrev: its evidence; event: its observation.
Conflict == [field : Fields, user : Values, base : Nat, cur : Values, rev : Nat,
             row : Rows, vrev : Nat, event : Nat, status : {"OPEN", "NEEDS_REBASE", "RESOLVED"}]

Command == [conflict : 1 .. MaxConflicts, rev : Nat]

NoPoll == [at |-> "idle"]

Unresolved(c) == conflicts[c].status # "RESOLVED"

HasCandidate == \E f \in Fields : pointer[f] # 0

\* Only the first open effect is delivered: those behind it are pending.
First == stream[1]

Latest == stream[Len(stream)]

Unfinished(e) == e.status # "stuck"

InFlight == \E i \in 1 .. Len(stream) : Unfinished(stream[i])

\* findProcessingPredecessorWithSql
Processing == stream # <<>> /\ First.status \in {"claimed", "planned", "matched", "uncertain"}

NewEffect(row, guard, revision, ent, shows) ==
    [row |-> row, guard |-> guard, rev |-> revision, entity |-> ent, shows |-> shows,
     candidate |-> FALSE, landed |-> FALSE, status |-> "pending"]

-----------------------------------------------------------------------------
(* Flushes and resolution                                                  *)

\* The reconcile effect of a resolution: canonical values over the evidence of
\* the candidate.
Reconcile(c, row, revs, ent) ==
    [NewEffect(row, conflicts[c].row, conflicts[c].vrev, ent, revs) EXCEPT !.candidate = TRUE]

\* It takes the place of the pending effects of the row and of a stuck latest
\* one, not of a stuck head with others behind it.
Kept == IF Len(stream) > 1 /\ ~Unfinished(First) THEN <<First>> ELSE <<>>

Cleared(c) == [pointer EXCEPT ![conflicts[c].field] = 0]

\* applyResolvedCommandWithSql
Resolve(c, rebased, row, revs, ent) ==
    /\ conflicts' = [rebased EXCEPT ![c].status = "RESOLVED"]
    /\ pointer' = Cleared(c)
    /\ stream' = Append(Kept, Reconcile(c, row, revs, ent))
    /\ pending' = {p \in pending : p.conflict # c}

\* The command waits for a predecessor under delivery, of the row or of the
\* audit row of the conflict.
Defer(c, rebased, r) ==
    /\ conflicts' = rebased
    /\ pending' = {p \in pending : p.conflict # c} \cup {[conflict |-> c, rev |-> r]}
    /\ UNCHANGED <<pointer, stream>>

\* Mutant: a flush of what the user typed is no news.
Triggers_UserValue(c, f, v) ==
    c # 0 /\ rev[f] + 1 > conflicts[c].rev /\ v # conflicts[c].user

\* shouldTriggerImplicitSystemWins
Triggers(c, f, v) ==
    c # 0 /\ rev[f] + 1 > conflicts[c].rev /\ v # conflicts[c].cur

\* planMappedFlushConflictSyncWithSql
ConflictSync(f, v) ==
    LET c == pointer[f]
        rebased == [conflicts EXCEPT ![c].cur = v, ![c].rev = rev[f] + 1,
                                     ![c].status = "NEEDS_REBASE"]
    IN  IF ~Triggers(c, f, v) THEN UNCHANGED <<disputes, stream>>
        ELSE \/ ~Processing
                /\ Resolve(c, rebased, [value EXCEPT ![f] = v],
                           [rev EXCEPT ![f] = @ + 1], entity + 1)
             \/ Defer(c, rebased, rev[f] + 1)

\* The clamp of projectionBaseline.
FollowerRevision == IF Latest.rev + 1 > confirmed.rev THEN Latest.rev + 1 ELSE confirmed.rev

\* projectionBaseline: behind what is confirmed, or behind a latest effect that
\* is pending or under way.  One that is uncertain or stuck makes the flush fail.
Enqueue(row, ent, revs) ==
    stream' = Append(stream,
        IF stream = <<>> THEN NewEffect(row, confirmed.row, confirmed.rev, ent, revs)
        ELSE NewEffect(row, Latest.row, FollowerRevision, ent, revs))

\* updateMappedEntity and its effect, one transaction.  A candidate of any
\* field suppresses the User_Input effect.
Flush(f, v) ==
    /\ flushes < MaxFlushes
    /\ v # value[f]
    /\ value' = [value EXCEPT ![f] = v]
    /\ rev' = [rev EXCEPT ![f] = @ + 1]
    /\ entity' = entity + 1
    /\ \/ HasCandidate /\ ConflictSync(f, v)
       \/ /\ ~HasCandidate
          /\ stream # <<>> => Latest.status \notin {"uncertain", "stuck"}
          /\ Enqueue(value', entity + 1, rev')
          /\ UNCHANGED disputes
    /\ flushes' = flushes + 1
    /\ UNCHANGED <<confirmed, sheet, ledger, poll, history, edits, faults>>

\* retryPendingCommandsForConflictWithSql: a command of an older revision is
\* stale, and so is one whose candidate is not the active one any more.  (Newer
\* flushes replace the command of their conflict, so the first case does not
\* arise on one row.)
Retry(p) ==
    LET c == p.conflict IN
    /\ p \in pending
    /\ IF p.rev # conflicts[c].rev
       THEN pending' = pending \ {p} /\ UNCHANGED <<conflicts, pointer, stream>>
       ELSE /\ ~Processing
            /\ IF pointer[conflicts[c].field] = c
               THEN Resolve(c, conflicts, value, rev, entity)
               ELSE pending' = pending \ {p} /\ UNCHANGED <<conflicts, pointer, stream>>
    /\ UNCHANGED <<canonical, confirmed, sheet, ledger, poll, history, counters>>

-----------------------------------------------------------------------------
(* Delivery                                                                *)

\* Mutant: only the cells that change are compared.
Guarded_ChangedCells == \A f \in Fields : First.row[f] # First.guard[f] => sheet[f] = First.guard[f]

\* The guard is the visible hash of the whole row.
Guarded == sheet = First.guard

\* Nothing to write: a receipt to replay, or a row that is as it should be.
\* Reconcile effects are compared first.
Matches == sheet = First.row /\ (First.landed \/ ~First.candidate \/ Guarded)

Writes == sheet # First.row /\ Guarded /\ ~First.landed

FirstIs(status) == stream # <<>> /\ First.status = status

Settle(status, landed) ==
    stream' = [stream EXCEPT ![1].status = status, ![1].landed = landed]

DeliveryKeeps == UNCHANGED <<canonical, disputes, ledger, poll, overtaken, flushes, edits>>

\* The claim of the worker and the candidate gate of the dispatcher.
Claim ==
    /\ FirstIs("pending")
    /\ Settle(IF HasCandidate THEN "stuck" ELSE "claimed", First.landed)
    /\ UNCHANGED <<confirmed, sheet, shown, written, typed, faults>>
    /\ DeliveryKeeps

\* preflightApplyEffects
Preflight ==
    /\ FirstIs("claimed")
    /\ Settle(IF Matches THEN "matched" ELSE IF Writes THEN "planned" ELSE "stuck", First.landed)
    /\ shown' = IF Matches THEN First.shows ELSE shown
    /\ typed' = FALSE
    /\ UNCHANGED <<confirmed, sheet, written, faults>>
    /\ DeliveryKeeps

\* The cells and the receipt, one request.
Lands ==
    /\ FirstIs("planned") \/ FirstIs("matched")
    /\ IF FirstIs("planned") THEN sheet' = First.row /\ shown' = First.shows
       ELSE UNCHANGED <<sheet, shown>>
    /\ written' = written \cup {First.row}

\* Applied and confirmed at once; a confirmed revision that would move
\* backwards rolls both back, and the claim lapses into uncertainty.
Confirm ==
    IF First.rev + 1 >= confirmed.rev
    THEN /\ stream' = Tail(stream)
         /\ confirmed' = [row |-> First.row, rev |-> First.rev + 1, entity |-> First.entity]
    ELSE Settle("uncertain", TRUE) /\ UNCHANGED confirmed

\* applyPreparedEffects writes what was planned, whatever the row shows by now.
Apply ==
    /\ Lands /\ Confirm
    /\ UNCHANGED <<typed, faults>>
    /\ DeliveryKeeps

\* A claim that is given back or lapses before anything is sent, or whose
\* answer is lost.
LoseReply ==
    /\ faults < MaxFaults /\ faults' = faults + 1
    /\ \/ FirstIs("claimed") /\ Settle("pending", First.landed) /\ UNCHANGED <<sheet, shown, written>>
       \/ /\ FirstIs("claimed") \/ FirstIs("planned") \/ FirstIs("matched")
          /\ Settle("uncertain", First.landed) /\ UNCHANGED <<sheet, shown, written>>
       \/ Lands /\ Settle("uncertain", TRUE)
    /\ UNCHANGED <<confirmed, typed>>
    /\ DeliveryKeeps

\* classifyCasPostcondition; what stays unavailable is failed in the end.
Probe ==
    /\ FirstIs("uncertain")
    /\ IF sheet = First.row /\ First.landed THEN Confirm
       ELSE /\ Settle(IF sheet # First.row /\ Guarded THEN "pending" ELSE "stuck", First.landed)
            /\ UNCHANGED confirmed
    /\ UNCHANGED <<sheet, shown, written, typed, faults>>
    /\ DeliveryKeeps

\* runUserInputCleanupScan: a row that differs from canonical state is
\* rewritten over what was observed; a stuck latest effect (it is the only one)
\* is superseded.
CleanupRewrite ==
    /\ ~HasCandidate
    /\ stream # <<>> => ~Unfinished(Latest)
    /\ sheet # value
    /\ stream' = <<NewEffect(value, sheet, confirmed.rev, 0, rev)>>
    /\ UNCHANGED <<canonical, confirmed, sheet, disputes, ledger, poll, history, counters>>

-----------------------------------------------------------------------------
(* Polling                                                                 *)

\* The row-check gate leaves a row with an effect in flight alone.
RowIsRead == FullScans \/ ~InFlight

\* readMappedPollingState
PollRead ==
    /\ poll = NoPoll
    /\ RowIsRead
    /\ poll' = [at |-> "read", value |-> value, rev |-> rev, entity |-> entity,
                confirmed |-> confirmed, row |-> value,
                active |-> {f \in Fields : \E c \in 1 .. Len(conflicts) :
                                conflicts[c].field = f /\ Unresolved(c)}]
    /\ UNCHANGED <<canonical, confirmed, sheet, stream, disputes, ledger, history, counters>>

\* The snapshot; a row that shows what was read is unchanged.
PollObserve ==
    /\ poll.at = "read"
    /\ poll' = IF sheet = poll.value THEN NoPoll
               ELSE [poll EXCEPT !.at = "observed", !.row = sheet]
    /\ UNCHANGED <<canonical, confirmed, sheet, stream, disputes, ledger, history, counters>>

Changed == {f \in Fields : poll.row[f] # poll.value[f]}

\* Mutant: a row older than canonical state is taken at its word.
Forced_Never == FALSE

\* Mutant: one revision older is not older.
Forced_OffByOne == poll.confirmed.entity + 1 < poll.entity

\* normalizeExistingRow: the row was not materialized from the canonical
\* revision that was read (or from none that is known).
Forced == poll.confirmed.entity < poll.entity

\* evaluateSingleUserField
Disputed == {f \in Changed : Forced \/ f \in poll.active}

Accepted == Changed \ Disputed

BaseRevision(f) == IF Forced THEN 0 ELSE poll.rev[f]

\* The synthetic visible revision of the observation.
ObservedRevision == poll.confirmed.rev + 1

\* The active candidate of f has the hash of what was observed.
SameCandidate(f) ==
    /\ pointer[f] # 0
    /\ conflicts[pointer[f]].user = poll.row[f]
    /\ conflicts[pointer[f]].base = BaseRevision(f)

\* findMatchingCandidateEventIdWithSql
KnownCandidates ==
    /\ Accepted = {}
    /\ \A f \in Disputed : SameCandidate(f)
    /\ \A f, g \in Disputed : conflicts[pointer[f]].event = conflicts[pointer[g]].event

\* assertObservedProjectionBaselineWithSql
BaselineMoved == poll.confirmed.row # confirmed.row \/ poll.confirmed.rev # confirmed.rev

\* The compare-and-set of applyUpdateWithSql, on the accepted fields only.
FieldsCurrent == \A f \in Accepted : rev[f] = poll.rev[f]

\* advanceCandidateVisibleEvidence throws, and the whole pass ends.
EvidenceRejected ==
    \E f \in Disputed : SameCandidate(f)
        /\ \/ ObservedRevision < conflicts[pointer[f]].vrev
           \/ ObservedRevision = conflicts[pointer[f]].vrev /\ conflicts[pointer[f]].row # poll.row

NewDisputes == {f \in Disputed : ~SameCandidate(f)}

NewConflict(f) ==
    [field |-> f, user |-> poll.row[f], base |-> BaseRevision(f), cur |-> poll.value[f],
     rev |-> poll.rev[f], row |-> poll.row, vrev |-> ObservedRevision,
     event |-> Len(conflicts) + 1, status |-> "OPEN"]

\* The same candidate gets the newer evidence; a new one takes over the
\* pointer and leaves the older conflict as it is.
Advanced ==
    [c \in 1 .. Len(conflicts) |->
        IF \E f \in Disputed : SameCandidate(f) /\ pointer[f] = c
        THEN [conflicts[c] EXCEPT !.row = poll.row, !.vrev = ObservedRevision]
        ELSE conflicts[c]]

\* applyCanonicalMutationWithSql, confirmObservedProjectionWithSql.  There is
\* no candidate to rebase: only polls open conflicts, and one of an accepted
\* field would have been read.
AcceptFields ==
    IF Accepted = {} THEN UNCHANGED <<canonical, confirmed, shown>>
    ELSE /\ value' = [f \in Fields |-> IF f \in Accepted THEN poll.row[f] ELSE value[f]]
         /\ rev' = [f \in Fields |-> IF f \in Accepted THEN rev[f] + 1 ELSE rev[f]]
         /\ entity' = entity + 1
         /\ confirmed' = [row |-> poll.row, rev |-> ObservedRevision, entity |-> entity + 1]
         /\ shown' = [f \in Fields |-> IF f \in Accepted THEN rev[f] + 1 ELSE shown[f]]

\* persistConflictAttemptsWithSql
OpenConflicts ==
    /\ Len(conflicts) + Cardinality(NewDisputes) <= MaxConflicts
    /\ \E order \in Bijection(1 .. Cardinality(NewDisputes), NewDisputes) :
        /\ conflicts' = Advanced \o [i \in DOMAIN order |-> NewConflict(order[i])]
        /\ pointer' = [f \in Fields |->
               IF f \in NewDisputes THEN Len(conflicts) + (CHOOSE i \in DOMAIN order : order[i] = f)
               ELSE pointer[f]]

\* Since the read a flush was committed, or the cleanup scan has planned a
\* rewrite from values older than what is accepted now.
Overtaken ==
    \/ entity # poll.entity
    \/ \E i \in 1 .. Len(stream) : Unfinished(stream[i]) /\ stream[i].entity = 0

\* persistObservedRowWithSql for an observation that is not on record.
PollPersist ==
    /\ poll.at = "observed"
    /\ ~KnownCandidates /\ ~BaselineMoved /\ FieldsCurrent /\ ~EvidenceRejected
    /\ AcceptFields
    /\ OpenConflicts
    /\ ledger' = ledger \cup {poll.row}
    /\ overtaken' = (overtaken \/ Overtaken)
    /\ poll' = NoPoll
    /\ UNCHANGED <<sheet, stream, pending, written, typed, counters>>

\* A duplicate of the active candidates.
PollKnown ==
    /\ poll.at = "observed"
    /\ KnownCandidates
    /\ ledger' = ledger \cup {poll.row}
    /\ poll' = NoPoll
    /\ UNCHANGED <<canonical, confirmed, sheet, stream, disputes, history, counters>>

\* Stale, rejected, or a table that was observed before (appendObservationWithSql).
PollDropped ==
    /\ poll.at = "observed"
    /\ \/ poll.row \in ledger
       \/ ~KnownCandidates /\ (BaselineMoved \/ ~FieldsCurrent \/ EvidenceRejected)
    /\ poll' = NoPoll
    /\ UNCHANGED <<canonical, confirmed, sheet, stream, disputes, ledger, history, counters>>

\* What a poll knows is gone with its process.
Restart ==
    /\ faults < MaxFaults /\ faults' = faults + 1
    /\ poll # NoPoll /\ poll' = NoPoll
    /\ UNCHANGED <<canonical, confirmed, sheet, stream, disputes, ledger, history, flushes, edits>>

HumanEdit(f, v) ==
    /\ edits < MaxEdits /\ edits' = edits + 1
    /\ v # sheet[f]
    /\ sheet' = [sheet EXCEPT ![f] = v]
    /\ typed' = TRUE
    /\ UNCHANGED <<canonical, confirmed, stream, disputes, ledger, poll, shown, written, overtaken,
                   flushes, faults>>

-----------------------------------------------------------------------------
\* The row shows its entity, whose first effect is applied.
Init ==
    /\ value \in Rows
    /\ rev = [f \in Fields |-> 1]
    /\ entity = 1
    /\ confirmed = [row |-> value, rev |-> 1, entity |-> 1]
    /\ sheet = value
    /\ stream = <<>>
    /\ conflicts = <<>>
    /\ pointer = [f \in Fields |-> 0]
    /\ pending = {} /\ ledger = {}
    /\ poll = NoPoll
    /\ shown = rev /\ written = {value} /\ typed = FALSE /\ overtaken = FALSE
    /\ flushes = 0 /\ edits = 0 /\ faults = 0

Next ==
    \/ \E f \in Fields, v \in Values : Flush(f, v) \/ HumanEdit(f, v)
    \/ \E p \in pending : Retry(p)
    \/ Claim \/ Preflight \/ Apply \/ LoseReply \/ Probe
    \/ CleanupRewrite
    \/ PollRead \/ PollObserve \/ PollPersist \/ PollKnown \/ PollDropped
    \/ Restart

Spec == Init /\ [][Next]_vars

-----------------------------------------------------------------------------
(* Properties                                                              *)

\* The state has the shape the schema declares; the active candidate of a
\* field is an unresolved conflict of that field.
UserInputTypeOK ==
    /\ value \in Rows /\ rev \in Revisions /\ entity \in Nat
    /\ confirmed \in [row : Rows, rev : Nat, entity : Nat] /\ sheet \in Rows
    /\ stream \in Seq(Effect)
    /\ \A i \in 2 .. Len(stream) : stream[i].status = "pending"
    /\ conflicts \in Seq(Conflict) /\ Len(conflicts) <= MaxConflicts
    /\ pending \subseteq Command /\ ledger \subseteq Rows
    /\ pointer \in [Fields -> 0 .. Len(conflicts)]
    /\ \A f \in Fields : pointer[f] # 0 =>
           conflicts[pointer[f]].field = f /\ Unresolved(pointer[f])
    /\ shown \in Revisions /\ written \subseteq Rows
    /\ typed \in BOOLEAN /\ overtaken \in BOOLEAN

\* The conflict of an active candidate knows the canonical field it is up
\* against: a flush back to an older value is still a change for it, and no
\* command is refused for a revision the flush has just made.  (A poll that was
\* overtaken records an older field, see the README.)
ConflictTracksCanonical ==
    ~overtaken => \A f \in Fields : pointer[f] # 0 =>
        conflicts[pointer[f]].cur = value[f] /\ conflicts[pointer[f]].rev = rev[f]

\* What was accepted from the row.
EditAccepted(f) == poll.at = "observed" /\ poll' = NoPoll /\ rev'[f] # rev[f]

\* An edit is accepted only as a change of what its cell was made to show, the
\* current revision of its field: no accepted edit takes back a flush whose
\* write is not on the sheet yet.
EditsReplaceWhatTheyShow ==
    [][\A f \in Fields : EditAccepted(f) => shown[f] = rev[f]]_vars

\* The same, as long as no poll was overtaken.
EditsReplaceWhatTheyShowUnlessOvertaken ==
    [][\A f \in Fields : ~overtaken /\ EditAccepted(f) => shown[f] = rev[f]]_vars

\* A write that reaches the sheet.
Landing == FirstIs("planned") /\ (Apply \/ LoseReply) /\ sheet' # sheet

\* A row the system wrote or a poll has on record.
OnRecord == sheet \in written \cup ledger

\* An effect of a flush or of a resolution overwrites only what the system wrote
\* or has on record, unless it was typed after the preflight of the effect: what
\* people type is accepted or becomes a conflict, but is not lost to it.  (The
\* rewrites of the cleanup scan may lose it, see the README.)
FlushesOverwriteRecordedCells ==
    [][Landing /\ First.entity # 0 /\ ~typed => OnRecord]_vars

\* In no run, as a person who types between preflight and write breaks it.
WritesOnlyExpected ==
    [][Landing /\ First.entity # 0 => OnRecord]_vars

\* As long as no conflict holds the row, what it is going to show last is
\* canonical state: the latest of the effects that queue for it or, when none
\* does, what is confirmed, although flushes were suppressed by a candidate,
\* resolutions deferred and edits accepted while effects were under way.
NewestRowIsCurrent ==
    ~HasCandidate /\ ~overtaken =>
        IF stream = <<>> THEN confirmed.row = value
        ELSE Unfinished(Latest) => Latest.row = value

\* No cell is taken back to an older revision of its field: what was planned or
\* queued before a newer revision reached the cell does not land on top of it.
CellsNeverGoBack ==
    [][~overtaken => \A f \in Fields : shown'[f] >= shown[f]]_vars
=============================================================================
