--------------------------- MODULE EffectDelivery ---------------------------
(***************************************************************************)
(* Delivery of the effects of one stream to one sheet row: the worker      *)
(* passes of packages/protocol/ikisaki/src/worker/worker.ts, the provider  *)
(* batches they send (packages/library/cloud/sheets, google-sheets-api),   *)
(* and the outbox rows both meet in (EffectOutbox).                        *)
(*                                                                         *)
(* A pass lists the stream's ready effect, claims it, and, by the status   *)
(* it LISTED, either dispatches it (preflight read, lease renewal inside   *)
(* the mutation lane, one atomic batch of target cells and receipt) or     *)
(* reads back what became of an earlier dispatch.  A request travels on    *)
(* its own: its sender may crash, or stop waiting, while it is in flight.  *)
(* People edit the row directly.                                           *)
(*                                                                         *)
(* At most one effect of a stream is ready at a time (HeadOfStream), so a  *)
(* pass handles at most one.  The row's visible value stands for the hash  *)
(* of the effect's fields; a deleted row is a value no effect expects.     *)
(***************************************************************************)
EXTENDS EffectOutbox, Sequences, FiniteSets

CONSTANTS
    Workers,        \* effect workers, each in a process of its own
    Nobody,         \* the holder of the role before the first claim
    EditValues,     \* what people may leave in the row
    MaxEdits,       \* bound: human edits
    MaxCrashes,     \* bound: worker crashes
    LateWrites      \* a request may execute after its sender's time ran out

ASSUME DeliveryAssumption ==
    /\ Nobody \notin Workers
    /\ MaxEdits \in Nat
    /\ MaxCrashes \in Nat
    /\ LateWrites \in BOOLEAN

VARIABLES
    base,           \* expected visible value of each effect
    sheet,          \* visible value of the row
    receipts,       \* effects with a receipt in the receipt tab
    flight,         \* requests that were sent and have not executed
    landings,       \* history: requests that executed, in order
    holder,         \* owner of the worker role's newest epoch
    fence,          \* per worker: the epoch its fence carries
    pc,             \* per worker: where its pass stands
    item,           \* per worker: the effect its pass holds
    edits,          \* human edits so far
    crashes         \* worker crashes so far

remoteVars == <<sheet, receipts, flight, landings, edits>>
workerVars == <<holder, fence, pc, item, crashes>>
deliveryVars == <<outboxVars, base, remoteVars, workerVars>>

\* The value an effect writes; 0 is the value before the first effect.
Target(s) == s

Plans == {"none", "write", "stamp", "replay", "mismatch"}

\* What a pass knows of its effect: read from the listing (seq, redrive,
\* unsure), from its claim (token), from the preflight (plan, edits) or
\* from the read-back (verdict).  `edits` is history.
Item == [seq : Nat, redrive : BOOLEAN, unsure : BOOLEAN, token : Nat,
         plan : Plans, edits : Nat, verdict : {"none", "applied", "unapplied", "changed", "unknown"}]

NoItem == [seq |-> 0, redrive |-> FALSE, unsure |-> FALSE, token |-> 0,
           plan |-> "none", edits |-> 0, verdict |-> "none"]

Request == [seq : Seqs, token : Nat, plan : {"write", "stamp"}, edits : Nat]

-----------------------------------------------------------------------------
(* The provider                                                            *)

\* Mutant: the expected visible state is not compared.
PlanFor_NoGuard(s) ==
    IF s \in receipts THEN IF sheet = Target(s) THEN "replay" ELSE "mismatch"
    ELSE IF sheet = Target(s) THEN "stamp"
    ELSE "write"

\* planEffectBatch for one effect, on what the preflight read.
PlanFor(s) ==
    IF s \in receipts THEN IF sheet = Target(s) THEN "replay" ELSE "mismatch"
    ELSE IF sheet = Target(s) THEN "stamp"
    ELSE IF sheet = base[s] THEN "write"
    ELSE "mismatch"

\* Mutant: a row that carries the target closes the effect.
Evidence_RowOnly(s) ==
    IF sheet = Target(s) THEN "applied"
    ELSE IF sheet = base[s] THEN "unapplied"
    ELSE "changed"

\* classifyCasPostcondition: the receipt and the row of one read.
Evidence(s) ==
    IF sheet = Target(s) THEN IF s \in receipts THEN "applied" ELSE "unknown"
    ELSE IF sheet = base[s] THEN "unapplied"
    ELSE "changed"

\* The batch commits target and receipt at once, without reading again.
Land(r) ==
    /\ r \in flight
    /\ flight' = flight \ {r}
    /\ sheet' = IF r.plan = "write" THEN Target(r.seq) ELSE sheet
    /\ receipts' = receipts \cup {r.seq}
    /\ landings' = Append(landings, r)
    /\ UNCHANGED <<outboxVars, base, edits, workerVars>>

Drop(r) ==
    /\ r \in flight
    /\ flight' = flight \ {r}
    /\ UNCHANGED <<outboxVars, base, sheet, receipts, landings, edits, workerVars>>

HumanEdit(v) ==
    /\ edits < MaxEdits
    /\ v # sheet
    /\ sheet' = v
    /\ edits' = edits + 1
    /\ UNCHANGED <<outboxVars, base, receipts, flight, landings, workerVars>>

-----------------------------------------------------------------------------
(* The writer of the stream                                                *)

Latest(s) == row[s].status # "absent" /\ \A n \in Seqs : n > s => row[n].status = "absent"

\* A flush plans against the target of the latest effect, in flight or
\* confirmed; any other latest status refuses the flush (projectionBaseline).
Flush(n) ==
    /\ \A s \in Seqs : Latest(s) => row[s].status \in {"pending", "processing", "applied"}
    /\ AppendPending(n)
    /\ base' = [base EXCEPT ![n] = Target(n - 1)]
    /\ UNCHANGED <<remoteVars, workerVars>>

\* A reconciliation scan supersedes a terminal head that is the latest effect
\* with a correction that expects what the scan observed in the row.
Correct(s, n) ==
    /\ Latest(s)
    /\ \/ row[s].status \in {"conflict", "blocked_candidate"}
       \/ row[s].status = "failed" /\ row[s].error = "terminal"
    /\ SupersedeAndReplan(s, n)
    /\ base' = [base EXCEPT ![n] = sheet]
    /\ UNCHANGED <<remoteVars, workerVars>>

-----------------------------------------------------------------------------
(* A worker's pass                                                         *)

Goes(w, place) == pc' = [pc EXCEPT ![w] = place] /\ UNCHANGED <<holder, fence, crashes>>

EndsPass(w) == Goes(w, "idle") /\ item' = [item EXCEPT ![w] = NoItem]

Keeps(w, place) == Goes(w, place) /\ UNCHANGED item

\* The claim of the role's lease renews an own live lease.
OwnsRole(w) == holder = w /\ fence[w] = epoch

\* A takeover: the lease (its own one, too) expired, or its heartbeat is stale.
TakesOver(w, place) ==
    /\ GrantEpoch
    /\ holder' = w
    /\ fence' = [fence EXCEPT ![w] = epoch + 1]
    /\ pc' = [pc EXCEPT ![w] = place]
    /\ item' = [item EXCEPT ![w] = NoItem]
    /\ UNCHANGED crashes

BeginPass(w) ==
    /\ pc[w] = "idle"
    /\ \/ /\ holder = w
          /\ fence' = [fence EXCEPT ![w] = epoch]
          /\ pc' = [pc EXCEPT ![w] = "recovering"]
          /\ UNCHANGED <<outboxVars, holder, item, crashes>>
       \/ TakesOver(w, "recovering")
    /\ UNCHANGED <<base, remoteVars>>

\* A stale fence recovers nothing.
Recovers(w) ==
    \/ RecoverExpiredLeases(fence[w])
    \/ ~Fenced(fence[w]) /\ UNCHANGED outboxVars

\* recoverExpiredLeases at the start of a pass, or after a fence was adopted
\* in the middle of one, which aborts the rest of it.
Recover(w) ==
    /\ \/ pc[w] = "recovering" /\ Keeps(w, "listing")
       \/ pc[w] = "adopted" /\ EndsPass(w)
    /\ Recovers(w)
    /\ UNCHANGED <<base, remoteVars>>

\* listReadyEffects: what it reads is used after later transactions.
List(w) ==
    /\ pc[w] = "listing"
    /\ \/ \E s \in Seqs :
            /\ Ready(s)
            /\ item' = [item EXCEPT ![w] =
                          [NoItem EXCEPT !.seq = s,
                                         !.redrive = row[s].status # "pending",
                                         !.unsure = row[s].unsure # "no"]]
            /\ Goes(w, "listed")
       \/ (\A s \in Seqs : ~Ready(s)) /\ EndsPass(w)
    /\ UNCHANGED <<outboxVars, base, remoteVars>>

\* The listed status, not the current one, selects dispatch or recovery.
Claim(w) ==
    LET s == item[w].seq IN
    /\ pc[w] = "listed"
    /\ \/ /\ ClaimEffect(s, fence[w])
          /\ item' = [item EXCEPT ![w].token = row[s].attempts + 1]
          /\ Goes(w, IF item[w].redrive THEN "probing" ELSE "claimed")
       \/ /\ ~(Fenced(fence[w]) /\ Claimable(s) /\ row[s].attempts < MaxAttempts[s])
          /\ EndsPass(w)
          /\ UNCHANGED outboxVars
    /\ UNCHANGED <<base, remoteVars>>

\* The compare-and-set of the pass's own claim.
Held(w) == Holds(item[w].seq, item[w].token, fence[w])

\* Mutant: the verdict is persisted whether or not the claim is still held.
Persist_Unguarded(w, verdict, class) ==
    LET s == item[w].seq IN
    /\ row' = [row EXCEPT ![s] = [@ EXCEPT !.status = verdict, !.error = class,
                                           !.token = 0, !.live = FALSE,
                                           !.due = TRUE, !.unsure = "no"]]
    /\ Reply(s, item[w].token)
    /\ EndsPass(w)
    /\ UNCHANGED <<base, remoteVars>>

\* A verdict is persisted under the claim; without it nothing changes.
Persist(w, verdict, class) ==
    /\ IF Held(w)
       THEN ApplyEffectResult(item[w].seq, item[w].token, fence[w], verdict, class)
       ELSE UNCHANGED outboxVars
    /\ EndsPass(w)
    /\ UNCHANGED <<base, remoteVars>>

Requeue(w) ==
    /\ IF Held(w)
       THEN RequeueEffect(item[w].seq, item[w].token, fence[w])
       ELSE UNCHANGED outboxVars
    /\ EndsPass(w)
    /\ UNCHANGED <<base, remoteVars>>

\* The payload is invalid, or an unresolved candidate owns a field.
Refuse(w) ==
    /\ pc[w] = "claimed"
    /\ \/ Persist(w, "failed", "terminal")
       \/ Persist(w, "blocked_candidate", "none")

Preflight(w) ==
    /\ pc[w] = "claimed"
    /\ item' = [item EXCEPT ![w] = [@ EXCEPT !.plan = PlanFor(item[w].seq), !.edits = edits]]
    /\ Goes(w, "planned")
    /\ UNCHANGED <<outboxVars, base, remoteVars>>

\* The read was refused or timed out, or proved a schema failure; both
\* outcomes are persisted only under a refreshed writer lease.
PreflightFails(w) ==
    /\ pc[w] = "claimed"
    /\ OwnsRole(w)
    /\ Requeue(w) \/ Persist(w, "failed", "terminal")

\* The writer lease is refreshed before the lane and again inside it; a lost
\* one aborts the unit, a taken-over one is adopted for the recovery only.
LosesRole(w) ==
    /\ pc[w] \in {"claimed", "planned", "probing"}
    /\ \/ ~OwnsRole(w) /\ EndsPass(w) /\ UNCHANGED outboxVars
       \/ TakesOver(w, "adopted")
    /\ UNCHANGED <<base, remoteVars>>

\* Mutant: the effect lease is not renewed after the preflight.
MayDispatch_FenceOnly(w) == OwnsRole(w)

\* Both renewals succeed inside the mutation lane.
MayDispatch(w) == OwnsRole(w) /\ Held(w)

RequestOf(w) == [seq |-> item[w].seq, token |-> item[w].token,
                 plan |-> item[w].plan, edits |-> item[w].edits]

\* renewEffectLease commits, then the prepared plan is sent as it is.
Dispatch(w) ==
    /\ pc[w] = "planned"
    /\ MayDispatch(w)
    /\ IF item[w].plan \in {"write", "stamp"}
       THEN flight' = flight \cup {RequestOf(w)} /\ Keeps(w, "sent")
       ELSE UNCHANGED flight /\ Keeps(w, "answered")
    /\ UNCHANGED <<outboxVars, base, sheet, receipts, landings, edits>>

\* The claim is gone: expired leases are recovered, nothing is sent or read.
\* (The other effects of the request are handed back, see LeftOut.)
RenewalFails(w) ==
    /\ pc[w] \in {"planned", "probing"}
    /\ OwnsRole(w)
    /\ ~Held(w)
    /\ RecoverExpiredLeases(fence[w])
    /\ EndsPass(w)
    /\ UNCHANGED <<base, remoteVars>>

\* The batch reached its byte budget before this effect (hasMore), or the lease
\* of an effect of another stream in the same request could not be renewed.
LeftOut(w) ==
    /\ pc[w] \in {"planned", "probing"}
    /\ MayDispatch(w)
    /\ Requeue(w)

InFlight(w) ==
    \E r \in flight : r.seq = item[w].seq /\ r.token = item[w].token

Landed(w) ==
    \E i \in 1 .. Len(landings) :
        landings[i].seq = item[w].seq /\ landings[i].token = item[w].token

\* The reply of the request, or the verdict of a plan that writes nothing.  No
\* provider here answers "superseded", and no service replans repairs.
Answer(w) ==
    \/ pc[w] = "sent" /\ Landed(w) /\ Persist(w, "applied", "none")
    \/ pc[w] = "answered" /\ item[w].plan = "replay" /\ Persist(w, "applied", "none")
    \/ /\ pc[w] = "answered" /\ item[w].plan = "mismatch"
       /\ \/ Persist(w, "conflict", "none")
          \/ Persist(w, "blocked_candidate", "none")
          \/ Persist(w, "failed", "terminal")    \* a system repair

\* The provider proved that it rejected the batch, answers "schema_error" for
\* this effect, or asks for a retry.
Rejected(w) ==
    /\ pc[w] = "sent" /\ ~InFlight(w) /\ ~Landed(w)
    /\ Persist(w, "failed", "terminal") \/ Persist(w, "failed", "recoverable")

\* No reply: the effect's outcome is read back in the same pass.
NoReply(w) ==
    /\ pc[w] = "sent"
    /\ LateWrites \/ ~InFlight(w)
    /\ Keeps(w, "probing")
    /\ UNCHANGED <<outboxVars, base, remoteVars>>

\* The leases are renewed inside the lane, then the row is read, or is not.
ReadBack(w) ==
    /\ pc[w] = "probing"
    /\ MayDispatch(w)
    /\ \E verdict \in {Evidence(item[w].seq), "unknown"} :
         item' = [item EXCEPT ![w].verdict = verdict]
    /\ Goes(w, "read")
    /\ UNCHANGED <<outboxVars, base, remoteVars>>

\* The uncertainty the listing showed is older than the bound.
TooLong(w) == item[w].unsure /\ row[item[w].seq].unsure = "overdue"

\* deferDeliveryUncertain, within the bound.
Defer(w) ==
    /\ IF Held(w)
       THEN MarkDeliveryUncertain(item[w].seq, item[w].token, fence[w])
       ELSE UNCHANGED outboxVars
    /\ EndsPass(w)
    /\ UNCHANGED <<base, remoteVars>>

\* settleUnknownPostcondition
SettleProbe(w) ==
    /\ pc[w] = "read"
    /\ \/ item[w].verdict = "applied" /\ Persist(w, "applied", "none")
       \/ item[w].verdict = "unapplied" /\ Requeue(w)
       \/ item[w].verdict = "changed" /\ Persist(w, "failed", "terminal")
       \/ item[w].verdict = "unknown" /\ TooLong(w) /\ Persist(w, "failed", "terminal")
       \/ item[w].verdict = "unknown" /\ ~TooLong(w) /\ Defer(w)

\* A request that was sent stays on its way; the role stays with the writer
\* identity of the process until another worker takes it over.
Crash(w) ==
    /\ pc[w] # "idle"
    /\ crashes < MaxCrashes
    /\ crashes' = crashes + 1
    /\ pc' = [pc EXCEPT ![w] = "idle"]
    /\ item' = [item EXCEPT ![w] = NoItem]
    /\ fence' = [fence EXCEPT ![w] = 0]
    /\ UNCHANGED <<outboxVars, base, remoteVars, holder>>

-----------------------------------------------------------------------------
(* Time                                                                    *)

\* The effect lease outlasts every request it was renewed for, because it is
\* renewed inside the lane and longer than the request timeout
\* (validateEffectLeaseHeadroom), unless requests may execute late.
Elapse(s) ==
    /\ \/ LeaseEnds(s) /\ (LateWrites \/ ~\E r \in flight : r.seq = s /\ r.token = row[s].token)
       \/ ComesDue(s)
       \/ GrowsOverdue(s)
    /\ UNCHANGED <<base, remoteVars, workerVars>>

-----------------------------------------------------------------------------
DeliveryInit ==
    /\ OutboxInit
    /\ base = [s \in Seqs |-> 0]
    /\ sheet = 0
    /\ receipts = {}
    /\ flight = {}
    /\ landings = <<>>
    /\ holder = Nobody
    /\ fence = [w \in Workers |-> 0]
    /\ pc = [w \in Workers |-> "idle"]
    /\ item = [w \in Workers |-> NoItem]
    /\ edits = 0
    /\ crashes = 0

WorkerStep(w) ==
    \/ BeginPass(w) \/ Recover(w) \/ List(w) \/ Claim(w)
    \/ Refuse(w) \/ Preflight(w) \/ PreflightFails(w)
    \/ LosesRole(w) \/ RenewalFails(w) \/ LeftOut(w) \/ Dispatch(w)
    \/ Answer(w) \/ Rejected(w) \/ NoReply(w)
    \/ ReadBack(w) \/ SettleProbe(w)

DeliveryNext ==
    \/ \E w \in Workers : WorkerStep(w) \/ Crash(w)
    \/ \E r \in flight : Land(r) \/ Drop(r)
    \/ \E n \in Seqs : Flush(n) \/ \E s \in Seqs : Correct(s, n)
    \/ \E s \in Seqs : Elapse(s)
    \/ \E v \in EditValues : HumanEdit(v)

DeliverySpec == DeliveryInit /\ [][DeliveryNext]_deliveryVars

(***************************************************************************)
(* A worker that runs goes on with its pass and starts the next one, a     *)
(* request executes or gets lost, and a lease that nobody renews ends.     *)
(***************************************************************************)
DeliveryFairness ==
    /\ \A w \in Workers : WF_deliveryVars(WorkerStep(w))
    /\ WF_deliveryVars(\E r \in flight : Land(r) \/ Drop(r))
    /\ \A s \in Seqs : WF_deliveryVars(Elapse(s))

FairDeliverySpec == DeliverySpec /\ DeliveryFairness

-----------------------------------------------------------------------------
(* Properties                                                              *)

\* The places in which a worker holds, or believes to hold, a claim.
Holding == {"claimed", "planned", "sent", "answered", "probing", "read"}

Places == Holding \cup {"idle", "recovering", "adopted", "listing", "listed"}

RemoteTypeOK ==
    /\ base \in [Seqs -> EditValues \cup Nat]
    /\ sheet \in EditValues \cup Nat
    /\ receipts \in SUBSET Seqs
    /\ flight \in SUBSET Request
    /\ landings \in Seq(Request)
    /\ edits \in Nat

\* What a worker's item holds at each place of its pass.
ItemFits(place, i) ==
    /\ place \in Holding \cup {"listed"} => i.seq \in Seqs
    /\ place \in Holding => i.token > 0

WorkerTypeOK ==
    /\ holder \in Workers \cup {Nobody}
    /\ fence \in [Workers -> Nat]
    /\ pc \in [Workers -> Places]
    /\ item \in [Workers -> Item]
    /\ \A w \in Workers : ItemFits(pc[w], item[w])
    /\ crashes \in Nat

\* Workers, requests and the sheet stay in their domains; a worker between
\* its claim and its verdict holds a token.
DeliveryTypeOK == OutboxTypeOK /\ RemoteTypeOK /\ WorkerTypeOK

(***************************************************************************)
(* Every effect reaches the sheet at most once, and effects reach it in    *)
(* stream order, across crashes, takeovers, lost replies, probes, requeues *)
(* and corrections.  Nothing at the provider orders the requests of two    *)
(* processes: it is the renewal of the claim between the preflight and the *)
(* send (renewDispatchEffectLeases) and the receipt that do.               *)
(***************************************************************************)
LandsOnceInOrder ==
    \A i, j \in 1 .. Len(landings) : i < j => landings[i].seq < landings[j].seq

(***************************************************************************)
(* While a prepared plan is in flight, the row is what its preflight read, *)
(* and no receipt of it exists, unless a person edited the row since: no   *)
(* other dispatch, of any worker, comes between (applyEffects.ts: "A stale *)
(* plan can therefore only diverge through an OUT-OF-BAND sheet edit").    *)
(***************************************************************************)
PreparedPlanIsCurrent ==
    \A r \in flight :
        /\ r.seq \notin receipts
        /\ r.edits = edits => sheet = IF r.plan = "write" THEN base[r.seq] ELSE Target(r.seq)

(***************************************************************************)
(* An effect is closed as applied only if its receipt is in the sheet,     *)
(* even when requests execute after their senders gave up: people who type *)
(* the target value themselves, or a reply that never came, never close it *)
(* (classifyCasPostcondition: "stay fail-closed").                         *)
(***************************************************************************)
AppliedHasReceipt == \A s \in Seqs : row[s].status = "applied" => s \in receipts

(***************************************************************************)
(* Whatever a pass still knows when it calls an operation of the outbox,   *)
(* late, twice, or under a fence it adopted, the rows only ever change as  *)
(* EffectOutbox says, so all it promises holds of the workers.             *)
(***************************************************************************)
RefinesOutbox == OutboxSpec

(***************************************************************************)
(* No claim is held forever: its worker settles it, or its lease ends and  *)
(* the owner of the role recovers it, whoever crashed or lost the role in  *)
(* between.                                                                *)
(***************************************************************************)
ClaimsEnd ==
    \A s \in Seqs : row[s].status = "processing" ~> row[s].status # "processing"

(***************************************************************************)
(* What worker.ts says of the read-ahead ("CAS guards make a stale         *)
(* preflight safe (it resolves to a guard mismatch instead of              *)
(* overwriting)"): a write executes only on the state its effect expects.  *)
(***************************************************************************)
WritesOnlyExpected ==
    [][ \A r \in flight \ flight' :
          Len(landings') > Len(landings) /\ r.plan = "write" => sheet = base[r.seq] ]_deliveryVars
=============================================================================
