---------------------------- MODULE EffectOutbox ----------------------------
(***************************************************************************)
(* The durable outbox rows of ONE target stream (sheet_effect_outbox) and  *)
(* every operation of packages/protocol/ikisaki/src/outbox/outbox.ts on    *)
(* them.  Operations of one stream never read another stream's rows.       *)
(*                                                                         *)
(* Every operation is one transaction guarded by a compare-and-set, and    *)
(* anybody who ever held a claim may call it at any later time: a worker   *)
(* that was paused, that lost its lease, or that adopted a newer fence in  *)
(* the middle of a pass.  A claim token is a fresh UUID; the number of the *)
(* attempt it was issued for stands for it.                                *)
(*                                                                         *)
(* Time is abstracted: a lease may end, a delay pass, an uncertainty grow  *)
(* older than its bound at any moment, so what holds here holds for every  *)
(* duration and every clock.                                               *)
(***************************************************************************)
EXTENDS Naturals

CONSTANTS
    MaxSeq,         \* bound: effects of the stream
    MaxAttempts,    \* bound: claims of each effect, by stream sequence
    MaxEpoch        \* bound: epochs of the worker role

ASSUME OutboxAssumption ==
    /\ MaxSeq \in Nat
    /\ MaxAttempts \in [1 .. MaxSeq -> Nat]
    /\ MaxEpoch \in Nat

VARIABLES
    row,            \* the outbox rows, by stream sequence
    epoch,          \* newest epoch of the worker role (FencedRole)
    lapsed,         \* history: claims whose lease ended before their verdict
    replied         \* history: claims whose holder gave a verdict

outboxVars == <<row, epoch, lapsed, replied>>

Seqs == 1 .. MaxSeq
Settled == {"applied", "superseded"}
Unsettled == {"pending", "processing", "delivery_uncertain",
              "blocked_candidate", "conflict", "failed"}
Statuses == Settled \cup Unsettled \cup {"absent"}
\* Verdicts a worker may persist with applyEffectResult.
Verdicts == {"applied", "superseded", "blocked_candidate", "conflict", "failed"}
\* Class of last_error_code; only a `failed` row's is read.
ErrorClasses == {"none", "recoverable", "terminal"}
\* uncertain_since: NULL, or younger or older than the probe bound.
Uncertainties == {"no", "recent", "overdue"}

\* token: claim_token, 0 for NULL; live: lease_until lies in the future;
\* due: next_attempt_at / next_probe_at is NULL or has passed.
Row == [status : Statuses, error : ErrorClasses, attempts : Nat, token : Nat,
        epoch : Nat, live : BOOLEAN, due : BOOLEAN, unsure : Uncertainties]

AbsentRow == [status |-> "absent", error |-> "none", attempts |-> 0, token |-> 0,
              epoch |-> 0, live |-> FALSE, due |-> FALSE, unsure |-> "no"]

NewRow == [AbsentRow EXCEPT !.status = "pending", !.due = TRUE]

-----------------------------------------------------------------------------
(* Guards                                                                  *)

\* FENCE_EXISTS_SQL: a stale epoch commits nothing.
Fenced(e) == e = epoch /\ e > 0

\* Mutant: only the direct predecessor is looked at.
HeadOfStream_Direct(s) == s > 1 => row[s - 1].status \in Settled

\* The durable predecessor guard of every claim and selection.
HeadOfStream(s) == \A p \in Seqs : p < s => row[p].status \in Settled

\* A pending row may be claimed early; an error class is not looked at.
Claimable(s) ==
    /\ row[s].status \in {"pending", "failed", "delivery_uncertain"}
    /\ row[s].status # "pending" => row[s].due
    /\ HeadOfStream(s)

\* SELECT_READY_EFFECTS_SQL: what a pass lists.
Ready(s) ==
    /\ row[s].due
    /\ \/ row[s].status \in {"pending", "delivery_uncertain"}
       \/ row[s].status = "failed" /\ row[s].error = "recoverable"
    /\ HeadOfStream(s)

\* Mutant: the claim token is not compared.
Holds_AnyToken(s, t, e) ==
    /\ Fenced(e)
    /\ row[s].status = "processing"
    /\ row[s].epoch = e
    /\ row[s].live

\* The compare-and-set of every operation of a claim's holder.
Holds(s, t, e) ==
    /\ Fenced(e)
    /\ row[s].status = "processing"
    /\ row[s].token = t
    /\ row[s].epoch = e
    /\ row[s].live

-----------------------------------------------------------------------------
(* Operations                                                              *)

\* The worker role's lease is taken over (FencedRole!Grant).
GrantEpoch ==
    /\ epoch < MaxEpoch
    /\ epoch' = epoch + 1
    /\ UNCHANGED <<row, lapsed, replied>>

\* stream_sequence = latest + 1, read in the appending transaction.
NextSeq(n) ==
    row[n].status = "absent" /\ \A p \in Seqs : p < n => row[p].status # "absent"

\* Mutant: the uncertainty clock is cleared with the other timers.
Claimed_ResetsUncertainty(r, e) ==
    [r EXCEPT !.status = "processing", !.attempts = r.attempts + 1, !.token = r.attempts + 1,
              !.epoch = e, !.live = TRUE, !.due = FALSE, !.unsure = "no"]

\* CLAIM_EFFECT_SQL; uncertain_since is kept.
Claimed(r, e) ==
    [r EXCEPT !.status = "processing", !.attempts = r.attempts + 1, !.token = r.attempts + 1,
              !.epoch = e, !.live = TRUE, !.due = FALSE]

AppendPending(n) ==
    /\ NextSeq(n)
    /\ row' = [row EXCEPT ![n] = NewRow]
    /\ UNCHANGED <<epoch, lapsed, replied>>

ClaimEffect(s, e) ==
    /\ Fenced(e)
    /\ Claimable(s)
    /\ row[s].attempts < MaxAttempts[s]
    /\ row' = [row EXCEPT ![s] = Claimed(@, e)]
    /\ UNCHANGED <<epoch, lapsed, replied>>

\* The claim is still live, so its lease only grows.
RenewEffectLease(s, t, e) ==
    /\ Holds(s, t, e)
    /\ UNCHANGED outboxVars

\* The holder of claim t gave a verdict of any kind.
Reply(s, t) ==
    /\ replied' = [replied EXCEPT ![s] = @ \cup {t}]
    /\ UNCHANGED <<epoch, lapsed>>

\* applyEffectResult: clears the claim, the timers and the uncertainty.
ApplyEffectResult(s, t, e, verdict, class) ==
    /\ Holds(s, t, e)
    /\ row' = [row EXCEPT ![s] =
                 [@ EXCEPT !.status = verdict, !.error = class, !.token = 0,
                           !.live = FALSE, !.due = TRUE, !.unsure = "no"]]
    /\ Reply(s, t)

\* uncertain_since = COALESCE(uncertain_since, ?)
Since(u) == IF u = "no" THEN "recent" ELSE u

Uncertain(r) ==
    [r EXCEPT !.status = "delivery_uncertain", !.token = 0, !.live = FALSE,
              !.unsure = Since(r.unsure)]

MarkDeliveryUncertain(s, t, e) ==
    /\ Holds(s, t, e)
    /\ row' = [row EXCEPT ![s] = Uncertain(@)]
    /\ Reply(s, t)

\* retryClaimedEffect and releaseUnprocessedEffect.
RequeueEffect(s, t, e) ==
    /\ Holds(s, t, e)
    /\ row' = [row EXCEPT ![s] =
                 [@ EXCEPT !.status = "pending", !.token = 0, !.live = FALSE,
                           !.unsure = "no"]]
    /\ Reply(s, t)

\* Mutant: claims of an older fence are left alone.
Lapsed_SameEpoch(s) ==
    row[s].status = "processing" /\ ~row[s].live /\ row[s].epoch = epoch

Lapsed(s) == row[s].status = "processing" /\ ~row[s].live

Recovered(r) ==
    [r EXCEPT !.status = "delivery_uncertain", !.token = 0, !.due = TRUE,
              !.unsure = Since(r.unsure)]

\* recoverExpiredLeases: one statement for every lapsed row.
RecoverExpiredLeases(e) ==
    /\ Fenced(e)
    /\ row' = [s \in Seqs |-> IF Lapsed(s) THEN Recovered(row[s]) ELSE row[s]]
    /\ lapsed' = [s \in Seqs |-> IF Lapsed(s) THEN lapsed[s] \cup {row[s].token} ELSE lapsed[s]]
    /\ UNCHANGED <<epoch, replied>>

\* Mutant: an applied effect may be superseded too.
Supersedable_Any(s) == row[s].status # "absent"

Supersedable(s) == row[s].status \in Unsettled

\* supersedeEffect: no claim is compared, the claim columns stay.
SupersedeEffect(s) ==
    /\ Supersedable(s)
    /\ row' = [row EXCEPT ![s] = [@ EXCEPT !.status = "superseded"]]
    /\ UNCHANGED <<epoch, lapsed, replied>>

\* supersedeAndReplan, and a scanner's append that supersedes a head.
SupersedeAndReplan(s, n) ==
    /\ Supersedable(s)
    /\ NextSeq(n)
    /\ row' = [row EXCEPT ![s] = [@ EXCEPT !.status = "superseded"], ![n] = NewRow]
    /\ UNCHANGED <<epoch, lapsed, replied>>

-----------------------------------------------------------------------------
(* Time                                                                    *)

LeaseEnds(s) ==
    /\ row[s].status = "processing" /\ row[s].live
    /\ row' = [row EXCEPT ![s] = [@ EXCEPT !.live = FALSE]]
    /\ UNCHANGED <<epoch, lapsed, replied>>

ComesDue(s) ==
    /\ row[s].status \in {"pending", "delivery_uncertain"} /\ ~row[s].due
    /\ row' = [row EXCEPT ![s] = [@ EXCEPT !.due = TRUE]]
    /\ UNCHANGED <<epoch, lapsed, replied>>

GrowsOverdue(s) ==
    /\ row[s].unsure = "recent"
    /\ row' = [row EXCEPT ![s] = [@ EXCEPT !.unsure = "overdue"]]
    /\ UNCHANGED <<epoch, lapsed, replied>>

-----------------------------------------------------------------------------
OutboxInit ==
    /\ row = [s \in Seqs |-> AbsentRow]
    /\ epoch = 0
    /\ lapsed = [s \in Seqs |-> {}]
    /\ replied = [s \in Seqs |-> {}]

\* What the holder of claim t of effect s may call, now or much later.
HolderStep(s, t, e) ==
    \/ RenewEffectLease(s, t, e)
    \/ \E verdict \in Verdicts, class \in ErrorClasses :
         /\ class = "none" <=> verdict # "failed"
         /\ ApplyEffectResult(s, t, e, verdict, class)
    \/ MarkDeliveryUncertain(s, t, e)
    \/ RequeueEffect(s, t, e)

OutboxNext ==
    \/ GrantEpoch
    \/ \E e \in 1 .. epoch : RecoverExpiredLeases(e)
    \/ \E s \in Seqs :
         \/ AppendPending(s)
         \/ \E e \in 1 .. epoch : ClaimEffect(s, e)
         \/ \E t \in 1 .. row[s].attempts, e \in 1 .. epoch : HolderStep(s, t, e)
         \/ SupersedeEffect(s)
         \/ \E n \in Seqs : SupersedeAndReplan(s, n)
         \/ LeaseEnds(s)
         \/ ComesDue(s)
         \/ GrowsOverdue(s)

OutboxSpec == OutboxInit /\ [][OutboxNext]_outboxVars

-----------------------------------------------------------------------------
(* Properties                                                              *)

\* Every row stays in its domain, and every claim belongs to an attempt.
OutboxTypeOK ==
    /\ row \in [Seqs -> Row]
    /\ \A s \in Seqs : row[s].token <= row[s].attempts
    /\ epoch \in Nat
    /\ lapsed \in [Seqs -> SUBSET Nat]
    /\ replied \in [Seqs -> SUBSET Nat]

(***************************************************************************)
(* Delivery follows the stream order: nobody has claimed, delivered or     *)
(* failed an effect while an earlier one is still open, whatever was       *)
(* superseded, replanned, recovered or requeued before (the predecessor    *)
(* guard of CLAIM_EFFECT_SQL, which only the claim evaluates).             *)
(***************************************************************************)
InOrder ==
    \A p, s \in Seqs :
        p < s /\ row[p].status \notin Settled
        => row[s].status \in {"absent", "pending", "superseded"}

(***************************************************************************)
(* A claim whose lease lapsed never decides its effect afterwards, not     *)
(* even under an unchanged fence, when the same effect was claimed again:  *)
(* only the newest claim's holder can (token and lease compared by every   *)
(* holder operation of outboxSql.ts).                                      *)
(***************************************************************************)
StaleClaimsAreDead == \A s \in Seqs : lapsed[s] \cap replied[s] = {}

(***************************************************************************)
(* The clock of continuous uncertainty survives probes, crashes and        *)
(* takeovers: it stops only when a claim's holder gives a verdict from     *)
(* evidence, so the 30 s bound of deferDeliveryUncertain (transitions.ts)  *)
(* is a bound on the whole episode.                                        *)
(***************************************************************************)
UncertaintyIsContinuous ==
    [][ \A s \in Seqs :
          row'[s].unsure # row[s].unsure /\ row[s].unsure # "no"
          => \/ row'[s].unsure = "overdue"
             \/ replied'[s] # replied[s] ]_row

\* The outbox rows of a stream implement EffectStream.
Stream == INSTANCE EffectStream WITH
    fate <- [s \in Seqs |->
               IF row[s].status = "absent" THEN "none"
               ELSE IF row[s].status \in Settled THEN row[s].status
               ELSE "open"]

RefinesEffectStream == Stream!Spec
=============================================================================
