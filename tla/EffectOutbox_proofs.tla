------------------------ MODULE EffectOutbox_proofs -------------------------
(***************************************************************************)
(* Theorems about the outbox of one stream, for every number of effects,   *)
(* attempts and epochs.                                                    *)
(***************************************************************************)
EXTENDS EffectOutbox, TLAPS

-----------------------------------------------------------------------------
(* Type correctness                                                        *)

LEMMA FreshRows ==
    /\ AbsentRow \in Row /\ NewRow \in Row
    /\ AbsentRow.status = "absent" /\ AbsentRow.unsure = "no"
    /\ AbsentRow.token = 0 /\ AbsentRow.attempts = 0
    /\ NewRow.status = "pending" /\ NewRow.unsure = "no"
    /\ NewRow.token = 0 /\ NewRow.attempts = 0
BY DEF AbsentRow, NewRow, Row, Statuses, Settled, Unsettled, ErrorClasses, Uncertainties

LEMMA ClaimedFact ==
    ASSUME NEW r \in Row, NEW e \in Nat
    PROVE  /\ Claimed(r, e) \in Row
           /\ Claimed(r, e).status = "processing"
           /\ Claimed(r, e).attempts = r.attempts + 1
           /\ Claimed(r, e).token = r.attempts + 1
           /\ Claimed(r, e).unsure = r.unsure
<1>1. PICK n \in Nat : n = r.attempts + 1
  BY DEF Row
<1>2. Claimed(r, e) = [r EXCEPT !.status = "processing", !.attempts = n, !.token = n,
                                !.epoch = e, !.live = TRUE, !.due = FALSE]
  BY <1>1, Zenon DEF Claimed
<1>3. Claimed(r, e) = [status |-> "processing", error |-> r.error, attempts |-> n,
                       token |-> n, epoch |-> e, live |-> TRUE, due |-> FALSE,
                       unsure |-> r.unsure]
  BY <1>2 DEF Row
<1>4. QED
  BY <1>1, <1>3 DEF Row, Statuses, Unsettled

LEMMA RecoveredFact ==
    ASSUME NEW r \in Row
    PROVE  /\ Recovered(r) \in Row
           /\ Recovered(r).status = "delivery_uncertain"
           /\ Recovered(r).attempts = r.attempts
           /\ Recovered(r).token = 0
           /\ r.unsure # "no" => Recovered(r).unsure = r.unsure
BY DEF Recovered, Since, Row, Statuses, Unsettled, Uncertainties

LEMMA VerdictFact ==
    ASSUME NEW r \in Row, NEW verdict \in Verdicts, NEW class \in ErrorClasses
    PROVE  [r EXCEPT !.status = verdict, !.error = class, !.token = 0,
                     !.live = FALSE, !.due = TRUE, !.unsure = "no"] \in Row
BY DEF Row, Statuses, Verdicts, Settled, Unsettled, Uncertainties

LEMMA UncertainFact ==
    ASSUME NEW r \in Row
    PROVE  /\ Uncertain(r) \in Row
           /\ Uncertain(r).status = "delivery_uncertain"
           /\ Uncertain(r).attempts = r.attempts
           /\ Uncertain(r).token = 0
           /\ r.unsure # "no" => Uncertain(r).unsure = r.unsure
BY DEF Uncertain, Since, Row, Statuses, Unsettled, Uncertainties

LEMMA RequeueFact ==
    ASSUME NEW r \in Row
    PROVE  [r EXCEPT !.status = "pending", !.token = 0, !.live = FALSE,
                     !.unsure = "no"] \in Row
BY DEF Row, Statuses, Unsettled, Uncertainties

LEMMA SupersededFact ==
    ASSUME NEW r \in Row
    PROVE  [r EXCEPT !.status = "superseded"] \in Row
BY DEF Row, Statuses, Settled

LEMMA TimeFact ==
    ASSUME NEW r \in Row
    PROVE  /\ [r EXCEPT !.live = FALSE] \in Row
           /\ [r EXCEPT !.due = TRUE] \in Row
           /\ [r EXCEPT !.unsure = "overdue"] \in Row
BY DEF Row, Uncertainties

\* Every row operation keeps the type; the last conjunct is about one row.
LEMMA RowWritten ==
    ASSUME OutboxTypeOK, NEW s \in Seqs, NEW r \in Row, r.token <= r.attempts,
           row' = [row EXCEPT ![s] = r]
    PROVE  /\ row' \in [Seqs -> Row]
           /\ row'[s] = r
           /\ \A x \in Seqs : x # s => row'[x] = row[x]
           /\ \A x \in Seqs : row'[x].token <= row'[x].attempts
BY DEF OutboxTypeOK

LEMMA ReplyType ==
    ASSUME OutboxTypeOK, NEW s \in Seqs, NEW t \in Nat, Reply(s, t)
    PROVE  /\ replied' \in [Seqs -> SUBSET Nat]
           /\ replied'[s] = replied[s] \cup {t}
           /\ \A x \in Seqs : x # s => replied'[x] = replied[x]
           /\ lapsed' = lapsed
           /\ epoch' = epoch
<1>1. replied[s] \cup {t} \in SUBSET Nat
  BY DEF OutboxTypeOK
<1>2. QED
  BY <1>1 DEF OutboxTypeOK, Reply

\* What a step of a claim's holder does to the rows.
LEMMA HolderFact ==
    ASSUME OutboxTypeOK, NEW s \in Seqs, NEW t \in Nat, NEW e \in Nat,
           HolderStep(s, t, e)
    PROVE  /\ Holds(s, t, e)
           /\ \/ UNCHANGED outboxVars
              \/ /\ Reply(s, t)
                 /\ \E r \in Row :
                      /\ row' = [row EXCEPT ![s] = r]
                      /\ r.status # "absent" /\ r.status # "processing"
                      /\ r.attempts = row[s].attempts
                      /\ r.token = 0
<1>0. row[s] \in Row
  BY DEF OutboxTypeOK
<1>1. CASE RenewEffectLease(s, t, e)
  BY <1>1 DEF RenewEffectLease
<1>2. ASSUME NEW verdict \in Verdicts, NEW class \in ErrorClasses,
             ApplyEffectResult(s, t, e, verdict, class)
      PROVE  /\ Holds(s, t, e)
             /\ Reply(s, t)
             /\ \E r \in Row :
                  /\ row' = [row EXCEPT ![s] = r]
                  /\ r.status # "absent" /\ r.status # "processing"
                  /\ r.attempts = row[s].attempts
                  /\ r.token = 0
  <2>1. PICK r \in Row : r = [row[s] EXCEPT !.status = verdict, !.error = class,
                                !.token = 0, !.live = FALSE, !.due = TRUE, !.unsure = "no"]
    BY <1>0, VerdictFact
  <2>2. r.status = verdict /\ r.attempts = row[s].attempts /\ r.token = 0
    BY <1>0, <2>1 DEF Row
  <2>3. row' = [row EXCEPT ![s] = r]
    BY <1>2, <2>1, Zenon DEF ApplyEffectResult
  <2>4. QED
    BY <1>2, <2>2, <2>3 DEF ApplyEffectResult, Verdicts
<1>3. CASE MarkDeliveryUncertain(s, t, e)
  <2>1. PICK r \in Row : r = Uncertain(row[s])
    BY <1>0, UncertainFact
  <2>2. r.status = "delivery_uncertain" /\ r.attempts = row[s].attempts /\ r.token = 0
    BY <1>0, <2>1, UncertainFact
  <2>3. row' = [row EXCEPT ![s] = r]
    BY <1>3, <2>1, Zenon DEF MarkDeliveryUncertain
  <2>4. QED
    BY <1>3, <2>2, <2>3 DEF MarkDeliveryUncertain
<1>4. CASE RequeueEffect(s, t, e)
  <2>1. PICK r \in Row : r = [row[s] EXCEPT !.status = "pending", !.token = 0,
                                !.live = FALSE, !.unsure = "no"]
    BY <1>0, RequeueFact
  <2>2. r.status = "pending" /\ r.attempts = row[s].attempts /\ r.token = 0
    BY <1>0, <2>1 DEF Row
  <2>3. row' = [row EXCEPT ![s] = r]
    BY <1>4, <2>1, Zenon DEF RequeueEffect
  <2>4. QED
    BY <1>4, <2>2, <2>3 DEF RequeueEffect
<1>5. QED
  BY <1>1, <1>2, <1>3, <1>4 DEF HolderStep

\* A status, an attempt or a claim is not changed by the passing of time.
LEMMA TimeStep ==
    ASSUME OutboxTypeOK, NEW s \in Seqs,
           LeaseEnds(s) \/ ComesDue(s) \/ GrowsOverdue(s)
    PROVE  /\ UNCHANGED <<epoch, lapsed, replied>>
           /\ \E r \in Row :
                /\ row' = [row EXCEPT ![s] = r]
                /\ r.status = row[s].status
                /\ r.attempts = row[s].attempts
                /\ r.token = row[s].token
                /\ r.unsure \in {row[s].unsure, "overdue"}
                /\ r.unsure # row[s].unsure => row[s].unsure = "recent"
<1>0. row[s] \in Row
  BY DEF OutboxTypeOK
<1>1. CASE LeaseEnds(s)
  <2>1. PICK r \in Row : r = [row[s] EXCEPT !.live = FALSE]
    BY <1>0, TimeFact
  <2>2. row' = [row EXCEPT ![s] = r]
    BY <1>1, <2>1, Zenon DEF LeaseEnds
  <2>3. QED
    BY <1>0, <1>1, <2>1, <2>2 DEF LeaseEnds, Row
<1>2. CASE ComesDue(s)
  <2>1. PICK r \in Row : r = [row[s] EXCEPT !.due = TRUE]
    BY <1>0, TimeFact
  <2>2. row' = [row EXCEPT ![s] = r]
    BY <1>2, <2>1, Zenon DEF ComesDue
  <2>3. QED
    BY <1>0, <1>2, <2>1, <2>2 DEF ComesDue, Row
<1>3. CASE GrowsOverdue(s)
  <2>1. PICK r \in Row : r = [row[s] EXCEPT !.unsure = "overdue"]
    BY <1>0, TimeFact
  <2>2. row' = [row EXCEPT ![s] = r]
    BY <1>3, <2>1, Zenon DEF GrowsOverdue
  <2>3. QED
    BY <1>0, <1>3, <2>1, <2>2 DEF GrowsOverdue, Row
<1>4. QED
  BY <1>1, <1>2, <1>3

LEMMA ClaimStep ==
    ASSUME OutboxTypeOK, NEW s \in Seqs, NEW e \in Nat, ClaimEffect(s, e)
    PROVE  /\ UNCHANGED <<epoch, lapsed, replied>>
           /\ HeadOfStream(s)
           /\ row[s].status \in {"pending", "failed", "delivery_uncertain"}
           /\ \E r \in Row :
                /\ row' = [row EXCEPT ![s] = r]
                /\ r.status = "processing"
                /\ r.attempts = row[s].attempts + 1
                /\ r.token = row[s].attempts + 1
                /\ r.unsure = row[s].unsure
<1>1. row[s] \in Row
  BY DEF OutboxTypeOK
<1>2. PICK r \in Row : r = Claimed(row[s], e)
  BY <1>1, ClaimedFact
<1>3. row' = [row EXCEPT ![s] = r]
  BY <1>2, Zenon DEF ClaimEffect
<1>4. QED
  BY <1>1, <1>2, <1>3, ClaimedFact DEF ClaimEffect, Claimable

LEMMA SupersedeStep ==
    ASSUME OutboxTypeOK, NEW s \in Seqs
    PROVE  \E r \in Row :
             /\ r = [row[s] EXCEPT !.status = "superseded"]
             /\ r.status = "superseded"
             /\ r.attempts = row[s].attempts
             /\ r.token = row[s].token
             /\ r.unsure = row[s].unsure
<1>1. row[s] \in Row
  BY DEF OutboxTypeOK
<1>2. QED
  BY <1>1, SupersededFact DEF Row

LEMMA RecoverFact ==
    ASSUME OutboxTypeOK, NEW e \in Nat, RecoverExpiredLeases(e)
    PROVE  /\ row' \in [Seqs -> Row]
           /\ lapsed' \in [Seqs -> SUBSET Nat]
           /\ UNCHANGED <<epoch, replied>>
           /\ \A s \in Seqs :
                \/ row'[s] = row[s] /\ lapsed'[s] = lapsed[s]
                \/ /\ row[s].status = "processing"
                   /\ row'[s] = Recovered(row[s])
                   /\ lapsed'[s] = lapsed[s] \cup {row[s].token}
<1>1. \A s \in Seqs : row[s] \in Row /\ row[s].token \in Nat /\ Recovered(row[s]) \in Row
  BY RecoveredFact DEF OutboxTypeOK, Row
<1>2. \A s \in Seqs : lapsed[s] \cup {row[s].token} \in SUBSET Nat
  BY <1>1 DEF OutboxTypeOK
<1>3. QED
  BY <1>1, <1>2 DEF OutboxTypeOK, RecoverExpiredLeases, Lapsed

LEMMA ReplanFact ==
    ASSUME OutboxTypeOK, NEW s \in Seqs, NEW n \in Seqs, SupersedeAndReplan(s, n)
    PROVE  /\ s # n
           /\ row' \in [Seqs -> Row]
           /\ row'[n] = NewRow
           /\ row'[s] = [row[s] EXCEPT !.status = "superseded"]
           /\ \A x \in Seqs : x # s /\ x # n => row'[x] = row[x]
<1>1. s # n
  BY DEF SupersedeAndReplan, Supersedable, NextSeq, Unsettled
<1>2. PICK r \in Row : r = [row[s] EXCEPT !.status = "superseded"]
  BY SupersedeStep
<1>3. row' = [row EXCEPT ![s] = r, ![n] = NewRow]
  BY <1>2, Zenon DEF SupersedeAndReplan
<1>4. PICK mid : mid = [row EXCEPT ![s] = r]
  OBVIOUS
<1>5. mid \in [Seqs -> Row] /\ row' = [mid EXCEPT ![n] = NewRow]
  BY <1>3, <1>4 DEF OutboxTypeOK
<1>6. QED
  BY <1>1, <1>2, <1>4, <1>5, FreshRows DEF OutboxTypeOK

LEMMA TypeStep ==
    ASSUME OutboxTypeOK, [OutboxNext]_outboxVars
    PROVE  OutboxTypeOK'
<1>0. \A e \in 1 .. epoch : e \in Nat
  BY DEF OutboxTypeOK
<1>00. \A s \in Seqs : row[s] \in Row /\ row[s].token \in Nat /\ row[s].attempts \in Nat
  BY DEF OutboxTypeOK, Row
<1>1. CASE GrantEpoch
  BY <1>1 DEF OutboxTypeOK, GrantEpoch
<1>2. ASSUME NEW e \in 1 .. epoch, RecoverExpiredLeases(e)
      PROVE  OutboxTypeOK'
  BY <1>0, <1>00, <1>2, RecoverFact, RecoveredFact DEF OutboxTypeOK
<1>3. ASSUME NEW n \in Seqs, AppendPending(n)
      PROVE  OutboxTypeOK'
  <2>1. QED
    BY <1>3, FreshRows, RowWritten DEF OutboxTypeOK, AppendPending
<1>4. ASSUME NEW s \in Seqs, NEW e \in 1 .. epoch, ClaimEffect(s, e)
      PROVE  OutboxTypeOK'
  <2>1. PICK r \in Row : row' = [row EXCEPT ![s] = r] /\ r.token = r.attempts
    BY <1>0, <1>4, ClaimStep
  <2>2. r.token <= r.attempts
    BY <2>1 DEF Row
  <2>3. QED
    BY <1>0, <1>4, <2>1, <2>2, RowWritten, ClaimStep DEF OutboxTypeOK
<1>5. ASSUME NEW s \in Seqs, NEW t \in 1 .. row[s].attempts, NEW e \in 1 .. epoch,
             HolderStep(s, t, e)
      PROVE  OutboxTypeOK'
  <2>1. t \in Nat
    BY <1>00
  <2>2. CASE UNCHANGED outboxVars
    BY <2>2 DEF OutboxTypeOK, outboxVars
  <2>3. ASSUME Reply(s, t), NEW r \in Row, row' = [row EXCEPT ![s] = r], r.token = 0
        PROVE  OutboxTypeOK'
    <3>1. r.token <= r.attempts
      BY <2>3 DEF Row
    <3>2. QED
      BY <2>1, <2>3, <3>1, RowWritten, ReplyType DEF OutboxTypeOK
  <2>4. QED
    BY <1>0, <1>5, <2>1, <2>2, <2>3, HolderFact
<1>6. ASSUME NEW s \in Seqs, SupersedeEffect(s)
      PROVE  OutboxTypeOK'
  <2>1. PICK r \in Row : /\ r = [row[s] EXCEPT !.status = "superseded"]
                         /\ r.attempts = row[s].attempts /\ r.token = row[s].token
    BY SupersedeStep
  <2>2. row' = [row EXCEPT ![s] = r]
    BY <1>6, <2>1, Zenon DEF SupersedeEffect
  <2>3. QED
    BY <1>6, <2>1, <2>2, RowWritten DEF OutboxTypeOK, SupersedeEffect
<1>7. ASSUME NEW s \in Seqs, NEW n \in Seqs, SupersedeAndReplan(s, n)
      PROVE  OutboxTypeOK'
  <2>1. row'[s].token = row[s].token /\ row'[s].attempts = row[s].attempts
    BY <1>7, SupersedeStep, ReplanFact
  <2>2. row'[n].token = 0 /\ row'[n].attempts = 0
    BY <1>7, ReplanFact, FreshRows
  <2>3. \A x \in Seqs : row'[x].token <= row'[x].attempts
    <3>1. row[s].token <= row[s].attempts
      BY DEF OutboxTypeOK
    <3>2. \A x \in Seqs : x # s /\ x # n => row'[x].token <= row'[x].attempts
      BY <1>7, ReplanFact DEF OutboxTypeOK
    <3>3. QED
      BY <2>1, <2>2, <3>1, <3>2
  <2>4. QED
    BY <1>7, <2>3, ReplanFact DEF OutboxTypeOK, SupersedeAndReplan
<1>8. ASSUME NEW s \in Seqs, LeaseEnds(s) \/ ComesDue(s) \/ GrowsOverdue(s)
      PROVE  OutboxTypeOK'
  BY <1>8, TimeStep, RowWritten DEF OutboxTypeOK
<1>9. CASE UNCHANGED outboxVars
  BY <1>9 DEF OutboxTypeOK, outboxVars
<1>10. QED
  BY <1>1, <1>2, <1>3, <1>4, <1>5, <1>6, <1>7, <1>8, <1>9 DEF OutboxNext

LEMMA TypeInit == OutboxInit => OutboxTypeOK
BY FreshRows DEF OutboxInit, OutboxTypeOK, AbsentRow

\* The rows stay well typed and every claim token belongs to an attempt.
THEOREM OutboxTypeCorrect == OutboxSpec => []OutboxTypeOK
<1>1. OutboxTypeOK /\ [OutboxNext]_outboxVars => OutboxTypeOK'
  BY TypeStep
<1>2. QED
  BY <1>1, TypeInit, PTL DEF OutboxSpec

-----------------------------------------------------------------------------
(* Stream order                                                            *)

\* Absent rows are the end of the stream.
NoGaps ==
    \A p, s \in Seqs : p < s /\ row[p].status = "absent" => row[s].status = "absent"

OrderInv == OutboxTypeOK /\ NoGaps /\ InOrder

\* An effect that is claimed is the head of its stream.
LEMMA ClaimedIsHead ==
    ASSUME InOrder, NEW s \in Seqs,
           row[s].status \notin {"absent", "pending", "superseded"}
    PROVE  HeadOfStream(s)
BY DEF InOrder, HeadOfStream

LEMMA StatusKept ==
    ASSUME OrderInv, \A x \in Seqs : row'[x].status = row[x].status
    PROVE  NoGaps' /\ InOrder'
BY DEF OrderInv, NoGaps, InOrder

\* One open effect changes its status without leaving the order.
LEMMA OrderKept ==
    ASSUME OrderInv, NEW s \in Seqs, NEW r \in Row, row' = [row EXCEPT ![s] = r],
           row[s].status \notin Settled \cup {"absent"},
           r.status # "absent",
           r.status = "superseded" \/ HeadOfStream(s)
    PROVE  NoGaps' /\ InOrder'
<1>1. row'[s] = r /\ \A x \in Seqs : x # s => row'[x] = row[x]
  BY DEF OrderInv, OutboxTypeOK
<1>2. NoGaps'
  BY <1>1 DEF OrderInv, NoGaps
<1>3. ASSUME NEW p \in Seqs, NEW x \in Seqs, p < x, row'[p].status \notin Settled
      PROVE  row'[x].status \in {"absent", "pending", "superseded"}
  <2>1. CASE p = s
    BY <1>1, <1>3, <2>1 DEF OrderInv, InOrder, Settled, Seqs
  <2>2. CASE x = s
    BY <1>1, <1>3, <2>2 DEF HeadOfStream, Seqs
  <2>3. CASE p # s /\ x # s
    BY <1>1, <1>3, <2>3 DEF OrderInv, InOrder
  <2>4. QED
    BY <2>1, <2>2, <2>3
<1>4. QED
  BY <1>2, <1>3 DEF InOrder

\* The row that NextSeq names becomes the last one of the stream.
LEMMA AppendKeepsOrder ==
    ASSUME OrderInv, NEW n \in Seqs, NextSeq(n),
           row' \in [Seqs -> Row], row'[n] = NewRow,
           \A x \in Seqs : x # n => row'[x].status = row[x].status
    PROVE  NoGaps' /\ InOrder'
<1>1. row'[n].status = "pending"
  BY FreshRows
<1>2. NoGaps'
  BY <1>1 DEF OrderInv, NoGaps, NextSeq, Seqs
<1>3. InOrder'
  BY <1>1 DEF OrderInv, NoGaps, InOrder, NextSeq, Settled, Seqs
<1>4. QED
  BY <1>2, <1>3

LEMMA OrderStep ==
    ASSUME OrderInv, [OutboxNext]_outboxVars
    PROVE  OrderInv'
<1>0. OutboxTypeOK /\ OutboxTypeOK' /\ (\A e \in 1 .. epoch : e \in Nat)
  BY TypeStep DEF OrderInv, OutboxTypeOK
<1> SUFFICES NoGaps' /\ InOrder'
  BY <1>0 DEF OrderInv
<1>1. CASE GrantEpoch
  BY <1>0, <1>1, StatusKept DEF OrderInv, GrantEpoch
<1>2. ASSUME NEW e \in 1 .. epoch, RecoverExpiredLeases(e)
      PROVE  NoGaps' /\ InOrder'
  <2>1. \A x \in Seqs :
          \/ row'[x].status = row[x].status
          \/ row[x].status = "processing" /\ row'[x].status = "delivery_uncertain"
    BY <1>0, <1>2, RecoverFact, RecoveredFact DEF OutboxTypeOK
  <2>2. QED
    BY <2>1 DEF OrderInv, NoGaps, InOrder, Settled
<1>3. ASSUME NEW n \in Seqs, AppendPending(n)
      PROVE  NoGaps' /\ InOrder'
  BY <1>0, <1>3, AppendKeepsOrder DEF OutboxTypeOK, AppendPending
<1>4. ASSUME NEW s \in Seqs, NEW e \in 1 .. epoch, ClaimEffect(s, e)
      PROVE  NoGaps' /\ InOrder'
  BY <1>0, <1>4, ClaimStep, OrderKept DEF Settled
<1>5. ASSUME NEW s \in Seqs, NEW t \in 1 .. row[s].attempts, NEW e \in 1 .. epoch,
             HolderStep(s, t, e)
      PROVE  NoGaps' /\ InOrder'
  <2>1. t \in Nat
    BY <1>0 DEF OutboxTypeOK, Row
  <2>2. row[s].status = "processing" /\ HeadOfStream(s)
    BY <1>0, <1>5, <2>1, HolderFact, ClaimedIsHead DEF OrderInv, Holds
  <2>3. QED
    BY <1>0, <1>5, <2>1, <2>2, HolderFact, OrderKept, StatusKept DEF Settled, outboxVars
<1>6. ASSUME NEW s \in Seqs, SupersedeEffect(s)
      PROVE  NoGaps' /\ InOrder'
  <2>1. PICK r \in Row : r = [row[s] EXCEPT !.status = "superseded"] /\ r.status = "superseded"
    BY <1>0, SupersedeStep
  <2>2. row' = [row EXCEPT ![s] = r]
    BY <1>6, <2>1, Zenon DEF SupersedeEffect
  <2>3. QED
    BY <1>6, <2>1, <2>2, OrderKept DEF SupersedeEffect, Supersedable, Unsettled, Settled
<1>7. ASSUME NEW s \in Seqs, NEW n \in Seqs, SupersedeAndReplan(s, n)
      PROVE  NoGaps' /\ InOrder'
  <2>1. row'[s].status = "superseded" /\ row'[n].status = "pending"
    BY <1>0, <1>7, SupersedeStep, ReplanFact, FreshRows
  <2>2. \A x \in Seqs : x # s /\ x # n => row'[x] = row[x]
    BY <1>0, <1>7, ReplanFact
  <2>3. row[s].status \in Unsettled /\ NextSeq(n)
    BY <1>7 DEF SupersedeAndReplan, Supersedable
  <2>4. NoGaps'
    BY <2>1, <2>2, <2>3 DEF OrderInv, NoGaps, NextSeq, Unsettled, Seqs
  <2>5. InOrder'
    BY <2>1, <2>2, <2>3 DEF OrderInv, NoGaps, InOrder, NextSeq, Settled, Unsettled, Seqs
  <2>6. QED
    BY <2>4, <2>5
<1>8. ASSUME NEW s \in Seqs, LeaseEnds(s) \/ ComesDue(s) \/ GrowsOverdue(s)
      PROVE  NoGaps' /\ InOrder'
  BY <1>0, <1>8, TimeStep, StatusKept DEF OutboxTypeOK
<1>9. CASE UNCHANGED outboxVars
  BY <1>9, StatusKept DEF outboxVars
<1>10. QED
  BY <1>1, <1>2, <1>3, <1>4, <1>5, <1>6, <1>7, <1>8, <1>9 DEF OutboxNext

LEMMA OrderInit == OutboxInit => OrderInv
BY TypeInit DEF OutboxInit, OrderInv, NoGaps, InOrder, AbsentRow

\* Nobody claims or closes an effect while an earlier one is open.
THEOREM DeliveryIsInOrder == OutboxSpec => []InOrder
<1>1. OrderInv /\ [OutboxNext]_outboxVars => OrderInv'
  BY OrderStep
<1>2. OrderInv => InOrder
  BY DEF OrderInv
<1>3. QED
  BY <1>1, <1>2, OrderInit, PTL DEF OutboxSpec

-----------------------------------------------------------------------------
(* Claims                                                                  *)

\* Every decided claim is an older attempt than the one in progress.
ClaimOK(r, gone, said) ==
    /\ gone \cap said = {}
    /\ \A t \in gone \cup said : t <= r.attempts
    /\ r.status = "processing" => r.token = r.attempts /\ r.token \notin gone \cup said
    /\ r.status = "absent" => gone = {} /\ said = {} /\ r.unsure = "no"

ClaimsInv == OutboxTypeOK /\ \A s \in Seqs : ClaimOK(row[s], lapsed[s], replied[s])

LEMMA ClaimGrows ==
    ASSUME NEW r \in Row, NEW n \in Row, NEW gone \in SUBSET Nat, NEW said \in SUBSET Nat,
           ClaimOK(r, gone, said),
           n.attempts = r.attempts + 1, n.token = r.attempts + 1, n.status = "processing"
    PROVE  ClaimOK(n, gone, said)
<1>1. r.attempts \in Nat
  BY DEF Row
<1>2. QED
  BY <1>1 DEF ClaimOK

LEMMA ClaimReplies ==
    ASSUME NEW r \in Row, NEW n \in Row, NEW gone \in SUBSET Nat, NEW said \in SUBSET Nat,
           ClaimOK(r, gone, said), r.status = "processing",
           n.attempts = r.attempts, n.status \notin {"processing", "absent"}
    PROVE  /\ ClaimOK(n, gone, said \cup {r.token})
           /\ ClaimOK(n, gone \cup {r.token}, said)
           /\ r.token \notin said
<1>1. r.attempts \in Nat /\ r.token = r.attempts /\ r.token \notin gone \cup said
  BY DEF Row, ClaimOK
<1>2. \A t \in gone \cup said \cup {r.token} : t <= n.attempts
  BY <1>1 DEF ClaimOK
<1>3. gone \cap (said \cup {r.token}) = {} /\ (gone \cup {r.token}) \cap said = {}
  BY <1>1, Zenon DEF ClaimOK
<1>4. QED
  BY <1>1, <1>2, <1>3 DEF ClaimOK

LEMMA ClaimKept ==
    ASSUME NEW r \in Row, NEW n \in Row, NEW gone \in SUBSET Nat, NEW said \in SUBSET Nat,
           ClaimOK(r, gone, said), n.attempts = r.attempts, n.token = r.token,
           \/ n.status = r.status /\ (r.status = "absent" => n.unsure = "no")
           \/ n.status = "superseded"
    PROVE  ClaimOK(n, gone, said)
BY DEF ClaimOK

LEMMA ClaimFresh ==
    ASSUME NEW r \in Row, NEW gone, NEW said, ClaimOK(r, gone, said), r.status = "absent"
    PROVE  ClaimOK(NewRow, gone, said)
BY FreshRows DEF ClaimOK

\* One written row, with the histories of that row.
LEMMA OneRowClaims ==
    ASSUME ClaimsInv, OutboxTypeOK', NEW s \in Seqs,
           ClaimOK(row'[s], lapsed'[s], replied'[s]),
           \A x \in Seqs : x # s => /\ row'[x] = row[x]
                                    /\ lapsed'[x] = lapsed[x]
                                    /\ replied'[x] = replied[x]
    PROVE  ClaimsInv'
BY DEF ClaimsInv

LEMMA ClaimsStep ==
    ASSUME ClaimsInv, [OutboxNext]_outboxVars
    PROVE  ClaimsInv'
<1>0. OutboxTypeOK /\ OutboxTypeOK' /\ (\A e \in 1 .. epoch : e \in Nat)
  BY TypeStep DEF ClaimsInv, OutboxTypeOK
<1>00. \A s \in Seqs : /\ row[s] \in Row /\ row'[s] \in Row
                       /\ lapsed[s] \in SUBSET Nat /\ replied[s] \in SUBSET Nat
                       /\ ClaimOK(row[s], lapsed[s], replied[s])
  BY <1>0 DEF ClaimsInv, OutboxTypeOK
<1>1. CASE GrantEpoch
  BY <1>0, <1>1 DEF ClaimsInv, GrantEpoch
<1>2. ASSUME NEW e \in 1 .. epoch, RecoverExpiredLeases(e)
      PROVE  ClaimsInv'
  <2>1. ASSUME NEW s \in Seqs
        PROVE  ClaimOK(row'[s], lapsed'[s], replied[s])
    <3>1. CASE row'[s] = row[s] /\ lapsed'[s] = lapsed[s]
      BY <1>00, <3>1
    <3>2. CASE /\ row[s].status = "processing"
               /\ row'[s] = Recovered(row[s])
               /\ lapsed'[s] = lapsed[s] \cup {row[s].token}
      <4>1. /\ Recovered(row[s]).attempts = row[s].attempts
            /\ Recovered(row[s]).status \notin {"processing", "absent"}
            /\ Recovered(row[s]) \in Row
        BY <1>00, RecoveredFact
      <4>2. ClaimOK(Recovered(row[s]), lapsed[s] \cup {row[s].token}, replied[s])
        BY <1>00, <3>2, <4>1, ClaimReplies
      <4>3. QED
        BY <3>2, <4>2, Zenon
    <3>3. \/ row'[s] = row[s] /\ lapsed'[s] = lapsed[s]
          \/ /\ row[s].status = "processing"
             /\ row'[s] = Recovered(row[s])
             /\ lapsed'[s] = lapsed[s] \cup {row[s].token}
      BY <1>0, <1>2, RecoverFact
    <3>4. QED
      BY <3>1, <3>2, <3>3
  <2>2. QED
    BY <1>0, <1>2, <2>1, RecoverFact DEF ClaimsInv
<1>3. ASSUME NEW n \in Seqs, AppendPending(n)
      PROVE  ClaimsInv'
  <2>1. row'[n] = NewRow /\ \A x \in Seqs : x # n => row'[x] = row[x]
    BY <1>0, <1>3 DEF OutboxTypeOK, AppendPending
  <2>2. ClaimOK(NewRow, lapsed[n], replied[n])
    BY <1>00, <1>3, ClaimFresh DEF AppendPending, NextSeq
  <2>3. QED
    BY <1>0, <1>3, <2>1, <2>2, OneRowClaims DEF AppendPending
<1>4. ASSUME NEW s \in Seqs, NEW e \in 1 .. epoch, ClaimEffect(s, e)
      PROVE  ClaimsInv'
  <2>1. PICK r \in Row : /\ row' = [row EXCEPT ![s] = r]
                         /\ r.status = "processing"
                         /\ r.attempts = row[s].attempts + 1
                         /\ r.token = row[s].attempts + 1
    BY <1>0, <1>4, ClaimStep
  <2>2. row'[s] = r /\ \A x \in Seqs : x # s => row'[x] = row[x]
    BY <1>0, <2>1 DEF OutboxTypeOK
  <2>3. ClaimOK(r, lapsed[s], replied[s])
    BY <1>00, <2>1, ClaimGrows
  <2>4. QED
    BY <1>0, <1>4, <2>2, <2>3, OneRowClaims, ClaimStep
<1>5. ASSUME NEW s \in Seqs, NEW t \in 1 .. row[s].attempts, NEW e \in 1 .. epoch,
             HolderStep(s, t, e)
      PROVE  ClaimsInv'
  <2>1. t \in Nat
    BY <1>0 DEF OutboxTypeOK, Row
  <2>2. row[s].status = "processing" /\ row[s].token = t
    BY <1>0, <1>5, <2>1, HolderFact DEF Holds
  <2>3. CASE UNCHANGED outboxVars
    BY <1>0, <2>3 DEF ClaimsInv, outboxVars
  <2>4. ASSUME Reply(s, t), NEW r \in Row, row' = [row EXCEPT ![s] = r],
               r.status # "absent", r.status # "processing", r.attempts = row[s].attempts
        PROVE  ClaimsInv'
    <3>1. row'[s] = r /\ \A x \in Seqs : x # s => row'[x] = row[x]
      BY <1>0, <2>4 DEF OutboxTypeOK
    <3>2. ClaimOK(r, lapsed[s], replied[s] \cup {t})
      BY <1>00, <2>2, <2>4, ClaimReplies
    <3>3. QED
      BY <1>0, <2>1, <2>4, <3>1, <3>2, ReplyType, OneRowClaims
  <2>5. QED
    BY <1>0, <1>5, <2>1, <2>3, <2>4, HolderFact
<1>6. ASSUME NEW s \in Seqs, SupersedeEffect(s)
      PROVE  ClaimsInv'
  <2>1. PICK r \in Row : /\ r = [row[s] EXCEPT !.status = "superseded"]
                         /\ r.status = "superseded"
                         /\ r.attempts = row[s].attempts /\ r.token = row[s].token
    BY <1>0, SupersedeStep
  <2>2. row' = [row EXCEPT ![s] = r]
    BY <1>6, <2>1, Zenon DEF SupersedeEffect
  <2>3. row'[s] = r /\ \A x \in Seqs : x # s => row'[x] = row[x]
    BY <1>0, <2>2 DEF OutboxTypeOK
  <2>4. ClaimOK(r, lapsed[s], replied[s])
    BY <1>00, <2>1, ClaimKept
  <2>5. QED
    BY <1>0, <1>6, <2>3, <2>4, OneRowClaims DEF SupersedeEffect
<1>7. ASSUME NEW s \in Seqs, NEW n \in Seqs, SupersedeAndReplan(s, n)
      PROVE  ClaimsInv'
  <2>1. /\ row'[s].attempts = row[s].attempts /\ row'[s].token = row[s].token
        /\ row'[s].status = "superseded"
    BY <1>0, <1>7, SupersedeStep, ReplanFact
  <2>2. ClaimOK(row'[s], lapsed[s], replied[s])
    BY <1>00, <2>1, ClaimKept
  <2>3. ClaimOK(row'[n], lapsed[n], replied[n])
    BY <1>0, <1>00, <1>7, ClaimFresh, ReplanFact DEF SupersedeAndReplan, NextSeq
  <2>4. QED
    BY <1>0, <1>00, <1>7, <2>2, <2>3, ReplanFact DEF ClaimsInv, SupersedeAndReplan
<1>8. ASSUME NEW s \in Seqs, LeaseEnds(s) \/ ComesDue(s) \/ GrowsOverdue(s)
      PROVE  ClaimsInv'
  <2>1. PICK r \in Row : /\ row' = [row EXCEPT ![s] = r]
                         /\ r.status = row[s].status /\ r.attempts = row[s].attempts
                         /\ r.token = row[s].token
                         /\ r.unsure # row[s].unsure => row[s].unsure = "recent"
    BY <1>0, <1>8, TimeStep
  <2>2. row'[s] = r /\ \A x \in Seqs : x # s => row'[x] = row[x]
    BY <1>0, <2>1 DEF OutboxTypeOK
  <2>3. r.status = "absent" => r.unsure = "no"
    BY <1>00, <2>1 DEF ClaimOK
  <2>4. ClaimOK(r, lapsed[s], replied[s])
    BY <1>00, <2>1, <2>3, ClaimKept
  <2>5. QED
    BY <1>0, <1>8, <2>2, <2>4, OneRowClaims, TimeStep
<1>9. CASE UNCHANGED outboxVars
  BY <1>0, <1>9 DEF ClaimsInv, outboxVars
<1>10. QED
  BY <1>1, <1>2, <1>3, <1>4, <1>5, <1>6, <1>7, <1>8, <1>9 DEF OutboxNext

LEMMA ClaimsInit == OutboxInit => ClaimsInv
BY TypeInit, FreshRows DEF OutboxInit, ClaimsInv, ClaimOK

\* A claim that lapsed never decides its effect afterwards.
THEOREM LapsedClaimsAreDead == OutboxSpec => []StaleClaimsAreDead
<1>1. ClaimsInv /\ [OutboxNext]_outboxVars => ClaimsInv'
  BY ClaimsStep
<1>2. ClaimsInv => StaleClaimsAreDead
  BY DEF ClaimsInv, ClaimOK, StaleClaimsAreDead
<1>3. QED
  BY <1>1, <1>2, ClaimsInit, PTL DEF OutboxSpec

-----------------------------------------------------------------------------
(* Uncertainty                                                             *)

LEMMA UncertaintyStep ==
    ASSUME ClaimsInv, [OutboxNext]_outboxVars, NEW s \in Seqs,
           row'[s].unsure # row[s].unsure, row[s].unsure # "no"
    PROVE  row'[s].unsure = "overdue" \/ replied'[s] # replied[s]
<1>0. OutboxTypeOK /\ (\A e \in 1 .. epoch : e \in Nat) /\ row[s] \in Row
  BY DEF ClaimsInv, OutboxTypeOK
<1>1. CASE GrantEpoch
  BY <1>1 DEF GrantEpoch
<1>2. ASSUME NEW e \in 1 .. epoch, RecoverExpiredLeases(e)
      PROVE  FALSE
  <2>1. row'[s] = row[s] \/ row'[s] = Recovered(row[s])
    BY <1>0, <1>2, RecoverFact
  <2>2. QED
    BY <1>0, <2>1, RecoveredFact
<1>3. ASSUME NEW n \in Seqs, AppendPending(n)
      PROVE  FALSE
  <2>1. s # n => row'[s] = row[s]
    BY <1>0, <1>3 DEF OutboxTypeOK, AppendPending
  <2>2. row[n].unsure = "no"
    BY <1>3 DEF ClaimsInv, ClaimOK, AppendPending, NextSeq
  <2>3. QED
    BY <2>1, <2>2
<1>4. ASSUME NEW x \in Seqs, NEW e \in 1 .. epoch, ClaimEffect(x, e)
      PROVE  FALSE
  <2>1. PICK r \in Row : row' = [row EXCEPT ![x] = r] /\ r.unsure = row[x].unsure
    BY <1>0, <1>4, ClaimStep
  <2>2. QED
    BY <1>0, <2>1 DEF OutboxTypeOK
<1>5. ASSUME NEW x \in Seqs, NEW t \in 1 .. row[x].attempts, NEW e \in 1 .. epoch,
             HolderStep(x, t, e)
      PROVE  replied'[s] # replied[s]
  <2>1. t \in Nat
    BY <1>0 DEF OutboxTypeOK, Row
  <2>2. t \notin replied[x]
    BY <1>0, <1>5, <2>1, HolderFact DEF ClaimsInv, ClaimOK, Holds
  <2>3. PICK r \in Row : row' = [row EXCEPT ![x] = r] /\ Reply(x, t)
    BY <1>0, <1>5, <2>1, HolderFact DEF outboxVars
  <2>4. s = x
    BY <1>0, <2>3 DEF OutboxTypeOK
  <2>5. QED
    BY <1>0, <2>1, <2>2, <2>3, <2>4, ReplyType
<1>6. ASSUME NEW x \in Seqs, SupersedeEffect(x)
      PROVE  FALSE
  <2>1. PICK r \in Row : /\ r = [row[x] EXCEPT !.status = "superseded"]
                         /\ r.unsure = row[x].unsure
    BY <1>0, SupersedeStep
  <2>2. row' = [row EXCEPT ![x] = r]
    BY <1>6, <2>1, Zenon DEF SupersedeEffect
  <2>3. QED
    BY <1>0, <2>1, <2>2 DEF OutboxTypeOK
<1>7. ASSUME NEW x \in Seqs, NEW n \in Seqs, SupersedeAndReplan(x, n)
      PROVE  FALSE
  <2>1. row'[x].unsure = row[x].unsure
    BY <1>0, <1>7, SupersedeStep, ReplanFact
  <2>2. row[n].unsure = "no"
    BY <1>7 DEF ClaimsInv, ClaimOK, SupersedeAndReplan, NextSeq
  <2>3. \A y \in Seqs : y # x /\ y # n => row'[y] = row[y]
    BY <1>0, <1>7, ReplanFact
  <2>4. QED
    BY <2>1, <2>2, <2>3
<1>8. ASSUME NEW x \in Seqs, LeaseEnds(x) \/ ComesDue(x) \/ GrowsOverdue(x)
      PROVE  row'[s].unsure = "overdue"
  <2>1. PICK r \in Row : /\ row' = [row EXCEPT ![x] = r]
                         /\ r.unsure \in {row[x].unsure, "overdue"}
    BY <1>0, <1>8, TimeStep
  <2>2. QED
    BY <1>0, <2>1 DEF OutboxTypeOK
<1>9. CASE UNCHANGED outboxVars
  BY <1>9 DEF outboxVars
<1>10. QED
  BY <1>1, <1>2, <1>3, <1>4, <1>5, <1>6, <1>7, <1>8, <1>9 DEF OutboxNext

ClockKept ==
    \A s \in Seqs :
        row'[s].unsure # row[s].unsure /\ row[s].unsure # "no"
        => \/ row'[s].unsure = "overdue"
           \/ replied'[s] # replied[s]

\* Probes, lapses and claims never restart the clock of uncertainty.
THEOREM UncertaintyClock == OutboxSpec => UncertaintyIsContinuous
<1>1. ClaimsInv /\ [OutboxNext]_outboxVars => ClaimsInv'
  BY ClaimsStep
<1>2. ClaimsInv /\ [OutboxNext]_outboxVars => [ClockKept]_row
  BY UncertaintyStep DEF ClockKept
<1>3. QED
  BY <1>1, <1>2, ClaimsInit, PTL DEF OutboxSpec, UncertaintyIsContinuous, ClockKept

-----------------------------------------------------------------------------
(* Refinement                                                              *)

\* The fate EffectStream gives a row.
FateOf(r) == IF r.status = "absent" THEN "none"
             ELSE IF r.status \in Settled THEN r.status ELSE "open"

Fates == [s \in Seqs |-> FateOf(row[s])]

LEMMA FateFact ==
    ASSUME NEW s \in Seqs, OutboxTypeOK
    PROVE  /\ Fates[s] = "none" <=> row[s].status = "absent"
           /\ Fates[s] \in {"applied", "superseded"} <=> row[s].status \in Settled
           /\ Fates[s] = "open" <=> row[s].status \in Unsettled
           /\ row[s].status \in Settled => Fates[s] = row[s].status
BY DEF Fates, FateOf, Settled, Unsettled, OutboxTypeOK, Row, Statuses

\* One row changed: its fate is the only one that may.
LEMMA OneFate ==
    ASSUME NEW s \in Seqs, \A x \in Seqs : x # s => row'[x].status = row[x].status
    PROVE  Fates' = [Fates EXCEPT ![s] = FateOf(row'[s])]
BY DEF Fates, FateOf

LEMMA FatesKept ==
    ASSUME \A x \in Seqs : FateOf(row'[x]) = FateOf(row[x])
    PROVE  Fates' = Fates
BY DEF Fates

LEMMA StreamFacts ==
    /\ Stream!Init <=> Fates = [s \in Seqs |-> "none"]
    /\ Fates' = Fates => UNCHANGED Stream!streamVars
    /\ \A s \in Seqs :
         /\ Stream!Append(s) <=>
              /\ Fates[s] = "none"
              /\ \A p \in Seqs : p < s => Fates[p] # "none"
              /\ Fates' = [Fates EXCEPT ![s] = "open"]
         /\ Stream!Apply(s) <=>
              /\ Fates[s] = "open"
              /\ \A p \in Seqs : p < s => Fates[p] \in {"applied", "superseded"}
              /\ Fates' = [Fates EXCEPT ![s] = "applied"]
         /\ Stream!Supersede(s) <=>
              /\ Fates[s] = "open"
              /\ Fates' = [Fates EXCEPT ![s] = "superseded"]
         /\ \A n \in Seqs : Stream!Replace(s, n) <=>
              /\ Fates[s] = "open"
              /\ Fates[n] = "none"
              /\ \A p \in Seqs : p < n => Fates[p] # "none"
              /\ Fates' = [Fates EXCEPT ![s] = "superseded", ![n] = "open"]
BY DEF Stream!Init, Stream!Append, Stream!Apply, Stream!Supersede, Stream!Replace,
       Stream!Closed, Stream!streamVars, Fates, FateOf

\* A change of the fates a stream allows.
LEMMA AppendFate ==
    ASSUME OutboxTypeOK, NEW n \in Seqs, NextSeq(n),
           Fates' = [Fates EXCEPT ![n] = "open"]
    PROVE  Stream!Next
<1>1. Fates[n] = "none" /\ \A p \in Seqs : p < n => Fates[p] # "none"
  BY FateFact DEF NextSeq
<1>2. Stream!Append(n)
  BY <1>1, StreamFacts
<1>3. QED
  BY <1>2 DEF Stream!Next

LEMMA SupersedeFate ==
    ASSUME OutboxTypeOK, NEW s \in Seqs, row[s].status \in Unsettled,
           Fates' = [Fates EXCEPT ![s] = "superseded"]
    PROVE  Stream!Next
<1>1. Stream!Supersede(s)
  BY FateFact, StreamFacts
<1>2. QED
  BY <1>1 DEF Stream!Next

\* A claimed effect is decided.
LEMMA DecideFate ==
    ASSUME OrderInv, NEW s \in Seqs, row[s].status = "processing",
           NEW r \in Row, row' = [row EXCEPT ![s] = r], r.status # "absent"
    PROVE  Stream!Next \/ Fates' = Fates
<1>0. OutboxTypeOK
  BY DEF OrderInv
<1>1. row'[s] = r /\ \A x \in Seqs : x # s => row'[x] = row[x]
  BY <1>0 DEF OutboxTypeOK
<1>2. Fates' = [Fates EXCEPT ![s] = FateOf(r)]
  BY <1>1, OneFate
<1>3. Fates[s] = "open" /\ row[s].status \in Unsettled
  BY <1>0, FateFact DEF Unsettled
<1>4. CASE r.status = "superseded"
  BY <1>0, <1>2, <1>3, <1>4, SupersedeFate DEF FateOf, Settled
<1>5. CASE r.status = "applied"
  <2>1. FateOf(r) = "applied"
    BY <1>5 DEF FateOf, Settled
  <2>2. \A p \in Seqs : p < s => Fates[p] \in {"applied", "superseded"}
    BY <1>0, ClaimedIsHead, FateFact DEF OrderInv, HeadOfStream
  <2>3. Stream!Apply(s)
    BY <1>2, <1>3, <2>1, <2>2, StreamFacts
  <2>4. QED
    BY <2>3 DEF Stream!Next
<1>6. CASE r.status \notin {"superseded", "applied"}
  <2>1. FateOf(r) = "open"
    BY <1>6 DEF FateOf, Settled
  <2>2. QED
    BY <1>2, <1>3, <2>1 DEF Fates
<1>7. QED
  BY <1>4, <1>5, <1>6

LEMMA RefinesStep ==
    ASSUME OrderInv, [OutboxNext]_outboxVars
    PROVE  Stream!Next \/ Fates' = Fates
<1>0. OutboxTypeOK /\ (\A e \in 1 .. epoch : e \in Nat)
  BY DEF OrderInv, OutboxTypeOK
<1>1. CASE GrantEpoch
  BY <1>1, FatesKept DEF GrantEpoch
<1>2. ASSUME NEW e \in 1 .. epoch, RecoverExpiredLeases(e)
      PROVE  Fates' = Fates
  <2>1. \A x \in Seqs :
          \/ row'[x] = row[x]
          \/ row[x].status = "processing" /\ row'[x].status = "delivery_uncertain"
    BY <1>0, <1>2, RecoverFact, RecoveredFact DEF OutboxTypeOK
  <2>2. \A x \in Seqs : FateOf(row'[x]) = FateOf(row[x])
    BY <2>1 DEF FateOf, Settled
  <2>3. QED
    BY <2>2, FatesKept
<1>3. ASSUME NEW n \in Seqs, AppendPending(n)
      PROVE  Stream!Next
  <2>1. row'[n] = NewRow /\ \A x \in Seqs : x # n => row'[x] = row[x]
    BY <1>0, <1>3 DEF OutboxTypeOK, AppendPending
  <2>2. FateOf(row'[n]) = "open"
    BY <2>1, FreshRows DEF FateOf, Settled
  <2>3. Fates' = [Fates EXCEPT ![n] = "open"]
    BY <2>1, <2>2, OneFate
  <2>4. QED
    BY <1>0, <1>3, <2>3, AppendFate DEF AppendPending
<1>4. ASSUME NEW s \in Seqs, NEW e \in 1 .. epoch, ClaimEffect(s, e)
      PROVE  Fates' = Fates
  <2>1. PICK r \in Row : row' = [row EXCEPT ![s] = r] /\ r.status = "processing"
    BY <1>0, <1>4, ClaimStep
  <2>2. row[s].status \in {"pending", "failed", "delivery_uncertain"}
    BY <1>0, <1>4, ClaimStep
  <2>3. \A x \in Seqs : FateOf(row'[x]) = FateOf(row[x])
    BY <1>0, <2>1, <2>2 DEF FateOf, Settled, OutboxTypeOK
  <2>4. QED
    BY <2>3, FatesKept
<1>5. ASSUME NEW s \in Seqs, NEW t \in 1 .. row[s].attempts, NEW e \in 1 .. epoch,
             HolderStep(s, t, e)
      PROVE  Stream!Next \/ Fates' = Fates
  <2>1. t \in Nat
    BY <1>0 DEF OutboxTypeOK, Row
  <2>2. row[s].status = "processing"
    BY <1>0, <1>5, <2>1, HolderFact DEF Holds
  <2>3. CASE UNCHANGED outboxVars
    BY <2>3, FatesKept DEF outboxVars
  <2>4. ASSUME NEW r \in Row, row' = [row EXCEPT ![s] = r], r.status # "absent"
        PROVE  Stream!Next \/ Fates' = Fates
    BY <2>2, <2>4, DecideFate
  <2>5. QED
    BY <1>0, <1>5, <2>1, <2>3, <2>4, HolderFact
<1>6. ASSUME NEW s \in Seqs, SupersedeEffect(s)
      PROVE  Stream!Next
  <2>1. PICK r \in Row : r = [row[s] EXCEPT !.status = "superseded"] /\ r.status = "superseded"
    BY <1>0, SupersedeStep
  <2>2. row' = [row EXCEPT ![s] = r]
    BY <1>6, <2>1, Zenon DEF SupersedeEffect
  <2>3. row'[s] = r /\ \A x \in Seqs : x # s => row'[x] = row[x]
    BY <1>0, <2>2 DEF OutboxTypeOK
  <2>4. Fates' = [Fates EXCEPT ![s] = "superseded"]
    BY <2>1, <2>3, OneFate DEF FateOf, Settled
  <2>5. QED
    BY <1>0, <1>6, <2>4, SupersedeFate DEF SupersedeEffect, Supersedable
<1>7. ASSUME NEW s \in Seqs, NEW n \in Seqs, SupersedeAndReplan(s, n)
      PROVE  Stream!Next
  <2>1. row'[s].status = "superseded" /\ row'[n].status = "pending"
    BY <1>0, <1>7, SupersedeStep, ReplanFact, FreshRows
  <2>2. \A x \in Seqs : x # s /\ x # n => row'[x] = row[x]
    BY <1>0, <1>7, ReplanFact
  <2>3. Fates' = [Fates EXCEPT ![s] = "superseded", ![n] = "open"]
    <3>1. FateOf(row'[s]) = "superseded" /\ FateOf(row'[n]) = "open"
      BY <2>1 DEF FateOf, Settled
    <3>2. QED
      BY <2>2, <3>1 DEF Fates
  <2>4. /\ Fates[s] = "open" /\ Fates[n] = "none"
        /\ \A p \in Seqs : p < n => Fates[p] # "none"
    BY <1>0, <1>7, FateFact DEF SupersedeAndReplan, Supersedable, NextSeq
  <2>5. Stream!Replace(s, n)
    BY <2>3, <2>4, StreamFacts
  <2>6. QED
    BY <2>5 DEF Stream!Next
<1>8. ASSUME NEW s \in Seqs, LeaseEnds(s) \/ ComesDue(s) \/ GrowsOverdue(s)
      PROVE  Fates' = Fates
  <2>1. PICK r \in Row : row' = [row EXCEPT ![s] = r] /\ r.status = row[s].status
    BY <1>0, <1>8, TimeStep
  <2>2. \A x \in Seqs : FateOf(row'[x]) = FateOf(row[x])
    BY <1>0, <2>1 DEF FateOf, OutboxTypeOK
  <2>3. QED
    BY <2>2, FatesKept
<1>9. CASE UNCHANGED outboxVars
  BY <1>9, FatesKept DEF outboxVars
<1>10. QED
  BY <1>1, <1>2, <1>3, <1>4, <1>5, <1>6, <1>7, <1>8, <1>9 DEF OutboxNext

LEMMA RefinesInit == OutboxInit => Stream!Init
BY FreshRows, StreamFacts DEF OutboxInit, Fates, FateOf

\* The rows, claims, leases and fences of a stream implement EffectStream.
THEOREM ImplementsEffectStream == OutboxSpec => RefinesEffectStream
<1>1. OrderInv /\ [OutboxNext]_outboxVars => [Stream!Next]_(Stream!streamVars)
  BY RefinesStep, StreamFacts
<1>2. OrderInv /\ [OutboxNext]_outboxVars => OrderInv'
  BY OrderStep
<1>3. QED
  BY <1>1, <1>2, OrderInit, RefinesInit, PTL DEF OutboxSpec, RefinesEffectStream, Stream!Spec
=============================================================================
