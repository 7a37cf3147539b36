----------------------- MODULE EffectDelivery_proofs ------------------------
(***************************************************************************)
(* Theorems about the delivery of one stream, for every number of effects, *)
(* workers, epochs, edits and crashes, with and without late writes.       *)
(***************************************************************************)
EXTENDS EffectDelivery, EffectOutbox_proofs

-----------------------------------------------------------------------------
(* Steps of the outbox                                                     *)

\* An operation of a holder is a step of the outbox.
LEMMA HolderNext ==
    ASSUME OutboxTypeOK, NEW s \in Seqs, NEW t \in Nat, t > 0, NEW e \in Nat,
           HolderStep(s, t, e)
    PROVE  OutboxNext
<1>1. Holds(s, t, e)
  BY HolderFact
<1>2. t \in 1 .. row[s].attempts
  BY <1>1 DEF Holds, OutboxTypeOK, Row
<1>3. e \in 1 .. epoch
  BY <1>1 DEF Holds, Fenced, OutboxTypeOK
<1>4. QED
  BY <1>2, <1>3 DEF OutboxNext

LEMMA HeldItem ==
    ASSUME DeliveryTypeOK, NEW w \in Workers, pc[w] \in Holding
    PROVE  /\ item[w].seq \in Seqs
           /\ item[w].token \in Nat /\ item[w].token > 0
           /\ fence[w] \in Nat
           /\ OutboxTypeOK
BY DEF DeliveryTypeOK, WorkerTypeOK, ItemFits, Item

LEMMA PersistNext ==
    ASSUME DeliveryTypeOK, NEW w \in Workers, pc[w] \in Holding,
           NEW verdict \in Verdicts, NEW class \in ErrorClasses,
           class = "none" <=> verdict # "failed",
           Persist(w, verdict, class)
    PROVE  OutboxNext \/ UNCHANGED outboxVars
<1>1. CASE ApplyEffectResult(item[w].seq, item[w].token, fence[w], verdict, class)
  <2>1. HolderStep(item[w].seq, item[w].token, fence[w])
    BY <1>1 DEF HolderStep
  <2>2. QED
    BY <2>1, HeldItem, HolderNext
<1>2. QED
  BY <1>1 DEF Persist

LEMMA RequeueNext ==
    ASSUME DeliveryTypeOK, NEW w \in Workers, pc[w] \in Holding, Requeue(w)
    PROVE  OutboxNext \/ UNCHANGED outboxVars
<1>1. CASE RequeueEffect(item[w].seq, item[w].token, fence[w])
  <2>1. HolderStep(item[w].seq, item[w].token, fence[w])
    BY <1>1 DEF HolderStep
  <2>2. QED
    BY <2>1, HeldItem, HolderNext
<1>2. QED
  BY <1>1 DEF Requeue

LEMMA DeferNext ==
    ASSUME DeliveryTypeOK, NEW w \in Workers, pc[w] \in Holding, Defer(w)
    PROVE  OutboxNext \/ UNCHANGED outboxVars
<1>1. CASE MarkDeliveryUncertain(item[w].seq, item[w].token, fence[w])
  <2>1. HolderStep(item[w].seq, item[w].token, fence[w])
    BY <1>1 DEF HolderStep
  <2>2. QED
    BY <2>1, HeldItem, HolderNext
<1>2. QED
  BY <1>1 DEF Defer

LEMMA RecoverNext ==
    ASSUME DeliveryTypeOK, NEW w \in Workers, RecoverExpiredLeases(fence[w])
    PROVE  OutboxNext
<1>1. fence[w] \in 1 .. epoch
  BY DEF RecoverExpiredLeases, Fenced, DeliveryTypeOK, WorkerTypeOK, OutboxTypeOK
<1>2. QED
  BY <1>1 DEF OutboxNext

LEMMA ClaimNext ==
    ASSUME DeliveryTypeOK, NEW w \in Workers, NEW s \in Seqs, ClaimEffect(s, fence[w])
    PROVE  OutboxNext
<1>1. fence[w] \in 1 .. epoch
  BY DEF ClaimEffect, Fenced, DeliveryTypeOK, WorkerTypeOK, OutboxTypeOK
<1>2. QED
  BY <1>1 DEF OutboxNext

-----------------------------------------------------------------------------
(* Every step of the delivery is a step of the outbox                      *)

LEMMA RecoversNext ==
    ASSUME DeliveryTypeOK, NEW w \in Workers, Recovers(w)
    PROVE  OutboxNext \/ UNCHANGED outboxVars
BY RecoverNext DEF Recovers

LEMMA TakesOverNext ==
    ASSUME NEW w \in Workers, NEW place, TakesOver(w, place)
    PROVE  OutboxNext
BY DEF TakesOver, OutboxNext

LEMMA WorkerStepNext ==
    ASSUME DeliveryTypeOK, NEW w \in Workers, WorkerStep(w)
    PROVE  OutboxNext \/ UNCHANGED outboxVars
<1>1. CASE BeginPass(w)
  BY <1>1, TakesOverNext DEF BeginPass
<1>2. CASE Recover(w)
  BY <1>2, RecoversNext DEF Recover
<1>3. CASE List(w)
  BY <1>3 DEF List
<1>4. CASE Claim(w)
  <2>1. item[w].seq \in Seqs
    BY <1>4 DEF Claim, DeliveryTypeOK, WorkerTypeOK, ItemFits
  <2>2. QED
    BY <1>4, <2>1, ClaimNext DEF Claim
<1>5. CASE Refuse(w)
  <2>1. pc[w] \in Holding
    BY <1>5 DEF Refuse, Holding
  <2>2. Persist(w, "failed", "terminal") \/ Persist(w, "blocked_candidate", "none")
    BY <1>5 DEF Refuse
  <2>3. QED
    BY <2>1, <2>2, PersistNext DEF Verdicts, ErrorClasses
<1>6. CASE Preflight(w)
  BY <1>6 DEF Preflight
<1>7. CASE PreflightFails(w)
  <2>1. pc[w] \in Holding
    BY <1>7 DEF PreflightFails, Holding
  <2>2. Requeue(w) \/ Persist(w, "failed", "terminal")
    BY <1>7 DEF PreflightFails
  <2>3. QED
    BY <2>1, <2>2, PersistNext, RequeueNext DEF Verdicts, ErrorClasses
<1>8. CASE LosesRole(w)
  BY <1>8, TakesOverNext DEF LosesRole
<1>9. CASE RenewalFails(w)
  BY <1>9, RecoverNext DEF RenewalFails
<1>10. CASE LeftOut(w)
  <2>1. pc[w] \in Holding /\ Requeue(w)
    BY <1>10 DEF LeftOut, Holding
  <2>2. QED
    BY <2>1, RequeueNext
<1>11. CASE Dispatch(w)
  BY <1>11 DEF Dispatch
<1>12. CASE Answer(w)
  <2>1. pc[w] \in Holding
    BY <1>12 DEF Answer, Holding
  <2>2. \/ Persist(w, "applied", "none") \/ Persist(w, "conflict", "none")
        \/ Persist(w, "blocked_candidate", "none") \/ Persist(w, "failed", "terminal")
    BY <1>12 DEF Answer
  <2>3. QED
    BY <2>1, <2>2, PersistNext DEF Verdicts, ErrorClasses
<1>13. CASE Rejected(w)
  <2>1. pc[w] \in Holding
    BY <1>13 DEF Rejected, Holding
  <2>2. Persist(w, "failed", "terminal") \/ Persist(w, "failed", "recoverable")
    BY <1>13 DEF Rejected
  <2>3. QED
    BY <2>1, <2>2, PersistNext DEF Verdicts, ErrorClasses
<1>14. CASE NoReply(w)
  BY <1>14 DEF NoReply
<1>15. CASE ReadBack(w)
  BY <1>15 DEF ReadBack
<1>16. CASE SettleProbe(w)
  <2>1. pc[w] \in Holding
    BY <1>16 DEF SettleProbe, Holding
  <2>2. \/ Persist(w, "applied", "none") \/ Persist(w, "failed", "terminal")
        \/ Requeue(w) \/ Defer(w)
    BY <1>16 DEF SettleProbe
  <2>3. QED
    BY <2>1, <2>2, PersistNext, RequeueNext, DeferNext DEF Verdicts, ErrorClasses
<1>17. QED
  BY <1>1, <1>2, <1>3, <1>4, <1>5, <1>6, <1>7, <1>8, <1>9, <1>10, <1>11, <1>12,
     <1>13, <1>14, <1>15, <1>16 DEF WorkerStep

LEMMA OutboxPart ==
    ASSUME DeliveryTypeOK, [DeliveryNext]_deliveryVars
    PROVE  [OutboxNext]_outboxVars
<1>1. CASE \E w \in Workers : WorkerStep(w) \/ Crash(w)
  BY <1>1, WorkerStepNext DEF Crash
<1>2. CASE \E r \in flight : Land(r) \/ Drop(r)
  BY <1>2 DEF Land, Drop
<1>3. CASE \E n \in Seqs : Flush(n) \/ \E s \in Seqs : Correct(s, n)
  BY <1>3 DEF Flush, Correct, OutboxNext
<1>4. CASE \E s \in Seqs : Elapse(s)
  BY <1>4 DEF Elapse, OutboxNext
<1>5. CASE \E v \in EditValues : HumanEdit(v)
  BY <1>5 DEF HumanEdit
<1>6. CASE UNCHANGED deliveryVars
  BY <1>6 DEF deliveryVars
<1>7. QED
  BY <1>1, <1>2, <1>3, <1>4, <1>5, <1>6 DEF DeliveryNext

-----------------------------------------------------------------------------
(* Type correctness                                                        *)

\* A worker moves and its item changes with it; the others stay.
LEMMA Moves ==
    ASSUME WorkerTypeOK, NEW w \in Workers, NEW place \in Places, NEW i \in Item,
           ItemFits(place, i),
           pc' = [pc EXCEPT ![w] = place], item' = [item EXCEPT ![w] = i],
           holder' \in Workers \cup {Nobody}, fence' \in [Workers -> Nat], crashes' \in Nat
    PROVE  WorkerTypeOK'
<1>1. pc' \in [Workers -> Places] /\ item' \in [Workers -> Item]
  BY DEF WorkerTypeOK
<1>2. ASSUME NEW x \in Workers PROVE ItemFits(pc'[x], item'[x])
  <2>1. CASE x = w
    BY <2>1 DEF WorkerTypeOK
  <2>2. CASE x # w
    BY <2>2 DEF WorkerTypeOK
  <2>3. QED
    BY <2>1, <2>2
<1>3. QED
  BY <1>1, <1>2 DEF WorkerTypeOK

LEMMA Stays ==
    ASSUME WorkerTypeOK, UNCHANGED workerVars
    PROVE  WorkerTypeOK'
BY DEF WorkerTypeOK, workerVars

\* A worker moves with the item it has.
LEMMA KeepsType ==
    ASSUME WorkerTypeOK, NEW w \in Workers, NEW place \in Places,
           ItemFits(place, item[w]), Keeps(w, place)
    PROVE  WorkerTypeOK'
<1>1. item[w] \in Item /\ item' = [item EXCEPT ![w] = item[w]]
  BY DEF Keeps, WorkerTypeOK
<1>2. /\ pc' = [pc EXCEPT ![w] = place]
      /\ holder' \in Workers \cup {Nobody} /\ fence' \in [Workers -> Nat] /\ crashes' \in Nat
  BY DEF Keeps, Goes, WorkerTypeOK
<1>3. QED
  BY <1>1, <1>2, Moves

LEMMA NoItemFits ==
    /\ NoItem \in Item
    /\ ItemFits("idle", NoItem) /\ ItemFits("recovering", NoItem) /\ ItemFits("adopted", NoItem)
    /\ \A i \in Item : ItemFits("recovering", i) /\ ItemFits("listing", i)
BY DEF NoItem, Item, Plans, ItemFits, Holding

LEMMA EndsPassType ==
    ASSUME WorkerTypeOK, NEW w \in Workers, EndsPass(w)
    PROVE  WorkerTypeOK'
<1>1. /\ pc' = [pc EXCEPT ![w] = "idle"] /\ item' = [item EXCEPT ![w] = NoItem]
      /\ holder' \in Workers \cup {Nobody} /\ fence' \in [Workers -> Nat] /\ crashes' \in Nat
  BY DEF EndsPass, Goes, WorkerTypeOK
<1>2. "idle" \in Places
  BY DEF Places
<1>3. QED
  BY <1>1, <1>2, NoItemFits, Moves

LEMMA TakesOverType ==
    ASSUME DeliveryTypeOK, NEW w \in Workers, NEW place \in {"recovering", "adopted"},
           TakesOver(w, place)
    PROVE  WorkerTypeOK'
<1>1. /\ pc' = [pc EXCEPT ![w] = place] /\ item' = [item EXCEPT ![w] = NoItem]
      /\ holder' \in Workers \cup {Nobody} /\ crashes' \in Nat
  BY DEF TakesOver, DeliveryTypeOK, WorkerTypeOK
<1>2. fence' \in [Workers -> Nat]
  BY DEF TakesOver, DeliveryTypeOK, WorkerTypeOK, OutboxTypeOK
<1>3. place \in Places /\ ItemFits(place, NoItem)
  BY NoItemFits DEF Places
<1>4. WorkerTypeOK
  BY DEF DeliveryTypeOK
<1>5. QED
  BY <1>1, <1>2, <1>3, <1>4, NoItemFits, Moves

\* The item of a worker changes in a field or two.
LEMMA ItemChanges ==
    ASSUME NEW i \in Item
    PROVE  /\ \A s \in Nat, redrive \in BOOLEAN, unsure \in BOOLEAN :
                [NoItem EXCEPT !.seq = s, !.redrive = redrive, !.unsure = unsure] \in Item
           /\ \A t \in Nat :
                LET j == [i EXCEPT !.token = t]
                IN  j \in Item /\ j.seq = i.seq /\ j.token = t
           /\ \A plan \in Plans, n \in Nat :
                LET j == [i EXCEPT !.plan = plan, !.edits = n]
                IN  j \in Item /\ j.seq = i.seq /\ j.token = i.token
           /\ \A verdict \in {"none", "applied", "unapplied", "changed", "unknown"} :
                LET j == [i EXCEPT !.verdict = verdict]
                IN  j \in Item /\ j.seq = i.seq /\ j.token = i.token
<1>1. \A s \in Nat, redrive \in BOOLEAN, unsure \in BOOLEAN :
        [NoItem EXCEPT !.seq = s, !.redrive = redrive, !.unsure = unsure] \in Item
  BY DEF NoItem, Item, Plans
<1>2. QED
  BY <1>1 DEF Item

LEMMA WorkerStepType ==
    ASSUME DeliveryTypeOK, NEW w \in Workers, WorkerStep(w) \/ Crash(w)
    PROVE  WorkerTypeOK'
<1>0. WorkerTypeOK
  BY DEF DeliveryTypeOK
<1>1. CASE BeginPass(w)
  <2>1. CASE TakesOver(w, "recovering")
    BY <2>1, TakesOverType
  <2>2. CASE ~TakesOver(w, "recovering")
    <3>1. /\ pc' = [pc EXCEPT ![w] = "recovering"] /\ item' = [item EXCEPT ![w] = item[w]]
          /\ holder' \in Workers \cup {Nobody} /\ crashes' \in Nat
      BY <1>0, <1>1, <2>2 DEF BeginPass, WorkerTypeOK
    <3>2. fence' \in [Workers -> Nat]
      BY <1>0, <1>1, <2>2 DEF BeginPass, WorkerTypeOK, DeliveryTypeOK, OutboxTypeOK
    <3>3. "recovering" \in Places /\ item[w] \in Item
      BY <1>0 DEF Places, WorkerTypeOK
    <3>4. QED
      BY <1>0, <3>1, <3>2, <3>3, NoItemFits, Moves
  <2>3. QED
    BY <2>1, <2>2
<1>2. CASE Recover(w)
  <2>1. item[w] \in Item /\ "listing" \in Places
    BY <1>0 DEF WorkerTypeOK, Places
  <2>2. QED
    BY <1>0, <1>2, <2>1, NoItemFits, KeepsType, EndsPassType DEF Recover
<1>3. CASE List(w)
  <2>1. CASE EndsPass(w)
    BY <1>0, <2>1, EndsPassType
  <2>2. CASE ~EndsPass(w)
    <3>1. PICK s \in Seqs :
            /\ item' = [item EXCEPT ![w] =
                          [NoItem EXCEPT !.seq = s,
                                         !.redrive = row[s].status # "pending",
                                         !.unsure = row[s].unsure # "no"]]
            /\ Goes(w, "listed")
      BY <1>3, <2>2 DEF List
    <3> DEFINE i == [NoItem EXCEPT !.seq = s, !.redrive = row[s].status # "pending",
                                   !.unsure = row[s].unsure # "no"]
    <3>2. s \in Nat
      BY DEF Seqs
    <3>3. i \in Item
      BY <3>2, NoItemFits, ItemChanges
    <3>4. i.seq = s
      BY DEF NoItem
    <3>5. ItemFits("listed", i) /\ "listed" \in Places
      BY <3>4 DEF ItemFits, Holding, Places
    <3>6. QED
      BY <1>0, <3>1, <3>3, <3>5, Moves DEF Goes, WorkerTypeOK
  <2>3. QED
    BY <2>1, <2>2
<1>4. CASE Claim(w)
  <2>1. CASE EndsPass(w)
    BY <1>0, <2>1, EndsPassType
  <2>2. CASE ~EndsPass(w)
    <3> DEFINE n == row[item[w].seq].attempts + 1
               i == [item[w] EXCEPT !.token = n]
               place == IF item[w].redrive THEN "probing" ELSE "claimed"
    <3>1. pc[w] = "listed" /\ item' = [item EXCEPT ![w] = i] /\ Goes(w, place)
      BY <1>4, <2>2 DEF Claim
    <3>2. item[w] \in Item /\ item[w].seq \in Seqs
      BY <1>0, <3>1 DEF WorkerTypeOK, ItemFits
    <3>3. n \in Nat /\ n > 0
      BY <3>2 DEF DeliveryTypeOK, OutboxTypeOK, Row
    <3>4. i \in Item /\ i.seq = item[w].seq /\ i.token = n
      BY <3>2, <3>3, ItemChanges
    <3>5. place \in Places /\ ItemFits(place, i)
      BY <3>2, <3>3, <3>4 DEF Places, Holding, ItemFits
    <3> HIDE DEF i, place, n
    <3>6. QED
      BY <1>0, <3>1, <3>4, <3>5, Moves DEF Goes, WorkerTypeOK
  <2>3. QED
    BY <2>1, <2>2
<1>5. CASE EndsPass(w)
  BY <1>0, <1>5, EndsPassType
<1>6. CASE Preflight(w)
  <2> DEFINE i == [item[w] EXCEPT !.plan = PlanFor(item[w].seq), !.edits = edits]
  <2>1. item[w] \in Item /\ item[w].seq \in Seqs /\ item[w].token > 0
    BY <1>0, <1>6 DEF Preflight, WorkerTypeOK, ItemFits, Holding
  <2>2. PlanFor(item[w].seq) \in Plans /\ edits \in Nat
    BY DEF PlanFor, Plans, DeliveryTypeOK, RemoteTypeOK
  <2>3. i \in Item /\ i.seq = item[w].seq /\ i.token = item[w].token
    BY <2>1, <2>2, ItemChanges, ZenonT(60)
  <2>4. ItemFits("planned", i) /\ "planned" \in Places
    BY <2>1, <2>3 DEF ItemFits, Holding, Places
  <2>5. item' = [item EXCEPT ![w] = i] /\ Goes(w, "planned")
    BY <1>6 DEF Preflight
  <2> HIDE DEF i
  <2>6. QED
    BY <1>0, <2>3, <2>4, <2>5, Moves DEF Goes, WorkerTypeOK
<1>7. CASE LosesRole(w)
  BY <1>0, <1>7, EndsPassType, TakesOverType DEF LosesRole
<1>8. CASE Dispatch(w)
  <2>1. ItemFits("sent", item[w]) /\ ItemFits("answered", item[w])
    BY <1>0, <1>8 DEF Dispatch, WorkerTypeOK, ItemFits, Holding
  <2>2. Keeps(w, "sent") \/ Keeps(w, "answered")
    BY <1>8 DEF Dispatch
  <2>3. "sent" \in Places /\ "answered" \in Places
    BY DEF Places, Holding
  <2>4. QED
    BY <1>0, <2>1, <2>2, <2>3, KeepsType
<1>9. CASE NoReply(w)
  <2>1. ItemFits("probing", item[w]) /\ "probing" \in Places
    BY <1>0, <1>9 DEF NoReply, WorkerTypeOK, ItemFits, Holding, Places
  <2>2. QED
    BY <1>0, <1>9, <2>1, KeepsType DEF NoReply
<1>10. CASE ReadBack(w)
  <2>1. PICK verdict \in {Evidence(item[w].seq), "unknown"} :
          item' = [item EXCEPT ![w].verdict = verdict]
    BY <1>10 DEF ReadBack
  <2> DEFINE i == [item[w] EXCEPT !.verdict = verdict]
  <2>2. item[w] \in Item /\ item[w].seq \in Seqs /\ item[w].token > 0
    BY <1>0, <1>10 DEF ReadBack, WorkerTypeOK, ItemFits, Holding
  <2>3. verdict \in {"none", "applied", "unapplied", "changed", "unknown"}
    BY <2>1 DEF Evidence
  <2>4. i \in Item /\ i.seq = item[w].seq /\ i.token = item[w].token
    BY <2>2, <2>3, ItemChanges
  <2>5. ItemFits("read", i) /\ "read" \in Places
    BY <2>2, <2>4 DEF ItemFits, Holding, Places
  <2>6. item' = [item EXCEPT ![w] = i] /\ Goes(w, "read")
    BY <1>10, <2>1 DEF ReadBack
  <2> HIDE DEF i
  <2>7. QED
    BY <1>0, <2>4, <2>5, <2>6, Moves DEF Goes, WorkerTypeOK
<1>11. CASE Crash(w)
  <2>1. /\ pc' = [pc EXCEPT ![w] = "idle"] /\ item' = [item EXCEPT ![w] = NoItem]
        /\ holder' \in Workers \cup {Nobody} /\ fence' \in [Workers -> Nat] /\ crashes' \in Nat
    BY <1>0, <1>11 DEF Crash, WorkerTypeOK
  <2>2. "idle" \in Places
    BY DEF Places
  <2>3. QED
    BY <1>0, <2>1, <2>2, NoItemFits, Moves
<1>12. WorkerStep(w) =>
          \/ BeginPass(w) \/ Recover(w) \/ List(w) \/ Claim(w) \/ EndsPass(w)
          \/ Preflight(w) \/ LosesRole(w) \/ Dispatch(w) \/ NoReply(w) \/ ReadBack(w)
  BY DEF WorkerStep, Refuse, PreflightFails, RenewalFails, LeftOut, Answer, Rejected,
         SettleProbe, Persist, Requeue, Defer
<1>13. QED
  BY <1>1, <1>2, <1>3, <1>4, <1>5, <1>6, <1>7, <1>8, <1>9, <1>10, <1>11, <1>12

LEMMA RequestType ==
    ASSUME DeliveryTypeOK, NEW w \in Workers, Dispatch(w)
    PROVE  flight' \in SUBSET Request
<1>1. item[w] \in Item /\ item[w].seq \in Seqs
  BY DEF Dispatch, DeliveryTypeOK, WorkerTypeOK, ItemFits, Holding
<1>2. item[w].plan \in {"write", "stamp"} => RequestOf(w) \in Request
  BY <1>1 DEF RequestOf, Request, Item
<1>3. QED
  BY <1>2 DEF Dispatch, DeliveryTypeOK, RemoteTypeOK

LEMMA RemoteStepType ==
    ASSUME DeliveryTypeOK, [DeliveryNext]_deliveryVars
    PROVE  RemoteTypeOK'
<1>0. RemoteTypeOK
  BY DEF DeliveryTypeOK
<1>1. ASSUME NEW w \in Workers, WorkerStep(w) \/ Crash(w)
      PROVE  UNCHANGED <<base, sheet, receipts, landings, edits>>
             /\ (UNCHANGED flight \/ Dispatch(w))
  BY <1>1 DEF WorkerStep, Crash, remoteVars, BeginPass, Recover, List, Claim, Refuse,
              Preflight, PreflightFails, LosesRole, RenewalFails, LeftOut, Dispatch,
              Answer, Rejected, NoReply, ReadBack, SettleProbe, Persist, Requeue, Defer
<1>2. CASE \E w \in Workers : WorkerStep(w) \/ Crash(w)
  BY <1>0, <1>1, <1>2, RequestType DEF RemoteTypeOK
<1>3. ASSUME NEW r \in flight, Land(r)
      PROVE  RemoteTypeOK'
  <2>1. r \in Request /\ r.seq \in Seqs /\ Target(r.seq) \in Nat
    BY <1>0 DEF RemoteTypeOK, Request, Target, Seqs
  <2>2. landings' \in Seq(Request)
    BY <1>0, <1>3, <2>1 DEF Land, RemoteTypeOK
  <2>3. sheet' \in EditValues \cup Nat
    BY <1>0, <1>3, <2>1 DEF Land, RemoteTypeOK
  <2>4. receipts' \in SUBSET Seqs /\ flight' \in SUBSET Request
    BY <1>0, <1>3, <2>1 DEF Land, RemoteTypeOK
  <2>5. QED
    BY <1>0, <1>3, <2>2, <2>3, <2>4 DEF Land, RemoteTypeOK
<1>4. ASSUME NEW r \in flight, Drop(r)
      PROVE  RemoteTypeOK'
  BY <1>0, <1>4 DEF Drop, RemoteTypeOK
<1>5. ASSUME NEW n \in Seqs, Flush(n)
      PROVE  RemoteTypeOK'
  <2>1. Target(n - 1) \in Nat
    BY DEF Target, Seqs
  <2>2. QED
    BY <1>0, <1>5, <2>1 DEF Flush, RemoteTypeOK, remoteVars
<1>6. ASSUME NEW n \in Seqs, NEW s \in Seqs, Correct(s, n)
      PROVE  RemoteTypeOK'
  BY <1>0, <1>6 DEF Correct, RemoteTypeOK, remoteVars
<1>7. ASSUME NEW s \in Seqs, Elapse(s)
      PROVE  RemoteTypeOK'
  BY <1>0, <1>7 DEF Elapse, RemoteTypeOK, remoteVars
<1>8. ASSUME NEW v \in EditValues, HumanEdit(v)
      PROVE  RemoteTypeOK'
  BY <1>0, <1>8 DEF HumanEdit, RemoteTypeOK
<1>9. CASE UNCHANGED deliveryVars
  BY <1>0, <1>9 DEF deliveryVars, RemoteTypeOK, remoteVars
<1>10. QED
  BY <1>2, <1>3, <1>4, <1>5, <1>6, <1>7, <1>8, <1>9 DEF DeliveryNext

LEMMA DeliveryTypeStep ==
    ASSUME DeliveryTypeOK, [DeliveryNext]_deliveryVars
    PROVE  DeliveryTypeOK'
<1>1. OutboxTypeOK'
  BY OutboxPart, TypeStep DEF DeliveryTypeOK
<1>2. RemoteTypeOK'
  BY RemoteStepType
<1>3. WorkerTypeOK'
  <2>1. CASE \E w \in Workers : WorkerStep(w) \/ Crash(w)
    BY <2>1, WorkerStepType
  <2>2. CASE ~\E w \in Workers : WorkerStep(w) \/ Crash(w)
    <3>1. UNCHANGED workerVars
      BY <2>2 DEF DeliveryNext, Land, Drop, Flush, Correct, Elapse, HumanEdit, deliveryVars
    <3>2. QED
      BY <3>1, Stays DEF DeliveryTypeOK
  <2>3. QED
    BY <2>1, <2>2
<1>4. QED
  BY <1>1, <1>2, <1>3 DEF DeliveryTypeOK

LEMMA DeliveryTypeInit == DeliveryInit => DeliveryTypeOK
<1> SUFFICES ASSUME DeliveryInit PROVE DeliveryTypeOK
  OBVIOUS
<1>1. OutboxTypeOK
  BY TypeInit DEF DeliveryInit
<1>2. RemoteTypeOK
  BY DEF DeliveryInit, RemoteTypeOK
<1>3. WorkerTypeOK
  BY NoItemFits DEF DeliveryInit, WorkerTypeOK, Places
<1>4. QED
  BY <1>1, <1>2, <1>3 DEF DeliveryTypeOK

\* Workers, requests, the sheet and the rows stay in their domains, and a
\* worker between its claim and its verdict holds a token.
THEOREM DeliveryTypeCorrect == DeliverySpec => []DeliveryTypeOK
<1>1. DeliveryTypeOK /\ [DeliveryNext]_deliveryVars => DeliveryTypeOK'
  BY DeliveryTypeStep
<1>2. QED
  BY <1>1, DeliveryTypeInit, PTL DEF DeliverySpec

-----------------------------------------------------------------------------
(* The outbox promises hold of the workers                                 *)

\* Whatever a pass still knows when it calls an operation, the rows change
\* only as EffectOutbox says.
THEOREM DeliveryRefinesOutbox == DeliverySpec => RefinesOutbox
<1>1. DeliveryTypeOK /\ [DeliveryNext]_deliveryVars => [OutboxNext]_outboxVars
  BY OutboxPart
<1>2. DeliveryInit => OutboxInit
  BY DEF DeliveryInit
<1>3. QED
  BY <1>1, <1>2, DeliveryTypeCorrect, PTL DEF DeliverySpec, RefinesOutbox, OutboxSpec

\* So the workers deliver in stream order, no verdict comes from a claim that
\* lapsed, and the streams they work on are those EffectStream describes.
THEOREM WorkersKeepOutboxPromises ==
    DeliverySpec => /\ []InOrder
                    /\ []StaleClaimsAreDead
                    /\ RefinesEffectStream
<1>1. DeliverySpec => OutboxSpec
  BY DeliveryRefinesOutbox DEF RefinesOutbox
<1>2. QED
  BY <1>1, DeliveryIsInOrder, LapsedClaimsAreDead, ImplementsEffectStream, PTL

-----------------------------------------------------------------------------
(* An effect is closed as applied only on its receipt                      *)

\* A replay or an applied verdict was concluded from a receipt.
Evident(i) == i.plan = "replay" \/ i.verdict = "applied" => i.seq \in receipts

\* The strengthening: whatever a worker may still persist as applied, from a
\* reply, a plan or a read-back, has its receipt already.
ReceiptInv ==
    /\ \A i \in 1 .. Len(landings) : landings[i].seq \in receipts
    /\ \A w \in Workers : Evident(item[w])
    /\ AppliedHasReceipt

NoneApplied == \A x \in Seqs : row'[x].status = "applied" => row[x].status = "applied"

LEMMA OneRowNotApplied ==
    ASSUME OutboxTypeOK, NEW s \in Seqs, NEW r, r.status # "applied",
           row' = [row EXCEPT ![s] = r]
    PROVE  NoneApplied
<1>1. row'[s] = r /\ \A x \in Seqs : x # s => row'[x] = row[x]
  BY DEF OutboxTypeOK
<1>2. QED
  BY <1>1 DEF NoneApplied

LEMMA RecoverNoneApplied ==
    ASSUME OutboxTypeOK, NEW e \in Nat, RecoverExpiredLeases(e)
    PROVE  NoneApplied
<1>1. \A x \in Seqs : row'[x] = row[x] \/ row'[x] = Recovered(row[x])
  BY RecoverFact
<1>2. \A x \in Seqs : Recovered(row[x]).status = "delivery_uncertain"
  BY RecoveredFact DEF OutboxTypeOK
<1>3. QED
  BY <1>1, <1>2 DEF NoneApplied

LEMMA ClaimNoneApplied ==
    ASSUME OutboxTypeOK, NEW s \in Seqs, NEW e \in Nat, ClaimEffect(s, e)
    PROVE  NoneApplied
<1>1. PICK r \in Row : row' = [row EXCEPT ![s] = r] /\ r.status = "processing"
  BY ClaimStep
<1>2. QED
  BY <1>1, OneRowNotApplied

LEMMA TimeNoneApplied ==
    ASSUME OutboxTypeOK, NEW s \in Seqs,
           LeaseEnds(s) \/ ComesDue(s) \/ GrowsOverdue(s)
    PROVE  NoneApplied
<1>1. PICK r \in Row : row' = [row EXCEPT ![s] = r] /\ r.status = row[s].status
  BY TimeStep
<1>2. row'[s] = r /\ \A x \in Seqs : x # s => row'[x] = row[x]
  BY <1>1 DEF OutboxTypeOK
<1>3. QED
  BY <1>1, <1>2 DEF NoneApplied

LEMMA AppendNoneApplied ==
    ASSUME OutboxTypeOK, NEW n \in Seqs, AppendPending(n)
    PROVE  NoneApplied
<1>1. row' = [row EXCEPT ![n] = NewRow] /\ NewRow.status # "applied"
  BY FreshRows DEF AppendPending
<1>2. QED
  BY <1>1, OneRowNotApplied

LEMMA ReplanNoneApplied ==
    ASSUME OutboxTypeOK, NEW s \in Seqs, NEW n \in Seqs, SupersedeAndReplan(s, n)
    PROVE  NoneApplied
<1>1. PICK r \in Row : r = [row[s] EXCEPT !.status = "superseded"] /\ r.status = "superseded"
  BY SupersedeStep
<1>2. row'[s].status = "superseded" /\ row'[n].status = "pending"
  BY <1>1, ReplanFact, FreshRows
<1>3. \A x \in Seqs : x # s /\ x # n => row'[x] = row[x]
  BY ReplanFact
<1>4. QED
  BY <1>2, <1>3 DEF NoneApplied

\* A worker that persists a verdict other than applied, requeues or defers.
LEMMA OtherVerdicts ==
    ASSUME DeliveryTypeOK, NEW w \in Workers, pc[w] \in Holding,
           NEW verdict \in Verdicts, NEW class \in ErrorClasses, verdict # "applied",
           Persist(w, verdict, class) \/ Requeue(w) \/ Defer(w)
    PROVE  NoneApplied
<1>0. OutboxTypeOK /\ item[w].seq \in Seqs /\ row[item[w].seq] \in Row
  BY HeldItem DEF OutboxTypeOK
<1>1. CASE UNCHANGED outboxVars
  BY <1>1 DEF NoneApplied, outboxVars
<1>2. CASE ApplyEffectResult(item[w].seq, item[w].token, fence[w], verdict, class)
  <2>1. PICK r : r = [row[item[w].seq] EXCEPT !.status = verdict, !.error = class,
                        !.token = 0, !.live = FALSE, !.due = TRUE, !.unsure = "no"]
    OBVIOUS
  <2>2. r.status = verdict
    BY <1>0, <2>1 DEF Row
  <2>3. row' = [row EXCEPT ![item[w].seq] = r]
    BY <1>2, <2>1, Zenon DEF ApplyEffectResult
  <2>4. QED
    BY <1>0, <2>2, <2>3, OneRowNotApplied
<1>3. CASE MarkDeliveryUncertain(item[w].seq, item[w].token, fence[w])
  <2>1. PICK r : r = Uncertain(row[item[w].seq])
    OBVIOUS
  <2>2. r.status = "delivery_uncertain"
    BY <1>0, <2>1, UncertainFact
  <2>3. row' = [row EXCEPT ![item[w].seq] = r]
    BY <1>3, <2>1, Zenon DEF MarkDeliveryUncertain
  <2>4. QED
    BY <1>0, <2>2, <2>3, OneRowNotApplied
<1>4. CASE RequeueEffect(item[w].seq, item[w].token, fence[w])
  <2>1. PICK r : r = [row[item[w].seq] EXCEPT !.status = "pending", !.token = 0,
                        !.live = FALSE, !.unsure = "no"]
    OBVIOUS
  <2>2. r.status = "pending"
    BY <1>0, <2>1 DEF Row
  <2>3. row' = [row EXCEPT ![item[w].seq] = r]
    BY <1>4, <2>1, Zenon DEF RequeueEffect
  <2>4. QED
    BY <1>0, <2>2, <2>3, OneRowNotApplied
<1>5. QED
  BY <1>1, <1>2, <1>3, <1>4 DEF Persist, Requeue, Defer

\* A worker persists applied for an effect whose receipt exists.
LEMMA AppliedVerdict ==
    ASSUME DeliveryTypeOK, AppliedHasReceipt, NEW w \in Workers, pc[w] \in Holding,
           item[w].seq \in receipts, Persist(w, "applied", "none")
    PROVE  \A x \in Seqs : row'[x].status = "applied" => x \in receipts
<1>0. OutboxTypeOK /\ item[w].seq \in Seqs
  BY HeldItem
<1>1. \A x \in Seqs : x # item[w].seq => row'[x] = row[x]
  BY <1>0 DEF Persist, ApplyEffectResult, outboxVars, OutboxTypeOK
<1>2. QED
  BY <1>1 DEF AppliedHasReceipt

LEMMA AppliedKept ==
    ASSUME AppliedHasReceipt, NoneApplied
    PROVE  \A x \in Seqs : row'[x].status = "applied" => x \in receipts
BY DEF AppliedHasReceipt, NoneApplied

LEMMA WorkerApplies ==
    ASSUME DeliveryTypeOK, ReceiptInv, NEW w \in Workers, WorkerStep(w) \/ Crash(w)
    PROVE  \A x \in Seqs : row'[x].status = "applied" => x \in receipts
<1>0. AppliedHasReceipt /\ OutboxTypeOK /\ Evident(item[w]) /\ fence[w] \in Nat
  BY DEF ReceiptInv, DeliveryTypeOK, WorkerTypeOK
<1>1. CASE UNCHANGED row
  BY <1>0, <1>1 DEF AppliedHasReceipt
<1>2. CASE RecoverExpiredLeases(fence[w])
  BY <1>0, <1>2, RecoverNoneApplied, AppliedKept
<1>3. CASE Claim(w)
  <2>1. item[w].seq \in Seqs
    BY <1>3 DEF Claim, DeliveryTypeOK, WorkerTypeOK, ItemFits
  <2>2. CASE ClaimEffect(item[w].seq, fence[w])
    BY <1>0, <2>1, <2>2, ClaimNoneApplied, AppliedKept
  <2>3. QED
    BY <1>1, <1>3, <2>2 DEF Claim, outboxVars
<1>4. CASE Refuse(w) \/ PreflightFails(w) \/ LeftOut(w) \/ Rejected(w)
  <2>1. pc[w] \in Holding
    BY <1>4 DEF Refuse, PreflightFails, LeftOut, Rejected, Holding
  <2>2. \/ Persist(w, "failed", "terminal") \/ Persist(w, "failed", "recoverable")
        \/ Persist(w, "blocked_candidate", "none") \/ Requeue(w)
    BY <1>4 DEF Refuse, PreflightFails, LeftOut, Rejected
  <2>3. QED
    BY <1>0, <2>1, <2>2, OtherVerdicts, AppliedKept DEF Verdicts, ErrorClasses
<1>5. CASE Answer(w)
  <2>1. pc[w] \in Holding
    BY <1>5 DEF Answer, Holding
  <2>2. CASE Persist(w, "applied", "none")
    <3>1. CASE pc[w] = "sent" /\ Landed(w)
      BY <1>0, <2>1, <2>2, <3>1, AppliedVerdict DEF Landed, ReceiptInv
    <3>2. CASE item[w].plan = "replay"
      BY <1>0, <2>1, <2>2, <3>2, AppliedVerdict DEF Evident
    <3>3. CASE \/ Persist(w, "conflict", "none") \/ Persist(w, "blocked_candidate", "none")
               \/ Persist(w, "failed", "terminal")
      BY <1>0, <2>1, <3>3, OtherVerdicts, AppliedKept DEF Verdicts, ErrorClasses
    <3>4. QED
      BY <1>5, <3>1, <3>2, <3>3 DEF Answer
  <2>3. CASE ~Persist(w, "applied", "none")
    <3>1. \/ Persist(w, "conflict", "none") \/ Persist(w, "blocked_candidate", "none")
          \/ Persist(w, "failed", "terminal")
      BY <1>5, <2>3 DEF Answer
    <3>2. QED
      BY <1>0, <2>1, <3>1, OtherVerdicts, AppliedKept DEF Verdicts, ErrorClasses
  <2>4. QED
    BY <2>2, <2>3
<1>6. CASE SettleProbe(w)
  <2>1. pc[w] \in Holding
    BY <1>6 DEF SettleProbe, Holding
  <2>2. CASE item[w].verdict = "applied" /\ Persist(w, "applied", "none")
    BY <1>0, <2>1, <2>2, AppliedVerdict DEF Evident
  <2>3. CASE Persist(w, "failed", "terminal") \/ Requeue(w) \/ Defer(w)
    BY <1>0, <2>1, <2>3, OtherVerdicts, AppliedKept DEF Verdicts, ErrorClasses
  <2>4. QED
    BY <1>6, <2>2, <2>3 DEF SettleProbe
<1>7. CASE BeginPass(w) \/ Recover(w) \/ RenewalFails(w) \/ LosesRole(w)
  BY <1>1, <1>2, <1>7 DEF BeginPass, Recover, Recovers, RenewalFails, LosesRole, TakesOver,
                         GrantEpoch, outboxVars
<1>8. CASE List(w) \/ Preflight(w) \/ Dispatch(w) \/ NoReply(w) \/ ReadBack(w) \/ Crash(w)
  BY <1>1, <1>8 DEF List, Preflight, Dispatch, NoReply, ReadBack, Crash, outboxVars
<1>9. QED
  BY <1>3, <1>4, <1>5, <1>6, <1>7, <1>8 DEF WorkerStep

\* What a worker learns from the sheet, it learns from a receipt.
LEMMA WorkerLearns ==
    ASSUME DeliveryTypeOK, ReceiptInv, NEW w \in Workers, WorkerStep(w) \/ Crash(w)
    PROVE  \A x \in Workers : Evident(item'[x])
<1>0. /\ item \in [Workers -> Item] /\ item[w] \in Item
      /\ \A x \in Workers : Evident(item[x])
  BY DEF DeliveryTypeOK, WorkerTypeOK, ReceiptInv
<1>1. ASSUME NEW i, Evident(i), item' = [item EXCEPT ![w] = i]
      PROVE  \A x \in Workers : Evident(item'[x])
  <2>1. item'[w] = i /\ \A x \in Workers : x # w => item'[x] = item[x]
    BY <1>0, <1>1
  <2>2. QED
    BY <1>0, <1>1, <2>1
<1>2. CASE UNCHANGED item
  BY <1>0, <1>2
<1>3. CASE item' = [item EXCEPT ![w] = NoItem]
  <2>1. Evident(NoItem)
    BY DEF Evident, NoItem
  <2>2. QED
    BY <1>1, <1>3, <2>1
<1>4. CASE List(w)
  <2>1. CASE item' = [item EXCEPT ![w] = NoItem]
    BY <1>3, <2>1
  <2>2. CASE item' # [item EXCEPT ![w] = NoItem]
    <3>1. PICK s \in Seqs :
            item' = [item EXCEPT ![w] =
                       [NoItem EXCEPT !.seq = s, !.redrive = row[s].status # "pending",
                                      !.unsure = row[s].unsure # "no"]]
      BY <1>4, <2>2 DEF List, EndsPass
    <3>2. Evident([NoItem EXCEPT !.seq = s, !.redrive = row[s].status # "pending",
                                 !.unsure = row[s].unsure # "no"])
      BY DEF NoItem, Evident
    <3>3. QED
      BY <1>1, <3>1, <3>2
  <2>3. QED
    BY <2>1, <2>2
<1>5. CASE Claim(w)
  <2>1. CASE item' = [item EXCEPT ![w] = NoItem]
    BY <1>3, <2>1
  <2>2. CASE item' # [item EXCEPT ![w] = NoItem]
    <3>1. item' = [item EXCEPT ![w] = [item[w] EXCEPT !.token = row[item[w].seq].attempts + 1]]
      BY <1>5, <2>2 DEF Claim, EndsPass
    <3>2. \A t : Evident([item[w] EXCEPT !.token = t])
      BY <1>0 DEF Item, Evident
    <3>3. QED
      BY <1>1, <3>1, <3>2
  <2>3. QED
    BY <2>1, <2>2
<1>6. CASE Preflight(w)
  <2>1. item' = [item EXCEPT ![w] =
                   [item[w] EXCEPT !.plan = PlanFor(item[w].seq), !.edits = edits]]
    BY <1>6 DEF Preflight
  <2>2. PlanFor(item[w].seq) = "replay" => item[w].seq \in receipts
    BY DEF PlanFor
  <2>3. Evident([item[w] EXCEPT !.plan = PlanFor(item[w].seq), !.edits = edits])
    BY <1>0, <2>2 DEF Item, Evident
  <2>4. QED
    BY <1>1, <2>1, <2>3
<1>7. CASE ReadBack(w)
  <2>1. PICK verdict \in {Evidence(item[w].seq), "unknown"} :
          item' = [item EXCEPT ![w] = [item[w] EXCEPT !.verdict = verdict]]
    BY <1>7 DEF ReadBack
  <2>2. verdict = "applied" => item[w].seq \in receipts
    BY <2>1 DEF Evidence
  <2>3. Evident([item[w] EXCEPT !.verdict = verdict])
    BY <1>0, <2>2 DEF Item, Evident
  <2>4. QED
    BY <1>1, <2>1, <2>3
<1>8. CASE BeginPass(w) \/ Recover(w) \/ LosesRole(w) \/ Dispatch(w) \/ NoReply(w) \/ Crash(w)
  BY <1>2, <1>3, <1>8 DEF BeginPass, Recover, LosesRole, Dispatch, NoReply, Crash, TakesOver,
                         Keeps, EndsPass
<1>9. CASE Refuse(w) \/ PreflightFails(w) \/ RenewalFails(w) \/ LeftOut(w) \/ Answer(w)
           \/ Rejected(w) \/ SettleProbe(w)
  BY <1>3, <1>9 DEF Refuse, PreflightFails, RenewalFails, LeftOut, Answer, Rejected,
                   SettleProbe, Persist, Requeue, Defer, EndsPass
<1>10. QED
  BY <1>4, <1>5, <1>6, <1>7, <1>8, <1>9 DEF WorkerStep

LEMMA ReceiptStep ==
    ASSUME DeliveryTypeOK, ReceiptInv, [DeliveryNext]_deliveryVars
    PROVE  ReceiptInv'
<1>0. OutboxTypeOK /\ AppliedHasReceipt /\ RemoteTypeOK /\ receipts \in SUBSET Seqs
  BY DEF DeliveryTypeOK, ReceiptInv, RemoteTypeOK
<1>1. ASSUME NEW w \in Workers, WorkerStep(w) \/ Crash(w)
      PROVE  ReceiptInv'
  <2>1. UNCHANGED <<receipts, landings>>
    BY <1>1 DEF WorkerStep, Crash, remoteVars, BeginPass, Recover, List, Claim, Refuse,
                Preflight, PreflightFails, LosesRole, RenewalFails, LeftOut, Dispatch,
                Answer, Rejected, NoReply, ReadBack, SettleProbe, Persist, Requeue, Defer
  <2>2. AppliedHasReceipt'
    BY <1>1, <2>1, WorkerApplies DEF AppliedHasReceipt
  <2>3. \A x \in Workers : Evident(item[x])'
    BY <1>1, <2>1, WorkerLearns DEF Evident
  <2>4. QED
    BY <2>1, <2>2, <2>3 DEF ReceiptInv
<1>2. ASSUME NEW r \in flight, Land(r)
      PROVE  ReceiptInv'
  <2>1. /\ receipts' = receipts \cup {r.seq} /\ landings' = Append(landings, r)
        /\ UNCHANGED <<row, item>>
    BY <1>2 DEF Land, outboxVars, workerVars
  <2>2. AppliedHasReceipt'
    BY <1>0, <2>1 DEF AppliedHasReceipt
  <2>3. \A x \in Workers : Evident(item[x])'
    BY <2>1 DEF Evident, ReceiptInv
  <2>4. \A i \in 1 .. Len(landings') : landings'[i].seq \in receipts'
    <3>1. landings \in Seq(Request)
      BY <1>0 DEF RemoteTypeOK
    <3>2. TAKE i \in 1 .. Len(landings')
    <3>3. CASE i \in 1 .. Len(landings)
      BY <2>1, <3>1, <3>3 DEF ReceiptInv
    <3>4. CASE i = Len(landings) + 1
      BY <2>1, <3>1, <3>4
    <3>5. QED
      BY <2>1, <3>1, <3>3, <3>4
  <2>5. QED
    BY <2>2, <2>3, <2>4 DEF ReceiptInv
<1>3. ASSUME UNCHANGED <<receipts, landings, item>>, NoneApplied
      PROVE  ReceiptInv'
  <2>1. AppliedHasReceipt'
    BY <1>0, <1>3, AppliedKept DEF AppliedHasReceipt
  <2>2. QED
    BY <1>3, <2>1 DEF ReceiptInv, Evident
<1>4. ASSUME UNCHANGED <<receipts, landings, item, row>>
      PROVE  ReceiptInv'
  BY <1>3, <1>4 DEF NoneApplied
<1>5. CASE \E r \in flight : Drop(r)
  BY <1>4, <1>5 DEF Drop, outboxVars, workerVars
<1>6. ASSUME NEW n \in Seqs, Flush(n)
      PROVE  ReceiptInv'
  BY <1>0, <1>3, <1>6, AppendNoneApplied DEF Flush, remoteVars, workerVars
<1>7. ASSUME NEW n \in Seqs, NEW s \in Seqs, Correct(s, n)
      PROVE  ReceiptInv'
  BY <1>0, <1>3, <1>7, ReplanNoneApplied DEF Correct, remoteVars, workerVars
<1>8. ASSUME NEW s \in Seqs, Elapse(s)
      PROVE  ReceiptInv'
  BY <1>0, <1>3, <1>8, TimeNoneApplied DEF Elapse, remoteVars, workerVars
<1>9. CASE \E v \in EditValues : HumanEdit(v)
  BY <1>4, <1>9 DEF HumanEdit, outboxVars, workerVars
<1>10. CASE UNCHANGED deliveryVars
  BY <1>4, <1>10 DEF deliveryVars, outboxVars, remoteVars, workerVars
<1>11. QED
  BY <1>1, <1>2, <1>5, <1>6, <1>7, <1>8, <1>9, <1>10 DEF DeliveryNext

LEMMA ReceiptInit == DeliveryInit => ReceiptInv
BY FreshRows DEF DeliveryInit, OutboxInit, ReceiptInv, Evident, NoItem, AppliedHasReceipt

\* An effect is closed as applied only if its receipt is in the sheet, also
\* when requests execute late, people type the target value, workers crash,
\* lose their role or act on claims that are gone.
THEOREM AppliedOnlyWithReceipt == DeliverySpec => []AppliedHasReceipt
<1>1. DeliveryTypeOK /\ ReceiptInv /\ [DeliveryNext]_deliveryVars => ReceiptInv'
  BY ReceiptStep
<1>2. ReceiptInv => AppliedHasReceipt
  BY DEF ReceiptInv
<1>3. QED
  BY <1>1, <1>2, ReceiptInit, DeliveryTypeCorrect, PTL DEF DeliverySpec

-----------------------------------------------------------------------------
(***************************************************************************)
(* What reaches the sheet when no request executes after its sender's time *)
(* ran out (LateWrites = FALSE).                                           *)
(*                                                                         *)
(* A request in flight belongs to a live claim, and a live claim has one   *)
(* worker, which waits for the answer.  So nobody else holds a plan that   *)
(* may still be sent, and when the request lands every earlier effect is   *)
(* closed and no later one has been claimed.                               *)
(***************************************************************************)

(* The inductive invariant.                                                *)

\* The claim that c names (a request, or what a pass holds) decides its row.
Owned(c) ==
    /\ row[c.seq].status = "processing"
    /\ row[c.seq].token = c.token
    /\ row[c.seq].live

SameClaim(c, d) == c.seq = d.seq /\ c.token = d.token

\* The row is as the preflight of c read it, unless it was edited since.
Current(c) ==
    c.edits = edits => sheet = IF c.plan = "write" THEN base[c.seq] ELSE Target(c.seq)

\* A worker holds a plan that it may still send.
Prepared(w) ==
    pc[w] = "planned" /\ item[w].plan \in {"write", "stamp"} /\ Owned(item[w])

\* A claim has one worker, and was issued.
ClaimsOfWorkers ==
    /\ \A w \in Workers : pc[w] \in Holding => item[w].token <= row[item[w].seq].attempts
    /\ \A w, x \in Workers :
         pc[w] \in Holding /\ pc[x] \in Holding /\ SameClaim(item[w], item[x]) => w = x

\* There is one request, of a live claim, whose worker waits for the answer.
OneRequest ==
    /\ \A r, q \in flight : r = q
    /\ \A r \in flight : Owned(r)
    /\ \A r \in flight, w \in Workers :
         pc[w] \in Holding /\ SameClaim(item[w], r) => pc[w] = "sent"

\* What was sent, and what may be sent, is not in the sheet and still fits.
PlansFit ==
    /\ \A r \in flight : r.seq \notin receipts /\ Current(r) /\ r.edits <= edits
    /\ \A w \in Workers : item[w].edits <= edits
    /\ \A w \in Workers : Prepared(w) => item[w].seq \notin receipts /\ Current(item[w])

\* What landed has its receipt, and landed behind closed effects only.
LandedBehindClosed ==
    \A i \in 1 .. Len(landings) :
        /\ landings[i].seq \in receipts
        /\ \A p \in Seqs : p < landings[i].seq => row[p].status \in Settled

\* A row that was never appended was never claimed.
AbsentUnclaimed == \A s \in Seqs : row[s].status = "absent" => row[s].attempts = 0

LandInv ==
    /\ DeliveryTypeOK
    /\ OrderInv
    /\ AbsentUnclaimed
    /\ ClaimsOfWorkers
    /\ OneRequest
    /\ PlansFit
    /\ LandedBehindClosed
    /\ LandsOnceInOrder

-----------------------------------------------------------------------------
(* What a step of the outbox does to a row.                                *)

\* Attempts grow, a settled row stays settled, and a claim that was issued is
\* not made live again.
Moved(a, b) ==
    /\ b.attempts >= a.attempts
    /\ a.status \in Settled => b.status \in Settled
    /\ b.status = "processing" /\ b.live /\ b.token <= a.attempts
       => a.status = "processing" /\ a.live /\ a.token = b.token
    /\ b.status = "absent" => a.status = "absent" /\ b.attempts = a.attempts

RowsMove == \A s \in Seqs : Moved(row[s], row'[s])

LEMMA MovedSame == \A a \in Row : Moved(a, a)
BY DEF Moved, Row

LEMMA MovedOff ==
    ASSUME NEW a \in Row, NEW b \in Row, b.attempts = a.attempts,
           a.status \notin Settled, b.status \notin {"absent", "processing"}
    PROVE  Moved(a, b)
BY DEF Moved, Row

LEMMA MovedClaim ==
    ASSUME NEW a \in Row, NEW b \in Row, b.attempts = a.attempts + 1, b.token = a.attempts + 1,
           a.status \notin Settled, b.status = "processing"
    PROVE  Moved(a, b)
BY DEF Moved, Row

LEMMA MovedNew ==
    ASSUME NEW a \in Row, a.status = "absent", a.attempts = 0
    PROVE  Moved(a, NewRow)
<1>1. /\ NewRow.attempts = 0 /\ NewRow.status = "pending"
      /\ a.status \notin Settled
  BY FreshRows DEF Settled
<1>2. QED
  BY <1>1 DEF Moved

LEMMA MovedInTime ==
    ASSUME NEW a \in Row
    PROVE  /\ Moved(a, [a EXCEPT !.live = FALSE])
           /\ Moved(a, [a EXCEPT !.due = TRUE])
           /\ Moved(a, [a EXCEPT !.unsure = "overdue"])
BY DEF Moved, Row

LEMMA OneRowMoves ==
    ASSUME OutboxTypeOK, NEW s \in Seqs, NEW r, row' = [row EXCEPT ![s] = r], Moved(row[s], r)
    PROVE  RowsMove
<1>1. row'[s] = r /\ \A x \in Seqs : x # s => row'[x] = row[x]
  BY DEF OutboxTypeOK
<1>2. \A x \in Seqs : row[x] \in Row
  BY DEF OutboxTypeOK
<1>3. QED
  BY <1>1, <1>2, MovedSame DEF RowsMove

LEMMA RowsKept ==
    ASSUME OutboxTypeOK, UNCHANGED row
    PROVE  RowsMove
BY MovedSame DEF RowsMove, OutboxTypeOK

LEMMA RowStep ==
    ASSUME OutboxTypeOK, AbsentUnclaimed, [OutboxNext]_outboxVars
    PROVE  RowsMove
<1>0. /\ \A e \in 1 .. epoch : e \in Nat
      /\ \A s \in Seqs : row[s] \in Row /\ row[s].attempts \in Nat
  BY DEF OutboxTypeOK, Row
<1>1. CASE GrantEpoch \/ UNCHANGED outboxVars
  BY <1>1, RowsKept DEF GrantEpoch, outboxVars
<1>2. ASSUME NEW e \in 1 .. epoch, RecoverExpiredLeases(e)
      PROVE  RowsMove
  <2>1. ASSUME NEW s \in Seqs, row[s].status = "processing"
        PROVE  Moved(row[s], Recovered(row[s]))
    BY <1>0, <2>1, RecoveredFact, MovedOff DEF Settled
  <2>2. \A s \in Seqs : \/ row'[s] = row[s]
                        \/ row[s].status = "processing" /\ row'[s] = Recovered(row[s])
    BY <1>0, <1>2, RecoverFact
  <2>3. QED
    BY <1>0, <2>1, <2>2, MovedSame DEF RowsMove
<1>3. ASSUME NEW n \in Seqs, AppendPending(n)
      PROVE  RowsMove
  <2>1. row[n].status = "absent" /\ row' = [row EXCEPT ![n] = NewRow]
    BY <1>3 DEF AppendPending, NextSeq
  <2>2. Moved(row[n], NewRow)
    BY <1>0, <2>1, MovedNew DEF AbsentUnclaimed
  <2>3. QED
    BY <2>1, <2>2, OneRowMoves
<1>4. ASSUME NEW s \in Seqs, NEW e \in 1 .. epoch, ClaimEffect(s, e)
      PROVE  RowsMove
  <2>1. PICK r \in Row : /\ row' = [row EXCEPT ![s] = r]
                         /\ r.status = "processing"
                         /\ r.attempts = row[s].attempts + 1
                         /\ r.token = row[s].attempts + 1
    BY <1>0, <1>4, ClaimStep
  <2>2. row[s].status \notin Settled
    BY <1>0, <1>4, ClaimStep DEF Settled
  <2>3. Moved(row[s], r)
    BY <1>0, <2>1, <2>2, MovedClaim
  <2>4. QED
    BY <2>1, <2>3, OneRowMoves
<1>5. ASSUME NEW s \in Seqs, NEW t \in 1 .. row[s].attempts, NEW e \in 1 .. epoch,
             HolderStep(s, t, e)
      PROVE  RowsMove
  <2>1. t \in Nat
    BY <1>0
  <2>2. row[s].status = "processing"
    BY <1>0, <1>5, <2>1, HolderFact DEF Holds
  <2>3. CASE UNCHANGED outboxVars
    BY <1>1, <2>3
  <2>4. ASSUME NEW r \in Row, row' = [row EXCEPT ![s] = r], r.status # "absent",
               r.status # "processing", r.attempts = row[s].attempts
        PROVE  RowsMove
    <3>1. Moved(row[s], r)
      BY <1>0, <2>2, <2>4, MovedOff DEF Settled
    <3>2. QED
      BY <2>4, <3>1, OneRowMoves
  <2>5. QED
    BY <1>0, <1>5, <2>1, <2>3, <2>4, HolderFact
<1>6. ASSUME NEW s \in Seqs, Supersedable(s),
             NEW r \in Row, r = [row[s] EXCEPT !.status = "superseded"]
      PROVE  Moved(row[s], r)
  <2>1. r.status = "superseded" /\ r.attempts = row[s].attempts
    BY <1>0, <1>6 DEF Row
  <2>2. row[s].status \notin Settled
    BY <1>6 DEF Supersedable, Settled, Unsettled
  <2>3. QED
    BY <1>0, <2>1, <2>2, MovedOff
<1>7. ASSUME NEW s \in Seqs, SupersedeEffect(s)
      PROVE  RowsMove
  <2>1. PICK r \in Row : r = [row[s] EXCEPT !.status = "superseded"]
    BY SupersedeStep
  <2>2. row' = [row EXCEPT ![s] = r]
    BY <1>7, <2>1, Zenon DEF SupersedeEffect
  <2>3. QED
    BY <1>6, <1>7, <2>1, <2>2, OneRowMoves DEF SupersedeEffect
<1>8. ASSUME NEW s \in Seqs, NEW n \in Seqs, SupersedeAndReplan(s, n)
      PROVE  RowsMove
  <2>1. PICK r \in Row : r = [row[s] EXCEPT !.status = "superseded"]
    BY SupersedeStep
  <2>2. /\ row'[s] = r /\ row'[n] = NewRow
        /\ \A x \in Seqs : x # s /\ x # n => row'[x] = row[x]
    BY <1>8, <2>1, ReplanFact
  <2>3. Moved(row[s], row'[s])
    BY <1>6, <1>8, <2>1, <2>2 DEF SupersedeAndReplan
  <2>4. Moved(row[n], row'[n])
    BY <1>0, <1>8, <2>2, MovedNew DEF SupersedeAndReplan, NextSeq, AbsentUnclaimed
  <2>5. QED
    BY <1>0, <2>2, <2>3, <2>4, MovedSame DEF RowsMove
<1>9. ASSUME NEW s \in Seqs, LeaseEnds(s) \/ ComesDue(s) \/ GrowsOverdue(s)
      PROVE  RowsMove
  <2>1. \/ row' = [row EXCEPT ![s] = [row[s] EXCEPT !.live = FALSE]]
        \/ row' = [row EXCEPT ![s] = [row[s] EXCEPT !.due = TRUE]]
        \/ row' = [row EXCEPT ![s] = [row[s] EXCEPT !.unsure = "overdue"]]
    BY <1>9, Zenon DEF LeaseEnds, ComesDue, GrowsOverdue
  <2>2. QED
    BY <1>0, <2>1, MovedInTime, OneRowMoves
<1>10. QED
  BY <1>1, <1>2, <1>3, <1>4, <1>5, <1>7, <1>8, <1>9 DEF OutboxNext

-----------------------------------------------------------------------------
(* What a step of a worker does.                                           *)

Elsewhere(w) ==
    /\ UNCHANGED <<base, sheet, receipts, landings, edits>>
    /\ \A x \in Workers : x # w => pc'[x] = pc[x] /\ item'[x] = item[x]

OwnedKept == \A r \in flight : Owned(r) => Owned(r)'

\* The pass holds no claim, or no longer.
HoldsNothing(w) ==
    /\ pc'[w] \notin Holding
    /\ item'[w].edits <= edits
    /\ flight' = flight
    /\ OwnedKept

TakesClaim(w) ==
    LET s == item[w].seq IN
    /\ s \in Seqs
    /\ row[s].status \in {"pending", "failed", "delivery_uncertain"}
    /\ row'[s].attempts = row[s].attempts + 1
    /\ \A x \in Seqs : x # s => row'[x] = row[x]
    /\ pc'[w] \in {"claimed", "probing"}
    /\ item'[w].seq = s /\ item'[w].token = row[s].attempts + 1
    /\ item'[w].edits = item[w].edits
    /\ flight' = flight

MakesPlan(w) ==
    /\ pc[w] = "claimed" /\ pc'[w] = "planned"
    /\ SameClaim(item'[w], item[w])
    /\ item'[w].plan = PlanFor(item[w].seq) /\ item'[w].edits = edits
    /\ UNCHANGED <<row, flight>>

Sends(w) ==
    /\ Prepared(w) /\ pc'[w] = "sent"
    /\ item'[w] = item[w]
    /\ flight' = flight \cup {RequestOf(w)}
    /\ UNCHANGED row

\* It goes on with the claim it has, and waits for no answer.
GoesOn(w) ==
    /\ pc[w] \in Holding /\ pc'[w] \in {"answered", "probing", "read"}
    /\ pc[w] = "sent" => \A r \in flight : ~SameClaim(item[w], r)
    /\ SameClaim(item'[w], item[w]) /\ item'[w].edits = item[w].edits
    /\ UNCHANGED <<row, flight>>

Acts(w) == HoldsNothing(w) \/ TakesClaim(w) \/ MakesPlan(w) \/ Sends(w) \/ GoesOn(w)

LEMMA RecoverOwned ==
    ASSUME OutboxTypeOK, NEW e \in Nat, RecoverExpiredLeases(e), flight \in SUBSET Request
    PROVE  OwnedKept
<1>1. \A s \in Seqs : row[s].live => row'[s] = row[s]
  BY DEF RecoverExpiredLeases, Lapsed
<1>2. \A r \in flight : r.seq \in Seqs
  BY DEF Request
<1>3. QED
  BY <1>1, <1>2 DEF OwnedKept, Owned

LEMMA OtherRowOwned ==
    ASSUME NEW s \in Seqs, \A x \in Seqs : x # s => row'[x] = row[x],
           flight \in SUBSET Request,
           \A r \in flight : Owned(r) => r.seq # s
    PROVE  OwnedKept
BY DEF OwnedKept, Owned, Request

\* A verdict, a requeue or a deferral changes the row of a claim that is held;
\* while it has a request in flight, its worker gives none.
LEMMA VerdictOwned ==
    ASSUME LandInv, NEW w \in Workers, pc[w] \in Holding,
           \A r \in flight : ~SameClaim(item[w], r),
           NEW verdict, NEW class,
           Persist(w, verdict, class) \/ Requeue(w) \/ Defer(w)
    PROVE  OwnedKept
<1>0. /\ OutboxTypeOK /\ item[w].seq \in Seqs /\ flight \in SUBSET Request
      /\ \A r \in flight : r.seq \in Seqs
  BY DEF LandInv, DeliveryTypeOK, WorkerTypeOK, RemoteTypeOK, ItemFits, Request
<1>1. CASE UNCHANGED outboxVars
  BY <1>1 DEF outboxVars, OwnedKept, Owned
<1>2. CASE Held(w)
  <2>1. \A x \in Seqs : x # item[w].seq => row'[x] = row[x]
    BY <1>0, <1>2 DEF Persist, Requeue, Defer, ApplyEffectResult, RequeueEffect,
                      MarkDeliveryUncertain, OutboxTypeOK
  <2>2. \A r \in flight : Owned(r) => r.seq # item[w].seq
    BY <1>2 DEF Held, Holds, Owned, SameClaim
  <2>3. QED
    BY <1>0, <2>1, <2>2, OtherRowOwned
<1>3. QED
  BY <1>1, <1>2 DEF Persist, Requeue, Defer

LEMMA EndsHoldingNothing ==
    ASSUME LandInv, NEW w \in Workers, OwnedKept, UNCHANGED remoteVars, EndsPass(w)
    PROVE  HoldsNothing(w)
<1>1. pc'[w] = "idle" /\ item'[w] = NoItem /\ edits \in Nat
  BY DEF EndsPass, Goes, LandInv, DeliveryTypeOK, WorkerTypeOK, RemoteTypeOK
<1>2. NoItem.edits = 0 /\ "idle" \notin Holding
  BY DEF NoItem, Holding
<1>3. QED
  BY <1>1, <1>2 DEF HoldsNothing, remoteVars

LEMMA EndsByVerdict ==
    ASSUME LandInv, NEW w \in Workers, pc[w] \in Holding,
           \A r \in flight : ~SameClaim(item[w], r),
           NEW verdict, NEW class,
           Persist(w, verdict, class) \/ Requeue(w) \/ Defer(w)
    PROVE  HoldsNothing(w)
<1>1. OwnedKept
  BY VerdictOwned
<1>2. EndsPass(w) /\ UNCHANGED remoteVars
  BY DEF Persist, Requeue, Defer
<1>3. QED
  BY <1>1, <1>2, EndsHoldingNothing

\* Only a worker that waits for its answer has a request in flight.
LEMMA NotSent ==
    ASSUME LandInv, NEW w \in Workers, pc[w] \in Holding, pc[w] # "sent"
    PROVE  \A r \in flight : ~SameClaim(item[w], r)
BY DEF LandInv, OneRequest

LEMMA NoneInFlight ==
    ASSUME NEW w, ~InFlight(w)
    PROVE  \A r \in flight : ~SameClaim(item[w], r)
BY DEF InFlight, SameClaim

LEMMA LandedIsGone ==
    ASSUME LandInv, NEW w \in Workers, Landed(w)
    PROVE  \A r \in flight : ~SameClaim(item[w], r)
BY DEF LandInv, Landed, LandedBehindClosed, PlansFit, SameClaim

LEMMA WorkerElsewhere ==
    ASSUME DeliveryTypeOK, NEW w \in Workers, WorkerStep(w) \/ Crash(w)
    PROVE  Elsewhere(w)
<1>0. pc \in [Workers -> Places] /\ item \in [Workers -> Item]
  BY DEF DeliveryTypeOK, WorkerTypeOK
<1>1. UNCHANGED <<base, sheet, receipts, landings, edits>>
  BY DEF WorkerStep, Crash, remoteVars, BeginPass, Recover, List, Claim, Refuse,
         Preflight, PreflightFails, LosesRole, RenewalFails, LeftOut, Dispatch,
         Answer, Rejected, NoReply, ReadBack, SettleProbe, Persist, Requeue, Defer
<1>2. /\ UNCHANGED item \/ \E i : item' = [item EXCEPT ![w] = i]
      /\ \E place : pc' = [pc EXCEPT ![w] = place]
  <2>1. CASE EndsPass(w)
    BY <2>1 DEF EndsPass, Goes
  <2>2. CASE BeginPass(w) \/ LosesRole(w) \/ Crash(w)
    BY <2>1, <2>2 DEF BeginPass, LosesRole, Crash, TakesOver
  <2>3. CASE Recover(w) \/ Dispatch(w) \/ NoReply(w)
    BY <2>1, <2>3 DEF Recover, Dispatch, NoReply, Keeps, Goes
  <2>4. CASE List(w) \/ Claim(w) \/ Preflight(w) \/ ReadBack(w)
    BY <2>1, <2>4 DEF List, Claim, Preflight, ReadBack, Goes
  <2>5. WorkerStep(w) \/ Crash(w) =>
          \/ EndsPass(w) \/ BeginPass(w) \/ LosesRole(w) \/ Crash(w) \/ Recover(w)
          \/ Dispatch(w) \/ NoReply(w) \/ List(w) \/ Claim(w) \/ Preflight(w) \/ ReadBack(w)
    BY DEF WorkerStep, Refuse, PreflightFails, RenewalFails, LeftOut, Answer, Rejected,
           SettleProbe, Persist, Requeue, Defer
  <2>6. QED
    BY <2>1, <2>2, <2>3, <2>4, <2>5
<1>3. QED
  BY <1>0, <1>1, <1>2 DEF Elsewhere

LEMMA WorkerActs ==
    ASSUME ~LateWrites, LandInv, NEW w \in Workers, WorkerStep(w) \/ Crash(w)
    PROVE  Acts(w)
<1>0. /\ DeliveryTypeOK /\ OutboxTypeOK /\ WorkerTypeOK /\ flight \in SUBSET Request
      /\ pc \in [Workers -> Places] /\ item \in [Workers -> Item] /\ item[w] \in Item
      /\ fence[w] \in Nat /\ edits \in Nat /\ item[w].edits <= edits
      /\ NoItem.edits = 0
  BY DEF LandInv, DeliveryTypeOK, WorkerTypeOK, RemoteTypeOK, PlansFit, NoItem
<1>1. UNCHANGED outboxVars => OwnedKept
  BY DEF outboxVars, OwnedKept, Owned
<1>2. ASSUME NEW verdict, NEW class, pc[w] \in Holding,
             \A r \in flight : ~SameClaim(item[w], r),
             Persist(w, verdict, class) \/ Requeue(w) \/ Defer(w)
      PROVE  HoldsNothing(w)
  BY <1>2, EndsByVerdict
<1>3. ASSUME NEW place \in {"recovering", "adopted"}, TakesOver(w, place),
             UNCHANGED <<base, remoteVars>>
      PROVE  HoldsNothing(w)
  <2>1. pc'[w] \notin Holding /\ item'[w] = NoItem
    BY <1>0, <1>3 DEF TakesOver, Holding
  <2>2. OwnedKept
    BY <1>3 DEF TakesOver, GrantEpoch, OwnedKept, Owned
  <2>3. QED
    BY <1>0, <1>3, <2>1, <2>2 DEF HoldsNothing, remoteVars
<1>4. CASE BeginPass(w)
  <2>1. CASE TakesOver(w, "recovering")
    BY <1>3, <1>4, <2>1 DEF BeginPass, Acts
  <2>2. CASE ~TakesOver(w, "recovering")
    <3>1. pc'[w] = "recovering" /\ item' = item /\ UNCHANGED outboxVars /\ flight' = flight
      BY <1>0, <1>4, <2>2 DEF BeginPass, remoteVars
    <3>2. QED
      BY <1>0, <1>1, <3>1 DEF HoldsNothing, Holding, Acts
  <2>3. QED
    BY <2>1, <2>2
<1>5. CASE Recover(w)
  <2>1. OwnedKept
    BY <1>0, <1>1, <1>5, RecoverOwned DEF Recover, Recovers
  <2>2. CASE EndsPass(w)
    BY <1>5, <2>1, <2>2, EndsHoldingNothing DEF Recover, Acts
  <2>3. CASE Keeps(w, "listing")
    BY <1>0, <1>5, <2>1, <2>3 DEF Recover, Keeps, Goes, HoldsNothing, Holding, remoteVars, Acts
  <2>4. QED
    BY <1>5, <2>2, <2>3 DEF Recover
<1>6. CASE List(w)
  <2>0. UNCHANGED outboxVars /\ UNCHANGED remoteVars
    BY <1>6 DEF List
  <2>1. CASE EndsPass(w)
    BY <1>1, <2>0, <2>1, EndsHoldingNothing DEF Acts
  <2>2. CASE ~EndsPass(w)
    <3>1. PICK s \in Seqs :
            /\ item' = [item EXCEPT ![w] =
                          [NoItem EXCEPT !.seq = s,
                                         !.redrive = row[s].status # "pending",
                                         !.unsure = row[s].unsure # "no"]]
            /\ Goes(w, "listed")
      BY <1>6, <2>2 DEF List
    <3>2. item'[w].edits = 0 /\ pc'[w] = "listed"
      BY <1>0, <3>1 DEF NoItem, Goes
    <3>3. QED
      BY <1>0, <1>1, <2>0, <3>2 DEF HoldsNothing, Holding, remoteVars, Acts
  <2>3. QED
    BY <2>1, <2>2
<1>7. CASE Claim(w)
  <2> DEFINE s == item[w].seq
  <2>0. s \in Seqs
    BY <1>0, <1>7 DEF Claim, WorkerTypeOK, ItemFits
  <2>1. CASE EndsPass(w)
    <3>1. pc'[w] = "idle"
      BY <1>0, <2>1 DEF EndsPass, Goes
    <3>2. UNCHANGED outboxVars /\ UNCHANGED remoteVars
      BY <1>0, <1>7, <3>1 DEF Claim, Goes
    <3>3. QED
      BY <1>1, <2>1, <3>2, EndsHoldingNothing DEF Acts
  <2>2. CASE ~EndsPass(w)
    <3>1. /\ ClaimEffect(s, fence[w]) /\ UNCHANGED remoteVars
          /\ item' = [item EXCEPT ![w] = [item[w] EXCEPT !.token = row[s].attempts + 1]]
          /\ Goes(w, IF item[w].redrive THEN "probing" ELSE "claimed")
      BY <1>7, <2>2 DEF Claim
    <3>2. /\ item'[w].seq = s /\ item'[w].token = row[s].attempts + 1
          /\ item'[w].edits = item[w].edits
      BY <1>0, <3>1 DEF Item
    <3>3. /\ row[s].status \in {"pending", "failed", "delivery_uncertain"}
          /\ row'[s].attempts = row[s].attempts + 1
          /\ \A x \in Seqs : x # s => row'[x] = row[x]
      BY <1>0, <2>0, <3>1, ClaimStep DEF OutboxTypeOK
    <3>4. pc'[w] \in {"claimed", "probing"}
      BY <1>0, <3>1 DEF Goes
    <3>5. QED
      BY <2>0, <3>1, <3>2, <3>3, <3>4 DEF TakesClaim, remoteVars, Acts
  <2>3. QED
    BY <2>1, <2>2
<1>8. CASE Refuse(w) \/ PreflightFails(w) \/ LeftOut(w)
  <2>1. pc[w] \in Holding /\ pc[w] # "sent"
    BY <1>8 DEF Refuse, PreflightFails, LeftOut, Holding
  <2>2. Persist(w, "failed", "terminal") \/ Persist(w, "blocked_candidate", "none") \/ Requeue(w)
    BY <1>8 DEF Refuse, PreflightFails, LeftOut
  <2>3. QED
    BY <1>2, <2>1, <2>2, NotSent DEF Acts
<1>9. CASE Preflight(w)
  <2>1. /\ pc[w] = "claimed" /\ pc'[w] = "planned"
        /\ item' = [item EXCEPT ![w] =
                      [item[w] EXCEPT !.plan = PlanFor(item[w].seq), !.edits = edits]]
    BY <1>0, <1>9 DEF Preflight, Goes
  <2>2. /\ item'[w].seq = item[w].seq /\ item'[w].token = item[w].token
        /\ item'[w].plan = PlanFor(item[w].seq) /\ item'[w].edits = edits
    BY <1>0, <2>1 DEF Item
  <2>3. UNCHANGED <<row, flight>>
    BY <1>9 DEF Preflight, outboxVars, remoteVars
  <2>4. QED
    BY <2>1, <2>2, <2>3 DEF MakesPlan, SameClaim, Acts
<1>10. CASE LosesRole(w)
  <2>1. CASE TakesOver(w, "adopted")
    BY <1>3, <1>10, <2>1 DEF LosesRole, Acts
  <2>2. CASE ~TakesOver(w, "adopted")
    BY <1>1, <1>10, <2>2, EndsHoldingNothing DEF LosesRole, Acts
  <2>3. QED
    BY <2>1, <2>2
<1>11. CASE RenewalFails(w)
  BY <1>0, <1>11, RecoverOwned, EndsHoldingNothing DEF RenewalFails, Acts
<1>12. CASE Dispatch(w)
  <2>1. Owned(item[w]) /\ pc[w] = "planned" /\ UNCHANGED row
    BY <1>12 DEF Dispatch, MayDispatch, Held, Holds, Owned, outboxVars
  <2>2. CASE item[w].plan \in {"write", "stamp"}
    <3>1. flight' = flight \cup {RequestOf(w)} /\ pc'[w] = "sent" /\ item' = item
      BY <1>0, <1>12, <2>2 DEF Dispatch, Keeps, Goes
    <3>2. QED
      BY <2>1, <2>2, <3>1 DEF Sends, Prepared, Acts
  <2>3. CASE item[w].plan \notin {"write", "stamp"}
    <3>1. flight' = flight /\ pc'[w] = "answered" /\ item' = item
      BY <1>0, <1>12, <2>3 DEF Dispatch, Keeps, Goes
    <3>2. QED
      BY <2>1, <3>1 DEF GoesOn, SameClaim, Holding, Acts
  <2>4. QED
    BY <2>2, <2>3
<1>13. CASE Answer(w)
  <2>1. pc[w] \in Holding
    BY <1>13 DEF Answer, Holding
  <2>2. \A r \in flight : ~SameClaim(item[w], r)
    BY <1>13, <2>1, NotSent, LandedIsGone DEF Answer
  <2>3. \/ Persist(w, "applied", "none") \/ Persist(w, "conflict", "none")
        \/ Persist(w, "blocked_candidate", "none") \/ Persist(w, "failed", "terminal")
    BY <1>13 DEF Answer
  <2>4. QED
    BY <1>2, <2>1, <2>2, <2>3 DEF Acts
<1>14. CASE Rejected(w)
  <2>1. pc[w] \in Holding /\ ~InFlight(w)
    BY <1>14 DEF Rejected, Holding
  <2>2. Persist(w, "failed", "terminal") \/ Persist(w, "failed", "recoverable")
    BY <1>14 DEF Rejected
  <2>3. QED
    BY <1>2, <2>1, <2>2, NoneInFlight DEF Acts
<1>15. CASE NoReply(w)
  <2>1. /\ pc[w] = "sent" /\ pc'[w] = "probing" /\ item' = item
        /\ ~InFlight(w) /\ UNCHANGED <<row, flight>>
    BY <1>0, <1>15 DEF NoReply, Keeps, Goes, outboxVars, remoteVars
  <2>2. QED
    BY <2>1, NoneInFlight DEF GoesOn, SameClaim, Holding, Acts
<1>16. CASE ReadBack(w)
  <2>1. PICK verdict : item' = [item EXCEPT ![w] = [item[w] EXCEPT !.verdict = verdict]]
    BY <1>16 DEF ReadBack
  <2>2. /\ item'[w].seq = item[w].seq /\ item'[w].token = item[w].token
        /\ item'[w].edits = item[w].edits
    BY <1>0, <2>1 DEF Item
  <2>3. pc[w] = "probing" /\ pc'[w] = "read" /\ UNCHANGED <<row, flight>>
    BY <1>0, <1>16 DEF ReadBack, Goes, outboxVars, remoteVars
  <2>4. QED
    BY <2>2, <2>3 DEF GoesOn, SameClaim, Holding, Acts
<1>17. CASE SettleProbe(w)
  <2>1. pc[w] \in Holding /\ pc[w] # "sent"
    BY <1>17 DEF SettleProbe, Holding
  <2>2. \/ Persist(w, "applied", "none") \/ Persist(w, "failed", "terminal")
        \/ Requeue(w) \/ Defer(w)
    BY <1>17 DEF SettleProbe
  <2>3. QED
    BY <1>2, <2>1, <2>2, NotSent DEF Acts
<1>18. CASE Crash(w)
  <2>1. pc'[w] = "idle" /\ item'[w] = NoItem /\ UNCHANGED outboxVars /\ flight' = flight
    BY <1>0, <1>18 DEF Crash, remoteVars
  <2>2. QED
    BY <1>0, <1>1, <2>1 DEF HoldsNothing, Holding, Acts
<1>19. QED
  BY <1>4, <1>5, <1>6, <1>7, <1>8, <1>9, <1>10, <1>11, <1>12, <1>13, <1>14, <1>15,
     <1>16, <1>17, <1>18 DEF WorkerStep

-----------------------------------------------------------------------------
(* Workers keep the invariant.                                             *)

LEMMA LandFacts ==
    ASSUME LandInv
    PROVE  /\ OutboxTypeOK /\ WorkerTypeOK /\ flight \in SUBSET Request
           /\ edits \in Nat /\ receipts \in SUBSET Seqs /\ landings \in Seq(Request)
           /\ \A r \in flight : r.seq \in Seqs /\ r.token \in Nat /\ r.edits \in Nat
           /\ \A s \in Seqs : row[s] \in Row /\ row[s].attempts \in Nat /\ row[s].token \in Nat
                              /\ row[s].token <= row[s].attempts
           /\ \A w \in Workers : item[w] \in Item /\ item[w].token \in Nat /\ item[w].edits \in Nat
           /\ \A w \in Workers : pc[w] \in Holding => item[w].seq \in Seqs /\ item[w].token > 0
BY DEF LandInv, DeliveryTypeOK, WorkerTypeOK, RemoteTypeOK, OutboxTypeOK, Request, Item, Row,
       ItemFits

\* Two claims in progress are one: an effect in progress is the stream's head.
LEMMA OneInProgress ==
    ASSUME LandInv, NEW c, NEW d, c.seq \in Seqs, d.seq \in Seqs, Owned(c), Owned(d)
    PROVE  SameClaim(c, d)
<1>1. \A p, s \in Seqs : p < s /\ row[p].status = "processing" => row[s].status # "processing"
  BY DEF LandInv, OrderInv, InOrder, Settled
<1>2. c.seq = d.seq
  BY <1>1 DEF Owned, Seqs
<1>3. QED
  BY <1>2 DEF Owned, SameClaim

LEMMA RowsMoveStep ==
    ASSUME LandInv, [DeliveryNext]_deliveryVars
    PROVE  RowsMove
BY OutboxPart, RowStep DEF LandInv, DeliveryTypeOK

LEMMA AbsentStep ==
    ASSUME LandInv, RowsMove
    PROVE  AbsentUnclaimed'
BY DEF LandInv, AbsentUnclaimed, RowsMove, Moved

\* A claim that was issued is owned after a step only if it was before.
LEMMA NotOwnedAgain ==
    ASSUME RowsMove, NEW c, c.seq \in Seqs, c.token <= row[c.seq].attempts, Owned(c)'
    PROVE  Owned(c)
BY DEF RowsMove, Moved, Owned

LEMMA WorkerClaims ==
    ASSUME LandInv, RowsMove, NEW w \in Workers, Elsewhere(w), Acts(w), OutboxTypeOK'
    PROVE  ClaimsOfWorkers'
<1>0. /\ \A s \in Seqs : row'[s].attempts \in Nat /\ row'[s].attempts >= row[s].attempts
      /\ \A x \in Workers : x # w => pc'[x] = pc[x] /\ item'[x] = item[x]
      /\ \A x \in Workers : pc[x] \in Holding => item[x].token <= row[item[x].seq].attempts
      /\ \A x, y \in Workers :
           pc[x] \in Holding /\ pc[y] \in Holding /\ SameClaim(item[x], item[y]) => x = y
  BY DEF RowsMove, Moved, Elsewhere, LandInv, ClaimsOfWorkers, OutboxTypeOK, Row
<1>1. \A x \in Workers : x # w /\ pc'[x] \in Holding => item'[x].token <= row'[item'[x].seq].attempts
  BY <1>0, LandFacts
<1> SUFFICES /\ pc'[w] \in Holding => item'[w].token <= row'[item'[w].seq].attempts
             /\ \A x \in Workers : x # w /\ pc'[w] \in Holding /\ pc[x] \in Holding
                                   => ~SameClaim(item'[w], item[x])
  BY <1>0, <1>1 DEF ClaimsOfWorkers, SameClaim
<1>2. CASE HoldsNothing(w)
  BY <1>2 DEF HoldsNothing
<1>3. CASE TakesClaim(w)
  BY <1>0, <1>3, LandFacts DEF TakesClaim, SameClaim
<1>4. CASE pc[w] \in Holding /\ SameClaim(item'[w], item[w])
  BY <1>0, <1>4, LandFacts DEF SameClaim
<1>5. QED
  BY <1>2, <1>3, <1>4 DEF Acts, MakesPlan, Sends, GoesOn, Holding, SameClaim, Prepared

LEMMA WorkerRequests ==
    ASSUME LandInv, NEW w \in Workers, Elsewhere(w), Acts(w)
    PROVE  OneRequest'
<1>0. /\ \A x \in Workers : x # w => pc'[x] = pc[x] /\ item'[x] = item[x]
      /\ \A r, q \in flight : r = q
      /\ \A r \in flight : Owned(r) /\ r.seq \in Seqs
      /\ \A r \in flight, x \in Workers :
           pc[x] \in Holding /\ SameClaim(item[x], r) => pc[x] = "sent"
  BY LandFacts DEF Elsewhere, LandInv, OneRequest
<1>1. ASSUME flight' = flight, OwnedKept,
             \A r \in flight : pc'[w] \in Holding => ~SameClaim(item'[w], r)
      PROVE  OneRequest'
  BY <1>0, <1>1 DEF OneRequest, OwnedKept, Owned, SameClaim
<1>2. UNCHANGED row => OwnedKept
  BY DEF OwnedKept, Owned
<1>3. CASE HoldsNothing(w)
  BY <1>1, <1>3 DEF HoldsNothing
<1>4. CASE TakesClaim(w)
  <2>1. \A r \in flight : r.seq # item[w].seq
    BY <1>0, <1>4 DEF TakesClaim, Owned
  <2>2. OwnedKept
    BY <1>0, <1>4, <2>1 DEF TakesClaim, OwnedKept, Owned
  <2>3. QED
    BY <1>1, <1>4, <2>1, <2>2 DEF TakesClaim, SameClaim
<1>5. CASE MakesPlan(w)
  <2>1. \A r \in flight : ~SameClaim(item[w], r)
    BY <1>0, <1>5 DEF MakesPlan, Holding
  <2>2. QED
    BY <1>1, <1>2, <1>5, <2>1 DEF MakesPlan, SameClaim
<1>6. CASE Sends(w)
  <2>0. PICK q : q = RequestOf(w)
    OBVIOUS
  <2>1. pc[w] = "planned" /\ Owned(item[w]) /\ item[w].seq \in Seqs
    BY <1>6, LandFacts DEF Sends, Prepared, Holding
  <2>2. flight = {}
    BY <1>0, <2>1, OneInProgress DEF SameClaim, Holding
  <2>3. flight' = {q} /\ q.seq = item[w].seq /\ q.token = item[w].token
    BY <1>6, <2>0, <2>2 DEF Sends, RequestOf
  <2>4. Owned(q)'
    BY <1>6, <2>1, <2>3 DEF Sends, Owned
  <2>5. \A x \in Workers : x # w /\ pc[x] \in Holding => ~SameClaim(item[x], item[w])
    BY <2>1 DEF LandInv, ClaimsOfWorkers, Holding
  <2>6. \A x \in Workers : pc'[x] \in Holding /\ SameClaim(item'[x], q) => pc'[x] = "sent"
    BY <1>0, <1>6, <2>3, <2>5 DEF Sends, SameClaim
  <2>7. QED
    BY <2>3, <2>4, <2>6 DEF OneRequest, SameClaim, Owned
<1>7. CASE GoesOn(w)
  <2>1. \A r \in flight : ~SameClaim(item[w], r)
    BY <1>0, <1>7 DEF GoesOn
  <2>2. QED
    BY <1>1, <1>2, <1>7, <2>1 DEF GoesOn, SameClaim
<1>8. QED
  BY <1>3, <1>4, <1>5, <1>6, <1>7 DEF Acts

LEMMA WorkerPlans ==
    ASSUME LandInv, RowsMove, NEW w \in Workers, Elsewhere(w), Acts(w)
    PROVE  PlansFit'
<1>0. /\ UNCHANGED <<base, sheet, receipts, edits>>
      /\ \A x \in Workers : x # w => pc'[x] = pc[x] /\ item'[x] = item[x]
      /\ \A r \in flight : r.seq \notin receipts /\ Current(r) /\ r.edits <= edits
      /\ \A x \in Workers : item[x].edits <= edits
      /\ \A x \in Workers : Prepared(x) => item[x].seq \notin receipts /\ Current(item[x])
      /\ \A x \in Workers : pc[x] \in Holding => item[x].token <= row[item[x].seq].attempts
      /\ edits \in Nat
  BY LandFacts DEF Elsewhere, LandInv, PlansFit, ClaimsOfWorkers
<1>1. \A x \in Workers : x # w /\ Prepared(x)' => Prepared(x)
  <2>1. TAKE x \in Workers
  <2>2. ASSUME x # w, Prepared(x)'
        PROVE  Owned(item[x])
    <3>1. Owned(item[x])'
      BY <2>2 DEF Prepared
    <3>2. pc[x] = "planned" /\ item'[x] = item[x]
      BY <1>0, <2>2 DEF Prepared
    <3>3. item[x].seq \in Seqs /\ item[x].token <= row[item[x].seq].attempts
      BY <1>0, <3>2, LandFacts DEF Holding
    <3>4. QED
      BY <3>1, <3>2, <3>3 DEF RowsMove, Moved, Owned
  <2>3. QED
    BY <1>0, <2>2 DEF Prepared
<1>2. \A c : Current(c) => Current(c)'
  BY <1>0 DEF Current
<1>3. ASSUME \A r \in flight' \ flight : r.seq \notin receipts /\ Current(r) /\ r.edits <= edits,
             item'[w].edits <= edits,
             Prepared(w)' => item'[w].seq \notin receipts /\ Current(item[w])'
      PROVE  PlansFit'
  <2>1. \A r \in flight' : r.seq \notin receipts /\ Current(r)' /\ r.edits <= edits
    BY <1>0, <1>2, <1>3
  <2>2. \A x \in Workers : Prepared(x)' => item'[x].seq \notin receipts /\ Current(item[x])'
    <3>1. TAKE x \in Workers
    <3>2. CASE x = w
      BY <1>3, <3>2
    <3>3. CASE x # w
      BY <1>0, <1>1, <3>3 DEF Current
    <3>4. QED
      BY <3>2, <3>3
  <2>3. QED
    BY <1>0, <1>3, <2>1, <2>2 DEF PlansFit
<1>4. CASE HoldsNothing(w)
  BY <1>3, <1>4 DEF HoldsNothing, Prepared, Holding
<1>5. CASE TakesClaim(w)
  BY <1>0, <1>3, <1>5 DEF TakesClaim, Prepared
<1>6. CASE MakesPlan(w)
  <2>1. item'[w].plan \in {"write", "stamp"} => item'[w].seq \notin receipts /\ Current(item[w])'
    BY <1>0, <1>6 DEF MakesPlan, SameClaim, PlanFor, Current
  <2>2. QED
    BY <1>0, <1>3, <1>6, <2>1 DEF MakesPlan, Prepared
<1>7. CASE Sends(w)
  <2>1. item[w].seq \notin receipts /\ Current(item[w]) /\ item[w].edits <= edits
    BY <1>0, <1>7 DEF Sends
  <2>2. LET q == RequestOf(w) IN q.seq \notin receipts /\ Current(q) /\ q.edits <= edits
    BY <2>1 DEF RequestOf, Current
  <2>3. QED
    BY <1>0, <1>3, <1>7, <2>1, <2>2 DEF Sends, Prepared
<1>8. CASE GoesOn(w)
  BY <1>0, <1>3, <1>8 DEF GoesOn, Prepared
<1>9. QED
  BY <1>4, <1>5, <1>6, <1>7, <1>8 DEF Acts

LEMMA LandedKept ==
    ASSUME LandInv, RowsMove, UNCHANGED <<receipts, landings>>
    PROVE  LandedBehindClosed' /\ LandsOnceInOrder'
BY DEF LandInv, LandedBehindClosed, LandsOnceInOrder, RowsMove, Moved

-----------------------------------------------------------------------------
(* The provider, the writers, people and time keep it.                     *)

Parts == ClaimsOfWorkers /\ OneRequest /\ PlansFit /\ LandedBehindClosed /\ LandsOnceInOrder

LEMMA LandStep ==
    ASSUME LandInv, NEW r \in flight, Land(r)
    PROVE  Parts'
<1>0. /\ flight' = {} /\ receipts' = receipts \cup {r.seq}
      /\ landings' = Append(landings, r)
      /\ UNCHANGED <<row, pc, item, edits>>
      /\ r.seq \in Seqs /\ r.seq \notin receipts /\ Owned(r) /\ landings \in Seq(Request)
  BY LandFacts DEF Land, LandInv, OneRequest, PlansFit, outboxVars, workerVars
<1>1. ClaimsOfWorkers'
  BY <1>0 DEF LandInv, ClaimsOfWorkers, SameClaim
<1>2. OneRequest'
  BY <1>0 DEF OneRequest
<1>3. PlansFit'
  <2>1. ASSUME NEW w \in Workers, Prepared(w)
        PROVE  FALSE
    <3>1. pc[w] \in Holding /\ pc[w] # "sent" /\ item[w].seq \in Seqs
      BY <2>1, LandFacts DEF Prepared, Holding
    <3>2. SameClaim(item[w], r)
      BY <1>0, <2>1, <3>1, OneInProgress DEF Prepared
    <3>3. QED
      BY <3>1, <3>2 DEF LandInv, OneRequest
  <2>2. \A w \in Workers : ~Prepared(w)'
    BY <1>0, <2>1 DEF Prepared, Owned
  <2>3. QED
    BY <1>0, <2>2 DEF LandInv, PlansFit
<1>4. \A p \in Seqs : p < r.seq => row[p].status \in Settled
  BY <1>0 DEF LandInv, OrderInv, InOrder, Owned
<1>5. \A i \in 1 .. Len(landings) : landings[i].seq < r.seq
  <2>1. TAKE i \in 1 .. Len(landings)
  <2>2. landings[i].seq \in receipts /\ landings[i].seq \in Seqs
    <3>1. landings[i] \in Request
      BY <1>0
    <3>2. QED
      BY <3>1 DEF LandInv, LandedBehindClosed, Request
  <2>3. ~ (r.seq < landings[i].seq)
    BY <1>0 DEF LandInv, LandedBehindClosed, Owned, Settled
  <2>4. QED
    BY <1>0, <2>2, <2>3 DEF Seqs
<1>6. /\ Len(landings') = Len(landings) + 1 /\ Len(landings) \in Nat
      /\ landings'[Len(landings) + 1] = r
      /\ \A i \in 1 .. Len(landings) : landings'[i] = landings[i]
  BY <1>0
<1>7. LandedBehindClosed'
  <2>1. \A i \in 1 .. Len(landings) :
          /\ landings'[i].seq \in receipts'
          /\ \A p \in Seqs : p < landings'[i].seq => row'[p].status \in Settled
    BY <1>0, <1>6 DEF LandInv, LandedBehindClosed
  <2>2. \A i \in 1 .. Len(landings') : i \in 1 .. Len(landings) \/ landings'[i] = r
    BY <1>6
  <2>3. QED
    BY <1>0, <1>4, <2>1, <2>2 DEF LandedBehindClosed
<1>8. LandsOnceInOrder'
  <2>1. ASSUME NEW i \in 1 .. Len(landings'), NEW j \in 1 .. Len(landings'), i < j
        PROVE  landings'[i].seq < landings'[j].seq
    <3>1. i \in 1 .. Len(landings)
      BY <1>6, <2>1
    <3>2. CASE j \in 1 .. Len(landings)
      BY <1>6, <2>1, <3>1, <3>2 DEF LandInv, LandsOnceInOrder
    <3>3. CASE j = Len(landings) + 1
      BY <1>5, <1>6, <3>1, <3>3
    <3>4. QED
      BY <1>6, <3>2, <3>3
  <2>2. QED
    BY <2>1 DEF LandsOnceInOrder
<1>9. QED
  BY <1>1, <1>2, <1>3, <1>7, <1>8 DEF Parts

\* A step that moves no worker and sends and lands nothing: a row whose claim
\* is in flight stays, and the base of a row in progress stays.
LEMMA QuietStep ==
    ASSUME LandInv, RowsMove, OutboxTypeOK',
           UNCHANGED <<pc, item, receipts, landings>>,
           flight' \subseteq flight, OwnedKept,
           \/ UNCHANGED <<sheet, edits>>
           \/ edits' = edits + 1,
           \A s \in Seqs : row[s].status = "processing" => base'[s] = base[s]
    PROVE  Parts'
<1>0. /\ \A s \in Seqs : row'[s].attempts \in Nat /\ row'[s].attempts >= row[s].attempts
      /\ \A w \in Workers : pc[w] \in Holding => item[w].token <= row[item[w].seq].attempts
  BY DEF RowsMove, Moved, LandInv, ClaimsOfWorkers, OutboxTypeOK, Row
<1>1. ClaimsOfWorkers'
  <2>1. \A w \in Workers : pc[w] \in Holding => item[w].token <= row'[item[w].seq].attempts
    BY <1>0, LandFacts
  <2>2. QED
    BY <2>1 DEF LandInv, ClaimsOfWorkers, SameClaim
<1>2. OneRequest'
  BY DEF LandInv, OneRequest, OwnedKept, Owned, SameClaim
<1>3. ASSUME NEW c, c.seq \in Seqs, Owned(c), Current(c), c.edits \in Nat, c.edits <= edits
      PROVE  Current(c)' /\ c.edits <= edits'
  BY <1>3, LandFacts DEF Current, Owned
<1>4. \A w \in Workers : Prepared(w)' => Prepared(w) /\ item[w].seq \in Seqs
  <2>1. TAKE w \in Workers
  <2>2. HAVE Prepared(w)'
  <2>3. pc[w] = "planned" /\ item'[w] = item[w] /\ Owned(item[w])'
    BY <2>2 DEF Prepared
  <2>4. item[w].seq \in Seqs /\ item[w].token <= row[item[w].seq].attempts
    BY <1>0, <2>3, LandFacts DEF Holding
  <2>5. Owned(item[w])
    BY <2>3, <2>4 DEF RowsMove, Moved, Owned
  <2>6. QED
    BY <2>2, <2>4, <2>5 DEF Prepared
<1>5. PlansFit'
  <2>1. \A r \in flight' : r.seq \notin receipts' /\ Current(r)' /\ r.edits <= edits'
    BY <1>3, LandFacts DEF LandInv, PlansFit, OneRequest
  <2>2. \A w \in Workers : item'[w].edits <= edits'
    BY LandFacts DEF LandInv, PlansFit
  <2>3. \A w \in Workers : Prepared(w)' => item'[w].seq \notin receipts' /\ Current(item[w])'
    <3>1. TAKE w \in Workers
    <3>2. HAVE Prepared(w)'
    <3>3. /\ Owned(item[w]) /\ Current(item[w]) /\ item[w].seq \in Seqs
          /\ item[w].seq \notin receipts /\ item[w].edits <= edits
      BY <1>4, <3>2 DEF Prepared, LandInv, PlansFit
    <3>4. PICK c : c = item[w]
      OBVIOUS
    <3>5. Current(c)'
      BY <1>3, <3>3, <3>4, LandFacts
    <3>6. QED
      BY <3>3, <3>4, <3>5 DEF Current
  <2>4. QED
    BY <2>1, <2>2, <2>3 DEF PlansFit
<1>6. QED
  BY <1>1, <1>2, <1>5, LandedKept DEF Parts

LEMMA WriterOwned ==
    ASSUME LandInv, NEW n \in Seqs,
           AppendPending(n) \/ \E s \in Seqs : Correct(s, n)
    PROVE  OwnedKept /\ row[n].status = "absent"
<1>0. OutboxTypeOK /\ \A r \in flight : r.seq \in Seqs
  BY LandFacts
<1>1. CASE AppendPending(n)
  <2>1. row[n].status = "absent" /\ \A x \in Seqs : x # n => row'[x] = row[x]
    BY <1>0, <1>1 DEF AppendPending, NextSeq, OutboxTypeOK
  <2>2. QED
    BY <1>0, <2>1 DEF OwnedKept, Owned
<1>2. ASSUME NEW s \in Seqs, Correct(s, n)
      PROVE  OwnedKept /\ row[n].status = "absent"
  <2>1. /\ row[n].status = "absent" /\ row[s].status # "processing"
        /\ \A x \in Seqs : x # s /\ x # n => row'[x] = row[x]
    BY <1>0, <1>2, ReplanFact DEF Correct, SupersedeAndReplan, NextSeq
  <2>2. QED
    BY <1>0, <2>1 DEF OwnedKept, Owned
<1>3. QED
  BY <1>1, <1>2

LEMMA TimeOwned ==
    ASSUME ~LateWrites, LandInv, NEW s \in Seqs, Elapse(s)
    PROVE  OwnedKept
<1>0. OutboxTypeOK /\ row[s] \in Row /\ \A r \in flight : r.seq \in Seqs
  BY LandFacts
<1>1. CASE LeaseEnds(s) /\ ~\E r \in flight : r.seq = s /\ r.token = row[s].token
  <2>1. \A x \in Seqs : x # s => row'[x] = row[x]
    BY <1>0, <1>1 DEF LeaseEnds, OutboxTypeOK
  <2>2. QED
    BY <1>0, <1>1, <2>1 DEF OwnedKept, Owned
<1>2. ASSUME NEW b, row' = [row EXCEPT ![s] = b], b.status = row[s].status,
             b.token = row[s].token, b.live = row[s].live
      PROVE  OwnedKept
  <2>1. row'[s] = b /\ \A x \in Seqs : x # s => row'[x] = row[x]
    BY <1>0, <1>2 DEF OutboxTypeOK
  <2>2. QED
    BY <1>0, <1>2, <2>1 DEF OwnedKept, Owned
<1>3. CASE ComesDue(s)
  <2>1. PICK b : b = [row[s] EXCEPT !.due = TRUE]
    OBVIOUS
  <2>2. b.status = row[s].status /\ b.token = row[s].token /\ b.live = row[s].live
    BY <1>0, <2>1 DEF Row
  <2>3. row' = [row EXCEPT ![s] = b]
    BY <1>3, <2>1, Zenon DEF ComesDue
  <2>4. QED
    BY <1>2, <2>2, <2>3
<1>4. CASE GrowsOverdue(s)
  <2>1. PICK b : b = [row[s] EXCEPT !.unsure = "overdue"]
    OBVIOUS
  <2>2. b.status = row[s].status /\ b.token = row[s].token /\ b.live = row[s].live
    BY <1>0, <2>1 DEF Row
  <2>3. row' = [row EXCEPT ![s] = b]
    BY <1>4, <2>1, Zenon DEF GrowsOverdue
  <2>4. QED
    BY <1>2, <2>2, <2>3
<1>5. QED
  BY <1>1, <1>3, <1>4 DEF Elapse

LEMMA LandInvStep ==
    ASSUME ~LateWrites, LandInv, [DeliveryNext]_deliveryVars
    PROVE  LandInv'
<1>0. /\ DeliveryTypeOK' /\ OutboxTypeOK' /\ RowsMove /\ OrderInv' /\ AbsentUnclaimed'
      /\ base \in [Seqs -> EditValues \cup Nat]
  BY DeliveryTypeStep, OutboxPart, OrderStep, RowsMoveStep, AbsentStep
  DEF LandInv, DeliveryTypeOK, RemoteTypeOK
<1> SUFFICES Parts'
  BY <1>0 DEF LandInv, Parts
<1>1. UNCHANGED row => OwnedKept
  BY DEF OwnedKept, Owned
<1>2. ASSUME NEW w \in Workers, WorkerStep(w) \/ Crash(w)
      PROVE  Parts'
  <2>1. Elsewhere(w) /\ Acts(w)
    BY <1>2, WorkerElsewhere, WorkerActs DEF LandInv
  <2>2. UNCHANGED <<receipts, landings>>
    BY <2>1 DEF Elsewhere
  <2>3. QED
    BY <1>0, <2>1, <2>2, WorkerClaims, WorkerRequests, WorkerPlans, LandedKept DEF Parts
<1>3. ASSUME NEW r \in flight, Land(r)
      PROVE  Parts'
  BY <1>3, LandStep
<1>4. ASSUME NEW r \in flight, Drop(r)
      PROVE  Parts'
  BY <1>0, <1>1, <1>4, QuietStep DEF Drop, outboxVars, workerVars
<1>5. ASSUME NEW n \in Seqs, NEW b, base' = [base EXCEPT ![n] = b], OwnedKept,
             row[n].status = "absent", UNCHANGED <<remoteVars, workerVars>>
      PROVE  Parts'
  <2>1. \A s \in Seqs : row[s].status = "processing" => base'[s] = base[s]
    BY <1>0, <1>5
  <2>2. QED
    BY <1>0, <1>5, <2>1, QuietStep DEF remoteVars, workerVars
<1>6. ASSUME NEW n \in Seqs, Flush(n)
      PROVE  Parts'
  BY <1>5, <1>6, WriterOwned DEF Flush
<1>7. ASSUME NEW n \in Seqs, NEW s \in Seqs, Correct(s, n)
      PROVE  Parts'
  <2>1. OwnedKept /\ row[n].status = "absent"
    BY <1>7, WriterOwned
  <2>2. QED
    BY <1>5, <1>7, <2>1 DEF Correct
<1>8. ASSUME NEW s \in Seqs, Elapse(s)
      PROVE  Parts'
  <2>1. OwnedKept
    BY <1>8, TimeOwned
  <2>2. QED
    BY <1>0, <1>8, <2>1, QuietStep DEF Elapse, remoteVars, workerVars
<1>9. ASSUME NEW v \in EditValues, HumanEdit(v)
      PROVE  Parts'
  BY <1>0, <1>1, <1>9, QuietStep DEF HumanEdit, outboxVars, workerVars
<1>10. CASE UNCHANGED deliveryVars
  BY <1>0, <1>1, <1>10, QuietStep DEF deliveryVars, outboxVars, remoteVars, workerVars
<1>11. QED
  BY <1>2, <1>3, <1>4, <1>6, <1>7, <1>8, <1>9, <1>10 DEF DeliveryNext

LEMMA LandInvInit == DeliveryInit => LandInv
<1> SUFFICES ASSUME DeliveryInit PROVE LandInv
  OBVIOUS
<1>1. DeliveryTypeOK /\ OrderInv
  BY DeliveryTypeInit, OrderInit DEF DeliveryInit
<1>2. AbsentUnclaimed
  BY FreshRows DEF DeliveryInit, OutboxInit, AbsentUnclaimed
<1>3. \A w \in Workers : pc[w] \notin Holding /\ item[w].edits = 0
  BY DEF DeliveryInit, Holding, NoItem
<1>4. ClaimsOfWorkers /\ OneRequest /\ PlansFit
  BY <1>3 DEF DeliveryInit, ClaimsOfWorkers, OneRequest, PlansFit, Prepared, Holding
<1>5. LandedBehindClosed /\ LandsOnceInOrder
  BY DEF DeliveryInit, LandedBehindClosed, LandsOnceInOrder
<1>6. QED
  BY <1>1, <1>2, <1>4, <1>5 DEF LandInv

(***************************************************************************)
(* When no request executes after its sender's time ran out, every effect  *)
(* reaches the sheet at most once and in stream order, whatever crashes,   *)
(* takeovers, lost replies, probes, requeues and corrections do.           *)
(***************************************************************************)
THEOREM EffectsLandOnceInOrder ==
    ASSUME ~LateWrites
    PROVE  DeliverySpec => []LandsOnceInOrder
<1>1. LandInv /\ [DeliveryNext]_deliveryVars => LandInv'
  BY LandInvStep
<1>2. LandInv => LandsOnceInOrder
  BY DEF LandInv
<1>3. QED
  BY <1>1, <1>2, LandInvInit, PTL DEF DeliverySpec

(***************************************************************************)
(* And while a prepared plan is in flight, it fits the row, unless a       *)
(* person edited it since: no other dispatch comes between.                *)
(***************************************************************************)
THEOREM PlansInFlightAreCurrent ==
    ASSUME ~LateWrites
    PROVE  DeliverySpec => []PreparedPlanIsCurrent
<1>1. LandInv /\ [DeliveryNext]_deliveryVars => LandInv'
  BY LandInvStep
<1>2. LandInv => PreparedPlanIsCurrent
  BY DEF LandInv, PlansFit, Current, PreparedPlanIsCurrent
<1>3. QED
  BY <1>1, <1>2, LandInvInit, PTL DEF DeliverySpec
=============================================================================
