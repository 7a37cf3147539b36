------------------------ MODULE StreamRecovery_proofs -----------------------
(***************************************************************************)
(* Theorems of StreamRecovery, for any values and bounds.                  *)
(*                                                                         *)
(* The types, and the order of the stream: an effect that left the queue   *)
(* was at its head, an applied one has its receipt, a plan supersedes only *)
(* what is given up, and whoever knows the newest entity revision knows    *)
(* its value.                                                              *)
(*                                                                         *)
(* The rest is about one loop that scans and delivers in turn, so that no  *)
(* delivery runs between the steps of a scan.  As long as nobody edits the *)
(* sheet, its row is what the last receipt says and the confirmation knows *)
(* it; the guard of each effect expects what its predecessor leaves; and,  *)
(* edits or not, the revisions along the stream climb by at most one, from *)
(* the confirmed one, so that no confirmation comes too late.              *)
(***************************************************************************)
EXTENDS StreamRecovery, SequenceTheorems, WellFoundedInduction, TLAPS

-----------------------------------------------------------------------------
(* Types                                                                   *)

Rows == Values \cup {Gone}
Hashes == Rows \cup {Empty}

Effect == [kind : {"write", "delete"}, create : BOOLEAN, value : Rows, hash : Hashes,
           rev : Nat, entity : Nat,
           status : InFlight \cup Settled \cup {"failed", "conflict", "blocked_candidate"},
           terminal : BOOLEAN]

Confirmation == [hash : Hashes, rev : Nat, entity : Nat]

Plan == [effect : Effect, position : Nat, over : Nat, by : Nat]

ScanRecord == [at : {"idle", "observed", "classified", "planned"}, rows : Seq(Rows),
               kind : {"none", "duplicate", "rewrite", "missing", "drifted", "wedged"},
               value : Rows, entity : Nat, plan : Plan]

PollRecord == [at : {"idle", "read", "observed"}, canon : Rows, revision : Nat,
               seen : Confirmation, candidate : BOOLEAN, row : Hashes]

CanonTypes ==
    projection \in {"user_input", "system_state"} /\ canon \in Rows /\ revision \in Nat /\ revision > 0

\* The first effect created the row.
StreamTypes == fx \in Seq(Effect) /\ Latest > 0 /\ fx[1].status = "applied"

RemoteTypes == sheet \in Seq(Rows) /\ receipts \subseteq 1 .. Latest

RecordTypes ==
    /\ confirmed \in Confirmation /\ confirmed.rev > 0
    /\ candidate \in [hash : Hashes, rev : Nat, command : BOOLEAN]
    /\ HasCandidate => IsUser
    /\ refused \subseteq 1 .. Latest /\ disputed \in BOOLEAN
    /\ {flushes, edits, faults} \subseteq Nat

ScanTypes ==
    /\ scan \in ScanRecord
    /\ scan.at \in {"classified", "planned"} =>
           IF IsUser THEN scan.kind \in {"duplicate", "rewrite"} /\ scan.rows # <<>>
           ELSE scan.kind \in {"missing", "drifted", "wedged"}

PollTypes ==
    /\ poll \in PollRecord
    /\ poll.at # "idle" => IsUser
    /\ poll.at = "observed" => poll.row \in Rows

RecoveryTypeOK ==
    CanonTypes /\ StreamTypes /\ RemoteTypes /\ RecordTypes /\ ScanTypes /\ PollTypes

-----------------------------------------------------------------------------
(* The stream                                                              *)

Live(s) == \/ fx[s].status \in InFlight
           \/ fx[s].status = "failed" /\ ~fx[s].terminal

\* What is not waiting any more got there when everything before it was settled.
InOrder == \A s \in 1 .. Latest : fx[s].status \notin {"pending", "superseded"} => AtHead(s)

AppliedHasReceipt == \A s \in 1 .. Latest : fx[s].status = "applied" => s \in receipts

\* A plan supersedes an effect that is given up, or was since.
GivenUp(s) == Terminal(s) \/ fx[s].status = "superseded"

PlanSane ==
    scan.at = "planned" =>
        /\ scan.plan.position <= Latest + 1
        /\ scan.plan.over > 0 => scan.plan.over \in 1 .. Latest /\ GivenUp(scan.plan.over)
        /\ scan.plan.by > 0 => ~IsUser /\ scan.plan.over > 0

\* Nobody knows an entity revision that is still to come, and what knows the
\* newest one knows its value.
Scanned == scan.at \in {"classified", "planned"}

EntitiesArePast ==
    /\ \A s \in 1 .. Latest : fx[s].entity <= revision
    /\ confirmed.entity <= revision
    /\ scan.entity <= revision
    /\ poll.revision <= revision
    /\ scan.at = "planned" => scan.plan.effect.entity <= scan.entity

NewestIsCanonical ==
    /\ Alive => \A s \in 1 .. Latest :
           fx[s].entity = revision => fx[s].kind = "write" /\ fx[s].value = canon
    /\ Alive /\ confirmed.entity = revision => confirmed.hash = canon
    /\ Scanned /\ scan.entity = revision => scan.value = canon
    /\ poll.at # "idle" /\ poll.revision = revision => poll.canon = canon

\* What a plan appends is a write of the scanned value, but for duplicates.
PlanWrites ==
    /\ ~IsUser => \A s \in 1 .. Latest : fx[s].kind = "write"
    /\ scan.at = "planned" /\ IsUser => scan.plan.effect.entity = 0
    /\ scan.at = "planned" /\ scan.plan.by = 0 =>
        /\ scan.kind # "duplicate" => scan.plan.effect.kind = "write" /\ scan.plan.effect.value = scan.value
        /\ scan.plan.effect.status = "pending"

StreamInv == InOrder /\ AppliedHasReceipt /\ PlanSane /\ EntitiesArePast /\ NewestIsCanonical /\ PlanWrites

-----------------------------------------------------------------------------
(* Nobody touches the sheet                                                *)

\* What the sheet shows of effect e.
RowOf(e) == IF e.kind = "delete" THEN <<>> ELSE <<e.value>>

Untouched == edits = 0

ReceiptsHold == \A s \in receipts : fx[s].status \in {"applied", "delivery_uncertain"}

Visible ==
    /\ \A s \in receipts : fx[s].status = "delivery_uncertain" => sheet = RowOf(fx[s])
    /\ (\A s \in receipts : fx[s].status = "applied") => sheet \in {<<>>, <<confirmed.hash>>}

Tidy == scan.at # "idle" => Len(scan.rows) <= 1

\* Effect s writes the canonical value.
Rewrites(s) == fx[s].kind = "write" /\ fx[s].value = canon

\* What is still to be delivered behind, or after, an effect of the newest revision ...
FreshStays ==
    Alive => /\ confirmed.entity = revision => \A t \in 1 .. Latest : Live(t) => Rewrites(t)
             /\ \A s, t \in 1 .. Latest :
                    s < t /\ fx[s].entity = revision /\ Live(t) => Rewrites(t)

ScanKnows ==
    /\ Scanned => scan.kind = "rewrite" /\ confirmed.entity <= scan.entity
    /\ scan.at = "classified" /\ ~Live(Latest) => \A s \in 1 .. Latest : fx[s].entity <= scan.entity
    /\ scan.at = "planned" /\ scan.plan.position = Latest + 1 =>
           \A s \in 1 .. Latest : fx[s].entity <= scan.entity

NoConflictDue == poll.seen.entity >= poll.revision /\ poll.revision = revision

PollIsCalm ==
    /\ poll.at # "idle" /\ NoConflictDue =>
        /\ Alive
        /\ \A s \in 1 .. Latest : Live(s) => Rewrites(s)
        /\ sheet \in {<<>>, <<canon>>}
        /\ Scanned => scan.entity = revision
    /\ poll.at = "observed" => ~NoConflictDue

UntouchedInv ==
    Untouched =>
        /\ ReceiptsHold /\ Visible /\ Tidy
        /\ IsUser => FreshStays /\ ScanKnows /\ PollIsCalm

-----------------------------------------------------------------------------
(* Guards                                                                  *)

Quiet ==
    /\ edits = 0 /\ ~disputed
    /\ \A s \in 1 .. Latest : fx[s].status # "superseded" /\ ~(fx[s].status = "failed" /\ fx[s].terminal)

CandidateIsDispute == HasCandidate => disputed

\* The guard of e expects what d leaves.
Follows(d, e) ==
    IF d.kind = "delete" THEN e.kind = "write" /\ e.create /\ e.rev = 0 /\ e.hash = Empty
    ELSE IF e.kind = "delete" THEN e.hash = d.value
    ELSE d.value \in {e.hash, e.value}

Chained ==
    /\ \A s \in 1 .. Latest : fx[s].status \notin {"conflict", "blocked_candidate"}
    /\ \A s \in 2 .. Latest : Follows(fx[s - 1], fx[s])
    /\ \A s \in receipts : s + 1 \notin receipts => sheet = RowOf(fx[s])
    /\ \A s \in 1 .. Latest :
        fx[s].status = "applied" /\ (s = Latest \/ fx[s + 1].status # "applied")
            => confirmed.hash = fx[s].value

ScanFresh == scan.at # "idle" => scan.rows = sheet

UserQuiet ==
    /\ Alive => Rewrites(Latest)
    /\ scan.at = "classified" => Latest \notin receipts
    /\ scan.at # "planned"

\* The state's value is on its way, at most one correction behind.
SystemQuiet ==
    /\ \/ Rewrites(Latest)
       \/ Latest > 1 /\ Rewrites(Latest - 1)
    /\ scan.at = "classified" =>
        /\ scan.kind = "drifted"
        /\ canon \in {scan.value, fx[Latest].value}
        /\ fx[Latest].status \in InFlight \/ Latest \in receipts \/ scan.value = fx[Latest].value
    /\ scan.at = "planned" =>
        /\ scan.plan.over = 0 /\ scan.plan.by = 0
        /\ scan.plan.position = Latest + 1 =>
            /\ Follows(fx[Latest], scan.plan.effect)
            /\ canon \in {scan.value, fx[Latest].value}

QuietInv ==
    /\ CandidateIsDispute
    /\ Untouched => ScanFresh
    /\ Quiet => Chained /\ IF IsUser THEN UserQuiet ELSE SystemQuiet

-----------------------------------------------------------------------------
(* Revisions                                                               *)

Unbroken ==
    /\ \A s \in 2 .. Latest : ~fx[s].create /\ fx[s].status # "superseded"
    /\ ~(IsUser /\ edits > 0)

\* A resolution may run one revision ahead.
Slack == IF IsUser THEN 1 ELSE 0

Climbs ==
    /\ \A s \in 1 .. Latest : Live(s) /\ AtHead(s) =>
           /\ confirmed.rev <= fx[s].rev + 1 /\ fx[s].rev <= confirmed.rev + Slack
    /\ \A s \in 2 .. Latest : Live(s - 1) /\ Live(s) =>
           /\ fx[s - 1].kind = "write"
           /\ fx[s - 1].rev <= fx[s].rev
           /\ fx[s].rev <= Larger(fx[s - 1].rev + 1, confirmed.rev)

CandidateIsNear ==
    HasCandidate =>
        /\ candidate.rev <= confirmed.rev + 1
        /\ confirmed.rev <= candidate.rev + 1
        /\ (\E s \in 1 .. Latest : fx[s].status = "delivery_uncertain") => candidate.rev = confirmed.rev + 1

PlanClimbs ==
    scan.at = "planned" /\ scan.plan.position = Latest + 1 /\ scan.plan.over = 0 /\ scan.plan.by = 0 =>
        IF fx[Latest].status \in InFlight
        THEN ~IsUser /\ (scan.plan.effect.create \/ scan.plan.effect.rev = Larger(fx[Latest].rev + 1, confirmed.rev))
        ELSE /\ scan.plan.effect.create \/ scan.plan.effect.rev = confirmed.rev
             /\ IsUser => fx[Latest].status = "applied"

RevisionInv == Unbroken => refused = {} /\ Climbs /\ CandidateIsNear /\ PlanClimbs

-----------------------------------------------------------------------------
(* Effects and streams                                                     *)

\* Statuses aside, two effects are the same.
SameContent(d, e) ==
    /\ d.kind = e.kind /\ d.create = e.create /\ d.value = e.value
    /\ d.hash = e.hash /\ d.rev = e.rev /\ d.entity = e.entity

LEMMA NewEffectType ==
    ASSUME NEW kind \in {"write", "delete"}, NEW create \in BOOLEAN, NEW value \in Rows,
           NEW hash \in Hashes, NEW rev \in Nat, NEW entity \in Nat
    PROVE  LET e == NewEffect(kind, create, value, hash, rev, entity)
           IN  /\ e \in Effect /\ e.status = "pending" /\ ~e.terminal
               /\ e.kind = kind /\ e.create = create /\ e.value = value
               /\ e.hash = hash /\ e.rev = rev /\ e.entity = entity
  BY DEF NewEffect, Effect, InFlight, Settled

\* p is q with another status of the effect s.
Remarks(p, q, s) ==
    /\ p \in Seq(Effect) /\ Len(p) = Len(q)
    /\ \A u \in 1 .. Len(q) : u # s => p[u] = q[u]
    /\ SameContent(p[s], q[s])

Restatus(q, s, status) == [q EXCEPT ![s].status = status]
Resettle(q, s, status, terminal) == [q EXCEPT ![s].status = status, ![s].terminal = terminal]
Rewrite(q, i, x) == [q EXCEPT ![i] = x]

LEMMA RewriteType ==
    ASSUME NEW q \in Seq(Effect), NEW i \in 1 .. Len(q), NEW x \in Effect
    PROVE  /\ Rewrite(q, i, x) \in Seq(Effect) /\ Len(Rewrite(q, i, x)) = Len(q) /\ Rewrite(q, i, x)[i] = x
           /\ \A u \in 1 .. Len(q) : u # i => Rewrite(q, i, x)[u] = q[u]
  BY DEF Rewrite

LEMMA SettledType ==
    ASSUME NEW q \in Seq(Effect), NEW s \in 1 .. Len(q), NEW status, NEW terminal \in BOOLEAN,
           status \in InFlight \cup Settled \cup {"failed", "conflict", "blocked_candidate"}
    PROVE  /\ Remarks(Resettle(q, s, status, terminal), q, s)
           /\ Resettle(q, s, status, terminal)[s].status = status
           /\ Resettle(q, s, status, terminal)[s].terminal = terminal
<1>1. q[s] \in Effect
  OBVIOUS
<1>2. PICK x \in Effect : /\ x = [q[s] EXCEPT !.status = status, !.terminal = terminal]
                          /\ SameContent(x, q[s]) /\ x.status = status /\ x.terminal = terminal
  <2> DEFINE d == [q[s] EXCEPT !.status = status, !.terminal = terminal]
  <2>1. d \in Effect /\ SameContent(d, q[s]) /\ d.status = status /\ d.terminal = terminal
    BY <1>1 DEF Effect, SameContent
  <2> QED
    BY <2>1
<1>3. Resettle(q, s, status, terminal) = Rewrite(q, s, x)
  BY <1>2 DEF Resettle, Rewrite
<1>4. /\ Rewrite(q, s, x) \in Seq(Effect) /\ Len(Rewrite(q, s, x)) = Len(q) /\ Rewrite(q, s, x)[s] = x
      /\ \A u \in 1 .. Len(q) : u # s => Rewrite(q, s, x)[u] = q[u]
  BY <1>2, RewriteType
<1> QED
  BY <1>2, <1>3, <1>4, Zenon DEF Remarks

LEMMA StatusType ==
    ASSUME NEW q \in Seq(Effect), NEW s \in 1 .. Len(q), NEW status,
           status \in InFlight \cup Settled \cup {"failed", "conflict", "blocked_candidate"}
    PROVE  /\ Remarks(Restatus(q, s, status), q, s)
           /\ Restatus(q, s, status)[s].status = status
           /\ Restatus(q, s, status)[s].terminal = q[s].terminal
<1>1. q[s] \in Effect
  OBVIOUS
<1>2. PICK x \in Effect : /\ x = [q[s] EXCEPT !.status = status]
                          /\ SameContent(x, q[s]) /\ x.status = status /\ x.terminal = q[s].terminal
  <2> DEFINE d == [q[s] EXCEPT !.status = status]
  <2>1. d \in Effect /\ SameContent(d, q[s]) /\ d.status = status /\ d.terminal = q[s].terminal
    BY <1>1 DEF Effect, SameContent
  <2> QED
    BY <2>1
<1>3. Restatus(q, s, status) = Rewrite(q, s, x)
  BY <1>2 DEF Restatus, Rewrite
<1>4. /\ Rewrite(q, s, x) \in Seq(Effect) /\ Len(Rewrite(q, s, x)) = Len(q) /\ Rewrite(q, s, x)[s] = x
      /\ \A u \in 1 .. Len(q) : u # s => Rewrite(q, s, x)[u] = q[u]
  BY <1>2, RewriteType
<1> QED
  BY <1>2, <1>3, <1>4, Zenon DEF Remarks

\* A row that is alone is the whole sheet.
LEMMA OneRow ==
    ASSUME NEW q \in Seq(Rows), Len(q) <= 1, q # <<>>
    PROVE  q = <<q[1]>>
<1>1. Len(q) = 1
  BY EmptySeq
<1>2. <<q[1]>> \in Seq(Rows) /\ Len(<<q[1]>>) = 1 /\ <<q[1]>>[1] = q[1]
  BY <1>1
<1>3. \A i \in 1 .. Len(q) : q[i] = <<q[1]>>[i]
  BY <1>1
<1> QED
  BY <1>1, <1>2, <1>3, SeqEqual, Zenon

\* p is q and the effect e behind it.
Extends(p, q, e) ==
    /\ p \in Seq(Effect) /\ Len(p) = Len(q) + 1 /\ p[Len(q) + 1] = e
    /\ \A u \in 1 .. Len(q) : p[u] = q[u]

LEMMA AppendType ==
    ASSUME NEW q \in Seq(Effect), NEW e \in Effect
    PROVE  Extends(Append(q, e), q, e)
  BY DEF Extends

\* What a resolution leaves of the effect d.
Outlives(e, d) ==
    \/ e = d
    \/ /\ SameContent(e, d) /\ e.terminal = d.terminal /\ e.status = "superseded"
       /\ d.status \in {"pending", "blocked_candidate", "conflict", "failed"}

\* The stream p that the system's win makes of q.
Overrules(p, q, v, entity) ==
    LET n == Len(q) IN
    /\ p \in Seq(Effect) /\ Len(p) = n + 1
    /\ p[n + 1] = NewEffect("write", FALSE, v, candidate.hash, candidate.rev, entity)
    /\ p[n + 1] \in Effect
    /\ \A u \in 1 .. n : Outlives(p[u], q[u])
    /\ \A u \in 1 .. n : q[u].status = "pending" /\ q[u].kind = "write" => p[u].status = "superseded"
    /\ q[n].status \in {"pending", "blocked_candidate", "conflict", "failed"} => p[n].status = "superseded"

LEMMA ResolvedType ==
    ASSUME NEW q \in Seq(Effect), Len(q) > 0, NEW v \in Rows, NEW entity \in Nat,
           candidate \in [hash : Hashes, rev : Nat, command : BOOLEAN]
    PROVE  Overrules(Resolved(q, v, entity), q, v, entity)
<1> DEFINE n == Len(q)
           replaced(s) == \/ q[s].status = "pending" /\ q[s].kind = "write"
                          \/ s = n /\ q[s].status \in {"pending", "blocked_candidate", "conflict", "failed"}
           left(s) == IF replaced(s) THEN [q[s] EXCEPT !.status = "superseded"] ELSE q[s]
           r == [s \in 1 .. n |-> left(s)]
           e == NewEffect("write", FALSE, v, candidate.hash, candidate.rev, entity)
<1>1. Resolved(q, v, entity) = Append(r, e)
  BY Zenon DEF Resolved
<1>2. e \in Effect
  BY NewEffectType DEF Rows, Hashes
<1>3. ASSUME NEW s \in 1 .. n
      PROVE  /\ left(s) \in Effect /\ Outlives(left(s), q[s])
             /\ replaced(s) => left(s).status = "superseded"
  <2>1. q[s] \in Effect
    OBVIOUS
  <2>2. /\ [q[s] EXCEPT !.status = "superseded"] \in Effect
        /\ [q[s] EXCEPT !.status = "superseded"].status = "superseded"
        /\ [q[s] EXCEPT !.status = "superseded"].terminal = q[s].terminal
        /\ SameContent([q[s] EXCEPT !.status = "superseded"], q[s])
    BY <2>1 DEF Effect, Settled, SameContent
  <2> QED
    BY <2>1, <2>2 DEF Outlives
<1>4. n \in Nat /\ n \in 1 .. n
  OBVIOUS
<1> HIDE DEF left, e
<1>5. r \in Seq(Effect) /\ Len(r) = n /\ \A s \in 1 .. n : r[s] = left(s)
  BY <1>3, <1>4
<1> HIDE DEF r
<1>6. /\ Append(r, e) \in Seq(Effect) /\ Len(Append(r, e)) = n + 1 /\ Append(r, e)[n + 1] = e
      /\ \A s \in 1 .. n : Append(r, e)[s] = left(s)
  BY <1>2, <1>5
<1> HIDE DEF n
<1>7. Overrules(Append(r, e), q, v, entity)
  BY <1>2, <1>3, <1>4, <1>6 DEF Overrules, e, n
<1> QED
  BY <1>1, <1>7

LEMMA LargerType ==
    ASSUME NEW a \in Nat, NEW b \in Nat
    PROVE  Larger(a, b) \in Nat /\ a <= Larger(a, b) /\ b <= Larger(a, b) /\ Larger(a, b) \in {a, b}
  BY DEF Larger

\* Of a set of positions that is not empty one is the last.
LEMMA LastPosition ==
    ASSUME NEW n \in Nat, NEW F, F \subseteq 1 .. n, F # {}
    PROVE  \E s \in F : \A t \in F : t <= s
<1> DEFINE D == {n - s : s \in F}
<1>1. D \subseteq Nat
  <2>1. ASSUME NEW s \in F PROVE n - s \in Nat
    <3>1. s \in 1 .. n
      OBVIOUS
    <3> QED
      BY <3>1
  <2> QED
    BY <2>1
<1>2. D # {}
  <2>1. PICK s \in F : TRUE
    OBVIOUS
  <2>2. n - s \in D
    BY <2>1
  <2> HIDE DEF D
  <2> QED
    BY <2>2
<1>3. PICK m \in D : \A k \in D : <<k, m>> \notin OpToRel(<, Nat)
  <2> HIDE DEF D
  <2> QED
    BY <1>2, <1>1, WFMin, NatLessThanWellFounded, Zenon
<1>4. \A k \in D : ~(k < m)
  <2> HIDE DEF D
  <2> QED
    BY <1>1, <1>3, Zenon DEF OpToRel
<1>5. PICK s \in F : m = n - s
  BY <1>3
<1>6. ASSUME NEW t \in F PROVE t <= s
  <2>1. n - t \in D
    BY <1>6
  <2>2. ~(n - t < n - s)
    BY <1>4, <1>5, <2>1
  <2>3. s \in 1 .. n /\ t \in 1 .. n
    BY <1>5, <1>6
  <2> HIDE DEF D
  <2> QED
    BY <2>2, <2>3
<1> QED
  BY <1>6

LEMMA FailedHeadIsGivenUp ==
    ASSUME StreamTypes
    PROVE  /\ FailedHead \in 0 .. Latest
           /\ FailedHead > 0 => fx[FailedHead].status = "failed" /\ fx[FailedHead].terminal
<1> DEFINE newest == CHOOSE s \in Failures : \A t \in Failures : t <= s
<1>1. Failures \subseteq 1 .. Latest /\ Latest \in Nat
  BY DEF Failures, StreamTypes, Latest
<1>2. CASE Failures = {}
  BY <1>1, <1>2 DEF FailedHead
<1>3. CASE Failures # {}
  <2>1. \E s \in Failures : \A t \in Failures : t <= s
    BY <1>1, <1>3, LastPosition
  <2>2. newest \in Failures
    BY <2>1
  <2>3. newest \in 1 .. Latest /\ fx[newest].status = "failed"
    BY <2>2, Zenon DEF Failures
  <2>4. FailedHead = IF ~fx[newest].terminal THEN 0 ELSE newest
    BY <1>3 DEF FailedHead
  <2> HIDE DEF newest
  <2> QED
    BY <1>1, <2>3, <2>4
<1> QED
  BY <1>2, <1>3

-----------------------------------------------------------------------------
(* What the actions do to the stream                                       *)

LEMMA BaselineType ==
    ASSUME CanonTypes, StreamTypes, RecordTypes
    PROVE  FlushBaseline.hash \in Hashes /\ FlushBaseline.rev \in Nat /\ FlushBaseline.create \in BOOLEAN
<1>1. fx[Latest] \in Effect /\ Latest > 0
  BY DEF StreamTypes, Latest
<1>2. /\ ConfirmedBaseline.hash \in Hashes /\ ConfirmedBaseline.rev \in Nat
      /\ ConfirmedBaseline.create \in BOOLEAN
  BY DEF ConfirmedBaseline, RecordTypes, Confirmation, Hashes
<1>3. /\ CreateBaseline.hash \in Hashes /\ CreateBaseline.rev \in Nat
      /\ CreateBaseline.create \in BOOLEAN
  BY DEF CreateBaseline, Hashes
<1>4. /\ FollowerBaseline(fx[Latest]).hash \in Hashes /\ FollowerBaseline(fx[Latest]).rev \in Nat
      /\ FollowerBaseline(fx[Latest]).create \in BOOLEAN
  BY <1>1 DEF FollowerBaseline, TargetHash, Effect, Hashes, Larger, RecordTypes, Confirmation
<1> QED
  BY <1>1, <1>2, <1>3, <1>4 DEF FlushBaseline

\* The effect a flush plans.
Flushed(kind, v) ==
    NewEffect(kind, FlushBaseline.create, v, FlushBaseline.hash, FlushBaseline.rev, revision + 1)

LEMMA FlushedType ==
    ASSUME CanonTypes, StreamTypes, RecordTypes, NEW kind \in {"write", "delete"}, NEW v \in Rows
    PROVE  /\ Flushed(kind, v) \in Effect
           /\ Flushed(kind, v).status = "pending" /\ ~Flushed(kind, v).terminal
           /\ Flushed(kind, v).kind = kind /\ Flushed(kind, v).value = v
           /\ Flushed(kind, v).create = FlushBaseline.create /\ Flushed(kind, v).hash = FlushBaseline.hash
           /\ Flushed(kind, v).rev = FlushBaseline.rev /\ Flushed(kind, v).entity = revision + 1
           /\ Enqueued(kind, v) = Append(fx, Flushed(kind, v))
           /\ Extends(Enqueued(kind, v), fx, Flushed(kind, v))
<1>1. revision + 1 \in Nat
  BY DEF CanonTypes
<1>2. Enqueued(kind, v) = Append(fx, Flushed(kind, v))
  BY DEF Enqueued, Flushed
<1>3. fx \in Seq(Effect)
  BY DEF StreamTypes
<1> HIDE DEF Enqueued
<1> QED
  BY <1>1, <1>2, <1>3, BaselineType, NewEffectType, AppendType DEF Flushed

SameCandidate == candidate'.hash = candidate.hash /\ candidate'.rev = candidate.rev

CandidateType == candidate \in [hash : Hashes, rev : Nat, command : BOOLEAN]

\* A candidate suppresses the effect of a flush.
FlushSuppressed == IsUser /\ HasCandidate /\ fx' = fx /\ SameCandidate

FlushWrites ==
    /\ MayEnqueue /\ (IsUser => canon' # Gone)
    /\ Extends(fx', fx, Flushed("write", canon')) /\ SameCandidate

FlushDeletes ==
    /\ IsUser /\ ~HasCandidate /\ canon' = Gone /\ MayEnqueue /\ FlushBaseline.hash = canon
    /\ Extends(fx', fx, Flushed("delete", canon)) /\ SameCandidate

FlushOverrules ==
    /\ IsUser /\ HasCandidate /\ canon' # Gone /\ ~Deferred
    /\ candidate' = NoCandidate
    /\ Overrules(fx', fx, canon', revision + 1)

\* The effect of a create or a reactivation is queued, then overruled.
FlushRevives ==
    /\ IsUser /\ HasCandidate /\ canon' # Gone /\ candidate' = NoCandidate
    /\ \E q : /\ Extends(q, fx, Flushed("write", canon'))
              /\ Overrules(fx', q, canon', revision + 1)

FlushShape ==
    /\ canon' \in Rows /\ canon' # canon /\ revision' = revision + 1 /\ flushes' = flushes + 1
    /\ UNCHANGED <<projection, confirmed, remote, scan, poll, refused, disputed, edits, faults>>
    /\ CandidateType'
    /\ FlushSuppressed \/ FlushWrites \/ FlushDeletes \/ FlushOverrules \/ FlushRevives

LEMMA WaitingType ==
    ASSUME CandidateType
    PROVE  LET c == [candidate EXCEPT !.command = TRUE]
           IN  /\ c \in [hash : Hashes, rev : Nat, command : BOOLEAN]
               /\ c.hash = candidate.hash /\ c.rev = candidate.rev
               /\ NoCandidate \in [hash : Hashes, rev : Nat, command : BOOLEAN]
  BY DEF CandidateType, NoCandidate, Hashes

LEMMA FlushCases ==
    ASSUME CanonTypes, StreamTypes, RecordTypes, NEW v \in Values,
           FlushCreate(v) \/ FlushUpdate(v) \/ FlushDelete
    PROVE  FlushShape
<1> USE DEF CandidateType
<1>1. CandidateType /\ fx \in Seq(Effect) /\ Len(fx) > 0 /\ Len(fx) = Latest
  BY DEF RecordTypes, StreamTypes, Latest
<1>2. v \in Rows /\ v # Gone /\ Gone \in Rows /\ canon \in Rows /\ revision + 1 \in Nat
  BY RecoveryAssumption DEF Rows, CanonTypes
<1>3. ASSUME NEW w \in Rows, Commits(w)
      PROVE  /\ canon' = w /\ canon' # canon /\ revision' = revision + 1 /\ flushes' = flushes + 1
             /\ UNCHANGED <<projection, confirmed, remote, scan, poll, refused, disputed, edits, faults>>
  BY <1>3 DEF Commits
<1>4. ASSUME MayEnqueue, UNCHANGED candidate, NEW kind \in {"write", "delete"}, NEW w \in Rows,
             fx' = Enqueued(kind, w)
      PROVE  CandidateType' /\ SameCandidate /\ Extends(fx', fx, Flushed(kind, w))
  <2>1. Extends(Enqueued(kind, w), fx, Flushed(kind, w))
    BY FlushedType
  <2> QED
    BY <1>1, <1>4, <2>1 DEF SameCandidate
<1>5. ASSUME NEW q \in Seq(Effect), Len(q) > 0, ConflictSync(q, v)
      PROVE  /\ CandidateType'
             /\ \/ fx' = q /\ SameCandidate
                \/ ~Deferred /\ candidate' = NoCandidate /\ Overrules(fx', q, v, revision + 1)
  <2>1. \/ fx' = q /\ candidate' = [candidate EXCEPT !.command = TRUE]
        \/ ~Deferred /\ fx' = Resolved(q, v, revision + 1) /\ candidate' = NoCandidate
    BY <1>5 DEF ConflictSync
  <2>2. Overrules(Resolved(q, v, revision + 1), q, v, revision + 1)
    BY <1>1, <1>2, <1>5, ResolvedType
  <2>3. CandidateType' /\ (candidate' = [candidate EXCEPT !.command = TRUE] => SameCandidate)
    BY <1>1, <2>1, WaitingType DEF SameCandidate
  <2> QED
    BY <2>1, <2>2, <2>3
<1>6. CASE FlushCreate(v)
  <2>1. canon' = v /\ MayEnqueue /\ Commits(v)
    BY <1>2, <1>3, <1>6 DEF FlushCreate
  <2>2. CASE IsUser /\ HasCandidate
    <3>1. ConflictSync(Enqueued("write", v), v)
      BY <1>6, <2>2 DEF FlushCreate
    <3>2. Extends(Enqueued("write", v), fx, Flushed("write", v))
      BY <1>2, FlushedType
    <3>3. Enqueued("write", v) \in Seq(Effect) /\ Len(Enqueued("write", v)) > 0
      BY <1>1, <3>2 DEF Extends
    <3>4. /\ CandidateType'
          /\ \/ fx' = Enqueued("write", v) /\ SameCandidate
             \/ candidate' = NoCandidate /\ Overrules(fx', Enqueued("write", v), v, revision + 1)
      BY <1>5, <3>1, <3>3
    <3>5. FlushWrites \/ FlushRevives
      BY <1>2, <2>1, <2>2, <3>2, <3>4 DEF FlushWrites, FlushRevives
    <3> QED
      BY <1>2, <1>3, <2>1, <3>4, <3>5 DEF FlushShape
  <2>3. CASE ~(IsUser /\ HasCandidate)
    <3>1. MayEnqueue /\ UNCHANGED candidate /\ fx' = Enqueued("write", v)
      BY <1>6, <2>3 DEF FlushCreate, Enqueue
    <3>2. CandidateType' /\ SameCandidate /\ Extends(fx', fx, Flushed("write", v))
      BY <1>2, <1>4, <3>1
    <3> QED
      BY <1>2, <1>3, <2>1, <3>1, <3>2 DEF FlushShape, FlushWrites
  <2> QED
    BY <2>2, <2>3
<1>7. CASE FlushUpdate(v)
  <2>1. canon' = v /\ Commits(v)
    BY <1>2, <1>3, <1>7 DEF FlushUpdate
  <2>2. CASE IsUser /\ HasCandidate
    <3>1. ConflictSync(fx, v)
      BY <1>7, <2>2 DEF FlushUpdate
    <3>2. /\ CandidateType'
          /\ \/ fx' = fx /\ SameCandidate
             \/ ~Deferred /\ candidate' = NoCandidate /\ Overrules(fx', fx, v, revision + 1)
      BY <1>1, <1>5, <3>1
    <3>3. FlushSuppressed \/ FlushOverrules
      BY <1>2, <2>1, <2>2, <3>2 DEF FlushSuppressed, FlushOverrules
    <3> QED
      BY <1>2, <1>3, <2>1, <3>2, <3>3 DEF FlushShape
  <2>3. CASE ~(IsUser /\ HasCandidate)
    <3>1. MayEnqueue /\ UNCHANGED candidate /\ fx' = Enqueued("write", v)
      BY <1>7, <2>3 DEF FlushUpdate, Enqueue
    <3>2. CandidateType' /\ SameCandidate /\ Extends(fx', fx, Flushed("write", v))
      BY <1>2, <1>4, <3>1
    <3> QED
      BY <1>2, <1>3, <2>1, <3>1, <3>2 DEF FlushShape, FlushWrites
  <2> QED
    BY <2>2, <2>3
<1>8. CASE FlushDelete
  <2>1. canon' = Gone /\ Commits(Gone)
    BY <1>2, <1>3, <1>8 DEF FlushDelete
  <2>2. CASE ~IsUser
    <3>1. MayEnqueue /\ UNCHANGED candidate /\ fx' = Enqueued("write", Gone)
      BY <1>8, <2>2 DEF FlushDelete, Enqueue
    <3>2. CandidateType' /\ SameCandidate /\ Extends(fx', fx, Flushed("write", Gone))
      BY <1>2, <1>4, <3>1
    <3> QED
      BY <1>2, <1>3, <2>1, <2>2, <3>1, <3>2 DEF FlushShape, FlushWrites
  <2>3. CASE IsUser /\ HasCandidate
    <3>1. UNCHANGED <<fx, candidate>>
      BY <1>8, <2>3 DEF FlushDelete
    <3>2. CandidateType' /\ FlushSuppressed
      BY <1>1, <2>3, <3>1 DEF FlushSuppressed, SameCandidate
    <3> QED
      BY <1>2, <1>3, <2>1, <3>2 DEF FlushShape
  <2>4. CASE IsUser /\ ~HasCandidate
    <3>1. FlushBaseline.hash = canon /\ MayEnqueue /\ UNCHANGED candidate /\ fx' = Enqueued("delete", canon)
      BY <1>8, <2>4 DEF FlushDelete, Enqueue
    <3>2. CandidateType' /\ SameCandidate /\ Extends(fx', fx, Flushed("delete", canon))
      BY <1>2, <1>4, <3>1
    <3> QED
      BY <1>2, <1>3, <2>1, <2>4, <3>1, <3>2 DEF FlushShape, FlushDeletes
  <2> QED
    BY <2>2, <2>3, <2>4
<1> QED
  BY <1>6, <1>7, <1>8

\* Effect s is told what became of it; the sheet and the confirmation stay.
Marked(s, statuses) ==
    /\ Remarks(fx', fx, s) /\ fx'[s].status \in statuses
    /\ UNCHANGED <<confirmed, refused>>

\* The confirmation of s is accepted or refused.
Told(s) ==
    /\ Remarks(fx', fx, s)
    /\ \/ /\ ConfirmedRevision(fx[s]) >= confirmed.rev
          /\ fx'[s].status = "applied" /\ UNCHANGED refused
          /\ confirmed' = [hash |-> fx[s].value, rev |-> ConfirmedRevision(fx[s]), entity |-> fx[s].entity]
       \/ /\ ~(ConfirmedRevision(fx[s]) >= confirmed.rev)
          /\ fx'[s].status = "delivery_uncertain" /\ refused' = refused \cup {s}
          /\ UNCHANGED confirmed

LEMMA ConfirmCases ==
    ASSUME StreamTypes, NEW s \in 1 .. Latest, Confirm(s)
    PROVE  Told(s)
<1>1. s \in 1 .. Len(fx) /\ fx \in Seq(Effect)
  BY DEF StreamTypes, Latest
<1>2. {"applied", "delivery_uncertain"} \subseteq InFlight \cup Settled \cup {"failed", "conflict", "blocked_candidate"}
  BY DEF InFlight, Settled
<1>3. CASE ConfirmedRevision(fx[s]) >= confirmed.rev
  <2>1. fx' = Restatus(fx, s, "applied")
    BY <1>3 DEF Confirm, Restatus
  <2>2. Remarks(fx', fx, s) /\ fx'[s].status = "applied"
    BY <1>1, <1>2, <2>1, StatusType
  <2> QED
    BY <1>3, <2>2 DEF Confirm, Told, TargetHash
<1>4. CASE ~(ConfirmedRevision(fx[s]) >= confirmed.rev)
  <2>1. fx' = Restatus(fx, s, "delivery_uncertain")
    BY <1>4 DEF Confirm, Restatus
  <2>2. Remarks(fx', fx, s) /\ fx'[s].status = "delivery_uncertain"
    BY <1>1, <1>2, <2>1, StatusType
  <2> QED
    BY <1>4, <2>2 DEF Confirm, Told
<1> QED
  BY <1>3, <1>4

LEMMA SettleCases ==
    ASSUME StreamTypes, NEW s \in 1 .. Latest, NEW terminal \in BOOLEAN, NEW status, Settle(s, status, terminal),
           status \in InFlight \cup Settled \cup {"failed", "conflict", "blocked_candidate"}
    PROVE  Marked(s, {status}) /\ fx'[s].terminal = terminal
<1>1. s \in 1 .. Len(fx) /\ fx \in Seq(Effect)
  BY DEF StreamTypes, Latest
<1>2. fx' = Resettle(fx, s, status, terminal)
  BY DEF Settle, Resettle
<1>3. Remarks(fx', fx, s) /\ fx'[s].status = status /\ fx'[s].terminal = terminal
  BY <1>1, <1>2, SettledType
<1> QED
  BY <1>3 DEF Settle, Marked

Uncertain(s) == fx[s].status = "delivery_uncertain"

Open == ~(IsUser /\ HasCandidate)

\* The ways a delivery can go: the effect is stopped or left in doubt with
\* nothing sent; what is sent lands, or has landed before; a probe decides.
Stopped(s) ==
    /\ Dispatchable(s) /\ UNCHANGED remote
    /\ \/ IsUser /\ HasCandidate /\ Marked(s, {"blocked_candidate"})
       \/ Open /\ Outcome(s) = "guard_mismatch" /\ Marked(s, {"blocked_candidate", "conflict"})
       \/ Open /\ Marked(s, {"delivery_uncertain"})
       \/ Marked(s, {"failed"})

Landed(s) ==
    /\ Dispatchable(s) /\ Open
    /\ Outcome(s) \notin {"guard_mismatch", "already_applied"} /\ Mutate(s, Outcome(s))
    /\ Told(s) \/ Marked(s, {"delivery_uncertain"})

Known(s) ==
    /\ PassRuns /\ UNCHANGED remote /\ Told(s)
    /\ \/ Dispatchable(s) /\ Open /\ Outcome(s) = "already_applied"
       \/ Uncertain(s) /\ Postcondition(s) = "applied"

Probed(s) ==
    /\ PassRuns /\ UNCHANGED remote /\ Uncertain(s)
    /\ \/ Postcondition(s) = "unapplied" /\ Marked(s, {"pending"})
       \/ /\ Postcondition(s) \notin {"applied", "unapplied"}
          /\ Marked(s, {"failed"}) /\ fx'[s].terminal

DeliveryShape(s) ==
    /\ DeliveryKeeps /\ faults' \in {faults, faults + 1}
    /\ Stopped(s) \/ Landed(s) \/ Known(s) \/ Probed(s)

LEMMA DeliveryCases ==
    ASSUME StreamTypes, NEW s \in 1 .. Latest, DeliveryStep(s) \/ LoseReply(s) \/ Reject(s)
    PROVE  DeliveryShape(s)
<1> USE DEF Open
<1>1. CASE Gate(s)
  <2>1. Settle(s, "blocked_candidate", FALSE)
    BY <1>1 DEF Gate
  <2>2. Marked(s, {"blocked_candidate"})
    BY <2>1, SettleCases
  <2> QED
    BY <1>1, <2>2 DEF Gate, DeliveryShape, Stopped
<1>2. CASE Deliver(s)
  <2>1. CASE Outcome(s) = "guard_mismatch"
    <3>1. UNCHANGED remote /\ Settle(s, IF IsUser THEN "blocked_candidate" ELSE "conflict", FALSE)
      BY <1>2, <2>1 DEF Deliver
    <3>2. Marked(s, {"blocked_candidate"}) \/ Marked(s, {"conflict"})
      BY <3>1, SettleCases
    <3>3. Marked(s, {"blocked_candidate", "conflict"})
      BY <3>2 DEF Marked
    <3> QED
      BY <1>2, <2>1, <3>1, <3>3 DEF Deliver, DeliveryShape, Stopped
  <2>2. CASE Outcome(s) = "already_applied"
    <3>1. UNCHANGED remote /\ Confirm(s)
      BY <1>2, <2>2 DEF Deliver
    <3>2. Told(s)
      BY <3>1, ConfirmCases
    <3> QED
      BY <1>2, <2>2, <3>1, <3>2 DEF Deliver, DeliveryShape, Known, Dispatchable
  <2>3. CASE Outcome(s) \notin {"guard_mismatch", "already_applied"}
    <3>1. Mutate(s, Outcome(s)) /\ Confirm(s)
      BY <1>2, <2>3 DEF Deliver
    <3>2. Told(s)
      BY <3>1, ConfirmCases
    <3> QED
      BY <1>2, <2>3, <3>1, <3>2 DEF Deliver, DeliveryShape, Landed
  <2> QED
    BY <2>1, <2>2, <2>3
<1>3. CASE LoseReply(s)
  <2>1. Settle(s, "delivery_uncertain", FALSE)
    BY <1>3 DEF LoseReply
  <2>2. Marked(s, {"delivery_uncertain"})
    BY <2>1, SettleCases DEF InFlight
  <2>3. Stopped(s) \/ Landed(s)
    BY <1>3, <2>2 DEF LoseReply, Stopped, Landed
  <2> QED
    BY <1>3, <2>3 DEF LoseReply, DeliveryShape
<1>4. CASE Reject(s)
  <2>1. PICK terminal \in BOOLEAN : Settle(s, "failed", terminal)
    BY <1>4 DEF Reject
  <2>2. Marked(s, {"failed"})
    BY <2>1, SettleCases
  <2> QED
    BY <1>4, <2>2 DEF Reject, DeliveryShape, Stopped
<1>5. CASE Probe(s)
  <2>1. CASE Postcondition(s) = "applied"
    <3>1. Confirm(s)
      BY <1>5, <2>1 DEF Probe
    <3>2. Told(s)
      BY <3>1, ConfirmCases
    <3> QED
      BY <1>5, <2>1, <3>2 DEF Probe, DeliveryShape, Known, Uncertain
  <2>2. CASE Postcondition(s) = "unapplied"
    <3>1. Settle(s, "pending", FALSE)
      BY <1>5, <2>2 DEF Probe
    <3>2. Marked(s, {"pending"})
      BY <3>1, SettleCases DEF InFlight
    <3> QED
      BY <1>5, <2>2, <3>2 DEF Probe, DeliveryShape, Probed, Uncertain
  <2>3. CASE Postcondition(s) \notin {"applied", "unapplied"}
    <3>1. Settle(s, "failed", TRUE)
      BY <1>5, <2>3 DEF Probe
    <3>2. Marked(s, {"failed"}) /\ fx'[s].terminal
      BY <3>1, SettleCases
    <3> QED
      BY <1>5, <2>3, <3>2 DEF Probe, DeliveryShape, Probed, Uncertain
  <2> QED
    BY <2>1, <2>2, <2>3
<1> QED
  BY <1>1, <1>2, <1>3, <1>4, <1>5 DEF DeliveryStep

\* What a delivery has to find, and what it leaves.
LEMMA OutcomeMeans ==
    ASSUME CanonTypes, StreamTypes, RemoteTypes, NEW s \in 1 .. Latest, Outcome(s) # "guard_mismatch"
    PROVE  \/ /\ Outcome(s) = "already_applied" /\ s \in receipts
              /\ fx[s].kind = "delete" => sheet = <<>>
              /\ fx[s].kind = "write" => sheet # <<>> /\ sheet[1] = fx[s].value
           \/ Outcome(s) = "create" /\ s \notin receipts /\ fx[s].kind = "write" /\ sheet = <<>>
           \/ /\ Outcome(s) = "remove" /\ s \notin receipts
              /\ fx[s].kind = "delete" /\ sheet # <<>> /\ sheet[1] = fx[s].hash
           \/ /\ Outcome(s) = "stamp" /\ s \notin receipts
              /\ fx[s].kind = "write" /\ sheet # <<>> /\ sheet[1] = fx[s].value
           \/ /\ Outcome(s) = "overwrite" /\ s \notin receipts
              /\ fx[s].kind = "write" /\ sheet # <<>> /\ sheet[1] = fx[s].hash
<1>1. fx[s] \in Effect
  BY DEF StreamTypes, Latest
<1>2. fx[s].kind \in {"write", "delete"} /\ fx[s].value # Empty
  BY <1>1, RecoveryAssumption DEF Effect, Rows, Gone, Empty
<1>3. CASE s \in receipts /\ fx[s].kind = "delete"
  BY <1>3 DEF Outcome
<1>4. CASE s \in receipts /\ fx[s].kind = "write"
  BY <1>2, <1>4 DEF Outcome, Row
<1>5. CASE s \notin receipts /\ sheet = <<>>
  BY <1>5 DEF Outcome
<1>6. CASE s \notin receipts /\ sheet # <<>> /\ fx[s].kind = "delete"
  BY <1>6 DEF Outcome, Row
<1>7. CASE s \notin receipts /\ sheet # <<>> /\ fx[s].kind = "write"
  BY <1>7 DEF Outcome, Row
<1> QED
  BY <1>2, <1>3, <1>4, <1>5, <1>6, <1>7

LEMMA MutateType ==
    ASSUME CanonTypes, StreamTypes, RemoteTypes, NEW s \in 1 .. Latest,
           Outcome(s) \notin {"guard_mismatch", "already_applied"}, Mutate(s, Outcome(s))
    PROVE  /\ sheet' \in Seq(Rows) /\ receipts' = receipts \cup {s} /\ s \notin receipts
           /\ Len(sheet) <= 1 => sheet' = RowOf(fx[s])
<1>1. fx[s] \in Effect
  BY DEF StreamTypes, Latest
<1>2. fx[s].value \in Rows
  BY <1>1 DEF Effect
<1>3. sheet \in Seq(Rows)
  BY DEF RemoteTypes
<1>4. CASE Outcome(s) = "create" /\ fx[s].kind = "write"
  BY <1>2, <1>4, OutcomeMeans DEF Mutate, RowOf
<1>5. CASE Outcome(s) = "remove" /\ fx[s].kind = "delete" /\ sheet # <<>>
  BY <1>2, <1>3, <1>5, OutcomeMeans DEF Mutate, RowOf
<1>6. CASE Outcome(s) = "stamp" /\ fx[s].kind = "write" /\ sheet # <<>> /\ sheet[1] = fx[s].value
  <2>1. sheet' = sheet /\ receipts' = receipts \cup {s} /\ s \notin receipts
    BY <1>6, OutcomeMeans DEF Mutate
  <2>2. ASSUME Len(sheet) <= 1 PROVE sheet = <<fx[s].value>>
    BY <1>3, <1>6, <2>2, OneRow
  <2> QED
    BY <1>3, <1>6, <2>1, <2>2 DEF RowOf
<1>7. CASE Outcome(s) = "overwrite" /\ fx[s].kind = "write" /\ sheet # <<>>
  <2>1. /\ sheet' = Rewrite(sheet, 1, fx[s].value)
        /\ receipts' = receipts \cup {s} /\ s \notin receipts
    BY <1>7, OutcomeMeans DEF Mutate, Rewrite
  <2>2. sheet' \in Seq(Rows) /\ Len(sheet') = Len(sheet) /\ sheet'[1] = fx[s].value
    <3>1. PICK v \in Rows : v = fx[s].value
      BY <1>2
    <3>2. 1 \in 1 .. Len(sheet)
      BY <1>3, <1>7
    <3>3. Rewrite(sheet, 1, v) \in Seq(Rows) /\ Len(Rewrite(sheet, 1, v)) = Len(sheet) /\ Rewrite(sheet, 1, v)[1] = v
      BY <1>3, <3>2 DEF Rewrite
    <3> QED
      BY <2>1, <3>1, <3>3
  <2>3. ASSUME Len(sheet) <= 1 PROVE sheet' = <<fx[s].value>>
    <3>1. Len(sheet) = 1 /\ Len(sheet') = 1 /\ sheet'[1] = fx[s].value /\ sheet' # <<>>
      BY <1>3, <1>7, <2>2, <2>3
    <3> QED
      BY <2>2, <3>1, OneRow
  <2> QED
    BY <1>7, <2>1, <2>2, <2>3 DEF RowOf
<1> QED
  BY <1>4, <1>5, <1>6, <1>7, OutcomeMeans

-----------------------------------------------------------------------------
(* Every step                                                              *)

\* Effects keep their content, what is settled stays so, and what is given up
\* can only be superseded.
Kept(e, d) ==
    /\ SameContent(e, d)
    /\ d.status \in Settled => e.status = d.status
    /\ d.status \in {"conflict", "blocked_candidate"} \/ (d.status = "failed" /\ d.terminal) =>
           e.status = "superseded" \/ (e.status = d.status /\ e.terminal = d.terminal)

Grows ==
    /\ fx' \in Seq(Effect) /\ Len(fx') >= Len(fx)
    /\ \A s \in 1 .. Len(fx) : Kept(fx'[s], fx[s])

LEMMA KeptByMost ==
    /\ \A d : Kept(d, d)
    /\ \A d, e : Outlives(e, d) => Kept(e, d)
    /\ \A d, e : SameContent(e, d) /\ d.status \in InFlight => Kept(e, d)
    /\ \A d, e : SameContent(e, d) /\ d.status = "failed" /\ ~d.terminal => Kept(e, d)
    /\ \A d, e : SameContent(e, d) /\ d.status \notin Settled /\ e.status = "superseded" => Kept(e, d)
  BY DEF Kept, Outlives, SameContent, InFlight, Settled

LEMMA ExtendsGrows ==
    ASSUME NEW e, StreamTypes, Extends(fx', fx, e)
    PROVE  Grows
  BY KeptByMost DEF Extends, Grows, StreamTypes

LEMMA OverrulesGrows ==
    ASSUME NEW v, NEW n, StreamTypes, Overrules(fx', fx, v, n)
    PROVE  Grows
  BY KeptByMost DEF Overrules, Grows, StreamTypes

LEMMA FlushGrows ==
    ASSUME StreamTypes, FlushShape
    PROVE  Grows
<1>1. CASE FlushSuppressed
  BY <1>1, KeptByMost DEF FlushSuppressed, Grows, StreamTypes
<1>2. CASE FlushWrites
  BY <1>2, ExtendsGrows DEF FlushWrites
<1>3. CASE FlushDeletes
  BY <1>3, ExtendsGrows DEF FlushDeletes
<1>4. CASE FlushOverrules
  BY <1>4, OverrulesGrows DEF FlushOverrules
<1>5. CASE FlushRevives
  <2>1. PICK q : Extends(q, fx, Flushed("write", canon')) /\ Overrules(fx', q, canon', revision + 1)
    BY <1>5 DEF FlushRevives
  <2>2. fx' \in Seq(Effect) /\ Len(fx') >= Len(fx) /\ Len(fx) \in Nat /\ Len(q) = Len(fx) + 1
    BY <2>1 DEF Extends, Overrules, StreamTypes
  <2>3. ASSUME NEW s \in 1 .. Len(fx) PROVE Kept(fx'[s], fx[s])
    BY <2>1, <2>2, <2>3, KeptByMost DEF Extends, Overrules
  <2> QED
    BY <2>2, <2>3 DEF Grows
<1> QED
  BY <1>1, <1>2, <1>3, <1>4, <1>5 DEF FlushShape

LEMMA DeliveryGrows ==
    ASSUME StreamTypes, NEW s \in 1 .. Latest, DeliveryShape(s)
    PROVE  Grows /\ Len(fx') = Len(fx) /\ Remarks(fx', fx, s) /\ Live(s) /\ PassRuns
<1>1. Remarks(fx', fx, s) /\ Live(s) /\ PassRuns
  BY DEF DeliveryShape, Stopped, Landed, Known, Probed, Marked, Told, Dispatchable, Live, InFlight, Uncertain
<1> QED
  BY <1>1, KeptByMost DEF Remarks, Grows, StreamTypes, Latest, Live, InFlight

LEMMA GrowsType ==
    ASSUME StreamTypes, Grows
    PROVE  StreamTypes' /\ Latest' = Len(fx') /\ Latest = Len(fx) /\ Latest \in Nat /\ Latest' \in Nat
           /\ Latest <= Latest' /\ \A s \in 1 .. Latest : s \in 1 .. Latest' /\ Kept(fx'[s], fx[s])
<1>1. fx \in Seq(Effect) /\ Latest = Len(fx) /\ Latest' = Len(fx') /\ Len(fx) > 0 /\ fx[1].status = "applied"
  BY DEF StreamTypes, Latest
<1>2. fx' \in Seq(Effect) /\ Len(fx') >= Len(fx) /\ \A s \in 1 .. Len(fx) : Kept(fx'[s], fx[s])
  BY DEF Grows
<1>3. fx'[1].status = "applied"
  BY <1>1, <1>2 DEF Kept, Settled
<1> QED
  BY <1>1, <1>2, <1>3 DEF StreamTypes

\* A plan takes the place behind the stream, and an effect that is given up
\* out of its way.
EnlistShape ==
    LET p == scan.plan IN
    /\ Grows
    /\ \A u \in 1 .. Latest :
        \/ fx'[u] = fx[u]
        \/ /\ u = p.over /\ SameContent(fx'[u], fx[u])
           /\ fx'[u].status = "superseded" /\ fx[u].status \notin Settled
    /\ \/ Len(fx') = Len(fx)
       \/ /\ Len(fx') = Len(fx) + 1 /\ p.by = 0 /\ p.position = Latest + 1
          /\ fx'[Len(fx) + 1] = p.effect
          /\ p.over > 0 => fx'[p.over].status = "superseded"

LEMMA SupersedeGrows ==
    ASSUME StreamTypes, NEW s \in 1 .. Latest, fx[s].status \notin Settled, NEW q, q = Supersede(fx, s)
    PROVE  /\ Remarks(q, fx, s) /\ q[s].status = "superseded" /\ Len(q) = Len(fx) /\ q \in Seq(Effect)
           /\ \A u \in 1 .. Len(fx) : Kept(q[u], fx[u])
<1>1. s \in 1 .. Len(fx) /\ fx \in Seq(Effect)
  BY DEF StreamTypes, Latest
<1>2. q = Restatus(fx, s, "superseded")
  BY DEF Supersede, Restatus
<1>3. Remarks(q, fx, s) /\ q[s].status = "superseded"
  BY <1>1, <1>2, StatusType DEF Settled
<1>4. q \in Seq(Effect) /\ Len(q) = Len(fx) /\ SameContent(q[s], fx[s])
      /\ \A u \in 1 .. Len(fx) : u # s => q[u] = fx[u]
  BY <1>3 DEF Remarks
<1>5. ASSUME NEW u \in 1 .. Len(fx) PROVE Kept(q[u], fx[u])
  BY <1>3, <1>4, KeptByMost
<1> QED
  BY <1>3, <1>4, <1>5

LEMMA EnlistCases ==
    ASSUME StreamTypes, ScanTypes, PlanSane, Enlist
    PROVE  EnlistShape
<1> DEFINE p == scan.plan
<1>1. fx \in Seq(Effect) /\ Len(fx) = Latest /\ Latest \in Nat /\ scan.at = "planned"
  BY DEF StreamTypes, Latest, Enlist
<1>2. p.effect \in Effect /\ p.over \in Nat /\ p.by \in Nat
  BY DEF ScanTypes, ScanRecord, Plan
<1>3. p.over > 0 => p.over \in 1 .. Latest
  BY <1>1 DEF PlanSane
<1>4. p.by > 0 => p.over > 0
  BY <1>1 DEF PlanSane
<1>5. CASE fx' = fx
  BY <1>1, <1>5, KeptByMost DEF EnlistShape, Grows
<1>6. CASE p.by > 0 /\ fx[p.over].status \notin Settled /\ fx' = Supersede(fx, p.over)
  <2>1. p.over \in 1 .. Latest
    BY <1>3, <1>4, <1>6
  <2>2. /\ Remarks(fx', fx, p.over) /\ fx'[p.over].status = "superseded" /\ Len(fx') = Len(fx) /\ fx' \in Seq(Effect)
        /\ \A u \in 1 .. Len(fx) : Kept(fx'[u], fx[u])
    BY <1>6, <2>1, SupersedeGrows
  <2> QED
    BY <1>1, <1>6, <2>1, <2>2 DEF EnlistShape, Grows, Remarks
<1>7. CASE p.by = 0 /\ Appendable(p) /\ p.over = 0 /\ fx' = Append(fx, p.effect)
  <2>1. Extends(fx', fx, p.effect)
    BY <1>1, <1>2, <1>7, AppendType
  <2>2. Grows
    BY <2>1, ExtendsGrows
  <2> QED
    BY <1>1, <1>7, <2>1, <2>2 DEF EnlistShape, Extends, Appendable
<1>8. CASE p.by = 0 /\ Appendable(p) /\ p.over > 0 /\ fx' = Append(Supersede(fx, p.over), p.effect)
  <2>1. p.over \in 1 .. Latest /\ fx[p.over].status \notin Settled /\ p.position = Latest + 1
    BY <1>3, <1>8 DEF Appendable
  <2>2. PICK q : q = Supersede(fx, p.over)
    OBVIOUS
  <2>3. /\ Remarks(q, fx, p.over) /\ q[p.over].status = "superseded" /\ Len(q) = Len(fx) /\ q \in Seq(Effect)
        /\ \A u \in 1 .. Len(fx) : Kept(q[u], fx[u])
    BY <2>1, <2>2, SupersedeGrows
  <2>4. Extends(fx', q, p.effect)
    BY <1>2, <1>8, <2>2, <2>3, AppendType
  <2>5. /\ fx' \in Seq(Effect) /\ Len(fx') = Len(fx) + 1 /\ fx'[Len(fx) + 1] = p.effect
        /\ \A u \in 1 .. Len(fx) : fx'[u] = q[u]
    BY <2>3, <2>4 DEF Extends
  <2>6. Grows
    BY <1>1, <2>3, <2>5 DEF Grows
  <2>7. \A u \in 1 .. Len(fx) : u # p.over => fx'[u] = fx[u]
    BY <2>3, <2>5 DEF Remarks
  <2>8. SameContent(fx'[p.over], fx[p.over]) /\ fx'[p.over].status = "superseded"
    BY <1>1, <2>1, <2>3, <2>5 DEF Remarks
  <2> QED
    BY <1>1, <1>8, <2>1, <2>5, <2>6, <2>7, <2>8 DEF EnlistShape
<1> QED
  BY <1>2, <1>5, <1>6, <1>7, <1>8 DEF Enlist

\* The system wins with the value the entity has, or had.
RetryShape ==
    /\ HasCandidate /\ ~Deferred /\ candidate' = NoCandidate
    /\ \/ Alive /\ Overrules(fx', fx, canon, revision)
       \/ ~Alive /\ \E v \in Values : Overrules(fx', fx, v, 0)
    /\ UNCHANGED <<projection, canon, revision, confirmed, remote, scan, poll, refused, counters>>

LEMMA RetryCases ==
    ASSUME CanonTypes, StreamTypes, RecordTypes, RetryResolution
    PROVE  RetryShape /\ Grows
<1>1. fx \in Seq(Effect) /\ Len(fx) > 0
  BY DEF StreamTypes, Latest
<1>2. candidate \in [hash : Hashes, rev : Nat, command : BOOLEAN] /\ canon \in Rows /\ revision \in Nat
  BY DEF RecordTypes, CanonTypes
<1>3. Values \subseteq Rows /\ 0 \in Nat
  BY DEF Rows
<1>4. CASE Alive
  <2>1. fx' = Resolved(fx, canon, revision)
    BY <1>4 DEF RetryResolution
  <2>2. Overrules(fx', fx, canon, revision)
    BY <1>1, <1>2, <2>1, ResolvedType
  <2> QED
    BY <1>4, <2>2, OverrulesGrows DEF RetryResolution, RetryShape
<1>5. CASE ~Alive
  <2>1. PICK v \in Values : fx' = Resolved(fx, v, 0)
    BY <1>5 DEF RetryResolution
  <2>2. v \in Rows
    BY <1>3
  <2>3. Overrules(fx', fx, v, 0)
    BY <1>1, <1>2, <1>3, <2>1, <2>2, ResolvedType
  <2> QED
    BY <1>5, <2>3, OverrulesGrows DEF RetryResolution, RetryShape
<1> QED
  BY <1>4, <1>5

\* Everything that can happen.
Steps ==
    \/ FlushShape
    \/ \E s \in 1 .. Latest : DeliveryShape(s)
    \/ ObserveSheet \/ ReadEvidence \/ PlanCorrection
    \/ Enlist /\ EnlistShape
    \/ PollReadState \/ PollObserve \/ PollPersist
    \/ RetryShape
    \/ Restart
    \/ HumanEdit

LEMMA StepCases ==
    ASSUME RecoveryTypeOK, PlanSane, Next
    PROVE  Steps /\ Grows
<1>1. CanonTypes /\ StreamTypes /\ RecordTypes /\ ScanTypes
  BY DEF RecoveryTypeOK
<1>2. ASSUME fx' = fx PROVE Grows
  BY <1>1, <1>2, KeptByMost DEF Grows, StreamTypes
<1>3. CASE (\E v \in Values : FlushCreate(v) \/ FlushUpdate(v)) \/ FlushDelete
  <2>1. CASE \E v \in Values : FlushCreate(v) \/ FlushUpdate(v)
    <3>1. FlushShape
      BY <1>1, <2>1, FlushCases
    <3> QED
      BY <1>1, <3>1, FlushGrows DEF Steps
  <2>2. CASE FlushDelete
    <3>1. PICK v : v \in Values
      BY <1>1, <2>2, RecoveryAssumption DEF CanonTypes, Rows, FlushDelete, Alive
    <3>2. FlushShape
      BY <1>1, <2>2, <3>1, FlushCases
    <3> QED
      BY <1>1, <3>2, FlushGrows DEF Steps
  <2> QED
    BY <1>3, <2>1, <2>2
<1>4. CASE \E s \in 1 .. Latest : DeliveryStep(s) \/ LoseReply(s) \/ Reject(s)
  <2>1. PICK s \in 1 .. Latest : DeliveryStep(s) \/ LoseReply(s) \/ Reject(s)
    BY <1>4
  <2>2. DeliveryShape(s)
    BY <1>1, <2>1, DeliveryCases
  <2> QED
    BY <1>1, <2>2, DeliveryGrows DEF Steps
<1>5. CASE ScanStep
  <2>1. CASE Enlist
    BY <1>1, <2>1, EnlistCases DEF Steps, EnlistShape
  <2>2. CASE ObserveSheet \/ ReadEvidence \/ PlanCorrection
    BY <1>2, <2>2 DEF Steps, ObserveSheet, ReadEvidence, PlanCorrection
  <2> QED
    BY <1>5, <2>1, <2>2 DEF ScanStep
<1>6. CASE PollReadState \/ PollObserve \/ PollPersist
  BY <1>2, <1>6 DEF Steps, PollReadState, PollObserve, PollPersist, PollKeeps
<1>7. CASE RetryResolution
  BY <1>1, <1>7, RetryCases DEF Steps
<1>8. CASE Restart \/ HumanEdit
  BY <1>2, <1>8 DEF Steps, Restart, HumanEdit, durable
<1> QED
  BY <1>3, <1>4, <1>5, <1>6, <1>7, <1>8 DEF Next

-----------------------------------------------------------------------------
(* Types and the order of the stream                                       *)

LEMMA ConfirmedRevisionType ==
    ASSUME StreamTypes, RecordTypes, NEW s \in 1 .. Latest
    PROVE  ConfirmedRevision(fx[s]) \in Nat
<1>1. fx[s] \in Effect
  BY DEF StreamTypes, Latest
<1>2. fx[s].rev \in Nat /\ confirmed.rev \in Nat
  BY <1>1 DEF Effect, RecordTypes, Confirmation
<1> QED
  BY <1>2 DEF ConfirmedRevision, ReceiptRevision, Larger

\* What the scans plan.
LEMMA CleanupPlanType ==
    ASSUME RecoveryTypeOK, scan.at = "classified", IsUser
    PROVE  /\ CleanupPlan \in Plan /\ CleanupPlan.position = Latest + 1 /\ CleanupPlan.by = 0
           /\ CleanupPlan.over = CleanupSupersedes /\ CleanupPlan.effect = CleanupEffect
           /\ CleanupEffect.status = "pending" /\ CleanupEffect.entity = 0 /\ ~CleanupEffect.create
           /\ CleanupEffect.rev = CleanupRevision
           /\ scan.kind # "duplicate" => CleanupEffect.kind = "write" /\ CleanupEffect.value = scan.value
           /\ CleanupSupersedes \in 0 .. Latest
           /\ CleanupSupersedes > 0 => CleanupSupersedes = Latest /\ Terminal(Latest)
<1>1. scan \in ScanRecord /\ scan.rows # <<>> /\ scan.kind \in {"duplicate", "rewrite"}
  BY DEF RecoveryTypeOK, ScanTypes
<1>2. Latest \in Nat /\ Latest > 0
  BY DEF RecoveryTypeOK, StreamTypes, Latest
<1>3. scan.rows \in Seq(Rows) /\ scan.value \in Rows
  BY <1>1 DEF ScanRecord
<1>4. scan.rows[1] \in Rows
  BY <1>1, <1>3
<1>5. scan.rows[1] \in Hashes
  BY <1>4 DEF Hashes
<1>6. CleanupRevision \in Nat
  BY DEF CleanupRevision, Larger, RecoveryTypeOK, RecordTypes, Confirmation
<1>7. CASE scan.kind = "rewrite"
  <2>1. CleanupEffect = NewEffect("write", FALSE, scan.value, scan.rows[1], CleanupRevision, 0)
    BY <1>7 DEF CleanupEffect
  <2>2. /\ CleanupEffect \in Effect /\ CleanupEffect.status = "pending" /\ CleanupEffect.entity = 0
        /\ CleanupEffect.kind = "write" /\ CleanupEffect.value = scan.value
        /\ ~CleanupEffect.create /\ CleanupEffect.rev = CleanupRevision
    BY <1>3, <1>5, <1>6, <2>1 DEF NewEffect, Effect, InFlight, Settled
  <2> QED
    BY <1>2, <2>2 DEF CleanupPlan, CleanupSupersedes, Plan
<1>8. CASE scan.kind = "duplicate"
  <2>1. CleanupEffect = NewEffect("delete", FALSE, scan.rows[1], scan.rows[1], CleanupRevision, 0)
    BY <1>8 DEF CleanupEffect
  <2>2. /\ CleanupEffect \in Effect /\ CleanupEffect.status = "pending" /\ CleanupEffect.entity = 0
        /\ ~CleanupEffect.create /\ CleanupEffect.rev = CleanupRevision
    BY <1>4, <1>5, <1>6, <2>1 DEF NewEffect, Effect, InFlight, Settled
  <2> QED
    BY <1>2, <1>8, <2>2 DEF CleanupPlan, CleanupSupersedes, Plan
<1> QED
  BY <1>1, <1>7, <1>8

LEMMA NoPlanType ==
    /\ NoPlan \in Plan /\ NoPlan.position = 0 /\ NoPlan.over = 0 /\ NoPlan.by = 0
    /\ NoPlan.effect.entity = 0 /\ NoPlan.effect.status = "pending"
<1> DEFINE e == NewEffect("write", FALSE, Gone, Empty, 0, 0)
<1>1. e \in Effect /\ e.entity = 0 /\ e.status = "pending"
  <2>1. Gone \in Rows /\ Empty \in Hashes
    BY DEF Rows, Hashes
  <2> QED
    BY <2>1 DEF NewEffect, Effect, InFlight, Settled
<1> QED
  BY <1>1 DEF NoPlan, Plan

LEMMA CorrectionBaselineType ==
    ASSUME RecoveryTypeOK
    PROVE  /\ CorrectionBaseline.hash \in Hashes /\ CorrectionBaseline.rev \in Nat
           /\ CorrectionBaseline.create \in BOOLEAN
<1>1. fx[Latest] \in Effect /\ scan.rows \in Seq(Rows)
  BY DEF RecoveryTypeOK, StreamTypes, Latest, ScanTypes, ScanRecord
<1>2. confirmed.hash \in Hashes /\ confirmed.rev \in Nat
  BY DEF RecoveryTypeOK, RecordTypes, Confirmation
<1>3. fx[Latest].value \in Hashes /\ fx[Latest].rev \in Nat
  BY <1>1 DEF Effect, Hashes
<1>4. CASE CorrectionBaseline = CreateBaseline
  BY <1>4 DEF CreateBaseline, Hashes
<1>5. CASE CorrectionBaseline = FollowerBaseline(fx[Latest])
  BY <1>2, <1>3, <1>5 DEF FollowerBaseline, TargetHash, Larger
<1>6. CASE CorrectionBaseline = VisibleBaseline
  <2>1. (IF Len(scan.rows) = 1 THEN scan.rows[1] ELSE Empty) \in Hashes
    BY <1>1 DEF Hashes
  <2> QED
    BY <1>2, <1>6, <2>1 DEF VisibleBaseline
<1> QED
  BY <1>4, <1>5, <1>6 DEF CorrectionBaseline

LEMMA CorrectionPlanType ==
    ASSUME RecoveryTypeOK
    PROVE  /\ CorrectionPlan \in Plan
           /\ CorrectionPlan.over = FailedHead /\ FailedHead \in 0 .. Latest
           /\ Covered => CorrectionPlan.by = Latest /\ CorrectionPlan.position = 0 /\ CorrectionPlan.effect.entity = 0
           /\ ~Covered =>
                /\ CorrectionPlan.by = 0 /\ CorrectionPlan.position = Latest + 1
                /\ CorrectionPlan.effect.status = "pending" /\ CorrectionPlan.effect.kind = "write"
                /\ CorrectionPlan.effect.value = scan.value /\ CorrectionPlan.effect.entity = scan.entity
                /\ CorrectionPlan.effect.create = CorrectionBaseline.create
                /\ CorrectionPlan.effect.hash = CorrectionBaseline.hash
                /\ CorrectionPlan.effect.rev = CorrectionBaseline.rev
<1>1. Latest \in Nat /\ FailedHead \in 0 .. Latest
  BY FailedHeadIsGivenUp DEF RecoveryTypeOK, StreamTypes, Latest
<1>2. scan.value \in Rows /\ scan.entity \in Nat
  BY DEF RecoveryTypeOK, ScanTypes, ScanRecord
<1>3. CASE Covered
  <2>1. CorrectionPlan = [NoPlan EXCEPT !.over = FailedHead, !.by = Latest]
    BY <1>3 DEF CorrectionPlan
  <2>2. NoPlan \in Plan /\ NoPlan.position = 0 /\ NoPlan.effect.entity = 0
    BY NoPlanType
  <2>3. PICK n \in Plan : n = NoPlan
    BY <2>2
  <2>4. CorrectionPlan = [n EXCEPT !.over = FailedHead, !.by = Latest] /\ n.position = 0 /\ n.effect.entity = 0
    BY <2>1, <2>2, <2>3
  <2>5. PICK h \in Nat : h = FailedHead
    BY <1>1
  <2>6. /\ CorrectionPlan \in Plan /\ CorrectionPlan.over = h /\ CorrectionPlan.by = Latest
        /\ CorrectionPlan.position = n.position /\ CorrectionPlan.effect = n.effect
    BY <1>1, <2>4, <2>5 DEF Plan
  <2> QED
    BY <1>1, <1>3, <2>4, <2>5, <2>6
<1>4. CASE ~Covered
  <2> DEFINE e == NewEffect("write", CorrectionBaseline.create, scan.value, CorrectionBaseline.hash,
                            CorrectionBaseline.rev, scan.entity)
  <2>1. CorrectionPlan = [effect |-> e, position |-> Latest + 1, over |-> FailedHead, by |-> 0]
    BY <1>4 DEF CorrectionPlan
  <2>2. /\ e \in Effect /\ e.status = "pending" /\ e.kind = "write" /\ e.value = scan.value
        /\ e.entity = scan.entity /\ e.create = CorrectionBaseline.create
        /\ e.hash = CorrectionBaseline.hash /\ e.rev = CorrectionBaseline.rev
    BY <1>2, CorrectionBaselineType, NewEffectType
  <2> HIDE DEF e
  <2> QED
    BY <1>1, <1>4, <2>1, <2>2 DEF Plan
<1> QED
  BY <1>3, <1>4

\* The steps of a scan, in its fields.
IdleScan ==
    scan'.at = "idle" /\ scan'.rows = <<>> /\ scan'.entity = 0 /\ scan' \in ScanRecord

ObservedScan ==
    /\ scan.at = "idle" /\ scan' \in ScanRecord
    /\ scan'.at = "observed" /\ scan'.rows = sheet /\ scan'.entity = 0

ReadScan ==
    /\ scan.at = "observed" /\ scan' \in ScanRecord /\ scan'.at = "classified"
    /\ scan'.rows = scan.rows /\ scan'.value = canon /\ scan'.entity = revision
    /\ scan'.kind = IF IsUser THEN CleanupKind ELSE ReconcileKind
    /\ scan'.kind # "none"

PlannedScan ==
    /\ scan.at = "classified" /\ scan' \in ScanRecord /\ scan'.at = "planned" /\ ~NothingToPlan
    /\ scan'.rows = scan.rows /\ scan'.value = scan.value /\ scan'.entity = scan.entity
    /\ scan'.kind = scan.kind
    /\ scan'.plan = IF IsUser THEN CleanupPlan ELSE CorrectionPlan

LEMMA IdleType ==
    Idle \in ScanRecord /\ Idle.at = "idle" /\ Idle.rows = <<>> /\ Idle.entity = 0
<1>1. NoPlan \in Plan
  BY NoPlanType
<1> HIDE DEF NoPlan
<1>2. <<>> \in Seq(Rows) /\ Gone \in Rows
  BY DEF Rows
<1> QED
  BY <1>1, <1>2 DEF Idle, ScanRecord

LEMMA ScanCases ==
    ASSUME RecoveryTypeOK, ObserveSheet \/ ReadEvidence \/ PlanCorrection \/ Enlist
    PROVE  /\ UNCHANGED <<projection, canon, revision, confirmed, remote, candidate, poll, refused, counters>>
           /\ \/ fx' = fx /\ (IdleScan \/ ObservedScan \/ ReadScan \/ PlannedScan)
              \/ Enlist /\ IdleScan
<1>1. scan \in ScanRecord /\ sheet \in Seq(Rows) /\ canon \in Rows /\ revision \in Nat
  BY DEF RecoveryTypeOK, ScanTypes, RemoteTypes, CanonTypes
<1>2. ASSUME scan' = Idle PROVE IdleScan
  BY <1>2, IdleType DEF IdleScan
<1>3. CASE ObserveSheet
  <2>1. scan.at = "idle" /\ scan' = [Idle EXCEPT !.at = "observed", !.rows = sheet]
    BY <1>3 DEF ObserveSheet
  <2>2. Idle \in ScanRecord /\ Idle.entity = 0
    BY IdleType
  <2> HIDE DEF Idle
  <2>3. ObservedScan
    BY <1>1, <2>1, <2>2 DEF ObservedScan, ScanRecord
  <2> QED
    BY <1>3, <2>3 DEF ObserveSheet, ScanKeeps
<1>4. CASE ReadEvidence
  <2> DEFINE kind == IF IsUser THEN CleanupKind ELSE ReconcileKind
  <2>1. kind \in {"none", "duplicate", "rewrite", "missing", "drifted", "wedged"}
    BY DEF CleanupKind, ReconcileKind
  <2>2. scan.at = "observed"
    BY <1>4 DEF ReadEvidence
  <2>3. CASE kind = "none"
    <3>1. scan' = Idle
      BY <1>4, <2>3 DEF ReadEvidence
    <3> QED
      BY <1>2, <1>4, <3>1 DEF ReadEvidence, ScanKeeps
  <2>4. CASE kind # "none"
    <3>1. scan' = [scan EXCEPT !.at = "classified", !.kind = kind, !.value = canon, !.entity = revision]
      BY <1>4, <2>4 DEF ReadEvidence
    <3> HIDE DEF kind
    <3>2. /\ scan' \in ScanRecord /\ scan'.at = "classified" /\ scan'.kind = kind
          /\ scan'.rows = scan.rows /\ scan'.value = canon /\ scan'.entity = revision
      BY <1>1, <2>1, <3>1 DEF ScanRecord
    <3>3. ReadScan
      BY <2>2, <2>4, <3>2 DEF ReadScan, kind
    <3> QED
      BY <1>4, <3>3 DEF ReadEvidence, ScanKeeps
  <2> QED
    BY <2>3, <2>4
<1>5. CASE PlanCorrection
  <2>1. CASE NothingToPlan
    <3>1. scan' = Idle
      BY <1>5, <2>1 DEF PlanCorrection
    <3> QED
      BY <1>2, <1>5, <3>1 DEF PlanCorrection, ScanKeeps
  <2>2. CASE ~NothingToPlan
    <3> DEFINE p == IF IsUser THEN CleanupPlan ELSE CorrectionPlan
    <3>1. scan.at = "classified" /\ scan' = [scan EXCEPT !.at = "planned", !.plan = p]
      BY <1>5, <2>2 DEF PlanCorrection
    <3>2. p \in Plan
      BY <3>1, CleanupPlanType, CorrectionPlanType
    <3> HIDE DEF p
    <3>3. /\ scan' \in ScanRecord /\ scan'.at = "planned" /\ scan'.plan = p /\ scan'.kind = scan.kind
          /\ scan'.rows = scan.rows /\ scan'.value = scan.value /\ scan'.entity = scan.entity
      BY <1>1, <3>1, <3>2 DEF ScanRecord
    <3>4. PlannedScan
      BY <2>2, <3>1, <3>3 DEF PlannedScan, p
    <3> QED
      BY <1>5, <3>4 DEF PlanCorrection, ScanKeeps
  <2> QED
    BY <2>1, <2>2
<1>6. CASE Enlist
  BY <1>2, <1>6 DEF Enlist, ScanKeeps
<1> QED
  BY <1>3, <1>4, <1>5, <1>6

LEMMA InitTypes ==
    ASSUME Init
    PROVE  RecoveryTypeOK /\ StreamInv
<1> DEFINE e == [NewEffect("write", TRUE, canon, Empty, 0, 1) EXCEPT !.status = "applied"]
<1>1. canon \in Rows /\ canon \in Hashes /\ Empty \in Hashes /\ Gone \in Rows /\ canon # Gone
  BY RecoveryAssumption DEF Init, Rows, Hashes
<1>2. /\ e \in Effect /\ e.status = "applied" /\ e.kind = "write" /\ e.value = canon
      /\ e.entity = 1
  BY <1>1 DEF NewEffect, Effect, InFlight, Settled
<1>3. fx = <<e>>
  BY DEF Init
<1> HIDE DEF e
<1>4. fx \in Seq(Effect) /\ Len(fx) = 1 /\ Latest = 1 /\ fx[1] = e
  BY <1>2, <1>3 DEF Latest
<1>5. CanonTypes
  BY <1>1, RecoveryAssumption DEF Init, CanonTypes
<1>6. StreamTypes
  BY <1>2, <1>4 DEF StreamTypes
<1>7. RemoteTypes
  <2>1. sheet = <<canon>> /\ receipts = {1}
    BY DEF Init
  <2> QED
    BY <1>1, <1>4, <2>1 DEF RemoteTypes
<1>8. RecordTypes
  <2>1. /\ confirmed = [hash |-> canon, rev |-> 1, entity |-> 1] /\ candidate = NoCandidate
        /\ refused = {} /\ disputed = FALSE /\ flushes = 0 /\ edits = 0 /\ faults = 0
    BY DEF Init
  <2> QED
    <3>1. confirmed \in Confirmation /\ confirmed.rev > 0
      BY <1>1, <2>1 DEF Confirmation
    <3>2. candidate \in [hash : Hashes, rev : Nat, command : BOOLEAN] /\ ~HasCandidate
      BY <1>1, <2>1 DEF NoCandidate, HasCandidate
    <3> QED
      <4>1. refused \subseteq 1 .. Latest /\ disputed \in BOOLEAN
        BY <2>1, Zenon
      <4>2. {flushes, edits, faults} \subseteq Nat
        BY <2>1
      <4> QED
        BY <3>1, <3>2, <4>1, <4>2 DEF RecordTypes
<1>9. ScanTypes
  BY IdleType DEF Init, ScanTypes
<1>10. PollTypes
  <2>1. poll = NoPoll
    BY DEF Init
  <2> QED
    BY <1>1, <2>1 DEF PollTypes, PollRecord, NoPoll, NoConfirmation, Confirmation
<1>11. InOrder /\ AppliedHasReceipt
  BY <1>2, <1>4 DEF InOrder, AtHead, AppliedHasReceipt, Init
<1>12. scan.at = "idle" /\ scan.entity = 0 /\ poll.at = "idle" /\ poll.revision = 0
  BY IdleType DEF Init, NoPoll
<1>13. revision = 1 /\ confirmed.entity = 1 /\ confirmed.hash = canon
  BY DEF Init
<1> QED
  BY <1>2, <1>4, <1>5, <1>6, <1>7, <1>8, <1>9, <1>10, <1>11, <1>12, <1>13
     DEF RecoveryTypeOK, StreamInv, PlanSane, EntitiesArePast, NewestIsCanonical, PlanWrites, Scanned

LEMMA NoPollType == NoPoll \in PollRecord /\ NoPoll.at = "idle" /\ NoPoll.revision = 0
  BY DEF NoPoll, PollRecord, NoConfirmation, Confirmation, Rows, Hashes

\* The steps of a poll, in its fields.
IdlePoll == poll' \in PollRecord /\ poll'.at = "idle" /\ poll'.revision = 0

ReadPoll ==
    /\ IsUser /\ Alive /\ poll' \in PollRecord /\ poll'.at = "read" /\ poll'.canon = canon
    /\ poll'.revision = revision /\ poll'.seen = confirmed

ObservedPoll ==
    /\ poll' \in PollRecord /\ poll'.at = "observed" /\ poll.at = "read"
    /\ poll'.canon = poll.canon /\ poll'.revision = poll.revision /\ poll'.seen = poll.seen
    /\ sheet # <<>> /\ Len(sheet) = 1 /\ poll'.row = sheet[1] /\ poll'.row \in Rows /\ sheet[1] # poll.canon

LEMMA PollCases ==
    ASSUME RecoveryTypeOK, PollReadState \/ PollObserve
    PROVE  /\ UNCHANGED <<canon, revision, confirmed, candidate, disputed>> /\ PollKeeps
           /\ IdlePoll \/ ReadPoll \/ ObservedPoll
<1>1. /\ poll \in PollRecord /\ canon \in Rows /\ revision \in Nat /\ confirmed \in Confirmation
      /\ sheet \in Seq(Rows)
  BY DEF RecoveryTypeOK, PollTypes, CanonTypes, RecordTypes, RemoteTypes
<1>2. CASE PollReadState
  <2>1. PICK n \in PollRecord : n = NoPoll
    BY NoPollType
  <2>2. HasCandidate \in BOOLEAN
    BY DEF HasCandidate
  <2>3. poll' = [n EXCEPT !.at = "read", !.canon = canon, !.revision = revision,
                          !.seen = confirmed, !.candidate = HasCandidate]
    BY <1>2, <2>1 DEF PollReadState
  <2>4. ReadPoll
    BY <1>1, <1>2, <2>2, <2>3 DEF ReadPoll, PollRecord, PollReadState
  <2> QED
    BY <1>2, <2>4 DEF PollReadState
<1>3. CASE PollObserve
  <2>1. CASE Len(sheet) = 1 /\ sheet[1] # poll.canon
    <3>1. sheet # <<>> /\ sheet[1] \in Rows
      BY <1>1, <2>1
    <3>2. sheet[1] \in Hashes
      BY <3>1 DEF Hashes
    <3>3. poll.at = "read" /\ poll' = [poll EXCEPT !.at = "observed", !.row = sheet[1]]
      BY <1>3, <2>1 DEF PollObserve
    <3>4. ObservedPoll
      BY <1>1, <2>1, <3>1, <3>2, <3>3 DEF ObservedPoll, PollRecord
    <3> QED
      BY <1>3, <3>4 DEF PollObserve
  <2>2. CASE ~(Len(sheet) = 1 /\ sheet[1] # poll.canon)
    <3>1. poll' = NoPoll
      BY <1>3, <2>2 DEF PollObserve
    <3> QED
      BY <1>3, <3>1, NoPollType DEF PollObserve, IdlePoll
  <2> QED
    BY <2>1, <2>2
<1> QED
  BY <1>2, <1>3

Accepted ==
    /\ ~EditConflicts /\ ~BaselineMoved /\ poll.revision = revision
    /\ canon' = poll.row /\ revision' = revision + 1
    /\ confirmed'.hash = poll.row /\ confirmed'.rev = confirmed.rev + 1
    /\ confirmed'.entity = revision + 1 /\ confirmed' \in Confirmation
    /\ candidate' = candidate

Disputed ==
    /\ UNCHANGED <<canon, revision, confirmed>> /\ CandidateType' /\ candidate'.rev > 0
    /\ candidate' = candidate \/ candidate'.rev = confirmed.rev + 1

LEMMA PersistCases ==
    ASSUME RecoveryTypeOK, PollPersist
    PROVE  /\ poll.at = "observed" /\ IsUser /\ IdlePoll /\ PollKeeps /\ CandidateType'
           /\ disputed' = (disputed \/ HasCandidate')
           /\ Accepted \/ Disputed \/ DropEdit
<1>1. /\ poll \in PollRecord /\ revision \in Nat /\ confirmed.rev \in Nat /\ poll.at = "observed"
      /\ poll.row \in Rows /\ IsUser /\ confirmed.rev > 0
  BY DEF RecoveryTypeOK, PollTypes, CanonTypes, RecordTypes, Confirmation, PollPersist
<1>2. poll.row \in Hashes /\ CandidateType
  BY <1>1 DEF Hashes, CandidateType, RecoveryTypeOK, RecordTypes
<1>3. /\ IdlePoll /\ PollKeeps /\ disputed' = (disputed \/ HasCandidate')
      /\ AcceptEdit \/ OpenConflict \/ DropEdit
  BY NoPollType DEF PollPersist, IdlePoll
<1>4. CASE AcceptEdit
  <2>1. Accepted /\ CandidateType'
    BY <1>1, <1>2, <1>4 DEF AcceptEdit, Accepted, Confirmation, CandidateType
  <2> QED
    BY <1>1, <1>3, <2>1
<1>5. CASE OpenConflict
  <2>1. UNCHANGED <<canon, revision, confirmed>>
    BY <1>5 DEF OpenConflict
  <2>2. CASE HasCandidate /\ candidate' = candidate
    BY <1>1, <1>2, <1>3, <2>1, <2>2 DEF Disputed, CandidateType, HasCandidate
  <2>3. CASE candidate' = [hash |-> poll.row, rev |-> confirmed.rev + 1, command |-> FALSE]
    <3>1. CandidateType' /\ candidate'.rev = confirmed.rev + 1 /\ candidate'.rev > 0
      BY <1>1, <1>2, <2>3 DEF CandidateType
    <3> QED
      BY <1>1, <1>3, <2>1, <3>1 DEF Disputed
  <2> QED
    BY <1>5, <2>2, <2>3 DEF OpenConflict
<1>6. CASE DropEdit
  BY <1>1, <1>2, <1>3, <1>6 DEF DropEdit, CandidateType
<1> QED
  BY <1>3, <1>4, <1>5, <1>6

LEMMA TypeStep ==
    ASSUME RecoveryTypeOK, Steps, Grows
    PROVE  RecoveryTypeOK'
<1>1. CanonTypes /\ StreamTypes /\ RemoteTypes /\ RecordTypes /\ ScanTypes /\ PollTypes
  BY DEF RecoveryTypeOK
<1>2. StreamTypes' /\ Latest \in Nat /\ Latest' \in Nat /\ Latest <= Latest'
  BY <1>1, GrowsType
<1>3. ASSUME UNCHANGED <<projection, canon, revision>> PROVE CanonTypes'
  BY <1>1, <1>3 DEF CanonTypes
<1>4. ASSUME UNCHANGED <<sheet, receipts>> PROVE RemoteTypes'
  BY <1>1, <1>2, <1>4 DEF RemoteTypes
<1>5. ASSUME UNCHANGED <<projection, confirmed, refused, disputed, edits>>,
             CandidateType', candidate'.rev > 0 => IsUser,
             flushes' \in Nat, faults' \in Nat
      PROVE  RecordTypes'
  BY <1>1, <1>2, <1>5 DEF RecordTypes, CandidateType, HasCandidate, IsUser
<1>6. ASSUME UNCHANGED <<projection, scan>> PROVE ScanTypes'
  BY <1>1, <1>6 DEF ScanTypes, IsUser
<1>7. ASSUME UNCHANGED <<projection, poll>> PROVE PollTypes'
  BY <1>1, <1>7 DEF PollTypes, IsUser
<1>8. IdlePoll => PollTypes'
  BY DEF IdlePoll, PollTypes
<1>9. IdleScan => ScanTypes'
  BY DEF IdleScan, ScanTypes
<1>10. CandidateType /\ flushes \in Nat /\ faults \in Nat /\ edits \in Nat /\ disputed \in BOOLEAN
       /\ (candidate.rev > 0 => IsUser)
  BY <1>1 DEF RecordTypes, CandidateType, HasCandidate
<1>11. CASE FlushShape
  <2>1. CanonTypes' /\ RemoteTypes' /\ ScanTypes' /\ PollTypes'
    BY <1>1, <1>4, <1>6, <1>7, <1>11 DEF FlushShape, CanonTypes, remote
  <2>2. CandidateType' /\ (candidate'.rev > 0 => IsUser)
    BY <1>10, <1>11 DEF FlushShape, FlushSuppressed, FlushWrites, FlushDeletes, FlushOverrules, FlushRevives,
                        SameCandidate, NoCandidate
  <2>3. RecordTypes'
    BY <1>5, <1>10, <1>11, <2>2 DEF FlushShape
  <2> QED
    BY <1>2, <2>1, <2>3 DEF RecoveryTypeOK
<1>12. ASSUME NEW s \in 1 .. Latest, DeliveryShape(s) PROVE RecoveryTypeOK'
  <2>1. CanonTypes' /\ ScanTypes' /\ PollTypes'
    BY <1>3, <1>6, <1>7, <1>12 DEF DeliveryShape, DeliveryKeeps
  <2>2. RemoteTypes'
    <3>1. CASE UNCHANGED remote
      BY <1>4, <3>1 DEF remote
    <3>2. CASE Landed(s)
      <4>1. sheet' \in Seq(Rows) /\ receipts' = receipts \cup {s}
        BY <1>1, <3>2, MutateType DEF Landed
      <4>2. receipts' \subseteq 1 .. Latest'
        BY <1>1, <1>2, <4>1 DEF RemoteTypes
      <4> QED
        BY <4>1, <4>2 DEF RemoteTypes
    <3> QED
      BY <1>12, <3>1, <3>2 DEF DeliveryShape, Stopped, Known, Probed
  <2>3. UNCHANGED <<projection, candidate, disputed, flushes, edits>> /\ faults' \in Nat
    BY <1>10, <1>12 DEF DeliveryShape, DeliveryKeeps
  <2>4. RecordTypes'
    <3>1. CASE UNCHANGED <<confirmed, refused>>
      BY <1>5, <1>10, <2>3, <3>1 DEF CandidateType
    <3>2. CASE Told(s)
      <4>1. fx[s].value \in Hashes /\ fx[s].entity \in Nat
        <5>1. fx[s] \in Effect
          BY <1>1 DEF StreamTypes, Latest
        <5> QED
          BY <5>1 DEF Effect, Hashes
      <4>2. confirmed' \in Confirmation /\ confirmed'.rev > 0
        BY <1>1, <3>2, <4>1, ConfirmedRevisionType DEF Told, RecordTypes, Confirmation
      <4>3. refused' \subseteq 1 .. Latest'
        <5>1. refused' = refused \/ refused' = refused \cup {s}
          BY <3>2 DEF Told
        <5>2. refused \subseteq 1 .. Latest /\ s \in 1 .. Latest'
          BY <1>1, <1>2 DEF RecordTypes
        <5> QED
          <6>1. \A r \in 1 .. Latest : r \in 1 .. Latest'
            BY <1>2
          <6> HIDE DEF Latest
          <6> QED
            BY <5>1, <5>2, <6>1, Zenon
      <4> QED
        BY <1>1, <1>10, <2>3, <4>2, <4>3 DEF RecordTypes, HasCandidate, IsUser
    <3> QED
      BY <1>12, <3>1, <3>2 DEF DeliveryShape, Stopped, Landed, Known, Probed, Marked
  <2> QED
    BY <1>2, <2>1, <2>2, <2>4 DEF RecoveryTypeOK
<1>13. CASE ObserveSheet \/ ReadEvidence \/ PlanCorrection \/ Enlist
  <2>1. /\ UNCHANGED <<projection, canon, revision, confirmed, remote, candidate, poll, refused, counters>>
        /\ IdleScan \/ ObservedScan \/ ReadScan \/ PlannedScan
    BY <1>13, ScanCases
  <2>2. CanonTypes' /\ RemoteTypes' /\ PollTypes'
    BY <1>3, <1>4, <1>7, <2>1 DEF remote
  <2>3. RecordTypes'
    BY <1>5, <1>10, <2>1 DEF CandidateType, counters
  <2>4. ScanTypes'
    <3>1. CASE IdleScan
      BY <1>9, <3>1
    <3>2. CASE ObservedScan
      BY <3>2 DEF ObservedScan, ScanTypes
    <3>3. CASE ReadScan
      <4>1. scan.rows \in Seq(Rows)
        BY <1>1 DEF ScanTypes, ScanRecord
      <4>2. CleanupKind # "none" => CleanupKind \in {"duplicate", "rewrite"} /\ Len(scan.rows) >= 1
        BY <4>1 DEF CleanupKind
      <4>3. ReconcileKind # "none" => ReconcileKind \in {"missing", "drifted", "wedged"}
        BY DEF ReconcileKind
      <4>4. Len(scan.rows) >= 1 => scan.rows # <<>>
        OBVIOUS
      <4> QED
        BY <2>1, <3>3, <4>2, <4>3, <4>4 DEF ReadScan, ScanTypes, IsUser
    <3>4. CASE PlannedScan
      BY <1>1, <2>1, <3>4 DEF PlannedScan, ScanTypes, IsUser
    <3> QED
      BY <2>1, <3>1, <3>2, <3>3, <3>4
  <2> QED
    BY <1>2, <2>2, <2>3, <2>4 DEF RecoveryTypeOK
<1>14. CASE PollReadState \/ PollObserve
  <2>1. /\ UNCHANGED <<canon, revision, confirmed, candidate, disputed>> /\ PollKeeps
        /\ IdlePoll \/ ReadPoll \/ ObservedPoll
    BY <1>14, PollCases
  <2>2. CanonTypes' /\ RemoteTypes' /\ ScanTypes'
    BY <1>3, <1>4, <1>6, <2>1 DEF PollKeeps, remote
  <2>3. RecordTypes'
    BY <1>5, <1>10, <2>1 DEF CandidateType, PollKeeps
  <2>4. PollTypes'
    BY <1>1, <1>8, <2>1 DEF ReadPoll, ObservedPoll, PollTypes, PollKeeps, IsUser
  <2> QED
    BY <1>2, <2>2, <2>3, <2>4 DEF RecoveryTypeOK
<1>15. CASE PollPersist
  <2>1. /\ poll.at = "observed" /\ IsUser /\ IdlePoll /\ PollKeeps /\ CandidateType'
        /\ disputed' = (disputed \/ HasCandidate')
        /\ Accepted \/ Disputed \/ DropEdit
    BY <1>15, PersistCases
  <2>2. RemoteTypes' /\ ScanTypes' /\ PollTypes'
    BY <1>4, <1>6, <1>8, <2>1 DEF PollKeeps, remote
  <2>3. CanonTypes'
    BY <1>1, <2>1 DEF CanonTypes, PollKeeps, Accepted, Disputed, DropEdit, PollTypes
  <2>4. confirmed' \in Confirmation /\ confirmed'.rev > 0
    BY <1>1, <2>1 DEF RecordTypes, Confirmation, Accepted, Disputed, DropEdit
  <2>5. disputed' \in BOOLEAN
    BY <1>10, <2>1 DEF HasCandidate
  <2>6. RecordTypes'
    BY <1>1, <1>2, <1>10, <2>1, <2>4, <2>5 DEF RecordTypes, CandidateType, PollKeeps, IsUser
  <2> QED
    BY <1>2, <2>2, <2>3, <2>6 DEF RecoveryTypeOK
<1>16. CASE RetryShape
  <2>1. CandidateType' /\ candidate'.rev = 0
    BY <1>16 DEF RetryShape, CandidateType, NoCandidate, Hashes
  <2>2. CanonTypes' /\ RemoteTypes' /\ ScanTypes' /\ PollTypes'
    BY <1>3, <1>4, <1>6, <1>7, <1>16 DEF RetryShape, remote
  <2>3. RecordTypes'
    BY <1>5, <1>10, <1>16, <2>1 DEF RetryShape, counters
  <2> QED
    BY <1>2, <2>2, <2>3 DEF RecoveryTypeOK
<1>17. CASE Restart
  <2>1. ScanTypes' /\ PollTypes'
    BY <1>17, IdleType, NoPollType DEF Restart, ScanTypes, PollTypes
  <2>2. CanonTypes' /\ RemoteTypes'
    BY <1>3, <1>4, <1>17 DEF Restart, durable, remote
  <2>3. RecordTypes'
    BY <1>5, <1>10, <1>17 DEF Restart, durable, CandidateType
  <2> QED
    BY <1>2, <2>1, <2>2, <2>3 DEF RecoveryTypeOK
<1>18. CASE HumanEdit
  <2>1. CanonTypes' /\ ScanTypes' /\ PollTypes'
    BY <1>3, <1>6, <1>7, <1>18 DEF HumanEdit, durable
  <2>2. RemoteTypes'
    <3>1. sheet \in Seq(Rows) /\ sheet # <<>> /\ Values \subseteq Rows
      BY <1>1, <1>18 DEF RemoteTypes, HumanEdit, Rows
    <3>2. sheet' \in Seq(Rows)
      <4>1. ASSUME NEW v \in Values PROVE [sheet EXCEPT ![1] = v] \in Seq(Rows)
        BY <3>1, ExceptSeq
      <4>2. Tail(sheet) \in Seq(Rows) /\ <<sheet[1], sheet[1]>> \in Seq(Rows)
        BY <3>1
      <4> QED
        BY <1>18, <4>1, <4>2 DEF HumanEdit
    <3> QED
      BY <1>1, <1>2, <1>18, <3>2 DEF RemoteTypes, HumanEdit
  <2>3. RecordTypes'
    BY <1>1, <1>2, <1>10, <1>18 DEF HumanEdit, durable, RecordTypes, HasCandidate, IsUser
  <2> QED
    BY <1>2, <2>1, <2>2, <2>3 DEF RecoveryTypeOK
<1> QED
  BY <1>11, <1>12, <1>13, <1>14, <1>15, <1>16, <1>17, <1>18 DEF Steps

-----------------------------------------------------------------------------
(* The order of the stream                                                 *)

Waiting(e) == e.status \in {"pending", "superseded"}

\* What the step of a scan may do.
ScanMove ==
    /\ UNCHANGED <<projection, canon, revision, confirmed, remote, candidate, poll, refused, counters>>
    /\ \/ fx' = fx /\ (IdleScan \/ ObservedScan \/ ReadScan \/ PlannedScan)
       \/ scan.at = "planned" /\ EnlistShape /\ IdleScan

PollMove ==
    /\ UNCHANGED <<canon, revision, confirmed, candidate, disputed>> /\ PollKeeps
    /\ IdlePoll \/ ReadPoll \/ ObservedPoll

PersistMove ==
    /\ poll.at = "observed" /\ IsUser /\ IdlePoll /\ PollKeeps /\ CandidateType'
    /\ disputed' = (disputed \/ HasCandidate')
    /\ Accepted \/ Disputed \/ DropEdit

Moves ==
    \/ FlushShape
    \/ \E s \in 1 .. Latest : DeliveryShape(s)
    \/ ScanMove \/ PollMove \/ PersistMove \/ RetryShape \/ Restart \/ HumanEdit

LEMMA MoveCases ==
    ASSUME RecoveryTypeOK, Steps
    PROVE  Moves
<1>1. CASE ObserveSheet \/ ReadEvidence \/ PlanCorrection \/ (Enlist /\ EnlistShape)
  <2>1. Enlist => scan.at = "planned"
    BY DEF Enlist
  <2>2. (ObserveSheet => scan.at = "idle") /\ (ReadEvidence => scan.at = "observed")
        /\ (PlanCorrection => scan.at = "classified")
    BY DEF ObserveSheet, ReadEvidence, PlanCorrection
  <2>3. ScanMove
    BY <1>1, <2>1, <2>2, ScanCases DEF ScanMove
  <2> QED
    BY <2>3 DEF Moves
<1>2. CASE PollReadState \/ PollObserve
  BY <1>2, PollCases DEF Moves, PollMove
<1>3. CASE PollPersist
  BY <1>3, PersistCases DEF Moves, PersistMove
<1> QED
  BY <1>1, <1>2, <1>3 DEF Steps, Moves

\* What joins the stream waits, and if it is of the newest revision it
\* writes the canonical value.
Joins(u) ==
    /\ Waiting(fx'[u]) /\ fx'[u].entity <= revision'
    /\ ~IsUser => fx'[u].kind = "write"
    /\ Alive' /\ fx'[u].entity = revision' => fx'[u].kind = "write" /\ fx'[u].value = canon'

LEMMA FlushJoins ==
    ASSUME RecoveryTypeOK, FlushShape
    PROVE  /\ \A u \in 1 .. Latest : Outlives(fx'[u], fx[u])
           /\ \A u \in 1 .. Latest' : u > Latest => Joins(u) /\ fx'[u].entity = revision'
<1>1. /\ CanonTypes /\ StreamTypes /\ RecordTypes /\ fx \in Seq(Effect) /\ Latest = Len(fx) /\ Latest' = Len(fx')
      /\ Latest \in Nat /\ revision \in Nat /\ canon' \in Rows /\ canon \in Rows /\ revision' = revision + 1
      /\ CandidateType /\ projection' = projection
  BY DEF RecoveryTypeOK, StreamTypes, CanonTypes, RecordTypes, CandidateType, Latest, FlushShape
<1>2. \A d : Outlives(d, d)
  BY DEF Outlives
<1>3. ASSUME NEW u, Waiting(fx'[u]), SameContent(fx'[u], Flushed("write", canon'))
      PROVE  Joins(u) /\ fx'[u].entity = revision'
  BY <1>1, <1>3, FlushedType DEF Joins, SameContent
<1>4. ASSUME NEW u, fx'[u] = NewEffect("write", FALSE, canon', candidate.hash, candidate.rev, revision + 1)
      PROVE  Joins(u) /\ fx'[u].entity = revision'
  <2>1. /\ fx'[u].status = "pending" /\ fx'[u].entity = revision + 1
        /\ fx'[u].kind = "write" /\ fx'[u].value = canon'
    BY <1>1, <1>4 DEF NewEffect
  <2> QED
    BY <1>1, <2>1 DEF Joins, Waiting
<1>5. CASE FlushSuppressed
  BY <1>1, <1>2, <1>5 DEF FlushSuppressed
<1>6. CASE FlushWrites
  <2>1. /\ Latest' = Latest + 1 /\ fx'[Latest + 1] = Flushed("write", canon')
        /\ \A u \in 1 .. Latest : fx'[u] = fx[u]
    BY <1>1, <1>6 DEF FlushWrites, Extends
  <2>2. Waiting(fx'[Latest + 1]) /\ SameContent(fx'[Latest + 1], Flushed("write", canon'))
    BY <1>1, <2>1, FlushedType DEF Waiting, SameContent
  <2>3. Joins(Latest + 1) /\ fx'[Latest + 1].entity = revision'
    BY <1>3, <2>2
  <2> QED
    BY <1>1, <1>2, <2>1, <2>3
<1>7. CASE FlushDeletes
  <2>1. /\ Latest' = Latest + 1 /\ fx'[Latest + 1] = Flushed("delete", canon)
        /\ canon' = Gone /\ IsUser /\ \A u \in 1 .. Latest : fx'[u] = fx[u]
    BY <1>1, <1>7 DEF FlushDeletes, Extends
  <2>2. fx'[Latest + 1].status = "pending" /\ fx'[Latest + 1].entity = revision + 1
    BY <1>1, <2>1, FlushedType
  <2>3. Joins(Latest + 1) /\ fx'[Latest + 1].entity = revision'
    BY <1>1, <2>1, <2>2 DEF Joins, Waiting, Alive
  <2> QED
    BY <1>1, <1>2, <2>1, <2>3
<1>8. CASE FlushOverrules
  <2>1. /\ Latest' = Latest + 1
        /\ fx'[Latest + 1] = NewEffect("write", FALSE, canon', candidate.hash, candidate.rev, revision + 1)
        /\ \A u \in 1 .. Latest : Outlives(fx'[u], fx[u])
    BY <1>1, <1>8 DEF FlushOverrules, Overrules
  <2>2. Joins(Latest + 1) /\ fx'[Latest + 1].entity = revision'
    BY <1>4, <2>1
  <2>3. \A u \in 1 .. Latest' : u > Latest => u = Latest + 1
    BY <1>1, <2>1
  <2> QED
    BY <2>1, <2>2, <2>3, Zenon
<1>9. CASE FlushRevives
  <2>1. PICK q : Extends(q, fx, Flushed("write", canon')) /\ Overrules(fx', q, canon', revision + 1)
    BY <1>9 DEF FlushRevives
  <2>2. Len(q) = Latest + 1 /\ q[Latest + 1] = Flushed("write", canon') /\ \A u \in 1 .. Latest : q[u] = fx[u]
    BY <1>1, <2>1 DEF Extends
  <2>3. /\ Latest' = Latest + 2 /\ \A u \in 1 .. Latest + 1 : Outlives(fx'[u], q[u])
        /\ fx'[Latest + 2] = NewEffect("write", FALSE, canon', candidate.hash, candidate.rev, revision + 1)
    <3>1. /\ Len(fx') = Len(q) + 1 /\ \A u \in 1 .. Len(q) : Outlives(fx'[u], q[u])
          /\ fx'[Len(q) + 1] = NewEffect("write", FALSE, canon', candidate.hash, candidate.rev, revision + 1)
      BY <2>1 DEF Overrules
    <3>2. Latest + 2 = Latest + 1 + 1
      BY <1>1
    <3> QED
      BY <1>1, <2>2, <3>1, <3>2, Zenon
  <2>4. Joins(Latest + 2) /\ fx'[Latest + 2].entity = revision'
    BY <1>4, <2>3
  <2>5. Outlives(fx'[Latest + 1], Flushed("write", canon')) /\ Flushed("write", canon').status = "pending"
    BY <1>1, <2>2, <2>3, FlushedType
  <2>6. Waiting(fx'[Latest + 1]) /\ SameContent(fx'[Latest + 1], Flushed("write", canon'))
    BY <2>5 DEF Outlives, Waiting, SameContent
  <2>7. Joins(Latest + 1) /\ fx'[Latest + 1].entity = revision'
    BY <1>3, <2>6
  <2>8. \A u \in 1 .. Latest' : u > Latest => u \in {Latest + 1, Latest + 2}
    BY <1>1, <2>3
  <2>9. \A u \in 1 .. Latest : u \in 1 .. Latest + 1 /\ q[u] = fx[u]
    BY <1>1, <2>2
  <2> QED
    BY <2>3, <2>4, <2>7, <2>8, <2>9, Zenon
<1> QED
  BY <1>5, <1>6, <1>7, <1>8, <1>9 DEF FlushShape

LEMMA RetryJoins ==
    ASSUME RecoveryTypeOK, RetryShape
    PROVE  /\ Latest' = Latest + 1
           /\ \A u \in 1 .. Latest : Outlives(fx'[u], fx[u])
           /\ \A u \in 1 .. Latest' : u > Latest => Joins(u)
<1>1. /\ Latest = Len(fx) /\ Latest' = Len(fx') /\ Latest \in Nat /\ revision \in Nat /\ IsUser
      /\ canon' = canon /\ revision' = revision
  BY DEF RecoveryTypeOK, StreamTypes, CanonTypes, RecordTypes, Latest, RetryShape
<1>2. CASE Alive /\ Overrules(fx', fx, canon, revision)
  <2>1. /\ Latest' = Latest + 1
        /\ fx'[Latest + 1] = NewEffect("write", FALSE, canon, candidate.hash, candidate.rev, revision)
        /\ \A u \in 1 .. Latest : Outlives(fx'[u], fx[u])
    BY <1>1, <1>2 DEF Overrules
  <2>2. /\ fx'[Latest + 1].status = "pending" /\ fx'[Latest + 1].entity = revision
        /\ fx'[Latest + 1].kind = "write" /\ fx'[Latest + 1].value = canon
    BY <2>1 DEF NewEffect
  <2>3. Joins(Latest + 1)
    BY <1>1, <2>2 DEF Joins, Waiting
  <2> QED
    BY <1>1, <2>1, <2>3
<1>3. CASE ~Alive /\ \E v \in Values : Overrules(fx', fx, v, 0)
  <2>1. PICK v \in Values : Overrules(fx', fx, v, 0)
    BY <1>3
  <2>2. /\ Latest' = Latest + 1 /\ ~Alive'
        /\ fx'[Latest + 1] = NewEffect("write", FALSE, v, candidate.hash, candidate.rev, 0)
        /\ \A u \in 1 .. Latest : Outlives(fx'[u], fx[u])
    BY <1>1, <1>3, <2>1 DEF Overrules, Alive
  <2>3. fx'[Latest + 1].status = "pending" /\ fx'[Latest + 1].entity = 0
    BY <2>2 DEF NewEffect
  <2>4. Joins(Latest + 1)
    <3>1. 0 <= revision'
      BY <1>1
    <3> QED
      BY <1>1, <2>2, <2>3, <3>1 DEF Joins, Waiting
  <2> QED
    BY <1>1, <2>2, <2>4
<1> QED
  BY <1>2, <1>3 DEF RetryShape

LEMMA EnlistJoins ==
    ASSUME RecoveryTypeOK, StreamInv, ScanMove, EnlistShape, scan.at = "planned"
    PROVE  \A u \in 1 .. Latest' : u > Latest => Joins(u)
<1>1. /\ Latest = Len(fx) /\ Latest' = Len(fx') /\ Latest \in Nat /\ revision \in Nat /\ revision > 0
      /\ canon' = canon /\ revision' = revision /\ scan.entity \in Nat /\ scan.plan.effect.entity \in Nat
  BY DEF RecoveryTypeOK, StreamTypes, CanonTypes, ScanTypes, ScanRecord, Plan, Effect, Latest, ScanMove
<1>2. CASE Len(fx') = Len(fx)
  BY <1>1, <1>2
<1>3. CASE Len(fx') = Len(fx) + 1 /\ scan.plan.by = 0 /\ fx'[Len(fx) + 1] = scan.plan.effect
  <2>1. scan.plan.effect.status = "pending" /\ scan.plan.effect.entity <= scan.entity /\ scan.entity <= revision
    BY <1>3 DEF StreamInv, PlanWrites, EntitiesArePast
  <2>2. ~IsUser => /\ scan.plan.effect.kind = "write" /\ scan.plan.effect.value = scan.value
                   /\ scan.entity = revision => scan.value = canon
    BY <1>3 DEF StreamInv, PlanWrites, NewestIsCanonical, Scanned, RecoveryTypeOK, ScanTypes
  <2>3. IsUser => scan.plan.effect.entity = 0
    BY DEF StreamInv, PlanWrites
  <2>4. Joins(Latest + 1)
    BY <1>1, <1>3, <2>1, <2>2, <2>3 DEF Joins, Waiting, Alive
  <2> QED
    BY <1>1, <1>3, <2>4
<1> QED
  BY <1>2, <1>3 DEF EnlistShape

\* A step leaves the waiting effects waiting, but for the one that is delivered.
LEMMA StreamMoves ==
    ASSUME RecoveryTypeOK, StreamInv, Moves, Grows
    PROVE  /\ \A u \in 1 .. Latest' : u > Latest => Joins(u)
           /\ \A u \in 1 .. Latest : ~Waiting(fx'[u]) => ~Waiting(fx[u]) \/ AtHead(u)
           /\ receipts \subseteq receipts'
           /\ \A u \in 1 .. Latest : fx'[u].status = "applied" => u \in receipts'
<1>1. Latest = Len(fx) /\ Latest' = Len(fx') /\ Latest \in Nat /\ AppliedHasReceipt /\ StreamTypes
  BY DEF RecoveryTypeOK, StreamTypes, Latest, StreamInv
<1>2. ASSUME \A u \in 1 .. Latest : Outlives(fx'[u], fx[u]), UNCHANGED receipts
      PROVE  /\ \A u \in 1 .. Latest : ~Waiting(fx'[u]) => ~Waiting(fx[u])
             /\ receipts \subseteq receipts'
             /\ \A u \in 1 .. Latest : fx'[u].status = "applied" => u \in receipts'
  BY <1>1, <1>2 DEF Outlives, Waiting, AppliedHasReceipt
<1>3. \A d : Outlives(d, d)
  BY DEF Outlives
<1>4. ASSUME fx' = fx, UNCHANGED receipts
      PROVE  /\ \A u \in 1 .. Latest' : u > Latest => Joins(u)
             /\ \A u \in 1 .. Latest : ~Waiting(fx'[u]) => ~Waiting(fx[u]) \/ AtHead(u)
             /\ receipts \subseteq receipts'
             /\ \A u \in 1 .. Latest : fx'[u].status = "applied" => u \in receipts'
  <2>1. \A u \in 1 .. Latest : Outlives(fx'[u], fx[u])
    BY <1>3, <1>4
  <2> QED
    BY <1>1, <1>2, <1>4, <2>1
<1>5. CASE FlushShape
  BY <1>2, <1>5, FlushJoins DEF FlushShape, remote
<1>6. CASE RetryShape
  BY <1>2, <1>6, RetryJoins DEF RetryShape, remote
<1>7. ASSUME NEW s \in 1 .. Latest, DeliveryShape(s)
      PROVE  /\ Latest' = Latest
             /\ \A u \in 1 .. Latest : ~Waiting(fx'[u]) => ~Waiting(fx[u]) \/ AtHead(u)
             /\ receipts \subseteq receipts'
             /\ \A u \in 1 .. Latest : fx'[u].status = "applied" => u \in receipts'
  <2>1. Latest' = Latest /\ \A u \in 1 .. Latest : u # s => fx'[u] = fx[u]
    BY <1>1, <1>7, DeliveryGrows DEF Remarks
  <2>2. receipts \subseteq receipts'
    BY <1>7 DEF DeliveryShape, Stopped, Landed, Known, Probed, Mutate, remote
  <2>3. ~Waiting(fx'[s]) => ~Waiting(fx[s]) \/ AtHead(s)
    BY <1>7 DEF DeliveryShape, Stopped, Landed, Known, Probed, Dispatchable, Uncertain, Waiting, Marked
  <2>4. fx'[s].status = "applied" => s \in receipts'
    <3>1. CASE Stopped(s) \/ Probed(s)
      BY <3>1 DEF Stopped, Probed, Marked
    <3>2. CASE Landed(s)
      BY <3>2 DEF Landed, Mutate
    <3>3. CASE Known(s)
      <4>1. Outcome(s) = "already_applied" => s \in receipts
        BY <1>1, OutcomeMeans DEF RecoveryTypeOK
      <4>2. Postcondition(s) = "applied" => s \in receipts
        BY DEF Postcondition
      <4> QED
        BY <3>3, <4>1, <4>2 DEF Known, remote
    <3> QED
      BY <1>7, <3>1, <3>2, <3>3 DEF DeliveryShape
  <2> QED
    BY <1>1, <2>1, <2>2, <2>3, <2>4 DEF AppliedHasReceipt
<1>8. CASE ScanMove
  <2>1. UNCHANGED receipts
    BY <1>8 DEF ScanMove, remote
  <2>2. CASE fx' = fx
    BY <1>4, <2>1, <2>2
  <2>3. CASE scan.at = "planned" /\ EnlistShape
    <3>1. \A u \in 1 .. Latest : fx'[u] = fx[u] \/ fx'[u].status = "superseded"
      BY <2>3 DEF EnlistShape
    <3> QED
      BY <1>1, <1>8, <2>1, <2>3, <3>1, EnlistJoins DEF Waiting, AppliedHasReceipt
  <2> QED
    BY <1>8, <2>2, <2>3 DEF ScanMove
<1>9. CASE PollMove \/ PersistMove \/ Restart \/ HumanEdit
  BY <1>4, <1>9 DEF PollMove, PersistMove, PollKeeps, Restart, HumanEdit, durable, remote
<1>10. CASE \E s \in 1 .. Latest : DeliveryShape(s)
  BY <1>1, <1>7, <1>10
<1> QED
  BY <1>5, <1>6, <1>8, <1>9, <1>10 DEF Moves

LEMMA KeptMeans ==
    ASSUME NEW d, NEW e, Kept(e, d)
    PROVE  /\ SameContent(e, d)
           /\ d.status \in Settled => e.status = d.status
           /\ d.status \in {"conflict", "blocked_candidate"} \/ (d.status = "failed" /\ d.terminal) =>
                  e.status = "superseded" \/ (e.status = d.status /\ e.terminal = d.terminal)
  BY DEF Kept

LEMMA HeadStays ==
    ASSUME StreamTypes, Grows, NEW s \in 1 .. Latest, AtHead(s)
    PROVE  AtHead(s)'
<1>1. ASSUME NEW p \in 1 .. s - 1 PROVE fx'[p].status \in Settled
  <2>1. p \in 1 .. Latest /\ fx[p].status \in Settled
    BY DEF AtHead, StreamTypes, Latest
  <2> QED
    BY <2>1, GrowsType, KeptMeans
<1> QED
  BY <1>1 DEF AtHead

LEMMA GivenUpStays ==
    ASSUME StreamTypes, Grows, NEW s \in 1 .. Latest, GivenUp(s)
    PROVE  GivenUp(s)'
<1>1. Kept(fx'[s], fx[s])
  BY GrowsType
<1> QED
  BY <1>1, KeptMeans DEF GivenUp, Terminal, Settled

LEMMA OrderStep ==
    ASSUME RecoveryTypeOK, StreamInv, Moves, Grows
    PROVE  InOrder' /\ AppliedHasReceipt'
<1>1. StreamTypes /\ InOrder
  BY DEF RecoveryTypeOK, StreamInv
<1>2. /\ \A u \in 1 .. Latest' : u > Latest => Joins(u)
      /\ \A u \in 1 .. Latest : ~Waiting(fx'[u]) => ~Waiting(fx[u]) \/ AtHead(u)
      /\ \A u \in 1 .. Latest : fx'[u].status = "applied" => u \in receipts'
  BY StreamMoves
<1>3. ASSUME NEW s \in 1 .. Latest', fx'[s].status \notin {"pending", "superseded"}
      PROVE  AtHead(s)'
  <2>1. s \in 1 .. Latest
    BY <1>1, <1>2, <1>3, GrowsType DEF Joins, Waiting
  <2>2. AtHead(s)
    BY <1>1, <1>2, <1>3, <2>1 DEF InOrder, Waiting
  <2> QED
    BY <1>1, <2>1, <2>2, HeadStays
<1>4. ASSUME NEW s \in 1 .. Latest', fx'[s].status = "applied"
      PROVE  s \in receipts'
  <2>1. s \in 1 .. Latest
    BY <1>1, <1>2, <1>4, GrowsType DEF Joins, Waiting
  <2> QED
    BY <1>2, <1>4, <2>1
<1> QED
  BY <1>3, <1>4 DEF InOrder, AppliedHasReceipt

LEMMA PlanSaneStep ==
    ASSUME RecoveryTypeOK, StreamInv, Moves, Grows
    PROVE  PlanSane'
<1>1. /\ StreamTypes /\ PlanSane /\ Latest \in Nat /\ Latest' \in Nat /\ Latest <= Latest'
      /\ scan.plan.position \in Nat
  BY GrowsType DEF RecoveryTypeOK, StreamInv, ScanTypes, ScanRecord, Plan
<1>2. ASSUME UNCHANGED <<scan, projection>> PROVE PlanSane'
  <2>1. PICK o \in Nat : o = scan.plan.over
    BY DEF RecoveryTypeOK, ScanTypes, ScanRecord, Plan
  <2>2. ASSUME scan.at = "planned", o > 0 PROVE o \in 1 .. Latest' /\ GivenUp(o)'
    <3>1. o \in 1 .. Latest /\ GivenUp(o)
      BY <1>1, <2>1, <2>2 DEF PlanSane
    <3> QED
      BY <1>1, <3>1, GivenUpStays
  <2>3. scan'.at = scan.at /\ scan'.plan = scan.plan /\ IsUser' = IsUser /\ scan'.plan.over = o
    BY <1>2, <2>1 DEF IsUser
  <2>4. ASSUME scan'.at = "planned"
        PROVE  /\ scan'.plan.position <= Latest' + 1
               /\ o > 0 => o \in 1 .. Latest' /\ GivenUp(o)'
               /\ scan'.plan.by > 0 => ~IsUser' /\ o > 0
    BY <1>1, <2>1, <2>2, <2>3, <2>4 DEF PlanSane
  <2>5. scan'.plan.over > 0 /\ GivenUp(o)' => GivenUp(scan.plan.over)'
    BY <2>3 DEF GivenUp, Terminal
  <2> QED
    BY <2>3, <2>4, <2>5 DEF PlanSane
<1>3. ASSUME scan'.at # "planned" PROVE PlanSane'
  BY <1>3 DEF PlanSane
<1>4. CASE ScanMove
  <2>1. CASE fx' = fx /\ PlannedScan
    <3>1. scan'.at = "planned" /\ scan.at = "classified" /\ ~NothingToPlan
          /\ scan'.plan = IF IsUser THEN CleanupPlan ELSE CorrectionPlan
      BY <2>1 DEF PlannedScan
    <3>2. Latest' = Latest /\ \A s \in 1 .. Latest : GivenUp(s) => GivenUp(s)'
      BY <1>1, <2>1, GivenUpStays DEF Latest
    <3>3. CASE IsUser
      <4>1. scan'.plan.position = Latest + 1 /\ scan'.plan.by = 0 /\ scan'.plan.over = CleanupSupersedes
        BY <3>1, <3>3, CleanupPlanType
      <4>2. PICK o \in Nat : o = CleanupSupersedes
        BY <1>1, <3>1, <3>3, CleanupPlanType
      <4>3. o > 0 => o \in 1 .. Latest /\ GivenUp(o)
        <5>1. Latest > 0 /\ (CleanupSupersedes > 0 => CleanupSupersedes = Latest /\ Terminal(Latest))
          BY <1>1, <3>1, <3>3, CleanupPlanType DEF StreamTypes
        <5> QED
          BY <1>1, <4>2, <5>1 DEF GivenUp
      <4>4. o > 0 => o \in 1 .. Latest' /\ GivenUp(o)'
        BY <3>2, <4>3
      <4>5. GivenUp(o)' => GivenUp(scan.plan.over)'
        BY <4>1, <4>2 DEF GivenUp, Terminal
      <4> QED
        BY <1>1, <3>2, <4>1, <4>2, <4>4, <4>5 DEF PlanSane
    <3>4. CASE ~IsUser
      <4>1. /\ scan'.plan = CorrectionPlan /\ CorrectionPlan.over = FailedHead /\ FailedHead \in 0 .. Latest
            /\ Covered => CorrectionPlan.by = Latest /\ CorrectionPlan.position = 0 /\ FailedHead # 0
            /\ ~Covered => CorrectionPlan.by = 0 /\ CorrectionPlan.position = Latest + 1
        BY <3>1, <3>4, CorrectionPlanType DEF NothingToPlan
      <4>2. PICK o \in Nat : o = FailedHead
        BY <1>1, <4>1
      <4>3. o > 0 => o \in 1 .. Latest /\ GivenUp(o)
        BY <1>1, <4>1, <4>2, FailedHeadIsGivenUp DEF GivenUp, Terminal
      <4>4. o > 0 => o \in 1 .. Latest' /\ GivenUp(o)'
        BY <3>2, <4>3
      <4>5. IsUser' = IsUser
        BY <1>4 DEF ScanMove, IsUser
      <4>6. scan'.plan.position <= Latest' + 1 /\ (scan'.plan.by > 0 => o > 0) /\ scan'.plan.over = o
        BY <1>1, <3>2, <4>1, <4>2
      <4>7. GivenUp(o)' => GivenUp(scan.plan.over)'
        BY <4>6 DEF GivenUp, Terminal
      <4> QED
        BY <3>4, <4>4, <4>5, <4>6, <4>7 DEF PlanSane
    <3> QED
      BY <3>3, <3>4
  <2>2. CASE IdleScan \/ ObservedScan \/ ReadScan
    BY <1>3, <2>2 DEF IdleScan, ObservedScan, ReadScan
  <2> QED
    BY <1>4, <2>1, <2>2 DEF ScanMove
<1>5. CASE Restart
  BY <1>3, <1>5, IdleType DEF Restart
<1>6. CASE FlushShape \/ PollMove \/ PersistMove \/ RetryShape \/ HumanEdit
  BY <1>2, <1>6 DEF FlushShape, PollMove, PersistMove, PollKeeps, RetryShape, HumanEdit
<1>7. CASE \E s \in 1 .. Latest : DeliveryShape(s)
  BY <1>2, <1>7 DEF DeliveryShape, DeliveryKeeps
<1> QED
  BY <1>4, <1>5, <1>6, <1>7 DEF Moves

LEMMA PlanWritesStep ==
    ASSUME RecoveryTypeOK, StreamInv, Moves, Grows
    PROVE  PlanWrites'
<1>1. StreamTypes /\ PlanWrites /\ Latest \in Nat /\ Latest' \in Nat /\ Latest <= Latest'
  BY GrowsType DEF RecoveryTypeOK, StreamInv
<1>2. IsUser' = IsUser
  <2>1. projection' = projection
    BY DEF Moves, FlushShape, DeliveryShape, DeliveryKeeps, ScanMove, PollMove, PersistMove, PollKeeps,
           RetryShape, Restart, HumanEdit
  <2> QED
    BY <2>1 DEF IsUser
<1>3. ASSUME ~IsUser PROVE \A s \in 1 .. Latest' : fx'[s].kind = "write"
  <2>1. ASSUME NEW s \in 1 .. Latest PROVE fx'[s].kind = "write"
    <3>1. fx'[s].kind = fx[s].kind
      BY <1>1, GrowsType, KeptMeans DEF SameContent
    <3> QED
      BY <1>1, <1>3, <3>1 DEF PlanWrites
  <2>2. ASSUME NEW s \in 1 .. Latest', s > Latest PROVE fx'[s].kind = "write"
    BY <1>3, <2>2, StreamMoves DEF Joins
  <2> QED
    BY <1>1, <2>1, <2>2
<1>4. ASSUME UNCHANGED scan PROVE PlanWrites'
  BY <1>1, <1>2, <1>3, <1>4 DEF PlanWrites
<1>5. ASSUME scan'.at # "planned" PROVE PlanWrites'
  BY <1>2, <1>3, <1>5 DEF PlanWrites
<1>6. CASE ScanMove
  <2>1. CASE PlannedScan
    <3>1. /\ scan'.at = "planned" /\ scan.at = "classified" /\ scan'.kind = scan.kind
          /\ scan'.value = scan.value /\ ~NothingToPlan
          /\ scan'.plan = IF IsUser THEN CleanupPlan ELSE CorrectionPlan
      BY <2>1 DEF PlannedScan
    <3>2. CASE IsUser
      <4>1. /\ scan'.plan.effect.status = "pending" /\ scan'.plan.effect.entity = 0
            /\ scan.kind # "duplicate" => scan'.plan.effect.kind = "write" /\ scan'.plan.effect.value = scan.value
        BY <3>1, <3>2, CleanupPlanType
      <4> QED
        BY <1>2, <3>1, <3>2, <4>1 DEF PlanWrites
    <3>3. CASE ~IsUser
      <4>1. \/ Covered /\ scan'.plan.by = Latest /\ Latest > 0
            \/ /\ scan'.plan.effect.status = "pending" /\ scan'.plan.effect.kind = "write"
               /\ scan'.plan.effect.value = scan.value
        BY <1>1, <3>1, <3>3, CorrectionPlanType DEF StreamTypes
      <4> QED
        BY <1>1, <1>2, <1>3, <3>1, <3>3, <4>1 DEF PlanWrites
    <3> QED
      BY <3>2, <3>3
  <2>2. CASE IdleScan \/ ObservedScan \/ ReadScan
    BY <1>5, <2>2 DEF IdleScan, ObservedScan, ReadScan
  <2> QED
    BY <1>6, <2>1, <2>2 DEF ScanMove
<1>7. CASE Restart
  BY <1>5, <1>7, IdleType DEF Restart
<1>8. CASE FlushShape \/ PollMove \/ PersistMove \/ RetryShape \/ HumanEdit
  BY <1>4, <1>8 DEF FlushShape, PollMove, PersistMove, PollKeeps, RetryShape, HumanEdit
<1>9. CASE \E s \in 1 .. Latest : DeliveryShape(s)
  BY <1>4, <1>9 DEF DeliveryShape, DeliveryKeeps
<1> QED
  BY <1>6, <1>7, <1>8, <1>9 DEF Moves

LEMMA CanonMoves ==
    ASSUME RecoveryTypeOK, Moves
    PROVE  /\ revision \in Nat /\ revision' \in Nat /\ projection' = projection
           /\ \/ revision' = revision /\ canon' = canon
              \/ revision' = revision + 1 /\ UNCHANGED scan
<1>1. revision \in Nat
  BY DEF RecoveryTypeOK, CanonTypes
<1> QED
  BY <1>1 DEF Moves, FlushShape, DeliveryShape, DeliveryKeeps, ScanMove, PollMove, PersistMove, PollKeeps,
              Accepted, Disputed, DropEdit, RetryShape, Restart, HumanEdit, durable

\* Entity n carries value v, and is not of the future.
Past(n, v) == n <= revision /\ (Alive /\ n = revision => v = canon)

LEMMA PastStays ==
    ASSUME RecoveryTypeOK, Moves, NEW n \in Nat, NEW v, Past(n, v)
    PROVE  Past(n, v)'
  BY CanonMoves DEF Past, Alive

LEMMA StreamStaysPast ==
    ASSUME RecoveryTypeOK, StreamInv, Moves, Grows, NEW s \in 1 .. Latest'
    PROVE  /\ fx'[s].entity <= revision'
           /\ Alive' /\ fx'[s].entity = revision' => fx'[s].kind = "write" /\ fx'[s].value = canon'
<1>1. StreamTypes /\ Latest \in Nat /\ Latest' \in Nat /\ Latest <= Latest'
  BY GrowsType DEF RecoveryTypeOK
<1>2. CASE s \in 1 .. Latest
  <2>1. SameContent(fx'[s], fx[s])
    BY <1>1, <1>2, GrowsType, KeptMeans
  <2>2. fx[s].entity \in Nat /\ fx[s].entity <= revision
    <3>1. fx[s] \in Effect
      BY <1>1, <1>2 DEF StreamTypes, Latest
    <3> QED
      BY <1>2, <3>1 DEF Effect, StreamInv, EntitiesArePast
  <2>3. Alive /\ fx[s].entity = revision => fx[s].kind = "write" /\ fx[s].value = canon
    BY <1>2 DEF StreamInv, NewestIsCanonical
  <2> QED
    BY <2>1, <2>2, <2>3, CanonMoves DEF SameContent, Alive
<1>3. CASE s > Latest
  BY <1>3, StreamMoves DEF Joins
<1> QED
  BY <1>1, <1>2, <1>3

LEMMA ConfirmedStaysPast ==
    ASSUME RecoveryTypeOK, StreamInv, Moves, Grows
    PROVE  Past(confirmed.entity, confirmed.hash)'
<1>1. confirmed.entity \in Nat /\ Past(confirmed.entity, confirmed.hash) /\ StreamTypes
  BY DEF RecoveryTypeOK, RecordTypes, Confirmation, StreamInv, EntitiesArePast, NewestIsCanonical, Past
<1>2. ASSUME UNCHANGED confirmed PROVE Past(confirmed.entity, confirmed.hash)'
  <2>1. PICK n \in Nat : n = confirmed.entity
    BY <1>1
  <2>2. PICK v : v = confirmed.hash
    OBVIOUS
  <2>3. Past(n, v)'
    BY <1>1, <2>1, <2>2, PastStays
  <2>4. confirmed'.entity = n /\ confirmed'.hash = v
    BY <1>2, <2>1, <2>2
  <2> QED
    BY <2>3, <2>4 DEF Past
<1>3. ASSUME NEW s \in 1 .. Latest, DeliveryShape(s), ~UNCHANGED confirmed
      PROVE  Past(confirmed.entity, confirmed.hash)'
  <2>1. Told(s)
    BY <1>3 DEF DeliveryShape, Stopped, Landed, Known, Probed, Marked
  <2>2. confirmed'.entity = fx[s].entity /\ confirmed'.hash = fx[s].value
    BY <1>3, <2>1 DEF Told
  <2>3. fx[s].entity = fx'[s].entity /\ fx[s].value = fx'[s].value /\ s \in 1 .. Latest'
    BY <1>1, GrowsType, KeptMeans DEF SameContent
  <2> QED
    BY <2>2, <2>3, StreamStaysPast DEF Past
<1>4. CASE PersistMove
  <2>1. CASE Accepted
    <3>1. confirmed'.entity = revision' /\ confirmed'.hash = canon' /\ revision' \in Nat
      BY <2>1, CanonMoves DEF Accepted
    <3> QED
      BY <3>1 DEF Past
  <2> QED
    BY <1>2, <1>4, <2>1 DEF PersistMove, Disputed, DropEdit
<1>5. CASE FlushShape \/ ScanMove \/ PollMove \/ RetryShape \/ Restart \/ HumanEdit
  BY <1>2, <1>5 DEF FlushShape, ScanMove, PollMove, RetryShape, Restart, HumanEdit, durable
<1> QED
  BY <1>2, <1>3, <1>4, <1>5 DEF Moves

LEMMA ScanStaysPast ==
    ASSUME RecoveryTypeOK, StreamInv, Moves
    PROVE  /\ scan'.entity <= revision'
           /\ Scanned' /\ scan'.entity = revision' => scan'.value = canon'
           /\ scan'.at = "planned" => scan'.plan.effect.entity <= scan'.entity
<1>1. /\ scan.entity \in Nat /\ scan.entity <= revision
      /\ Scanned /\ scan.entity = revision => scan.value = canon
      /\ scan.at = "planned" => scan.plan.effect.entity <= scan.entity
  BY DEF RecoveryTypeOK, ScanTypes, ScanRecord, StreamInv, EntitiesArePast, NewestIsCanonical
<1>2. revision \in Nat /\ revision' \in Nat
  BY CanonMoves
<1>3. CASE UNCHANGED scan
  BY <1>1, <1>2, <1>3, CanonMoves DEF Scanned
<1>4. CASE ScanMove
  <2>1. revision' = revision /\ canon' = canon
    BY <1>4 DEF ScanMove
  <2>2. CASE IdleScan \/ ObservedScan
    BY <1>2, <2>2 DEF IdleScan, ObservedScan, Scanned
  <2>3. CASE ReadScan
    BY <1>2, <2>1, <2>3 DEF ReadScan, Scanned
  <2>4. CASE PlannedScan
    <3>1. scan.at = "classified" /\ Scanned /\ scan'.entity = scan.entity /\ scan'.value = scan.value
          /\ scan'.plan = IF IsUser THEN CleanupPlan ELSE CorrectionPlan
      BY <2>4 DEF PlannedScan, Scanned
    <3>2. scan'.plan.effect.entity <= scan.entity
      <4>1. CASE IsUser
        BY <1>1, <3>1, <4>1, CleanupPlanType
      <4>2. CASE ~IsUser
        BY <1>1, <3>1, <4>2, CorrectionPlanType
      <4> QED
        BY <4>1, <4>2
    <3> QED
      BY <1>1, <2>1, <3>1, <3>2
  <2> QED
    BY <1>4, <2>2, <2>3, <2>4 DEF ScanMove
<1>5. CASE Restart
  BY <1>2, <1>5, IdleType DEF Restart, Scanned
<1>6. CASE FlushShape \/ PollMove \/ PersistMove \/ RetryShape \/ HumanEdit
  BY <1>3, <1>6 DEF FlushShape, PollMove, PersistMove, PollKeeps, RetryShape, HumanEdit
<1>7. CASE \E s \in 1 .. Latest : DeliveryShape(s)
  BY <1>3, <1>7 DEF DeliveryShape, DeliveryKeeps
<1> QED
  BY <1>4, <1>5, <1>6, <1>7 DEF Moves

LEMMA PollStaysPast ==
    ASSUME RecoveryTypeOK, StreamInv, Moves
    PROVE  /\ poll'.revision <= revision'
           /\ poll'.at # "idle" /\ poll'.revision = revision' => poll'.canon = canon'
<1>1. /\ poll.revision \in Nat /\ poll.revision <= revision
      /\ poll.at # "idle" /\ poll.revision = revision => poll.canon = canon
  BY DEF RecoveryTypeOK, PollTypes, PollRecord, StreamInv, EntitiesArePast, NewestIsCanonical
<1>2. revision \in Nat /\ revision' \in Nat
  BY CanonMoves
<1>3. CASE UNCHANGED poll
  BY <1>1, <1>2, <1>3, CanonMoves
<1>4. CASE PollMove
  BY <1>1, <1>2, <1>4 DEF PollMove, IdlePoll, ReadPoll, ObservedPoll
<1>5. CASE PersistMove
  BY <1>2, <1>5 DEF PersistMove, IdlePoll
<1>6. CASE Restart
  BY <1>2, <1>6, NoPollType DEF Restart
<1>7. CASE FlushShape \/ ScanMove \/ RetryShape \/ HumanEdit
  BY <1>3, <1>7 DEF FlushShape, ScanMove, RetryShape, HumanEdit
<1>8. CASE \E s \in 1 .. Latest : DeliveryShape(s)
  BY <1>3, <1>8 DEF DeliveryShape, DeliveryKeeps
<1> QED
  BY <1>4, <1>5, <1>6, <1>7, <1>8 DEF Moves

RecoveryInv == RecoveryTypeOK /\ StreamInv

LEMMA InvStep ==
    ASSUME RecoveryInv, Next
    PROVE  RecoveryInv' /\ Moves /\ Grows
<1>1. RecoveryTypeOK /\ StreamInv /\ PlanSane
  BY DEF RecoveryInv, StreamInv
<1>2. Steps /\ Grows
  BY <1>1, StepCases
<1>3. Moves /\ RecoveryTypeOK'
  BY <1>1, <1>2, MoveCases, TypeStep
<1>4. InOrder' /\ AppliedHasReceipt' /\ PlanSane' /\ PlanWrites'
  BY <1>1, <1>2, <1>3, OrderStep, PlanSaneStep, PlanWritesStep
<1>5. EntitiesArePast'
  BY <1>1, <1>2, <1>3, StreamStaysPast, ConfirmedStaysPast, ScanStaysPast, PollStaysPast
     DEF EntitiesArePast, Past
<1>6. NewestIsCanonical'
  BY <1>1, <1>2, <1>3, StreamStaysPast, ConfirmedStaysPast, ScanStaysPast, PollStaysPast
     DEF NewestIsCanonical, Past
<1> QED
  BY <1>2, <1>3, <1>4, <1>5, <1>6 DEF RecoveryInv, StreamInv

\* A step that changes nothing that an invariant names keeps it.
LEMMA InvStutter ==
    ASSUME RecoveryInv, UNCHANGED vars
    PROVE  RecoveryInv'
  BY DEF vars, RecoveryInv, RecoveryTypeOK, CanonTypes, StreamTypes, RemoteTypes, RecordTypes, ScanTypes, PollTypes,
         IsUser, HasCandidate, Latest, StreamInv, InOrder, AtHead, AppliedHasReceipt, PlanSane, GivenUp, Terminal,
         EntitiesArePast, NewestIsCanonical, Alive, Scanned, PlanWrites

\* Whatever flushes, scans, polls, resolutions, people and restarts do between
\* each other's steps: effects leave the queue in stream order, what is applied
\* has its receipt, a scan supersedes only what is given up
\* (appendEffectsWithSupersedes), and nobody holds an entity revision that is
\* not written yet, or the newest with another value than the canonical one.
THEOREM RecoveryTypesAndOrder == Spec => []RecoveryInv
<1>1. Init => RecoveryInv
  BY InitTypes DEF RecoveryInv
<1>2. RecoveryInv /\ [Next]_vars => RecoveryInv'
  BY InvStep, InvStutter
<1> QED
  BY <1>1, <1>2, PTL DEF Spec

-----------------------------------------------------------------------------
(* Nobody touches the sheet                                                *)

LEMMA EffectType ==
    ASSUME StreamTypes, NEW s \in 1 .. Latest
    PROVE  fx[s] \in Effect
  BY DEF StreamTypes, Latest

LEMMA StatusMeans ==
    ASSUME StreamTypes, NEW s \in 1 .. Latest
    PROVE  \/ fx[s].status \in Settled /\ ~Live(s)
           \/ fx[s].status \in {"conflict", "blocked_candidate"} /\ ~Live(s)
           \/ fx[s].status = "failed" /\ fx[s].terminal /\ ~Live(s)
           \/ Live(s) /\ fx[s].status \notin Settled
<1>1. fx[s] \in Effect
  BY EffectType
<1>2. /\ fx[s].status \in InFlight \cup Settled \cup {"failed", "conflict", "blocked_candidate"}
      /\ fx[s].terminal \in BOOLEAN
  BY <1>1 DEF Effect
<1> QED
  BY <1>2 DEF Live, InFlight, Settled

\* What is settled or given up does not come back.
LEMMA LiveBefore ==
    ASSUME StreamTypes, Grows, NEW s \in 1 .. Latest, Live(s)'
    PROVE  Live(s)
<1>1. Kept(fx'[s], fx[s])
  BY GrowsType
<1>2. fx'[s].status = "failed" => ~fx'[s].terminal
  BY DEF Live, InFlight
<1>3. fx'[s].status \notin Settled /\ fx'[s].status \notin {"conflict", "blocked_candidate"}
  BY DEF Live, InFlight, Settled
<1> QED
  BY <1>1, <1>2, <1>3, StatusMeans, KeptMeans DEF Settled

\* Only one effect is at the head, unless it is settled.
LEMMA OneHead ==
    ASSUME StreamTypes, NEW s \in 1 .. Latest, NEW u \in 1 .. Latest, AtHead(s), AtHead(u),
           fx[s].status \notin Settled, fx[u].status \notin Settled
    PROVE  s = u
<1>1. s \in Nat /\ u \in Nat /\ s > 0 /\ u > 0
  BY DEF StreamTypes, Latest
<1>2. ~(s < u)
  BY <1>1 DEF AtHead
<1>3. ~(u < s)
  BY <1>1 DEF AtHead
<1> QED
  BY <1>1, <1>2, <1>3

\* An effect under delivery is at the head.
LEMMA DeliveredIsHead ==
    ASSUME RecoveryInv, NEW s \in 1 .. Latest, DeliveryShape(s)
    PROVE  AtHead(s) /\ fx[s].status \notin Settled /\ Live(s) /\ PassRuns
<1>1. Uncertain(s) => AtHead(s)
  BY DEF RecoveryInv, StreamInv, InOrder, Uncertain
<1>2. Live(s) /\ PassRuns
  BY DeliveryGrows DEF RecoveryInv, RecoveryTypeOK
<1>3. AtHead(s)
  BY <1>1 DEF DeliveryShape, Stopped, Landed, Known, Probed, Dispatchable
<1> QED
  BY <1>2, <1>3, StatusMeans DEF RecoveryInv, RecoveryTypeOK

LEMMA UncertainIsLive ==
    ASSUME NEW s, fx[s].status = "delivery_uncertain"
    PROVE  Live(s) /\ fx[s].status \notin Settled
  BY DEF Live, InFlight, Settled

LEMMA DeliveryLeaves ==
    ASSUME RecoveryInv, NEW s \in 1 .. Latest, DeliveryShape(s)
    PROVE  /\ Latest' = Latest /\ SameContent(fx'[s], fx[s])
           /\ \A u \in 1 .. Latest : u # s => fx'[u] = fx[u]
           /\ \A u \in 1 .. Latest : fx[u].status = "delivery_uncertain" => u = s
<1>1. StreamTypes /\ InOrder
  BY DEF RecoveryInv, RecoveryTypeOK, StreamInv
<1>2. Remarks(fx', fx, s) /\ Len(fx') = Len(fx)
  BY <1>1, DeliveryGrows
<1>3. ASSUME NEW u \in 1 .. Latest, fx[u].status = "delivery_uncertain" PROVE u = s
  <2>1. AtHead(u) /\ fx[u].status \notin Settled
    BY <1>1, <1>3, UncertainIsLive DEF InOrder
  <2> QED
    BY <1>1, <2>1, DeliveredIsHead, OneHead
<1> QED
  BY <1>2, <1>3 DEF Remarks, Latest

\* Effects in doubt are settled or moved by their delivery alone.
LEMMA UncertainStays ==
    ASSUME RecoveryInv, Moves, ~\E s \in 1 .. Latest : DeliveryShape(s)
    PROVE  \A u \in 1 .. Latest :
               fx[u].status \in {"applied", "delivery_uncertain"} => fx'[u].status = fx[u].status
<1>1. RecoveryTypeOK /\ StreamInv /\ StreamTypes
  BY DEF RecoveryInv, RecoveryTypeOK
<1>2. CASE fx' = fx
  BY <1>2
<1>3. CASE FlushShape
  BY <1>1, <1>3, FlushJoins DEF Outlives
<1>4. CASE RetryShape
  BY <1>1, <1>4, RetryJoins DEF Outlives
<1>5. CASE scan.at = "planned" /\ EnlistShape
  <2>1. ASSUME NEW u \in 1 .. Latest, fx[u].status \in {"applied", "delivery_uncertain"}, fx'[u] # fx[u]
        PROVE  FALSE
    <3>1. u = scan.plan.over /\ fx[u].status \notin Settled
      BY <1>5, <2>1 DEF EnlistShape
    <3>2. u > 0
      BY <2>1 DEF RecoveryInv
    <3>3. GivenUp(u)
      BY <1>1, <1>5, <3>1, <3>2 DEF StreamInv, PlanSane
    <3> QED
      BY <2>1, <3>1, <3>3 DEF GivenUp, Terminal, Settled
  <2> QED
    BY <2>1
<1> QED
  BY <1>2, <1>3, <1>4, <1>5 DEF Moves, ScanMove, PollMove, PersistMove, PollKeeps, Restart, HumanEdit, durable

LEMMA UntouchedBefore ==
    ASSUME RecoveryInv, UntouchedInv, Moves, Untouched'
    PROVE  /\ Untouched /\ ~HumanEdit /\ ReceiptsHold /\ Visible /\ Tidy
           /\ IsUser => FreshStays /\ ScanKnows /\ PollIsCalm
<1>1. edits \in Nat
  BY DEF RecoveryInv, RecoveryTypeOK, RecordTypes
<1>2. edits' = edits \/ edits' = edits + 1
  BY DEF Moves, FlushShape, DeliveryShape, DeliveryKeeps, ScanMove, counters, PollMove, PersistMove, PollKeeps,
         RetryShape, Restart, HumanEdit
<1>3. HumanEdit => edits' = edits + 1
  BY DEF HumanEdit
<1> QED
  BY <1>1, <1>2, <1>3 DEF Untouched, UntouchedInv

\* The row of the target is alone.
LEMMA SheetIsSmall ==
    ASSUME ReceiptsHold, Visible
    PROVE  Len(sheet) <= 1
<1>1. ASSUME NEW v, sheet = <<>> \/ sheet = <<v>> PROVE Len(sheet) <= 1
  <2>1. Len(<<v>>) = 1 /\ Len(<<>>) = 0 /\ 1 <= 1 /\ 0 <= 1
    OBVIOUS
  <2> QED
    BY <1>1, <2>1, Zenon
<1>2. ASSUME NEW s \in receipts, fx[s].status = "delivery_uncertain" PROVE Len(sheet) <= 1
  <2>1. sheet = <<>> \/ sheet = <<fx[s].value>>
    BY <1>2, Zenon DEF Visible, RowOf
  <2> QED
    BY <1>1, <2>1
<1>3. ASSUME \A s \in receipts : fx[s].status = "applied" PROVE Len(sheet) <= 1
  <2>1. sheet = <<>> \/ sheet = <<confirmed.hash>>
    BY <1>3, Zenon DEF Visible
  <2> QED
    BY <1>1, <2>1
<1> QED
  BY <1>2, <1>3 DEF ReceiptsHold

\* A probe finds what landed.
LEMMA ProbeFindsReceipt ==
    ASSUME RecoveryInv, Visible, NEW s \in receipts, fx[s].status = "delivery_uncertain"
    PROVE  Postcondition(s) = "applied" /\ sheet = RowOf(fx[s])
<1>1. sheet = RowOf(fx[s])
  BY DEF Visible
<1>2. fx[s] \in Effect
  BY EffectType DEF RecoveryInv, RecoveryTypeOK, RemoteTypes
<1>3. fx[s].kind \in {"write", "delete"}
  BY <1>2 DEF Effect
<1>4. <<fx[s].value>> # <<>> /\ <<fx[s].value>>[1] = fx[s].value
  OBVIOUS
<1> QED
  BY <1>1, <1>3, <1>4 DEF Postcondition, RowOf, Row

\* What lands is all the sheet shows.
LEMMA LandedShows ==
    ASSUME RecoveryInv, ReceiptsHold, Visible, NEW s \in 1 .. Latest, Landed(s)
    PROVE  sheet' = RowOf(fx[s]) /\ receipts' = receipts \cup {s}
<1>1. CanonTypes /\ StreamTypes /\ RemoteTypes
  BY DEF RecoveryInv, RecoveryTypeOK
<1> QED
  BY <1>1, MutateType, SheetIsSmall DEF Landed

LEMMA RemoteMoves ==
    ASSUME Moves, ~HumanEdit, ~\E s \in 1 .. Latest : DeliveryShape(s)
    PROVE  UNCHANGED remote
  BY DEF Moves, FlushShape, ScanMove, PollMove, PersistMove, PollKeeps, RetryShape, Restart

LEMMA ReceiptsStep ==
    ASSUME RecoveryInv, UntouchedInv, Moves, Grows, Untouched'
    PROVE  ReceiptsHold'
<1>1. /\ ReceiptsHold /\ Visible /\ ~HumanEdit /\ receipts \subseteq 1 .. Latest /\ StreamTypes
  BY UntouchedBefore DEF RecoveryInv, RecoveryTypeOK, RemoteTypes
<1>2. CASE ~\E s \in 1 .. Latest : DeliveryShape(s)
  <2>1. receipts' = receipts
    BY <1>1, <1>2, RemoteMoves DEF remote
  <2> QED
    BY <1>1, <1>2, <2>1, UncertainStays DEF ReceiptsHold
<1>3. ASSUME NEW s \in 1 .. Latest, DeliveryShape(s)
      PROVE  ReceiptsHold'
  <2>1. /\ \A u \in 1 .. Latest : u # s => fx'[u] = fx[u]
        /\ receipts' = receipts \/ (receipts' = receipts \cup {s} /\ Landed(s))
    BY <1>3, DeliveryLeaves DEF DeliveryShape, Stopped, Landed, Known, Probed, Mutate, remote
  <2>2. ASSUME s \in receipts' PROVE fx'[s].status \in {"applied", "delivery_uncertain"}
    <3>1. CASE Landed(s) \/ Known(s)
      BY <3>1 DEF Landed, Known, Told, Marked
    <3>2. CASE Stopped(s) /\ s \in receipts
      BY <1>1, <3>2 DEF Stopped, Dispatchable, ReceiptsHold
    <3>3. CASE Probed(s) /\ s \in receipts
      BY <1>1, <3>3, ProbeFindsReceipt DEF Probed, Uncertain
    <3>4. Stopped(s) \/ Probed(s) => receipts' = receipts
      BY DEF Stopped, Probed, remote
    <3> QED
      BY <1>3, <2>2, <3>1, <3>2, <3>3, <3>4 DEF DeliveryShape
  <2> QED
    BY <1>1, <2>1, <2>2 DEF ReceiptsHold
<1> QED
  BY <1>2, <1>3

\* Nothing is accepted from a sheet that nobody touched.
LEMMA NothingAccepted ==
    ASSUME RecoveryInv, UntouchedInv, Moves, Untouched'
    PROVE  /\ PersistMove => ~Accepted
           /\ ~(\E s \in 1 .. Latest : DeliveryShape(s)) => UNCHANGED confirmed
<1>1. ASSUME PersistMove, Accepted PROVE FALSE
  <2>1. poll.at = "observed" /\ IsUser
    BY <1>1 DEF PersistMove
  <2>2. poll.seen.entity \in Nat /\ poll.revision \in Nat
    BY DEF RecoveryInv, RecoveryTypeOK, PollTypes, PollRecord, Confirmation
  <2>3. NoConflictDue
    BY <1>1, <2>2 DEF Accepted, EditConflicts, NoConflictDue
  <2> QED
    BY <2>1, <2>3, UntouchedBefore DEF PollIsCalm
<1> QED
  BY <1>1 DEF Moves, FlushShape, ScanMove, PollMove, PersistMove, Disputed, DropEdit, RetryShape, Restart,
              HumanEdit, durable

LEMMA VisibleStep ==
    ASSUME RecoveryInv, UntouchedInv, Moves, Grows, Untouched'
    PROVE  Visible'
<1>1. /\ ReceiptsHold /\ Visible /\ ~HumanEdit /\ receipts \subseteq 1 .. Latest /\ StreamTypes
  BY UntouchedBefore DEF RecoveryInv, RecoveryTypeOK, RemoteTypes
<1>2. ASSUME NEW u \in 1 .. Latest PROVE RowOf(fx'[u]) = RowOf(fx[u])
  BY <1>1, GrowsType, KeptMeans DEF SameContent, RowOf
<1>3. CASE ~\E s \in 1 .. Latest : DeliveryShape(s)
  <2>1. receipts' = receipts /\ sheet' = sheet /\ confirmed' = confirmed
    BY <1>1, <1>3, RemoteMoves, NothingAccepted DEF remote
  <2>2. \A u \in receipts : fx'[u].status = fx[u].status /\ RowOf(fx'[u]) = RowOf(fx[u])
    BY <1>1, <1>2, <1>3, UncertainStays DEF ReceiptsHold
  <2> QED
    BY <1>1, <2>1, <2>2 DEF Visible
<1>4. ASSUME NEW s \in 1 .. Latest, DeliveryShape(s)
      PROVE  Visible'
  <2>1. /\ \A u \in 1 .. Latest : u # s => fx'[u] = fx[u]
        /\ \A u \in 1 .. Latest : fx[u].status = "delivery_uncertain" => u = s
    BY <1>4, DeliveryLeaves
  <2>2. CASE Landed(s)
    <3>1. sheet' = RowOf(fx[s]) /\ receipts' = receipts \cup {s}
      BY <1>1, <2>2, LandedShows
    <3>2. \A u \in receipts' : fx'[u].status = "delivery_uncertain" => u = s
      BY <1>1, <2>1, <3>1
    <3>3. fx'[s].status = "applied" => confirmed'.hash = fx[s].value
      BY <2>2 DEF Landed, Told, Marked
    <3> QED
      BY <1>2, <3>1, <3>2, <3>3 DEF Visible, RowOf
  <2>3. CASE Known(s)
    <3>1. receipts' = receipts /\ sheet' = sheet
      BY <2>3 DEF Known, remote
    <3>2. s \in receipts
      <4>1. Outcome(s) = "already_applied" => s \in receipts
        BY OutcomeMeans DEF RecoveryInv, RecoveryTypeOK
      <4>2. Postcondition(s) = "applied" => s \in receipts
        BY DEF Postcondition
      <4> QED
        BY <2>3, <4>1, <4>2 DEF Known
    <3>3. fx[s].status = "delivery_uncertain"
      BY <1>1, <2>3, <3>2 DEF Known, Dispatchable, ReceiptsHold, Uncertain
    <3>4. sheet = RowOf(fx[s])
      BY <1>1, <3>2, <3>3 DEF Visible
    <3>5. \A u \in receipts' : fx'[u].status = "delivery_uncertain" => u = s
      BY <1>1, <2>1, <3>1
    <3>6. fx'[s].status = "applied" => confirmed'.hash = fx[s].value
      BY <2>3 DEF Known, Told
    <3> QED
      BY <1>2, <3>1, <3>2, <3>4, <3>5, <3>6 DEF Visible, RowOf
  <2>4. CASE Stopped(s) \/ Probed(s)
    <3>1. receipts' = receipts /\ sheet' = sheet /\ confirmed' = confirmed
      BY <2>4 DEF Stopped, Probed, Marked, remote
    <3>2. s \notin receipts
      BY <1>1, <2>4, ProbeFindsReceipt DEF Stopped, Dispatchable, ReceiptsHold, Probed, Uncertain
    <3>3. \A u \in receipts : fx'[u] = fx[u]
      BY <1>1, <2>1, <3>2
    <3> QED
      BY <1>1, <3>1, <3>3 DEF Visible
  <2> QED
    BY <1>4, <2>2, <2>3, <2>4 DEF DeliveryShape
<1> QED
  BY <1>3, <1>4

LEMMA TidyStep ==
    ASSUME RecoveryInv, UntouchedInv, Moves, Untouched'
    PROVE  Tidy'
<1>1. Tidy /\ Len(sheet) <= 1
  BY UntouchedBefore, SheetIsSmall
<1>2. ASSUME UNCHANGED scan PROVE Tidy'
  BY <1>1, <1>2 DEF Tidy
<1>3. CASE ScanMove
  BY <1>1, <1>3 DEF ScanMove, IdleScan, ObservedScan, ReadScan, PlannedScan, Tidy
<1>4. CASE Restart
  BY <1>4, IdleType DEF Restart, Tidy
<1> QED
  BY <1>2, <1>3, <1>4 DEF Moves, FlushShape, DeliveryShape, DeliveryKeeps, PollMove, PersistMove, PollKeeps,
                          RetryShape, HumanEdit

\* What joins the stream when the revision stays: the rewrite of a resolution,
\* or what a scan planned.
LEMMA JoinsNow ==
    ASSUME RecoveryInv, Moves, Grows, IsUser, Alive, revision' = revision, NEW t \in 1 .. Latest', t > Latest
    PROVE  \/ RetryShape /\ Rewrites(t)'
           \/ /\ ScanMove /\ scan.at = "planned" /\ scan.plan.position = Latest + 1 /\ t = Latest + 1
              /\ scan.kind = "rewrite" /\ scan.value = canon => Rewrites(t)'
<1>1. Latest \in Nat /\ Latest' \in Nat /\ Latest = Len(fx) /\ Latest' = Len(fx') /\ revision \in Nat /\ StreamInv
  BY DEF RecoveryInv, RecoveryTypeOK, StreamTypes, CanonTypes, Latest, Grows
<1>2. CASE RetryShape
  <2>1. Overrules(fx', fx, canon, revision) /\ canon' = canon
    BY <1>2 DEF RetryShape
  <2>2. /\ Latest' = Latest + 1
        /\ fx'[Latest + 1] = NewEffect("write", FALSE, canon, candidate.hash, candidate.rev, revision)
    BY <1>1, <2>1 DEF Overrules
  <2>3. t = Latest + 1
    BY <1>1, <2>2
  <2>4. fx'[t].kind = "write" /\ fx'[t].value = canon'
    BY <2>1, <2>2, <2>3 DEF NewEffect
  <2> QED
    BY <1>2, <2>4 DEF Rewrites
<1>3. CASE ScanMove /\ scan.at = "planned" /\ EnlistShape
  <2>1. /\ Latest' = Latest + 1 /\ scan.plan.by = 0 /\ scan.plan.position = Latest + 1
        /\ fx'[Latest + 1] = scan.plan.effect /\ canon' = canon
    BY <1>1, <1>3 DEF EnlistShape, ScanMove
  <2>2. t = Latest + 1
    BY <1>1, <2>1
  <2>3. scan.kind = "rewrite" => scan.plan.effect.kind = "write" /\ scan.plan.effect.value = scan.value
    BY <1>1, <1>3, <2>1 DEF StreamInv, PlanWrites
  <2> QED
    BY <1>3, <2>1, <2>2, <2>3 DEF Rewrites
<1>4. CASE fx' = fx
  BY <1>1, <1>4
<1>5. CASE \E s \in 1 .. Latest : DeliveryShape(s)
  BY <1>1, <1>5, DeliveryLeaves
<1>6. CASE FlushShape
  BY <1>1, <1>6 DEF FlushShape
<1> QED
  BY <1>2, <1>3, <1>4, <1>5, <1>6 DEF Moves, ScanMove, PollMove, PersistMove, PollKeeps, Restart, HumanEdit, durable

LEMMA RewritesStays ==
    ASSUME StreamTypes, Grows, canon' = canon, NEW s \in 1 .. Latest, Rewrites(s)
    PROVE  Rewrites(s)'
  BY GrowsType, KeptMeans DEF Rewrites, SameContent

LEMMA FreshStep ==
    ASSUME RecoveryInv, UntouchedInv, Moves, Grows, Untouched', IsUser
    PROVE  FreshStays'
<1>1. /\ FreshStays /\ ScanKnows /\ ~HumanEdit /\ StreamTypes /\ StreamInv
      /\ Latest \in Nat /\ Latest' \in Nat /\ Latest <= Latest'
      /\ revision \in Nat /\ revision' \in Nat /\ confirmed.entity \in Nat /\ confirmed.entity <= revision
      /\ scan.entity \in Nat
  BY UntouchedBefore, GrowsType, CanonMoves
     DEF RecoveryInv, RecoveryTypeOK, CanonTypes, RecordTypes, Confirmation, StreamInv, EntitiesArePast,
         ScanTypes, ScanRecord
<1>2. ASSUME NEW u \in 1 .. Latest PROVE fx'[u].entity = fx[u].entity /\ fx[u].entity \in Nat /\ fx[u].entity <= revision
  <2>1. fx'[u].entity = fx[u].entity
    BY <1>1, GrowsType, KeptMeans DEF SameContent
  <2>2. fx[u] \in Effect
    BY <1>1, EffectType
  <2> QED
    BY <1>1, <2>1, <2>2 DEF Effect, StreamInv, EntitiesArePast
<1>3. CASE revision' = revision + 1
  <2>1. CASE FlushShape
    <3>1. confirmed'.entity # revision'
      BY <1>1, <1>3, <2>1 DEF FlushShape
    <3>2. ASSUME Alive', NEW s \in 1 .. Latest', NEW t \in 1 .. Latest', s < t, fx'[s].entity = revision'
          PROVE  Rewrites(t)'
      <4>1. s > Latest
        BY <1>1, <1>2, <1>3, <3>2
      <4>2. t > Latest
        BY <1>1, <3>2, <4>1
      <4>3. Joins(t) /\ fx'[t].entity = revision'
        BY <2>1, <4>2, FlushJoins DEF RecoveryInv
      <4> QED
        BY <3>2, <4>3 DEF Joins, Rewrites
    <3> QED
      BY <3>1, <3>2 DEF FreshStays
  <2>2. PersistMove => ~Accepted
    BY NothingAccepted
  <2> QED
    BY <1>1, <1>3, <2>1, <2>2
       DEF Moves, DeliveryShape, DeliveryKeeps, ScanMove, PollMove, PersistMove, Disputed, DropEdit,
           RetryShape, Restart, HumanEdit, durable
<1>4. CASE revision' = revision /\ canon' = canon /\ Alive
  <2>1. ASSUME NEW t \in 1 .. Latest, Rewrites(t) PROVE Rewrites(t)'
    BY <1>1, <1>4, <2>1, RewritesStays
  <2>2. ASSUME NEW t \in 1 .. Latest, Live(t)' PROVE Live(t)
    BY <1>1, <2>2, LiveBefore
  <2>3. ASSUME NEW s \in 1 .. Latest', NEW t \in 1 .. Latest', s < t, fx'[s].entity = revision', Live(t)'
        PROVE  Rewrites(t)'
    <3>1. CASE t \in 1 .. Latest
      <4>1. s \in 1 .. Latest
        BY <1>1, <2>3, <3>1
      <4>2. fx[s].entity = revision /\ Live(t)
        BY <1>2, <1>4, <2>2, <2>3, <3>1, <4>1
      <4> QED
        BY <1>1, <1>4, <2>1, <2>3, <3>1, <4>1, <4>2 DEF FreshStays
    <3>2. CASE t > Latest
      <4>1. CASE RetryShape /\ Rewrites(t)'
        BY <4>1
      <4>2. CASE /\ scan.at = "planned" /\ scan.plan.position = Latest + 1 /\ t = Latest + 1
                 /\ scan.kind = "rewrite" /\ scan.value = canon => Rewrites(t)'
        <5>1. s \in 1 .. Latest
          BY <1>1, <2>3, <4>2
        <5>2. fx[s].entity = revision
          BY <1>2, <1>4, <2>3, <5>1
        <5>3. revision <= scan.entity /\ scan.kind = "rewrite"
          BY <1>1, <4>2, <5>1, <5>2 DEF ScanKnows, Scanned
        <5>4. scan.entity <= revision
          BY <1>1 DEF StreamInv, EntitiesArePast
        <5>5. scan.value = canon
          BY <1>1, <4>2, <5>3, <5>4 DEF StreamInv, NewestIsCanonical, Scanned
        <5> QED
          BY <4>2, <5>3, <5>5
      <4> QED
        BY <1>4, <3>2, <4>1, <4>2, JoinsNow
    <3> QED
      BY <1>1, <3>1, <3>2
  <2>4. ASSUME confirmed'.entity = revision', NEW t \in 1 .. Latest', Live(t)'
        PROVE  Rewrites(t)'
    <3>1. CASE confirmed' = confirmed
      <4>1. confirmed.entity = revision
        BY <1>4, <2>4, <3>1
      <4>2. CASE t \in 1 .. Latest
        BY <1>1, <1>4, <2>1, <2>2, <2>4, <4>1, <4>2 DEF FreshStays
      <4>3. CASE t > Latest
        <5>1. CASE RetryShape /\ Rewrites(t)'
          BY <5>1
        <5>2. CASE /\ scan.at = "planned"
                   /\ scan.kind = "rewrite" /\ scan.value = canon => Rewrites(t)'
          <6>1. scan.kind = "rewrite" /\ confirmed.entity <= scan.entity
            BY <1>1, <5>2 DEF ScanKnows, Scanned
          <6>2. scan.entity <= revision
            BY <1>1 DEF StreamInv, EntitiesArePast
          <6>3. scan.value = canon
            BY <1>1, <4>1, <5>2, <6>1, <6>2 DEF StreamInv, NewestIsCanonical, Scanned
          <6> QED
            BY <5>2, <6>1, <6>3
        <5> QED
          BY <1>4, <4>3, <5>1, <5>2, JoinsNow
      <4> QED
        BY <1>1, <4>2, <4>3
    <3>2. ASSUME NEW s \in 1 .. Latest, DeliveryShape(s), confirmed' # confirmed
          PROVE  Rewrites(t)'
      <4>1. Told(s)
        BY <3>2 DEF DeliveryShape, Stopped, Landed, Known, Probed, Marked
      <4>2. confirmed'.entity = fx[s].entity /\ fx'[s].status = "applied"
        BY <3>2, <4>1 DEF Told
      <4>3. AtHead(s) /\ Latest' = Latest
        BY <3>2, DeliveredIsHead, DeliveryLeaves
      <4>4. fx[s].entity = revision /\ t \in 1 .. Latest /\ Live(t)
        BY <1>4, <2>2, <2>4, <4>2, <4>3
      <4>5. t # s
        BY <2>4, <4>2 DEF Live, InFlight
      <4>6. ~(t < s)
        <5>1. ASSUME t < s PROVE fx[t].status \in Settled
          BY <1>1, <4>3, <4>4, <5>1 DEF AtHead
        <5> QED
          BY <1>1, <4>4, <5>1, StatusMeans
      <4>7. s < t
        BY <1>1, <4>4, <4>5, <4>6
      <4> QED
        BY <1>1, <1>4, <2>1, <4>4, <4>7 DEF FreshStays
    <3> QED
      BY <3>1, <3>2, NothingAccepted
  <2> QED
    BY <2>3, <2>4 DEF FreshStays
<1>5. CASE revision' = revision /\ canon' = canon /\ ~Alive
  BY <1>5 DEF FreshStays, Alive
<1> QED
  BY <1>3, <1>4, <1>5, CanonMoves DEF RecoveryInv

\* Behind a flush or a resolution something waits.
LEMMA GrownWaits ==
    ASSUME RecoveryInv, FlushShape \/ RetryShape
    PROVE  \/ fx' = fx
           \/ Latest' > Latest /\ Latest' \in 1 .. Latest' /\ fx'[Latest'].status = "pending"
<1>1. /\ Latest \in Nat /\ Latest = Len(fx) /\ Latest' = Len(fx')
      /\ CanonTypes /\ StreamTypes /\ RecordTypes /\ canon \in Rows
  BY DEF RecoveryInv, RecoveryTypeOK, StreamTypes, CanonTypes, Latest
<1>2. ASSUME NEW q, NEW v, NEW n, Overrules(fx', q, v, n), Len(q) \in Nat, Len(q) >= Latest
      PROVE  Latest' > Latest /\ Latest' \in 1 .. Latest' /\ fx'[Latest'].status = "pending"
  <2>1. Len(fx') = Len(q) + 1
        /\ fx'[Len(q) + 1] = NewEffect("write", FALSE, v, candidate.hash, candidate.rev, n)
    BY <1>2 DEF Overrules
  <2>2. fx'[Len(q) + 1].status = "pending"
    BY <2>1 DEF NewEffect
  <2>3. Latest' = Len(q) + 1
    BY <1>1, <2>1
  <2> QED
    BY <1>1, <1>2, <2>2, <2>3
<1>3. ASSUME NEW e, Extends(fx', fx, e), e.status = "pending"
      PROVE  Latest' > Latest /\ Latest' \in 1 .. Latest' /\ fx'[Latest'].status = "pending"
  <2>1. Latest' = Latest + 1 /\ fx'[Latest + 1] = e
    BY <1>1, <1>3 DEF Extends
  <2> QED
    BY <1>1, <1>3, <2>1
<1>4. CASE RetryShape
  BY <1>1, <1>2, <1>4 DEF RetryShape
<1>5. CASE FlushShape
  <2>1. CASE FlushSuppressed
    BY <2>1 DEF FlushSuppressed
  <2>2. CASE FlushWrites
    <3>1. Flushed("write", canon').status = "pending"
      BY <1>1, <1>5, FlushedType DEF FlushShape
    <3> QED
      BY <1>3, <2>2, <3>1 DEF FlushWrites
  <2>3. CASE FlushDeletes
    <3>1. Flushed("delete", canon).status = "pending"
      BY <1>1, FlushedType
    <3> QED
      BY <1>3, <2>3, <3>1 DEF FlushDeletes
  <2>4. CASE FlushOverrules
    BY <1>1, <1>2, <2>4 DEF FlushOverrules
  <2>5. CASE FlushRevives
    <3>1. PICK q : Extends(q, fx, Flushed("write", canon')) /\ Overrules(fx', q, canon', revision + 1)
      BY <2>5 DEF FlushRevives
    <3>2. Len(q) \in Nat /\ Len(q) >= Latest
      BY <1>1, <3>1 DEF Extends
    <3> QED
      BY <1>2, <3>1, <3>2
  <2> QED
    BY <1>5, <2>1, <2>2, <2>3, <2>4, <2>5 DEF FlushShape
<1> QED
  BY <1>4, <1>5

LEMMA ScanKnowsStep ==
    ASSUME SharedLoop, RecoveryInv, UntouchedInv, Moves, Grows, Untouched', IsUser
    PROVE  ScanKnows'
<1>1. /\ ScanKnows /\ Tidy /\ ~HumanEdit /\ StreamTypes /\ StreamInv /\ RecoveryTypeOK
      /\ Latest \in Nat /\ Latest' \in Nat /\ Latest <= Latest' /\ Latest > 0
      /\ revision \in Nat /\ confirmed.entity \in Nat /\ confirmed.entity <= revision
      /\ scan.entity \in Nat /\ scan.plan.position \in Nat
      /\ \A s \in 1 .. Latest : fx[s].entity <= revision
  BY UntouchedBefore, GrowsType
     DEF RecoveryInv, RecoveryTypeOK, CanonTypes, RecordTypes, Confirmation, StreamInv, EntitiesArePast,
         ScanTypes, ScanRecord, Plan, StreamTypes
<1>2. ASSUME scan'.at \in {"idle", "observed"} PROVE ScanKnows'
  BY <1>2 DEF ScanKnows, Scanned
<1>3. ASSUME UNCHANGED <<scan, confirmed, fx>> PROVE ScanKnows'
  BY <1>1, <1>3 DEF ScanKnows, Scanned, Live, Latest
<1>4. CASE FlushShape \/ RetryShape
  <2>1. UNCHANGED <<scan, confirmed>>
    BY <1>4 DEF FlushShape, RetryShape
  <2>2. CASE Latest' > Latest /\ fx'[Latest'].status = "pending"
    <3>1. Live(Latest)'
      BY <2>2 DEF Live, InFlight
    <3>2. scan.at = "planned" => scan.plan.position # Latest' + 1
      BY <1>1, <2>2 DEF StreamInv, PlanSane
    <3> QED
      BY <1>1, <2>1, <3>1, <3>2 DEF ScanKnows, Scanned
  <2> QED
    BY <1>3, <1>4, <2>1, <2>2, GrownWaits
<1>5. CASE \E s \in 1 .. Latest : DeliveryShape(s)
  <2>1. PICK s \in 1 .. Latest : DeliveryShape(s)
    BY <1>5
  <2>2. scan.at = "idle" /\ scan' = scan
    BY <2>1, DeliveredIsHead DEF PassRuns, DeliveryShape, DeliveryKeeps
  <2> QED
    BY <1>2, <2>2
<1>6. CASE ScanMove
  <2>1. confirmed' = confirmed
    BY <1>6 DEF ScanMove
  <2>2. CASE ReadScan /\ fx' = fx
    <3>1. /\ scan'.at = "classified" /\ scan'.entity = revision /\ scan'.kind = CleanupKind
          /\ scan'.kind # "none"
      BY <2>2 DEF ReadScan
    <3>2. Len(scan.rows) <= 1
      BY <1>1, <2>2 DEF Tidy, ReadScan
    <3>3. scan.rows \in Seq(Rows)
      BY <1>1 DEF RecoveryTypeOK, ScanTypes, ScanRecord
    <3>4. CleanupKind # "none" => CleanupKind = "rewrite"
      BY <3>2, <3>3 DEF CleanupKind
    <3> QED
      BY <1>1, <2>1, <2>2, <3>1, <3>4 DEF ScanKnows, Scanned, Latest
  <2>3. CASE PlannedScan /\ fx' = fx
    <3>1. /\ scan.at = "classified" /\ scan'.at = "planned" /\ scan'.entity = scan.entity
          /\ scan'.kind = scan.kind /\ ~NothingToPlan
      BY <2>3 DEF PlannedScan
    <3>2. ~Live(Latest)
      BY <1>1, <3>1 DEF NothingToPlan, CleanupDefers, Live
    <3> QED
      BY <1>1, <2>1, <2>3, <3>1, <3>2 DEF ScanKnows, Scanned, Latest
  <2> QED
    BY <1>2, <1>6, <2>2, <2>3 DEF ScanMove, IdleScan, ObservedScan
<1>7. CASE Restart
  BY <1>2, <1>7, IdleType DEF Restart
<1>8. CASE PollMove \/ PersistMove
  <2>1. UNCHANGED <<scan, fx>> /\ confirmed' = confirmed
    BY <1>8, NothingAccepted DEF PollMove, PersistMove, PollKeeps, Disputed, DropEdit
  <2> QED
    BY <1>3, <2>1
<1> QED
  BY <1>1, <1>4, <1>5, <1>6, <1>7, <1>8 DEF Moves

LEMMA PollCalmStep ==
    ASSUME SharedLoop, RecoveryInv, UntouchedInv, Moves, Grows, Untouched', IsUser
    PROVE  PollIsCalm'
<1>1. /\ FreshStays /\ ScanKnows /\ PollIsCalm /\ ReceiptsHold /\ Visible /\ ~HumanEdit
      /\ StreamTypes /\ StreamInv /\ RecoveryTypeOK
      /\ Latest \in Nat /\ Latest' \in Nat /\ Latest <= Latest'
      /\ revision \in Nat /\ revision' \in Nat /\ confirmed.entity \in Nat /\ confirmed.entity <= revision
      /\ scan.entity \in Nat /\ scan.entity <= revision
      /\ poll.revision \in Nat /\ poll.revision <= revision /\ poll.seen.entity \in Nat
  BY UntouchedBefore, GrowsType, CanonMoves
     DEF RecoveryInv, RecoveryTypeOK, CanonTypes, RecordTypes, Confirmation, StreamInv, EntitiesArePast,
         ScanTypes, ScanRecord, PollTypes, PollRecord
<1>2. ASSUME poll'.at = "idle" PROVE PollIsCalm'
  BY <1>2 DEF PollIsCalm
<1>3. CASE UNCHANGED poll
  <2>1. ASSUME NoConflictDue', poll.at # "idle"
        PROVE  /\ Alive'
               /\ \A s \in 1 .. Latest' : Live(s)' => Rewrites(s)'
               /\ sheet' \in {<<>>, <<canon'>>}
               /\ Scanned' => scan'.entity = revision'
    <3>1. revision' = revision /\ canon' = canon
      BY <1>1, <1>3, <2>1, CanonMoves DEF NoConflictDue, RecoveryInv
    <3>2. /\ Alive /\ \A s \in 1 .. Latest : Live(s) => Rewrites(s)
          /\ sheet \in {<<>>, <<canon>>} /\ (Scanned => scan.entity = revision)
      BY <1>1, <1>3, <2>1, <3>1 DEF NoConflictDue, PollIsCalm
    <3>3. Alive'
      BY <3>1, <3>2 DEF Alive
    <3>4. ASSUME NEW s \in 1 .. Latest', Live(s)' PROVE Rewrites(s)'
      <4>1. CASE s \in 1 .. Latest
        BY <1>1, <3>1, <3>2, <3>4, <4>1, LiveBefore, RewritesStays
      <4>2. CASE s > Latest
        <5>1. CASE RetryShape /\ Rewrites(s)'
          BY <5>1
        <5>2. CASE /\ scan.at = "planned"
                   /\ scan.kind = "rewrite" /\ scan.value = canon => Rewrites(s)'
          <6>1. scan.kind = "rewrite" /\ scan.entity = revision
            BY <1>1, <3>2, <5>2 DEF ScanKnows, Scanned
          <6>2. scan.value = canon
            BY <1>1, <5>2, <6>1 DEF StreamInv, NewestIsCanonical, Scanned
          <6> QED
            BY <5>2, <6>1, <6>2
        <5> QED
          BY <3>1, <3>2, <4>2, <5>1, <5>2, JoinsNow
      <4> QED
        BY <1>1, <4>1, <4>2
    <3>5. sheet' \in {<<>>, <<canon'>>}
      <4>1. CASE sheet' = sheet
        BY <3>1, <3>2, <4>1
      <4>2. ASSUME NEW s \in 1 .. Latest, DeliveryShape(s), sheet' # sheet
            PROVE  sheet' = <<canon'>>
        <5>1. Landed(s) /\ Live(s)
          BY <4>2, DeliveredIsHead DEF DeliveryShape, Stopped, Known, Probed, remote
        <5>2. sheet' = RowOf(fx[s])
          BY <1>1, <5>1, LandedShows
        <5>3. fx[s].kind = "write" /\ fx[s].value = canon
          BY <3>2, <5>1 DEF Rewrites
        <5> QED
          BY <3>1, <5>2, <5>3 DEF RowOf
      <4> QED
        BY <1>1, <4>1, <4>2, RemoteMoves DEF remote
    <3>6. Scanned' => scan'.entity = revision'
      <4>1. CASE ScanMove
        BY <1>1, <3>1, <3>2, <4>1 DEF ScanMove, IdleScan, ObservedScan, ReadScan, PlannedScan, Scanned
      <4>2. CASE UNCHANGED scan
        BY <3>1, <3>2, <4>2 DEF Scanned
      <4>3. CASE Restart
        BY <4>3, IdleType DEF Restart, Scanned
      <4> QED
        BY <4>1, <4>2, <4>3 DEF Moves, FlushShape, DeliveryShape, DeliveryKeeps, PollMove, PersistMove,
                                PollKeeps, RetryShape, HumanEdit
    <3> QED
      BY <3>3, <3>4, <3>5, <3>6
  <2>2. ASSUME NoConflictDue', poll.at = "observed" PROVE FALSE
    <3>1. NoConflictDue
      BY <1>1, <1>3, <2>2, CanonMoves DEF NoConflictDue, RecoveryInv
    <3> QED
      BY <1>1, <2>2, <3>1 DEF PollIsCalm
  <2> QED
    BY <1>3, <2>1, <2>2 DEF PollIsCalm
<1>4. CASE PollMove /\ ReadPoll
  <2>1. /\ UNCHANGED <<canon, revision, confirmed, fx, sheet, scan>> /\ Alive
        /\ poll'.at = "read" /\ poll'.revision = revision /\ poll'.seen = confirmed
    BY <1>4 DEF PollMove, PollKeeps, ReadPoll, remote
  <2>2. ASSUME NoConflictDue'
        PROVE  /\ \A s \in 1 .. Latest : Live(s) => Rewrites(s)
               /\ sheet \in {<<>>, <<canon>>}
               /\ Scanned => scan.entity = revision
    <3>1. confirmed.entity = revision
      BY <1>1, <2>1, <2>2 DEF NoConflictDue
    <3>2. \A s \in 1 .. Latest : Live(s) => Rewrites(s)
      BY <1>1, <2>1, <3>1 DEF FreshStays
    <3>3. CASE \E s \in receipts : fx[s].status = "delivery_uncertain"
      <4>1. PICK s \in receipts : fx[s].status = "delivery_uncertain"
        BY <3>3
      <4>2. s \in 1 .. Latest /\ Live(s) /\ sheet = RowOf(fx[s])
        BY <1>1, <4>1, UncertainIsLive DEF RecoveryTypeOK, RemoteTypes, Visible
      <4>3. sheet = <<canon>>
        BY <3>2, <4>2 DEF Rewrites, RowOf
      <4> QED
        BY <1>1, <3>1, <3>2, <4>3 DEF ScanKnows
    <3>4. CASE \A s \in receipts : fx[s].status = "applied"
      <4>1. sheet \in {<<>>, <<confirmed.hash>>}
        BY <1>1, <3>4 DEF Visible
      <4>2. confirmed.hash = canon
        BY <1>1, <2>1, <3>1 DEF StreamInv, NewestIsCanonical
      <4> QED
        BY <1>1, <3>1, <3>2, <4>1, <4>2 DEF ScanKnows
    <3> QED
      BY <1>1, <3>3, <3>4 DEF ReceiptsHold
  <2> QED
    BY <2>1, <2>2 DEF PollIsCalm, Alive, Live, Rewrites, Scanned, Latest
<1>5. CASE PollMove /\ ObservedPoll
  <2>1. /\ UNCHANGED <<canon, revision>> /\ poll'.at = "observed" /\ poll.at = "read"
        /\ poll'.revision = poll.revision /\ poll'.seen = poll.seen
        /\ sheet # <<>> /\ sheet[1] # poll.canon
    BY <1>5 DEF PollMove, ObservedPoll
  <2>2. ASSUME NoConflictDue' PROVE FALSE
    <3>1. NoConflictDue
      BY <2>1, <2>2 DEF NoConflictDue
    <3>2. sheet = <<canon>>
      BY <1>1, <2>1, <3>1 DEF PollIsCalm
    <3>3. poll.canon = canon
      BY <1>1, <2>1, <3>1 DEF NoConflictDue, StreamInv, NewestIsCanonical
    <3> QED
      BY <2>1, <3>2, <3>3
  <2> QED
    BY <2>2 DEF PollIsCalm
<1>6. CASE PollMove \/ PersistMove \/ Restart
  BY <1>2, <1>4, <1>5, <1>6, NoPollType DEF PollMove, PersistMove, Restart, IdlePoll
<1>7. CASE FlushShape \/ ScanMove \/ RetryShape
  BY <1>3, <1>7 DEF FlushShape, ScanMove, RetryShape
<1>8. CASE \E s \in 1 .. Latest : DeliveryShape(s)
  BY <1>3, <1>8 DEF DeliveryShape, DeliveryKeeps
<1> QED
  BY <1>1, <1>6, <1>7, <1>8 DEF Moves

LEMMA UntouchedStep ==
    ASSUME SharedLoop, RecoveryInv, UntouchedInv, Moves, Grows
    PROVE  UntouchedInv'
<1>1. IsUser' = IsUser
  BY CanonMoves DEF IsUser, RecoveryInv
<1> QED
  BY <1>1, ReceiptsStep, VisibleStep, TidyStep, FreshStep, ScanKnowsStep, PollCalmStep DEF UntouchedInv

LEMMA InitUntouched ==
    ASSUME Init
    PROVE  UntouchedInv
<1>1. fx \in Seq(Effect) /\ Latest = 1 /\ receipts = {1} /\ fx[1].status = "applied" /\ ~Live(1)
  <2>1. StreamTypes /\ Latest = 1 /\ receipts = {1}
    BY InitTypes DEF RecoveryTypeOK, Init, Latest
  <2> QED
    BY <2>1, StatusMeans DEF StreamTypes, Live, InFlight
<1>2. sheet = <<confirmed.hash>> /\ scan.at = "idle" /\ poll.at = "idle"
  BY IdleType, NoPollType DEF Init
<1>3. ReceiptsHold /\ Visible /\ Tidy
  BY <1>1, <1>2 DEF ReceiptsHold, Visible, Tidy
<1>4. FreshStays /\ ScanKnows /\ PollIsCalm
  BY <1>1, <1>2 DEF FreshStays, ScanKnows, PollIsCalm, Scanned
<1> QED
  BY <1>3, <1>4 DEF UntouchedInv

LEMMA UntouchedStutter ==
    ASSUME UntouchedInv, UNCHANGED vars
    PROVE  UntouchedInv'
  BY DEF vars, UntouchedInv, Untouched, ReceiptsHold, Visible, RowOf, Tidy, IsUser, FreshStays, Alive, Latest, Live,
         Rewrites, ScanKnows, Scanned, PollIsCalm, NoConflictDue

LEMMA UntouchedMeans ==
    ASSUME RecoveryInv, UntouchedInv
    PROVE  ConfirmedIsVisible
<1> SUFFICES ASSUME edits = 0, \A s \in 1 .. Latest : fx[s].status \in {"applied", "pending"}
             PROVE  sheet \in {<<>>, <<confirmed.hash>>}
  BY DEF ConfirmedIsVisible
<1>1. ReceiptsHold /\ Visible /\ receipts \subseteq 1 .. Latest
  BY DEF UntouchedInv, Untouched, RecoveryInv, RecoveryTypeOK, RemoteTypes
<1>2. \A s \in receipts : fx[s].status = "applied"
  BY <1>1 DEF ReceiptsHold
<1> QED
  BY <1>1, <1>2 DEF Visible

\* sheet_visible_state tells the truth: on a sheet nobody edits, with nothing
\* uncertain or given up, the confirmed hash is that of the row
\* (applyEffectResult, writeProjectionConfirmationWithSql).
THEOREM ConfirmationsTellTheTruth ==
    ASSUME SharedLoop
    PROVE  Spec => []ConfirmedIsVisible
<1>1. Init => RecoveryInv /\ UntouchedInv
  BY InitTypes, InitUntouched DEF RecoveryInv
<1>2. RecoveryInv /\ UntouchedInv /\ [Next]_vars => (RecoveryInv /\ UntouchedInv)'
  BY InvStep, InvStutter, UntouchedStep, UntouchedStutter
<1>3. RecoveryInv /\ UntouchedInv => ConfirmedIsVisible
  BY UntouchedMeans
<1> QED
  BY <1>1, <1>2, <1>3, PTL DEF Spec

-----------------------------------------------------------------------------
(* Guards of queued effects                                                *)

LEMMA QuietBefore ==
    ASSUME RecoveryInv, Moves, Grows, Quiet'
    PROVE  /\ Quiet /\ Untouched /\ Untouched' /\ edits = 0 /\ ~disputed /\ ~disputed'
           /\ \A s \in 1 .. Latest : fx'[s].status # "superseded"
           /\ \A s \in 1 .. Latest : ~(fx'[s].status = "failed" /\ fx'[s].terminal)
<1>1. edits \in Nat /\ disputed \in BOOLEAN /\ StreamTypes
  BY DEF RecoveryInv, RecoveryTypeOK, RecordTypes
<1>2. (edits' = edits \/ edits' = edits + 1) /\ (disputed' = disputed \/ disputed' = (disputed \/ HasCandidate'))
  BY DEF Moves, FlushShape, DeliveryShape, DeliveryKeeps, ScanMove, counters, PollMove, PersistMove, PollKeeps,
         RetryShape, Restart, HumanEdit
<1>3. edits' = 0 /\ ~disputed'
  BY DEF Quiet
<1>4. edits = 0 /\ ~disputed
  BY <1>1, <1>2, <1>3
<1>5. ASSUME NEW s \in 1 .. Latest
      PROVE  /\ fx'[s].status # "superseded" /\ ~(fx'[s].status = "failed" /\ fx'[s].terminal)
             /\ fx[s].status # "superseded" /\ ~(fx[s].status = "failed" /\ fx[s].terminal)
  <2>1. s \in 1 .. Latest' /\ Kept(fx'[s], fx[s])
    BY <1>1, GrowsType
  <2>2. fx'[s].status # "superseded" /\ ~(fx'[s].status = "failed" /\ fx'[s].terminal)
    BY <2>1 DEF Quiet
  <2> QED
    BY <2>1, <2>2, KeptMeans DEF Settled
<1> QED
  BY <1>3, <1>4, <1>5 DEF Quiet, Untouched

LEMMA FollowsStays ==
    ASSUME NEW c, NEW d, NEW e, NEW f, SameContent(c, d), SameContent(e, f), Follows(d, f)
    PROVE  Follows(c, e)
  BY DEF SameContent, Follows

\* Quiet streams are an applied part and what is still to be delivered.
LEMMA QuietStatus ==
    ASSUME RecoveryInv, Quiet, Chained, NEW s \in 1 .. Latest
    PROVE  \/ fx[s].status = "applied" /\ ~Live(s)
           \/ Live(s) /\ fx[s].status \notin Settled
<1>1. StreamTypes
  BY DEF RecoveryInv, RecoveryTypeOK
<1>2. /\ fx[s].status # "superseded" /\ ~(fx[s].status = "failed" /\ fx[s].terminal)
      /\ fx[s].status \notin {"conflict", "blocked_candidate"}
  BY DEF Quiet, Chained
<1>3. fx[s].status \in Settled => fx[s].status = "applied"
  BY <1>2 DEF Settled
<1>4. \/ fx[s].status \in Settled /\ ~Live(s)
      \/ Live(s) /\ fx[s].status \notin Settled
  <2>1. \/ fx[s].status \in Settled /\ ~Live(s)
        \/ fx[s].status \in {"conflict", "blocked_candidate"} /\ ~Live(s)
        \/ fx[s].status = "failed" /\ fx[s].terminal /\ ~Live(s)
        \/ Live(s) /\ fx[s].status \notin Settled
    BY <1>1, StatusMeans, Zenon
  <2> QED
    BY <1>2, <2>1, Zenon
<1> QED
  BY <1>3, <1>4, Zenon

LEMMA QuietHead ==
    ASSUME RecoveryInv, Quiet, Chained, NEW s \in 1 .. Latest, AtHead(s), Live(s)
    PROVE  /\ s > 1 /\ s - 1 \in 1 .. Latest /\ s \in 2 .. Latest
           /\ \A p \in 1 .. Latest : p < s => fx[p].status = "applied" /\ p \in receipts
<1>1. StreamTypes /\ Latest \in Nat /\ AppliedHasReceipt
  BY DEF RecoveryInv, RecoveryTypeOK, StreamTypes, Latest, StreamInv
<1>2. s # 1
  BY <1>1 DEF StreamTypes, Live, InFlight
<1>3. ASSUME NEW p \in 1 .. Latest, p < s PROVE fx[p].status = "applied" /\ p \in receipts
  <2>1. p \in 1 .. s - 1
    BY <1>1, <1>3
  <2>2. fx[p].status \in Settled
    BY <2>1 DEF AtHead
  <2>3. fx[p].status = "applied"
    BY <2>2 DEF Quiet, Settled
  <2> QED
    BY <1>1, <2>3 DEF AppliedHasReceipt
<1> QED
  BY <1>1, <1>2, <1>3

\* Receipts are of what is applied, and of its successor at most.
LEMMA QuietReceipts ==
    ASSUME RecoveryInv, Quiet, Chained, ReceiptsHold, NEW s \in receipts
    PROVE  /\ s \in 1 .. Latest /\ AtHead(s)
           /\ \A p \in 1 .. Latest : p < s => p \in receipts /\ fx[p].status = "applied"
<1>1. s \in 1 .. Latest /\ Latest \in Nat /\ StreamTypes /\ InOrder /\ AppliedHasReceipt
  BY DEF RecoveryInv, RecoveryTypeOK, RemoteTypes, StreamTypes, Latest, StreamInv
<1>2. AtHead(s)
  BY <1>1 DEF ReceiptsHold, InOrder
<1>3. ASSUME NEW p \in 1 .. Latest, p < s PROVE fx[p].status = "applied" /\ p \in receipts
  <2>1. p \in 1 .. s - 1
    BY <1>1, <1>3
  <2>2. fx[p].status \in Settled
    BY <1>2, <2>1 DEF AtHead
  <2>3. fx[p].status = "applied"
    BY <2>2 DEF Quiet, Settled
  <2> QED
    BY <1>1, <2>3 DEF AppliedHasReceipt
<1> QED
  BY <1>1, <1>2, <1>3

\* The effect at the head finds what its guard expects.
LEMMA GuardMatches ==
    ASSUME RecoveryInv, Quiet, Chained, NEW s \in 1 .. Latest, AtHead(s), Live(s), s \notin receipts
    PROVE  Outcome(s) # "guard_mismatch"
<1>1. /\ s \in 2 .. Latest /\ s - 1 \in 1 .. Latest /\ s - 1 \in receipts /\ s - 1 + 1 = s
      /\ s - 1 < s
  BY QuietHead DEF RecoveryInv, RecoveryTypeOK, StreamTypes, Latest
<1>2. PICK d : d = fx[s - 1]
  OBVIOUS
<1>3. PICK e : e = fx[s]
  OBVIOUS
<1>4. d \in Effect /\ e \in Effect
  BY <1>1, <1>2, <1>3, EffectType DEF RecoveryInv, RecoveryTypeOK
<1>5. d.kind \in {"write", "delete"} /\ e.kind \in {"write", "delete"}
  BY <1>4 DEF Effect
<1>6. sheet = RowOf(d) /\ Follows(d, e)
  BY <1>1, <1>2, <1>3 DEF Chained
<1>7. CASE d.kind = "delete"
  <2>1. sheet = <<>> /\ e.kind = "write" /\ e.create /\ e.rev = 0 /\ e.hash = Empty
    BY <1>6, <1>7 DEF RowOf, Follows
  <2> QED
    BY <1>3, <2>1 DEF Outcome
<1>8. CASE d.kind = "write"
  <2>1. sheet # <<>> /\ Row = d.value
    BY <1>6, <1>8 DEF RowOf, Row
  <2>2. IF e.kind = "delete" THEN Row = e.hash ELSE Row \in {e.hash, e.value}
    BY <1>6, <1>8, <2>1 DEF Follows
  <2>3. CASE e.kind = "delete"
    BY <1>3, <2>1, <2>2, <2>3 DEF Outcome
  <2>4. CASE e.kind = "write"
    BY <1>3, <2>1, <2>2, <2>4 DEF Outcome
  <2> QED
    BY <1>5, <2>3, <2>4
<1> QED
  BY <1>5, <1>7, <1>8

LEMMA ChainedDelivery ==
    ASSUME RecoveryInv, UntouchedInv, Quiet, Chained, CandidateIsDispute, Moves, Grows, Quiet',
           NEW s \in 1 .. Latest, DeliveryShape(s)
    PROVE  Chained'
<1>1. /\ ReceiptsHold /\ Visible /\ StreamTypes /\ ~HasCandidate /\ Latest \in Nat
      /\ \A u \in 1 .. Latest : u = 1 \/ u - 1 \in 1 .. Latest
  BY QuietBefore DEF UntouchedInv, RecoveryInv, RecoveryTypeOK, StreamTypes, Latest, CandidateIsDispute
<1>2. AtHead(s) /\ Live(s) /\ fx[s].status \notin Settled
  BY DeliveredIsHead
<1>3. /\ Latest' = Latest /\ SameContent(fx'[s], fx[s]) /\ \A u \in 1 .. Latest : u # s => fx'[u] = fx[u]
  BY DeliveryLeaves
<1>4. /\ fx'[s].status # "superseded" /\ ~(fx'[s].status = "failed" /\ fx'[s].terminal)
  BY QuietBefore
<1>5. \A p \in 1 .. Latest : p < s => fx[p].status = "applied" /\ p \in receipts
  BY <1>2, QuietHead
<1>6. \A u \in 1 .. Latest : u > s => fx[u].status # "applied" /\ u \notin receipts
  <2>1. ASSUME NEW u \in 1 .. Latest, u > s, fx[u].status = "applied" \/ u \in receipts PROVE FALSE
    <3>1. u \in receipts
      BY <2>1 DEF RecoveryInv, StreamInv, AppliedHasReceipt
    <3>2. s < u
      BY <1>1, <2>1
    <3>3. s \in receipts /\ fx[s].status = "applied"
      BY <1>1, <3>1, <3>2, QuietReceipts
    <3> QED
      BY <1>2, <3>3 DEF Settled
  <2> QED
    BY <2>1
\* What is told to the effect.
<1>7. fx'[s].status \notin {"conflict", "blocked_candidate"}
  <2>1. s \in receipts => fx[s].status = "delivery_uncertain"
    BY <1>1, <1>2 DEF ReceiptsHold, Settled
  <2>2. ASSUME Stopped(s) PROVE Outcome(s) # "guard_mismatch"
    <3>1. s \notin receipts
      BY <2>1, <2>2 DEF Stopped, Dispatchable
    <3> QED
      BY <1>2, <3>1, GuardMatches
  <2>3. CASE Stopped(s)
    BY <1>1, <2>2, <2>3 DEF Stopped, Marked
  <2>4. CASE Landed(s) \/ Known(s) \/ Probed(s)
    BY <2>4 DEF Landed, Known, Probed, Marked, Told
  <2> QED
    BY <2>3, <2>4 DEF DeliveryShape
<1>8. \A u \in 2 .. Latest : Follows(fx'[u - 1], fx'[u])
  <2>1. \A u \in 1 .. Latest : SameContent(fx'[u], fx[u])
    BY <1>1, GrowsType, KeptMeans
  <2>2. ASSUME NEW u \in 2 .. Latest PROVE u \in 1 .. Latest /\ u - 1 \in 1 .. Latest
    BY <1>1
  <2> QED
    BY <2>1, <2>2, FollowsStays DEF Chained
\* The row.
<1>9. ASSUME NEW u \in receipts', u + 1 \notin receipts' PROVE sheet' = RowOf(fx'[u])
  <2>1. CASE Landed(s)
    <3>1. sheet' = RowOf(fx[s]) /\ receipts' = receipts \cup {s}
      BY <1>1, <2>1, LandedShows
    <3>2. u = s
      <4>1. ASSUME u # s PROVE FALSE
        <5>1. u \in receipts /\ u \in 1 .. Latest
          BY <1>9, <3>1, <4>1 DEF RecoveryInv, RecoveryTypeOK, RemoteTypes
        <5>2. u < s
          BY <1>1, <1>6, <4>1, <5>1
        <5>3. u + 1 \in 1 .. Latest /\ (u + 1 = s \/ u + 1 < s)
          BY <1>1, <5>1, <5>2
        <5> QED
          BY <1>5, <1>9, <3>1, <5>3
      <4> QED
        BY <4>1
    <3>3. RowOf(fx'[s]) = RowOf(fx[s])
      BY <1>3 DEF RowOf, SameContent
    <3> QED
      BY <3>1, <3>2, <3>3
  <2>2. CASE ~Landed(s)
    <3>1. sheet' = sheet /\ receipts' = receipts
      BY <2>2 DEF DeliveryShape, Stopped, Known, Probed, remote
    <3>2. u \in 1 .. Latest /\ sheet = RowOf(fx[u])
      BY <1>9, <3>1 DEF Chained, RecoveryInv, RecoveryTypeOK, RemoteTypes
    <3>3. RowOf(fx'[u]) = RowOf(fx[u])
      BY <1>1, <3>2, GrowsType, KeptMeans DEF RowOf, SameContent
    <3> QED
      BY <3>1, <3>2, <3>3
  <2> QED
    BY <2>1, <2>2
\* The confirmation.
<1>10. ASSUME NEW u \in 1 .. Latest, fx'[u].status = "applied", u = Latest \/ fx'[u + 1].status # "applied"
       PROVE  confirmed'.hash = fx'[u].value
  <2>1. CASE fx'[s].status = "applied"
    <3>1. Told(s)
      BY <2>1 DEF DeliveryShape, Stopped, Landed, Known, Probed, Marked
    <3>2. confirmed'.hash = fx[s].value
      BY <2>1, <3>1 DEF Told
    <3>3. ~(u > s)
      BY <1>1, <1>3, <1>6, <1>10
    <3>4. ~(u < s)
      <4>1. ASSUME u < s PROVE FALSE
        <5>1. u + 1 \in 1 .. Latest /\ (u + 1 = s \/ u + 1 < s) /\ u # Latest
          BY <1>1, <4>1
        <5>2. fx'[u + 1].status = "applied"
          BY <1>3, <1>5, <2>1, <5>1
        <5> QED
          BY <1>10, <5>1, <5>2
      <4> QED
        BY <4>1
    <3>5. u = s
      BY <1>1, <3>3, <3>4
    <3> QED
      BY <1>3, <3>2, <3>5 DEF SameContent
  <2>2. CASE fx'[s].status # "applied"
    <3>1. confirmed' = confirmed
      BY <2>2 DEF DeliveryShape, Stopped, Landed, Known, Probed, Marked, Told
    <3>2. u # s /\ fx'[u] = fx[u]
      BY <1>3, <1>10, <2>2
    <3>3. u # Latest => u + 1 \in 1 .. Latest
      BY <1>1
    <3>4. u = Latest \/ fx[u + 1].status # "applied"
      BY <1>2, <1>3, <1>10, <3>3 DEF Settled
    <3> QED
      BY <1>10, <3>1, <3>2, <3>4 DEF Chained
  <2> QED
    BY <2>1, <2>2
<1>11. \A u \in 1 .. Latest : fx'[u].status \notin {"conflict", "blocked_candidate"}
  BY <1>3, <1>7 DEF Chained
<1> QED
  BY <1>3, <1>8, <1>9, <1>10, <1>11 DEF Chained

LEMMA ChainedSame ==
    ASSUME RecoveryInv, Chained, Latest' = Latest, \A u \in 1 .. Latest : fx'[u] = fx[u],
           UNCHANGED <<remote, confirmed>>
    PROVE  Chained'
<1>1. receipts \subseteq 1 .. Latest /\ Latest \in Nat /\ UNCHANGED <<sheet, receipts>>
  BY DEF RecoveryInv, RecoveryTypeOK, RemoteTypes, StreamTypes, Latest, remote
<1>2. \A u \in 2 .. Latest : u \in 1 .. Latest /\ u - 1 \in 1 .. Latest
  BY <1>1
<1>3. ASSUME NEW u \in 1 .. Latest, fx'[u].status = "applied", u = Latest \/ fx'[u + 1].status # "applied"
      PROVE  confirmed'.hash = fx'[u].value
  <2>1. u = Latest \/ u + 1 \in 1 .. Latest
    BY <1>1
  <2>2. fx[u].status = "applied" /\ (u = Latest \/ fx[u + 1].status # "applied")
    BY <1>3, <2>1
  <2> QED
    BY <2>2 DEF Chained
<1>4. \A u \in 1 .. Latest : fx'[u].status \notin {"conflict", "blocked_candidate"}
  BY DEF Chained
<1>5. \A u \in 2 .. Latest : Follows(fx'[u - 1], fx'[u])
  BY <1>2 DEF Chained
<1>6. \A u \in receipts : u + 1 \notin receipts => sheet = RowOf(fx'[u])
  BY <1>1 DEF Chained
<1> QED
  BY <1>1, <1>3, <1>4, <1>5, <1>6 DEF Chained

LEMMA ChainedAppend ==
    ASSUME RecoveryInv, Chained, Latest' = Latest + 1, \A u \in 1 .. Latest : fx'[u] = fx[u],
           UNCHANGED <<remote, confirmed>>,
           Follows(fx[Latest], fx'[Latest + 1]), fx'[Latest + 1].status = "pending"
    PROVE  Chained'
<1>1. receipts \subseteq 1 .. Latest /\ Latest \in Nat /\ Latest > 0 /\ UNCHANGED <<sheet, receipts>>
  BY DEF RecoveryInv, RecoveryTypeOK, RemoteTypes, StreamTypes, Latest, remote
<1>2. ASSUME NEW u \in 1 .. Latest', fx'[u].status = "applied", u = Latest' \/ fx'[u + 1].status # "applied"
      PROVE  confirmed'.hash = fx'[u].value
  <2>1. u \in 1 .. Latest
    BY <1>1, <1>2
  <2>2. u = Latest \/ u + 1 \in 1 .. Latest
    BY <1>1, <2>1
  <2>3. u # Latest'
    BY <1>1, <2>1
  <2>4. fx[u].status = "applied" /\ (u = Latest \/ fx[u + 1].status # "applied")
    BY <1>2, <2>1, <2>2, <2>3
  <2> QED
    BY <2>1, <2>4 DEF Chained
<1>3. ASSUME NEW u \in 1 .. Latest' PROVE fx'[u].status \notin {"conflict", "blocked_candidate"}
  <2>1. u \in 1 .. Latest \/ u = Latest + 1
    BY <1>1
  <2> QED
    BY <2>1 DEF Chained
<1>4. ASSUME NEW u \in 2 .. Latest' PROVE Follows(fx'[u - 1], fx'[u])
  <2>1. CASE u = Latest + 1
    <3>1. u - 1 = Latest /\ Latest \in 1 .. Latest
      BY <1>1, <2>1
    <3>2. fx'[u - 1] = fx[Latest] /\ fx'[u] = fx'[Latest + 1]
      BY <2>1, <3>1
    <3> QED
      BY <3>2
  <2>2. CASE u # Latest + 1
    <3>1. u \in 2 .. Latest /\ u \in 1 .. Latest /\ u - 1 \in 1 .. Latest
      BY <1>1, <2>2
    <3> QED
      BY <3>1 DEF Chained
  <2> QED
    BY <2>1, <2>2
<1>5. \A u \in receipts : u + 1 \notin receipts => sheet = RowOf(fx'[u])
  BY <1>1 DEF Chained
<1> QED
  BY <1>1, <1>2, <1>3, <1>4, <1>5 DEF Chained

\* A quiet stream has a receipt, and a row for the last one.
LEMMA LastReceipt ==
    ASSUME RecoveryInv, Chained
    PROVE  \E s \in receipts : s + 1 \notin receipts /\ s \in 1 .. Latest /\ sheet = RowOf(fx[s])
<1>1. /\ receipts \subseteq 1 .. Latest /\ Latest \in Nat /\ 1 \in receipts
  <2>1. Latest \in Nat /\ Latest > 0 /\ fx[1].status = "applied" /\ AppliedHasReceipt
    BY DEF RecoveryInv, RecoveryTypeOK, StreamTypes, Latest, StreamInv
  <2> QED
    BY <2>1 DEF AppliedHasReceipt, RecoveryInv, RecoveryTypeOK, RemoteTypes
<1>2. PICK s \in receipts : \A t \in receipts : t <= s
  BY <1>1, LastPosition
<1>3. s \in 1 .. Latest /\ s + 1 \notin receipts
  BY <1>1, <1>2
<1> QED
  BY <1>2, <1>3 DEF Chained

\* A flush plans from what the stream is about to leave.
LEMMA FlushFollows ==
    ASSUME RecoveryInv, Quiet, Chained, CandidateIsDispute, FlushShape
    PROVE  /\ Latest' = Latest + 1 /\ \A u \in 1 .. Latest : fx'[u] = fx[u]
           /\ Follows(fx[Latest], fx'[Latest + 1]) /\ fx'[Latest + 1].status = "pending"
           /\ Alive' \/ ~IsUser => fx'[Latest + 1].kind = "write" /\ fx'[Latest + 1].value = canon'
<1>1. /\ CanonTypes /\ StreamTypes /\ RecordTypes /\ ~HasCandidate /\ Latest \in Nat /\ Latest > 0
      /\ Latest = Len(fx) /\ Latest' = Len(fx') /\ canon \in Rows /\ canon' \in Rows /\ confirmed.rev > 0
      /\ fx[Latest] \in Effect /\ Latest \in 1 .. Latest
  BY DEF RecoveryInv, RecoveryTypeOK, StreamTypes, RecordTypes, CanonTypes, Latest, Quiet, CandidateIsDispute,
         FlushShape
<1>2. canon # Empty /\ fx[Latest].kind \in {"write", "delete"}
  BY <1>1, RecoveryAssumption DEF Rows, Gone, Empty, Effect
<1>3. ~IsUser => fx[Latest].kind = "write"
  BY <1>1 DEF RecoveryInv, StreamInv, PlanWrites
<1>4. fx[Latest].status = "applied" => confirmed.hash = fx[Latest].value
  BY <1>1 DEF Chained
<1>5. ASSUME MayEnqueue
      PROVE  IF fx[Latest].kind = "delete" THEN FlushBaseline = CreateBaseline
             ELSE FlushBaseline.hash = fx[Latest].value
  <2>1. CASE fx[Latest].kind = "delete"
    BY <1>1, <1>3, <2>1 DEF FlushBaseline
  <2>2. CASE fx[Latest].kind = "write" /\ fx[Latest].status = "pending"
    BY <1>1, <2>2 DEF FlushBaseline, FollowerBaseline, TargetHash
  <2>3. CASE fx[Latest].kind = "write" /\ fx[Latest].status # "pending"
    <3>1. fx[Latest].status = "applied"
      BY <1>1, <1>5, <2>3 DEF MayEnqueue, FlushAllowed
    <3>2. FlushBaseline = ConfirmedBaseline
      BY <1>1, <2>3 DEF FlushBaseline
    <3>3. ConfirmedBaseline.hash = confirmed.hash
      BY <1>1 DEF ConfirmedBaseline
    <3> QED
      BY <1>4, <2>3, <3>1, <3>2, <3>3
  <2> QED
    BY <1>2, <2>1, <2>2, <2>3
<1>6. CASE FlushWrites
  <2>1. MayEnqueue /\ Extends(fx', fx, Flushed("write", canon'))
    BY <1>6 DEF FlushWrites
  <2>2. /\ Latest' = Latest + 1 /\ \A u \in 1 .. Latest : fx'[u] = fx[u]
        /\ fx'[Latest + 1] = Flushed("write", canon')
    BY <1>1, <2>1 DEF Extends
  <2>3. PICK e : e = Flushed("write", canon')
    OBVIOUS
  <2>4. /\ e.status = "pending" /\ e.kind = "write" /\ e.value = canon'
        /\ e.create = FlushBaseline.create /\ e.hash = FlushBaseline.hash /\ e.rev = FlushBaseline.rev
    BY <1>1, <2>3, FlushedType
  <2>5. Follows(fx[Latest], e)
    <3>1. CASE fx[Latest].kind = "delete"
      BY <1>5, <2>1, <2>4, <3>1 DEF Follows, CreateBaseline
    <3>2. CASE fx[Latest].kind = "write"
      BY <1>5, <2>1, <2>4, <3>2 DEF Follows
    <3> QED
      BY <1>2, <3>1, <3>2
  <2> QED
    BY <2>2, <2>3, <2>4, <2>5
<1>7. CASE FlushDeletes
  <2>1. MayEnqueue /\ Extends(fx', fx, Flushed("delete", canon)) /\ canon' = Gone /\ IsUser
        /\ FlushBaseline.hash = canon
    BY <1>7 DEF FlushDeletes
  <2>2. /\ Latest' = Latest + 1 /\ \A u \in 1 .. Latest : fx'[u] = fx[u]
        /\ fx'[Latest + 1] = Flushed("delete", canon)
    BY <1>1, <2>1 DEF Extends
  <2>3. PICK e : e = Flushed("delete", canon)
    OBVIOUS
  <2>4. e.status = "pending" /\ e.kind = "delete" /\ e.hash = FlushBaseline.hash
    BY <1>1, <2>3, FlushedType
  <2>5. fx[Latest].kind = "write"
    BY <1>2, <1>5, <2>1 DEF CreateBaseline
  <2>6. Follows(fx[Latest], e)
    BY <1>5, <2>1, <2>4, <2>5 DEF Follows
  <2> QED
    BY <2>1, <2>2, <2>3, <2>4, <2>6 DEF Alive
<1>8. FlushWrites \/ FlushDeletes
  BY <1>1 DEF FlushShape, FlushSuppressed, FlushOverrules, FlushRevives
<1> QED
  BY <1>6, <1>7, <1>8

LEMMA DisputeStep ==
    ASSUME RecoveryInv, Moves, CandidateIsDispute
    PROVE  CandidateIsDispute'
<1>1. candidate.rev \in Nat /\ disputed \in BOOLEAN
  BY DEF RecoveryInv, RecoveryTypeOK, RecordTypes
<1>2. ASSUME UNCHANGED disputed, candidate' = NoCandidate \/ candidate'.rev = candidate.rev
      PROVE  CandidateIsDispute'
  BY <1>1, <1>2 DEF CandidateIsDispute, HasCandidate, NoCandidate
<1>3. CASE FlushShape
  BY <1>2, <1>3 DEF FlushShape, FlushSuppressed, FlushWrites, FlushDeletes, FlushOverrules, FlushRevives, SameCandidate
<1>4. CASE PersistMove
  BY <1>4 DEF PersistMove, CandidateIsDispute
<1>5. CASE RetryShape
  BY <1>2, <1>5 DEF RetryShape, counters
<1>6. CASE ScanMove \/ PollMove \/ Restart \/ HumanEdit
  BY <1>2, <1>6 DEF ScanMove, PollMove, Restart, HumanEdit, durable, counters
<1>7. CASE \E s \in 1 .. Latest : DeliveryShape(s)
  BY <1>2, <1>7 DEF DeliveryShape, DeliveryKeeps
<1> QED
  BY <1>3, <1>4, <1>5, <1>6, <1>7 DEF Moves

LEMMA FreshScanStep ==
    ASSUME SharedLoop, RecoveryInv, UntouchedInv, Moves, Untouched', ScanFresh
    PROVE  ScanFresh'
<1>1. ~HumanEdit
  BY UntouchedBefore
<1>2. ASSUME NEW s \in 1 .. Latest, DeliveryShape(s) PROVE scan'.at = "idle"
  BY <1>2, DeliveredIsHead DEF PassRuns, DeliveryShape, DeliveryKeeps
<1>3. CASE ScanMove
  BY <1>3 DEF ScanMove, remote, IdleScan, ObservedScan, ReadScan, PlannedScan, ScanFresh
<1>4. CASE Restart
  BY <1>4, IdleType DEF Restart, ScanFresh
<1>5. CASE FlushShape \/ PollMove \/ PersistMove \/ RetryShape
  BY <1>5 DEF FlushShape, PollMove, PersistMove, PollKeeps, RetryShape, remote, ScanFresh
<1> QED
  BY <1>1, <1>2, <1>3, <1>4, <1>5 DEF Moves, ScanFresh

\* Some write of the canonical value is the last effect, or the one before it.
RewritesLast == Rewrites(Latest) \/ (Latest > 1 /\ Rewrites(Latest - 1))

LEMMA RewritesLastStays ==
    ASSUME RecoveryInv, Grows, Latest' = Latest, canon' = canon
    PROVE  /\ RewritesLast => RewritesLast'
           /\ (Alive => Rewrites(Latest)) => (Alive' => Rewrites(Latest)')
<1>1. StreamTypes /\ Latest \in Nat /\ Latest > 0
  BY DEF RecoveryInv, RecoveryTypeOK, StreamTypes, Latest
<1>2. ASSUME NEW u \in 1 .. Latest, Rewrites(u) PROVE fx'[u].kind = "write" /\ fx'[u].value = canon'
  BY <1>1, <1>2, GrowsType, KeptMeans DEF Rewrites, SameContent
<1>3. Latest \in 1 .. Latest /\ (Latest > 1 => Latest - 1 \in 1 .. Latest)
  BY <1>1
<1> QED
  BY <1>2, <1>3 DEF RewritesLast, Rewrites, Alive

\* A scan of an unremarkable stream.
LEMMA QuietScan ==
    ASSUME SharedLoop, RecoveryInv, UntouchedInv, QuietInv, ScanMove, Moves, Grows, Quiet', fx' = fx
    PROVE  IF IsUser THEN UserQuiet' ELSE SystemQuiet'
<1>1. /\ Quiet /\ Untouched /\ Chained /\ ScanFresh /\ Tidy /\ ReceiptsHold
      /\ IF IsUser THEN UserQuiet ELSE SystemQuiet
  BY QuietBefore DEF QuietInv, UntouchedInv
<1>2. /\ Latest \in Nat /\ Latest > 0 /\ Latest' = Latest /\ canon' = canon /\ receipts' = receipts /\ sheet' = sheet
      /\ StreamTypes /\ Latest \in 1 .. Latest
  BY DEF RecoveryInv, RecoveryTypeOK, StreamTypes, Latest, ScanMove, remote
<1>3. /\ RewritesLast => RewritesLast'
      /\ (Alive => Rewrites(Latest)) => (Alive' => Rewrites(Latest)')
  BY <1>2, RewritesLastStays
<1>4. \A s \in 1 .. Latest : fx[s].status = "applied" \/ Live(s)
  BY <1>1, QuietStatus
<1>5. ASSUME scan'.at \in {"idle", "observed"} PROVE IF IsUser THEN UserQuiet' ELSE SystemQuiet'
  BY <1>1, <1>3, <1>5 DEF UserQuiet, SystemQuiet, RewritesLast
<1>6. TerminalFailures = {}
  BY <1>1 DEF Quiet, TerminalFailures
<1>7. CASE ReadScan /\ IsUser
  <2>1. Len(scan.rows) <= 1 /\ scan.rows = sheet /\ scan.rows \in Seq(Rows)
    BY <1>1, <1>7 DEF ReadScan, Tidy, ScanFresh, RecoveryInv, RecoveryTypeOK, ScanTypes, ScanRecord
  <2>2. CleanupKind # "none" /\ scan'.at = "classified"
    BY <1>7 DEF ReadScan
  <2>3. Alive /\ Len(sheet) = 1 /\ sheet[1] # canon
    BY <2>1, <2>2 DEF CleanupKind
  <2>4. ASSUME Latest \in receipts PROVE FALSE
    <3>1. Latest + 1 \notin receipts
      BY <1>2 DEF RecoveryInv, RecoveryTypeOK, RemoteTypes
    <3>2. sheet = RowOf(fx[Latest])
      BY <1>1, <2>4, <3>1 DEF Chained
    <3>3. sheet = <<canon>>
      BY <1>1, <1>7, <2>3, <3>2 DEF UserQuiet, Rewrites, RowOf
    <3> QED
      BY <2>3, <3>3
  <2> QED
    BY <1>1, <1>2, <1>3, <1>7, <2>2, <2>4 DEF UserQuiet
<1>8. CASE ReadScan /\ ~IsUser
  <2>1. /\ scan'.at = "classified" /\ scan'.value = canon /\ scan'.kind = ReconcileKind /\ ReconcileKind # "none"
        /\ scan.rows = sheet
    BY <1>1, <1>8 DEF ReadScan, ScanFresh
  <2>2. Len(sheet) = 1
    <3>1. PICK s \in receipts : s \in 1 .. Latest /\ sheet = RowOf(fx[s])
      BY <1>1, LastReceipt
    <3>2. fx[s].kind = "write" /\ fx[s] \in Effect
      BY <1>2, <1>8, <3>1, EffectType DEF RecoveryInv, StreamInv, PlanWrites
    <3>3. sheet = <<fx[s].value>>
      BY <3>1, <3>2 DEF RowOf
    <3> QED
      BY <3>3
  <2>3. ReconcileKind = "drifted" /\ sheet[1] # canon
    BY <1>6, <2>1, <2>2 DEF ReconcileKind
  <2>4. \/ fx[Latest].status \in InFlight \/ Latest \in receipts \/ canon = fx[Latest].value
    <3>1. CASE Rewrites(Latest)
      BY <3>1 DEF Rewrites
    <3>2. CASE Latest > 1 /\ Rewrites(Latest - 1) /\ fx[Latest].status \notin InFlight /\ Latest \notin receipts
      <4>1. fx[Latest].status # "applied"
        BY <1>2, <3>2 DEF RecoveryInv, StreamInv, AppliedHasReceipt
      <4>2. Live(Latest) /\ fx[Latest].status = "failed"
        BY <1>2, <1>4, <3>2, <4>1 DEF Live
      <4>3. AtHead(Latest)
        BY <1>2, <4>2 DEF RecoveryInv, StreamInv, InOrder
      <4>4. Latest - 1 \in 1 .. Latest /\ Latest - 1 < Latest /\ Latest - 1 + 1 = Latest
        BY <1>2, <3>2
      <4>5. Latest - 1 \in receipts
        BY <1>1, <1>2, <4>2, <4>3, <4>4, QuietHead
      <4>6. sheet = RowOf(fx[Latest - 1])
        BY <1>1, <3>2, <4>4, <4>5 DEF Chained
      <4>7. sheet = <<canon>>
        BY <3>2, <4>6 DEF Rewrites, RowOf
      <4> QED
        BY <2>3, <4>7
    <3> QED
      BY <1>1, <1>8, <3>1, <3>2 DEF SystemQuiet
  <2>5. SystemQuiet'
    BY <1>1, <1>2, <1>3, <1>8, <2>1, <2>3, <2>4 DEF SystemQuiet, RewritesLast
  <2> QED
    BY <1>8, <2>5
<1>9. CASE PlannedScan /\ IsUser
  <2>1. scan.at = "classified" /\ ~NothingToPlan
    BY <1>9 DEF PlannedScan
  <2>2. Latest \notin receipts
    BY <1>1, <1>9, <2>1 DEF UserQuiet
  <2>3. Live(Latest)
    BY <1>2, <1>4, <2>2 DEF RecoveryInv, StreamInv, AppliedHasReceipt
  <2>4. CleanupDefers
    BY <1>2, <2>3 DEF CleanupDefers, Live
  <2> QED
    BY <1>9, <2>1, <2>4 DEF NothingToPlan
<1>10. CASE PlannedScan /\ ~IsUser
  <2>1. /\ scan.at = "classified" /\ scan'.at = "planned" /\ ~NothingToPlan /\ scan'.value = scan.value
        /\ scan'.plan = CorrectionPlan
    BY <1>10 DEF PlannedScan
  <2>2. /\ scan.kind = "drifted" /\ canon \in {scan.value, fx[Latest].value}
        /\ fx[Latest].status \in InFlight \/ Latest \in receipts \/ scan.value = fx[Latest].value
    BY <1>1, <1>10, <2>1 DEF SystemQuiet
  <2>3. FailedHead = 0
    <3>1. FailedHead \in 0 .. Latest /\ (FailedHead > 0 => fx[FailedHead].status = "failed" /\ fx[FailedHead].terminal)
      BY <1>2, FailedHeadIsGivenUp
    <3>2. PICK h : h = FailedHead
      OBVIOUS
    <3>3. h \in 0 .. Latest /\ (h > 0 => fx[h].status = "failed" /\ fx[h].terminal)
      BY <3>1, <3>2
    <3>4. h \in 1 .. Latest => ~(fx[h].status = "failed" /\ fx[h].terminal)
      BY <1>1 DEF Quiet
    <3>5. h = 0
      BY <1>2, <3>3, <3>4
    <3> QED
      BY <3>2, <3>5
  <2>4. ~Covered
    BY <1>10, <2>1, <2>3 DEF NothingToPlan
  <2>5. PICK e : e = CorrectionPlan.effect
    OBVIOUS
  <2>6. /\ CorrectionPlan.by = 0 /\ CorrectionPlan.over = 0 /\ e.kind = "write" /\ e.value = scan.value
        /\ e.hash = CorrectionBaseline.hash
    BY <2>3, <2>4, <2>5, CorrectionPlanType DEF RecoveryInv
  <2>7. fx[Latest].kind = "write"
    BY <1>2, <1>10 DEF RecoveryInv, StreamInv, PlanWrites
  <2>8. fx[Latest].value \in {e.hash, e.value}
    <3>1. CASE fx[Latest].status \in InFlight
      BY <1>2, <2>2, <2>6, <3>1 DEF CorrectionBaseline, FollowerBaseline, TargetHash
    <3>2. CASE fx[Latest].status \notin InFlight /\ Latest \in receipts
      <4>1. Latest + 1 \notin receipts
        BY <1>2 DEF RecoveryInv, RecoveryTypeOK, RemoteTypes
      <4>2. sheet = <<fx[Latest].value>> /\ scan.rows = sheet
        BY <1>1, <2>1, <2>7, <3>2, <4>1 DEF Chained, RowOf, ScanFresh
      <4>3. CorrectionBaseline = VisibleBaseline
        BY <2>2, <3>2 DEF CorrectionBaseline
      <4>4. fx[Latest].value # Empty /\ confirmed.rev > 0
        <5>1. fx[Latest] \in Effect
          BY <1>2, EffectType
        <5> QED
          BY <5>1, RecoveryAssumption DEF Effect, Rows, Gone, Empty, RecoveryInv, RecoveryTypeOK, RecordTypes
      <4>5. Len(scan.rows) = 1 /\ scan.rows[1] = fx[Latest].value
        BY <4>2
      <4>6. VisibleBaseline.hash = fx[Latest].value
        BY <4>4, <4>5 DEF VisibleBaseline
      <4> QED
        BY <2>6, <4>3, <4>6
    <3>3. CASE scan.value = fx[Latest].value
      BY <2>6, <3>3
    <3> QED
      BY <2>2, <3>1, <3>2, <3>3
  <2>9. Follows(fx[Latest], e)
    BY <2>6, <2>7, <2>8 DEF Follows
  <2>10. SystemQuiet'
    BY <1>1, <1>2, <1>3, <1>10, <2>1, <2>2, <2>5, <2>6, <2>9 DEF SystemQuiet, RewritesLast
  <2> QED
    BY <1>10, <2>10
<1> QED
  BY <1>5, <1>7, <1>8, <1>9, <1>10 DEF ScanMove, IdleScan, ObservedScan

LEMMA QuietEnlist ==
    ASSUME RecoveryInv, UntouchedInv, QuietInv, ScanMove, EnlistShape, scan.at = "planned", IdleScan,
           Moves, Grows, Quiet'
    PROVE  Chained' /\ IF IsUser THEN UserQuiet' ELSE SystemQuiet'
<1>1. /\ Quiet /\ Chained /\ IF IsUser THEN UserQuiet ELSE SystemQuiet
      /\ \A u \in 1 .. Latest : fx'[u].status # "superseded"
  BY QuietBefore DEF QuietInv
<1>2. /\ Latest \in Nat /\ Latest > 0 /\ Latest = Len(fx) /\ Latest' = Len(fx') /\ canon' = canon
      /\ UNCHANGED <<remote, confirmed>> /\ Latest \in 1 .. Latest
  BY DEF RecoveryInv, RecoveryTypeOK, StreamTypes, Latest, ScanMove
<1>3. ~IsUser /\ SystemQuiet
  BY <1>1 DEF UserQuiet
<1>4. \A u \in 1 .. Latest : fx'[u] = fx[u]
  BY <1>1, <1>2 DEF EnlistShape
<1>5. CASE Latest' = Latest
  <2>1. Chained'
    BY <1>1, <1>2, <1>4, <1>5, ChainedSame
  <2>2. RewritesLast'
    BY <1>2, <1>3, <1>5, RewritesLastStays DEF SystemQuiet, RewritesLast
  <2>3. SystemQuiet'
    BY <2>2 DEF SystemQuiet, RewritesLast, IdleScan
  <2> QED
    BY <1>3, <2>1, <2>3
<1>6. CASE Latest' # Latest
  <2>1. /\ Latest' = Latest + 1 /\ scan.plan.by = 0 /\ scan.plan.position = Latest + 1
        /\ fx'[Latest + 1] = scan.plan.effect
    BY <1>2, <1>6 DEF EnlistShape
  <2>2. Follows(fx[Latest], scan.plan.effect) /\ canon \in {scan.value, fx[Latest].value}
    BY <1>3, <2>1 DEF SystemQuiet
  <2>3. /\ scan.plan.effect.status = "pending" /\ scan.plan.effect.kind = "write"
        /\ scan.plan.effect.value = scan.value /\ fx[Latest].kind = "write"
    BY <1>2, <1>3, <2>1 DEF RecoveryInv, RecoveryTypeOK, ScanTypes, StreamInv, PlanWrites
  <2>4. Chained'
    BY <1>1, <1>2, <1>4, <2>1, <2>2, <2>3, ChainedAppend
  <2>5. Latest' - 1 = Latest /\ Latest' > 1 /\ fx'[Latest] = fx[Latest]
    BY <1>2, <1>4, <2>1
  <2>6. fx'[Latest'].kind = "write" /\ fx'[Latest'].value = scan.value
    BY <2>1, <2>3
  <2>7. RewritesLast'
    <3>1. CASE canon = scan.value
      BY <1>2, <2>6, <3>1 DEF RewritesLast, Rewrites
    <3>2. CASE canon = fx[Latest].value
      <4>1. fx'[Latest' - 1].kind = "write" /\ fx'[Latest' - 1].value = canon'
        BY <1>2, <2>3, <2>5, <3>2
      <4> QED
        BY <2>5, <4>1 DEF RewritesLast, Rewrites
    <3> QED
      BY <2>2, <3>1, <3>2
  <2>8. SystemQuiet'
    BY <2>7 DEF SystemQuiet, RewritesLast, IdleScan
  <2> QED
    BY <1>3, <2>4, <2>8
<1> QED
  BY <1>5, <1>6

LEMMA QuietStep ==
    ASSUME SharedLoop, RecoveryInv, UntouchedInv, QuietInv, Moves, Grows, Quiet'
    PROVE  Chained' /\ IF IsUser' THEN UserQuiet' ELSE SystemQuiet'
<1>1. /\ Quiet /\ Untouched' /\ Chained /\ CandidateIsDispute /\ ~disputed /\ ~disputed' /\ ~HasCandidate
      /\ IF IsUser THEN UserQuiet ELSE SystemQuiet
      /\ StreamInv /\ PlanSane /\ ~HumanEdit
  BY QuietBefore, UntouchedBefore DEF QuietInv, CandidateIsDispute, RecoveryInv, StreamInv
<1>2. /\ Latest \in Nat /\ Latest > 0 /\ Latest' \in Nat /\ IsUser' = IsUser /\ StreamTypes
      /\ receipts \subseteq 1 .. Latest /\ scan.plan.position \in Nat
  BY GrowsType, CanonMoves DEF RecoveryInv, RecoveryTypeOK, RemoteTypes, ScanTypes, ScanRecord, Plan, IsUser, StreamTypes
<1>3. ASSUME Latest' = Latest, canon' = canon, scan'.at = "idle"
      PROVE  IF IsUser THEN UserQuiet' ELSE SystemQuiet'
  BY <1>1, <1>3, RewritesLastStays DEF UserQuiet, SystemQuiet, RewritesLast
<1>4. ASSUME fx' = fx, UNCHANGED <<remote, confirmed, canon>>, scan' = scan \/ scan'.at = "idle"
      PROVE  Chained' /\ IF IsUser THEN UserQuiet' ELSE SystemQuiet'
  <2>1. Latest' = Latest /\ receipts' = receipts
    BY <1>4 DEF Latest, remote
  <2>2. Chained'
    BY <1>1, <1>4, <2>1, ChainedSame
  <2>3. CASE scan' = scan
    <3>1. UserQuiet => UserQuiet'
      BY <1>4, <2>1, <2>3 DEF UserQuiet, Rewrites, Alive
    <3>2. SystemQuiet => SystemQuiet'
      BY <1>4, <2>1, <2>3 DEF SystemQuiet, Rewrites
    <3> QED
      BY <1>1, <2>2, <3>1, <3>2
  <2> QED
    BY <1>3, <1>4, <2>1, <2>2, <2>3
<1>5. CASE FlushShape
  <2>1. /\ Latest' = Latest + 1 /\ \A u \in 1 .. Latest : fx'[u] = fx[u]
        /\ Follows(fx[Latest], fx'[Latest + 1]) /\ fx'[Latest + 1].status = "pending"
        /\ Alive' \/ ~IsUser => fx'[Latest + 1].kind = "write" /\ fx'[Latest + 1].value = canon'
    BY <1>1, <1>5, FlushFollows
  <2>2. scan' = scan /\ receipts' = receipts /\ UNCHANGED <<remote, confirmed>>
    BY <1>5 DEF FlushShape, remote
  <2>3. Chained'
    BY <1>1, <2>1, <2>2, ChainedAppend
  <2>4. Latest' \notin receipts /\ fx'[Latest'] = fx'[Latest + 1]
    BY <1>2, <2>1
  <2>5. fx'[Latest'].status \in InFlight
    BY <2>1, <2>4 DEF InFlight
  <2>6. Alive' \/ ~IsUser => fx'[Latest'].kind = "write" /\ fx'[Latest'].value = canon'
    BY <2>1, <2>4
  <2>7. scan.at = "planned" => scan.plan.position # Latest' + 1
    BY <1>1, <1>2, <2>1 DEF PlanSane
  <2>8. IsUser => UserQuiet'
    BY <1>1, <2>2, <2>4, <2>6 DEF UserQuiet, Rewrites
  <2>9. ~IsUser => SystemQuiet'
    BY <1>1, <2>2, <2>5, <2>6, <2>7 DEF SystemQuiet, Rewrites
  <2> QED
    BY <1>2, <2>3, <2>8, <2>9
<1>6. ASSUME NEW s \in 1 .. Latest, DeliveryShape(s) PROVE Chained' /\ IF IsUser' THEN UserQuiet' ELSE SystemQuiet'
  <2>1. Chained'
    BY <1>1, <1>6, ChainedDelivery
  <2>2. Latest' = Latest /\ canon' = canon /\ scan'.at = "idle"
    BY <1>6, DeliveredIsHead, DeliveryLeaves DEF PassRuns, DeliveryShape, DeliveryKeeps
  <2> QED
    BY <1>2, <1>3, <2>1, <2>2
<1>7. CASE ScanMove
  <2>1. CASE fx' = fx
    <3>1. Latest' = Latest /\ UNCHANGED <<remote, confirmed>>
      BY <1>7, <2>1 DEF ScanMove, Latest
    <3>2. Chained'
      BY <1>1, <2>1, <3>1, ChainedSame
    <3> QED
      BY <1>2, <1>7, <2>1, <3>2, QuietScan
  <2>2. CASE scan.at = "planned" /\ EnlistShape /\ IdleScan
    BY <1>2, <1>7, <2>2, QuietEnlist
  <2> QED
    BY <1>7, <2>1, <2>2 DEF ScanMove
<1>8. CASE PollMove
  BY <1>2, <1>4, <1>8 DEF PollMove, PollKeeps
<1>9. CASE PersistMove
  <2>1. ~Accepted
    BY <1>1, <1>9, NothingAccepted
  <2>2. fx' = fx /\ UNCHANGED <<remote, confirmed, canon>> /\ scan' = scan
    BY <1>9, <2>1 DEF PersistMove, PollKeeps, Disputed, DropEdit
  <2> QED
    BY <1>2, <1>4, <2>2
<1>10. CASE Restart
  BY <1>2, <1>4, <1>10, IdleType DEF Restart, durable
<1>11. ~RetryShape
  BY <1>1 DEF RetryShape
<1> QED
  BY <1>1, <1>5, <1>6, <1>7, <1>8, <1>9, <1>10, <1>11 DEF Moves

LEMMA QuietInvStep ==
    ASSUME SharedLoop, RecoveryInv, UntouchedInv, QuietInv, Moves, Grows
    PROVE  QuietInv'
<1>1. CandidateIsDispute'
  BY DisputeStep DEF QuietInv
<1>2. ASSUME Untouched' PROVE ScanFresh'
  BY <1>2, UntouchedBefore, FreshScanStep DEF QuietInv
<1>3. ASSUME Quiet' PROVE Chained' /\ IF IsUser' THEN UserQuiet' ELSE SystemQuiet'
  BY <1>3, QuietStep
<1> QED
  BY <1>1, <1>2, <1>3 DEF QuietInv

LEMMA InitQuiet ==
    ASSUME Init
    PROVE  QuietInv
<1>1. /\ Latest = 1 /\ receipts = {1} /\ fx[1].status = "applied" /\ Rewrites(1)
      /\ sheet = RowOf(fx[1]) /\ confirmed.hash = fx[1].value
  BY DEF Init, Latest, NewEffect, Rewrites, RowOf
<1>2. scan.at = "idle" /\ ~HasCandidate
  BY IdleType DEF Init, HasCandidate, NoCandidate
<1>3. Chained
  BY <1>1 DEF Chained
<1> QED
  BY <1>1, <1>2, <1>3 DEF QuietInv, CandidateIsDispute, ScanFresh, UserQuiet, SystemQuiet

LEMMA QuietStutter ==
    ASSUME QuietInv, UNCHANGED vars
    PROVE  QuietInv'
  BY DEF vars, QuietInv, CandidateIsDispute, HasCandidate, Untouched, ScanFresh, Quiet, Latest, Chained, Follows, RowOf,
         IsUser, UserQuiet, SystemQuiet, Rewrites, Alive

LEMMA QuietMeans ==
    ASSUME QuietInv
    PROVE  QueuedGuardsMatch
<1> SUFFICES ASSUME edits = 0, ~disputed, \A s \in 1 .. Latest : fx[s].status \notin {"failed", "superseded"}
             PROVE  \A s \in 1 .. Latest : fx[s].status \notin {"conflict", "blocked_candidate"}
  BY DEF QueuedGuardsMatch
<1>1. Quiet
  BY DEF Quiet
<1> QED
  BY <1>1 DEF QuietInv, Chained

\* The guards that flushes and scans plan from effects that have not landed
\* (projectionBaseline, resolveCorrectionBaselineWithSql) match one after the
\* other: undisturbed, no effect ends blocked or in a conflict.
THEOREM GuardsMatch ==
    ASSUME SharedLoop
    PROVE  Spec => []QueuedGuardsMatch
<1>1. Init => RecoveryInv /\ UntouchedInv /\ QuietInv
  BY InitTypes, InitUntouched, InitQuiet DEF RecoveryInv
<1>2. RecoveryInv /\ UntouchedInv /\ QuietInv /\ [Next]_vars => (RecoveryInv /\ UntouchedInv /\ QuietInv)'
  BY InvStep, InvStutter, UntouchedStep, UntouchedStutter, QuietInvStep, QuietStutter
<1>3. RecoveryInv /\ UntouchedInv /\ QuietInv => QueuedGuardsMatch
  BY QuietMeans
<1> QED
  BY <1>1, <1>2, <1>3, PTL DEF Spec

-----------------------------------------------------------------------------
(* Revisions                                                               *)

LEMMA RevType ==
    ASSUME RecoveryInv
    PROVE  /\ confirmed.rev \in Nat /\ confirmed.rev > 0 /\ candidate.rev \in Nat
           /\ Slack \in Nat /\ (~IsUser => Slack = 0) /\ (IsUser => Slack = 1)
           /\ \A s \in 1 .. Latest : fx[s].rev \in Nat
           /\ Latest \in Nat /\ Latest > 0 /\ Latest = Len(fx) /\ StreamTypes
<1>1. StreamTypes /\ RecordTypes
  BY DEF RecoveryInv, RecoveryTypeOK
<1>2. \A s \in 1 .. Latest : fx[s].rev \in Nat
  BY <1>1, EffectType DEF Effect
<1>3. confirmed.rev \in Nat /\ confirmed.rev > 0 /\ candidate.rev \in Nat
  BY <1>1 DEF RecordTypes, Confirmation
<1> QED
  BY <1>1, <1>2, <1>3 DEF Slack, StreamTypes, Latest

LEMMA UnbrokenBefore ==
    ASSUME RecoveryInv, Moves, Grows, Unbroken'
    PROVE  /\ Unbroken
           /\ \A s \in 1 .. Latest : fx[s].status # "superseded" /\ fx'[s].status # "superseded"
           /\ \A s \in 1 .. Latest' : s > Latest => ~fx'[s].create /\ fx'[s].status # "superseded"
           /\ IsUser => Untouched'
<1>1. /\ StreamTypes /\ Latest \in Nat /\ Latest' \in Nat /\ Latest <= Latest' /\ Latest > 0
      /\ \A s \in 1 .. Latest : s \in 1 .. Latest' /\ Kept(fx'[s], fx[s])
  BY GrowsType DEF RecoveryInv, RecoveryTypeOK, StreamTypes
<1>2. fx[1].status = "applied" /\ fx'[1].status = "applied" /\ 1 \in 1 .. Latest
  BY <1>1, KeptMeans DEF StreamTypes, Settled
<1>3. ASSUME NEW s \in 1 .. Latest
      PROVE  /\ fx[s].status # "superseded" /\ fx'[s].status # "superseded"
             /\ s # 1 => ~fx[s].create
  <2>1. CASE s = 1
    BY <1>2, <2>1
  <2>2. CASE s # 1
    <3>1. s \in 2 .. Latest'
      BY <1>1, <2>2
    <3>2. ~fx'[s].create /\ fx'[s].status # "superseded"
      BY <3>1 DEF Unbroken
    <3>3. fx[s].status # "superseded" /\ fx'[s].create = fx[s].create
      BY <1>1, <3>2, KeptMeans DEF Settled, SameContent
    <3> QED
      BY <2>2, <3>2, <3>3
  <2> QED
    BY <2>1, <2>2
<1>4. \A s \in 1 .. Latest' : s > Latest => s \in 2 .. Latest'
  BY <1>1
<1>5. \A s \in 1 .. Latest' : s > Latest => ~fx'[s].create /\ fx'[s].status # "superseded"
  BY <1>4 DEF Unbroken
<1>6. edits \in Nat /\ edits' \in Nat /\ edits <= edits' /\ IsUser' = IsUser
  <2>1. edits \in Nat
    BY DEF RecoveryInv, RecoveryTypeOK, RecordTypes
  <2>2. edits' = edits \/ edits' = edits + 1
    BY DEF Moves, FlushShape, DeliveryShape, DeliveryKeeps, ScanMove, counters, PollMove, PersistMove, PollKeeps,
           RetryShape, Restart, HumanEdit
  <2> QED
    BY <2>1, <2>2, CanonMoves DEF IsUser, RecoveryInv
<1>7. ~(IsUser /\ edits > 0) /\ (IsUser => edits' = 0)
  BY <1>6 DEF Unbroken
<1>8. \A s \in 2 .. Latest : s \in 1 .. Latest /\ s # 1
  BY <1>1
<1> QED
  BY <1>3, <1>5, <1>7, <1>8 DEF Unbroken, Untouched

\* A confirmation that lands on a climbing stream is accepted.
LEMMA TellingIsAccepted ==
    ASSUME RecoveryInv, Unbroken, Climbs, NEW s \in 1 .. Latest, AtHead(s), Live(s), Told(s)
    PROVE  /\ fx'[s].status = "applied" /\ UNCHANGED refused
           /\ confirmed'.rev = IF fx[s].kind = "delete" THEN Larger(confirmed.rev, fx[s].rev)
                               ELSE fx[s].rev + 1
           /\ confirmed'.rev \in Nat /\ confirmed'.rev >= confirmed.rev
           /\ confirmed'.rev <= confirmed.rev + Slack + 1
<1>1. s \in 2 .. Latest
  <2>1. Latest \in Nat /\ fx[1].status = "applied"
    BY RevType DEF StreamTypes
  <2>2. s # 1
    BY <2>1 DEF Live, InFlight
  <2> QED
    BY <2>1, <2>2
<1>2. ~fx[s].create
  BY <1>1 DEF Unbroken
<1>3. PICK r \in Nat : r = fx[s].rev
  BY RevType
<1>4. PICK c \in Nat : c = confirmed.rev
  BY RevType
<1>5. PICK k \in Nat : k = Slack
  BY RevType
<1>6. c <= r + 1 /\ r <= c + k
  BY <1>3, <1>4, <1>5 DEF Climbs
<1>7. PICK n : n = ConfirmedRevision(fx[s])
  OBVIOUS
<1>8. /\ n = IF fx[s].kind = "delete" THEN Larger(c, r) ELSE r + 1
      /\ n \in Nat /\ n >= c /\ n <= c + k + 1
  <2>1. CASE fx[s].kind = "delete"
    <3>1. n = Larger(c, r)
      BY <1>3, <1>4, <1>7, <2>1 DEF ConfirmedRevision, ReceiptRevision
    <3>2. Larger(c, r) \in Nat /\ Larger(c, r) >= c /\ Larger(c, r) <= c + k + 1
      BY <1>6 DEF Larger
    <3> QED
      BY <2>1, <3>1, <3>2
  <2>2. CASE fx[s].kind # "delete"
    <3>1. n = r + 1
      BY <1>2, <1>3, <1>7, <2>2 DEF ConfirmedRevision, ReceiptRevision
    <3> QED
      BY <1>6, <2>2, <3>1
  <2> QED
    BY <2>1, <2>2
<1>9. fx'[s].status = "applied" /\ UNCHANGED refused /\ confirmed'.rev = n
  BY <1>4, <1>7, <1>8 DEF Told
<1> QED
  BY <1>3, <1>4, <1>5, <1>8, <1>9

LEMMA RevisionDelivery ==
    ASSUME SharedLoop, RecoveryInv, RevisionInv, Moves, Grows, Unbroken', NEW s \in 1 .. Latest, DeliveryShape(s)
    PROVE  refused' = {} /\ Climbs' /\ CandidateIsNear' /\ PlanClimbs'
<1>1. /\ Unbroken /\ refused = {} /\ Climbs /\ CandidateIsNear
      /\ \A u \in 1 .. Latest : fx[u].status # "superseded" /\ fx'[u].status # "superseded"
  BY UnbrokenBefore DEF RevisionInv
<1>2. AtHead(s) /\ Live(s) /\ fx[s].status \notin Settled
  BY DeliveredIsHead
<1>3. /\ Latest' = Latest /\ \A u \in 1 .. Latest : u # s => fx'[u] = fx[u]
      /\ \A u \in 1 .. Latest : fx[u].status = "delivery_uncertain" => u = s
      /\ \A u \in 1 .. Latest : SameContent(fx'[u], fx[u])
  BY RevType, DeliveryLeaves, GrowsType, KeptMeans
<1>4. IsUser' = IsUser /\ Slack' = Slack /\ candidate' = candidate /\ scan'.at = "idle"
  BY <1>2, DeliveredIsHead DEF DeliveryShape, DeliveryKeeps, IsUser, Slack, PassRuns
<1>5. PlanClimbs'
  BY <1>4 DEF PlanClimbs
<1>6. /\ confirmed.rev \in Nat /\ candidate.rev \in Nat /\ Slack \in Nat /\ Slack <= 1 /\ Latest \in Nat
      /\ \A u \in 1 .. Latest : fx[u].rev \in Nat /\ fx'[u].rev = fx[u].rev /\ fx'[u].kind = fx[u].kind
  BY <1>3, RevType DEF SameContent
<1>7. \A u \in 1 .. Latest : Live(u)' => Live(u)
  BY LiveBefore, RevType
<1>8. HasCandidate => IsUser
  BY DEF RecoveryInv, RecoveryTypeOK, RecordTypes
<1>9. CASE Told(s)
  <2>1. /\ fx'[s].status = "applied" /\ UNCHANGED refused
        /\ confirmed'.rev = IF fx[s].kind = "delete" THEN Larger(confirmed.rev, fx[s].rev) ELSE fx[s].rev + 1
        /\ confirmed'.rev \in Nat /\ confirmed'.rev >= confirmed.rev
        /\ confirmed'.rev <= confirmed.rev + Slack + 1
    BY <1>1, <1>2, <1>9, TellingIsAccepted
  <2>2. ASSUME NEW u \in 1 .. Latest, Live(u)', AtHead(u)'
        PROVE  confirmed'.rev <= fx[u].rev + 1 /\ fx[u].rev <= confirmed'.rev + Slack
    <3>1. u # s
      BY <2>1, <2>2 DEF Live, InFlight
    <3>2. Live(u)
      BY <1>7, <2>2
    <3>3. fx[u].status \notin Settled
      BY <3>2, StatusMeans, RevType
    <3>4. ~(u < s)
      BY <1>2, <1>6, <3>3 DEF AtHead
    <3>5. u = s + 1
      <4>1. ASSUME s + 1 < u PROVE FALSE
        <5>1. s + 1 \in 1 .. u - 1 /\ s + 1 \in 1 .. Latest /\ s + 1 # s /\ s \in 1 .. (s + 1) - 1
          BY <1>6, <4>1
        <5>2. fx[s + 1].status \in Settled
          BY <1>3, <2>2, <5>1 DEF AtHead
        <5>3. fx[s + 1].status = "applied"
          BY <1>1, <5>1, <5>2 DEF Settled
        <5>4. AtHead(s + 1)
          BY <5>1, <5>3 DEF RecoveryInv, StreamInv, InOrder
        <5> QED
          BY <1>2, <5>1, <5>4 DEF AtHead
      <4> QED
        BY <1>6, <3>1, <3>4, <4>1
    <3>6. u \in 2 .. Latest /\ u - 1 = s
      BY <1>6, <3>5
    <3>7. /\ fx[s].kind = "write" /\ fx[s].rev <= fx[u].rev
          /\ fx[u].rev <= Larger(fx[s].rev + 1, confirmed.rev)
      BY <1>1, <1>2, <3>2, <3>6 DEF Climbs
    <3>8. confirmed.rev <= fx[s].rev + 1
      BY <1>1, <1>2 DEF Climbs
    <3>9. confirmed'.rev = fx[s].rev + 1 /\ Larger(fx[s].rev + 1, confirmed.rev) = fx[s].rev + 1
      BY <1>6, <2>1, <3>7, <3>8 DEF Larger
    <3> QED
      BY <1>6, <3>7, <3>9
  <2>3. ASSUME NEW u \in 2 .. Latest, Live(u - 1)', Live(u)'
        PROVE  /\ fx[u - 1].kind = "write" /\ fx[u - 1].rev <= fx[u].rev
               /\ fx[u].rev <= Larger(fx[u - 1].rev + 1, confirmed'.rev)
    <3>1. u \in 1 .. Latest /\ u - 1 \in 1 .. Latest
      BY <1>6
    <3>2. Live(u - 1) /\ Live(u)
      BY <1>7, <2>3, <3>1
    <3>3. /\ fx[u - 1].kind = "write" /\ fx[u - 1].rev <= fx[u].rev
          /\ fx[u].rev <= Larger(fx[u - 1].rev + 1, confirmed.rev)
      BY <1>1, <3>2 DEF Climbs
    <3>4. fx[u].rev \in Nat /\ fx[u - 1].rev \in Nat
      BY <1>6, <3>1
    <3>5. fx[u].rev <= Larger(fx[u - 1].rev + 1, confirmed'.rev)
      BY <1>6, <2>1, <3>3, <3>4 DEF Larger
    <3> QED
      BY <3>3, <3>5
  <2>4. Climbs'
    <3>1. \A u \in 2 .. Latest : u \in 1 .. Latest /\ u - 1 \in 1 .. Latest
      BY <1>6
    <3> QED
      BY <1>3, <1>4, <1>6, <2>2, <2>3, <3>1 DEF Climbs
  <2>5. CandidateIsNear'
    <3>1. ASSUME HasCandidate
          PROVE  /\ candidate.rev <= confirmed'.rev + 1 /\ confirmed'.rev <= candidate.rev + 1
                 /\ ~\E u \in 1 .. Latest : fx'[u].status = "delivery_uncertain"
      <4>1. fx[s].status = "delivery_uncertain"
        BY <1>8, <1>9, <2>1, <3>1
           DEF DeliveryShape, Stopped, Landed, Known, Probed, Marked, Open, Uncertain
      <4>2. candidate.rev = confirmed.rev + 1
        BY <1>1, <3>1, <4>1 DEF CandidateIsNear
      <4>3. \A u \in 1 .. Latest : fx'[u].status # "delivery_uncertain"
        BY <1>3, <2>1
      <4>4. candidate.rev <= confirmed'.rev + 1 /\ confirmed'.rev <= candidate.rev + 1
        BY <1>6, <2>1, <4>2
      <4> QED
        BY <4>3, <4>4, Zenon
    <3> QED
      BY <1>3, <1>4, <3>1 DEF CandidateIsNear, HasCandidate
  <2> QED
    BY <1>1, <1>5, <2>1, <2>4, <2>5
<1>10. CASE ~Told(s)
  <2>1. /\ confirmed' = confirmed /\ refused' = refused
        /\ fx'[s].status \in {"blocked_candidate", "conflict", "delivery_uncertain", "failed", "pending"}
    BY <1>10 DEF DeliveryShape, Stopped, Landed, Known, Probed, Marked
  <2>2. \A u \in 1 .. Latest : fx'[u].status \in Settled => fx[u].status \in Settled
    BY <1>3, <2>1 DEF Settled
  <2>3. ASSUME NEW u \in 1 .. Latest, AtHead(u)' PROVE AtHead(u)
    <3>1. \A p \in 1 .. u - 1 : p \in 1 .. Latest
      BY <1>6
    <3> QED
      BY <2>2, <2>3, <3>1 DEF AtHead
  <2>4. Climbs'
    <3>1. \A u \in 2 .. Latest : u \in 1 .. Latest /\ u - 1 \in 1 .. Latest
      BY <1>6
    <3> QED
      BY <1>1, <1>3, <1>4, <1>6, <1>7, <2>1, <2>3, <3>1 DEF Climbs
  <2>5. CandidateIsNear'
    <3>1. ASSUME HasCandidate, fx'[s].status = "delivery_uncertain"
          PROVE  fx[s].status = "delivery_uncertain"
      BY <1>8, <3>1 DEF DeliveryShape, Stopped, Landed, Known, Probed, Marked, Open, Uncertain
    <3>2. HasCandidate' = HasCandidate
      BY <1>4 DEF HasCandidate
    <3> QED
      BY <1>1, <1>3, <1>4, <2>1, <3>1, <3>2 DEF CandidateIsNear
  <2> QED
    BY <1>1, <1>5, <2>1, <2>4, <2>5
<1> QED
  BY <1>9, <1>10

\* What a step leaves alone that delivers nothing: of a climbing stream nothing
\* is given up.
Stays ==
    /\ confirmed' = confirmed /\ refused' = refused /\ projection' = projection
    /\ \A u \in 1 .. Latest : fx'[u] = fx[u]

\* An effect of this revision may be the next of the stream.
Fits(rev) ==
    IF Live(Latest)
    THEN /\ fx[Latest].kind = "write" /\ fx[Latest].rev <= rev
         /\ rev <= Larger(fx[Latest].rev + 1, confirmed.rev)
    ELSE confirmed.rev <= rev + 1 /\ rev <= confirmed.rev + Slack

LEMMA ClimbsOn ==
    ASSUME RecoveryInv, Climbs, Stays,
           Latest' = Latest \/ (Latest' = Latest + 1 /\ Fits(fx'[Latest + 1].rev))
    PROVE  Climbs'
<1>1. /\ Latest \in Nat /\ Latest > 0 /\ confirmed' = confirmed /\ Slack' = Slack /\ StreamTypes
      /\ \A u \in 1 .. Latest : fx'[u] = fx[u]
  BY RevType DEF Stays, Slack, IsUser
<1>2. ASSUME NEW u \in 1 .. Latest
      PROVE  Live(u)' = Live(u) /\ AtHead(u)' = AtHead(u)
  <2>1. fx'[u] = fx[u] /\ \A p \in 1 .. u - 1 : fx'[p] = fx[p]
    BY <1>1
  <2> QED
    BY <2>1 DEF Live, AtHead
<1>3. PICK m \in Nat : m = Latest'
  BY <1>1
<1>4. ASSUME NEW u \in 1 .. m, Live(u)', AtHead(u)'
      PROVE  confirmed.rev <= fx'[u].rev + 1 /\ fx'[u].rev <= confirmed.rev + Slack
  <2>1. CASE u \in 1 .. Latest
    BY <1>1, <1>2, <1>4, <2>1 DEF Climbs
  <2>2. CASE u \notin 1 .. Latest
    <3>1. u = Latest + 1 /\ Fits(fx'[Latest + 1].rev)
      BY <1>1, <1>3, <2>2
    <3>2. Latest \in 1 .. u - 1 /\ Latest \in 1 .. Latest
      BY <1>1, <3>1
    <3>3. fx'[Latest].status \in Settled
      BY <1>4, <3>2 DEF AtHead
    <3>4. fx[Latest].status \in Settled
      BY <1>1, <3>2, <3>3
    <3>5. ~Live(Latest)
      BY <3>4 DEF Live, InFlight, Settled
    <3> QED
      BY <3>1, <3>5 DEF Fits
  <2> QED
    BY <2>1, <2>2
<1>5. ASSUME NEW u \in 2 .. m, Live(u - 1)', Live(u)'
      PROVE  /\ fx'[u - 1].kind = "write" /\ fx'[u - 1].rev <= fx'[u].rev
             /\ fx'[u].rev <= Larger(fx'[u - 1].rev + 1, confirmed.rev)
  <2>1. CASE u \in 1 .. Latest
    <3>1. u \in 2 .. Latest /\ u - 1 \in 1 .. Latest
      BY <1>1, <2>1
    <3>2. Live(u - 1) /\ Live(u)
      BY <1>2, <1>5, <2>1, <3>1
    <3>3. fx'[u] = fx[u] /\ fx'[u - 1] = fx[u - 1]
      BY <1>1, <2>1, <3>1
    <3> QED
      BY <3>1, <3>2, <3>3 DEF Climbs
  <2>2. CASE u \notin 1 .. Latest
    <3>1. u = Latest + 1 /\ Fits(fx'[Latest + 1].rev) /\ u - 1 = Latest /\ Latest \in 1 .. Latest
      BY <1>1, <1>3, <2>2
    <3>2. Live(Latest) /\ fx'[Latest] = fx[Latest]
      BY <1>1, <1>2, <1>5, <3>1
    <3> QED
      BY <3>1, <3>2 DEF Fits
  <2> QED
    BY <2>1, <2>2
<1> QED
  BY <1>1, <1>3, <1>4, <1>5 DEF Climbs

LEMMA CandidateStaysNear ==
    ASSUME RecoveryInv, CandidateIsNear, Stays, Latest' \in Nat, Latest <= Latest',
           \A u \in 1 .. Latest' : u > Latest => fx'[u].status = "pending",
           ~HasCandidate' \/ candidate'.rev \in {candidate.rev, confirmed.rev + 1}
    PROVE  CandidateIsNear'
<1>1. /\ Latest \in Nat /\ confirmed' = confirmed /\ confirmed.rev \in Nat
      /\ \A u \in 1 .. Latest : fx'[u] = fx[u]
  BY RevType DEF Stays
<1>2. ASSUME NEW u \in 1 .. Latest', fx'[u].status = "delivery_uncertain"
      PROVE  u \in 1 .. Latest /\ fx[u].status = "delivery_uncertain"
  <2>1. u \in 1 .. Latest
    BY <1>1, <1>2
  <2> QED
    BY <1>1, <1>2, <2>1
<1>3. CASE ~HasCandidate'
  BY <1>3 DEF CandidateIsNear
<1>4. CASE candidate'.rev = confirmed.rev + 1
  BY <1>1, <1>4 DEF CandidateIsNear
<1>5. CASE candidate'.rev = candidate.rev
  <2>1. HasCandidate' = HasCandidate
    BY <1>5 DEF HasCandidate
  <2> QED
    BY <1>1, <1>2, <1>5, <2>1 DEF CandidateIsNear
<1> QED
  BY <1>3, <1>4, <1>5

\* What the system's win leaves in order lands behind an applied effect.
LEMMA OverrulesFits ==
    ASSUME RecoveryInv, RevisionInv, Moves, Grows, Unbroken', ~Deferred, HasCandidate,
           UNCHANGED <<confirmed, refused, projection>>, candidate' = NoCandidate, NEW v, NEW n, Overrules(fx', fx, v, n)
    PROVE  refused' = {} /\ Climbs' /\ CandidateIsNear' /\ Latest' = Latest + 1
<1>1. /\ Unbroken /\ \A u \in 1 .. Latest : fx[u].status # "superseded" /\ fx'[u].status # "superseded"
  BY UnbrokenBefore
<1>2. refused = {} /\ Climbs /\ CandidateIsNear
  BY <1>1 DEF RevisionInv
<1>3. /\ Latest \in Nat /\ Latest > 0 /\ Latest = Len(fx) /\ StreamTypes /\ confirmed.rev \in Nat /\ candidate.rev \in Nat
      /\ Slack = 1
  BY RevType DEF RecoveryInv, RecoveryTypeOK, RecordTypes
<1>4. /\ Len(fx') = Latest + 1 /\ Latest' = Len(fx')
      /\ \A u \in 1 .. Latest : Outlives(fx'[u], fx[u])
      /\ fx[Latest].status \in {"pending", "blocked_candidate", "conflict", "failed"} =>
             fx'[Latest].status = "superseded"
      /\ fx'[Latest + 1] = NewEffect("write", FALSE, v, candidate.hash, candidate.rev, n)
  BY <1>3 DEF Overrules, Latest
<1>5. Latest \in 1 .. Latest /\ fx[Latest] \in Effect
  BY <1>3, EffectType
<1>6. fx[Latest].status = "applied"
  <2>1. fx[Latest].status # "delivery_uncertain"
    BY <1>5 DEF Deferred
  <2> QED
    BY <1>1, <1>4, <1>5, <2>1 DEF Effect, InFlight, Settled
<1>7. Stays
  BY <1>1, <1>4 DEF Stays, Outlives
<1>8. fx'[Latest + 1].rev = candidate.rev
  BY <1>4 DEF NewEffect
<1>9. ~Live(Latest)
  BY <1>6 DEF Live, InFlight
<1>10. candidate.rev <= confirmed.rev + 1 /\ confirmed.rev <= candidate.rev + 1
  BY <1>2 DEF CandidateIsNear
<1>11. Fits(fx'[Latest + 1].rev)
  BY <1>3, <1>8, <1>9, <1>10 DEF Fits
<1>12. Climbs'
  BY <1>2, <1>4, <1>7, <1>11, ClimbsOn
<1>13. CandidateIsNear'
  BY DEF CandidateIsNear, HasCandidate, NoCandidate
<1> QED
  BY <1>2, <1>4, <1>12, <1>13

\* A plan for a position that is taken, or of a scan that ended, binds nobody.
LEMMA PlanOverlooked ==
    ASSUME RecoveryInv, UNCHANGED scan, Latest' = Latest + 1
    PROVE  PlanClimbs'
<1>1. scan.at = "planned" => scan.plan.position <= Latest + 1
  BY DEF RecoveryInv, StreamInv, PlanSane
<1>2. Latest \in Nat /\ scan.plan.position \in Nat
  BY RevType DEF RecoveryInv, RecoveryTypeOK, ScanTypes, ScanRecord, Plan
<1>3. PICK m \in Nat : m = Latest'
  BY <1>2
<1> QED
  BY <1>1, <1>2, <1>3 DEF PlanClimbs

\* The baseline of a flush fits the stream, unless it creates the row again.
LEMMA FlushFits ==
    ASSUME RecoveryInv, Climbs, MayEnqueue, ~FlushBaseline.create
    PROVE  Fits(FlushBaseline.rev)
<1>1. /\ Latest \in Nat /\ Latest > 0 /\ Latest \in 1 .. Latest /\ confirmed.rev \in Nat /\ confirmed.rev > 0
      /\ Slack \in Nat /\ StreamTypes /\ FlushAllowed /\ fx[Latest].rev \in Nat
  BY RevType DEF MayEnqueue
<1>2. ~(IsUser /\ fx[Latest].kind = "delete")
  BY <1>1 DEF FlushBaseline, CreateBaseline
<1>3. fx[Latest].status \in {"pending", "applied"}
  BY <1>1, <1>2 DEF FlushAllowed
<1>4. CASE fx[Latest].status = "pending"
  <2>1. FlushBaseline.rev = Larger(fx[Latest].rev + 1, confirmed.rev)
    BY <1>1, <1>2, <1>4 DEF FlushBaseline, FollowerBaseline
  <2>2. fx[Latest].kind = "write"
    <3>1. ~IsUser => fx[Latest].kind = "write"
      BY <1>1 DEF RecoveryInv, StreamInv, PlanWrites
    <3>2. fx[Latest].kind \in {"write", "delete"}
      BY <1>1, EffectType DEF Effect
    <3> QED
      BY <1>2, <3>1, <3>2
  <2>3. Live(Latest)
    BY <1>4 DEF Live, InFlight
  <2>4. Larger(fx[Latest].rev + 1, confirmed.rev) \in Nat /\ fx[Latest].rev <= Larger(fx[Latest].rev + 1, confirmed.rev)
    BY <1>1 DEF Larger
  <2> QED
    BY <2>1, <2>2, <2>3, <2>4 DEF Fits
<1>5. CASE fx[Latest].status = "applied"
  <2>1. FlushBaseline.rev = confirmed.rev
    BY <1>1, <1>2, <1>5 DEF FlushBaseline, ConfirmedBaseline
  <2>2. ~Live(Latest)
    BY <1>5 DEF Live, InFlight
  <2> QED
    BY <1>1, <2>1, <2>2 DEF Fits
<1> QED
  BY <1>3, <1>4, <1>5

LEMMA RevisionFlush ==
    ASSUME RecoveryInv, RevisionInv, Moves, Grows, Unbroken', FlushShape
    PROVE  refused' = {} /\ Climbs' /\ CandidateIsNear' /\ PlanClimbs'
<1>1. /\ Unbroken /\ \A u \in 1 .. Latest : fx'[u].status # "superseded"
      /\ \A u \in 1 .. Latest' : u > Latest => ~fx'[u].create /\ fx'[u].status # "superseded"
  BY UnbrokenBefore
<1>2. refused = {} /\ Climbs /\ CandidateIsNear /\ PlanClimbs
  BY <1>1 DEF RevisionInv
<1>3. /\ Latest \in Nat /\ Latest = Len(fx) /\ Latest' = Len(fx') /\ StreamTypes /\ fx \in Seq(Effect)
      /\ Latest > 0 /\ UNCHANGED <<confirmed, refused, projection, scan>>
  BY RevType DEF FlushShape, Latest, StreamTypes
<1>4. CASE FlushSuppressed
  <2>1. fx' = fx /\ SameCandidate /\ Latest' = Latest
    BY <1>3, <1>4 DEF FlushSuppressed
  <2>2. Stays
    BY <1>3, <2>1 DEF Stays
  <2>3. Climbs'
    BY <1>2, <2>1, <2>2, ClimbsOn
  <2>4. \A u \in 1 .. Latest' : u > Latest => fx'[u].status = "pending"
    BY <1>3, <2>1
  <2>5. CandidateIsNear'
    BY <1>2, <1>3, <2>1, <2>2, <2>4, CandidateStaysNear DEF SameCandidate
  <2>6. PlanClimbs'
    BY <1>2, <1>3, <2>1 DEF PlanClimbs, IsUser
  <2> QED
    BY <1>2, <1>3, <2>3, <2>5, <2>6
<1>5. CASE \E kind \in {"write", "delete"}, v \in Rows : Extends(fx', fx, Flushed(kind, v)) /\ MayEnqueue /\ SameCandidate
  <2>1. PICK kind \in {"write", "delete"}, v \in Rows :
            Extends(fx', fx, Flushed(kind, v)) /\ MayEnqueue /\ SameCandidate
    BY <1>5
  <2>2. /\ Flushed(kind, v).create = FlushBaseline.create /\ Flushed(kind, v).rev = FlushBaseline.rev
        /\ Flushed(kind, v).status = "pending"
    BY FlushedType DEF RecoveryInv, RecoveryTypeOK
  <2>3. /\ Latest' = Latest + 1 /\ fx'[Latest + 1] = Flushed(kind, v)
        /\ \A u \in 1 .. Latest : fx'[u] = fx[u]
    BY <1>3, <2>1 DEF Extends
  <2>4. Latest + 1 \in 1 .. Latest' /\ Latest + 1 > Latest
    BY <1>3, <2>3
  <2>5. ~FlushBaseline.create
    BY <1>1, <2>2, <2>3, <2>4
  <2>6. Fits(fx'[Latest + 1].rev)
    BY <1>2, <2>1, <2>2, <2>3, <2>5, FlushFits
  <2>7. Stays
    BY <1>3, <2>3 DEF Stays
  <2>8. Climbs'
    BY <1>2, <2>3, <2>6, <2>7, ClimbsOn
  <2>9. \A u \in 1 .. Latest' : u > Latest => u = Latest + 1
    BY <1>3, <2>3
  <2>10. \A u \in 1 .. Latest' : u > Latest => fx'[u].status = "pending"
    BY <2>2, <2>3, <2>9
  <2>11. Latest' \in Nat /\ Latest <= Latest'
    BY <1>3, <2>3
  <2>12. CandidateIsNear'
    BY <1>2, <2>1, <2>7, <2>10, <2>11, CandidateStaysNear DEF SameCandidate
  <2> QED
    BY <1>2, <1>3, <2>3, <2>8, <2>12, PlanOverlooked
<1>6. CASE FlushWrites
  <2>1. canon' \in Rows
    BY DEF FlushShape
  <2> QED
    BY <1>5, <1>6, <2>1 DEF FlushWrites
<1>7. CASE FlushDeletes
  <2>1. canon \in Rows
    BY DEF RecoveryInv, RecoveryTypeOK, CanonTypes
  <2> QED
    BY <1>5, <1>7, <2>1 DEF FlushDeletes
<1>8. CASE FlushOverrules
  <2>1. Overrules(fx', fx, canon', revision + 1) /\ ~Deferred /\ HasCandidate /\ candidate' = NoCandidate
    BY <1>8 DEF FlushOverrules
  <2>2. refused' = {} /\ Climbs' /\ CandidateIsNear' /\ Latest' = Latest + 1
    BY <1>3, <2>1, OverrulesFits
  <2> QED
    BY <1>3, <2>2, PlanOverlooked
<1>9. CASE FlushRevives
  <2>1. PICK q : Extends(q, fx, Flushed("write", canon')) /\ Overrules(fx', q, canon', revision + 1)
    BY <1>9 DEF FlushRevives
  <2>2. canon' \in Rows
    BY DEF FlushShape
  <2>3. Flushed("write", canon').status = "pending"
    BY <2>2, FlushedType DEF RecoveryInv, RecoveryTypeOK
  <2>4. Len(q) = Latest + 1 /\ q[Latest + 1].status = "pending"
    BY <1>3, <2>1, <2>3 DEF Extends
  <2>5. Len(fx') = Latest + 2 /\ fx'[Latest + 1].status = "superseded"
    BY <1>3, <2>1, <2>4 DEF Overrules
  <2>6. Latest + 1 \in 1 .. Latest' /\ Latest + 1 > Latest
    BY <1>3, <2>5
  <2> QED
    BY <1>1, <2>5, <2>6
<1> QED
  BY <1>4, <1>6, <1>7, <1>8, <1>9 DEF FlushShape

LEMMA RevisionRetry ==
    ASSUME RecoveryInv, RevisionInv, Moves, Grows, Unbroken', RetryShape
    PROVE  refused' = {} /\ Climbs' /\ CandidateIsNear' /\ PlanClimbs'
<1>1. /\ HasCandidate /\ ~Deferred /\ candidate' = NoCandidate
      /\ UNCHANGED <<confirmed, refused, projection>> /\ UNCHANGED scan
  BY DEF RetryShape
<1>2. PICK v, n : Overrules(fx', fx, v, n)
  BY DEF RetryShape
<1>3. refused' = {} /\ Climbs' /\ CandidateIsNear' /\ Latest' = Latest + 1
  BY <1>1, <1>2, OverrulesFits
<1> QED
  BY <1>1, <1>3, PlanOverlooked

-----------------------------------------------------------------------------
(* The revisions of a scan                                                 *)

\* Of an unbroken stream what is not waiting is applied, if anything follows.
LEMMA OpenOrApplied ==
    ASSUME RecoveryInv, Unbroken, ~Terminal(Latest)
    PROVE  Live(Latest) \/ fx[Latest].status = "applied"
<1>1. Latest \in 1 .. Latest /\ StreamTypes /\ fx[1].status = "applied"
  BY RevType DEF StreamTypes
<1>2. fx[Latest].status # "superseded"
  BY <1>1, RevType DEF Unbroken
<1> QED
  BY <1>1, <1>2, StatusMeans DEF Terminal, Settled

LEMMA CleanupClimbs ==
    ASSUME RecoveryInv, Unbroken, IsUser, ~NothingToPlan, CleanupSupersedes = 0
    PROVE  fx[Latest].status = "applied" /\ CleanupRevision = confirmed.rev
<1>1. ~CleanupDefers /\ Latest > 0 /\ confirmed.rev \in Nat /\ confirmed.rev > 0
  BY RevType DEF NothingToPlan
<1>2. ~Live(Latest)
  BY <1>1 DEF CleanupDefers, Live
<1>3. ~Terminal(Latest)
  BY <1>1 DEF CleanupSupersedes
<1>4. fx[Latest].status = "applied"
  BY <1>2, <1>3, OpenOrApplied
<1> QED
  BY <1>1, <1>4 DEF CleanupRevision, Larger

LEMMA CorrectionClimbs ==
    ASSUME RecoveryInv
    PROVE  \/ CorrectionBaseline.create
           \/ CorrectionBaseline.rev = IF fx[Latest].status \in InFlight
                                       THEN Larger(fx[Latest].rev + 1, confirmed.rev) ELSE confirmed.rev
  BY RevType DEF CorrectionBaseline, CreateBaseline, FollowerBaseline, VisibleBaseline

LEMMA RevisionPlan ==
    ASSUME RecoveryInv, Unbroken, PlannedScan, UNCHANGED <<fx, confirmed, projection>>
    PROVE  PlanClimbs'
<1>1. RecoveryTypeOK /\ scan.at = "classified" /\ ~NothingToPlan
  BY DEF RecoveryInv, PlannedScan
<1>2. Latest' = Latest /\ IsUser' = IsUser /\ Latest > 0
  BY RevType DEF Latest, IsUser
<1>3. CASE IsUser
  <2>1. PICK p : p = CleanupPlan
    OBVIOUS
  <2>2. scan'.plan = p
    BY <1>3, <2>1 DEF PlannedScan
  <2>3. p.over = CleanupSupersedes /\ p.effect.rev = CleanupRevision
    BY <1>1, <1>3, <2>1, CleanupPlanType
  <2>4. p.over = 0 => fx[Latest].status = "applied" /\ p.effect.rev = confirmed.rev
    BY <1>1, <1>3, <2>3, CleanupClimbs
  <2> QED
    BY <1>2, <1>3, <2>2, <2>4 DEF PlanClimbs, InFlight
<1>4. CASE ~IsUser
  <2>1. PICK p : p = CorrectionPlan
    OBVIOUS
  <2>2. scan'.plan = p
    BY <1>4, <2>1 DEF PlannedScan
  <2>3. CASE Covered
    <3>1. p.by = Latest
      BY <1>1, <2>1, <2>3, CorrectionPlanType
    <3> QED
      BY <1>2, <2>2, <3>1 DEF PlanClimbs
  <2>4. CASE ~Covered
    <3>1. p.effect.create = CorrectionBaseline.create /\ p.effect.rev = CorrectionBaseline.rev
      BY <1>1, <2>1, <2>4, CorrectionPlanType
    <3>2. \/ p.effect.create
          \/ p.effect.rev = IF fx[Latest].status \in InFlight
                            THEN Larger(fx[Latest].rev + 1, confirmed.rev) ELSE confirmed.rev
      BY <3>1, CorrectionClimbs
    <3> QED
      BY <1>2, <1>4, <2>2, <3>2 DEF PlanClimbs
  <2> QED
    BY <2>3, <2>4
<1> QED
  BY <1>3, <1>4

LEMMA RevisionEnlist ==
    ASSUME RecoveryInv, RevisionInv, Moves, Grows, Unbroken', scan.at = "planned", EnlistShape, IdleScan,
           UNCHANGED <<projection, confirmed, candidate, refused>>
    PROVE  refused' = {} /\ Climbs' /\ CandidateIsNear' /\ PlanClimbs'
<1>1. /\ Unbroken /\ \A u \in 1 .. Latest : fx'[u].status # "superseded"
      /\ \A u \in 1 .. Latest' : u > Latest => ~fx'[u].create /\ fx'[u].status # "superseded"
  BY UnbrokenBefore
<1>2. refused = {} /\ Climbs /\ CandidateIsNear /\ PlanClimbs
  BY <1>1 DEF RevisionInv
<1>3. /\ Latest \in Nat /\ Latest = Len(fx) /\ Latest' = Len(fx') /\ StreamTypes /\ Latest > 0
      /\ confirmed.rev \in Nat /\ Slack \in Nat /\ (~IsUser => Slack = 0)
      /\ Latest \in 1 .. Latest /\ fx[Latest].rev \in Nat
  BY RevType DEF Latest
<1>4. Stays
  BY <1>1, <1>3 DEF EnlistShape, Stays
<1>5. PlanClimbs'
  BY DEF PlanClimbs, IdleScan
<1>6. CASE Latest' = Latest
  <2>1. Climbs'
    BY <1>2, <1>4, <1>6, ClimbsOn
  <2>2. \A u \in 1 .. Latest' : ~(u > Latest)
    BY <1>3, <1>6
  <2>3. CandidateIsNear'
    BY <1>2, <1>3, <1>4, <1>6, <2>2, CandidateStaysNear
  <2> QED
    BY <1>2, <1>5, <2>1, <2>3
<1>7. CASE Latest' # Latest
  <2>1. PICK p : p = scan.plan
    OBVIOUS
  <2>2. /\ Latest' = Latest + 1 /\ p.by = 0 /\ p.position = Latest + 1 /\ fx'[Latest + 1] = p.effect
        /\ p.over > 0 => fx'[p.over].status = "superseded"
    BY <1>3, <1>7, <2>1 DEF EnlistShape
  <2>3. Latest + 1 \in 1 .. Latest' /\ Latest + 1 > Latest
    BY <1>3, <2>2
  <2>4. ~p.effect.create
    BY <1>1, <2>2, <2>3
  <2>5. p.over = 0
    <3>1. p.over \in Nat /\ (p.over > 0 => p.over \in 1 .. Latest)
      BY <2>1 DEF RecoveryInv, RecoveryTypeOK, ScanTypes, ScanRecord, Plan, StreamInv, PlanSane
    <3> QED
      BY <1>1, <2>2, <3>1
  <2>6. /\ fx[Latest].status \in InFlight => ~IsUser /\ p.effect.rev = Larger(fx[Latest].rev + 1, confirmed.rev)
        /\ fx[Latest].status \notin InFlight =>
               p.effect.rev = confirmed.rev /\ (IsUser => fx[Latest].status = "applied")
    BY <1>2, <2>1, <2>2, <2>4, <2>5 DEF PlanClimbs
  <2>7. Fits(p.effect.rev)
    <3>1. CASE fx[Latest].status \in InFlight
      <4>1. Live(Latest) /\ fx[Latest].kind = "write"
        BY <1>3, <2>6, <3>1 DEF Live, RecoveryInv, StreamInv, PlanWrites
      <4>2. PICK r \in Nat : r = fx[Latest].rev
        BY <1>3
      <4>3. r <= Larger(r + 1, confirmed.rev) /\ Larger(r + 1, confirmed.rev) <= Larger(r + 1, confirmed.rev)
        BY <1>3 DEF Larger
      <4> QED
        BY <2>6, <3>1, <4>1, <4>2, <4>3 DEF Fits
    <3>2. CASE fx[Latest].status \notin InFlight /\ Live(Latest)
      <4>1. fx[Latest].status = "failed"
        BY <3>2 DEF Live
      <4>2. ~IsUser /\ p.effect.rev = confirmed.rev
        BY <2>6, <3>2, <4>1
      <4>3. fx[Latest].kind = "write"
        BY <1>3, <4>2 DEF RecoveryInv, StreamInv, PlanWrites
      <4>4. AtHead(Latest)
        BY <1>3, <4>1 DEF RecoveryInv, StreamInv, InOrder
      <4>5. PICK r \in Nat : r = fx[Latest].rev
        BY <1>3
      <4>6. r <= confirmed.rev + Slack
        BY <1>2, <1>3, <3>2, <4>4, <4>5 DEF Climbs
      <4>7. r <= confirmed.rev /\ confirmed.rev <= Larger(r + 1, confirmed.rev)
        BY <1>3, <4>2, <4>6 DEF Larger
      <4> QED
        BY <3>2, <4>2, <4>3, <4>5, <4>7 DEF Fits
    <3>3. CASE ~Live(Latest)
      <4>1. p.effect.rev = confirmed.rev
        BY <2>6, <3>3 DEF Live
      <4> QED
        BY <1>3, <3>3, <4>1 DEF Fits
    <3> QED
      BY <3>1, <3>2, <3>3
  <2>8. Climbs'
    BY <1>2, <1>4, <2>2, <2>7, ClimbsOn
  <2>9. \A u \in 1 .. Latest' : u > Latest => u = Latest + 1
    BY <1>3, <2>2
  <2>10. p.effect.status = "pending"
    BY <2>1, <2>2 DEF RecoveryInv, StreamInv, PlanWrites
  <2>11. \A u \in 1 .. Latest' : u > Latest => fx'[u].status = "pending"
    BY <2>2, <2>9, <2>10
  <2>12. CandidateIsNear'
    BY <1>2, <1>3, <1>4, <2>2, <2>11, CandidateStaysNear
  <2> QED
    BY <1>2, <1>5, <2>8, <2>12
<1> QED
  BY <1>6, <1>7

LEMMA RevisionStep ==
    ASSUME SharedLoop, RecoveryInv, UntouchedInv, RevisionInv, RecoveryInv', Moves, Grows
    PROVE  RevisionInv'
<1> SUFFICES ASSUME Unbroken' PROVE refused' = {} /\ Climbs' /\ CandidateIsNear' /\ PlanClimbs'
  BY DEF RevisionInv
<1>1. Unbroken /\ (IsUser => Untouched')
  BY UnbrokenBefore
<1>2. refused = {} /\ Climbs /\ CandidateIsNear /\ PlanClimbs
  BY <1>1 DEF RevisionInv
<1>3. CASE FlushShape
  BY <1>3, RevisionFlush
<1>4. CASE \E s \in 1 .. Latest : DeliveryShape(s)
  BY <1>4, RevisionDelivery
<1>5. CASE RetryShape
  BY <1>5, RevisionRetry
<1>6. ASSUME UNCHANGED <<fx, confirmed, refused, projection>>,
             ~HasCandidate' \/ candidate'.rev \in {candidate.rev, confirmed.rev + 1}
      PROVE  refused' = {} /\ Climbs' /\ CandidateIsNear'
  <2>1. Latest' = Latest /\ Latest \in Nat /\ Latest' \in Nat /\ Latest <= Latest'
    BY <1>6, RevType DEF Latest
  <2>2. Stays
    BY <1>6 DEF Stays
  <2>3. Climbs'
    BY <1>2, <2>1, <2>2, ClimbsOn
  <2>4. \A u \in 1 .. Latest' : ~(u > Latest)
    BY <2>1
  <2>5. CandidateIsNear'
    BY <1>2, <1>6, <2>1, <2>2, <2>4, CandidateStaysNear
  <2> QED
    BY <1>2, <1>6, <2>3, <2>5
<1>7. ASSUME UNCHANGED <<fx, confirmed, scan, projection>> PROVE PlanClimbs'
  BY <1>2, <1>7 DEF PlanClimbs, Latest, IsUser
<1>8. CASE ScanMove
  <2>1. UNCHANGED <<projection, confirmed, candidate, refused>>
    BY <1>8 DEF ScanMove
  <2>2. CASE scan.at = "planned" /\ EnlistShape /\ IdleScan
    BY <2>1, <2>2, RevisionEnlist
  <2>3. CASE fx' = fx /\ (IdleScan \/ ObservedScan \/ ReadScan)
    <3>1. PlanClimbs'
      BY <2>3 DEF PlanClimbs, IdleScan, ObservedScan, ReadScan
    <3> QED
      BY <1>6, <2>1, <2>3, <3>1
  <2>4. CASE fx' = fx /\ PlannedScan
    <3>1. PlanClimbs'
      BY <1>1, <2>1, <2>4, RevisionPlan
    <3> QED
      BY <1>6, <2>1, <2>4, <3>1
  <2> QED
    BY <1>8, <2>2, <2>3, <2>4 DEF ScanMove
<1>9. CASE PollMove
  <2>1. UNCHANGED <<fx, confirmed, refused, projection, candidate, scan>>
    BY <1>9 DEF PollMove, PollKeeps
  <2> QED
    BY <1>6, <1>7, <2>1
<1>10. CASE PersistMove
  <2>1. IsUser /\ UNCHANGED <<fx, refused, projection, scan>>
    BY <1>10 DEF PersistMove, PollKeeps
  <2>2. ~Accepted
    BY <1>1, <1>10, <2>1, NothingAccepted
  <2>3. UNCHANGED confirmed /\ (candidate' = candidate \/ candidate'.rev = confirmed.rev + 1)
    BY <1>10, <2>2 DEF PersistMove, Disputed, DropEdit
  <2> QED
    BY <1>6, <1>7, <2>1, <2>3
<1>11. CASE Restart
  <2>1. UNCHANGED <<fx, confirmed, refused, projection, candidate>> /\ scan' = Idle
    BY <1>11 DEF Restart, durable
  <2>2. PlanClimbs'
    BY <2>1, IdleType DEF PlanClimbs
  <2> QED
    BY <1>6, <2>1, <2>2
<1>12. CASE HumanEdit
  <2>1. UNCHANGED <<fx, confirmed, refused, projection, candidate, scan>>
    BY <1>12 DEF HumanEdit, durable
  <2> QED
    BY <1>6, <1>7, <2>1
<1> QED
  BY <1>3, <1>4, <1>5, <1>8, <1>9, <1>10, <1>11, <1>12 DEF Moves

LEMMA InitRevision ==
    ASSUME Init
    PROVE  RevisionInv
<1>1. refused = {} /\ candidate.rev = 0 /\ scan.at = "idle"
  BY IdleType DEF Init, NoCandidate
<1>2. Latest = 1 /\ fx[1].status = "applied"
  BY DEF Init, Latest, NewEffect
<1>3. ~Live(1) /\ \A s \in 2 .. Latest : FALSE
  BY <1>2 DEF Live, InFlight
<1>4. Climbs
  BY <1>2, <1>3 DEF Climbs
<1> QED
  BY <1>1, <1>4 DEF RevisionInv, CandidateIsNear, HasCandidate, PlanClimbs

LEMMA RevisionStutter ==
    ASSUME RevisionInv, UNCHANGED vars
    PROVE  RevisionInv'
  BY DEF vars, RevisionInv, Unbroken, Climbs, CandidateIsNear, PlanClimbs, Live, AtHead, Latest, IsUser, Slack,
         HasCandidate

LEMMA RevisionMeans ==
    ASSUME RevisionInv
    PROVE  RevisionsChain
  BY DEF RevisionInv, Unbroken, RevisionsChain

\* writeProjectionConfirmationWithSql refuses no confirmation of a stream
\* that nothing created again and of which nothing was given up, whatever
\* flushes, scans and resolutions planned its effects from.
THEOREM RevisionsAreNeverRefused ==
    ASSUME SharedLoop
    PROVE  Spec => []RevisionsChain
<1>1. Init => RecoveryInv /\ UntouchedInv /\ RevisionInv
  BY InitTypes, InitUntouched, InitRevision DEF RecoveryInv
<1>2. RecoveryInv /\ UntouchedInv /\ RevisionInv /\ [Next]_vars => (RecoveryInv /\ UntouchedInv /\ RevisionInv)'
  <2>1. ASSUME RecoveryInv, UntouchedInv, RevisionInv, Next
        PROVE  RecoveryInv' /\ UntouchedInv' /\ RevisionInv'
    <3>1. RecoveryInv' /\ Moves /\ Grows
      BY <2>1, InvStep
    <3> QED
      BY <2>1, <3>1, UntouchedStep, RevisionStep
  <2>2. ASSUME RecoveryInv, UntouchedInv, RevisionInv, UNCHANGED vars
        PROVE  RecoveryInv' /\ UntouchedInv' /\ RevisionInv'
    BY <2>2, InvStutter, UntouchedStutter, RevisionStutter
  <2> QED
    BY <2>1, <2>2
<1>3. RecoveryInv /\ UntouchedInv /\ RevisionInv => RevisionsChain
  BY RevisionMeans
<1> QED
  BY <1>1, <1>2, <1>3, PTL DEF Spec
=============================================================================
