-------------------------- MODULE UserInput_proofs --------------------------
(***************************************************************************)
(* For any fields, values and bounds: the state of the row keeps its       *)
(* types, the conflict of an active candidate knows the canonical field it *)
(* is up against, the newest of what the row is going to show is the row   *)
(* as it is, no cell goes back to an older revision, what flushes and      *)
(* resolutions overwrite is on record, and what a poll accepts is a change *)
(* of what its cell was made to show.                                      *)
(***************************************************************************)
EXTENDS UserInput, FiniteSetTheorems, SequenceTheorems, TLAPS

Confirmation == [row : Rows, rev : Nat, entity : Nat]

PollRecord == [at : {"read", "observed"}, value : Rows, rev : Revisions, entity : Nat,
               confirmed : Confirmation, row : Rows, active : SUBSET Fields]

\* What a poll knows, and commands for conflicts that are there.
PollTypeOK == poll = NoPoll \/ poll \in PollRecord

CommandsKnown == \A p \in pending : p.conflict \in 1 .. Len(conflicts)

\* A poll knows canonical state as it was; as long as the entity has not moved,
\* as it is.  Nobody but the poll opens conflicts.
PollIsPast ==
    poll # NoPoll =>
        /\ poll.entity <= entity
        /\ poll.entity = entity => poll.value = value /\ poll.rev = rev
        /\ \A f \in Fields : pointer[f] # 0 => f \in poll.active

\* The parts of UserInputTypeOK: the row, its stream, its conflicts.
RowTypes ==
    /\ value \in Rows /\ rev \in Revisions /\ entity \in Nat /\ entity # 0
    /\ confirmed \in Confirmation /\ sheet \in Rows /\ ledger \subseteq Rows
    /\ shown \in Revisions /\ written \subseteq Rows
    /\ typed \in BOOLEAN /\ overtaken \in BOOLEAN

\* Behind the first effect nothing was delivered, and a rewrite of the cleanup
\* scan is the first one.
Waiting(e) == e.status = "pending" /\ ~e.landed /\ e.entity # 0

StreamTypes ==
    stream \in Seq(Effect) /\ \A i \in 2 .. Len(stream) : Waiting(stream[i])

DisputeTypes ==
    /\ conflicts \in Seq(Conflict) /\ Len(conflicts) <= MaxConflicts
    /\ pending \subseteq Command
    /\ pointer \in [Fields -> 0 .. Len(conflicts)]
    /\ \A f \in Fields : pointer[f] # 0 =>
           conflicts[pointer[f]].field = f /\ Unresolved(pointer[f])

UInv ==
    /\ RowTypes /\ StreamTypes /\ DisputeTypes /\ PollTypeOK
    /\ CommandsKnown /\ PollIsPast /\ ConflictTracksCanonical

-----------------------------------------------------------------------------
(* What steps do to the stream                                             *)

\* All of an effect but how far its delivery is.
Same(d, e) ==
    d.row = e.row /\ d.guard = e.guard /\ d.rev = e.rev /\ d.entity = e.entity /\ d.shows = e.shows

\* The first effect moves on.
Settled ==
    /\ Len(stream') = Len(stream) /\ stream'[1] \in Effect /\ Same(stream'[1], First)
    /\ \A i \in 2 .. Len(stream) : stream'[i] = stream[i]

\* The first effect is done with.
Dropped ==
    /\ Len(stream') = Len(stream) - 1
    /\ \A i \in 1 .. Len(stream') : stream'[i] = stream[i + 1]

IsNew(e, row, ent, shows) ==
    /\ e \in Effect /\ e.status = "pending" /\ ~e.landed
    /\ e.row = row /\ e.entity = ent /\ e.shows = shows

\* A new effect is the latest, the effects that stay keep their places before it.
Added(row, ent, shows) ==
    /\ Len(stream') \in Nat \ {0}
    /\ IsNew(stream'[Len(stream')], row, ent, shows)
    /\ \A i \in 1 .. Len(stream') - 1 : i \in 1 .. Len(stream) /\ stream'[i] = stream[i]

\* Those that a resolution leaves are stuck.
OthersAreStuck == \A i \in 1 .. Len(stream') - 1 : ~Unfinished(stream'[i])

LEMMA SettleSettles ==
    ASSUME StreamTypes, stream # <<>>,
           NEW s \in {"pending", "claimed", "planned", "matched", "uncertain", "stuck"},
           NEW b \in BOOLEAN, Settle(s, b)
    PROVE  /\ Settled /\ stream' \in Seq(Effect)
           /\ stream'[1].status = s /\ stream'[1].landed = b
<1> DEFINE e == [stream[1] EXCEPT !.status = s, !.landed = b]
<1>1. stream \in Seq(Effect) /\ 1 \in 1 .. Len(stream) /\ stream[1] \in Effect
  BY DEF StreamTypes
<1>2. e \in Effect /\ Same(e, stream[1]) /\ e.status = s /\ e.landed = b
  BY <1>1 DEF Effect, Same
<1>3. stream' = [stream EXCEPT ![1] = e]
  BY <1>1 DEF Settle
<1> HIDE DEF e
<1>4. /\ stream' \in Seq(Effect) /\ Len(stream') = Len(stream) /\ stream'[1] = e
      /\ \A i \in 2 .. Len(stream) : stream'[i] = stream[i]
  BY <1>1, <1>2, <1>3
<1> QED
  BY <1>2, <1>4 DEF Settled, First

LEMMA TailDrops ==
    ASSUME StreamTypes, stream # <<>>, stream' = Tail(stream)
    PROVE  Dropped /\ stream' \in Seq(Effect)
  BY DEF StreamTypes, Dropped

LEMMA AppendAdds ==
    ASSUME StreamTypes, NEW e, NEW row, NEW ent, NEW shows, IsNew(e, row, ent, shows),
           stream' = Append(stream, e)
    PROVE  /\ Added(row, ent, shows) /\ stream' \in Seq(Effect)
           /\ Len(stream') = Len(stream) + 1 /\ stream'[Len(stream')] = e
<1>1. stream \in Seq(Effect) /\ e \in Effect /\ Len(stream) \in Nat
  BY DEF StreamTypes, IsNew
<1>2. /\ stream' \in Seq(Effect) /\ Len(stream') = Len(stream) + 1 /\ stream'[Len(stream) + 1] = e
      /\ \A i \in 1 .. Len(stream) : stream'[i] = stream[i]
  BY <1>1
<1> QED
  BY <1>1, <1>2 DEF Added

LEMMA KeptAdds ==
    ASSUME StreamTypes, NEW e, NEW row, NEW ent, NEW shows, IsNew(e, row, ent, shows),
           stream' = Append(Kept, e)
    PROVE  /\ Added(row, ent, shows) /\ stream' \in Seq(Effect) /\ OthersAreStuck
           /\ stream'[Len(stream')] = e
<1>1. stream \in Seq(Effect) /\ e \in Effect /\ Len(stream) \in Nat
  BY DEF StreamTypes, IsNew
<1>2. CASE Len(stream) > 1 /\ ~Unfinished(First)
  <2>1. First \in Effect /\ First = stream[1] /\ Kept = <<First>>
    BY <1>1, <1>2 DEF Kept, First
  <2>2. stream' = Append(<<First>>, e)
    BY <2>1
  <2> HIDE DEF First
  <2>3. stream' \in Seq(Effect) /\ Len(stream') = 2 /\ stream'[1] = First /\ stream'[2] = e
    BY <1>1, <2>1, <2>2
  <2> QED
    BY <1>2, <2>1, <2>3 DEF Added, OthersAreStuck
<1>3. CASE ~(Len(stream) > 1 /\ ~Unfinished(First))
  <2>1. Kept = <<>>
    BY <1>3 DEF Kept
  <2>2. stream' = Append(<<>>, e)
    BY <2>1
  <2>3. stream' \in Seq(Effect) /\ Len(stream') = 1 /\ stream'[1] = e
    BY <1>1, <2>2
  <2> QED
    BY <2>3 DEF Added, OthersAreStuck
<1> QED
  BY <1>2, <1>3

LEMMA OneAdds ==
    ASSUME NEW e, NEW row, NEW ent, NEW shows, IsNew(e, row, ent, shows), stream' = <<e>>
    PROVE  Added(row, ent, shows) /\ stream' \in Seq(Effect) /\ Len(stream') = 1 /\ stream'[1] = e
  BY DEF Added, IsNew

\* The types of the stream after each.
LEMMA SettledTypes ==
    ASSUME StreamTypes, Settled, stream' \in Seq(Effect) PROVE StreamTypes'
  BY DEF StreamTypes, Settled, Waiting

LEMMA DroppedTypes ==
    ASSUME StreamTypes, Dropped, stream' \in Seq(Effect) PROVE StreamTypes'
<1>1. ASSUME NEW i \in 2 .. Len(stream') PROVE Waiting(stream'[i])
  <2>1. Len(stream) \in Nat /\ i \in 1 .. Len(stream') /\ i + 1 \in 2 .. Len(stream)
    BY DEF StreamTypes, Dropped
  <2> QED
    BY <2>1 DEF StreamTypes, Dropped
<1> QED
  BY <1>1 DEF StreamTypes, Waiting

LEMMA AddedTypes ==
    ASSUME StreamTypes, NEW row, NEW ent, NEW shows, Added(row, ent, shows),
           ent # 0 \/ Len(stream') = 1, stream' \in Seq(Effect)
    PROVE  StreamTypes'
<1>1. ASSUME NEW i \in 2 .. Len(stream') PROVE Waiting(stream'[i])
  <2>1. CASE i = Len(stream')
    BY <2>1 DEF Added, IsNew, Waiting
  <2>2. CASE i # Len(stream')
    <3>1. i \in 1 .. Len(stream') - 1 /\ Len(stream) \in Nat
      BY <2>2 DEF StreamTypes, Added
    <3>2. i \in 2 .. Len(stream) /\ stream'[i] = stream[i]
      BY <3>1 DEF Added
    <3> QED
      BY <3>2 DEF StreamTypes
  <2> QED
    BY <2>1, <2>2
<1> QED
  BY <1>1 DEF StreamTypes, Waiting

LEMMA NewEffectIsNew ==
    ASSUME NEW row \in Rows, NEW guard \in Rows, NEW r \in Nat, NEW e \in Nat, NEW s \in Revisions
    PROVE  LET d == NewEffect(row, guard, r, e, s)
           IN  IsNew(d, row, e, s) /\ d.guard = guard
  BY DEF Effect, NewEffect, IsNew

-----------------------------------------------------------------------------
(* Records                                                                 *)

\* A conflict is rebased on a newer canonical field.
Rebase(q, c, v, r) == [q EXCEPT ![c].cur = v, ![c].rev = r, ![c].status = "NEEDS_REBASE"]

\* q differs from p in the conflict c at most, and not in its field or evidence.
ChangesOnly(q, p, c) ==
    /\ q \in Seq(Conflict) /\ Len(q) = Len(p)
    /\ q[c].field = p[c].field /\ q[c].row = p[c].row
    /\ \A d \in 1 .. Len(p) : d # c => q[d] = p[d]

LEMMA RebasedType ==
    ASSUME NEW q \in Seq(Conflict), NEW c \in 1 .. Len(q), NEW v \in Values, NEW r \in Nat
    PROVE  /\ ChangesOnly(Rebase(q, c, v, r), q, c)
           /\ Rebase(q, c, v, r)[c].cur = v /\ Rebase(q, c, v, r)[c].rev = r
           /\ Rebase(q, c, v, r)[c].status = "NEEDS_REBASE"
<1> DEFINE x == [q[c] EXCEPT !.cur = v, !.rev = r, !.status = "NEEDS_REBASE"]
           n == Rebase(q, c, v, r)
<1>1. q[c] \in Conflict
  OBVIOUS
<1>2. /\ x \in Conflict /\ x.field = q[c].field /\ x.row = q[c].row
      /\ x.cur = v /\ x.rev = r /\ x.status = "NEEDS_REBASE"
  BY <1>1 DEF Conflict
<1>3. n = [q EXCEPT ![c] = x]
  BY DEF Rebase
<1> HIDE DEF x, n
<1>4. n \in Seq(Conflict) /\ Len(n) = Len(q) /\ n[c] = x /\ \A d \in 1 .. Len(q) : d # c => n[d] = q[d]
  BY <1>2, <1>3
<1>5. ChangesOnly(n, q, c) /\ n[c].cur = v /\ n[c].rev = r /\ n[c].status = "NEEDS_REBASE"
  BY <1>2, <1>4 DEF ChangesOnly
<1> QED
  BY <1>5 DEF n

LEMMA ResolvedType ==
    ASSUME NEW q \in Seq(Conflict), NEW c \in 1 .. Len(q)
    PROVE  ChangesOnly([q EXCEPT ![c].status = "RESOLVED"], q, c)
<1> DEFINE x == [q[c] EXCEPT !.status = "RESOLVED"]
           n == [q EXCEPT ![c].status = "RESOLVED"]
<1>1. q[c] \in Conflict
  OBVIOUS
<1>2. x \in Conflict /\ x.field = q[c].field /\ x.row = q[c].row
  BY <1>1 DEF Conflict
<1>3. n = [q EXCEPT ![c] = x]
  OBVIOUS
<1> HIDE DEF x
<1> QED
  BY <1>2, <1>3 DEF ChangesOnly

LEMMA TypesInParts == RowTypes /\ StreamTypes /\ DisputeTypes => UserInputTypeOK
  BY DEF UserInputTypeOK, RowTypes, StreamTypes, DisputeTypes, Confirmation, Waiting

-----------------------------------------------------------------------------
(* Resolution                                                              *)

\* The latest effect overwrites the evidence of a candidate.
OverEvidence == \E d \in 1 .. Len(conflicts) : stream'[Len(stream')].guard = conflicts[d].row

\* The conflict c is resolved with an effect for the row.
ResolvedWith(c, row, revs, ent) ==
    /\ DisputeTypes' /\ CommandsKnown'
    /\ Added(row, ent, revs) /\ stream' \in Seq(Effect) /\ OthersAreStuck /\ OverEvidence
    /\ \A f \in Fields : pointer'[f] # 0 =>
           /\ pointer'[f] = pointer[f] /\ f # conflicts[c].field
           /\ conflicts'[pointer[f]] = conflicts[pointer[f]]
    /\ pending' \subseteq pending
    /\ Len(conflicts') = Len(conflicts)
    /\ \A d \in 1 .. Len(conflicts) :
           conflicts'[d].field = conflicts[d].field /\ conflicts'[d].row = conflicts[d].row

\* What a resolution does to the conflicts of the row.
LEMMA ResolveResolves ==
    ASSUME UInv, NEW c \in 1 .. Len(conflicts), pointer[conflicts[c].field] = c,
           NEW q, ChangesOnly(q, conflicts, c),
           NEW row \in Rows, NEW revs \in Revisions, NEW ent \in Nat,
           Resolve(c, q, row, revs, ent)
    PROVE  ResolvedWith(c, row, revs, ent)
<1>1. /\ conflicts \in Seq(Conflict) /\ Len(conflicts) <= MaxConflicts /\ pending \subseteq Command
      /\ pointer \in [Fields -> 0 .. Len(conflicts)]
      /\ \A f \in Fields : pointer[f] # 0 =>
             conflicts[pointer[f]].field = f /\ conflicts[pointer[f]].status # "RESOLVED"
  BY DEF UInv, DisputeTypes, Unresolved
<1>2. conflicts[c].field \in Fields /\ conflicts[c].row \in Rows /\ conflicts[c].vrev \in Nat
  <2>1. conflicts[c] \in Conflict
    BY <1>1
  <2> QED
    BY <2>1 DEF Conflict
<1>3. /\ conflicts' \in Seq(Conflict) /\ Len(conflicts') = Len(conflicts)
      /\ conflicts'[c].field = conflicts[c].field /\ conflicts'[c].row = conflicts[c].row
      /\ \A d \in 1 .. Len(conflicts) : d # c => conflicts'[d] = conflicts[d]
  <2>1. q \in Seq(Conflict) /\ c \in 1 .. Len(q)
    BY DEF ChangesOnly
  <2>2. ChangesOnly(conflicts', q, c)
    BY <2>1, ResolvedType DEF Resolve
  <2> QED
    BY <2>2 DEF ChangesOnly
<1>4. /\ pointer' \in [Fields -> 0 .. Len(conflicts)]
      /\ pointer'[conflicts[c].field] = 0
      /\ \A f \in Fields : f # conflicts[c].field => pointer'[f] = pointer[f]
  BY <1>1, <1>2 DEF Resolve, Cleared
<1>5. \A f \in Fields : pointer'[f] # 0 =>
          /\ pointer'[f] = pointer[f] /\ f # conflicts[c].field /\ pointer[f] # c
          /\ pointer[f] \in 1 .. Len(conflicts)
  BY <1>1, <1>4
<1>6. pending' \subseteq pending
  BY DEF Resolve
<1>7. DisputeTypes'
  BY <1>1, <1>3, <1>4, <1>5, <1>6 DEF DisputeTypes, Unresolved
<1>8. CommandsKnown'
  BY <1>3, <1>6 DEF CommandsKnown, UInv
<1>9. Added(row, ent, revs) /\ stream' \in Seq(Effect) /\ OthersAreStuck /\ OverEvidence
  <2> DEFINE e == Reconcile(c, row, revs, ent)
  <2>1. IsNew(e, row, ent, revs) /\ e.guard = conflicts[c].row
    <3>1. IsNew(NewEffect(row, conflicts[c].row, conflicts[c].vrev, ent, revs), row, ent, revs)
      BY <1>2, NewEffectIsNew
    <3> QED
      BY <3>1, <1>2 DEF Reconcile, NewEffect, IsNew, Effect
  <2>2. stream' = Append(Kept, e) /\ StreamTypes
    BY DEF Resolve, UInv
  <2> HIDE DEF e
  <2>3. /\ Added(row, ent, revs) /\ stream' \in Seq(Effect) /\ OthersAreStuck
        /\ stream'[Len(stream')] = e
    BY <2>1, <2>2, KeptAdds
  <2> QED
    BY <2>1, <2>3 DEF OverEvidence
<1> QED
  BY <1>3, <1>5, <1>6, <1>7, <1>8, <1>9 DEF ResolvedWith


\* The conflicts keep their evidence.
SameRows ==
    /\ Len(conflicts') = Len(conflicts)
    /\ \A d \in 1 .. Len(conflicts) : conflicts'[d].row = conflicts[d].row

\* What a flush of f does to the conflicts of the row: the conflict of f is
\* resolved, or rebased on the new value with a command to come, or not
\* concerned.
LEMMA SyncTracks ==
    ASSUME UInv, NEW f \in Fields, NEW v \in Values, v # value[f], HasCandidate,
           value' = [value EXCEPT ![f] = v], rev' = [rev EXCEPT ![f] = @ + 1],
           entity' = entity + 1, overtaken' = overtaken, ConflictSync(f, v)
    PROVE  /\ stream' \in Seq(Effect) /\ DisputeTypes' /\ CommandsKnown' /\ ConflictTracksCanonical'
           /\ \A g \in Fields : pointer'[g] # 0 => pointer[g] # 0
           /\ \/ stream' = stream /\ HasCandidate'
              \/ Added(value', entity', rev') /\ OverEvidence
           /\ SameRows
<1> DEFINE c == pointer[f]
           rebased == Rebase(conflicts, c, v, rev[f] + 1)
<1>1. /\ conflicts \in Seq(Conflict) /\ Len(conflicts) <= MaxConflicts /\ pending \subseteq Command
      /\ pointer \in [Fields -> 0 .. Len(conflicts)]
      /\ \A g \in Fields : pointer[g] # 0 =>
             conflicts[pointer[g]].field = g /\ conflicts[pointer[g]].status # "RESOLVED"
      /\ value \in Rows /\ rev \in Revisions /\ entity \in Nat
  BY DEF UInv, DisputeTypes, RowTypes, Unresolved
<1>2. /\ value' \in Rows /\ rev' \in Revisions /\ entity' \in Nat /\ rev[f] + 1 \in Nat
      /\ value'[f] = v /\ rev'[f] = rev[f] + 1
      /\ \A g \in Fields : g # f => value'[g] = value[g] /\ rev'[g] = rev[g]
  BY <1>1 DEF Rows, Revisions
<1>3. ~overtaken => \A g \in Fields : pointer[g] # 0 =>
          conflicts[pointer[g]].cur = value[g] /\ conflicts[pointer[g]].rev = rev[g]
  BY DEF UInv, ConflictTracksCanonical
<1>4. CASE ~Triggers(c, f, v)
  <2>1. UNCHANGED <<conflicts, pointer, pending, stream>>
    BY <1>4 DEF ConflictSync, disputes
  <2>2. ~overtaken => c = 0
    <3> SUFFICES ASSUME ~overtaken, c # 0 PROVE FALSE
      OBVIOUS
    <3>1. conflicts[c].cur = value[f] /\ conflicts[c].rev = rev[f] /\ rev[f] \in Nat
      BY <1>1, <1>3 DEF Revisions
    <3> QED
      BY <1>4, <3>1 DEF Triggers
  <2>3. ConflictTracksCanonical'
    BY <1>2, <1>3, <2>1, <2>2 DEF ConflictTracksCanonical
  <2>4. DisputeTypes' /\ CommandsKnown' /\ stream' \in Seq(Effect) /\ HasCandidate'
    BY <2>1 DEF UInv, StreamTypes, DisputeTypes, CommandsKnown, HasCandidate, Unresolved
  <2> QED
    BY <2>1, <2>3, <2>4 DEF SameRows
<1>5. CASE Triggers(c, f, v)
  <2>1. c \in 1 .. Len(conflicts) /\ conflicts[c].field = f
    BY <1>1, <1>5 DEF Triggers
  <2>2. /\ rebased \in Seq(Conflict) /\ Len(rebased) = Len(conflicts)
        /\ rebased[c].field = f /\ rebased[c].cur = v /\ rebased[c].rev = rev[f] + 1
        /\ rebased[c].status = "NEEDS_REBASE" /\ rebased[c].row = conflicts[c].row
        /\ \A d \in 1 .. Len(conflicts) : d # c => rebased[d] = conflicts[d]
    <3> HIDE DEF c
    <3> QED
      BY <1>1, <1>2, <2>1, RebasedType DEF ChangesOnly
  <2> HIDE DEF rebased
  <2>3. CASE Resolve(c, rebased, value', rev', entity')
    <3>1. pointer[conflicts[c].field] = c /\ rebased[c].field = conflicts[c].field
      BY <2>1, <2>2
    <3> HIDE DEF c
    <3>8. ChangesOnly(rebased, conflicts, c)
      BY <2>2, <3>1 DEF ChangesOnly
    <3>9. ResolvedWith(c, value', rev', entity')
      BY <1>2, <2>1, <2>3, <3>1, <3>8, ResolveResolves
    <3>2. /\ DisputeTypes' /\ CommandsKnown'
          /\ stream' \in Seq(Effect) /\ Added(value', entity', rev') /\ OverEvidence /\ SameRows
          /\ \A g \in Fields : pointer'[g] # 0 =>
                 /\ pointer'[g] = pointer[g] /\ g # f
                 /\ conflicts'[pointer[g]] = conflicts[pointer[g]]
      BY <2>1, <3>9 DEF ResolvedWith, SameRows
    <3>3. ConflictTracksCanonical'
      BY <1>2, <1>3, <3>2 DEF ConflictTracksCanonical
    <3> QED
      BY <2>1, <3>2, <3>3
  <2>4. CASE Defer(c, rebased, rev[f] + 1)
    <3>1. conflicts' = rebased /\ pointer' = pointer /\ stream' = stream
      BY <2>4 DEF Defer
    <3>2. \A g \in Fields : g # f /\ pointer[g] # 0 =>
              pointer[g] \in 1 .. Len(conflicts) /\ pointer[g] # c
      BY <1>1, <2>1
    <3>3. ConflictTracksCanonical'
      BY <1>2, <1>3, <2>2, <3>1, <3>2 DEF ConflictTracksCanonical
    <3>4. c \in 1 .. MaxConflicts
      BY <1>1, <2>1, UserInputAssumption
    <3>5. pending' \subseteq Command /\ \A p \in pending' : p.conflict \in 1 .. Len(conflicts)
      BY <1>1, <1>2, <2>1, <2>4, <3>4 DEF Defer, Command, UInv, CommandsKnown
    <3>6. DisputeTypes'
      BY <1>1, <2>1, <2>2, <3>1, <3>2, <3>5 DEF DisputeTypes, Unresolved
    <3>7. CommandsKnown' /\ HasCandidate' /\ stream' \in Seq(Effect)
      BY <2>2, <3>1, <3>5 DEF CommandsKnown, HasCandidate, UInv, StreamTypes
    <3>8. SameRows
      BY <2>2, <3>1 DEF SameRows
    <3> QED
      BY <3>1, <3>3, <3>6, <3>7, <3>8
  <2>5. Resolve(c, rebased, value', rev', entity') \/ Defer(c, rebased, rev[f] + 1)
    BY <1>5 DEF ConflictSync, rebased, Rebase
  <2> QED
    BY <2>3, <2>4, <2>5
<1> QED
  BY <1>4, <1>5

-----------------------------------------------------------------------------
(* Conflicts opened by a poll                                              *)

LEMMA NewConflictType ==
    ASSUME UInv, poll \in PollRecord, NEW f \in Fields
    PROVE  /\ NewConflict(f) \in Conflict
           /\ NewConflict(f).field = f /\ NewConflict(f).status = "OPEN"
           /\ NewConflict(f).cur = poll.value[f] /\ NewConflict(f).rev = poll.rev[f]
           /\ NewConflict(f).row = poll.row
<1>1. /\ poll.row \in Rows /\ poll.row[f] \in Values /\ poll.value[f] \in Values
      /\ poll.rev[f] \in Nat /\ poll.confirmed.rev \in Nat /\ Len(conflicts) \in Nat
  BY DEF PollRecord, Confirmation, Rows, Revisions, UInv, DisputeTypes
<1>2. BaseRevision(f) \in Nat /\ ObservedRevision \in Nat
  BY <1>1 DEF BaseRevision, ObservedRevision
<1> QED
  BY <1>1, <1>2 DEF NewConflict, Conflict

LEMMA AdvancedType ==
    ASSUME UInv, poll \in PollRecord
    PROVE  /\ Advanced \in Seq(Conflict) /\ Len(Advanced) = Len(conflicts)
           /\ \A c \in 1 .. Len(conflicts) :
                  /\ Advanced[c].field = conflicts[c].field /\ Advanced[c].cur = conflicts[c].cur
                  /\ Advanced[c].rev = conflicts[c].rev /\ Advanced[c].status = conflicts[c].status
                  /\ Advanced[c].row \in {conflicts[c].row, poll.row}
<1>1. conflicts \in Seq(Conflict) /\ poll.row \in Rows /\ poll.confirmed.rev \in Nat
  BY DEF PollRecord, Confirmation, UInv, DisputeTypes
<1>2. ObservedRevision \in Nat
  BY <1>1 DEF ObservedRevision
<1>3. ASSUME NEW c \in 1 .. Len(conflicts)
      PROVE  /\ Advanced[c] \in Conflict
             /\ Advanced[c].field = conflicts[c].field /\ Advanced[c].cur = conflicts[c].cur
             /\ Advanced[c].rev = conflicts[c].rev /\ Advanced[c].status = conflicts[c].status
             /\ Advanced[c].row \in {conflicts[c].row, poll.row}
  <2> DEFINE x == [conflicts[c] EXCEPT !.row = poll.row, !.vrev = ObservedRevision]
  <2>1. conflicts[c] \in Conflict
    BY <1>1
  <2>2. /\ x \in Conflict /\ x.field = conflicts[c].field /\ x.cur = conflicts[c].cur
        /\ x.rev = conflicts[c].rev /\ x.status = conflicts[c].status /\ x.row = poll.row
    BY <1>1, <1>2, <2>1 DEF Conflict
  <2>3. Advanced[c] = x \/ Advanced[c] = conflicts[c]
    BY DEF Advanced
  <2> HIDE DEF x
  <2> QED
    BY <2>1, <2>2, <2>3
<1>4. Len(conflicts) \in Nat /\ DOMAIN Advanced = 1 .. Len(conflicts)
      /\ Advanced = [c \in 1 .. Len(conflicts) |-> Advanced[c]]
  BY <1>1 DEF Advanced
<1>5. Advanced \in [1 .. Len(conflicts) -> Conflict]
  BY <1>3, <1>4
<1>6. Advanced \in Seq(Conflict) /\ Len(Advanced) = Len(conflicts)
  BY <1>4, <1>5
<1> QED
  BY <1>3, <1>6

\* What a poll that opens conflicts leaves of the others.
LEMMA OpensConflicts ==
    ASSUME UInv, poll \in PollRecord, OpenConflicts
    PROVE  /\ conflicts' \in Seq(Conflict) /\ Len(conflicts') <= MaxConflicts
           /\ Len(conflicts) <= Len(conflicts') /\ pointer' \in [Fields -> 0 .. Len(conflicts')]
           /\ \A c \in 1 .. Len(conflicts) :
                  /\ conflicts'[c].field = conflicts[c].field /\ conflicts'[c].cur = conflicts[c].cur
                  /\ conflicts'[c].rev = conflicts[c].rev /\ conflicts'[c].status = conflicts[c].status
           /\ \A f \in Fields : f \in NewDisputes =>
                  pointer'[f] > Len(conflicts) /\ conflicts'[pointer'[f]] = NewConflict(f)
           /\ \A f \in Fields : f \notin NewDisputes => pointer'[f] = pointer[f]
           /\ \A c \in 1 .. Len(conflicts') :
                  conflicts'[c].row = poll.row
                  \/ (c \in 1 .. Len(conflicts) /\ conflicts'[c].row = conflicts[c].row)
<1> DEFINE n == Cardinality(NewDisputes)
           len == Len(conflicts)
<1>1. NewDisputes \subseteq Fields
  BY DEF NewDisputes, Disputed, Changed
<1>2. n \in Nat /\ len \in Nat
  <2>1. IsFiniteSet(NewDisputes)
    BY <1>1, UserInputAssumption, FS_Subset
  <2> QED
    BY <2>1, FS_CardinalityType DEF UInv, DisputeTypes
<1>3. len + n <= MaxConflicts
  BY DEF OpenConflicts
<1>4. PICK order \in Bijection(1 .. n, NewDisputes) :
          /\ conflicts' = Advanced \o [i \in DOMAIN order |-> NewConflict(order[i])]
          /\ pointer' = [f \in Fields |->
                 IF f \in NewDisputes THEN len + (CHOOSE i \in DOMAIN order : order[i] = f)
                 ELSE pointer[f]]
  BY DEF OpenConflicts
<1>5. /\ order \in [1 .. n -> NewDisputes] /\ DOMAIN order = 1 .. n
      /\ \A f \in NewDisputes : \E i \in 1 .. n : order[i] = f
  BY DEF Bijection, Injection, Surjection
<1> DEFINE fresh == [i \in 1 .. n |-> NewConflict(order[i])]
<1>6. fresh \in Seq(Conflict) /\ Len(fresh) = n
  <2>1. \A i \in 1 .. n : NewConflict(order[i]) \in Conflict
    BY <1>1, <1>5, NewConflictType
  <2> QED
    BY <1>2, <2>1
<1>7. conflicts' = Advanced \o fresh
  BY <1>4, <1>5
<1>8. \A i \in 1 .. n : fresh[i] = NewConflict(order[i])
  OBVIOUS
<1> HIDE DEF fresh
<1> DEFINE adv == Advanced
<1>9. /\ adv \in Seq(Conflict) /\ Len(adv) = len
      /\ \A c \in 1 .. len :
             /\ adv[c].field = conflicts[c].field /\ adv[c].cur = conflicts[c].cur
             /\ adv[c].rev = conflicts[c].rev /\ adv[c].status = conflicts[c].status
             /\ adv[c].row \in {conflicts[c].row, poll.row}
  BY AdvancedType
<1> HIDE DEF adv
<1>10. /\ conflicts' \in Seq(Conflict) /\ Len(conflicts') = len + n
       /\ \A c \in 1 .. len : conflicts'[c] = adv[c]
       /\ \A i \in 1 .. n : conflicts'[len + i] = fresh[i]
  <2>1. conflicts' = adv \o fresh
    BY <1>7 DEF adv
  <2>2. adv \in Seq(Conflict) /\ Len(adv) = len
    BY <1>9
  <2> HIDE DEF n, len
  <2>3. /\ conflicts' \in Seq(Conflict) /\ Len(conflicts') = len + n
        /\ \A i \in 1 .. len + n : conflicts'[i] = IF i <= len THEN adv[i] ELSE fresh[i - len]
    BY <1>6, <2>1, <2>2, ConcatProperties, Zenon
  <2>4. \A c \in 1 .. len : conflicts'[c] = adv[c]
    BY <1>2, <2>3
  <2>5. \A i \in 1 .. n : conflicts'[len + i] = fresh[i]
    BY <1>2, <2>3
  <2> QED
    BY <2>3, <2>4, <2>5
<1>11. ASSUME NEW f \in Fields, f \in NewDisputes
       PROVE  /\ pointer'[f] \in 0 .. (len + n) /\ pointer'[f] > len
              /\ conflicts'[pointer'[f]] = NewConflict(f)
  <2> DEFINE k == CHOOSE i \in DOMAIN order : order[i] = f
  <2>1. k \in 1 .. n /\ order[k] = f
    BY <1>5, <1>11
  <2>2. pointer'[f] = len + k
    BY <1>4, <1>11
  <2> HIDE DEF k, n, len
  <2> QED
    BY <1>2, <1>8, <1>10, <2>1, <2>2
<1>12. \A f \in Fields : f \notin NewDisputes => pointer'[f] = pointer[f] /\ pointer[f] \in 0 .. len
  BY <1>4 DEF UInv, DisputeTypes
<1>13. pointer' \in [Fields -> 0 .. (len + n)]
  <2>1. \A f \in Fields : pointer'[f] \in 0 .. (len + n)
    <3> HIDE DEF n, len
    <3> QED
      BY <1>2, <1>11, <1>12
  <2>2. pointer' = [f \in Fields |-> pointer'[f]]
    BY <1>4
  <2> QED
    BY <2>1, <2>2
<1>14. \A i \in 1 .. n : order[i] \in Fields /\ fresh[i].row = poll.row
  BY <1>1, <1>5, <1>8, NewConflictType
<1>15. ASSUME NEW c \in 1 .. len + n
       PROVE  conflicts'[c].row = poll.row \/ (c \in 1 .. len /\ conflicts'[c].row = conflicts[c].row)
  <2> HIDE DEF n, len
  <2>1. CASE c <= len
    <3>1. c \in 1 .. len
      BY <1>2, <2>1
    <3> QED
      BY <1>9, <1>10, <3>1
  <2>2. CASE c > len
    <3>1. c - len \in 1 .. n /\ c = len + (c - len)
      BY <1>2, <2>2
    <3> QED
      BY <1>10, <1>14, <3>1
  <2> QED
    BY <1>2, <2>1, <2>2
<1> HIDE DEF n
<1> QED
  BY <1>2, <1>3, <1>9, <1>10, <1>11, <1>12, <1>13, <1>15

-----------------------------------------------------------------------------
(* The inductive invariant                                                 *)

LEMMA UInitial == Init => UInv
<1> SUFFICES ASSUME Init PROVE UInv
  OBVIOUS
<1>1. value \in Rows /\ rev \in Revisions /\ rev = [f \in Fields |-> 1] /\ entity = 1
  BY DEF Init, Revisions
<1>2. RowTypes
  <2>1. confirmed = [row |-> value, rev |-> 1, entity |-> 1]
    BY DEF Init
  <2>2. confirmed \in Confirmation
    BY <1>1, <2>1 DEF Confirmation
  <2>3. sheet \in Rows /\ ledger \subseteq Rows /\ shown \in Revisions /\ written \subseteq Rows
    BY <1>1 DEF Init
  <2>4. overtaken \in BOOLEAN /\ typed \in BOOLEAN
    BY DEF Init
  <2>5. entity \in Nat /\ entity # 0
    BY <1>1
  <2> QED
    BY <1>1, <2>2, <2>3, <2>4, <2>5 DEF RowTypes
<1>3. StreamTypes
  BY DEF Init, StreamTypes
<1>4. DisputeTypes /\ CommandsKnown /\ ConflictTracksCanonical
  BY UserInputAssumption DEF Init, DisputeTypes, CommandsKnown, ConflictTracksCanonical
<1>5. PollTypeOK /\ PollIsPast
  BY DEF Init, PollTypeOK, PollIsPast
<1> QED
  BY <1>2, <1>3, <1>4, <1>5 DEF UInv

\* Steps that leave canonical state and the conflicts alone, and the poll too,
\* unless they end it.
LEMMA Undisturbed ==
    ASSUME UInv, UNCHANGED <<canonical, disputes, overtaken>>, poll' \in {poll, NoPoll},
           RowTypes', StreamTypes'
    PROVE  UInv'
<1>1. UNCHANGED <<value, rev, entity, conflicts, pointer, pending, overtaken>>
  BY DEF canonical, disputes
<1>2. DisputeTypes' /\ CommandsKnown' /\ ConflictTracksCanonical'
  BY <1>1 DEF UInv, DisputeTypes, Unresolved, CommandsKnown, ConflictTracksCanonical
<1>3. PollTypeOK' /\ PollIsPast'
  BY <1>1 DEF UInv, PollTypeOK, PollIsPast
<1> QED
  BY <1>2, <1>3 DEF UInv

\* What a flush of f adds: the effect of a resolution, or one of its own behind
\* what is confirmed or behind the latest, or nothing while the row keeps a
\* candidate.
LEMMA FlushAdds ==
    ASSUME UInv, NEW f \in Fields, NEW v \in Values, Flush(f, v)
    PROVE  /\ value' = [value EXCEPT ![f] = v] /\ rev' = [rev EXCEPT ![f] = @ + 1]
           /\ value' \in Rows /\ rev' \in Revisions /\ entity' = entity + 1
           /\ UNCHANGED <<confirmed, sheet, ledger, poll, shown, written, typed, overtaken>>
           /\ DisputeTypes' /\ CommandsKnown' /\ ConflictTracksCanonical' /\ SameRows
           /\ \A g \in Fields : pointer'[g] # 0 => pointer[g] # 0
           /\ stream' \in Seq(Effect)
           /\ \/ stream' = stream /\ HasCandidate'
              \/ Added(value', entity', rev') /\ OverEvidence
              \/ /\ Added(value', entity', rev') /\ Len(stream') = Len(stream) + 1
                 /\ stream'[Len(stream')].guard = IF stream = <<>> THEN confirmed.row ELSE Latest.row
<1>1. /\ value \in Rows /\ rev \in Revisions /\ entity \in Nat /\ confirmed \in Confirmation
      /\ StreamTypes
  BY DEF UInv, RowTypes
<1>2. /\ v # value[f] /\ value' = [value EXCEPT ![f] = v] /\ rev' = [rev EXCEPT ![f] = @ + 1]
      /\ entity' = entity + 1
      /\ UNCHANGED <<confirmed, sheet, ledger, poll, shown, written, typed, overtaken>>
  BY DEF Flush, history
<1>3. value' \in Rows /\ rev' \in Revisions /\ entity' \in Nat
  BY <1>1, <1>2 DEF Rows, Revisions
<1>4. CASE HasCandidate /\ ConflictSync(f, v)
  BY <1>2, <1>3, <1>4, SyncTracks
<1>5. CASE ~HasCandidate /\ Enqueue(value', entity + 1, rev') /\ UNCHANGED disputes
  <2>1. UNCHANGED <<conflicts, pointer, pending>> /\ \A g \in Fields : pointer[g] = 0
    BY <1>5 DEF disputes, HasCandidate
  <2>2. DisputeTypes' /\ CommandsKnown' /\ ConflictTracksCanonical' /\ SameRows
    BY <2>1 DEF UInv, DisputeTypes, Unresolved, CommandsKnown, ConflictTracksCanonical, SameRows
  <2>3. confirmed.row \in Rows /\ confirmed.rev \in Nat
    BY <1>1 DEF Confirmation
  <2>4. stream # <<>> => Latest.row \in Rows /\ FollowerRevision \in Nat
    <3> SUFFICES ASSUME stream # <<>> PROVE Latest.row \in Rows /\ FollowerRevision \in Nat
      OBVIOUS
    <3>1. Latest \in Effect
      BY <1>1 DEF StreamTypes, Latest
    <3>2. Latest.row \in Rows /\ Latest.rev \in Nat
      BY <3>1 DEF Effect
    <3> QED
      BY <2>3, <3>2 DEF FollowerRevision
  <2> DEFINE e == IF stream = <<>>
                  THEN NewEffect(value', confirmed.row, confirmed.rev, entity', rev')
                  ELSE NewEffect(value', Latest.row, FollowerRevision, entity', rev')
  <2>5. /\ IsNew(e, value', entity', rev')
        /\ e.guard = IF stream = <<>> THEN confirmed.row ELSE Latest.row
    <3>1. CASE stream = <<>>
      BY <1>3, <2>3, <3>1, NewEffectIsNew
    <3>2. CASE stream # <<>>
      BY <1>3, <2>4, <3>2, NewEffectIsNew
    <3> QED
      BY <3>1, <3>2
  <2>6. stream' = Append(stream, e)
    BY <1>2, <1>5 DEF Enqueue
  <2> HIDE DEF e
  <2>7. /\ Added(value', entity', rev') /\ stream' \in Seq(Effect)
        /\ Len(stream') = Len(stream) + 1 /\ stream'[Len(stream')] = e
    BY <1>1, <2>5, <2>6, AppendAdds
  <2> QED
    BY <1>2, <1>3, <2>1, <2>2, <2>5, <2>7
<1> QED
  BY <1>4, <1>5 DEF Flush

LEMMA FlushKeeps ==
    ASSUME UInv, NEW f \in Fields, NEW v \in Values, Flush(f, v)
    PROVE  UInv'
<1>1. /\ entity \in Nat /\ entity # 0 /\ StreamTypes /\ RowTypes /\ PollTypeOK
      /\ value' \in Rows /\ rev' \in Revisions /\ entity' = entity + 1
      /\ UNCHANGED <<confirmed, sheet, ledger, poll, shown, written, typed, overtaken>>
      /\ DisputeTypes' /\ CommandsKnown' /\ ConflictTracksCanonical'
      /\ \A g \in Fields : pointer'[g] # 0 => pointer[g] # 0
      /\ stream' \in Seq(Effect) /\ (stream' = stream \/ Added(value', entity', rev'))
  BY FlushAdds DEF UInv, RowTypes
<1>2. entity' \in Nat /\ entity' # 0
  BY <1>1
<1>3. RowTypes'
  BY <1>1, <1>2 DEF RowTypes
<1>4. StreamTypes'
  <2>1. CASE stream' = stream
    BY <1>1, <2>1 DEF StreamTypes
  <2> QED
    BY <1>1, <1>2, <2>1, AddedTypes
<1>5. PollTypeOK' /\ PollIsPast'
  <2>1. poll # NoPoll => poll.entity \in Nat
    BY <1>1 DEF PollTypeOK, PollRecord
  <2> QED
    BY <1>1, <2>1 DEF UInv, PollTypeOK, PollIsPast
<1> QED
  BY <1>1, <1>3, <1>4, <1>5 DEF UInv

\* A command that is retried resolves its conflict, or was of no use any more.
LEMMA RetryAdds ==
    ASSUME UInv, NEW p \in pending, Retry(p)
    PROVE  /\ UNCHANGED <<canonical, confirmed, sheet, ledger, poll, history>>
           /\ \/ pending' = pending \ {p} /\ UNCHANGED <<conflicts, pointer, stream>>
              \/ /\ p.conflict \in 1 .. Len(conflicts)
                 /\ pointer[conflicts[p.conflict].field] = p.conflict
                 /\ ResolvedWith(p.conflict, value, rev, entity)
<1> DEFINE c == p.conflict
<1>1. UNCHANGED <<canonical, confirmed, sheet, ledger, poll, history>>
  BY DEF Retry
<1>2. CASE pending' = pending \ {p} /\ UNCHANGED <<conflicts, pointer, stream>>
  BY <1>1, <1>2
<1>3. CASE pointer[conflicts[c].field] = c /\ Resolve(c, conflicts, value, rev, entity)
  <2>1. c \in 1 .. Len(conflicts) /\ conflicts \in Seq(Conflict)
    BY DEF UInv, CommandsKnown, DisputeTypes
  <2>2. ChangesOnly(conflicts, conflicts, c)
    BY <2>1 DEF ChangesOnly
  <2>3. value \in Rows /\ rev \in Revisions /\ entity \in Nat
    BY DEF UInv, RowTypes
  <2> HIDE DEF c
  <2>4. ResolvedWith(c, value, rev, entity)
    BY <1>3, <2>1, <2>2, <2>3, ResolveResolves
  <2> QED
    BY <1>1, <1>3, <2>1, <2>4 DEF c
<1> QED
  BY <1>2, <1>3 DEF Retry

LEMMA RetryKeeps ==
    ASSUME UInv, NEW p \in pending, Retry(p)
    PROVE  UInv'
<1>1. UNCHANGED <<value, rev, entity, confirmed, sheet, ledger, poll, shown, written, typed, overtaken>>
  BY DEF Retry, canonical, history
<1>2. RowTypes' /\ PollTypeOK' /\ StreamTypes
  BY <1>1 DEF UInv, RowTypes, PollTypeOK
<1>3. CASE pending' = pending \ {p} /\ UNCHANGED <<conflicts, pointer, stream>>
  <2>1. DisputeTypes' /\ CommandsKnown' /\ StreamTypes'
    BY <1>3 DEF UInv, DisputeTypes, Unresolved, CommandsKnown, StreamTypes
  <2>2. PollIsPast' /\ ConflictTracksCanonical'
    BY <1>1, <1>3 DEF UInv, PollIsPast, ConflictTracksCanonical
  <2> QED
    BY <1>2, <2>1, <2>2 DEF UInv
<1>4. CASE ResolvedWith(p.conflict, value, rev, entity)
  <2>1. /\ DisputeTypes' /\ CommandsKnown'
        /\ Added(value, entity, rev) /\ stream' \in Seq(Effect)
        /\ \A f \in Fields : pointer'[f] # 0 =>
               pointer'[f] = pointer[f] /\ conflicts'[pointer[f]] = conflicts[pointer[f]]
    BY <1>4 DEF ResolvedWith
  <2>2. entity # 0
    BY DEF UInv, RowTypes
  <2>3. StreamTypes'
    BY <1>2, <2>1, <2>2, AddedTypes
  <2>4. PollIsPast' /\ ConflictTracksCanonical'
    BY <1>1, <2>1 DEF UInv, PollIsPast, ConflictTracksCanonical
  <2> QED
    BY <1>2, <2>1, <2>3, <2>4 DEF UInv
<1> QED
  BY <1>3, <1>4, RetryAdds

-----------------------------------------------------------------------------
(* Deliveries                                                              *)

Delivery == Claim \/ Preflight \/ Apply \/ LoseReply \/ Probe

\* The confirmation of the first effect, which leaves the stream.
Confirmed ==
    /\ Dropped
    /\ confirmed' = [row |-> First.row, rev |-> First.rev + 1, entity |-> First.entity]

\* A delivery that shows nothing new: the row may have been found as the effect
\* expects it, and only a gate without a candidate claims.
Moves ==
    /\ Settled /\ UNCHANGED <<confirmed, sheet, shown, written>>
    /\ (stream'[1].landed => First.landed) /\ stream'[1].status # "matched"
    /\ stream'[1].status = "planned" => sheet = First.guard /\ ~typed'
    /\ stream'[1].status \in {"claimed", "planned", "uncertain"} => Processing \/ ~HasCandidate

\* The row is found as the effect would have it.
Finds ==
    /\ FirstIs("claimed") /\ Settled /\ stream'[1].status = "matched"
    /\ stream'[1].landed = First.landed
    /\ shown' = First.shows /\ UNCHANGED <<confirmed, sheet, written>>

\* The effect lands, but its reply or its confirmation is lost.
LandsUnconfirmed ==
    /\ Lands /\ Settled /\ stream'[1].status = "uncertain" /\ stream'[1].landed
    /\ UNCHANGED confirmed

\* What landed before is confirmed by a probe.
FoundLanded ==
    /\ FirstIs("uncertain") /\ First.landed /\ Confirmed
    /\ UNCHANGED <<sheet, shown, written>>

Delivered == Moves \/ Finds \/ LandsUnconfirmed \/ (Lands /\ Confirmed) \/ FoundLanded

LEMMA ConfirmDelivers ==
    ASSUME UInv, stream # <<>>, Confirm
    PROVE  /\ stream' \in Seq(Effect)
           /\ \/ Confirmed
              \/ /\ Settled /\ stream'[1].status = "uncertain" /\ stream'[1].landed
                 /\ UNCHANGED confirmed
<1>1. StreamTypes
  BY DEF UInv
<1>2. CASE First.rev + 1 >= confirmed.rev
  BY <1>1, <1>2, TailDrops DEF Confirm, Confirmed
<1>3. CASE ~(First.rev + 1 >= confirmed.rev)
  <2>1. Settle("uncertain", TRUE) /\ UNCHANGED confirmed
    BY <1>3 DEF Confirm
  <2> QED
    BY <1>1, <2>1, SettleSettles
<1> QED
  BY <1>2, <1>3

LEMMA DeliveryDelivers ==
    ASSUME UInv, Delivery
    PROVE  /\ stream # <<>> /\ Unfinished(First) /\ First \in Effect /\ Delivered
           /\ stream' \in Seq(Effect)
           /\ UNCHANGED <<canonical, disputes, ledger, poll, overtaken>>
<1>1. StreamTypes
  BY DEF UInv
<1>2. stream # <<>> /\ Unfinished(First) /\ UNCHANGED <<canonical, disputes, ledger, poll, overtaken>>
  BY DEF Delivery, Claim, Preflight, Apply, LoseReply, Probe, Lands, FirstIs, Unfinished, DeliveryKeeps
<1>3. First \in Effect /\ First.landed \in BOOLEAN
  <2>1. First \in Effect
    BY <1>1, <1>2 DEF StreamTypes, First
  <2> QED
    BY <2>1 DEF Effect
<1>4. CASE Claim
  <2>1. CASE HasCandidate
    <3>1. Settle("stuck", First.landed)
      BY <1>4, <2>1 DEF Claim
    <3>2. /\ Settled /\ stream' \in Seq(Effect)
          /\ stream'[1].status = "stuck" /\ stream'[1].landed = First.landed
      BY <1>1, <1>2, <1>3, <3>1, SettleSettles
    <3> QED
      BY <1>2, <1>3, <1>4, <3>2 DEF Claim, Delivered, Moves
  <2>2. CASE ~HasCandidate
    <3>1. Settle("claimed", First.landed)
      BY <1>4, <2>2 DEF Claim
    <3>2. /\ Settled /\ stream' \in Seq(Effect)
          /\ stream'[1].status = "claimed" /\ stream'[1].landed = First.landed
      BY <1>1, <1>2, <1>3, <3>1, SettleSettles
    <3> QED
      BY <1>2, <1>3, <1>4, <2>2, <3>2 DEF Claim, Delivered, Moves
  <2> QED
    BY <2>1, <2>2
<1>5. CASE Preflight
  <2>1. FirstIs("claimed") /\ Processing
    BY <1>5 DEF Preflight, FirstIs, Processing
  <2>2. CASE Matches
    <3>1. Settle("matched", First.landed)
      BY <1>5, <2>2 DEF Preflight
    <3>2. /\ Settled /\ stream' \in Seq(Effect)
          /\ stream'[1].status = "matched" /\ stream'[1].landed = First.landed
      BY <1>1, <1>2, <1>3, <3>1, SettleSettles
    <3> QED
      BY <1>2, <1>3, <1>5, <2>1, <2>2, <3>2 DEF Preflight, Delivered, Finds
  <2>3. CASE ~Matches /\ Writes
    <3>1. Settle("planned", First.landed) /\ sheet = First.guard /\ ~typed'
      BY <1>5, <2>3 DEF Preflight, Writes, Guarded
    <3>2. /\ Settled /\ stream' \in Seq(Effect)
          /\ stream'[1].status = "planned" /\ stream'[1].landed = First.landed
      BY <1>1, <1>2, <1>3, <3>1, SettleSettles
    <3> QED
      BY <1>2, <1>3, <1>5, <2>1, <2>3, <3>1, <3>2 DEF Preflight, Delivered, Moves
  <2>4. CASE ~Matches /\ ~Writes
    <3>1. Settle("stuck", First.landed)
      BY <1>5, <2>4 DEF Preflight
    <3>2. /\ Settled /\ stream' \in Seq(Effect)
          /\ stream'[1].status = "stuck" /\ stream'[1].landed = First.landed
      BY <1>1, <1>2, <1>3, <3>1, SettleSettles
    <3> QED
      BY <1>2, <1>3, <1>5, <2>4, <3>2 DEF Preflight, Delivered, Moves
  <2> QED
    BY <2>2, <2>3, <2>4
<1>6. CASE Apply
  BY <1>2, <1>3, <1>6, ConfirmDelivers DEF Apply, Delivered, LandsUnconfirmed
<1>7. CASE LoseReply
  <2>1. CASE FirstIs("claimed") /\ Settle("pending", First.landed) /\ UNCHANGED <<sheet, shown, written>>
    <3>1. /\ Settled /\ stream' \in Seq(Effect)
          /\ stream'[1].status = "pending" /\ stream'[1].landed = First.landed
      BY <1>1, <1>2, <1>3, <2>1, SettleSettles
    <3> QED
      BY <1>2, <1>3, <1>7, <2>1, <3>1 DEF LoseReply, Delivered, Moves
  <2>2. CASE /\ FirstIs("claimed") \/ FirstIs("planned") \/ FirstIs("matched")
             /\ Settle("uncertain", First.landed) /\ UNCHANGED <<sheet, shown, written>>
    <3>1. /\ Settled /\ stream' \in Seq(Effect) /\ Processing
          /\ stream'[1].status = "uncertain" /\ stream'[1].landed = First.landed
      BY <1>1, <1>2, <1>3, <2>2, SettleSettles DEF FirstIs, Processing
    <3> QED
      BY <1>2, <1>3, <1>7, <2>2, <3>1 DEF LoseReply, Delivered, Moves
  <2>3. CASE Lands /\ Settle("uncertain", TRUE)
    <3>1. /\ Settled /\ stream' \in Seq(Effect)
          /\ stream'[1].status = "uncertain" /\ stream'[1].landed
      BY <1>1, <1>2, <2>3, SettleSettles
    <3> QED
      BY <1>2, <1>3, <1>7, <2>3, <3>1 DEF LoseReply, Delivered, LandsUnconfirmed
  <2> QED
    BY <1>7, <2>1, <2>2, <2>3 DEF LoseReply
<1>8. CASE Probe
  <2>1. FirstIs("uncertain") /\ Processing /\ UNCHANGED <<sheet, shown, written>>
    BY <1>8 DEF Probe, FirstIs, Processing
  <2>2. CASE First.landed /\ Confirm
    <3>1. CASE Confirmed
      BY <1>2, <1>3, <2>1, <2>2, <3>1, ConfirmDelivers DEF Delivered, FoundLanded
    <3>2. CASE /\ Settled /\ stream'[1].status = "uncertain" /\ stream'[1].landed
               /\ UNCHANGED confirmed
      BY <1>2, <1>3, <2>1, <2>2, <3>2, ConfirmDelivers DEF Delivered, Moves
    <3> QED
      BY <1>2, <2>2, <3>1, <3>2, ConfirmDelivers
  <2>3. CASE /\ Settle(IF sheet # First.row /\ Guarded THEN "pending" ELSE "stuck", First.landed)
             /\ UNCHANGED confirmed
    <3>1. /\ Settled /\ stream' \in Seq(Effect)
          /\ stream'[1].status \in {"pending", "stuck"} /\ stream'[1].landed = First.landed
      BY <1>1, <1>2, <1>3, <2>3, SettleSettles
    <3> QED
      BY <1>2, <1>3, <2>1, <2>3, <3>1 DEF Delivered, Moves
  <2> QED
    BY <1>8, <2>2, <2>3 DEF Probe
<1> QED
  BY <1>4, <1>5, <1>6, <1>7, <1>8 DEF Delivery

LEMMA DeliveryKeepsInv == ASSUME UInv, Delivery PROVE UInv'
<1>1. /\ First \in Effect /\ Delivered /\ stream' \in Seq(Effect) /\ stream # <<>>
      /\ UNCHANGED <<canonical, disputes, ledger, poll, overtaken>> /\ RowTypes /\ StreamTypes
  BY DeliveryDelivers DEF UInv
<1>2. First.row \in Rows /\ First.shows \in Revisions /\ First.rev \in Nat /\ First.entity \in Nat
  BY <1>1 DEF Effect
<1>3. sheet' \in Rows /\ shown' \in Revisions /\ written' \subseteq Rows
  BY <1>1, <1>2 DEF Delivered, Moves, Finds, LandsUnconfirmed, FoundLanded, Lands, RowTypes
<1>4. confirmed' \in Confirmation
  <2>1. [row |-> First.row, rev |-> First.rev + 1, entity |-> First.entity] \in Confirmation
    BY <1>2 DEF Confirmation
  <2> QED
    BY <1>1, <2>1 DEF Delivered, Moves, Finds, LandsUnconfirmed, FoundLanded, Confirmed, RowTypes
<1>5. typed' \in BOOLEAN
  BY <1>1 DEF Delivery, Claim, Preflight, Apply, LoseReply, Probe, RowTypes
<1>6. RowTypes'
  BY <1>1, <1>3, <1>4, <1>5 DEF RowTypes, canonical
<1>7. StreamTypes'
  <2>1. Settled \/ Dropped
    BY <1>1 DEF Delivered, Moves, Finds, LandsUnconfirmed, FoundLanded, Confirmed
  <2> QED
    BY <1>1, <2>1, SettledTypes, DroppedTypes
<1> QED
  BY <1>1, <1>6, <1>7, Undisturbed

LEMMA CleanupAdds ==
    ASSUME UInv, CleanupRewrite
    PROVE  /\ Added(value, 0, rev) /\ Len(stream') = 1 /\ stream' \in Seq(Effect)
           /\ UNCHANGED <<canonical, disputes, confirmed, sheet, ledger, poll, history>>
<1>1. value \in Rows /\ sheet \in Rows /\ confirmed.rev \in Nat /\ rev \in Revisions
  BY DEF UInv, RowTypes, Confirmation
<1>2. IsNew(NewEffect(value, sheet, confirmed.rev, 0, rev), value, 0, rev)
  BY <1>1, NewEffectIsNew
<1> QED
  BY <1>2, OneAdds DEF CleanupRewrite

LEMMA CleanupKeeps == ASSUME UInv, CleanupRewrite PROVE UInv'
<1>1. /\ UNCHANGED <<canonical, disputes, overtaken>> /\ poll' = poll
      /\ UNCHANGED <<confirmed, sheet, ledger, shown, written, typed>>
  BY DEF CleanupRewrite, history
<1>2. StreamTypes'
  BY CleanupAdds, AddedTypes DEF UInv
<1>3. RowTypes'
  BY <1>1 DEF UInv, RowTypes, canonical
<1> QED
  BY <1>1, <1>2, <1>3, Undisturbed

LEMMA EditKeeps ==
    ASSUME UInv, NEW f \in Fields, NEW v \in Values, HumanEdit(f, v) PROVE UInv'
<1>1. /\ UNCHANGED <<canonical, disputes, overtaken>> /\ poll' = poll /\ stream' = stream
      /\ UNCHANGED <<confirmed, ledger, shown, written>>
  BY DEF HumanEdit
<1>2. sheet' \in Rows /\ typed' \in BOOLEAN
  BY DEF HumanEdit, UInv, RowTypes, Rows
<1>3. RowTypes' /\ StreamTypes'
  BY <1>1, <1>2 DEF UInv, RowTypes, StreamTypes, canonical
<1> QED
  BY <1>1, <1>3, Undisturbed

LEMMA PollEndsKeeps == ASSUME UInv, PollKnown \/ PollDropped \/ Restart PROVE UInv'
<1>1. UNCHANGED <<canonical, confirmed, sheet, stream, disputes, history>> /\ poll' = NoPoll
  BY DEF PollKnown, PollDropped, Restart
<1>2. ledger' \subseteq Rows
  <2>1. PollKnown => poll \in PollRecord
    BY DEF PollKnown, UInv, PollTypeOK, NoPoll
  <2> QED
    BY <2>1 DEF PollKnown, PollDropped, Restart, UInv, RowTypes, PollRecord
<1>3. RowTypes' /\ StreamTypes'
  BY <1>1, <1>2 DEF UInv, RowTypes, StreamTypes, canonical, history
<1> QED
  BY <1>1, <1>3, Undisturbed DEF history

LEMMA PollReadKeeps == ASSUME UInv, PollRead PROVE UInv'
<1>1. UNCHANGED <<value, rev, entity, confirmed, sheet, stream, conflicts, pointer, pending, ledger,
                  shown, written, typed, overtaken>>
  BY DEF PollRead, canonical, disputes, history
<1>2. RowTypes' /\ StreamTypes' /\ DisputeTypes' /\ CommandsKnown' /\ ConflictTracksCanonical'
  BY <1>1 DEF UInv, RowTypes, StreamTypes, DisputeTypes, Unresolved, CommandsKnown, ConflictTracksCanonical
<1> DEFINE known == {f \in Fields : \E c \in 1 .. Len(conflicts) :
                        conflicts[c].field = f /\ Unresolved(c)}
<1>3. poll' = [at |-> "read", value |-> value, rev |-> rev, entity |-> entity,
               confirmed |-> confirmed, row |-> value, active |-> known]
  BY DEF PollRead
<1>4. \A f \in Fields : pointer[f] # 0 => f \in known
  <2>1. \A f \in Fields : pointer[f] # 0 => pointer[f] \in 1 .. Len(conflicts)
    BY DEF UInv, DisputeTypes
  <2> QED
    BY <2>1 DEF UInv, DisputeTypes
<1>5. known \in SUBSET Fields
  OBVIOUS
<1> HIDE DEF known
<1>6. PollTypeOK'
  BY <1>3, <1>5 DEF PollTypeOK, PollRecord, UInv, RowTypes
<1>7. PollIsPast'
  BY <1>1, <1>3, <1>4 DEF PollIsPast, UInv, RowTypes
<1> QED
  BY <1>2, <1>6, <1>7 DEF UInv

LEMMA PollObserveKeeps == ASSUME UInv, PollObserve PROVE UInv'
<1>1. UNCHANGED <<value, rev, entity, confirmed, sheet, stream, conflicts, pointer, pending, ledger,
                  shown, written, typed, overtaken>>
  BY DEF PollObserve, canonical, disputes, history
<1>2. RowTypes' /\ StreamTypes' /\ DisputeTypes' /\ CommandsKnown' /\ ConflictTracksCanonical'
  BY <1>1 DEF UInv, RowTypes, StreamTypes, DisputeTypes, Unresolved, CommandsKnown, ConflictTracksCanonical
<1>3. poll \in PollRecord /\ poll # NoPoll
  BY DEF PollObserve, UInv, PollTypeOK, NoPoll
<1>4. CASE poll' = NoPoll
  BY <1>2, <1>4 DEF UInv, PollTypeOK, PollIsPast
<1>5. CASE poll' = [poll EXCEPT !.at = "observed", !.row = sheet]
  <2>1. sheet \in Rows
    BY DEF UInv, RowTypes
  <2>2. poll' \in PollRecord /\ poll'.entity = poll.entity /\ poll'.value = poll.value
        /\ poll'.rev = poll.rev /\ poll'.active = poll.active
    BY <1>3, <1>5, <2>1 DEF PollRecord
  <2>3. PollIsPast'
    BY <1>1, <1>3, <2>2 DEF UInv, PollIsPast
  <2> QED
    BY <1>2, <2>2, <2>3 DEF UInv, PollTypeOK
<1> QED
  BY <1>4, <1>5 DEF PollObserve

\* What a poll accepts: fields whose candidates it does not know, of the
\* values it observed.
LEMMA AcceptsFields ==
    ASSUME UInv, poll \in PollRecord, AcceptFields
    PROVE  /\ value' \in Rows /\ rev' \in Revisions /\ entity' \in Nat /\ entity' # 0
           /\ confirmed' \in Confirmation /\ shown' \in Revisions
           /\ \A f \in Fields : f \notin Accepted => value'[f] = value[f] /\ rev'[f] = rev[f]
           /\ \A f \in Fields : pointer[f] # 0 => f \notin Accepted
           /\ \A f \in Fields : f \in NewDisputes => f \notin Accepted
<1>1. /\ value \in Rows /\ rev \in Revisions /\ entity \in Nat /\ entity # 0
      /\ confirmed \in Confirmation /\ shown \in Revisions
  BY DEF UInv, RowTypes
<1>2. poll.row \in Rows /\ poll.confirmed.rev \in Nat
  BY DEF PollRecord, Confirmation
<1>3. \A f \in Fields : pointer[f] # 0 => f \notin Accepted
  <2>1. poll # NoPoll
    BY DEF PollRecord, NoPoll
  <2> QED
    BY <2>1 DEF UInv, PollIsPast, Accepted, Disputed
<1>4. \A f \in Fields : f \in NewDisputes => f \notin Accepted
  BY DEF NewDisputes, Accepted
<1>5. CASE Accepted = {}
  BY <1>1, <1>3, <1>5 DEF AcceptFields, canonical
<1>6. CASE Accepted # {}
  <2>1. /\ value' = [f \in Fields |-> IF f \in Accepted THEN poll.row[f] ELSE value[f]]
        /\ rev' = [f \in Fields |-> IF f \in Accepted THEN rev[f] + 1 ELSE rev[f]]
        /\ entity' = entity + 1
        /\ confirmed' = [row |-> poll.row, rev |-> ObservedRevision, entity |-> entity + 1]
        /\ shown' = [f \in Fields |-> IF f \in Accepted THEN rev[f] + 1 ELSE shown[f]]
    BY <1>6 DEF AcceptFields
  <2>2. value' \in Rows
    BY <1>1, <1>2, <2>1 DEF Rows
  <2>3. rev' \in Revisions /\ shown' \in Revisions
    BY <1>1, <2>1 DEF Revisions
  <2>4. confirmed' \in Confirmation /\ entity' \in Nat /\ entity' # 0
    BY <1>1, <1>2, <2>1 DEF Confirmation, ObservedRevision
  <2>5. \A f \in Fields : f \notin Accepted => value'[f] = value[f] /\ rev'[f] = rev[f]
    BY <2>1
  <2> QED
    BY <1>3, <1>4, <2>2, <2>3, <2>4, <2>5
<1> QED
  BY <1>5, <1>6

LEMMA PollPersistKeeps == ASSUME UInv, PollPersist PROVE UInv'
<1>1. poll \in PollRecord /\ poll # NoPoll
  BY DEF PollPersist, UInv, PollTypeOK, NoPoll
<1>2. /\ OpenConflicts /\ AcceptFields /\ poll' = NoPoll /\ stream' = stream /\ pending' = pending
      /\ overtaken' = (overtaken \/ Overtaken)
      /\ ledger' = ledger \cup {poll.row} /\ UNCHANGED <<sheet, written, typed>>
  BY DEF PollPersist
<1>3. /\ value' \in Rows /\ rev' \in Revisions /\ entity' \in Nat /\ entity' # 0
      /\ confirmed' \in Confirmation /\ shown' \in Revisions
      /\ \A f \in Fields : f \notin Accepted => value'[f] = value[f] /\ rev'[f] = rev[f]
      /\ \A f \in Fields : pointer[f] # 0 => f \notin Accepted
      /\ \A f \in Fields : f \in NewDisputes => f \notin Accepted
  BY <1>1, <1>2, AcceptsFields
<1>4. /\ conflicts' \in Seq(Conflict) /\ Len(conflicts') <= MaxConflicts
      /\ Len(conflicts) <= Len(conflicts') /\ pointer' \in [Fields -> 0 .. Len(conflicts')]
      /\ \A c \in 1 .. Len(conflicts) :
             /\ conflicts'[c].field = conflicts[c].field /\ conflicts'[c].cur = conflicts[c].cur
             /\ conflicts'[c].rev = conflicts[c].rev /\ conflicts'[c].status = conflicts[c].status
      /\ \A f \in Fields : f \in NewDisputes => conflicts'[pointer'[f]] = NewConflict(f)
      /\ \A f \in Fields : f \notin NewDisputes => pointer'[f] = pointer[f]
  BY <1>1, <1>2, OpensConflicts
<1>5. \A f \in Fields : NewConflict(f).field = f /\ NewConflict(f).status = "OPEN"
          /\ NewConflict(f).cur = poll.value[f] /\ NewConflict(f).rev = poll.rev[f]
  BY <1>1, NewConflictType
<1>6. RowTypes'
  <2>1. ledger' \subseteq Rows /\ sheet' \in Rows /\ written' \subseteq Rows
    BY <1>1, <1>2 DEF UInv, RowTypes, PollRecord
  <2>2. overtaken' \in BOOLEAN /\ typed' \in BOOLEAN
    BY <1>2 DEF UInv, RowTypes
  <2> QED
    BY <1>3, <2>1, <2>2 DEF RowTypes
<1>7. /\ Len(conflicts) \in Nat
      /\ \A f \in Fields : pointer[f] # 0 =>
             /\ pointer[f] \in 1 .. Len(conflicts)
             /\ conflicts[pointer[f]].field = f /\ conflicts[pointer[f]].status # "RESOLVED"
  BY DEF UInv, DisputeTypes, Unresolved
<1>8. \A f \in Fields : pointer'[f] # 0 =>
          conflicts'[pointer'[f]].field = f /\ conflicts'[pointer'[f]].status # "RESOLVED"
  <2> SUFFICES ASSUME NEW f \in Fields, pointer'[f] # 0
               PROVE  conflicts'[pointer'[f]].field = f /\ conflicts'[pointer'[f]].status # "RESOLVED"
    OBVIOUS
  <2>1. CASE f \in NewDisputes
    BY <1>4, <1>5, <2>1
  <2>2. CASE f \notin NewDisputes
    BY <1>4, <1>7, <2>2
  <2> QED
    BY <2>1, <2>2
<1>9. DisputeTypes'
  BY <1>2, <1>4, <1>8 DEF UInv, DisputeTypes, Unresolved
<1>10. CommandsKnown'
  <2>1. Len(conflicts') \in Nat
    BY <1>4
  <2> QED
    BY <1>2, <1>4, <1>7, <2>1 DEF UInv, CommandsKnown
<1>11. ConflictTracksCanonical'
  <2> SUFFICES ASSUME ~overtaken', NEW f \in Fields, pointer'[f] # 0
               PROVE  conflicts'[pointer'[f]].cur = value'[f] /\ conflicts'[pointer'[f]].rev = rev'[f]
    BY DEF ConflictTracksCanonical
  <2>1. ~overtaken /\ poll.value = value /\ poll.rev = rev
    BY <1>1, <1>2 DEF Overtaken, UInv, PollIsPast
  <2>2. CASE f \in NewDisputes
    BY <1>3, <1>4, <1>5, <2>1, <2>2
  <2>3. CASE f \notin NewDisputes
    <3>1. pointer'[f] = pointer[f] /\ pointer[f] # 0
      BY <1>4, <2>3
    <3>2. conflicts[pointer[f]].cur = value[f] /\ conflicts[pointer[f]].rev = rev[f]
      BY <2>1, <3>1 DEF UInv, ConflictTracksCanonical
    <3> QED
      BY <1>3, <1>4, <1>7, <3>1, <3>2
  <2> QED
    BY <2>2, <2>3
<1>12. StreamTypes' /\ PollTypeOK' /\ PollIsPast'
  BY <1>2 DEF UInv, StreamTypes, PollTypeOK, PollIsPast
<1> QED
  BY <1>6, <1>9, <1>10, <1>11, <1>12 DEF UInv

LEMMA StepKeeps == ASSUME UInv, [Next]_vars PROVE UInv'
<1>1. CASE \E f \in Fields, v \in Values : Flush(f, v) \/ HumanEdit(f, v)
  BY <1>1, FlushKeeps, EditKeeps
<1>2. CASE \E p \in pending : Retry(p)
  BY <1>2, RetryKeeps
<1>3. CASE Delivery
  BY <1>3, DeliveryKeepsInv
<1>4. CASE CleanupRewrite
  BY <1>4, CleanupKeeps
<1>5. CASE PollRead
  BY <1>5, PollReadKeeps
<1>6. CASE PollObserve
  BY <1>6, PollObserveKeeps
<1>7. CASE PollPersist
  BY <1>7, PollPersistKeeps
<1>8. CASE PollKnown \/ PollDropped \/ Restart
  BY <1>8, PollEndsKeeps
<1>9. CASE UNCHANGED vars
  <2>1. UNCHANGED <<canonical, disputes, overtaken>> /\ poll' = poll /\ stream' = stream
        /\ UNCHANGED <<confirmed, sheet, ledger, shown, written, typed>>
    BY <1>9 DEF vars, history
  <2>2. RowTypes' /\ StreamTypes'
    BY <2>1 DEF UInv, RowTypes, StreamTypes, canonical
  <2> QED
    BY <2>1, <2>2, Undisturbed
<1> QED
  BY <1>1, <1>2, <1>3, <1>4, <1>5, <1>6, <1>7, <1>8, <1>9 DEF Next, Delivery

LEMMA UInvHolds == Spec => []UInv
<1>1. Init => UInv
  BY UInitial
<1>2. UInv /\ [Next]_vars => UInv'
  BY StepKeeps
<1> QED
  BY <1>1, <1>2, PTL DEF Spec

\* The row, its effect, its conflicts and its pending commands keep the shape
\* the schema declares, and an active candidate is an unresolved conflict of
\* its field.
THEOREM UserInputTypeCorrect == Spec => []UserInputTypeOK
<1>1. UInv => UserInputTypeOK
  BY TypesInParts DEF UInv
<1> QED
  BY <1>1, UInvHolds, PTL

\* The conflict of an active candidate keeps up with the canonical field it is
\* up against, through flushes, deferred commands and polls that were not
\* overtaken.
THEOREM ConflictsTrackCanonical == Spec => []ConflictTracksCanonical
<1>1. UInv => ConflictTracksCanonical
  BY DEF UInv
<1> QED
  BY <1>1, UInvHolds, PTL

-----------------------------------------------------------------------------
(* What the row is going to show                                           *)

\* A command that will resolve the active candidate of its field.
Live == \E p \in pending : pointer[conflicts[p.conflict].field] = p.conflict

\* The row was confirmed from an older entity, and so for the running poll.
Behind ==
    /\ confirmed.entity < entity
    /\ poll # NoPoll /\ poll.entity = entity => poll.confirmed.entity < entity

Places == 1 .. Len(stream)

\* Only the latest effect can be one of the entity as it is, unless it is stuck
\* behind a stuck one.
RevisionsArePast ==
    /\ confirmed.entity <= entity
    /\ \A i \in Places :
           /\ stream[i].entity <= entity
           /\ i < Len(stream) /\ Unfinished(stream[i]) => stream[i].entity < entity

\* Polls dispute what they see as long as a resolution is owed or an effect of
\* a flush or of a resolution is to land.
EffectsAhead ==
    ~overtaken =>
        /\ Live => Behind /\ (Processing => First.entity < entity)
        /\ \A i \in Places : Unfinished(stream[i]) /\ stream[i].entity # 0 => Behind

AheadInv == UInv /\ RevisionsArePast /\ EffectsAhead /\ NewestRowIsCurrent

Ahead == RevisionsArePast /\ EffectsAhead /\ NewestRowIsCurrent

LEMMA LiveHasCandidate == UInv /\ Live => HasCandidate
<1> SUFFICES ASSUME UInv, NEW p \in pending, pointer[conflicts[p.conflict].field] = p.conflict
             PROVE  HasCandidate
  BY DEF Live
<1>1. p.conflict \in 1 .. Len(conflicts) /\ conflicts \in Seq(Conflict)
  BY DEF UInv, CommandsKnown, DisputeTypes
<1>2. conflicts[p.conflict] \in Conflict
  BY <1>1
<1>3. conflicts[p.conflict].field \in Fields /\ p.conflict # 0
  BY <1>1, <1>2 DEF Conflict
<1> QED
  BY <1>3 DEF HasCandidate

LEMMA NumberTypes ==
    ASSUME UInv
    PROVE  /\ entity \in Nat /\ entity # 0 /\ confirmed.entity \in Nat /\ Len(stream) \in Nat
           /\ (stream = <<>>) = (Len(stream) = 0)
           /\ \A i \in Places : stream[i] \in Effect /\ stream[i].entity \in Nat
           /\ poll # NoPoll => poll.entity \in Nat /\ poll.confirmed.entity \in Nat
                               /\ poll.entity <= entity
<1>1. stream \in Seq(Effect)
  BY DEF UInv, StreamTypes
<1>2. \A i \in Places : stream[i] \in Effect
  BY <1>1 DEF Places
<1>3. Len(stream) \in Nat /\ (stream = <<>>) = (Len(stream) = 0)
  BY <1>1
<1> QED
  BY <1>2, <1>3 DEF UInv, RowTypes, Confirmation, Effect, PollTypeOK, PollRecord, PollIsPast

\* Steps that leave canonical state, the conflicts, the confirmation and the
\* stream alone: they may end the poll.
LEMMA AheadUndisturbed ==
    ASSUME AheadInv, UNCHANGED <<canonical, disputes, overtaken, confirmed, stream>>,
           poll' \in {poll, NoPoll}
    PROVE  Ahead'
<1>1. UNCHANGED <<value, rev, entity, conflicts, pointer, pending, overtaken, confirmed, stream>>
  BY DEF canonical, disputes
<1>2. Live' = Live /\ HasCandidate' = HasCandidate /\ (Behind => Behind') /\ Places' = Places
      /\ Processing' = Processing /\ First' = First /\ Latest' = Latest
  BY <1>1 DEF Live, HasCandidate, Behind, Places, Processing, First, Latest
<1> QED
  BY <1>1, <1>2 DEF AheadInv, Ahead, RevisionsArePast, EffectsAhead, NewestRowIsCurrent, Unfinished

\* The effects before the latest are those there were.
LEMMA AddedPlaces ==
    ASSUME NEW row, NEW ent, NEW shows, Added(row, ent, shows)
    PROVE  /\ \A i \in Places' : i = Len(stream') \/
                  (i < Len(stream') /\ i \in Places /\ stream'[i] = stream[i])
           /\ IsNew(stream'[Len(stream')], row, ent, shows)
           /\ Len(stream') \in Places' /\ stream' # <<>> /\ Latest' = stream'[Len(stream')]
           /\ Processing' => Processing /\ First' = First
<1>1. Len(stream') \in Nat \ {0} /\ IsNew(stream'[Len(stream')], row, ent, shows)
  BY DEF Added
<1>2. \A i \in Places' : i = Len(stream') \/
          (i < Len(stream') /\ i \in Places /\ stream'[i] = stream[i])
  BY <1>1 DEF Added, Places
<1>3. Len(stream') \in Places' /\ stream' # <<>> /\ Latest' = stream'[Len(stream')]
  BY <1>1 DEF Places, Latest
<1>4. ASSUME Processing' PROVE Processing /\ First' = First
  <2>1. First' = stream'[1] /\ 1 \in Places' /\ First'.status # "pending"
    BY <1>1, <1>4 DEF Processing, First, Places
  <2>2. 1 # Len(stream')
    BY <1>1, <2>1 DEF IsNew
  <2>3. 1 \in Places /\ stream'[1] = stream[1]
    BY <1>2, <2>1, <2>2
  <2>4. stream # <<>>
    BY <2>3 DEF Places
  <2> QED
    BY <1>4, <2>3, <2>4 DEF Processing, First
<1> QED
  BY <1>1, <1>2, <1>3, <1>4

LEMMA FlushAhead ==
    ASSUME AheadInv, NEW f \in Fields, NEW v \in Values, Flush(f, v)
    PROVE  Ahead'
<1>1. /\ entity' = entity + 1 /\ poll' = poll /\ overtaken' = overtaken /\ confirmed' = confirmed
      /\ (stream' = stream /\ HasCandidate') \/ Added(value', entity', rev')
  BY FlushAdds DEF AheadInv
<1>2. UInv /\ RevisionsArePast
  BY DEF AheadInv
<1>3. Behind' /\ confirmed.entity <= entity'
  BY <1>1, <1>2, NumberTypes DEF Behind, RevisionsArePast
<1>4. ASSUME NEW i \in Places, stream'[i] = stream[i]
      PROVE  stream'[i].entity < entity'
  BY <1>1, <1>2, <1>4, NumberTypes DEF RevisionsArePast
<1>5. CASE stream' = stream /\ HasCandidate'
  <2>1. RevisionsArePast'
    BY <1>1, <1>3, <1>4, <1>5, NumberTypes, <1>2 DEF RevisionsArePast, Places
  <2>2. Processing => First.entity < entity'
    BY <1>2, <1>4, <1>5, NumberTypes DEF Processing, First, Places
  <2> QED
    BY <1>3, <1>5, <2>1, <2>2 DEF Ahead, EffectsAhead, NewestRowIsCurrent, Processing, First
<1>6. CASE Added(value', entity', rev')
  <2>1. \A i \in Places' : i = Len(stream') \/
            (i < Len(stream') /\ i \in Places /\ stream'[i] = stream[i])
    BY <1>6, AddedPlaces
  <2>2. /\ stream'[Len(stream')].entity = entity' /\ stream'[Len(stream')].row = value'
        /\ stream' # <<>> /\ Latest' = stream'[Len(stream')]
        /\ Processing' => Processing /\ First' = First
    BY <1>6, AddedPlaces DEF IsNew
  <2>3. RevisionsArePast'
    <3>1. entity' \in Nat
      BY <1>1, <1>2, NumberTypes
    <3>2. ASSUME NEW i \in Places'
          PROVE  stream'[i].entity <= entity' /\ (i < Len(stream') => stream'[i].entity < entity')
      <4>1. CASE i = Len(stream')
        BY <2>2, <3>1, <4>1 DEF Places
      <4>2. CASE i < Len(stream') /\ i \in Places /\ stream'[i] = stream[i]
        <5>1. stream[i].entity \in Nat /\ stream'[i].entity < entity'
          BY <1>2, <1>4, <4>2, NumberTypes
        <5> QED
          BY <3>1, <4>2, <5>1
      <4> QED
        BY <2>1, <4>1, <4>2
    <3> QED
      BY <1>1, <1>3, <3>2 DEF RevisionsArePast
  <2>4. Processing' => First'.entity < entity'
    <3> SUFFICES ASSUME Processing' PROVE First'.entity < entity'
      OBVIOUS
    <3>1. stream # <<>> /\ First' = First
      BY <2>2 DEF Processing
    <3>2. 1 \in Places /\ entity \in Nat /\ stream[1].entity \in Nat
      BY <1>2, <3>1, NumberTypes DEF Places
    <3>3. stream[1].entity <= entity
      BY <1>2, <3>2 DEF RevisionsArePast
    <3> QED
      BY <1>1, <3>1, <3>2, <3>3 DEF First
  <2> QED
    BY <1>3, <2>2, <2>3, <2>4 DEF Ahead, EffectsAhead, NewestRowIsCurrent
<1> QED
  BY <1>1, <1>5, <1>6

LEMMA RetryAhead ==
    ASSUME AheadInv, NEW p \in pending, Retry(p)
    PROVE  Ahead'
<1>1. UNCHANGED <<value, rev, entity, confirmed, poll, overtaken>> /\ UInv /\ Behind' = Behind
  BY DEF Retry, canonical, history, AheadInv, Behind
<1>2. CASE pending' = pending \ {p} /\ UNCHANGED <<conflicts, pointer, stream>>
  <2>1. (Live' => Live) /\ HasCandidate' = HasCandidate
    BY <1>2 DEF Live, HasCandidate
  <2> QED
    BY <1>1, <1>2, <2>1 DEF AheadInv, Ahead, RevisionsArePast, EffectsAhead, NewestRowIsCurrent,
                            Processing, First, Latest, Places, Unfinished
<1>3. CASE pointer[conflicts[p.conflict].field] = p.conflict
           /\ ResolvedWith(p.conflict, value, rev, entity)
  <2>1. Live
    BY <1>3 DEF Live
  <2>2. Added(value, entity, rev) /\ OthersAreStuck
    BY <1>3 DEF ResolvedWith
  <2>3. \A i \in Places' : i = Len(stream') \/
            (i < Len(stream') /\ i \in Places /\ stream'[i] = stream[i])
    BY <2>2, AddedPlaces
  <2>4. /\ stream'[Len(stream')].entity = entity /\ stream'[Len(stream')].row = value
        /\ stream' # <<>> /\ Latest' = stream'[Len(stream')]
        /\ Processing' => Processing /\ First' = First
    BY <2>2, AddedPlaces DEF IsNew
  <2>5. RevisionsArePast'
    <3>1. entity \in Nat
      BY <1>1, NumberTypes
    <3>2. ASSUME NEW i \in Places'
          PROVE  /\ stream'[i].entity <= entity
                 /\ i < Len(stream') => ~Unfinished(stream'[i])
      <4>1. CASE i = Len(stream')
        BY <2>4, <3>1, <4>1 DEF Places
      <4>2. CASE i < Len(stream') /\ i \in Places /\ stream'[i] = stream[i]
        <5>1. i \in 1 .. Len(stream') - 1
          BY <2>2, <4>2 DEF Places, Added
        <5> QED
          BY <2>2, <4>2, <5>1 DEF OthersAreStuck, AheadInv, RevisionsArePast
      <4> QED
        BY <2>3, <4>1, <4>2
    <3> QED
      BY <1>1, <3>2 DEF AheadInv, RevisionsArePast, Unfinished
  <2>6. EffectsAhead'
    BY <1>1, <2>1, <2>4 DEF AheadInv, EffectsAhead
  <2> QED
    BY <1>1, <2>4, <2>5, <2>6 DEF Ahead, NewestRowIsCurrent
<1> QED
  BY <1>2, <1>3, RetryAdds DEF AheadInv

\* What a delivery leaves of the stream.
LEMMA SettledPlaces ==
    ASSUME UInv, stream # <<>>, Unfinished(First), Settled
    PROVE  /\ Places' = Places /\ Len(stream') = Len(stream) /\ stream' # <<>>
           /\ \A i \in Places : Same(stream'[i], stream[i])
                                /\ (Unfinished(stream'[i]) => Unfinished(stream[i]))
           /\ \A i \in Places : i # 1 => stream'[i] = stream[i]
<1>1. Len(stream) \in Nat /\ Len(stream) # 0 /\ Len(stream') = Len(stream)
  BY NumberTypes DEF Settled
<1>2. \A i \in Places : i = 1 \/ i \in 2 .. Len(stream)
  BY <1>1 DEF Places
<1> QED
  BY <1>1, <1>2 DEF Settled, Same, Places, First, Unfinished

LEMMA DroppedPlaces ==
    ASSUME UInv, stream # <<>>, Dropped, stream' \in Seq(Effect)
    PROVE  /\ \A i \in Places' : i + 1 \in Places /\ stream'[i] = stream[i + 1]
                                 /\ Waiting(stream'[i])
           /\ Len(stream') = Len(stream) - 1 /\ ~Processing'
<1>1. /\ Len(stream) \in Nat /\ Len(stream) # 0 /\ Len(stream') = Len(stream) - 1
      /\ \A i \in 1 .. Len(stream') : stream'[i] = stream[i + 1]
      /\ \A i \in 2 .. Len(stream) : Waiting(stream[i])
  BY NumberTypes DEF Dropped, UInv, StreamTypes
<1>2. \A i \in Places' : i + 1 \in Places /\ i + 1 \in 2 .. Len(stream)
  BY <1>1 DEF Places
<1>3. \A i \in Places' : stream'[i] = stream[i + 1] /\ Waiting(stream'[i])
  BY <1>1, <1>2 DEF Places
<1> QED
  <2> SUFFICES ASSUME Processing' PROVE FALSE
    BY <1>1, <1>2, <1>3
  <2>1. CASE Len(stream') = 0
    <3>1. stream' = <<>>
      BY <2>1
    <3> QED
      BY <3>1 DEF Processing
  <2>2. CASE Len(stream') # 0
    <3>1. 1 \in Places'
      BY <1>1, <2>2 DEF Places
    <3> QED
      BY <1>3, <3>1 DEF Processing, First, Waiting
  <2> QED
    BY <2>1, <2>2

LEMMA DeliveryAhead == ASSUME AheadInv, Delivery PROVE Ahead'
<1>1. UInv
  BY DEF AheadInv
<1>2. /\ stream # <<>> /\ Unfinished(First) /\ First \in Effect /\ Delivered /\ stream' \in Seq(Effect)
      /\ UNCHANGED <<value, rev, entity, conflicts, pointer, pending, poll, overtaken>>
  BY <1>1, DeliveryDelivers DEF canonical, disputes
<1>3. Live' = Live /\ HasCandidate' = HasCandidate /\ (~HasCandidate => ~Live)
  BY <1>1, <1>2, LiveHasCandidate DEF Live, HasCandidate
<1>4. /\ entity \in Nat /\ Len(stream) \in Nat /\ Len(stream) # 0 /\ First.entity \in Nat
      /\ 1 \in Places /\ First.entity <= entity
      /\ 1 < Len(stream) => First.entity < entity
  BY <1>1, <1>2, NumberTypes DEF AheadInv, RevisionsArePast, Places, First
<1>5. CASE Settled /\ UNCHANGED confirmed
  <2>1. /\ Places' = Places /\ Len(stream') = Len(stream) /\ stream' # <<>>
        /\ \A i \in Places : Same(stream'[i], stream[i])
                             /\ (Unfinished(stream'[i]) => Unfinished(stream[i]))
    BY <1>1, <1>2, <1>5, SettledPlaces
  <2>2. Behind' = Behind
    BY <1>2, <1>5 DEF Behind
  <2>3. RevisionsArePast'
    BY <1>2, <1>5, <2>1 DEF AheadInv, RevisionsArePast, Same
  <2>4. Processing' => (Processing \/ ~HasCandidate) /\ First'.entity = First.entity
    <3>1. First' = stream'[1] /\ First'.entity = First.entity
      BY <1>4, <2>1 DEF First, Same
    <3>2. ASSUME Processing' PROVE Processing \/ ~HasCandidate
      <4>1. stream'[1].status \in {"claimed", "planned", "matched", "uncertain"}
        BY <3>1, <3>2 DEF Processing
      <4>2. CASE Moves
        BY <4>1, <4>2 DEF Moves
      <4>3. CASE Finds \/ LandsUnconfirmed \/ Lands \/ FoundLanded
        BY <4>3 DEF Finds, LandsUnconfirmed, FoundLanded, Lands, FirstIs, Processing
      <4> QED
        BY <1>2, <4>2, <4>3 DEF Delivered
    <3> QED
      BY <3>1, <3>2
  <2>5. EffectsAhead'
    BY <1>2, <1>3, <2>1, <2>2, <2>4 DEF AheadInv, EffectsAhead, Same
  <2>6. NewestRowIsCurrent'
    <3>1. Len(stream) \in Places
      BY <1>4 DEF Places
    <3>2. Latest'.row = Latest.row /\ (Unfinished(Latest') => Unfinished(Latest))
      BY <2>1, <3>1 DEF Latest, Same
    <3>3. Unfinished(Latest)' = Unfinished(Latest')
      BY DEF Unfinished
    <3> QED
      BY <1>2, <1>3, <2>1, <3>2, <3>3 DEF AheadInv, NewestRowIsCurrent
  <2> QED
    BY <2>3, <2>5, <2>6 DEF Ahead
<1>6. CASE Confirmed
  <2>1. /\ confirmed'.entity = First.entity /\ confirmed'.row = First.row
        /\ Processing
    BY <1>2, <1>6 DEF Confirmed, Delivered, Moves, Finds, LandsUnconfirmed, FoundLanded, Settled,
       Dropped, Lands, FirstIs, Processing
  <2>2. /\ \A i \in Places' : i + 1 \in Places /\ stream'[i] = stream[i + 1]
        /\ Len(stream') = Len(stream) - 1 /\ ~Processing'
    BY <1>1, <1>2, <1>6, DroppedPlaces DEF Confirmed
  <2>3. ASSUME Behind, First.entity < entity PROVE Behind'
    BY <1>2, <2>1, <2>3 DEF Behind
  <2>4. RevisionsArePast'
    <3>1. ASSUME NEW i \in Places'
          PROVE  /\ stream'[i].entity <= entity
                 /\ i < Len(stream') /\ Unfinished(stream'[i]) => stream'[i].entity < entity
      <4>1. i \in Nat /\ i + 1 \in Places /\ stream'[i] = stream[i + 1]
        BY <2>2 DEF Places
      <4>2. i < Len(stream') => i + 1 < Len(stream)
        BY <1>4, <2>2, <4>1
      <4> QED
        BY <4>1, <4>2 DEF AheadInv, RevisionsArePast
    <3> QED
      BY <1>2, <1>4, <2>1, <3>1 DEF RevisionsArePast, Unfinished
  <2>5. EffectsAhead'
    <3> SUFFICES ASSUME ~overtaken PROVE EffectsAhead'
      BY <1>2 DEF EffectsAhead
    <3>1. Live => Behind'
      BY <2>1, <2>3 DEF AheadInv, EffectsAhead
    <3>2. ASSUME NEW i \in Places', Unfinished(stream'[i]), stream'[i].entity # 0
          PROVE  Behind'
      <4>1. i \in Nat /\ i # 0 /\ i + 1 \in Places /\ stream'[i] = stream[i + 1]
        BY <2>2 DEF Places
      <4>2. 1 < Len(stream)
        BY <1>4, <4>1 DEF Places
      <4> QED
        BY <1>4, <2>3, <3>2, <4>1, <4>2 DEF AheadInv, EffectsAhead
    <3> QED
      BY <1>3, <2>2, <3>1, <3>2 DEF EffectsAhead, Unfinished
  <2>6. NewestRowIsCurrent'
    <3> SUFFICES ASSUME ~HasCandidate, ~overtaken
                 PROVE  IF stream' = <<>> THEN confirmed'.row = value
                        ELSE Unfinished(stream'[Len(stream')]) => stream'[Len(stream')].row = value
      BY <1>2, <1>3 DEF NewestRowIsCurrent, Latest, Unfinished
    <3>1. Unfinished(stream[Len(stream)]) => stream[Len(stream)].row = value
      BY <1>2 DEF AheadInv, NewestRowIsCurrent, Latest
    <3>2. CASE Len(stream) = 1
      <4>1. stream' = <<>> /\ First.row = value
        BY <1>2, <2>2, <3>1, <3>2 DEF First
      <4> QED
        BY <2>1, <4>1
    <3>3. CASE Len(stream) # 1
      <4>1. Len(stream') \in Places' /\ stream' # <<>> /\ Len(stream') + 1 = Len(stream)
        BY <1>4, <2>2, <3>3 DEF Places
      <4>2. stream'[Len(stream')] = stream[Len(stream)]
        BY <2>2, <4>1
      <4> QED
        BY <3>1, <4>1, <4>2
    <3> QED
      BY <3>2, <3>3
  <2> QED
    BY <2>4, <2>5, <2>6 DEF Ahead
<1> QED
  BY <1>2, <1>5, <1>6 DEF Delivered, Moves, Finds, LandsUnconfirmed, FoundLanded

LEMMA CleanupAhead == ASSUME AheadInv, CleanupRewrite PROVE Ahead'
<1>1. /\ UInv /\ Added(value, 0, rev) /\ Len(stream') = 1
      /\ UNCHANGED <<canonical, disputes, confirmed, poll, overtaken>>
  BY CleanupAdds DEF AheadInv, history
<1>2. /\ Places' = {1} /\ stream'[1].entity = 0 /\ stream'[1].row = value /\ stream' # <<>>
      /\ Latest' = stream'[1] /\ First' = stream'[1] /\ ~Processing'
  BY <1>1, AddedPlaces DEF IsNew, Places, First, Processing
<1>3. ~Live /\ Live' = Live /\ entity' = entity /\ value' = value
  BY <1>1, LiveHasCandidate DEF CleanupRewrite, disputes, canonical, Live
<1> QED
  BY <1>1, <1>2, <1>3, NumberTypes
     DEF AheadInv, Ahead, RevisionsArePast, EffectsAhead, NewestRowIsCurrent

LEMMA PollingAhead == ASSUME AheadInv, PollRead \/ PollObserve PROVE Ahead'
<1>1. UNCHANGED <<value, entity, conflicts, pointer, pending, confirmed, stream, overtaken>>
  BY DEF PollRead, PollObserve, history, canonical, disputes
<1>2. Behind => Behind'
  <2>1. CASE PollRead
    BY <1>1, <2>1 DEF PollRead, Behind
  <2>2. CASE PollObserve
    <3>1. poll # NoPoll /\ poll \in PollRecord
      BY <2>2 DEF AheadInv, UInv, PollTypeOK, PollObserve, NoPoll
    <3>2. poll' = NoPoll \/ (poll'.entity = poll.entity /\ poll'.confirmed = poll.confirmed)
      BY <2>2, <3>1 DEF PollObserve, PollRecord
    <3> QED
      BY <1>1, <3>1, <3>2 DEF Behind
  <2> QED
    BY <2>1, <2>2
<1>3. Live' = Live /\ HasCandidate' = HasCandidate /\ Places' = Places
      /\ Processing' = Processing /\ First' = First /\ Latest' = Latest
  BY <1>1 DEF Live, HasCandidate, Places, Processing, First, Latest
<1> QED
  BY <1>1, <1>2, <1>3 DEF AheadInv, Ahead, RevisionsArePast, EffectsAhead, NewestRowIsCurrent, Unfinished

\* A poll that was not overtaken accepts nothing as long as an effect is to
\* land, and all it sees when it disputes nothing.
LEMMA PollAccepts ==
    ASSUME AheadInv, PollPersist, ~overtaken', Accepted # {}
    PROVE  /\ ~overtaken /\ entity = poll.entity /\ poll.rev = rev /\ poll.value = value
           /\ ~Forced /\ ~Live /\ \A i \in Places : ~Unfinished(stream[i])
<1>1. UInv /\ poll \in PollRecord /\ poll # NoPoll
  BY DEF PollPersist, AheadInv, UInv, PollTypeOK, NoPoll
<1>2. /\ ~overtaken /\ entity = poll.entity
      /\ \A i \in Places : ~(Unfinished(stream[i]) /\ stream[i].entity = 0)
  BY DEF PollPersist, Overtaken, Places
<1>3. poll.rev = rev /\ poll.value = value
  BY <1>1, <1>2 DEF UInv, PollIsPast
<1>4. ~Forced
  BY DEF Accepted, Disputed
<1>5. ~Behind
  BY <1>1, <1>2, <1>4 DEF Behind, Forced
<1> QED
  BY <1>2, <1>3, <1>4, <1>5 DEF AheadInv, EffectsAhead

LEMMA PollPersistAhead == ASSUME AheadInv, PollPersist PROVE Ahead'
<1>1. UInv /\ poll \in PollRecord /\ poll # NoPoll
  BY DEF PollPersist, AheadInv, UInv, PollTypeOK, NoPoll
<1>2. /\ OpenConflicts /\ AcceptFields /\ poll' = NoPoll /\ stream' = stream /\ pending' = pending
      /\ overtaken' = (overtaken \/ Overtaken)
  BY DEF PollPersist
<1>3. /\ \A c \in 1 .. Len(conflicts) : conflicts'[c].field = conflicts[c].field
      /\ \A f \in Fields : f \in NewDisputes => pointer'[f] > Len(conflicts)
      /\ \A f \in Fields : f \notin NewDisputes => pointer'[f] = pointer[f]
  BY <1>1, <1>2, OpensConflicts
<1>4. /\ Len(conflicts) \in Nat /\ conflicts \in Seq(Conflict)
      /\ \A p \in pending : p.conflict \in 1 .. Len(conflicts)
  BY <1>1 DEF UInv, DisputeTypes, CommandsKnown
<1>5. Live' => Live
  <2> SUFFICES ASSUME NEW p \in pending, pointer'[conflicts'[p.conflict].field] = p.conflict
               PROVE  pointer[conflicts[p.conflict].field] = p.conflict
    BY <1>2 DEF Live
  <2>1. p.conflict \in 1 .. Len(conflicts)
    BY <1>4
  <2>2. conflicts[p.conflict] \in Conflict
    BY <1>4, <2>1
  <2>3. conflicts[p.conflict].field \in Fields
    BY <2>2 DEF Conflict
  <2>4. pointer'[conflicts[p.conflict].field] = p.conflict
    BY <1>3, <2>1
  <2> QED
    BY <1>3, <1>4, <2>1, <2>3, <2>4
<1>6. HasCandidate => HasCandidate'
  <2> SUFFICES ASSUME NEW f \in Fields, pointer[f] # 0 PROVE pointer'[f] # 0
    BY DEF HasCandidate
  <2> QED
    BY <1>3, <1>4
<1>7. Processing' = Processing /\ First' = First /\ Latest' = Latest /\ Places' = Places
  BY <1>2 DEF Processing, First, Latest, Places
<1>8. RevisionsArePast'
  <2>1. \/ confirmed' = confirmed /\ entity' = entity
        \/ confirmed'.entity = entity + 1 /\ entity' = entity + 1
    BY <1>2 DEF AcceptFields, canonical
  <2>2. confirmed'.entity <= entity' /\ entity <= entity' /\ entity' \in Nat
    BY <1>1, <2>1, NumberTypes DEF AheadInv, RevisionsArePast
  <2>3. ASSUME NEW i \in Places
        PROVE  /\ stream[i].entity <= entity'
               /\ i < Len(stream) /\ Unfinished(stream[i]) => stream[i].entity < entity'
    BY <1>1, <2>2, NumberTypes DEF AheadInv, RevisionsArePast
  <2> QED
    BY <1>2, <1>7, <2>2, <2>3 DEF RevisionsArePast, Unfinished
<1> SUFFICES ASSUME ~overtaken' PROVE EffectsAhead' /\ NewestRowIsCurrent'
  BY <1>8 DEF Ahead, EffectsAhead, NewestRowIsCurrent
<1>9. ~overtaken /\ entity = poll.entity
  BY <1>2 DEF Overtaken
<1>10. CASE Accepted = {}
  <2>1. UNCHANGED <<value, entity, confirmed>> /\ (Behind => Behind')
    BY <1>2, <1>10 DEF AcceptFields, canonical, Behind
  <2> QED
    BY <1>2, <1>5, <1>6, <1>7, <1>9, <2>1 DEF AheadInv, EffectsAhead, NewestRowIsCurrent, Unfinished
<1>11. CASE Accepted # {}
  <2>1. poll.value = value /\ ~Live /\ \A i \in Places : ~Unfinished(stream[i])
    BY <1>11, PollAccepts
  <2>2. EffectsAhead'
    BY <1>2, <1>5, <1>7, <2>1 DEF EffectsAhead, Unfinished
  <2>3. stream # <<>> => ~Unfinished(Latest)
    BY <1>1, <2>1, NumberTypes DEF Latest, Places
  <2>4. ASSUME ~HasCandidate' PROVE confirmed'.row = value'
    <3>1. \A f \in Fields : pointer'[f] = 0
      BY <2>4 DEF HasCandidate
    <3>2. Disputed = {}
      <4>1. ASSUME NEW f \in Disputed PROVE FALSE
        <5>1. f \in Fields
          BY DEF Disputed, Changed
        <5>2. f \notin NewDisputes
          BY <1>3, <1>4, <3>1, <5>1
        <5>3. pointer[f] # 0
          BY <4>1, <5>2 DEF NewDisputes, SameCandidate
        <5> QED
          BY <1>3, <3>1, <5>1, <5>2, <5>3
      <4> QED
        BY <4>1
    <3>3. /\ value' = [f \in Fields |-> IF f \in Accepted THEN poll.row[f] ELSE value[f]]
          /\ confirmed'.row = poll.row
      BY <1>2, <1>11 DEF AcceptFields
    <3>4. \A f \in Fields : f \notin Accepted => poll.row[f] = value[f]
      BY <2>1, <3>2 DEF Accepted, Changed
    <3>5. poll.row \in Rows
      BY <1>1 DEF PollRecord
    <3> QED
      BY <3>3, <3>4, <3>5 DEF Rows
  <2> QED
    BY <1>2, <1>7, <2>2, <2>3, <2>4 DEF NewestRowIsCurrent, Unfinished
<1> QED
  BY <1>10, <1>11

LEMMA AheadHolds == Spec => []AheadInv
<1>1. Init => AheadInv
  <2> SUFFICES ASSUME Init PROVE Ahead
    BY UInitial DEF AheadInv, Ahead
  <2>1. /\ entity = 1 /\ confirmed.entity = 1 /\ confirmed.row = value /\ stream = <<>>
        /\ pending = {} /\ Places = {}
    BY DEF Init, Places
  <2> QED
    BY <2>1 DEF Ahead, RevisionsArePast, EffectsAhead, NewestRowIsCurrent, Live
<1>2. AheadInv /\ [Next]_vars => AheadInv'
  <2> SUFFICES ASSUME AheadInv, [Next]_vars PROVE Ahead'
    BY StepKeeps DEF AheadInv, Ahead
  <2>1. CASE \E f \in Fields, v \in Values : Flush(f, v)
    BY <2>1, FlushAhead
  <2>2. CASE \E p \in pending : Retry(p)
    BY <2>2, RetryAhead
  <2>3. CASE Delivery
    BY <2>3, DeliveryAhead
  <2>4. CASE CleanupRewrite
    BY <2>4, CleanupAhead
  <2>5. CASE PollRead \/ PollObserve
    BY <2>5, PollingAhead
  <2>6. CASE PollPersist
    BY <2>6, PollPersistAhead
  <2>7. CASE \/ \E f \in Fields, v \in Values : HumanEdit(f, v)
             \/ PollKnown \/ PollDropped \/ Restart \/ UNCHANGED vars
    <3>1. UNCHANGED <<canonical, disputes, overtaken, confirmed, stream>> /\ poll' \in {poll, NoPoll}
      BY <2>7 DEF HumanEdit, PollKnown, PollDropped, Restart, vars, history
    <3> QED
      BY <3>1, AheadUndisturbed
  <2> QED
    BY <2>1, <2>2, <2>3, <2>4, <2>5, <2>6, <2>7 DEF Next, Delivery
<1> QED
  BY <1>1, <1>2, PTL DEF Spec

\* As long as no conflict holds the row and no poll was overtaken, the newest
\* of what the row is going to show is canonical state: flushes queue behind
\* effects under way with what they make of the row (projectionBaseline), and a
\* resolution delivers the flushes its candidate has suppressed.
THEOREM NewestRowIsCurrentHolds == Spec => []NewestRowIsCurrent
<1>1. AheadInv => NewestRowIsCurrent
  BY DEF AheadInv
<1> QED
  BY <1>1, AheadHolds, PTL

-----------------------------------------------------------------------------
(* What effects overwrite                                                  *)

Recorded(row) == row \in written \cup ledger

\* The rows that guards are planned from, the confirmed one, the evidence of
\* the candidates and the row of the effect before, are rows the system wrote
\* or has on record, at the latest when the effect is the first one.
GuardsRecorded ==
    /\ Recorded(confirmed.row)
    /\ \A c \in 1 .. Len(conflicts) : Recorded(conflicts[c].row)
    /\ \A i \in Places :
           /\ stream[i].entity # 0 =>
                  Recorded(stream[i].guard) \/ (i # 1 /\ stream[i].guard = stream[i - 1].row)
           /\ stream[i].landed => stream[i].row \in written
    /\ FirstIs("planned") /\ ~typed => sheet = First.guard

\* Steps that leave the row and the stream alone.
LEMMA RecordsGrow ==
    ASSUME GuardsRecorded, written \subseteq written', ledger \subseteq ledger',
           UNCHANGED <<confirmed, conflicts, stream>>,
           (sheet' = sheet /\ typed' = typed) \/ typed' = TRUE
    PROVE  GuardsRecorded'
<1>1. Places' = Places /\ First' = First /\ \A s : FirstIs(s)' = FirstIs(s)
  BY DEF Places, First, FirstIs
<1> QED
  BY <1>1 DEF GuardsRecorded, Recorded

\* Steps that add an effect whose guard is recorded, or is the row of the
\* effect before it.
LEMMA RecordsAdd ==
    ASSUME GuardsRecorded, UNCHANGED <<confirmed, sheet, written, ledger, typed>>, SameRows,
           NEW row, NEW ent, NEW shows, Added(row, ent, shows),
           LET n == Len(stream')
           IN  ent # 0 => Recorded(stream'[n].guard)
                          \/ (n # 1 /\ stream'[n].guard = stream'[n - 1].row)
    PROVE  GuardsRecorded'
<1>1. /\ \A i \in Places' : i = Len(stream') \/
             (i < Len(stream') /\ i \in Places /\ stream'[i] = stream[i])
      /\ ~stream'[Len(stream')].landed /\ stream'[Len(stream')].entity = ent
      /\ Processing' => Processing /\ First' = First
  BY AddedPlaces DEF IsNew
<1>2. /\ confirmed'.row \in written' \cup ledger'
      /\ \A c \in 1 .. Len(conflicts') : conflicts'[c].row \in written' \cup ledger'
  BY DEF GuardsRecorded, Recorded, SameRows
<1>3. ASSUME NEW i \in Places'
      PROVE  /\ stream'[i].entity # 0 =>
                    \/ stream'[i].guard \in written' \cup ledger'
                    \/ i # 1 /\ stream'[i].guard = stream'[i - 1].row
             /\ stream'[i].landed => stream'[i].row \in written'
  <2>1. CASE i = Len(stream')
    BY <1>1, <2>1 DEF Recorded
  <2>2. CASE i < Len(stream') /\ i \in Places /\ stream'[i] = stream[i]
    <3>1. i # 1 => stream'[i - 1] = stream[i - 1]
      <4> SUFFICES ASSUME i # 1 PROVE stream'[i - 1] = stream[i - 1]
        OBVIOUS
      <4>1. i - 1 \in Places' /\ i - 1 # Len(stream')
        BY <2>2 DEF Places
      <4> QED
        BY <1>1, <4>1
    <3> QED
      BY <2>2, <3>1 DEF GuardsRecorded, Recorded
  <2> QED
    BY <1>1, <2>1, <2>2
<1>4. FirstIs("planned")' /\ ~typed' => sheet' = First'.guard
  <2>1. FirstIs("planned")' => FirstIs("planned") /\ First' = First
    BY <1>1 DEF FirstIs, Processing
  <2> QED
    BY <2>1 DEF GuardsRecorded
<1> QED
  BY <1>2, <1>3, <1>4 DEF GuardsRecorded, Recorded

LEMMA FlushRecords ==
    ASSUME UInv, GuardsRecorded, NEW f \in Fields, NEW v \in Values, Flush(f, v)
    PROVE  GuardsRecorded'
<1>1. UNCHANGED <<confirmed, sheet, written, ledger, typed>> /\ SameRows
  BY FlushAdds
<1>2. CASE stream' = stream
  <2>1. Places' = Places /\ First' = First /\ FirstIs("planned")' = FirstIs("planned")
    BY <1>2 DEF Places, First, FirstIs
  <2> QED
    BY <1>1, <1>2, <2>1 DEF GuardsRecorded, Recorded, SameRows
<1>3. CASE Added(value', entity', rev') /\ OverEvidence
  <2>1. Recorded(stream'[Len(stream')].guard)
    BY <1>3 DEF OverEvidence, GuardsRecorded
  <2> QED
    BY <1>1, <1>3, <2>1, RecordsAdd
<1>4. CASE /\ Added(value', entity', rev') /\ Len(stream') = Len(stream) + 1
           /\ stream'[Len(stream')].guard = IF stream = <<>> THEN confirmed.row ELSE Latest.row
  <2>1. CASE stream = <<>>
    <3>1. Recorded(stream'[Len(stream')].guard)
      BY <1>4, <2>1 DEF GuardsRecorded
    <3> QED
      BY <1>1, <1>4, <3>1, RecordsAdd
  <2>2. CASE stream # <<>>
    <3>1. Len(stream) \in Nat /\ Len(stream) # 0
      BY <2>2, NumberTypes
    <3>2. stream'[Len(stream)] = stream[Len(stream)]
      BY <1>4, <3>1 DEF Added
    <3>3. Len(stream') # 1 /\ stream'[Len(stream')].guard = stream'[Len(stream') - 1].row
      BY <1>4, <2>2, <3>1, <3>2 DEF Latest
    <3> QED
      BY <1>1, <1>4, <3>3, RecordsAdd
  <2> QED
    BY <2>1, <2>2
<1> QED
  BY <1>2, <1>3, <1>4, FlushAdds

LEMMA RetryRecords ==
    ASSUME UInv, GuardsRecorded, NEW p \in pending, Retry(p)
    PROVE  GuardsRecorded'
<1>1. UNCHANGED <<confirmed, sheet, written, ledger, typed>>
  BY DEF Retry, history
<1>2. CASE UNCHANGED <<conflicts, pointer, stream>>
  BY <1>1, <1>2, RecordsGrow
<1>3. CASE ResolvedWith(p.conflict, value, rev, entity)
  <2>1. Added(value, entity, rev) /\ OverEvidence /\ SameRows
    BY <1>3 DEF ResolvedWith, SameRows
  <2>2. Recorded(stream'[Len(stream')].guard)
    BY <2>1 DEF OverEvidence, GuardsRecorded
  <2> QED
    BY <1>1, <2>1, <2>2, RecordsAdd
<1> QED
  BY <1>2, <1>3, RetryAdds

LEMMA DeliveryRecords ==
    ASSUME UInv, GuardsRecorded, Delivery
    PROVE  GuardsRecorded'
<1>1. /\ stream # <<>> /\ Unfinished(First) /\ Delivered /\ stream' \in Seq(Effect)
      /\ UNCHANGED <<conflicts, ledger>>
  BY DeliveryDelivers DEF disputes
<1>2. 1 \in Places /\ First = stream[1] /\ Len(stream) \in Nat
  BY <1>1, NumberTypes DEF Places, First
<1>3. written \subseteq written'
  BY <1>1 DEF Delivered, Moves, Finds, LandsUnconfirmed, FoundLanded, Lands
<1>4. \A c \in 1 .. Len(conflicts') : conflicts'[c].row \in written' \cup ledger'
  BY <1>1, <1>3 DEF GuardsRecorded, Recorded
<1>5. CASE Settled /\ UNCHANGED confirmed
  <2>1. /\ Places' = Places
        /\ \A i \in Places : Same(stream'[i], stream[i])
        /\ \A i \in Places : i # 1 => stream'[i] = stream[i]
    BY <1>1, <1>5, SettledPlaces
  <2>2. stream'[1].landed => First.row \in written'
    BY <1>1, <1>2, <1>3, <1>5 DEF Delivered, Moves, Finds, LandsUnconfirmed, FoundLanded, Lands,
       GuardsRecorded, Confirmed, Settled, Dropped
  <2>3. FirstIs("planned")' /\ ~typed' => sheet' = First'.guard
    <3> SUFFICES ASSUME FirstIs("planned")' PROVE sheet' = First'.guard
      OBVIOUS
    <3>1. stream'[1].status = "planned" /\ First' = stream'[1] /\ First'.guard = First.guard
      BY <1>2, <2>1 DEF FirstIs, First, Same
    <3>2. Moves
      BY <1>1, <1>5, <3>1, <1>2 DEF Delivered, Finds, LandsUnconfirmed, FoundLanded, Confirmed,
         Settled, Dropped
    <3> QED
      BY <3>1, <3>2 DEF Moves
  <2>4. ASSUME NEW i \in Places
        PROVE  /\ stream'[i].entity # 0 =>
                      \/ stream'[i].guard \in written' \cup ledger'
                      \/ i # 1 /\ stream'[i].guard = stream'[i - 1].row
               /\ stream'[i].landed => stream'[i].row \in written'
    <3>1. Same(stream'[i], stream[i]) /\ (i # 1 => i - 1 \in Places /\ stream'[i] = stream[i])
      BY <1>2, <2>1 DEF Places
    <3>2. i # 1 => Same(stream'[i - 1], stream[i - 1])
      BY <2>1, <3>1
    <3>3. stream'[i].landed => stream'[i].row \in written'
      BY <1>2, <1>3, <2>2, <3>1 DEF Same, GuardsRecorded
    <3> QED
      BY <1>1, <1>3, <3>1, <3>2, <3>3 DEF Same, GuardsRecorded, Recorded
  <2> QED
    BY <1>1, <1>3, <1>4, <1>5, <2>1, <2>3, <2>4 DEF GuardsRecorded, Recorded
<1>6. CASE Confirmed
  <2>1. First.row \in written' /\ confirmed'.row = First.row
    BY <1>1, <1>2, <1>3, <1>6 DEF Delivered, Moves, Finds, LandsUnconfirmed, FoundLanded, Lands,
       GuardsRecorded, Confirmed, Settled, Dropped
  <2>2. /\ \A i \in Places' : i + 1 \in Places /\ stream'[i] = stream[i + 1]
        /\ ~Processing'
    BY <1>1, <1>6, DroppedPlaces DEF Confirmed
  <2>3. ~FirstIs("planned")'
    BY <2>2 DEF FirstIs, Processing
  <2>4. ASSUME NEW i \in Places'
        PROVE  /\ stream'[i].entity # 0 =>
                      \/ stream'[i].guard \in written' \cup ledger'
                      \/ i # 1 /\ stream'[i].guard = stream'[i - 1].row
               /\ stream'[i].landed => stream'[i].row \in written'
    <3>1. i \in Nat /\ i # 0 /\ i + 1 \in Places /\ stream'[i] = stream[i + 1]
      BY <2>2 DEF Places
    <3>2. i # 1 => stream'[i - 1] = stream[i]
      <4> SUFFICES ASSUME i # 1 PROVE stream'[i - 1] = stream[i]
        OBVIOUS
      <4>1. i - 1 \in Places' /\ (i - 1) + 1 = i
        BY <3>1 DEF Places
      <4> QED
        BY <2>2, <4>1
    <3>3. stream'[i].entity # 0 => Recorded(stream'[i].guard) \/ stream'[i].guard = stream[i].row
      BY <3>1 DEF GuardsRecorded
    <3>4. CASE i = 1
      BY <1>1, <1>2, <1>3, <2>1, <3>1, <3>3, <3>4 DEF GuardsRecorded, Recorded
    <3>5. CASE i # 1
      BY <1>1, <1>3, <3>1, <3>2, <3>3, <3>5 DEF GuardsRecorded, Recorded
    <3> QED
      BY <3>4, <3>5
  <2> QED
    BY <1>4, <2>1, <2>3, <2>4 DEF GuardsRecorded, Recorded
<1> QED
  BY <1>1, <1>5, <1>6 DEF Delivered, Moves, Finds, LandsUnconfirmed, FoundLanded

LEMMA CleanupRecords == ASSUME UInv, GuardsRecorded, CleanupRewrite PROVE GuardsRecorded'
<1>1. /\ Added(value, 0, rev) /\ SameRows
      /\ UNCHANGED <<confirmed, sheet, written, ledger, typed>>
  BY CleanupAdds DEF disputes, history, SameRows
<1> QED
  BY <1>1, RecordsAdd

LEMMA PollRecords == ASSUME UInv, GuardsRecorded, PollPersist PROVE GuardsRecorded'
<1>1. poll \in PollRecord /\ OpenConflicts /\ AcceptFields
  BY DEF PollPersist, UInv, PollTypeOK, NoPoll
<1>2. /\ ledger' = ledger \cup {poll.row}
      /\ UNCHANGED <<written, stream, sheet, typed>>
  BY DEF PollPersist
<1>3. \A c \in 1 .. Len(conflicts') :
          \/ conflicts'[c].row = poll.row
          \/ c \in 1 .. Len(conflicts) /\ conflicts'[c].row = conflicts[c].row
  BY <1>1, OpensConflicts
<1>4. confirmed' = confirmed \/ confirmed'.row = poll.row
  BY <1>1 DEF AcceptFields
<1>5. Places' = Places /\ First' = First /\ FirstIs("planned")' = FirstIs("planned")
  BY <1>2 DEF Places, First, FirstIs
<1> QED
  BY <1>2, <1>3, <1>4, <1>5 DEF GuardsRecorded, Recorded

LEMMA RecordsHold == Spec => [](UInv /\ GuardsRecorded)
<1>1. Init => UInv /\ GuardsRecorded
  <2> SUFFICES ASSUME Init PROVE GuardsRecorded
    BY UInitial
  <2>1. /\ confirmed.row = value /\ Len(conflicts) = 0 /\ written = {value}
        /\ stream = <<>> /\ Places = {}
    BY DEF Init, Places
  <2> QED
    BY <2>1 DEF GuardsRecorded, Recorded, FirstIs
<1>2. UInv /\ GuardsRecorded /\ [Next]_vars => UInv' /\ GuardsRecorded'
  <2> SUFFICES ASSUME UInv, GuardsRecorded, [Next]_vars PROVE GuardsRecorded'
    BY StepKeeps
  <2>1. CASE \E f \in Fields, v \in Values : Flush(f, v)
    BY <2>1, FlushRecords
  <2>2. CASE \E p \in pending : Retry(p)
    BY <2>2, RetryRecords
  <2>3. CASE Delivery
    BY <2>3, DeliveryRecords
  <2>4. CASE CleanupRewrite
    BY <2>4, CleanupRecords
  <2>5. CASE PollPersist
    BY <2>5, PollRecords
  <2>6. CASE \/ \E f \in Fields, v \in Values : HumanEdit(f, v)
             \/ PollRead \/ PollObserve \/ PollKnown \/ PollDropped \/ Restart \/ UNCHANGED vars
    <3>1. /\ UNCHANGED <<confirmed, conflicts, stream, written>> /\ ledger \subseteq ledger'
          /\ (sheet' = sheet /\ typed' = typed) \/ typed' = TRUE
      BY <2>6 DEF HumanEdit, PollRead, PollObserve, PollKnown, PollDropped, Restart, vars,
         disputes, history
    <3> QED
      BY <3>1, RecordsGrow
  <2> QED
    BY <2>1, <2>2, <2>3, <2>4, <2>5, <2>6 DEF Next, Delivery
<1> QED
  BY <1>1, <1>2, PTL DEF Spec

\* What people type is not lost to a flush or a resolution unless they type
\* between its preflight and its write: guards are planned from nothing but the
\* confirmed row or the effect before (projectionBaseline) and the evidence of
\* a candidate (applyResolvedCommandWithSql), and a replaced row is on record
\* by the time its follower is the first.
THEOREM TypedCellsAreNotLost == Spec => FlushesOverwriteRecordedCells
<1>1. UInv /\ GuardsRecorded /\ [Next]_vars
          => [Landing /\ First.entity # 0 /\ ~typed => OnRecord]_vars
  <2> SUFFICES ASSUME UInv, GuardsRecorded, Landing, First.entity # 0, ~typed
               PROVE  OnRecord
    OBVIOUS
  <2>1. FirstIs("planned") /\ stream # <<>> /\ 1 \in Places /\ First = stream[1]
    BY NumberTypes DEF Landing, FirstIs, Places, First
  <2>2. sheet = First.guard /\ Recorded(First.guard)
    BY <2>1 DEF GuardsRecorded
  <2> QED
    BY <2>2 DEF Recorded, OnRecord
<1> QED
  BY <1>1, RecordsHold, PTL DEF Spec, FlushesOverwriteRecordedCells

-----------------------------------------------------------------------------
(* What the cells show                                                     *)

PollRevisionsArePast ==
    poll # NoPoll => poll.confirmed.entity <= poll.entity /\ \A f \in Fields : poll.rev[f] <= rev[f]

\* An effect of the entity as it is shows the fields as they are.
EffectsShow == \A i \in Places : stream[i].entity = entity => stream[i].shows = rev

\* The cells show the current revisions once the row was confirmed from the
\* current entity, or its effect is on the sheet or was found to be; they will
\* when an effect that is to land has landed; and a poll that read such a row
\* and forces nothing to be disputed may trust every field that has not moved
\* since.
CellsShowCurrent ==
    ~overtaken =>
        /\ confirmed.entity = entity => shown = rev
        /\ \A i \in Places : i = 1 /\ (stream[i].landed \/ stream[i].status = "matched")
               /\ stream[i].entity = entity => shown = rev
        /\ \A i \in Places : Unfinished(stream[i]) /\ stream[i].entity = 0
               /\ confirmed.entity = entity => stream[i].shows = rev
        /\ poll # NoPoll /\ ~Forced => \A f \in Fields : poll.rev[f] = rev[f] =>
               /\ shown[f] = rev[f]
               /\ \A i \in Places : Unfinished(stream[i]) => stream[i].shows[f] = rev[f]

Shown == PollRevisionsArePast /\ EffectsShow /\ CellsShowCurrent

ShownInv == AheadInv /\ Shown

\* Steps that leave canonical state, the stream and what is shown alone: they
\* may end the poll.
LEMMA ShownUndisturbed ==
    ASSUME ShownInv, UNCHANGED <<canonical, overtaken, confirmed, shown, stream>>,
           poll' \in {poll, NoPoll}
    PROVE  Shown'
<1>1. UNCHANGED <<rev, entity, overtaken, confirmed, shown, stream>> /\ Places' = Places
  BY DEF canonical, Places
<1>2. CASE poll' = NoPoll
  BY <1>1, <1>2 DEF ShownInv, Shown, PollRevisionsArePast, EffectsShow, CellsShowCurrent, Unfinished
<1>3. CASE poll' = poll
  <2>1. Forced' = Forced
    BY <1>3 DEF Forced
  <2> QED
    BY <1>1, <1>3, <2>1
       DEF ShownInv, Shown, PollRevisionsArePast, EffectsShow, CellsShowCurrent, Unfinished
<1> QED
  BY <1>2, <1>3

\* Steps that add an effect which shows the fields as they are.
LEMMA ShownAdds ==
    ASSUME ShownInv, UNCHANGED <<rev, entity, overtaken, confirmed, shown, poll>>,
           NEW row, NEW ent, Added(row, ent, rev)
    PROVE  Shown'
<1>1. /\ \A i \in Places' : i = Len(stream') \/
             (i < Len(stream') /\ i \in Places /\ stream'[i] = stream[i])
      /\ ~stream'[Len(stream')].landed /\ stream'[Len(stream')].status # "matched"
      /\ stream'[Len(stream')].shows = rev
  BY AddedPlaces DEF IsNew
<1>2. Forced' = Forced
  BY DEF Forced
<1> QED
  BY <1>1, <1>2 DEF ShownInv, Shown, PollRevisionsArePast, EffectsShow, CellsShowCurrent, Unfinished

LEMMA FlushShows ==
    ASSUME ShownInv, NEW f \in Fields, NEW v \in Values, Flush(f, v)
    PROVE  Shown'
<1>1. /\ rev' = [rev EXCEPT ![f] = @ + 1] /\ rev' \in Revisions /\ entity' = entity + 1
      /\ UNCHANGED <<confirmed, poll, shown, overtaken>>
      /\ stream' = stream \/ Added(value', entity', rev')
  BY FlushAdds DEF ShownInv, AheadInv
<1>2. /\ UInv /\ rev \in Revisions /\ confirmed.entity <= entity
      /\ \A i \in Places : stream[i].entity <= entity
  BY DEF ShownInv, AheadInv, RevisionsArePast, UInv, RowTypes
<1>3. /\ entity \in Nat /\ confirmed.entity \in Nat
      /\ \A i \in Places : stream[i].entity \in Nat
  BY <1>2, NumberTypes
<1>4. rev'[f] = rev[f] + 1 /\ \A g \in Fields : rev[g] \in Nat /\ (g # f => rev'[g] = rev[g])
  BY <1>1, <1>2 DEF Revisions
<1>5. poll # NoPoll => \A g \in Fields :
          poll.rev[g] <= rev'[g] /\ (poll.rev[g] = rev'[g] => rev'[g] = rev[g])
  <2> SUFFICES ASSUME poll # NoPoll, NEW g \in Fields
               PROVE  poll.rev[g] <= rev'[g] /\ (poll.rev[g] = rev'[g] => rev'[g] = rev[g])
    OBVIOUS
  <2>1. poll.rev[g] \in Nat
    BY <1>2 DEF UInv, PollTypeOK, PollRecord, Revisions
  <2>2. poll.rev[g] <= rev[g] /\ rev[g] \in Nat
    BY <1>4 DEF ShownInv, Shown, PollRevisionsArePast
  <2> QED
    BY <1>4, <2>1, <2>2
<1>6. PollRevisionsArePast'
  BY <1>1, <1>5 DEF ShownInv, Shown, PollRevisionsArePast
<1>7. /\ confirmed'.entity # entity' /\ \A i \in Places : stream[i].entity # entity'
      /\ Forced' = Forced
  BY <1>1, <1>2, <1>3 DEF Forced
<1>8. \A i \in Places' :
          \/ i \in Places /\ stream'[i] = stream[i]
          \/ stream'[i].shows = rev' /\ ~stream'[i].landed /\ stream'[i].status = "pending"
  <2>1. CASE stream' = stream
    BY <2>1 DEF Places
  <2>2. CASE Added(value', entity', rev')
    BY <2>2, AddedPlaces DEF IsNew
  <2> QED
    BY <1>1, <2>1, <2>2
<1>9. EffectsShow'
  BY <1>7, <1>8 DEF EffectsShow
<1>10. ASSUME ~overtaken', poll' # NoPoll, ~Forced', NEW g \in Fields, poll'.rev[g] = rev'[g]
       PROVE  /\ shown'[g] = rev'[g]
              /\ \A i \in Places' : Unfinished(stream'[i]) => stream'[i].shows[g] = rev'[g]
  <2>1. ~Forced /\ rev'[g] = rev[g] /\ poll.rev[g] = rev[g]
    BY <1>1, <1>5, <1>7, <1>10
  <2>2. /\ shown[g] = rev[g]
        /\ \A i \in Places : Unfinished(stream[i]) => stream[i].shows[g] = rev[g]
    BY <1>1, <1>10, <2>1 DEF ShownInv, Shown, CellsShowCurrent
  <2> QED
    BY <1>1, <1>8, <2>1, <2>2
<1>11. CellsShowCurrent'
  BY <1>7, <1>8, <1>10 DEF CellsShowCurrent, Unfinished
<1> QED
  BY <1>6, <1>9, <1>11 DEF Shown

LEMMA RetryShows ==
    ASSUME ShownInv, NEW p \in pending, Retry(p)
    PROVE  Shown'
<1>1. UNCHANGED <<canonical, rev, entity, confirmed, poll, shown, overtaken>>
  BY DEF Retry, canonical, history
<1>2. CASE UNCHANGED stream
  BY <1>1, <1>2, ShownUndisturbed
<1>3. CASE ResolvedWith(p.conflict, value, rev, entity)
  BY <1>1, <1>3, ShownAdds DEF ResolvedWith
<1> QED
  BY <1>2, <1>3, RetryAdds DEF ShownInv, AheadInv

LEMMA CleanupShows == ASSUME ShownInv, CleanupRewrite PROVE Shown'
<1>1. /\ UNCHANGED <<rev, entity, overtaken, confirmed, shown, poll>>
      /\ Added(value, 0, rev)
  BY CleanupAdds DEF ShownInv, AheadInv, canonical, history
<1> QED
  BY <1>1, ShownAdds

\* The first effect shows what the cells are to show.
LEMMA FirstShows ==
    ASSUME ShownInv, stream # <<>>, Unfinished(First), ~overtaken
    PROVE  /\ 1 \in Places /\ First = stream[1]
           /\ confirmed.entity = entity => First.shows = rev
           /\ First.entity = entity => First.shows = rev
           /\ poll # NoPoll /\ ~Forced => \A f \in Fields : poll.rev[f] = rev[f] =>
                  First.shows[f] = rev[f]
<1>1. UInv /\ 1 \in Places /\ First = stream[1]
  BY NumberTypes DEF ShownInv, AheadInv, Places, First
<1>2. First.entity # 0 => confirmed.entity < entity
  BY <1>1 DEF ShownInv, AheadInv, EffectsAhead, Behind
<1> QED
  BY <1>1, <1>2, NumberTypes DEF ShownInv, Shown, EffectsShow, CellsShowCurrent

LEMMA DeliveryShows ==
    ASSUME ShownInv, Delivery
    PROVE  Shown'
<1>1. UInv
  BY DEF ShownInv, AheadInv
<1>2. /\ stream # <<>> /\ Unfinished(First) /\ Delivered /\ stream' \in Seq(Effect)
      /\ UNCHANGED <<rev, entity, poll, overtaken>>
  BY <1>1, DeliveryDelivers DEF canonical
<1>3. Forced' = Forced /\ PollRevisionsArePast'
  BY <1>2 DEF Forced, ShownInv, Shown, PollRevisionsArePast
<1>4. First = stream[1] /\ 1 \in Places /\ entity # 0
  BY <1>1, <1>2, NumberTypes DEF First, Places
<1>5. \A i \in Places' : \E j \in Places :
          /\ Same(stream'[i], stream[j]) /\ (Unfinished(stream'[i]) => Unfinished(stream[j]))
          /\ \/ Settled /\ j = i /\ (i # 1 => stream'[i] = stream[i])
             \/ Dropped /\ Waiting(stream'[i])
  <2>1. CASE Settled
    BY <1>1, <1>2, <2>1, SettledPlaces
  <2>2. CASE Dropped
    BY <1>1, <1>2, <2>2, DroppedPlaces DEF Same
  <2> QED
    BY <1>2, <2>1, <2>2 DEF Delivered, Moves, Finds, LandsUnconfirmed, FoundLanded, Confirmed
<1>6. EffectsShow'
  BY <1>2, <1>5 DEF ShownInv, Shown, EffectsShow, Same
<1> SUFFICES ASSUME ~overtaken PROVE CellsShowCurrent'
  BY <1>2, <1>3, <1>6 DEF Shown, CellsShowCurrent
<1>7. /\ confirmed.entity = entity => shown = rev
      /\ (First.landed \/ First.status = "matched") /\ First.entity = entity => shown = rev
      /\ poll # NoPoll /\ ~Forced => \A f \in Fields : poll.rev[f] = rev[f] => shown[f] = rev[f]
  BY <1>4 DEF ShownInv, Shown, CellsShowCurrent
<1>8. /\ confirmed.entity = entity => First.shows = rev
      /\ First.entity = entity => First.shows = rev
      /\ poll # NoPoll /\ ~Forced => \A f \in Fields : poll.rev[f] = rev[f] => First.shows[f] = rev[f]
  BY <1>2, FirstShows
<1>9. shown' = shown \/ shown' = First.shows
  BY <1>2 DEF Delivered, Moves, Finds, LandsUnconfirmed, FoundLanded, Lands
<1>10. confirmed'.entity = entity => shown' = rev
  <2>1. CASE confirmed' = confirmed
    BY <1>7, <1>8, <1>9, <2>1
  <2>2. CASE Confirmed /\ (Lands \/ FoundLanded)
    <3>1. confirmed'.entity = First.entity
      BY <2>2 DEF Confirmed
    <3>2. shown' = First.shows \/ (shown' = shown /\ (First.landed \/ First.status = "matched"))
      BY <2>2 DEF Lands, FoundLanded, FirstIs
    <3> QED
      BY <1>7, <1>8, <3>1, <3>2
  <2> QED
    BY <1>2, <2>1, <2>2 DEF Delivered, Moves, Finds, LandsUnconfirmed, FoundLanded
<1>11. ASSUME NEW i \in Places', i = 1, stream'[i].landed \/ stream'[i].status = "matched",
              stream'[i].entity = entity
       PROVE  shown' = rev
  <2>1. Settled
    BY <1>5, <1>11 DEF Waiting
  <2>2. First.entity = entity
    BY <1>11, <2>1 DEF Settled, Same
  <2>3. \/ shown' = First.shows
        \/ shown' = shown /\ (First.landed \/ First.status = "matched")
    <3>1. CASE Moves
      BY <1>11, <3>1 DEF Moves
    <3>2. CASE Finds \/ LandsUnconfirmed \/ (Lands /\ Confirmed) \/ FoundLanded
      BY <3>2 DEF Finds, LandsUnconfirmed, FoundLanded, Lands, FirstIs
    <3> QED
      BY <1>2, <3>1, <3>2 DEF Delivered
  <2> QED
    BY <1>7, <1>8, <2>2, <2>3
<1>12. ASSUME NEW i \in Places', Unfinished(stream'[i]), stream'[i].entity = 0,
              confirmed'.entity = entity
       PROVE  stream'[i].shows = rev
  <2>1. Settled
    BY <1>5, <1>12 DEF Waiting
  <2>2. confirmed' = confirmed
    BY <1>1, <1>2, <2>1, NumberTypes
       DEF Delivered, Moves, Finds, LandsUnconfirmed, FoundLanded, Confirmed, Settled, Dropped
  <2> QED
    BY <1>5, <1>12, <2>2 DEF ShownInv, Shown, CellsShowCurrent, Same
<1>13. ASSUME poll # NoPoll, ~Forced, NEW f \in Fields, poll.rev[f] = rev[f]
       PROVE  /\ shown'[f] = rev[f]
              /\ \A i \in Places' : Unfinished(stream'[i]) => stream'[i].shows[f] = rev[f]
  BY <1>5, <1>7, <1>8, <1>9, <1>13 DEF ShownInv, Shown, CellsShowCurrent, Same
<1> QED
  BY <1>2, <1>3, <1>10, <1>11, <1>12, <1>13 DEF CellsShowCurrent, Unfinished

LEMMA PollReadShows == ASSUME ShownInv, PollRead PROVE Shown'
<1>1. /\ UNCHANGED <<rev, entity, confirmed, stream, shown, overtaken>> /\ Places' = Places
      /\ poll'.rev = rev /\ poll'.entity = entity /\ poll'.confirmed = confirmed
  BY DEF PollRead, canonical, history, Places
<1>2. UInv /\ confirmed.entity <= entity /\ \A f \in Fields : rev[f] \in Nat
  BY DEF ShownInv, AheadInv, RevisionsArePast, UInv, RowTypes, Revisions
<1>3. PollRevisionsArePast'
  BY <1>1, <1>2 DEF PollRevisionsArePast
<1>4. ~Forced' => confirmed.entity = entity
  BY <1>1, <1>2, NumberTypes DEF Forced
<1>5. ASSUME ~overtaken, confirmed.entity = entity
      PROVE  shown = rev /\ \A i \in Places : Unfinished(stream[i]) => stream[i].shows = rev
  <2>1. ~Behind
    BY <1>2, <1>5, NumberTypes DEF Behind
  <2> QED
    BY <1>5, <2>1 DEF ShownInv, AheadInv, EffectsAhead, Shown, CellsShowCurrent
<1> QED
  BY <1>1, <1>3, <1>4, <1>5 DEF ShownInv, Shown, EffectsShow, CellsShowCurrent, Unfinished

LEMMA PollObserveShows == ASSUME ShownInv, PollObserve PROVE Shown'
<1>1. UNCHANGED <<canonical, confirmed, stream, shown, overtaken>>
  BY DEF PollObserve, history
<1>2. CASE poll' = NoPoll
  BY <1>1, <1>2, ShownUndisturbed
<1>3. CASE poll' = [poll EXCEPT !.at = "observed", !.row = sheet]
  <2>1. poll # NoPoll /\ poll \in PollRecord
    BY DEF PollObserve, ShownInv, AheadInv, UInv, PollTypeOK, NoPoll
  <2>2. poll'.rev = poll.rev /\ poll'.entity = poll.entity /\ poll'.confirmed = poll.confirmed
    BY <1>3, <2>1 DEF PollRecord
  <2>3. UNCHANGED <<rev, entity, confirmed, stream, shown, overtaken>> /\ Forced' = Forced
        /\ Places' = Places
    BY <1>1, <2>2 DEF canonical, Forced, Places
  <2> QED
    BY <2>1, <2>2, <2>3
       DEF ShownInv, Shown, PollRevisionsArePast, EffectsShow, CellsShowCurrent, Unfinished
<1> QED
  BY <1>2, <1>3 DEF PollObserve

\* A poll that accepts a field and was not overtaken trusts its cell with
\* reason, and the row that was confirmed with it shows all there is.
LEMMA PollPersistShows == ASSUME ShownInv, PollPersist PROVE Shown'
<1>1. /\ UInv /\ poll \in PollRecord /\ poll # NoPoll
      /\ rev \in Revisions /\ shown \in Revisions
      /\ \A i \in Places : stream[i].entity <= entity
  BY DEF PollPersist, ShownInv, AheadInv, RevisionsArePast, UInv, PollTypeOK, NoPoll, RowTypes
<1>2. /\ AcceptFields /\ poll' = NoPoll /\ stream' = stream /\ Places' = Places
      /\ overtaken' = (overtaken \/ Overtaken)
  BY DEF PollPersist, Places
<1>3. PollRevisionsArePast'
  BY <1>2 DEF PollRevisionsArePast
<1>4. CASE Accepted = {}
  <2>1. UNCHANGED <<rev, entity, confirmed, shown>>
    BY <1>2, <1>4 DEF AcceptFields, canonical
  <2> QED
    BY <1>2, <1>3, <2>1 DEF ShownInv, Shown, EffectsShow, CellsShowCurrent, Unfinished
<1>5. CASE Accepted # {}
  <2>1. entity' = entity + 1
    BY <1>2, <1>5 DEF AcceptFields
  <2>2. \A i \in Places' : stream'[i].entity # entity'
    BY <1>1, <1>2, <2>1, NumberTypes
  <2>3. CellsShowCurrent'
    <3> SUFFICES ASSUME ~overtaken' PROVE CellsShowCurrent'
      BY DEF CellsShowCurrent
    <3>1. /\ ~overtaken /\ poll.rev = rev /\ ~Forced
          /\ \A i \in Places : ~Unfinished(stream[i])
      BY <1>5, PollAccepts DEF ShownInv
    <3>2. \A f \in Fields : shown[f] = rev[f]
      BY <1>1, <3>1 DEF ShownInv, Shown, CellsShowCurrent
    <3>3. shown' = rev'
      BY <1>2, <1>5, <3>2 DEF AcceptFields
    <3> QED
      BY <1>2, <2>2, <3>1, <3>3 DEF CellsShowCurrent, Unfinished
  <2> QED
    BY <1>3, <2>2, <2>3 DEF Shown, EffectsShow
<1> QED
  BY <1>4, <1>5

LEMMA ShownHolds == Spec => []ShownInv
<1>1. Init => Shown
  BY DEF Init, Shown, PollRevisionsArePast, EffectsShow, CellsShowCurrent, Places
<1>2. AheadInv' /\ ShownInv /\ [Next]_vars => ShownInv'
  <2> SUFFICES ASSUME AheadInv', ShownInv, [Next]_vars
               PROVE  Shown'
    BY DEF ShownInv
  <2>1. CASE \E f \in Fields, v \in Values : Flush(f, v)
    BY <2>1, FlushShows
  <2>2. CASE \E p \in pending : Retry(p)
    BY <2>2, RetryShows
  <2>3. CASE Delivery
    BY <2>3, DeliveryShows
  <2>4. CASE CleanupRewrite
    BY <2>4, CleanupShows
  <2>5. CASE PollRead
    BY <2>5, PollReadShows
  <2>6. CASE PollObserve
    BY <2>6, PollObserveShows
  <2>7. CASE PollPersist
    BY <2>7, PollPersistShows
  <2>8. CASE \/ \E f \in Fields, v \in Values : HumanEdit(f, v)
             \/ PollKnown \/ PollDropped \/ Restart \/ UNCHANGED vars
    <3>1. UNCHANGED <<canonical, overtaken, confirmed, shown, stream>> /\ poll' \in {poll, NoPoll}
      BY <2>8 DEF HumanEdit, PollKnown, PollDropped, Restart, vars, history
    <3> QED
      BY <3>1, ShownUndisturbed
  <2> QED
    BY <2>1, <2>2, <2>3, <2>4, <2>5, <2>6, <2>7, <2>8 DEF Next, Delivery
<1>3. Init /\ AheadInv => ShownInv
  BY <1>1 DEF ShownInv
<1> QED
  BY <1>2, <1>3, AheadHolds, PTL DEF Spec

\* Only a poll that persists accepts an edit, and only of a field of its own.
LEMMA AcceptedByPoll ==
    ASSUME UInv, [Next]_vars, NEW f \in Fields, EditAccepted(f)
    PROVE  PollPersist /\ f \in Accepted
<1>1. poll \in PollRecord /\ poll # NoPoll /\ poll' # poll /\ rev' # rev
  BY DEF EditAccepted, UInv, PollTypeOK, NoPoll
<1>2. PollPersist
  BY <1>1 DEF Next, Flush, HumanEdit, Retry, Claim, Preflight, Apply, LoseReply, Probe, DeliveryKeeps,
     CleanupRewrite, PollRead, PollObserve, PollKnown, PollDropped, Restart, vars, canonical
<1>3. AcceptFields
  BY <1>2 DEF PollPersist
<1>4. f \in Accepted
  BY <1>1, <1>3, AcceptsFields DEF EditAccepted
<1> QED
  BY <1>2, <1>4

\* An edit is accepted only as a change of what its cell was made to show, the
\* current revision of its field, unless a poll was overtaken: the compare-and-
\* set of applyUpdateWithSql and the comparison of entity revisions in
\* normalizeExistingRow together are enough for it.
THEOREM AcceptedEditsWereShown == Spec => EditsReplaceWhatTheyShowUnlessOvertaken
<1>1. ShownInv /\ [Next]_vars
          => [\A f \in Fields : ~overtaken /\ EditAccepted(f) => shown[f] = rev[f]]_vars
  <2> SUFFICES ASSUME ShownInv, [Next]_vars, NEW f \in Fields, ~overtaken, EditAccepted(f)
               PROVE  shown[f] = rev[f]
    OBVIOUS
  <2>1. PollPersist /\ f \in Accepted
    BY AcceptedByPoll DEF ShownInv, AheadInv
  <2>2. poll # NoPoll /\ rev[f] = poll.rev[f]
    BY <2>1 DEF PollPersist, FieldsCurrent, NoPoll, ShownInv, AheadInv, UInv, PollTypeOK
  <2>3. ~Forced
    BY <2>1 DEF Accepted, Disputed
  <2> QED
    BY <2>2, <2>3 DEF ShownInv, Shown, CellsShowCurrent
<1> QED
  BY <1>1, ShownHolds, PTL DEF Spec, EditsReplaceWhatTheyShowUnlessOvertaken

-----------------------------------------------------------------------------
(* Cells do not go back                                                    *)

\* Shown before, to be shown, and canonical: the revisions of a field only grow
\* along the stream.
ShowsOrdered ==
    \A f \in Fields :
        /\ shown[f] <= rev[f]
        /\ \A i \in Places :
               /\ stream[i].shows[f] <= rev[f]
               /\ ~overtaken /\ Unfinished(stream[i]) => shown[f] <= stream[i].shows[f]
        /\ \A i, j \in Places : i <= j => stream[i].shows[f] <= stream[j].shows[f]

OrderedInv == AheadInv /\ ShowsOrdered

LEMMA ShowsTypes ==
    ASSUME UInv, NEW f \in Fields
    PROVE  /\ rev[f] \in Nat /\ shown[f] \in Nat
           /\ \A i \in Places : stream[i].shows[f] \in Nat
<1>1. \A i \in Places : stream[i].shows \in Revisions
  BY NumberTypes DEF Effect
<1> QED
  BY <1>1 DEF UInv, RowTypes, Revisions

\* Steps that add an effect which shows the fields as they are.
LEMMA OrderedAdds ==
    ASSUME OrderedInv, UNCHANGED <<overtaken, shown>>,
           NEW row, NEW ent, Added(row, ent, rev'),
           \A f \in Fields : rev'[f] \in Nat /\ rev[f] <= rev'[f]
    PROVE  ShowsOrdered'
<1>1. /\ \A i \in Places' : i = Len(stream') \/
             (i < Len(stream') /\ i \in Places /\ stream'[i] = stream[i])
      /\ stream'[Len(stream')].shows = rev'
  BY AddedPlaces DEF IsNew
<1> SUFFICES ASSUME NEW f \in Fields
             PROVE  /\ shown'[f] <= rev'[f]
                    /\ \A i \in Places' :
                           /\ stream'[i].shows[f] <= rev'[f]
                           /\ ~overtaken' /\ Unfinished(stream'[i]) => shown'[f] <= stream'[i].shows[f]
                    /\ \A i, j \in Places' : i <= j => stream'[i].shows[f] <= stream'[j].shows[f]
  BY DEF ShowsOrdered, Unfinished
<1>2. /\ rev[f] \in Nat /\ shown[f] \in Nat /\ rev'[f] \in Nat /\ rev[f] <= rev'[f]
      /\ shown[f] <= rev[f] /\ \A i \in Places : stream[i].shows[f] \in Nat
  BY ShowsTypes DEF OrderedInv, AheadInv, ShowsOrdered
<1>3. ASSUME NEW i \in Places'
      PROVE  /\ stream'[i].shows[f] <= rev'[f]
             /\ ~overtaken' /\ Unfinished(stream'[i]) => shown'[f] <= stream'[i].shows[f]
  <2>1. CASE i = Len(stream')
    BY <1>1, <1>2, <2>1
  <2>2. CASE i \in Places /\ stream'[i] = stream[i]
    <3>1. /\ stream[i].shows[f] <= rev[f] /\ stream[i].shows[f] \in Nat
          /\ ~overtaken /\ Unfinished(stream[i]) => shown[f] <= stream[i].shows[f]
      BY <1>2, <2>2 DEF OrderedInv, ShowsOrdered
    <3> QED
      BY <1>2, <2>2, <3>1
  <2> QED
    BY <1>1, <2>1, <2>2
<1>4. ASSUME NEW i \in Places', NEW j \in Places', i <= j
      PROVE  stream'[i].shows[f] <= stream'[j].shows[f]
  <2>1. CASE j = Len(stream')
    BY <1>1, <1>3, <2>1
  <2>2. CASE j # Len(stream')
    <3>1. j < Len(stream') /\ j \in Places /\ stream'[j] = stream[j]
      BY <1>1, <2>2
    <3>2. i # Len(stream')
      BY <1>4, <3>1 DEF Places
    <3>3. i \in Places /\ stream'[i] = stream[i]
      BY <1>1, <3>2
    <3> QED
      BY <1>4, <3>1, <3>3 DEF OrderedInv, ShowsOrdered
  <2> QED
    BY <2>1, <2>2
<1> QED
  BY <1>2, <1>3, <1>4

LEMMA FlushOrdered ==
    ASSUME OrderedInv, NEW f \in Fields, NEW v \in Values, Flush(f, v)
    PROVE  ShowsOrdered'
<1>1. /\ rev' = [rev EXCEPT ![f] = @ + 1] /\ rev \in Revisions /\ shown' = shown
      /\ overtaken' = overtaken /\ (stream' = stream \/ Added(value', entity', rev'))
  BY FlushAdds DEF OrderedInv, AheadInv, UInv, RowTypes
<1>2. \A g \in Fields : rev[g] \in Nat /\ rev'[g] \in Nat /\ rev[g] <= rev'[g]
  BY <1>1 DEF Revisions
<1>3. CASE stream' = stream
  <2>1. ASSUME NEW g \in Fields
        PROVE  shown[g] <= rev'[g] /\ \A i \in Places : stream[i].shows[g] <= rev'[g]
    <3>1. /\ shown[g] \in Nat /\ shown[g] <= rev[g]
          /\ \A i \in Places : stream[i].shows[g] \in Nat /\ stream[i].shows[g] <= rev[g]
      BY ShowsTypes DEF OrderedInv, AheadInv, ShowsOrdered
    <3> QED
      BY <1>2, <3>1
  <2> QED
    BY <1>1, <1>3, <2>1 DEF OrderedInv, ShowsOrdered, Places, Unfinished
<1>4. CASE Added(value', entity', rev')
  BY <1>1, <1>2, <1>4, OrderedAdds
<1> QED
  BY <1>1, <1>3, <1>4

LEMMA UnmovedOrdered ==
    ASSUME OrderedInv, UNCHANGED <<rev, shown, stream, overtaken>> PROVE ShowsOrdered'
  BY DEF OrderedInv, ShowsOrdered, Places, Unfinished

LEMMA RetryOrdered == ASSUME OrderedInv, NEW p \in pending, Retry(p) PROVE ShowsOrdered'
<1>1. UInv /\ rev' = rev /\ UNCHANGED <<shown, overtaken>>
  BY DEF Retry, canonical, history, OrderedInv, AheadInv
<1>2. CASE UNCHANGED stream
  BY <1>1, <1>2, UnmovedOrdered
<1>3. CASE ResolvedWith(p.conflict, value, rev, entity)
  <2>1. Added(value, entity, rev') /\ \A f \in Fields : rev'[f] \in Nat /\ rev[f] <= rev'[f]
    BY <1>1, <1>3, ShowsTypes DEF ResolvedWith
  <2> QED
    BY <1>1, <2>1, OrderedAdds
<1> QED
  BY <1>1, <1>2, <1>3, RetryAdds

LEMMA CleanupOrdered == ASSUME OrderedInv, CleanupRewrite PROVE ShowsOrdered'
<1>1. /\ UInv /\ rev' = rev /\ UNCHANGED <<shown, overtaken>> /\ Added(value, 0, rev)
  BY CleanupAdds DEF canonical, history, OrderedInv, AheadInv
<1>2. Added(value, 0, rev') /\ \A f \in Fields : rev'[f] \in Nat /\ rev[f] <= rev'[f]
  BY <1>1, ShowsTypes
<1> QED
  BY <1>1, <1>2, OrderedAdds

\* A delivery shows what was shown, or what its effect shows.
LEMMA DeliveryOrdered ==
    ASSUME OrderedInv, Delivery
    PROVE  ShowsOrdered' /\ (~overtaken => \A f \in Fields : shown[f] <= shown'[f])
<1>1. UInv
  BY DEF OrderedInv, AheadInv
<1>2. /\ stream # <<>> /\ Unfinished(First) /\ Delivered /\ stream' \in Seq(Effect)
      /\ UNCHANGED <<rev, overtaken>>
  BY <1>1, DeliveryDelivers DEF canonical
<1>3. First = stream[1] /\ 1 \in Places /\ \A i \in Places : 1 <= i
  BY <1>1, <1>2, NumberTypes DEF First, Places
<1>4. \/ /\ Places' = Places
         /\ \A i \in Places : Same(stream'[i], stream[i])
                              /\ (Unfinished(stream'[i]) => Unfinished(stream[i]))
      \/ \A i \in Places' : i + 1 \in Places /\ stream'[i] = stream[i + 1]
  <2>1. CASE Settled
    BY <1>1, <1>2, <2>1, SettledPlaces
  <2>2. CASE Dropped
    BY <1>1, <1>2, <2>2, DroppedPlaces
  <2> QED
    BY <1>2, <2>1, <2>2 DEF Delivered, Moves, Finds, LandsUnconfirmed, FoundLanded, Confirmed
<1>5. shown' = shown \/ shown' = First.shows
  BY <1>2 DEF Delivered, Moves, Finds, LandsUnconfirmed, FoundLanded, Lands
<1> SUFFICES ASSUME NEW f \in Fields
             PROVE  /\ shown'[f] <= rev[f]
                    /\ \A i \in Places' :
                           /\ stream'[i].shows[f] <= rev[f]
                           /\ ~overtaken /\ Unfinished(stream'[i]) => shown'[f] <= stream'[i].shows[f]
                    /\ \A i, j \in Places' : i <= j => stream'[i].shows[f] <= stream'[j].shows[f]
                    /\ ~overtaken => shown[f] <= shown'[f]
  BY <1>2 DEF ShowsOrdered, Unfinished
<1>6. /\ shown[f] \in Nat /\ \A i \in Places : stream[i].shows[f] \in Nat
      /\ shown[f] <= rev[f]
      /\ \A i \in Places :
             /\ stream[i].shows[f] <= rev[f] /\ First.shows[f] <= stream[i].shows[f]
             /\ ~overtaken /\ Unfinished(stream[i]) => shown[f] <= stream[i].shows[f]
      /\ \A i, j \in Places : i <= j => stream[i].shows[f] <= stream[j].shows[f]
      /\ ~overtaken => shown[f] <= First.shows[f]
  BY <1>1, <1>2, <1>3, ShowsTypes DEF OrderedInv, ShowsOrdered
<1>7. ASSUME NEW i \in Places'
      PROVE  /\ stream'[i].shows[f] <= rev[f]
             /\ ~overtaken /\ Unfinished(stream'[i]) => shown'[f] <= stream'[i].shows[f]
  <2>1. CASE i \in Places /\ Same(stream'[i], stream[i])
             /\ (Unfinished(stream'[i]) => Unfinished(stream[i]))
    BY <1>5, <1>6, <2>1 DEF Same
  <2>2. CASE i + 1 \in Places /\ stream'[i] = stream[i + 1]
    BY <1>5, <1>6, <2>2
  <2> QED
    BY <1>4, <2>1, <2>2
<1>8. ASSUME NEW i \in Places', NEW j \in Places', i <= j
      PROVE  stream'[i].shows[f] <= stream'[j].shows[f]
  <2>1. CASE Places' = Places /\ \A k \in Places : Same(stream'[k], stream[k])
    BY <1>6, <1>8, <2>1 DEF Same
  <2>2. CASE \A k \in Places' : k + 1 \in Places /\ stream'[k] = stream[k + 1]
    <3>1. i + 1 <= j + 1
      BY <1>8 DEF Places
    <3> QED
      BY <1>6, <2>2, <3>1
  <2> QED
    BY <1>4, <2>1, <2>2
<1>9. shown'[f] <= rev[f] /\ (~overtaken => shown[f] <= shown'[f])
  BY <1>3, <1>5, <1>6
<1> QED
  BY <1>7, <1>8, <1>9

\* A poll shows nothing but what it accepts.
LEMMA PollOrdered ==
    ASSUME OrderedInv, PollPersist
    PROVE  ShowsOrdered' /\ \A f \in Fields : shown[f] <= shown'[f]
<1>1. UInv /\ rev \in Revisions /\ shown \in Revisions
  BY DEF OrderedInv, AheadInv, UInv, RowTypes
<1>2. /\ AcceptFields /\ stream' = stream /\ Places' = Places
      /\ overtaken' = (overtaken \/ Overtaken)
  BY DEF PollPersist, Places
<1>3. CASE Accepted = {}
  <2>1. UNCHANGED <<rev, shown>>
    BY <1>2, <1>3 DEF AcceptFields, canonical
  <2>2. \A f \in Fields : shown[f] <= shown'[f]
    BY <1>1, <2>1, ShowsTypes
  <2> QED
    BY <1>2, <2>1, <2>2 DEF OrderedInv, ShowsOrdered, Unfinished
<1>4. CASE Accepted # {}
  <2>1. ~overtaken' => \A i \in Places : ~Unfinished(stream[i])
    BY <1>4, PollAccepts DEF OrderedInv
  <2>2. ASSUME NEW f \in Fields
        PROVE  /\ shown[f] <= shown'[f] /\ shown'[f] <= rev'[f]
               /\ \A i \in Places : stream[i].shows[f] <= rev'[f]
    <3>1. /\ rev[f] \in Nat /\ shown[f] \in Nat /\ shown[f] <= rev[f]
          /\ \A i \in Places : stream[i].shows[f] \in Nat /\ stream[i].shows[f] <= rev[f]
      BY <1>1, ShowsTypes DEF OrderedInv, ShowsOrdered
    <3>2. /\ rev'[f] = IF f \in Accepted THEN rev[f] + 1 ELSE rev[f]
          /\ shown'[f] = IF f \in Accepted THEN rev[f] + 1 ELSE shown[f]
      BY <1>2, <1>4 DEF AcceptFields
    <3> QED
      BY <3>1, <3>2
  <2> QED
    BY <1>2, <2>1, <2>2 DEF OrderedInv, ShowsOrdered, Unfinished
<1> QED
  BY <1>3, <1>4

LEMMA OrderedStep ==
    ASSUME OrderedInv, [Next]_vars
    PROVE  ShowsOrdered' /\ (~overtaken => \A f \in Fields : shown[f] <= shown'[f])
<1>1. \A f \in Fields : shown[f] <= shown[f]
  BY ShowsTypes DEF OrderedInv, AheadInv
<1>2. CASE \E f \in Fields, v \in Values : Flush(f, v)
  <2>1. shown' = shown
    BY <1>2 DEF Flush, history
  <2> QED
    BY <1>1, <1>2, <2>1, FlushOrdered
<1>3. CASE \E p \in pending : Retry(p)
  <2>1. shown' = shown
    BY <1>3 DEF Retry, history
  <2> QED
    BY <1>1, <1>3, <2>1, RetryOrdered
<1>4. CASE Delivery
  BY <1>4, DeliveryOrdered
<1>5. CASE CleanupRewrite
  <2>1. shown' = shown
    BY <1>5 DEF CleanupRewrite, history
  <2> QED
    BY <1>1, <1>5, <2>1, CleanupOrdered
<1>6. CASE PollPersist
  BY <1>6, PollOrdered
<1>7. CASE \/ \E f \in Fields, v \in Values : HumanEdit(f, v)
           \/ PollRead \/ PollObserve \/ PollKnown \/ PollDropped \/ Restart \/ UNCHANGED vars
  <2>1. UNCHANGED <<rev, shown, stream, overtaken>>
    BY <1>7 DEF HumanEdit, PollRead, PollObserve, PollKnown, PollDropped, Restart, vars, canonical,
       history
  <2> QED
    BY <1>1, <2>1, UnmovedOrdered
<1> QED
  BY <1>2, <1>3, <1>4, <1>5, <1>6, <1>7 DEF Next, Delivery

LEMMA OrderedHolds == Spec => []OrderedInv
<1>1. Init => ShowsOrdered
  BY DEF Init, ShowsOrdered, Places
<1>2. AheadInv' /\ OrderedInv /\ [Next]_vars => OrderedInv'
  BY OrderedStep DEF OrderedInv
<1>3. Init /\ AheadInv => OrderedInv
  BY <1>1 DEF OrderedInv
<1> QED
  BY <1>2, <1>3, AheadHolds, PTL DEF Spec

\* Unless a poll was overtaken, no cell is taken back to an older revision of
\* its field, although effects are planned before they land, found landed after
\* they were queued, and accepted edits overtake those that are stuck.
THEOREM CellsOnlyAdvance == Spec => CellsNeverGoBack
<1>1. OrderedInv /\ [Next]_vars => [~overtaken => \A f \in Fields : shown'[f] >= shown[f]]_vars
  <2> SUFFICES ASSUME OrderedInv, [Next]_vars, ~overtaken, NEW f \in Fields
               PROVE  shown'[f] >= shown[f]
    OBVIOUS
  <2>1. shown[f] <= shown'[f]
    BY OrderedStep
  <2> QED
    BY <2>1
<1> QED
  BY <1>1, OrderedHolds, PTL DEF Spec, CellsNeverGoBack
=============================================================================
