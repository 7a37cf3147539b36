----------------------------- MODULE FencedRole -----------------------------
(***************************************************************************)
(* What the writer lease of one role promises to everything that mutates   *)
(* durable state under it (packages/protocol/ikisaki/src/outbox/           *)
(* writerLease.ts): ownership is a sequence of epochs, every epoch belongs *)
(* to one writer, and a mutation commits only under the newest epoch.      *)
(* Clocks, expiry, heartbeats, releases and the startup wait gate are      *)
(* absent: WriterLease implements this specification, and EffectOutbox     *)
(* builds on it.                                                           *)
(***************************************************************************)
EXTENDS Naturals

CONSTANTS
    Writers,        \* writer identities (one per runtime)
    NoWriter        \* the holder before the first claim; no writer

VARIABLES
    epoch,          \* newest epoch handed out; 0 before the first claim
    holder,         \* the writer that epoch belongs to
    lastWrite       \* epoch of the newest committed fenced mutation

vars == <<epoch, holder, lastWrite>>

\* A database of an earlier release may already carry a lease row.
Init ==
    /\ \/ epoch = 0 /\ holder = NoWriter
       \/ epoch \in Nat \ {0} /\ holder \in Writers
    /\ lastWrite = 0

\* A fresh claim or a takeover: the next epoch, for one writer.
Grant(w) ==
    /\ epoch' = epoch + 1
    /\ holder' = w
    /\ UNCHANGED lastWrite

\* A fenced mutation: it commits under the newest epoch or not at all.
Write ==
    /\ epoch > 0
    /\ lastWrite' = epoch
    /\ UNCHANGED <<epoch, holder>>

Next == (\E w \in Writers : Grant(w)) \/ Write

Spec == Init /\ [][Next]_vars
=============================================================================
