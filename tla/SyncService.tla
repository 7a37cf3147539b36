---------------------------- MODULE SyncService -----------------------------
(***************************************************************************)
(* One runtime from its start to its close(): the effect and the polling   *)
(* supervisor, each a loop over passes of which one is under way at a      *)
(* time; the scan that the effect loop runs between its passes; the gates  *)
(* of the first scan and of the first poll; the stop handler, and the      *)
(* close() that several callers share.  WriterLease has what a heartbeat   *)
(* does to a lease, and how the stop handler expires the leases.           *)
(*                                                                         *)
(* The work is abstract: System_State effects that can be claimed, and a   *)
(* stream that a failed head blocks until a scan repairs it.  Time is too: *)
(* a timer that is set fires at some moment.                               *)
(***************************************************************************)
EXTENDS Naturals

CONSTANTS
    Closers,        \* callers of close(), each retries when it fails
    MaxFlushes      \* bound: flushes, of this run or still queued from an earlier one

ASSUME ServiceAssumption == MaxFlushes \in Nat

VARIABLES
    loop,           \* per supervisor: where its loop is
    slot,           \* whether a pass is under way, of the loop or of a caller
    accepting,      \* it takes passes and goes on
    stopper,        \* its stop()
    firstScan,      \* the first scan is pending
    firstPoll,      \* the first poll is
    due,            \* the scan interval has elapsed
    backlog,        \* effects that can be claimed or are in flight
    wedged,         \* a stream has a failed head that an earlier run left
    flushes,        \* flushes so far, with those an earlier run left queued
    handler,        \* the stop handler of the service
    storage,        \* the SQLite connection
    closeState,     \* of the runtime
    attempt,        \* the close attempt; its outcome while it drains the log
    caller          \* per closer: its last close()

loops == <<loop, slot>>
stops == <<accepting, stopper, handler>>
gating == <<firstScan, firstPoll, due>>
work == <<backlog, wedged, flushes>>
closing == <<storage, closeState, attempt, caller>>
serviceVars == <<loops, stops, gating, work, closing>>

Supervisors == {"effects", "polling"}

Goto(s, pc) == loop' = [loop EXCEPT ![s] = pc]

-----------------------------------------------------------------------------
(* Loops and their passes.                                                 *)

\* runOnce called by the loop: it joins the pass under way or starts one.
RunOnce(s, pc) ==
    /\ Goto(s, pc)
    /\ slot' = [slot EXCEPT ![s] = TRUE]

\* start() of both supervisors, on what an earlier run left in the outbox.
StartService ==
    /\ loop["effects"] = "off"
    /\ loop' = [effects |-> "pass", polling |-> "gate"]
    /\ slot' = [slot EXCEPT !["effects"] = TRUE]
    /\ UNCHANGED <<stops, gating, work, closing>>

Started == loop["effects"] # "off"

Gated(s) == s = "polling" /\ firstPoll

\* The head of the while loop, and the iteration up to its first await.
Iterate(s) ==
    \/ ~accepting[s] /\ Goto(s, "ended") /\ UNCHANGED slot
    \/ accepting[s] /\ Gated(s) /\ Goto(s, "gate") /\ UNCHANGED slot
    \/ accepting[s] /\ ~Gated(s) /\ RunOnce(s, "pass")

\* A loop that is told to stop does not wait.
Wait(s) == Goto(s, IF accepting[s] THEN "wait" ELSE "ended")

\* The timer fires, or stop() wakes the loop.
WaitEnds(s) ==
    /\ loop[s] = "wait"
    /\ Iterate(s)
    /\ UNCHANGED <<stops, gating, work, closing>>

\* A failed pass, and a poll however it ended.
PassIsNoted(s) ==
    /\ loop[s] = "threw" \/ (s = "polling" /\ loop[s] = "passed")
    /\ Wait(s)
    /\ UNCHANGED <<slot, stops, gating, work, closing>>

\* A caller outside the loop runs a pass; one that joins changes nothing.
ManualRun(s) ==
    /\ Started /\ accepting[s] /\ ~slot[s]
    /\ slot' = [slot EXCEPT ![s] = TRUE]
    /\ UNCHANGED <<loop, stops, gating, work, closing>>

\* A pass settles; the loop resumes if it waits for it.
Settle(s, result) ==
    /\ slot[s]
    /\ slot' = [slot EXCEPT ![s] = FALSE]
    /\ loop' = [loop EXCEPT ![s] =
                  CASE @ = "pass" -> result
                    [] @ = "drain" -> IF result = "threw" THEN "threw" ELSE "tail"
                    [] OTHER -> @]
    /\ UNCHANGED <<stops, gating, flushes, closing>>

PassThrows(s) == Settle(s, "threw") /\ UNCHANGED <<backlog, wedged>>

PollReports == Settle("polling", "passed") /\ UNCHANGED <<backlog, wedged>>

EffectsReport ==
    /\ Settle("effects", "passed")
    /\ backlog' \in 0 .. backlog
    /\ UNCHANGED wedged

-----------------------------------------------------------------------------
(* The scan, and the gates of the first scan and the first poll.           *)

\* Mutant: the gate waits for an outbox that has nothing left to do.
FirstScanReady_Idle == backlog = 0 /\ ~wedged

\* The outbox is idle or needs a repair.
FirstScanReady == wedged \/ backlog = 0

\* The iteration of the effect loop after its pass.
AfterPass ==
    /\ loop["effects"] = "passed"
    /\ \/ ~accepting["effects"] /\ Goto("effects", "ended") /\ UNCHANGED due
       \/ accepting["effects"] /\ ~due /\ Goto("effects", "tail") /\ UNCHANGED due
       \/ accepting["effects"] /\ due /\ firstScan /\ Goto("effects", "gate") /\ UNCHANGED due
       \/ accepting["effects"] /\ due /\ ~firstScan /\ Goto("effects", "scan") /\ due' = FALSE
    /\ UNCHANGED <<slot, stops, firstScan, firstPoll, work, closing>>

\* The first scan runs if the gate lets it, also when a stop came meanwhile.
ScanGateAnswers ==
    /\ loop["effects"] = "gate"
    /\ Goto("effects", IF FirstScanReady THEN "scan" ELSE "tail")
    /\ firstScan' = ~FirstScanReady
    /\ due' = ~FirstScanReady
    /\ UNCHANGED <<slot, stops, firstPoll, work, closing>>

ScanGateThrows ==
    /\ loop["effects"] = "gate"
    /\ Goto("effects", "tail")
    /\ UNCHANGED <<slot, stops, gating, work, closing>>

\* A scan that repairs enqueues a correction, and the loop drains it at once.
ScanRepairs ==
    /\ loop["effects"] = "scan" /\ wedged
    /\ wedged' = FALSE
    /\ backlog' = backlog + 1
    /\ IF accepting["effects"] THEN RunOnce("effects", "drain")
                               ELSE Goto("effects", "tail") /\ UNCHANGED slot
    /\ UNCHANGED <<stops, gating, flushes, closing>>

\* It finds nothing to repair, defers to what is in flight, or throws.
ScanDoesNothing ==
    /\ loop["effects"] = "scan"
    /\ Goto("effects", "tail")
    /\ UNCHANGED <<slot, stops, gating, work, closing>>

\* A pass or scan with progress is followed by the next one at once, unless the
\* pass failed or only requeued.
Tail ==
    /\ loop["effects"] = "tail"
    /\ (Wait("effects") /\ UNCHANGED slot) \/ Iterate("effects")
    /\ UNCHANGED <<stops, gating, work, closing>>

ScanFallsDue ==
    /\ Started /\ ~due
    /\ due' = TRUE
    /\ UNCHANGED <<loops, stops, firstScan, firstPoll, work, closing>>

\* waitForSystemStateDrainReadiness returns: nothing to drain, or a stop.
PollGateOpens ==
    /\ loop["polling"] = "gate"
    /\ backlog = 0 \/ ~accepting["polling"]
    /\ firstPoll' = FALSE
    /\ IF accepting["polling"] THEN RunOnce("polling", "pass")
                               ELSE Goto("polling", "ended") /\ UNCHANGED slot
    /\ UNCHANGED <<stops, firstScan, due, work, closing>>

PollGateThrows ==
    /\ loop["polling"] = "gate"
    /\ Wait("polling")
    /\ UNCHANGED <<slot, stops, gating, work, closing>>

-----------------------------------------------------------------------------
(* stop() of a supervisor, and the stop handler.                           *)

Stop(s) ==
    /\ accepting' = [accepting EXCEPT ![s] = FALSE]
    /\ stopper' = [stopper EXCEPT ![s] = "loop"]

LoopIsOver(s) ==
    /\ stopper[s] = "loop" /\ loop[s] = "ended"
    /\ stopper' = [stopper EXCEPT ![s] = "pass"]
    /\ UNCHANGED <<loops, accepting, handler, gating, work, closing>>

\* Mutant: stop() waits for the loop, and not for the pass of a caller.
PassIsOver_Loop(s) == loop[s] = "ended"

\* No pass is under way.
PassIsOver(s) == ~slot[s]

StopEnds(s) ==
    /\ stopper[s] = "pass" /\ PassIsOver(s)
    /\ stopper' = [stopper EXCEPT ![s] = "done"]
    /\ UNCHANGED <<loops, accepting, handler, gating, work, closing>>

\* The first call stops inbound reads, later ones share it.
StopHandler ==
    IF handler = "no" THEN handler' = "polling" /\ Stop("polling") ELSE UNCHANGED stops

\* stop() of the service, without a close().
StopService ==
    /\ Started /\ handler = "no"
    /\ StopHandler
    /\ UNCHANGED <<loops, gating, work, closing>>

HandlerStopsEffects ==
    /\ handler = "polling" /\ stopper["polling"] = "done"
    /\ handler' = "effects"
    /\ Stop("effects")
    /\ UNCHANGED <<loops, gating, work, closing>>

\* The leases are expired.
HandlerEnds ==
    /\ handler = "effects" /\ stopper["effects"] = "done"
    /\ handler' = "stopped"
    /\ UNCHANGED <<loops, accepting, stopper, gating, work, closing>>

-----------------------------------------------------------------------------
(* The application and close().                                            *)

Flush ==
    /\ Started /\ storage = "open" /\ flushes < MaxFlushes
    /\ flushes' = flushes + 1
    /\ backlog' = backlog + 1
    /\ UNCHANGED <<loops, stops, gating, wedged, closing>>

\* A call joins the attempt under way, also one that is done but for the log;
\* without one, a success is final, and a failure is retried.
Join(c) ==
    /\ attempt # "none"
    /\ caller' = [caller EXCEPT ![c] = "waiting"]
    /\ UNCHANGED <<stops, storage, closeState, attempt>>

IsClosed(c) ==
    /\ attempt = "none" /\ closeState = "closed"
    /\ caller' = [caller EXCEPT ![c] = "closed"]
    /\ UNCHANGED <<stops, storage, closeState, attempt>>

Attempt(c) ==
    /\ attempt = "none" /\ closeState # "closed"
    /\ attempt' = "hook" /\ closeState' = "closing"
    /\ caller' = [caller EXCEPT ![c] = "waiting"]
    /\ StopHandler
    /\ UNCHANGED storage

CloseCalled(c) ==
    /\ Started /\ caller[c] \in {"new", "failed"}
    /\ Join(c) \/ IsClosed(c) \/ Attempt(c)
    /\ UNCHANGED <<loops, gating, work>>

HookEnds ==
    /\ attempt = "hook" /\ handler = "stopped"
    /\ attempt' = "provider"
    /\ UNCHANGED <<loops, stops, gating, work, storage, closeState, caller>>

\* The provider closes SQLite, or fails and leaves the runtime open.
ProviderCloses ==
    /\ attempt = "provider"
    /\ \/ attempt' = "closed" /\ closeState' = "closed" /\ storage' = "closed"
       \/ attempt' = "failed" /\ closeState' = "open" /\ UNCHANGED storage
    /\ UNCHANGED <<loops, stops, gating, work, caller>>

\* Mutant: only a success settles the promise that the callers share.
Answer_Success(c) ==
    IF caller[c] = "waiting" /\ attempt = "closed" THEN attempt ELSE caller[c]

Answer(c) == IF caller[c] = "waiting" THEN attempt ELSE caller[c]

\* The log is drained; who waited learns how the attempt ended.
AttemptEnds ==
    /\ attempt \in {"closed", "failed"}
    /\ attempt' = "none"
    /\ caller' = [c \in Closers |-> Answer(c)]
    /\ UNCHANGED <<loops, stops, gating, work, storage, closeState>>

-----------------------------------------------------------------------------
ServiceInit ==
    /\ loop = [s \in Supervisors |-> "off"]
    /\ slot = [s \in Supervisors |-> FALSE]
    /\ accepting = [s \in Supervisors |-> TRUE]
    /\ stopper = [s \in Supervisors |-> "no"]
    /\ firstScan = TRUE /\ firstPoll = TRUE /\ due = FALSE
    /\ flushes \in 0 .. MaxFlushes /\ backlog = flushes
    /\ wedged \in BOOLEAN
    /\ handler = "no"
    /\ storage = "open" /\ closeState = "open" /\ attempt = "none"
    /\ caller = [c \in Closers |-> "new"]

EffectsLoop ==
    \/ WaitEnds("effects") \/ PassIsNoted("effects") \/ AfterPass \/ Tail
    \/ ScanGateAnswers \/ ScanGateThrows \/ ScanRepairs \/ ScanDoesNothing

PollingLoop == WaitEnds("polling") \/ PassIsNoted("polling") \/ PollGateThrows

EffectsPassEnds == PassThrows("effects") \/ EffectsReport

\* The loop sees a pass that delivers something, if there is something.
LoopDelivers ==
    loop["effects"] = "pass" /\ EffectsReport /\ (backlog' < backlog \/ backlog = 0)

PollingPassEnds == PassThrows("polling") \/ PollReports

Shutdown ==
    \/ (\E s \in Supervisors : LoopIsOver(s) \/ StopEnds(s))
    \/ HandlerStopsEffects \/ HandlerEnds \/ HookEnds \/ ProviderCloses \/ AttemptEnds

ServiceNext ==
    \/ StartService \/ EffectsLoop \/ PollingLoop \/ PollGateOpens
    \/ EffectsPassEnds \/ PollingPassEnds \/ ScanFallsDue
    \/ \E s \in Supervisors : ManualRun(s)
    \/ Flush \/ StopService \/ Shutdown
    \/ \E c \in Closers : CloseCalled(c)

ServiceSpec == ServiceInit /\ [][ServiceNext]_serviceVars

-----------------------------------------------------------------------------
\* Who is told that the runtime is closed finds SQLite closed and the log drained,
\* and while the leases expire or once SQLite is closed no loop, pass or scan is
\* under way, whoever called it and however often close() was tried: what
\* HikouteiImpl.close, the stop handler and the stop() of a supervisor promise.
CloseInOrder ==
    /\ \A c \in Closers : caller[c] = "closed" => (storage = "closed" /\ attempt = "none")
    /\ (handler = "stopped" \/ storage = "closed") =>
           (\A s \in Supervisors : ~slot[s] /\ loop[s] = "ended")

\* Every close() is answered, whether it starts an attempt or joins one, also while
\* a gate waits, a scan runs and callers run passes.
CloseEnds ==
    (\E c \in Closers : caller[c] = "waiting") ~> (\A c \in Closers : caller[c] # "waiting")

\* A runtime that is not told to stop scans and polls: neither gate, each of which
\* waits for what the effect loop is to deliver first, keeps its loop for ever.
WorkGoesOn ==
    /\ Started ~> (loop["effects"] = "scan" \/ ~accepting["effects"])
    /\ Started ~> (loop["polling"] = "pass" \/ ~accepting["polling"])
=============================================================================
