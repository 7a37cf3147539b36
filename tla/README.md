# Hikoutei in TLA+

Hikoutei keeps typed entities in SQLite and mirrors them to Google Sheets.
SQLite is the authority.  A mutation commits in one transaction together with
the *effects* that will change the sheet; workers deliver the effects later,
through an API that times out, answers late and gives no transactions across
requests; people edit the same sheets, and their edits come back through
polling, as observations, candidates and conflicts.

The difficulty is in the seams: several processes may open the same database,
any of them may pause or die anywhere, a remote write may execute after its
sender gave up on it, and a human may type at any moment.  This directory
holds the specifications of those seams, what TLC checks of them and what
TLAPS proves of them.

    tlc -workers 2 -config MCEffectDelivery.cfg MCEffectDelivery.tla
    tlapm EffectDelivery_proofs.tla

## 1. The system

Paths are below `src/packages`: `ikisaki` is `protocol/ikisaki/src`, `storage`,
`sync-engine` and `contracts` are `library/core/<name>/src`, `sheets` is
`library/cloud/sheets/src/sheets/providers/google-sheets-api`, `cli` is
`library/cloud/cli/src`.

| Component | State | Operations | Talks to |
|---|---|---|---|
| Writer lease (`ikisaki/outbox/writerLease.ts`, `worker/leaseHeartbeat.ts`, `sync-engine/sync/service/shutdown.ts`) | one row per role: writer, epoch, expiry, heartbeat | claim (fresh, own, takeover), renew, release, startup gate | everything that mutates carries a fence `<role, writer, epoch, token>` |
| Effect outbox (`ikisaki/outbox/outbox.ts`, `outboxSql.ts`) | rows ordered per target stream: status, claim, lease, timers, uncertainty | append, claim, renew, settle, requeue, mark uncertain, recover, supersede, replan | flush, scanners and resolution append; workers claim and settle |
| Effect worker (`ikisaki/worker/worker.ts`, `worker/dispatch/`) | local to a pass: fence, claims, prepared plans | recover, list, claim, gate, preflight, dispatch, read back, settle | outbox, lease, dispatcher |
| Provider (`sync-engine/sync/outbound/SheetsEffectDispatcher.ts`, `sheets/`) | the sheet, its receipt tab | preflight read, atomic batch of cells and receipts, read-back | worker, mutation lanes, request pacing |
| Flush and projection (`storage/orm/persistence/`) | canonical rows, events, projection state | plan, commit, append effects | lease (writer role), outbox |
| Projection confirmation (`ikisaki/outbox/confirmation.ts`) | confirmed visible revision and hashes | confirm with an applied effect | outbox, flush baseline |
| Scanners (`sync-engine/sync/outbound/reconciliation/`) | none of their own | compare sheet and canonical state, append corrections, supersede terminal heads | provider reads, outbox |
| Polling and observations (`storage/persistence/providers/mikro-orm/observation/`, `storage/storage/state/observation/`) | observation ledger, candidates | read the sheet, persist with deduplication and quarantine | canonical commit, conflicts |
| Conflicts (`contracts/domain/conflict/`, `storage/sync/inbound/`, `storage/storage/state/resolution/`) | conflicts, commands, audit stream | open, rebase, resolve, system wins, audit | canonical commit, outbox |
| Mutation lanes (`contracts/sheets/mutationCoordinator/`) | FIFO queue per tab | acquire sorted, run, release | dispatcher, provisioning |
| Request pacing (`ikisaki/worker/pacing/`) | slots, rolling budget, weights | admit or refuse a request start | every provider call |
| Supervisors and close (`ikisaki/worker/supervisor.ts`, `sync-engine/sync/service/`, `sync-engine/api/hikouteiCore.ts`) | two loops, their pass in flight, schedules and first-time gates; the close attempt | start, run once, stop, close | worker, scanners, polling, lease release, SQLite |
| Setup CLI (`cli/setupFlow.ts`, `checkpoint.ts`, `keyProvision.ts`, `share.ts`) | lock directory, checkpoint file, key files with their staging and cleanup directories, `.env` | create a project, a key, a spreadsheet; share it; write `.env`; add a pool account | gcloud, IAM, Drive |
| Adoption, MCP server, facade | seeding state | reads, one seeding transaction, thin exports | not part of the running protocol |

What makes each of them correct:

* **Lease**: an epoch has one writer; a mutation commits under the newest epoch
  only; a live, beating owner keeps the role; a dead one is replaced within the
  heartbeat bound; a graceful close leaves a live lease only by a failed release or a
  later claim; startup never hangs.
* **Outbox**: effects of a stream are delivered in order; a claim that lapsed
  decides nothing; a closed effect stays closed; uncertainty has one clock.
* **Delivery**: an effect reaches the sheet at most once, in stream order; it is
  closed as applied only with its receipt; no claim is held forever.
* **Scanners, flush**: a stream with an open effect can always move again.
* **Confirmation**: the confirmed revision never goes backwards, and a valid
  application is never refused.
* **Observations, conflicts**: an edit is recorded once; a canonical field
  revision is never skipped or overwritten; a command resolves the candidate it
  was issued for; the row ends up as the newest canonical one and never goes back on the way.
* **Lanes, pacing, supervisors**: mutual exclusion without deadlock; a window
  never admits more than its budget and gets back what was not used; one pass at
  a time and none after stop; a gate holds its loop back, but not for ever.
* **Setup**: killed anywhere and started again, it creates each thing once, loses no
  key it made, and never vouches for what is not there.

`PROJECT.json` lists the components, with what is modelled of each, and the
hazards of the code at the lines where they bite, with the properties that watch
them.

## 2. Modules

    FencedRole  <--refines--  WriterLease            one role, full detail
    EffectStream  <--refines--  EffectOutbox         one stream, every operation
                                     ^
                                     | extends, refines
                               EffectDelivery        workers, provider, people

    StreamRecovery                                   everybody who writes one stream:
                                                     flushes, scans, resolution, polls
    UserInput                                        edits, conflicts and flushes of a
                                                     row with several fields
    MutationLanes                                    who is at the provider at once
    RequestPacing                                    admission of request starts
    SyncService                                      one runtime's loops, gates,
                                                     stop and close
    SetupFlow                                        provisioning, before any of it runs

The last six stand beside the outbox and not on top of it: `StreamRecovery` and
`UserInput` ask what effects *say*, where `EffectDelivery` asks whether they are
delivered once and in order.  `StreamRecovery` takes a delivery as one step; in
`UserInput` it is a claim, a preflight and a write, since polls, flushes and people
come in between.  `SyncService` takes a whole pass of a loop as one
step that ends, and asks when passes run.  `SetupFlow` shares no state with
the rest: what it leaves behind is a key, a spreadsheet and the `.env` file the
service reads.

`MC*` modules give TLC its constants; `*_proofs` modules hold the proofs and
extend the module they are about.

### FencedRole, WriterLease

`FencedRole` is what the rest of the system relies on: epochs grow by one, each
belongs to one writer, and a mutation commits under the newest.

`WriterLease` is the row of one role with everything that touches it.  Every SQL
transaction is one action.  The `now` each of them compares with was read by its
caller before the transaction: actions take a `now` that lags the clock by up to
`MaxLag`.

| Spec | Code |
|---|---|
| `lease` | the `writer_lease` row, `NoLease` when absent; `beat = NoBeat` is `heartbeat_at IS NULL` |
| `fences[w]` | epochs of fences components of runtime `w` still hold; a claim adds one, nothing takes old ones away |
| `ClaimInitial`, `ClaimOwn`, `ClaimTakeover` | the three branches of `claimWriterLeaseWithSql`; a claim that fails changes nothing |
| `HeartbeatTick` | `renewWriterLeaseWithSql`, called by the timer |
| `FencedMutation` | any transaction guarded by `FENCE_EXISTS_SQL` |
| `GateBegin`, `GatePoll` | `awaitTakeoverableWriterLeaseWithAdapter`, its rules in their order |
| `BeginStop`, `Drain`, `ReadOwnLease`, `Release`, `SkipRelease` | `createStopHandler`, `expireRuntimeWriterLeases`: the release may overtake a failed drain, and reads and expires in two transactions |
| `ReleaseFails`, `CloseStorage` | a read or an expiry that throws is a warning, and the close goes on; SQLite closes last (`HikouteiImpl.performClose`).  Until then flushes of the application, which the handler does not drain, go on claiming (`MayClaim`) |
| `escaped` | history: the runtimes whose release failed, or missed a claim made after it or, with a new epoch, after its read |
| `Crash`, `Restart` | abnormal exit; a restart under the same configured writer identity |

### EffectStream, EffectOutbox

`EffectStream` promises order and finality.  `EffectOutbox` has one row per
sequence of one stream (no statement reads another stream) and one action per
operation.  It assumes nothing of its callers: whoever holds or ever held a claim
may call any holder operation at any time, with its token and any epoch that was
ever granted.  Time is nondeterministic: a lease ends, a delay passes, an
uncertainty grows overdue at any moment (`LeaseEnds`, `ComesDue`,
`GrowsOverdue`), so nothing rests on a duration.  `lapsed` and `replied` are
history variables.  `retryClaimedEffect` and `releaseUnprocessedEffect` differ in
their reason only and are one action; renewing a live lease changes nothing that
is modelled, and is kept as a stuttering step for its guard.

### EffectDelivery

Workers, requests in flight, the sheet row and its receipts, around the outbox.

| Spec | Code |
|---|---|
| `item[w]`, `pc[w]` | what the pass remembers, and where it is |
| `List`, `Claim` | `listReadyEffects`, then the claim loop; the LISTED status chooses dispatch or recovery |
| `Preflight`, `Dispatch` | the read that prepares a plan; the in-lane renewal of both leases and the send of that plan |
| `flight`, `Land`, `Drop` | a request executes on its own, or gets lost; target cells and receipt are one atomic batch |
| `PlanFor`, `Evidence` | `planEffectBatch` for one effect; `classifyCasPostcondition` |
| `Answer`, `Rejected`, `NoReply` | the reply of the batch, a proven rejection (or `schema_error`, which writes nothing either), a lost reply |
| `ReadBack`, `SettleProbe`, `Defer` | read-back and `settleUnknownPostcondition` |
| `LosesRole`, `RenewalFails` | the two failure branches of the fence and lease renewals; a fence adopted in the middle of a pass only recovers |
| `LeftOut` | an effect handed back unsent: the byte budget of the batch, or the failed renewal of another effect in the same request, also one that is to be probed (`worker.ts:279-287`) |
| `Flush`, `Correct` | the writer: a flush plans against the target of the latest effect, a scan supersedes a terminal head |
| `HumanEdit` | external |

The row's visible value stands for its hash.  A stream has at most one ready
effect, so a pass handles at most one of it, and the other effects of a request
belong to other streams.  Two answers of the worker's contract do not occur in this system: no
provider here returns `superseded` (`transitions.ts:103`), and no service configures the
replanning of a repair (`transitions.ts:617`), which therefore fails.  Everything a pass does inside a
step is one transaction or one remote call; between two steps anything may
happen.

### RequestPacing

Every provider call first passes `admitRequestStart`.  The module is that
function with the state it paces against, for any number of pooled credentials
(a *slot* each).  The code is single threaded: an action is what runs between
two awaits, and `wake` says from when a sleeping request may go on.

| Spec | Code |
|---|---|
| `request[r]` | one call of `admitRequestStart`: its shared deadline, first slot and step, the waits it was put to |
| `book[s][l]` | `RollingQuotaBudget.starts`; `by` stands for the identity of the reservation object |
| `horizon`, `pace` | `lastStartAt`; the multiplier, last event and quiet starts of a governor lane (`steppedDown` serves snapshots only) |
| `queue`, `streak`, `draining`, `serving` | `ReadQoSScheduler`; `serving` is the slot whose `serveBatch` is on the stack |
| `Attempt` in `Begin`, `NextSlot` | the pool cursor, then `RollingQuotaBudget.waitForSlot`: age out, refuse or book |
| `LaneGate` in `WriteGate`, `Pick` | `RequestStartLimiter.waitForSlot` and one iteration of `serveBatch`, which decide alike |
| `Enqueue`, `Pick`, `BatchEnds`, `Drain` | the push, the synchronous batch, the await of the drain loop and its end |
| `Undo`, `Start`, `Settle` | the rollback; `recordRequestStart` and the call; its outcome, quota-limited or not |
| `Tick` | time, which never overtakes a ready continuation by more than `MaxLate` |

The code divides a multiplier by `recoveryStepFactor` and rounds the interval;
with the shipped factors (growth 2, cap 4, step 2) multipliers are integers.
An unset budget (`Infinity`, the default) is a budget no behaviour reaches.

### StreamRecovery

The stream of one projected row and everybody who appends to it or supersedes in
it.  A scan has four steps, because the code has: the snapshot, the read of
canonical state, the plan against the stream, and the appending transaction,
which checks its assumptions again.

| Spec | Code |
|---|---|
| `fx` | `effect_outbox` of one target stream; `hash`, `rev` the guard, `value` what the row will show, `terminal` the failure class |
| `confirmed` | `sheet_visible_state`; `NoConfirmation` when there is no row |
| `sheet`, `receipts` | the rows with the target's anchor, top row first; the receipt tab |
| `candidate` | the unresolved conflict of the row and whether a system-wins command waits |
| `FlushCreate`, `FlushUpdate`, `FlushDelete` | the three flush kinds, with `FlushBaseline` (`projectionEffects.ts`) for every state of the latest effect; `MayEnqueue` refuses them where the code throws |
| `Gate`, `Deliver`, `LoseReply`, `Reject`, `Probe` | candidate gate, `Outcome` (`planner.ts`), verdict with `Confirm` in one transaction, `classifyCasPostcondition` |
| `ObserveSheet`, `ReadEvidence`, `PlanCorrection`, `Enlist` | the scans; `projection` chooses between `cleanup.ts` and `repair.ts`, and `Appendable` are the checks of `enqueue.ts` |
| `PollReadState`, `PollObserve`, `PollPersist` | a poll of the same row, in as much detail as the stream can tell (the rest is `UserInput`) |
| `RetryResolution` | the sweep for deferred system-wins commands |

`SharedLoop` says whether scans and delivery share one supervisor loop, which is
how the service composes them (`effectSupervisor.ts`); the runs use it, `Spec` also covers
two processes, which hold the two leases apart.

### UserInput

One User_Input row with several fields.  The unit of acceptance and of dispute is
the field, the unit of delivery and of confirmation is the row, and polls read
canonical state, the sheet and the database again at three different times: that
is the whole difficulty.

| Spec | Code |
|---|---|
| `value`, `rev`, `entity` | canonical fields with their revisions, the entity revision |
| `confirmed` | `sheet_visible_state` of the row, with the entity revision it was materialized from |
| `stream` | the effects of the row that are not closed, in stream order; `entity = 0` is NULL, what rewrites of the cleanup scan carry |
| `conflicts`, `pointer`, `pending` | `sync_conflict`, `active_candidate_conflict_id` of each field, deferred commands |
| `poll` | what a running poll holds between its transactions |
| `Flush` with `Enqueue` | `updateMappedEntity` and its effect, queued behind the latest one while that is pending or under way (`projectionBaseline`); an uncertain or failed one refuses the flush |
| `ConflictSync`, `Resolve`, `Defer` | `planMappedFlushConflictSyncWithSql`, `applyResolvedCommandWithSql`; a resolution takes the place of what is pending (`Kept`) |
| `Retry` | `retryPendingCommandsForConflictWithSql`.  On one row the stale branch does not fire: a newer flush replaces the command |
| `PollRead`, `PollObserve` | `readMappedPollingState`, the snapshot; `FullScans` lets polls read whole tables, which the row-check gate does not filter |
| `Forced`, `Disputed`, `Accepted` | `normalizeExistingRow`, `evaluateSingleUserField` |
| `PollPersist`, `PollKnown`, `PollDropped` | `persistObservedRowWithSql`: new, duplicate of the active candidates, stale or rejected |
| `Claim`, `Preflight`, `Apply` | the candidate gate; the read that compares the row with the guard; the write of what was prepared, which compares nothing (`applyEffects.ts:527`), with the verdict and its confirmation |
| `LoseReply`, `Probe`, `CleanupRewrite` | a claim that lapses anywhere on that way, or a lost answer; `classifyCasPostcondition`; a cleanup scan in one step |

`shown`, `written`, `typed` and `overtaken` are history.  `typed` is set by a person and
cleared by a preflight, so it says that somebody typed in the window in which nobody
looks.  `overtaken` is set when a poll
persists although a flush committed since it read, or although the cleanup scan
has planned a rewrite from values older than what is accepted now.  Both happen;
what they break is in `inputs_lost` and under
*What the scans cannot move*.  The properties that mention `overtaken` or `typed` say what
holds in all other behaviours.

### MutationLanes

`CoordinatedSheetsProvider` runs each remote call inside the lanes (one per
physical sheet) of everything it touches.  A lane is an `AsyncMutex`: who comes takes
the newest promise as the one to wait for and leaves one of its own.

| Spec | Code |
|---|---|
| `gates[l]`, `open[l]` | the promises of a lane, in order of creation, and those that are resolved; `tail` is gate `gates[l]` |
| `ticket[c][l]`, `held[c]` | the promise a call left in a lane; its release tokens |
| `Begin`, `Proceed` with `Advance` | `runMutation` up to its first await; from one await to the next |
| `Granted` | the continuation of `await previous` |
| `StartRemote`, `End` | `beforeRemote` agrees and the task starts; the `finally` of `runInLanes`, on every path |

### SyncService

One runtime from the start of its two supervisors to its `close()`.  Each
supervisor is a loop over passes, of which one is under way at a time; a caller
outside the loop joins it or starts one.  What a pass does is in the modules above; here
it only delivers some of a backlog, or fails.

| Spec | Code |
|---|---|
| `loop[s]` | where `runLoop` is: at its gate, in a pass, just after it, in the scan, in the pass that drains the scan's corrections, at the end of the iteration, waiting, or returned |
| `slot[s]` | `inFlightPass`, `inFlight`: a pass is under way, whoever called `runOnce` |
| `accepting[s]`, `stopper[s]` | `acceptingPasses` and `running`; how far `stop()` has got, which waits for the loop and then for the pass |
| `firstScan`, `firstPoll`, `due` | `firstScanPending`, `firstPassPending`, the scan interval has elapsed |
| `backlog`, `wedged` | what the readiness queries count: effects that can be claimed or are in flight; a terminal failed head, which a scan repairs |
| `AfterPass` .. `Tail` | one iteration of the effect loop, from await to await: `runScheduledReconciliation`, the drain, the wait or the immediate next pass |
| `PollGateOpens` | `waitForSystemStateDrainReadiness`, also when a stop interrupts it |
| `StopHandler` .. `HandlerEnds` | `createStopHandler`: polling, then effects, then the leases |
| `CloseCalled` .. `AttemptEnds` | `HikouteiImpl.close`: join, return, or attempt; hook, provider, log drain, and the outcome that all callers share |

A failing `stop()` is left out: supervisors swallow what their loop and pass throw.
Two things a reader of the code may expect and should not.  `supervisor.ts:86` says that
the gate is consulted until the first scan completes; `firstScanPending` is cleared once
the gate agrees, also if that scan then fails (`ScanGateAnswers`).  And a flush of the
application between the release of the leases and the close of SQLite is not prevented
(`Flush` has no guard on `handler`): it claims the writer role again, and the next runtime
waits for that lease to go stale (`WriterLease!HandoffIsImmediate`, section 3).

### SetupFlow

`hikoutei setup`, started by whoever and killed anywhere.  A remote creation can
neither be undone nor asked for twice, so each is announced in the checkpoint
before it is sent, and a run that finds an announcement looks for evidence
only: the keys that are listed and the files in the staging directory, or the
marker in the properties of a spreadsheet.

| Spec | Code |
|---|---|
| `lock` | the lock directory and its creator; a kill leaves it, the user removes it (`RemoveLock`) |
| `state`, `Save` | the checkpoint file; a save may report a failure after the rename has replaced the file |
| `run[p]` | what an invocation remembers: `mem` its copy of the checkpoint, `names` the key baseline, `mayCreate` whether it wrote the announcement itself |
| `key`, `stage`, `quarantine` | the key file of an account; the directory gcloud writes into; the directory it is renamed to for cleanup |
| `keys`, `listed`, `keyCalls` | IAM: the keys that exist, those `keys list` shows by now, the requests not executed yet; `attached` while gcloud still writes to the directory we look at |
| `sheets`, `found`, `sheetCalls` | Drive, the same way |
| `Begin`, `Accepts` | lock, load, and the refusals that precede every change |
| `AnnounceKey` .. `KeyCallAnswers` | `keyStartedState` and one pass of `settleKeyPass` per action: refuse, install, find, create, wait |
| `QuarantineStage`, `UnlinkStaged`, `RemoveQuarantine` | `cleanupOwnedStage`: rename, check that the staged file is the installed one, unlink, remove; else move back |
| `AnnounceSheet` .. `FindSheet` | marker, create, and `settleMarkerMatches` |
| `AnnounceShare` .. `SaveComplete`, `ExpandPool` .. `WritePoolEnv` | the writer permission and its origin; the pool account, whose announcement is never saved |
| `Fails`, `Crash` | any call of a run that fails; a kill.  What was sent is executed or lost on its own (`Cloud`) |

## 3. Runs

| Run | Question | Bounds |
|---|---|---|
| `lease` | ownership under races, lag, crashes, closes, late flushes and failed releases | 2 writers, clock 1..5, lease 3, stale bound 1, lag 1, 3 epochs, 1 crash; symmetric writers |
| `lease_gate` | does the gate end; is a dead owner replaced | 2 writers, one waits, cap 2 > stale bound 1, no lag |
| `outbox` | order, finality, dead claims, the clock of uncertainty | 3 effects, 2 + 1 + 1 claims, 2 epochs |
| `delivery` | at most once, in order; plans in flight are current | 2 workers, 2 effects, 2 + 1 claims, 2 epochs, 1 edit, 2 crashes |
| `delivery_late` | is any claim held forever when requests execute late | 2 workers, 2 + 1 claims, no edits, 1 crash, `LateWrites` |
| `recovery` | what writers of one stream do to each other; does drift get repaired | either projection, 2 values, 5 effects, 2 flushes, a backlog of 2, 1 edit, 1 fault, shared loop |
| `inputs` | is an edit accepted, disputed or still there; do accepted edits undo flushes; does the row end up current, and never go back on the way | 2 symmetric fields, 2 symmetric values, 2 flushes, 2 edits, 3 conflicts, 1 fault, full scans |
| `inputs_lost` | does an accepted edit ever undo a flush | the same; stops at the violation |
| `lanes` | lanes: exclusion, every call ends; or one runtime: does it close in order, answer every `close()`, and work until then | 3 calls for any subset of 3 lanes; 2 callers of `close()`, 1 flush of this run or the one before |
| `setup` | is anything created twice, lost or vouched for wrongly, wherever setup is killed | 2 symmetric processes, 3 starts, 2 kills, 2 evidence checks (the code makes 8), one pool account |
| `pacing` | budgets, rollback, one deadline, spacing, no lost waiter | 4 symmetric requests (3 polling and 1 preflight, or 4 writes), 2 slots, budgets 2 and 1, window 3, interval 2, bound 2, clock 0..5 |
| `pacing_ceiling` | does a window ever hold more starts than its budget | 4 writes, 1 slot, budget 2, window 4, interval 1; stops at the violation |

Why these bounds are enough: two writers or workers are needed for every race in
the code, which is between an owner and one successor; three effects tell the
direct predecessor from an earlier one; two claims of one effect let a stale
claim meet a newer one; two epochs (three for the lease, to see a second
takeover) let a fence be stale; the lease outlives the stale bound and the gate
outlives it too, as the defaults do (180 s, 15 s, 25 s).  Four requests fill a budget of two, book beyond it and
roll back in between; two slots let a refused request move on; a window longer
than the admission bound, as shipped (60 s, 5 s), makes refusals happen.  In the
pacing runs `MaxLate` is 0, since a lag multiplies the states; the theorems hold
for every lag.  In `recovery` five effects leave room for the first one, two
flushes behind each other, the resolution of a conflict and a correction.  In
`inputs` two fields are what it takes for one to be flushed while the other is
edited, and two edits and two flushes for each to be overtaken by the other.
Three calls on three lanes are the smallest cycle that is not a pair.  The run
`lanes` holds two components that share no state; `part` says which one
moves, so its states are the sum of theirs.  Two callers of `close()` are one
that joins or retries; one effect is what makes a gate wait, a failed head what opens
it early, and its repair adds a second effect.  In
`setup` the first start can be killed after its request is sent, the second while it
cleans up, and the third finishes; the second process tries the lock meanwhile.  Larger
instances checked by hand, with the same outcome: `delivery` with two claims of each effect and 1 crash (1.9 M states) or
with 2 + 1, 2 edits and 1 crash (1.5 M); the invariants of `recovery`
with 3 flushes and 2 faults (2.4 M states of User_Input, 0.3 M of System_State) and, without
edits, with 6 effects and 4 flushes (0.6 M of User_Input); `inputs` without faults and
with 3 flushes (7.6 M states), with 3 edits (6.1 M), with 3 values (9.4 M); `lanes` with 4 calls
on 2 lanes; `setup` with 4 starts (2.0 M).  Proofs cover the rest for every value.

Every property has a mutant in `PROJECT.json`: a plausible defect of the code
(`X_Suffix` beside `X`) with which TLC finds it violated.

`CHECK_DEADLOCK FALSE` everywhere: the bounds on clocks, epochs, claims, flushes,
edits, conflicts and starts end every behaviour, calls of `MutationLanes` are made once,
a closed runtime does nothing, and a system with nothing to deliver is idle.  Where
deadlock is a question, liveness finds it (`CallsEnd`, `CloseEnds`).

### Fairness

* `WriterLease!Fairness`: time passes; a waiting gate wakes (`setTimeout`); a
  running runtime keeps claiming, because each worker pass, scan, poll and flush
  starts with a claim.  No fairness of the heartbeat, of a stop or of a restart.
* `EffectDelivery!DeliveryFairness`: a worker that has not crashed continues its
  pass and starts the next (the supervisor loop); a request executes or is lost;
  a lease nobody renews ends.  Crashes, edits and flushes are not fair.
* `StreamRecovery!Fairness`: weak for the steps of a scan and for the resolution
  sweep, which their supervisors run periodically; strong for the delivery of each
  effect, because the shared loop makes a pass before every scan: however often
  scans run, a deliverable effect gets its turn.  Flushes, polls, people, faults
  and restarts are not fair.
* `MCLanesAndService!PartsSpec`.  Lanes: weak, some call under way goes on while one
  can; the event loop runs every continuation that is due, and a remote task ends, since
  it has a timeout.  Supervisors: weak for each loop, for the end of a pass, for the
  scan timer and for the shutdown; strong for a pass of the loop that delivers
  something and for a gate that reads the outbox, i.e. neither fails for ever.  `WorkGoesOn` needs
  the first: while the provider is down, the gates stay closed, by design.  Nobody has to
  call, flush, run a pass, stop or close, and callers may run passes without end.

### What the code says otherwise

`inputs_lost`: `MikroOrmUserInputPollingInspection.ts:260` promises that a row older
than canonical state is never evaluated against it, but forced into a conflict.
The comparison uses the canonical state the poll *read*
(`MikroOrmUserInputPolling.ts:204`), while the commit compares the revisions of
the changed fields only, and the confirmation names the entity revision that
commit made.  So: a poll reads; a flush of `f` commits; a person edits `g`; the
poll accepts `g` and confirms the row, which still shows the old `f`, as the
newest entity revision.  The effect of the flush meets a row it does not expect,
and the next poll, seeing a row confirmed as current, takes the old `f` for an
edit and accepts it.  The flush is undone without a conflict.  That second observation
must count as a new one: its key covers the snapshot hash over all rows
(`MikroOrmUserInputPollingInspection.ts:371-390`), so some other row of the table has changed or one
of the two polls has read other rows.  An unchanged snapshot is a known key with another payload and
goes to quarantine (`observationLedger.ts:158-163`); the model leaves both open (`PollDropped`).
`EditsReplaceWhatTheyShowUnlessOvertaken` is what holds: it takes that
one interleaving.

`pacing_ceiling`: `quotaGovernor.ts` documents the budget as a ceiling on request
starts per window.  It is one on *reservations* (`WindowBudget`, proved).  A
reservation is made at the slot of the budget, the lane gate comes after it and
may put the start off.  In the run, a quota-limited answer stretches the
interval of a lane, so that two starts come later than they are booked; the lane
recovers, the next start is close behind, and three starts fall into a window of
two.  `WaitBounded` limits the drift: a start is at most one admission bound
later than its reservation.  A comment nearby is out of date the other way round:
`requestAdmission.ts:120` says that a refusal of the lane leaks its budget
reservation, which `tryAdmitOnSlot` hands back (`ReservationsAreStarts`).

Five more are reproduced by putting a property in the place of those of a configuration
that is here:

* `WritesOnlyExpected`, as a PROPERTY in `MCEffectDelivery.cfg` and in
  `MCUserInput.cfg`, is violated.  `worker.ts:627` relies on guards that turn a stale preflight into a
  mismatch, and `autoSystemConflictResolution.ts:562-565` says that a later human edit fails the
  comparison instead of being silently overwritten.  The apply stage never reads again
  (`applyEffects.ts:527` says so): a flush, `Claim`, `Preflight`, an edit, `Apply`.  The
  edit is overwritten, nothing has it on record, and the effect is closed as
  applied.  What does hold: no *dispatch* comes between (`PreparedPlanIsCurrent`), what was
  typed before the preflight is safe (`FlushesOverwriteRecordedCells`), and no such write takes a cell
  back (`CellsNeverGoBack`).
* `HandoffIsImmediate`, as the only INVARIANT in `MCWriterLease.cfg`, is violated.
  `shutdown.ts:126` and `:133-138` promise that the next startup need not wait.  A release that fails
  is a warning, and a flush that the handler does not wait for claims the role again between
  release and close.  `GracefulHandoff` is what holds: nothing else survives the release, in
  particular no heartbeat and no claim that it could have seen.
* `PoolKeyCreatedOnce`, as an INVARIANT in `MCSetupFlow.cfg`, is violated.
  `setupFlow.ts:1777` says that a retry after a kill takes the orphaned key of a pool
  account for part of the baseline and fails as uncertain.  It takes it for
  part of the baseline, so nothing is new, and it creates: the marker and
  the permission to create are this run's own.  The account ends with two keys, one of
  them on no machine.  The primary account is safe (`KeyCreatedOnce`), since its announcement
  is in the checkpoint.
* `CorrectionsNeverRegress`, as the only INVARIANT in `MCStreamRecovery.cfg` with
  `Projections = {"system_state"}`, `MaxSeq = 4` and `MaxFaults = 2`, is violated within seconds.
  `repair.ts:370` says that the confirmed revision is the baseline of a correction so that its
  confirmation never regresses.  Behind an effect in flight the code adds what that effect
  will confirm (`repair.ts:275`); behind one that has failed and waits for its retry it does
  not, and the confirmed revision is stale once the retry lands.  Two effects are queued, and
  the first fails for good.  A scan finds that the second has the wanted target and only
  supersedes the first.  The second fails with an error that is retried, and the next scan
  plans its correction at revision 1.  A person makes the row show what the second effect
  expects; its retry lands and is confirmed at 3.  The correction lands after it, its
  confirmation at 2 is refused, and so is every probe of it: the stream stands still.  The
  supersede is needed: in a stream without one the effects before a failed one are applied,
  its own revision is at most the confirmed one, and the confirmation of a correction behind
  it can be equal but never lower (`RevisionsChain`, proved).
* `TombstonesLast`, as the only INVARIANT with the same constants, is violated too.  A scan reads
  a live entity, a flush deletes it, and the scan plans: behind an effect in flight its
  correction takes the next position (`repair.ts:275`), so it lands after the tombstone
  and shows the deleted entity again.  Reconciliation reads active entities only
  (`reconciliationSql.ts:83`), so nothing repairs the row.

### What the scans cannot move

The scans are the system's repair of last resort, and `DriftIsRepaired` shows
that they repair what they can.  `Movable` names what they cannot; the
following was met while modelling, each with its place in the code.  None of it
contradicts a sentence of the repository as squarely as the runs above do, so it is
recorded here and in the guards of the properties.

* **A refused confirmation.**  An effect that creates its row restarts at revision
  0, and `confirmation.ts:158` refuses a revision below the confirmed one; the
  verdict is rolled back with it, the lease lapses, the probe finds the receipt and
  is refused again, for ever.  Flushes alone get there: an update, a delete,
  a recreation and another update, queued before the first is delivered.
  So does an effect that was superseded before its followers were planned anew
  (`CorrectionsNeverRegress`), or an edit that a poll accepts between the plan and the landing.
  `RevisionsChain` says that it takes one of the three; `refused = {}` in `Movable`.
* **A pending effect behind a closed head.**  The cleanup scan looks at the latest
  effect only (`cleanup.ts:906`).  A flush queued before its predecessor ended in
  a conflict is pending behind it, can never be claimed, and makes the scan defer.
  After `blocked_candidate` a row that is clean or missing again is not planned for
  either, and nothing supersedes the head.
* **A System_State conflict.**  Reconciliation supersedes terminal `failed` heads
  only (`repair.ts`), so a head in `conflict` with a follower stays.
* **The row of a deleted entity.**  Reconciliation visits active entities and their bindings
  only, and a deletion makes both tombstones (`canonicalCommit.ts:92-97`): whatever a
  System_State tombstone row shows by mistake stays (`Drifted` asks for `Alive`).
* **A supersede without a correction** leaves followers whose guards were planned from
  the effect that is gone: they end in a conflict of their own
  (`QueuedGuardsMatch` therefore excludes superseded streams).
* **Conflicts nobody made.**  Only the gated poll asks for pending deliveries
  (`MikroOrmUserInputPollingChecks.ts:211`); safety scans and escalations read the
  whole table.  A flush commits, its effect is pending, the scan reads the old row,
  finds it older than canonical state and opens a conflict with a user who did
  nothing; the candidate gate then blocks the effect.  Rewrites of the cleanup scan
  carry no entity revision, so after one of them every edit is forced into a
  conflict as well, whatever field it is in.
* **The cleanup rewrite and the edit.**  A rewrite is planned over the observed row,
  which may already hold an edit that no poll has read: the edit is overwritten
  without being recorded, although `CleanupScanner.ts:19-21` says that cleanup never
  touches a row that a human changed.  (The guard protects from edits after the
  snapshot, not before it.)  When a poll persists an accepted edit while such
  a rewrite is in flight, the rewrite lands over the accepted value too.
  `FlushesOverwriteRecordedCells` is about all other effects, and about what was typed before
  their preflight.
* **Overtaken polls.**  A flush committed between a poll's read and its persist also
  leaves a newly opened conflict with the older canonical value:
  `ConflictTracksCanonical` therefore has `overtaken` as well.
* **A repeated edit.**  An observation is identified by its row and its binding, its
  payload contains the base revisions: typing the same row again later is an integrity
  collision and quarantined (`PollDropped`).  X, Y, X under one conflict leaves Y as the
  candidate, since the third is a duplicate of the first.
* **A pass that ends early.**  While `f` is in a conflict, an edit of `g` can make
  `advanceCandidateVisibleEvidence` throw (`candidateEvidence.ts:106`), which ends the whole
  polling pass, each time it runs (`EvidenceRejected`).
* **An older conflict stays open.**  A newer candidate of a field takes the pointer
  over (`NewDisputes`); the older conflict is never resolved, and keeps its field in
  `poll.active`: every later edit of it becomes a conflict.
* **An audit row about nothing.**  A flush that rebases and resolves a conflict in one
  transaction supersedes its own NEEDS_REBASE audit effect with the RESOLVED one.

## 4. Proofs

All theorems hold for every value of the constants that satisfies the named
`ASSUME`s (which TLC evaluates in the runs).

| Theorem | Argument |
|---|---|
| `WriterLease_proofs!EpochsAreUnique`, `ImplementsFencedRole` | inductive `EpochInv`: types, the row carries the newest granted epoch and its grant is recorded (`RowIsNewest`), one writer per epoch.  Without the middle part a takeover could repeat an epoch |
| `HandoffIsGraceful` | `DrainedReadIsCurrent`: what the release of a drained runtime read still is the row, or the row has another owner, or a claim that the release will miss is counted in `escaped` |
| `LiveOwnerIsSafe` | `EpochInv` and stamps are positive, so the clamp at zero never makes a fresh stamp stale |
| `CapMeansLiveOwner` | (`GateCapMeansLiveOwner`, which no run lists.)  Assumes `MaxWaitMs >= StaleMs`; the order of the gate's rules |
| `EffectOutbox_proofs!DeliveryIsInOrder`, `ImplementsEffectStream` | `OrderInv`: types, sequences have no gaps, and nothing is claimed past an open predecessor |
| `LapsedClaimsAreDead`, `UncertaintyClock` | `ClaimsInv`: the token in progress is the newest attempt and no decided claim has it |
| `EffectDelivery_proofs!DeliveryRefinesOutbox` | every worker step is an outbox step or none; the type invariant says that a worker between claim and verdict holds a token that was issued |
| `WorkersKeepOutboxPromises` | the outbox theorems through the refinement |
| `AppliedOnlyWithReceipt` | `ReceiptInv`: whatever a worker may still persist as applied (a reply, a replay plan, a read-back) has its receipt |
| `EffectsLandOnceInOrder`, `PlansInFlightAreCurrent` | assume `LateWrites = FALSE`.  `LandInv`, on the receipt and outbox invariants: a request in flight belongs to a live claim, a claim has one worker, and that worker waits for the answer.  Hence there is one request at a time, nobody else holds a plan that may still be sent, and whatever lands has every predecessor closed |
| `RequestPacing_proofs!WindowsWithinBudget` | `BookInv`: a book is sorted and entries `max` apart are a window apart.  Sortedness is needed: without it an insertion or a rollback could close a gap |
| `BoundedWait` | `WaitInv`: what a request waited fits between its begin and its wake, and a queued read, which is in its queue exactly once, has room for one more wait |
| `StartsAreSpaced` | `SpaceInv`: a lane's horizon is its latest planned start, and no start is so late that the horizon could be taken for a lane that never started |
| `ReservationsBelongToStarts` | `OwnInv`, on `BookInv`: a reservation is its holder's only one, where its holder is, and no older than its holder's begin, so aging out never drops a live one |
| `NoWaiterIsLost` | inductive with the types |
| `LanesAndService_proofs!LanesAreExclusive` | a lane has one unopened gate whose predecessor is open; whoever holds the lane owns that gate |
| `LanesNeverDeadlock` | (`SomeCallMoves`, which `CallsEnd` implies on the instance and no run lists.)  A call waits in the highest lane it has asked for.  Take the highest lane anybody waits in: whoever holds it waits in no higher one, so it runs |
| `ClosesInOrder` | `CloseInv`: a supervisor takes passes exactly until its `stop()` begins, `stop()` gets past loop and pass one after the other (`StopsInOrder`), the handler past the supervisors (`HandlerInOrder`), and SQLite is closed after the handler; a success is final (`AttemptInOrder`).  Loops and passes only `LoopsMove` |
| `UserInput_proofs!ConflictsTrackCanonical` | `UInv`: types, commands name conflicts that exist, and `PollIsPast`: while the entity has not moved, a poll's copy of canonical state is exact, and only fields without an active candidate are accepted |
| `NewestRowIsCurrentHolds` | `EffectsAhead`: while a command is owed or an effect is queued or under way, the row counts as materialized from an older entity, so a poll disputes whatever it sees and accepts nothing; only the latest effect can be of the current entity, and it shows the canonical row.  Hence canonical state moves only with a new effect |
| `TypedCellsAreNotLost` | `GuardsRecorded`: the confirmed row, the evidence of every conflict and the guard of the first effect of a flush or resolution are rows the system wrote or has on record; the guard of a follower is the row of its predecessor, on record once that has landed.  A preflight lets only the guard pass, and the row is still that unless somebody typed |
| `CellsOnlyAdvance` | `ShowsOrdered`, on `ShownInv`: what a cell shows, what the queued effects will show, one after the other, and the canonical revisions form an ascending chain.  A write moves the first link up to the second, and only resolutions and rewrites, which show canonical state, shorten it |
| `AcceptedEditsWereShown` | `ShownInv`, on `EffectsAhead`: once the row was confirmed from the current entity, or the effect of that entity has landed, its cells show the current revisions (`CellsShowCurrent`); the latest effect, if no candidate blocks it, will show them; and of a poll that read such a row every field whose revision has not moved may be trusted.  The comparison of entity revisions and the compare-and-set of a field are each too weak alone |
| `SetupFlow_proofs!KeyIsCreatedOnce`, `SpreadsheetIsCreatedOnce` | `OnceInv`: one run at a time, whose copy of the checkpoint is the checkpoint (`RunsFollow`); a status that precedes a request means that nothing was created or asked for yet, and permission to ask is one run's and spent with the request (`KeyOnce`, `SheetOnce`) |
| `CrashStrandsNothing`, `CopiesStayInReach` | `CopyInv`, on top of it: while a key is announced, an installed key is the one setup made, a file set aside is a link to it, and only one of the two directories is there.  The unlink that forgets a copy therefore always has the other one behind it |
| `EnvFileIsBacked` | `BackedInv`: what the checkpoint vouches for is there (a grant once its status says shared, the pool's key and grant once the pool is in it), nothing removes an installed key or a permission, and a run writes `.env` from a checkpoint that has been saved |
| `FreshnessIsKept` | `OriginInv`, on `CopyInv` and `BackedInv`: no key of the baseline is setup's own (`Tells`), a run that has settled a key calls it reused exactly when setup did not make it (`Reckons`), and setup asks for no grant before the checkpoint has announced it |
| `StreamRecovery_proofs!RecoveryTypesAndOrder` | types; what left the queue was at its head (`InOrder`), a plan supersedes what is given up, `EntitiesArePast`, `NewestIsCanonical` |
| `ConfirmationsTellTheTruth` | assumes `SharedLoop`.  `UntouchedInv`: while nobody edits, the row is what the last receipt says, and the one receipt that may be unconfirmed belongs to the uncertain head.  User_Input needs more, since a poll may take an old row for an edit: what is still to be delivered behind an effect of the newest revision rewrites the same value (`FreshStays`), a plan of an older one has lost its position (`ScanKnows`), and a poll that would accept finds the canonical row (`PollIsCalm`) |
| `GuardsMatch` | assumes `SharedLoop`.  `QuietInv`, on both: each effect expects what its predecessor leaves or writes the same (`Chained`); a User_Input stream ends in the canonical value, so cleanup never plans; a System_State stream has it last or last but one |
| `RevisionsAreNeverRefused` | assumes `SharedLoop`.  `RevisionInv`: of an unbroken stream the open head's revision is at most one off the confirmed one (`Slack` ahead, or one behind), each follower is at most one above its predecessor or the confirmed one (`Climbs`), a candidate and a plan fit behind it (`CandidateIsNear`, `PlanClimbs`).  It holds whatever people do to a System_State row |

Each of them rests on the type theorem of its module, which is listed too: types are
proved and not checked again by the runs.

The last three theorems of `StreamRecovery` assume that one loop scans and delivers, as
`EffectWorkerSupervisor.runLoop` does.  Without it a delivery between a scan's read and
its plan lets a stale value be planned over a row that has moved on:
`QueuedGuardsMatch` is violated at once with `SharedLoop = FALSE`.  `ConfirmedIsVisible` and
`RevisionsChain` hold then too on small instances; the proofs need a plan to be as
old as the stream it looks at.

Only model-checked: liveness (`GateEnds`, `Failover`, `ClaimsEnd`,
`DriftIsRepaired`, `CallsEnd`, `CloseEnds`, `WorkGoesOn`), which is out of
the prover's reach.  Every safety property of a passing run is stated by a theorem.

`EffectsLandOnceInOrder` and `PlansInFlightAreCurrent` assume `LateWrites = FALSE`: the effect lease is renewed
inside the lane and outlasts the request timeout (`validateEffectLeaseHeadroom`),
and a request that its sender gave up on does not execute afterwards.  The code
cannot enforce the second half; with `LateWrites = TRUE` both
fail, and `AppliedHasReceipt` and the outbox contract,
whose theorems do not mention `LateWrites`, are what remains.

## 5. Bounds by name

`MaxTime`, `MaxEpoch`, `MaxCrashes`, `Waiters`, `Mutators` (WriterLease);
`MaxSeq`, `MaxAttempts`, `MaxEpoch` (EffectOutbox); `MaxEdits`, `MaxCrashes`
(EffectDelivery); `MaxSeq`, `MaxFlushes`, `Backlog`, `MaxEdits`, `MaxFaults`
(StreamRecovery); `MaxStarts`, `MaxCrashes` (SetupFlow); `MaxFlushes`, `MaxEdits`, `MaxConflicts`, `MaxFaults` (UserInput);
`LastBegin`, `MaxClock`, `MaxLate` (RequestPacing); `MaxFlushes` (SyncService).  `MutationLanes` needs none: a
call is made once.  `MaxLag`, `SharedLoop`, `FullScans`, `LateWrites` and `MaxChecks` are not
bounds but parameters: how late a `now` may be used, how the service is composed,
which read modes polls have, whether a request may outlive its sender, and how
often a settlement looks.

## 6. Plan

| Module | Models | Composes | Worth stating, worth proving |
|---|---|---|---|
| `DispatchWave` | units of one pass over several streams, the adaptive batch limit | `MutationLanes` | a failed unit leaves the others their verdicts; every claim ends |
| `AuditStream` | the conflict sheet's stream, its append-only effects | `UserInput`, `EffectOutbox` | audit effects in the order of the transitions |
| `Adoption` | reads of an existing sheet and the seeding transaction | `WriterLease` | a restarted adoption seeds nothing twice |
| `UserInput`, several rows | inserts, deletes, business keys, quarantine | | an edit of one row never waits for a conflict of another |
| proofs | | | `ConfirmedIsVisible` and `RevisionsChain` without `SharedLoop` |

## 7. Not modelled

* Request encoding, tab layout, provisioning, HTTP retries, credentials: remote I/O
  whose outcome, not whose form, the protocol depends on.  Outcomes are actions of
  `EffectDelivery`.
* Hashes and serialised values: a value is a member of a small set, equal exactly
  when the hashes are; collisions are ignored.
* SQLite: a transaction is one action.  Busy errors are retried below the modelled
  operations.
* Bulk fast append, route grouping, the concurrent wave, row moves at the provider,
  and what else the plan lists.
* Several rows, tables and bindings: every module is about one row or one stream,
  since no statement of the modelled operations reads another one's state, except in a
  polling pass that a rejected row ends for all (see above).
* Of setup: path-alias and permission checks, the dry run, progress events, the
  calls that are idempotent and can only fail (selecting the configuration, enabling
  APIs, the service account itself), keys somebody else places while a run is
  going on, a checkpoint file deleted by hand, the adopt and infer commands.  gcloud
  writes the key file in the step in which the cloud executes its request.
* Telemetry, status formatting, option validation, the MCP tools, the facade:
  no protocol state.
