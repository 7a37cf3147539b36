-------------------------- MODULE SetupFlow_proofs --------------------------
(***************************************************************************)
(* Theorems of SetupFlow, for any processes and bounds: however setup is   *)
(* killed, retried or answered late, one checkpoint creates one key for    *)
(* the primary account, one spreadsheet and one project.                   *)
(*                                                                         *)
(* The argument: a request may be sent only from a status that precedes    *)
(* it, what is remembered of the checkpoint is the checkpoint (there is    *)
(* one run at a time), and the checkpoint has moved on before the request  *)
(* is sent and does not come back as long as it may have had an effect.    *)
(*                                                                         *)
(* The second half is about the copies of that key on the disk: while it   *)
(* is announced the installed key is the one setup made, what is set aside *)
(* is a link to it, and only one of the two directories is there, so that  *)
(* what a cleanup removes always has its other copy where a run looks.     *)
(*                                                                         *)
(* The last part is about what the work leaves behind: the grant, the .env *)
(* file and the pool as the checkpoint has them, and the origin of the key *)
(* it records.                                                             *)
(***************************************************************************)
EXTENDS SetupFlow, TLAPS

-----------------------------------------------------------------------------
(* The inductive invariant.                                                *)

PrimaryCalls == {c \in keyCalls : c.account = "primary"}

\* No key of the primary account exists or is asked for by setup.
NoKey == Made("primary") = {} /\ PrimaryCalls = {}

\* No spreadsheet exists or is asked for.
NoSheet == sheets = <<>> /\ sheetCalls = {}

KeySteps == {"settle", "creating", "cleanup", "unlink", "rmdir"}

SheetSteps == {"create_sheet", "creating_sheet", "find_sheet", "find_rejected"}

\* What a run that is going on relies on when c is the checkpoint: it
\* remembers c, it is where the status says, and what it may create does not
\* exist.
Fits(r, c) ==
    /\ r.mem.status = c.status
    /\ r.mem.project = c.project
    /\ r.pc = "project" => c.status \in {"none", "project_selected"}
    /\ r.pc \in {"create_project", "baseline"} => c.status = "project_selected"
    /\ r.pc \in KeySteps /\ r.account = "primary" => c.status = "key_create_started"
    /\ r.pc = "key_ready" => c.status \in {"project_selected", "key_create_started"}
    /\ r.pc = "sheet" => c.status = "key_ready"
    /\ r.pc \in SheetSteps => c.status = "spreadsheet_create_started"
    /\ r.pc \in {"create_sheet", "find_rejected"} => NoSheet
    /\ r.mayCreate /\ r.account = "primary" => NoKey

RunsFollow == \A p \in Processes : run[p].pc # "idle" => Fits(run[p], state)

\* What must not exist yet when c is the checkpoint.
Admits(c) ==
    /\ c.status \in {"none", "project_selected"} => NoKey
    /\ c.status \in {"none", "project_selected", "key_create_started", "key_ready"} => NoSheet
    /\ c.status = "none" => projects = {0}
    /\ projects \subseteq {0, c.project}

KeyOnce ==
    /\ \A c, d \in PrimaryCalls : c = d
    /\ \A j, k \in Made("primary") : j = k
    /\ PrimaryCalls = {} \/ Made("primary") = {}

SheetOnce ==
    /\ \A m, n \in sheetCalls : m = n
    /\ \A s, t \in DOMAIN sheets : s = t
    /\ sheetCalls = {} \/ sheets = <<>>

OnceInv == SetupTypeOK /\ RunsFollow /\ Admits(state) /\ KeyOnce /\ SheetOnce

-----------------------------------------------------------------------------
(* What the ways to continue a run leave behind.                           *)

\* Everything SetupTypeOK says of the lock and the runs.
RunsTypeOK ==
    /\ lock \in Processes \cup {Nobody}
    /\ run \in [Processes -> Runs]
    /\ \A p \in Processes : run[p].pc # "idle" => lock = p

LEMMA NoStateType == NoState \in Checkpoints
BY DEF NoState, Checkpoints, Statuses, FirstStep, Origins

LEMMA IdleType == Idle \in Runs /\ Idle.pc = "idle"
BY NoStateType DEF Idle, Runs, Steps, Statuses, FirstStep, Accounts

\* A run that is going on has the lock, so all others are idle.
LEMMA Alone ==
    ASSUME RunsTypeOK, NEW p \in Processes, run[p].pc # "idle",
           NEW q \in Processes, q # p
    PROVE  run[q].pc = "idle"
BY DEF RunsTypeOK

LEMMA EndsLeaves ==
    ASSUME RunsTypeOK, NEW p \in Processes, run[p].pc # "idle", Ends(p)
    PROVE  RunsTypeOK' /\ \A q \in Processes : run'[q].pc = "idle"
<1>1. run' \in [Processes -> Runs]
  BY IdleType DEF Ends, RunsTypeOK
<1>2. \A q \in Processes : run'[q].pc = "idle"
  BY IdleType, Alone DEF Ends, RunsTypeOK
<1> QED
  BY <1>1, <1>2 DEF Ends, RunsTypeOK

\* A run that goes on as r is still the only one.
LEMMA GoesOn ==
    ASSUME RunsTypeOK, NEW p \in Processes, lock = p, UNCHANGED lock,
           NEW r \in Runs, run' = [run EXCEPT ![p] = r]
    PROVE  RunsTypeOK' /\ run'[p] = r /\ \A q \in Processes : q # p => run'[q].pc = "idle"
<1>1. \A q \in Processes : q # p => run[q].pc = "idle"
  BY DEF RunsTypeOK
<1>2. run' \in [Processes -> Runs] /\ run'[p] = r /\ \A q \in Processes : q # p => run'[q] = run[q]
  BY DEF RunsTypeOK
<1> QED
  BY <1>1, <1>2 DEF RunsTypeOK

LEMMA AtType ==
    ASSUME run \in [Processes -> Runs], NEW p \in Processes, NEW step \in Steps
    PROVE  At(p, step) \in Runs /\ At(p, step) = [run[p] EXCEPT !.pc = step]
BY DEF At, Runs

\* Save leaves the new checkpoint and a run that remembers it, or ends the run.
LEMMA SaveLeaves ==
    ASSUME RunsTypeOK, state \in Checkpoints,
           NEW p \in Processes, run[p].pc # "idle",
           NEW c \in Checkpoints, NEW r \in Runs, Save(p, c, r)
    PROVE  /\ RunsTypeOK' /\ state' \in Checkpoints
           /\ state' \in {state, c}
           /\ \A q \in Processes : q # p => run'[q].pc = "idle"
           /\ \/ run'[p].pc = "idle"
              \/ state' = c /\ run'[p] = [r EXCEPT !.mem = c]
<1>1. CASE state' = c /\ run' = [run EXCEPT ![p] = [r EXCEPT !.mem = c]] /\ UNCHANGED lock
  <2>1. [r EXCEPT !.mem = c] \in Runs
    BY DEF Runs
  <2> QED
    BY <1>1, <2>1, GoesOn DEF RunsTypeOK
<1>2. CASE state' \in {state, c} /\ Ends(p)
  BY <1>2, EndsLeaves
<1> QED
  BY <1>1, <1>2 DEF Save

LEMMA GoesLeaves ==
    ASSUME RunsTypeOK, NEW p \in Processes, run[p].pc # "idle",
           NEW step \in Steps, Goes(p, step), UNCHANGED lock
    PROVE  /\ RunsTypeOK' /\ run'[p] = [run[p] EXCEPT !.pc = step]
           /\ \A q \in Processes : q # p => run'[q].pc = "idle"
BY AtType, GoesOn DEF Goes, RunsTypeOK

-----------------------------------------------------------------------------
(* Types.                                                                  *)

DiskTypeOK ==
    /\ state \in Checkpoints
    /\ key \in [Accounts -> Nat]
    /\ stage \in [Accounts -> Dirs] /\ quarantine \in [Accounts -> Dirs]
    /\ env \in [sheet : Nat, pool : BOOLEAN]

Keys == [account : Accounts, maker : {"user", "setup"}, project : Nat]

IamTypeOK ==
    /\ projects \subseteq Nat
    /\ keys \in Seq(Keys)
    /\ listed \subseteq DOMAIN keys
    /\ keyCalls \subseteq [account : Accounts, project : Nat, at : Nat, attached : BOOLEAN]

DriveTypeOK ==
    /\ sheets \in Seq(Nat)
    /\ found \subseteq DOMAIN sheets
    /\ sheetCalls \subseteq Nat
    /\ bySetup \subseteq Accounts \X Nat
    /\ byUser \subseteq Nat

BoundsTypeOK == starts \in Nat /\ crashes \in Nat

LEMMA TypeParts ==
    SetupTypeOK <=> RunsTypeOK /\ DiskTypeOK /\ IamTypeOK /\ DriveTypeOK /\ BoundsTypeOK
BY DEF SetupTypeOK, RunsTypeOK, DiskTypeOK, IamTypeOK, DriveTypeOK, BoundsTypeOK, Keys

LEMMA TypePartsNext ==
    RunsTypeOK' /\ DiskTypeOK' /\ IamTypeOK' /\ DriveTypeOK' /\ BoundsTypeOK' => SetupTypeOK'
BY DEF SetupTypeOK, RunsTypeOK, DiskTypeOK, IamTypeOK, DriveTypeOK, BoundsTypeOK, Keys

LEMMA TypeInit == Init => SetupTypeOK
<1> SUFFICES ASSUME Init PROVE SetupTypeOK
  OBVIOUS
<1>1. RunsTypeOK
  BY IdleType DEF Init, RunsTypeOK
<1>2. keys \in Seq(Keys) /\ DOMAIN keys \subseteq Nat
  <2>1. [account |-> "primary", maker |-> "user", project |-> 0] \in Keys
    BY DEF Keys, Accounts
  <2>2. keys = <<>> \/ keys = <<[account |-> "primary", maker |-> "user", project |-> 0]>>
    BY DEF Init
  <2>3. \A r \in Keys : <<r>> \in Seq(Keys)
    OBVIOUS
  <2>4. <<>> \in Seq(Keys)
    OBVIOUS
  <2>5. keys \in Seq(Keys)
    BY <2>1, <2>2, <2>3, <2>4
  <2> QED
    BY <2>5
<1>3. DiskTypeOK
  BY <1>2, NoStateType DEF Init, DiskTypeOK, Dirs, Absent, Accounts
<1>4. IamTypeOK /\ DriveTypeOK /\ BoundsTypeOK
  BY <1>2 DEF Init, IamTypeOK, DriveTypeOK, BoundsTypeOK
<1> QED
  BY <1>1, <1>3, <1>4, TypeParts

LEMMA CheckpointTypes ==
    ASSUME NEW c \in Checkpoints, NEW n \in Nat, NEW names \in SUBSET Nat,
           NEW status \in Statuses, NEW origin \in Origins
    PROVE  /\ projectState(n) \in Checkpoints
           /\ keyStartedState(c, names) \in Checkpoints
           /\ keyReadyState(c, origin) \in Checkpoints
           /\ startedState(c, n) \in Checkpoints
           /\ spreadsheetState(c, status, n, origin) \in Checkpoints
           /\ [c EXCEPT !.pool = TRUE] \in Checkpoints
BY NoStateType DEF projectState, keyStartedState, keyReadyState, startedState,
   spreadsheetState, Checkpoints, Statuses, FirstStep

LEMMA FirstStepType == \A status \in Statuses : FirstStep[status] \in Steps \ {"idle"}
BY DEF Statuses, FirstStep, Steps

LEMMA SeenType ==
    ASSUME RunsTypeOK, IamTypeOK, NEW p \in Processes
    PROVE  Seen(p) \in SUBSET Nat /\ listed \in SUBSET Nat
BY DEF IamTypeOK, Seen

LEMMA RunFields ==
    ASSUME RunsTypeOK, NEW p \in Processes
    PROVE  /\ run[p] \in Runs /\ run[p].mem \in Checkpoints
           /\ run[p].mem.project \in Nat /\ run[p].mem.mark \in Nat /\ run[p].mem.sheet \in Nat
           /\ run[p].mem.keyOrigin \in Origins /\ run[p].mem.shareOrigin \in Origins
           /\ run[p].account \in Accounts /\ run[p].checks \in Nat
           /\ run[p].named \in SUBSET Nat /\ run[p].names \in SUBSET Nat
BY DEF RunsTypeOK, Runs, Checkpoints

LEMMA Keeps ==
    /\ DiskTypeOK /\ UNCHANGED disk => DiskTypeOK'
    /\ IamTypeOK /\ UNCHANGED iam => IamTypeOK'
    /\ DriveTypeOK /\ UNCHANGED drive => DriveTypeOK'
    /\ BoundsTypeOK /\ UNCHANGED bounds => BoundsTypeOK'
    /\ RunsTypeOK /\ UNCHANGED <<lock, run>> => RunsTypeOK'
BY DEF disk, iam, drive, bounds, DiskTypeOK, IamTypeOK, DriveTypeOK, BoundsTypeOK, RunsTypeOK

\* The lock, the runs and the checkpoint after Save.
LEMMA SaveTypes ==
    ASSUME RunsTypeOK, DiskTypeOK,
           NEW p \in Processes, run[p].pc # "idle",
           NEW c \in Checkpoints, NEW r \in Runs, Save(p, c, r),
           UNCHANGED <<key, stage, quarantine, env>>
    PROVE  RunsTypeOK' /\ DiskTypeOK'
BY SaveLeaves DEF DiskTypeOK

LEMMA StartTypes ==
    ASSUME SetupTypeOK, NEW p \in Processes,
           Begin(p) \/ SelectProject(p) \/ ResumeProject(p) \/ CreateProject(p)
    PROVE  SetupTypeOK'
<1>1. RunsTypeOK /\ DiskTypeOK /\ IamTypeOK /\ DriveTypeOK /\ BoundsTypeOK
  BY TypeParts
<1>2. KeyStep(p) \in Steps /\ "create_project" \in Steps
  BY DEF KeyStep, Steps
<1>3. ASSUME Begin(p) PROVE SetupTypeOK'
  <2>1. PICK named \in {{}} \cup {{x} : x \in projects \cup {state.project}}, pooled \in BOOLEAN :
          run' = [run EXCEPT ![p] =
             [Idle EXCEPT !.pc = FirstStep[state.status], !.mem = state,
                          !.loaded = state.status, !.named = named, !.pooled = pooled,
                          !.names = state.baseline,
                          !.reused = /\ key["primary"] # 0
                                     /\ state.status # "key_create_started"]]
    BY <1>3 DEF Begin
  <2>2. state.status \in Statuses /\ state.project \in Nat /\ state.baseline \in SUBSET Nat
    BY <1>1 DEF DiskTypeOK, Checkpoints
  <2>3. named \in SUBSET Nat
    BY <1>1, <2>2 DEF IamTypeOK
  <2>4. run'[p] \in Runs
    BY <1>1, <2>1, <2>2, <2>3, IdleType, FirstStepType DEF Runs, RunsTypeOK, DiskTypeOK
  <2>5. \A q \in Processes : run[q].pc = "idle"
    BY <1>1, <1>3, SetupAssumption DEF Begin, RunsTypeOK
  <2>6. RunsTypeOK'
    BY <1>1, <1>3, <2>1, <2>4, <2>5 DEF RunsTypeOK, Begin
  <2>7. starts' = starts + 1 /\ crashes' = crashes /\ UNCHANGED <<disk, iam, drive>>
    BY <1>3 DEF Begin
  <2>8. BoundsTypeOK'
    BY <1>1, <2>7 DEF BoundsTypeOK
  <2> QED
    BY <1>1, <2>6, <2>7, <2>8, Keeps, TypePartsNext
<1>4. ASSUME SelectProject(p) PROVE SetupTypeOK'
  <2>1. run[p].pc # "idle" /\ run[p].named \in SUBSET Nat
    BY <1>1, <1>4, RunFields DEF SelectProject
  <2>2. At(p, "create_project") \in Runs /\ At(p, KeyStep(p)) \in Runs
    BY <1>1, <1>2, AtType DEF RunsTypeOK
  <2>3. PICK id \in Nat, r \in Runs : Save(p, projectState(id), r)
    BY <1>1, <1>4, <2>1, <2>2 DEF SelectProject, BoundsTypeOK
  <2>4. projectState(id) \in Checkpoints
    BY NoStateType DEF projectState, Checkpoints, Statuses, FirstStep
  <2>5. RunsTypeOK' /\ DiskTypeOK'
    BY <1>1, <1>4, <2>1, <2>3, <2>4, SaveTypes DEF SelectProject
  <2> QED
    BY <1>1, <1>4, <2>5, Keeps, TypePartsNext DEF SelectProject
<1>5. ASSUME ResumeProject(p) PROVE SetupTypeOK'
  <2>1. run[p].pc # "idle"
    BY <1>5 DEF ResumeProject
  <2>2. RunsTypeOK'
    BY <1>1, <1>2, <1>5, <2>1, GoesLeaves, EndsLeaves DEF ResumeProject
  <2> QED
    BY <1>1, <1>5, <2>2, Keeps, TypePartsNext DEF ResumeProject
<1>6. ASSUME CreateProject(p) PROVE SetupTypeOK'
  <2>1. run[p].pc # "idle"
    BY <1>6 DEF CreateProject
  <2>2. RunsTypeOK'
    BY <1>1, <1>2, <1>6, <2>1, GoesLeaves, EndsLeaves DEF CreateProject
  <2>3. IamTypeOK'
    BY <1>1, <1>6, RunFields DEF CreateProject, IamTypeOK
  <2> QED
    BY <1>1, <1>6, <2>2, <2>3, Keeps, TypePartsNext DEF CreateProject
<1> QED
  BY <1>3, <1>4, <1>5, <1>6

LEMMA NewDirectoriesTypes ==
    ASSUME DiskTypeOK, IamTypeOK, NEW a \in Accounts, NewDirectories(a)
    PROVE  /\ stage' \in [Accounts -> Dirs] /\ quarantine' \in [Accounts -> Dirs]
           /\ keyCalls' \subseteq [account : Accounts, project : Nat, at : Nat, attached : BOOLEAN]
<1>1. Absent \in Dirs
  BY DEF Absent, Dirs
<1> QED
  BY <1>1 DEF NewDirectories, DiskTypeOK, IamTypeOK

\* Everything a settlement changes but the directories and the requests.
LEMMA SettlementTypes ==
    ASSUME SetupTypeOK, NEW p \in Processes,
           RefuseKey(p) \/ installStagedKey(p) \/ FindKey(p) \/ CreateKey(p)
             \/ PollKey(p) \/ KeyCallAnswers(p)
    PROVE  SetupTypeOK'
<1>1. RunsTypeOK /\ DiskTypeOK /\ IamTypeOK /\ DriveTypeOK /\ BoundsTypeOK
  BY TypeParts
<1>2. run[p].pc # "idle" /\ lock = p
  BY <1>1 DEF RefuseKey, installStagedKey, FindKey, CreateKey, PollKey, KeyCallAnswers, RunsTypeOK
<1>3. /\ At(p, "cleanup") \in Runs /\ At(p, "creating") \in Runs
  BY <1>1, AtType DEF RunsTypeOK, Steps
<1>4. run[p].account \in Accounts /\ run[p].checks \in Nat /\ run[p].mem.project \in Nat
  BY <1>1, RunFields
<1>5. ASSUME RefuseKey(p) PROVE SetupTypeOK'
  BY <1>1, <1>2, <1>5, EndsLeaves, Keeps, TypePartsNext DEF RefuseKey
<1>6. \A b \in BOOLEAN : [At(p, "cleanup") EXCEPT !.reused = b] \in Runs
  BY <1>3 DEF Runs
<1>7. ASSUME installStagedKey(p) PROVE SetupTypeOK'
  <2>1. staged(p) \in Nat
    BY <1>1, <1>7, SeenType DEF installStagedKey
  <2>2. DiskTypeOK'
    BY <1>1, <1>4, <1>7, <2>1 DEF installStagedKey, Links, DiskTypeOK
  <2>3. PICK r \in Runs : run' = [run EXCEPT ![p] = r] /\ UNCHANGED lock
    <3>1. baselineIncludes(p, staged(p)) \in BOOLEAN
      BY DEF baselineIncludes
    <3> QED
      BY <1>6, <1>7, <3>1 DEF installStagedKey
  <2>4. RunsTypeOK'
    BY <1>1, <1>2, <2>3, GoesOn
  <2> QED
    BY <1>1, <1>7, <2>2, <2>4, Keeps, TypePartsNext DEF installStagedKey
<1>8. ASSUME FindKey(p) PROVE SetupTypeOK'
  <2>1. PICK r \in Runs : run' = [run EXCEPT ![p] = r] /\ UNCHANGED lock
    <3>1. baselineIncludes(p, final(p)) \in BOOLEAN
      BY DEF baselineIncludes
    <3> QED
      BY <1>6, <1>8, <3>1 DEF FindKey
  <2>2. RunsTypeOK'
    BY <1>1, <1>2, <2>1, GoesOn
  <2> QED
    BY <1>1, <1>8, <2>2, Keeps, TypePartsNext DEF FindKey
<1>9. ASSUME CreateKey(p) PROVE SetupTypeOK'
  <2>1. [At(p, "creating") EXCEPT !.mayCreate = FALSE] \in Runs
    BY <1>3 DEF Runs
  <2>2. RunsTypeOK'
    BY <1>1, <1>2, <1>9, <2>1, GoesOn DEF CreateKey
  <2>3. stage' = [stage EXCEPT ![run[p].account].dir = TRUE] /\ UNCHANGED <<state, key, quarantine, env>>
    BY <1>9 DEF CreateKey
  <2>4. DiskTypeOK'
    BY <1>1, <1>4, <2>3 DEF DiskTypeOK, Dirs
  <2>5. UNCHANGED <<projects, keys, listed>> /\ keyCalls' = keyCalls \cup
          {[account |-> run[p].account, project |-> run[p].mem.project, at |-> starts, attached |-> TRUE]}
    BY <1>9 DEF CreateKey
  <2>6. [account |-> run[p].account, project |-> run[p].mem.project, at |-> starts, attached |-> TRUE]
          \in [account : Accounts, project : Nat, at : Nat, attached : BOOLEAN]
    BY <1>1, <1>4 DEF BoundsTypeOK
  <2>7. IamTypeOK'
    BY <1>1, <2>5, <2>6 DEF IamTypeOK
  <2> QED
    BY <1>1, <1>9, <2>2, <2>4, <2>7, Keeps, TypePartsNext DEF CreateKey
<1>10. ASSUME PollKey(p) PROVE SetupTypeOK'
  <2>1. [run[p] EXCEPT !.checks = @ + 1] \in Runs
    BY <1>1, <1>4, RunFields DEF Runs
  <2>2. RunsTypeOK'
    BY <1>1, <1>2, <1>10, <2>1, GoesOn, EndsLeaves DEF PollKey, RunsTypeOK
  <2> QED
    BY <1>1, <1>10, <2>2, Keeps, TypePartsNext DEF PollKey
<1>11. ASSUME KeyCallAnswers(p) PROVE SetupTypeOK'
  <2>1. RunsTypeOK'
    BY <1>1, <1>2, <1>11, GoesLeaves DEF KeyCallAnswers, Steps
  <2>2. IamTypeOK'
    BY <1>1, <1>11 DEF KeyCallAnswers, IamTypeOK
  <2> QED
    BY <1>1, <1>11, <2>1, <2>2, Keeps, TypePartsNext DEF KeyCallAnswers
<1> QED
  BY <1>5, <1>7, <1>8, <1>9, <1>10, <1>11

LEMMA CleanupTypes ==
    ASSUME SetupTypeOK, NEW p \in Processes,
           AnnounceKey(p) \/ QuarantineStage(p) \/ UnlinkStaged(p) \/ RemoveQuarantine(p)
             \/ SaveKeyReady(p)
    PROVE  SetupTypeOK'
<1>1. RunsTypeOK /\ DiskTypeOK /\ IamTypeOK /\ DriveTypeOK /\ BoundsTypeOK
  BY TypeParts
<1>2. run[p].pc # "idle"
  BY DEF AnnounceKey, QuarantineStage, UnlinkStaged, RemoveQuarantine, SaveKeyReady
<1>3. run[p].account \in Accounts /\ run[p].mem \in Checkpoints
  BY <1>1, RunFields
<1>4. At(p, "settle") \in Runs /\ At(p, "sheet") \in Runs /\ KeyDone(p) \in Steps
  BY <1>1, AtType DEF RunsTypeOK, Steps, KeyDone
<1>5. Absent \in Dirs /\ Empty \in Dirs
  BY DEF Absent, Empty, Dirs
<1>6. ASSUME AnnounceKey(p) PROVE SetupTypeOK'
  <2>1. Seen(p) \in SUBSET Nat
    BY <1>1, SeenType
  <2>2. keyStartedState(run[p].mem, Seen(p)) \in Checkpoints
    BY <1>3, <2>1 DEF keyStartedState, Checkpoints, Statuses, FirstStep
  <2>3. [At(p, "settle") EXCEPT !.names = Seen(p), !.mayCreate = TRUE] \in Runs
    BY <1>4, <2>1 DEF Runs
  <2>4. RunsTypeOK' /\ state' \in Checkpoints
    BY <1>1, <1>2, <1>6, <2>2, <2>3, SaveLeaves DEF AnnounceKey, DiskTypeOK
  <2>5. "primary" \in Accounts
    BY DEF Accounts
  <2>6. DiskTypeOK' /\ IamTypeOK'
    BY <1>1, <1>6, <2>4, <2>5, NewDirectoriesTypes DEF AnnounceKey, DiskTypeOK, IamTypeOK
  <2> QED
    BY <1>1, <1>6, <2>4, <2>6, Keeps, TypePartsNext DEF AnnounceKey
<1>7. ASSUME QuarantineStage(p) PROVE SetupTypeOK'
  <2>1. RunsTypeOK'
    BY <1>1, <1>2, <1>4, <1>7, GoesLeaves, EndsLeaves DEF QuarantineStage, Steps
  <2>2. /\ UNCHANGED <<state, key, env>>
        /\ \/ UNCHANGED <<stage, quarantine>>
           \/ /\ quarantine' = [quarantine EXCEPT ![run[p].account] = stage[run[p].account]]
              /\ stage' = [stage EXCEPT ![run[p].account] = Absent]
    BY <1>7 DEF QuarantineStage
  <2>3. DiskTypeOK'
    BY <1>1, <1>3, <1>5, <2>2 DEF DiskTypeOK
  <2> QED
    BY <1>1, <1>7, <2>1, <2>3, Keeps, TypePartsNext DEF QuarantineStage
<1>8. ASSUME UnlinkStaged(p) PROVE SetupTypeOK'
  <2>1. RunsTypeOK'
    BY <1>1, <1>2, <1>4, <1>8, GoesLeaves, EndsLeaves DEF UnlinkStaged, Steps
  <2>2. DiskTypeOK'
    BY <1>1, <1>3, <1>5, <1>8 DEF DiskTypeOK, UnlinkStaged
  <2> QED
    BY <1>1, <1>8, <2>1, <2>2, Keeps, TypePartsNext DEF UnlinkStaged
<1>9. ASSUME RemoveQuarantine(p) PROVE SetupTypeOK'
  <2>1. RunsTypeOK'
    BY <1>1, <1>2, <1>4, <1>9, GoesLeaves DEF RemoveQuarantine
  <2>2. DiskTypeOK'
    BY <1>1, <1>3, <1>5, <1>9 DEF DiskTypeOK, RemoveQuarantine
  <2> QED
    BY <1>1, <1>9, <2>1, <2>2, Keeps, TypePartsNext DEF RemoveQuarantine
<1>10. ASSUME SaveKeyReady(p) PROVE SetupTypeOK'
  <2>1. \A origin \in Origins : keyReadyState(run[p].mem, origin) \in Checkpoints
    BY <1>3 DEF keyReadyState, Checkpoints, Statuses, FirstStep
  <2>2. RunsTypeOK' /\ DiskTypeOK'
    BY <1>1, <1>2, <1>4, <1>10, <2>1, SaveTypes DEF SaveKeyReady, Origins
  <2> QED
    BY <1>1, <1>10, <2>2, Keeps, TypePartsNext DEF SaveKeyReady
<1> QED
  BY <1>6, <1>7, <1>8, <1>9, <1>10

LEMMA SheetTypes ==
    ASSUME SetupTypeOK, NEW p \in Processes,
           AnnounceSheet(p) \/ createSpreadsheet(p) \/ SheetCallAnswers(p) \/ FindSheet(p)
    PROVE  SetupTypeOK'
<1>1. RunsTypeOK /\ DiskTypeOK /\ IamTypeOK /\ DriveTypeOK /\ BoundsTypeOK
  BY TypeParts
<1>2. run[p].pc # "idle"
  BY DEF AnnounceSheet, createSpreadsheet, SheetCallAnswers, FindSheet
<1>3. /\ run[p].mem \in Checkpoints /\ run[p].mem.mark \in Nat
      /\ run[p].mem.keyOrigin \in Origins
  BY <1>1, RunFields
<1>4. At(p, "create_sheet") \in Runs /\ At(p, "share") \in Runs
  BY <1>1, AtType DEF RunsTypeOK, Steps
<1>5. \A s \in DOMAIN sheets : createdState(p, s) \in Checkpoints
  <2>1. \A s \in DOMAIN sheets : s \in Nat
    BY <1>1 DEF DriveTypeOK
  <2>2. "spreadsheet_created" \in Statuses /\ "unknown" \in Origins
    BY DEF Statuses, FirstStep, Origins
  <2> QED
    BY <1>3, <2>1, <2>2 DEF createdState, spreadsheetState, Checkpoints
<1>6. ASSUME AnnounceSheet(p) PROVE SetupTypeOK'
  <2>1. startedState(run[p].mem, starts) \in Checkpoints
    BY <1>1, <1>3 DEF startedState, Checkpoints, Statuses, FirstStep, BoundsTypeOK
  <2>2. RunsTypeOK' /\ DiskTypeOK'
    BY <1>1, <1>2, <1>4, <1>6, <2>1, SaveTypes DEF AnnounceSheet
  <2> QED
    BY <1>1, <1>6, <2>2, Keeps, TypePartsNext DEF AnnounceSheet
<1>7. ASSUME createSpreadsheet(p) PROVE SetupTypeOK'
  <2>1. RunsTypeOK'
    BY <1>1, <1>2, <1>7, GoesLeaves DEF createSpreadsheet, Steps
  <2>2. DriveTypeOK'
    BY <1>1, <1>3, <1>7 DEF createSpreadsheet, DriveTypeOK
  <2> QED
    BY <1>1, <1>7, <2>1, <2>2, Keeps, TypePartsNext DEF createSpreadsheet
<1>8. ASSUME SheetCallAnswers(p) PROVE SetupTypeOK'
  <2>1. RunsTypeOK' /\ DiskTypeOK'
    <3>1. ASSUME NEW s \in DOMAIN sheets, Save(p, createdState(p, s), At(p, "share"))
          PROVE  RunsTypeOK' /\ DiskTypeOK'
      BY <1>1, <1>2, <1>4, <1>5, <1>8, <3>1, SaveTypes DEF SheetCallAnswers
    <3>2. ASSUME NEW step \in Steps, Goes(p, step), UNCHANGED <<lock, state>>
          PROVE  RunsTypeOK' /\ DiskTypeOK'
      BY <1>1, <1>2, <1>8, <3>2, GoesLeaves DEF SheetCallAnswers, DiskTypeOK
    <3> QED
      BY <1>8, <3>1, <3>2 DEF SheetCallAnswers, Steps
  <2>2. DriveTypeOK'
    BY <1>1, <1>8 DEF SheetCallAnswers, DriveTypeOK
  <2> QED
    BY <1>1, <1>8, <2>1, <2>2, Keeps, TypePartsNext DEF SheetCallAnswers
<1>9. ASSUME FindSheet(p) PROVE SetupTypeOK'
  <2>1. keyReadyState(run[p].mem, run[p].mem.keyOrigin) \in Checkpoints
    BY <1>3 DEF keyReadyState, Checkpoints, Statuses, FirstStep
  <2>2. RunsTypeOK' /\ DiskTypeOK'
    <3>1. ASSUME NEW s \in DOMAIN sheets, Save(p, createdState(p, s), At(p, "share"))
          PROVE  RunsTypeOK' /\ DiskTypeOK'
      BY <1>1, <1>2, <1>4, <1>5, <1>9, <3>1, SaveTypes DEF FindSheet
    <3>2. ASSUME Ends(p),
                 state' \in {state, keyReadyState(run[p].mem, run[p].mem.keyOrigin)}
          PROVE  RunsTypeOK' /\ DiskTypeOK'
      BY <1>1, <1>2, <1>9, <2>1, <3>2, EndsLeaves DEF FindSheet, DiskTypeOK
    <3>3. \A s \in found : s \in DOMAIN sheets
      BY <1>1 DEF DriveTypeOK
    <3> QED
      BY <1>9, <3>1, <3>2, <3>3 DEF FindSheet
  <2> QED
    BY <1>1, <1>9, <2>2, Keeps, TypePartsNext DEF FindSheet
<1> QED
  BY <1>6, <1>7, <1>8, <1>9

LEMMA ShareTypes ==
    ASSUME SetupTypeOK, NEW p \in Processes,
           AnnounceShare(p) \/ EnsureWriter(p) \/ SaveShared(p) \/ WriteEnv(p) \/ SaveComplete(p)
    PROVE  SetupTypeOK'
<1>1. RunsTypeOK /\ DiskTypeOK /\ IamTypeOK /\ DriveTypeOK /\ BoundsTypeOK
  BY TypeParts
<1>2. run[p].pc # "idle" /\ lock = p
  BY <1>1 DEF AnnounceShare, EnsureWriter, SaveShared, WriteEnv, SaveComplete, RunsTypeOK
<1>3. /\ run[p].mem \in Checkpoints /\ run[p].mem.sheet \in Nat
      /\ run[p].mem.shareOrigin \in Origins
  BY <1>1, RunFields
<1>4. /\ At(p, "ensure") \in Runs /\ At(p, "shared") \in Runs /\ At(p, "env") \in Runs
      /\ At(p, "pool") \in Runs
  BY <1>1, AtType DEF RunsTypeOK, Steps
<1>5. \A status \in Statuses, origin \in Origins :
        spreadsheetState(run[p].mem, status, run[p].mem.sheet, origin) \in Checkpoints
  BY <1>3 DEF spreadsheetState, Checkpoints
<1>6. {"spreadsheet_share_started", "spreadsheet_shared", "complete"} \subseteq Statuses
      /\ {"unknown", "fresh", "reused"} \subseteq Origins /\ "primary" \in Accounts
  BY DEF Statuses, FirstStep, Origins, Accounts
<1>7. ASSUME NEW status \in Statuses, NEW origin \in Origins, NEW r \in Runs,
             Save(p, spreadsheetState(run[p].mem, status, run[p].mem.sheet, origin), r),
             UNCHANGED <<key, stage, quarantine, env, iam, drive, bounds>>
      PROVE  SetupTypeOK'
  <2>1. RunsTypeOK' /\ DiskTypeOK'
    BY <1>1, <1>2, <1>5, <1>7, SaveTypes
  <2> QED
    BY <1>1, <1>7, <2>1, Keeps, TypePartsNext
<1>8. ASSUME AnnounceShare(p) PROVE SetupTypeOK'
  BY <1>4, <1>6, <1>7, <1>8 DEF AnnounceShare
<1>9. ASSUME EnsureWriter(p) PROVE SetupTypeOK'
  <2>1. \A origin \in Origins : [At(p, "shared") EXCEPT !.mem.shareOrigin = origin] \in Runs
    BY <1>4 DEF Runs, Checkpoints
  <2>2. RunsTypeOK'
    <3>1. CASE Ends(p)
      BY <1>1, <1>2, <3>1, EndsLeaves
    <3>2. CASE ~ Ends(p)
      <4>1. PICK r \in Runs : run' = [run EXCEPT ![p] = r] /\ UNCHANGED lock
        BY <1>6, <1>9, <2>1, <3>2 DEF EnsureWriter
      <4> QED
        BY <1>1, <1>2, <4>1, GoesOn
    <3> QED
      BY <3>1, <3>2
  <2>3. DriveTypeOK'
    BY <1>1, <1>3, <1>6, <1>9 DEF EnsureWriter, DriveTypeOK
  <2> QED
    BY <1>1, <1>9, <2>2, <2>3, Keeps, TypePartsNext DEF EnsureWriter
<1>10. ASSUME SaveShared(p) PROVE SetupTypeOK'
  BY <1>3, <1>4, <1>6, <1>7, <1>10 DEF SaveShared
<1>11. ASSUME WriteEnv(p) PROVE SetupTypeOK'
  <2>1. RunsTypeOK'
    BY <1>1, <1>2, <1>11, GoesLeaves DEF WriteEnv, Steps
  <2>2. DiskTypeOK'
    BY <1>1, <1>3, <1>11 DEF WriteEnv, DiskTypeOK
  <2> QED
    BY <1>1, <1>11, <2>1, <2>2, Keeps, TypePartsNext DEF WriteEnv
<1>12. ASSUME SaveComplete(p) PROVE SetupTypeOK'
  BY <1>3, <1>4, <1>6, <1>7, <1>12 DEF SaveComplete
<1> QED
  BY <1>8, <1>9, <1>10, <1>11, <1>12

LEMMA PoolTypes ==
    ASSUME SetupTypeOK, NEW p \in Processes,
           ExpandPool(p) \/ SharePool(p) \/ SavePool(p) \/ WritePoolEnv(p)
    PROVE  SetupTypeOK'
<1>1. RunsTypeOK /\ DiskTypeOK /\ IamTypeOK /\ DriveTypeOK /\ BoundsTypeOK
  BY TypeParts
<1>2. run[p].pc # "idle" /\ lock = p
  BY <1>1 DEF ExpandPool, SharePool, SavePool, WritePoolEnv, RunsTypeOK
<1>3. run[p].mem \in Checkpoints /\ run[p].mem.sheet \in Nat /\ "pool" \in Accounts
  BY <1>1, RunFields DEF Accounts
<1>4. At(p, "settle") \in Runs /\ At(p, "pool_env") \in Runs
  BY <1>1, AtType DEF RunsTypeOK, Steps
<1>5. ASSUME ExpandPool(p) PROVE SetupTypeOK'
  <2>1. ASSUME NEW names
        PROVE  [[At(p, "settle") EXCEPT !.account = "pool", !.checks = 0, !.mayCreate = TRUE]
                  EXCEPT !.names = names \cap listed] \in Runs
    BY <1>1, <1>3, <1>4, SeenType DEF Runs
  <2>2. RunsTypeOK'
    <3>1. CASE Ends(p)
      BY <1>1, <1>2, <3>1, EndsLeaves
    <3>2. CASE Goes(p, "pool_env") /\ UNCHANGED lock
      BY <1>1, <1>2, <3>2, GoesLeaves DEF Steps
    <3>3. CASE ~ Ends(p) /\ ~ (Goes(p, "pool_env") /\ UNCHANGED lock)
      <4>1. PICK names \in SUBSET listed :
              /\ run' = [run EXCEPT ![p] =
                   [[At(p, "settle") EXCEPT !.account = "pool", !.checks = 0, !.mayCreate = TRUE]
                      EXCEPT !.names = names]]
              /\ UNCHANGED lock
        BY <1>5, <3>3 DEF ExpandPool
      <4>2. names \cap listed = names
        BY <4>1
      <4>3. PICK r \in Runs : run' = [run EXCEPT ![p] = r] /\ UNCHANGED lock
        BY <2>1, <4>1, <4>2
      <4> QED
        BY <1>1, <1>2, <4>3, GoesOn
    <3> QED
      BY <3>1, <3>2, <3>3
  <2>3. /\ \/ UNCHANGED <<stage, quarantine, keyCalls>>
           \/ NewDirectories("pool")
        /\ UNCHANGED <<state, key, env, projects, keys, listed, drive, bounds>>
    BY <1>5 DEF ExpandPool
  <2>4. DiskTypeOK' /\ IamTypeOK'
    BY <1>1, <1>3, <2>3, NewDirectoriesTypes DEF DiskTypeOK, IamTypeOK
  <2> QED
    BY <1>1, <2>2, <2>3, <2>4, Keeps, TypePartsNext
<1>6. ASSUME SharePool(p) PROVE SetupTypeOK'
  <2>1. RunsTypeOK'
    BY <1>1, <1>2, <1>6, GoesLeaves, EndsLeaves DEF SharePool, Steps
  <2>2. DriveTypeOK'
    BY <1>1, <1>3, <1>6 DEF SharePool, DriveTypeOK
  <2> QED
    BY <1>1, <1>6, <2>1, <2>2, Keeps, TypePartsNext DEF SharePool
<1>7. ASSUME SavePool(p) PROVE SetupTypeOK'
  <2>1. [run[p].mem EXCEPT !.pool = TRUE] \in Checkpoints
    BY <1>3 DEF Checkpoints
  <2>2. RunsTypeOK' /\ DiskTypeOK'
    BY <1>1, <1>2, <1>4, <1>7, <2>1, SaveTypes DEF SavePool
  <2> QED
    BY <1>1, <1>7, <2>2, Keeps, TypePartsNext DEF SavePool
<1>8. ASSUME WritePoolEnv(p) PROVE SetupTypeOK'
  <2>1. DiskTypeOK'
    BY <1>1, <1>3, <1>8 DEF WritePoolEnv, DiskTypeOK
  <2> QED
    BY <1>1, <1>2, <1>8, <2>1, EndsLeaves, Keeps, TypePartsNext DEF WritePoolEnv
<1> QED
  BY <1>5, <1>6, <1>7, <1>8

LEMMA CloudTypes ==
    ASSUME SetupTypeOK, Cloud
    PROVE  SetupTypeOK'
<1>1. RunsTypeOK /\ DiskTypeOK /\ IamTypeOK /\ DriveTypeOK /\ BoundsTypeOK
  BY TypeParts
<1>2. ASSUME NEW c \in keyCalls, KeyCallRuns(c) PROVE SetupTypeOK'
  <2>1. c.account \in Accounts /\ c.project \in Nat
    BY <1>1 DEF IamTypeOK
  <2>2. [account |-> c.account, maker |-> "setup", project |-> c.project] \in Keys
    BY <2>1 DEF Keys
  <2>3. /\ keys' = Append(keys, [account |-> c.account, maker |-> "setup", project |-> c.project])
        /\ keyCalls' = keyCalls \ {c} /\ UNCHANGED <<projects, listed>>
    BY <1>2 DEF KeyCallRuns
  <2>4. keys' \in Seq(Keys) /\ DOMAIN keys \subseteq DOMAIN keys'
    BY <1>1, <2>2, <2>3 DEF IamTypeOK
  <2>5. IamTypeOK'
    BY <1>1, <2>3, <2>4 DEF IamTypeOK
  <2>6. PICK f \in {0, Partial, Len(keys) + 1} :
          stage' = IF f = 0 THEN stage ELSE [stage EXCEPT ![c.account].file = f]
    BY <1>2 DEF KeyCallRuns
  <2>7. Len(keys) \in Nat
    BY <1>1 DEF IamTypeOK
  <2>8. stage' \in [Accounts -> Dirs]
    <3>1. f \in Nat \cup {Partial} /\ stage \in [Accounts -> Dirs]
      BY <1>1, <2>7 DEF DiskTypeOK
    <3>2. [stage[c.account] EXCEPT !.file = f] \in Dirs
      BY <2>1, <3>1 DEF Dirs
    <3> QED
      BY <2>1, <2>6, <3>1, <3>2
  <2>9. DiskTypeOK'
    BY <1>1, <1>2, <2>8 DEF KeyCallRuns, DiskTypeOK
  <2> QED
    BY <1>1, <1>2, <2>5, <2>9, Keeps, TypePartsNext DEF KeyCallRuns
<1>3. ASSUME NEW c \in keyCalls, KeyCallLost(c) PROVE SetupTypeOK'
  <2>1. IamTypeOK'
    BY <1>1, <1>3 DEF KeyCallLost, IamTypeOK
  <2> QED
    BY <1>1, <1>3, <2>1, Keeps, TypePartsNext DEF KeyCallLost
<1>4. ASSUME NEW k \in DOMAIN keys, KeyListed(k) PROVE SetupTypeOK'
  <2>1. IamTypeOK'
    BY <1>1, <1>4 DEF KeyListed, IamTypeOK
  <2> QED
    BY <1>1, <1>4, <2>1, Keeps, TypePartsNext DEF KeyListed
<1>5. ASSUME NEW m \in sheetCalls, SheetCallRuns(m) \/ SheetCallLost(m) PROVE SetupTypeOK'
  <2>1. m \in Nat
    BY <1>1 DEF DriveTypeOK
  <2>2. sheets' \in Seq(Nat) /\ DOMAIN sheets \subseteq DOMAIN sheets'
    BY <1>1, <1>5, <2>1 DEF SheetCallRuns, SheetCallLost, DriveTypeOK
  <2>3. sheetCalls' \subseteq sheetCalls /\ UNCHANGED <<found, bySetup, byUser>>
    BY <1>5 DEF SheetCallRuns, SheetCallLost
  <2>4. DriveTypeOK'
    BY <1>1, <2>2, <2>3 DEF DriveTypeOK
  <2> QED
    BY <1>1, <1>5, <2>4, Keeps, TypePartsNext DEF SheetCallRuns, SheetCallLost
<1>6. ASSUME NEW s \in DOMAIN sheets, SheetFound(s) PROVE SetupTypeOK'
  <2>1. DriveTypeOK'
    BY <1>1, <1>6 DEF SheetFound, DriveTypeOK
  <2> QED
    BY <1>1, <1>6, <2>1, Keeps, TypePartsNext DEF SheetFound
<1> QED
  BY <1>2, <1>3, <1>4, <1>5, <1>6 DEF Cloud

LEMMA OtherTypes ==
    ASSUME SetupTypeOK,
           \/ \E p \in Processes : Fails(p) \/ Crash(p)
           \/ RemoveLock
           \/ \E s \in DOMAIN sheets : UserShares(s)
    PROVE  SetupTypeOK'
<1>1. RunsTypeOK /\ DiskTypeOK /\ IamTypeOK /\ DriveTypeOK /\ BoundsTypeOK
  BY TypeParts
<1>2. ASSUME NEW p \in Processes, Fails(p) PROVE SetupTypeOK'
  <2>1. run[p].pc # "idle"
    BY <1>2 DEF Fails
  <2> QED
    BY <1>1, <1>2, <2>1, EndsLeaves, Keeps, TypePartsNext DEF Fails
<1>3. ASSUME NEW p \in Processes, Crash(p) PROVE SetupTypeOK'
  <2>1. RunsTypeOK'
    BY <1>1, <1>3, IdleType DEF Crash, RunsTypeOK
  <2>2. BoundsTypeOK'
    BY <1>1, <1>3 DEF Crash, BoundsTypeOK
  <2> QED
    BY <1>1, <1>3, <2>1, <2>2, Keeps, TypePartsNext DEF Crash
<1>4. ASSUME RemoveLock PROVE SetupTypeOK'
  <2>1. RunsTypeOK'
    BY <1>1, <1>4 DEF RemoveLock, RunsTypeOK
  <2> QED
    BY <1>1, <1>4, <2>1, Keeps, TypePartsNext DEF RemoveLock
<1>5. ASSUME NEW s \in DOMAIN sheets, UserShares(s) PROVE SetupTypeOK'
  <2>1. s \in Nat /\ byUser' = byUser \cup {s}
    BY <1>1, <1>5 DEF UserShares, DriveTypeOK
  <2>2. DriveTypeOK'
    BY <1>1, <1>5, <2>1 DEF UserShares, DriveTypeOK
  <2> QED
    BY <1>1, <1>5, <2>2, Keeps, TypePartsNext DEF UserShares
<1> QED
  BY <1>2, <1>3, <1>4, <1>5

LEMMA TypeStep == SetupTypeOK /\ [Next]_vars => SetupTypeOK'
<1> SUFFICES ASSUME SetupTypeOK, [Next]_vars PROVE SetupTypeOK'
  OBVIOUS
<1>1. CASE UNCHANGED vars
  BY <1>1, TypeParts, TypePartsNext, Keeps DEF vars
<1>2. CASE Next
  BY <1>2, StartTypes, SettlementTypes, CleanupTypes, SheetTypes, ShareTypes, PoolTypes,
     CloudTypes, OtherTypes DEF Next, RunStep, KeyStage, SheetStage
<1> QED
  BY <1>1, <1>2

\* Whatever fails, is killed or is answered late: the variables keep their
\* types, and at most one run is going on, which made the lock directory
\* (acquireSetupLock, releaseSetupLock).
THEOREM SetupTypeCorrect == Spec => []SetupTypeOK
<1>1. Init => SetupTypeOK
  BY TypeInit
<1>2. SetupTypeOK /\ [Next]_vars => SetupTypeOK'
  BY TypeStep
<1> QED
  BY <1>1, <1>2, PTL DEF Spec

-----------------------------------------------------------------------------
(* One key, one spreadsheet, one project.                                  *)

LEMMA OnceInit == Init => OnceInv
<1> SUFFICES ASSUME Init PROVE OnceInv
  OBVIOUS
<1>1. SetupTypeOK
  BY TypeInit
<1>2. \A k \in DOMAIN keys : keys[k].maker = "user"
  BY DEF Init
<1>3. Made("primary") = {} /\ PrimaryCalls = {}
  BY <1>2 DEF Made, PrimaryCalls, Init
<1>4. sheets = <<>> /\ sheetCalls = {} /\ DOMAIN sheets = {}
  BY DEF Init
<1>5. Admits(state) /\ KeyOnce /\ SheetOnce
  BY <1>3, <1>4 DEF Init, Admits, NoKey, NoSheet, KeyOnce, SheetOnce
<1>6. RunsFollow
  BY IdleType DEF RunsFollow, Init
<1> QED
  BY <1>1, <1>5, <1>6 DEF OnceInv

LEMMA KeyQuiet ==
    ASSUME UNCHANGED <<keys, keyCalls>>
    PROVE  /\ NoKey => NoKey'
           /\ KeyOnce => KeyOnce'
BY DEF NoKey, KeyOnce, Made, PrimaryCalls

LEMMA SheetQuiet ==
    ASSUME UNCHANGED <<sheets, sheetCalls>>
    PROVE  /\ NoSheet => NoSheet'
           /\ SheetOnce => SheetOnce'
BY DEF NoSheet, SheetOnce

\* Requests that lose sight of their directory are the same requests.
LEMMA NewDirectoriesQuiet ==
    ASSUME IamTypeOK, NEW a, NewDirectories(a), UNCHANGED keys
    PROVE  /\ NoKey => NoKey'
           /\ KeyOnce => KeyOnce'
<1>1. \A c \in PrimaryCalls' : \E d \in PrimaryCalls :
        c = [d EXCEPT !.attached = d.attached /\ d.account # a]
  BY DEF NewDirectories, PrimaryCalls, IamTypeOK
<1>2. Made("primary")' = Made("primary")
  BY DEF Made
<1> QED
  BY <1>1, <1>2 DEF NoKey, KeyOnce

LEMMA AnswerQuiet ==
    ASSUME IamTypeOK, NEW p \in Processes, KeyCallAnswers(p)
    PROVE  /\ NoKey => NoKey'
           /\ KeyOnce => KeyOnce'
<1>1. \A c \in PrimaryCalls' : \E d \in PrimaryCalls :
        c = [d EXCEPT !.attached = d.attached /\ d.at # starts]
  BY DEF KeyCallAnswers, PrimaryCalls, IamTypeOK
<1>2. Made("primary")' = Made("primary")
  BY DEF Made, KeyCallAnswers
<1> QED
  BY <1>1, <1>2 DEF NoKey, KeyOnce

\* A step of the run p over a checkpoint it may leave behind.
LEMMA QuietOnce ==
    ASSUME OnceInv, SetupTypeOK', NEW p \in Processes,
           \A q \in Processes : q # p => run'[q].pc = "idle",
           run'[p].pc = "idle" \/ Fits(run'[p], state'),
           Admits(state'), UNCHANGED projects,
           NoKey => NoKey', NoSheet => NoSheet', KeyOnce', SheetOnce'
    PROVE  OnceInv'
<1>1. \A q \in Processes : run'[q].pc # "idle" => Fits(run[q], state)'
  BY DEF Fits
<1>2. RunsFollow'
  BY <1>1 DEF RunsFollow
<1>3. Admits(state)'
  BY DEF Admits
<1> QED
  BY <1>2, <1>3 DEF OnceInv

\* The same when the step ends the run and leaves the checkpoint alone.
LEMMA EndsOnce ==
    ASSUME OnceInv, SetupTypeOK', NEW p \in Processes, run[p].pc # "idle", Ends(p),
           UNCHANGED <<state, projects, keys, keyCalls, sheets, sheetCalls>>
    PROVE  OnceInv'
<1>1. RunsTypeOK
  BY TypeParts DEF OnceInv
<1>2. \A q \in Processes : run'[q].pc = "idle"
  BY <1>1, EndsLeaves
<1>3. Admits(state')
  BY DEF OnceInv
<1> QED
  BY <1>2, <1>3, KeyQuiet, SheetQuiet, QuietOnce DEF OnceInv

\* The same for a step of p to r, with no request.
LEMMA GoesOnce ==
    ASSUME OnceInv, SetupTypeOK', NEW p \in Processes, run[p].pc # "idle",
           NEW r, run' = [run EXCEPT ![p] = r], Fits(r, state),
           UNCHANGED <<state, projects, keys, keyCalls, sheets, sheetCalls>>
    PROVE  OnceInv'
<1>1. RunsTypeOK
  BY TypeParts DEF OnceInv
<1>2. \A q \in Processes : q # p => run'[q].pc = "idle"
  BY <1>1, Alone DEF RunsTypeOK
<1>3. run'[p] = r
  BY <1>1 DEF RunsTypeOK
<1>4. Admits(state')
  BY DEF OnceInv
<1> QED
  BY <1>2, <1>3, <1>4, KeyQuiet, SheetQuiet, QuietOnce DEF OnceInv

\* And for a checkpoint that is saved.
LEMMA SaveOnce ==
    ASSUME OnceInv, SetupTypeOK', NEW p \in Processes, run[p].pc # "idle",
           NEW c \in Checkpoints, NEW r \in Runs, Save(p, c, r),
           Admits(c), Fits([r EXCEPT !.mem = c], c),
           UNCHANGED <<projects, sheets, sheetCalls>>,
           NoKey => NoKey', KeyOnce'
    PROVE  OnceInv'
<1>1. RunsTypeOK /\ state \in Checkpoints
  BY TypeParts DEF OnceInv, DiskTypeOK
<1>2. /\ state' \in {state, c}
      /\ \A q \in Processes : q # p => run'[q].pc = "idle"
      /\ \/ run'[p].pc = "idle"
         \/ state' = c /\ run'[p] = [r EXCEPT !.mem = c]
  BY <1>1, SaveLeaves
<1>3. Admits(state')
  BY <1>2 DEF OnceInv
<1>4. run'[p].pc = "idle" \/ Fits(run'[p], state')
  BY <1>2
<1> QED
  BY <1>2, <1>3, <1>4, SheetQuiet, QuietOnce DEF OnceInv

LEMMA OnceParts ==
    ASSUME OnceInv
    PROVE  /\ RunsTypeOK /\ DiskTypeOK /\ IamTypeOK /\ DriveTypeOK /\ BoundsTypeOK
           /\ Admits(state) /\ KeyOnce /\ SheetOnce
           /\ \A p \in Processes : run[p].pc # "idle" => Fits(run[p], state)
           /\ \A p \in Processes : run[p] \in Runs
BY TypeParts DEF OnceInv, RunsFollow, RunsTypeOK

\* A run that goes to a step which relies on no more than the last one did.
LEMMA GoesQuietly ==
    ASSUME OnceInv, SetupTypeOK', NEW p \in Processes, run[p].pc # "idle",
           NEW step \in Steps, Fits([run[p] EXCEPT !.pc = step], state),
           Goes(p, step), UNCHANGED <<state, projects, keys, keyCalls, sheets, sheetCalls>>
    PROVE  OnceInv'
<1>1. At(p, step) = [run[p] EXCEPT !.pc = step]
  BY DEF At
<1> QED
  BY <1>1, GoesOnce DEF Goes

LEMMA StartOnce ==
    ASSUME OnceInv, SetupTypeOK', NEW p \in Processes,
           Begin(p) \/ SelectProject(p) \/ ResumeProject(p) \/ CreateProject(p)
    PROVE  OnceInv'
<1>1. /\ RunsTypeOK /\ DiskTypeOK /\ Admits(state) /\ KeyOnce /\ SheetOnce
      /\ run[p].pc # "idle" => Fits(run[p], state)
  BY OnceParts
<1>2. run[p] \in Runs /\ run[p].mem \in Checkpoints
  BY <1>1, RunFields
<1>3. ASSUME Begin(p) PROVE OnceInv'
  <2>1. PICK named \in {{}} \cup {{x} : x \in projects \cup {state.project}}, pooled \in BOOLEAN :
          run' = [run EXCEPT ![p] =
             [Idle EXCEPT !.pc = FirstStep[state.status], !.mem = state,
                          !.loaded = state.status, !.named = named, !.pooled = pooled,
                          !.names = state.baseline,
                          !.reused = /\ key["primary"] # 0
                                     /\ state.status # "key_create_started"]]
    BY <1>3 DEF Begin
  <2>2. UNCHANGED <<state, projects, keys, keyCalls, sheets, sheetCalls>>
    BY <1>3 DEF Begin, disk, iam, drive
  <2>3. /\ run'[p].pc = FirstStep[state.status] /\ run'[p].mem = state
        /\ run'[p].mayCreate = FALSE
    BY <1>1, <2>1 DEF RunsTypeOK, Idle
  <2>4. \A q \in Processes : q # p => run'[q].pc = "idle"
    <3>1. \A q \in Processes : run[q].pc = "idle"
      BY <1>1, <1>3, SetupAssumption DEF Begin, RunsTypeOK
    <3> QED
      BY <1>1, <2>1, <3>1 DEF RunsTypeOK
  <2>5. state.status \in Statuses
    BY <1>1 DEF DiskTypeOK, Checkpoints
  <2>6. Fits(run'[p], state)
    BY <2>3, <2>5 DEF Fits, FirstStep, Statuses, KeySteps, SheetSteps
  <2> QED
    BY <1>1, <2>2, <2>4, <2>6, KeyQuiet, SheetQuiet, QuietOnce
<1>4. ASSUME SelectProject(p) PROVE OnceInv'
  <2>1. /\ run[p].pc = "project" /\ state.status = "none"
        /\ UNCHANGED <<projects, keys, keyCalls, sheets, sheetCalls>>
    BY <1>1, <1>4 DEF SelectProject, Fits, iam, drive
  <2>2. NoKey /\ NoSheet /\ projects = {0}
    BY <1>1, <2>1 DEF Admits
  <2>3. run[p].named \in SUBSET Nat /\ starts \in Nat
    BY <1>2, OnceParts DEF Runs, BoundsTypeOK
  <2>4. PICK id \in Nat, step \in {"create_project", "key_ready", "baseline"} :
          Save(p, projectState(id), At(p, step))
    BY <1>4, <2>3 DEF SelectProject, KeyStep
  <2>5. At(p, step) \in Runs /\ At(p, step) = [run[p] EXCEPT !.pc = step]
    BY <1>1, AtType DEF RunsTypeOK, Steps
  <2>6. /\ projectState(id) \in Checkpoints /\ projectState(id).status = "project_selected"
        /\ projectState(id).project = id
    BY NoStateType DEF projectState, NoState, Checkpoints, Statuses, FirstStep
  <2>7. Admits(projectState(id))
    BY <2>2, <2>6 DEF Admits
  <2>8. Fits([At(p, step) EXCEPT !.mem = projectState(id)], projectState(id))
    BY <1>2, <2>2, <2>5, <2>6 DEF Fits, KeySteps, SheetSteps, Runs
  <2> QED
    BY <1>1, <2>1, <2>4, <2>5, <2>6, <2>7, <2>8, KeyQuiet, SaveOnce
<1>5. ASSUME ResumeProject(p) PROVE OnceInv'
  <2>1. /\ run[p].pc = "project" /\ state.status = "project_selected" /\ Fits(run[p], state)
        /\ UNCHANGED <<state, projects, keys, keyCalls, sheets, sheetCalls>>
    BY <1>1, <1>5 DEF ResumeProject, Fits, disk, iam, drive
  <2>2. \A step \in {"create_project", "key_ready", "baseline"} :
          step \in Steps /\ Fits([run[p] EXCEPT !.pc = step], state)
    BY <1>2, <2>1 DEF Fits, KeySteps, SheetSteps, Steps, Runs
  <2> QED
    BY <1>5, <2>1, <2>2, GoesQuietly, EndsOnce DEF ResumeProject, KeyStep
<1>6. ASSUME CreateProject(p) PROVE OnceInv'
  <2>1. /\ run[p].pc = "create_project" /\ state.status = "project_selected"
        /\ Fits(run[p], state) /\ run[p].mem.project = state.project
        /\ UNCHANGED <<state, keys, keyCalls, sheets, sheetCalls>>
    BY <1>1, <1>6 DEF CreateProject, Fits, disk, drive
  <2>2. Admits(state)'
    BY <1>1, <1>6, <2>1, KeyQuiet, SheetQuiet DEF CreateProject, Admits
  <2>3. \A step \in {"key_ready", "baseline"} :
          step \in Steps /\ Fits([run[p] EXCEPT !.pc = step], state)
    BY <1>2, <2>1 DEF Fits, KeySteps, SheetSteps, Steps, Runs
  <2>4. run'[p].pc = "idle" \/ Fits(run'[p], state)
    BY <1>1, <1>6, <2>1, <2>3, EndsLeaves, GoesLeaves DEF CreateProject, KeyStep
  <2>5. \A q \in Processes : q # p => run'[q].pc = "idle"
    <3>1. KeyStep(p) \in Steps
      BY DEF KeyStep, Steps
    <3> QED
      BY <1>1, <1>6, <2>1, <3>1, EndsLeaves, GoesLeaves DEF CreateProject
  <2>6. \A q \in Processes : run'[q].pc # "idle" => Fits(run[q], state)'
    BY <2>1, <2>4, <2>5, KeyQuiet, SheetQuiet DEF Fits
  <2> QED
    BY <1>1, <2>1, <2>2, <2>6, KeyQuiet, SheetQuiet DEF OnceInv, RunsFollow
<1> QED
  BY <1>3, <1>4, <1>5, <1>6

LEMMA SettlementOnce ==
    ASSUME OnceInv, SetupTypeOK', NEW p \in Processes,
           RefuseKey(p) \/ installStagedKey(p) \/ FindKey(p) \/ CreateKey(p)
             \/ PollKey(p) \/ KeyCallAnswers(p)
    PROVE  OnceInv'
<1>1. /\ RunsTypeOK /\ IamTypeOK /\ Admits(state) /\ KeyOnce /\ SheetOnce
      /\ run[p].pc # "idle" => Fits(run[p], state)
  BY OnceParts
<1>2. run[p] \in Runs
  BY OnceParts
<1>3. run[p].pc \in {"settle", "creating"} /\ Fits(run[p], state)
  BY <1>1 DEF RefuseKey, installStagedKey, FindKey, CreateKey, PollKey, KeyCallAnswers
<1>4. \A step : At(p, step) = [run[p] EXCEPT !.pc = step]
  BY DEF At
<1>5. ASSUME RefuseKey(p) PROVE OnceInv'
  BY <1>3, <1>5, EndsOnce DEF RefuseKey, disk, iam, drive
<1>6. \A b \in BOOLEAN : Fits([At(p, "cleanup") EXCEPT !.reused = b], state)
  BY <1>2, <1>3, <1>4 DEF Fits, KeySteps, SheetSteps, Runs
<1>7. ASSUME installStagedKey(p) PROVE OnceInv'
  <2>1. baselineIncludes(p, staged(p)) \in BOOLEAN
    BY DEF baselineIncludes
  <2>2. /\ run' = [run EXCEPT ![p] =
               [At(p, "cleanup") EXCEPT !.reused = baselineIncludes(p, staged(p))]]
        /\ UNCHANGED <<state, projects, keys, keyCalls, sheets, sheetCalls>>
    BY <1>7 DEF installStagedKey, iam, drive
  <2> QED
    BY <1>3, <1>6, <2>1, <2>2, GoesOnce
<1>8. ASSUME FindKey(p) PROVE OnceInv'
  <2>1. baselineIncludes(p, final(p)) \in BOOLEAN
    BY DEF baselineIncludes
  <2>2. /\ run' = [run EXCEPT ![p] =
               [At(p, "cleanup") EXCEPT !.reused = baselineIncludes(p, final(p))]]
        /\ UNCHANGED <<state, projects, keys, keyCalls, sheets, sheetCalls>>
    BY <1>8 DEF FindKey, disk, iam, drive
  <2> QED
    BY <1>3, <1>6, <2>1, <2>2, GoesOnce
<1>9. ASSUME CreateKey(p) PROVE OnceInv'
  <2> DEFINE new == [account |-> run[p].account, project |-> run[p].mem.project,
                     at |-> starts, attached |-> TRUE]
             r == [At(p, "creating") EXCEPT !.mayCreate = FALSE]
  <2>1. /\ keyCalls' = keyCalls \cup {new} /\ run' = [run EXCEPT ![p] = r]
        /\ UNCHANGED <<state, projects, keys, sheets, sheetCalls>>
    BY <1>9 DEF CreateKey, drive
  <2>2. Fits(r, state) /\ r.mayCreate = FALSE
    BY <1>2, <1>3, <1>4 DEF Fits, KeySteps, SheetSteps, Runs
  <2>3. run'[p] = r /\ \A q \in Processes : q # p => run'[q].pc = "idle"
    BY <1>1, <1>3, <2>1, Alone DEF RunsTypeOK
  <2>4. run[p].mayCreate
    BY <1>9 DEF CreateKey, MayCreate
  <2>5. Made("primary")' = Made("primary")
    BY <2>1 DEF Made
  <2>6. CASE run[p].account = "primary"
    <3>1. NoKey
      BY <1>3, <2>4, <2>6 DEF Fits
    <3>2. run[p].pc = "settle" /\ state.status = "key_create_started"
      BY <1>3, <1>9, <2>6 DEF CreateKey, Fits, KeySteps
    <3>3. PrimaryCalls' = {new}
      BY <2>1, <2>6, <3>1 DEF PrimaryCalls, NoKey
    <3>4. KeyOnce'
      BY <2>5, <3>1, <3>3 DEF KeyOnce, NoKey
    <3>5. Admits(state)'
      BY <1>1, <2>1, <3>2, SheetQuiet DEF Admits
    <3>6. Fits(run[p], state)'
      BY <2>1, <2>2, <2>3, SheetQuiet DEF Fits
    <3>7. RunsFollow'
      BY <2>3, <3>6 DEF RunsFollow
    <3> QED
      BY <1>1, <2>1, <3>4, <3>5, <3>7, SheetQuiet DEF OnceInv
  <2>7. CASE run[p].account # "primary"
    <3>1. PrimaryCalls' = PrimaryCalls
      BY <2>1, <2>7 DEF PrimaryCalls
    <3>2. (NoKey => NoKey') /\ KeyOnce'
      BY <1>1, <2>5, <3>1 DEF NoKey, KeyOnce
    <3>3. Fits(run'[p], state') /\ Admits(state')
      BY <1>1, <2>1, <2>2, <2>3
    <3> QED
      BY <1>1, <2>1, <2>3, <3>2, <3>3, SheetQuiet, QuietOnce
  <2> QED
    BY <2>6, <2>7
<1>10. ASSUME PollKey(p) PROVE OnceInv'
  <2>1. Fits([run[p] EXCEPT !.checks = @ + 1], state)
    BY <1>2, <1>3 DEF Fits, KeySteps, SheetSteps, Runs
  <2>2. UNCHANGED <<state, projects, keys, keyCalls, sheets, sheetCalls>>
    BY <1>10 DEF PollKey, disk, iam, drive
  <2> QED
    BY <1>3, <1>10, <2>1, <2>2, GoesOnce, EndsOnce DEF PollKey
<1>11. ASSUME KeyCallAnswers(p) PROVE OnceInv'
  <2>1. UNCHANGED <<lock, state, projects, keys, sheets, sheetCalls>>
    BY <1>11 DEF KeyCallAnswers, disk, drive
  <2>2. /\ run'[p] = [run[p] EXCEPT !.pc = "settle"]
        /\ \A q \in Processes : q # p => run'[q].pc = "idle"
    BY <1>1, <1>3, <1>11, <2>1, GoesLeaves DEF KeyCallAnswers, Steps
  <2>3. Fits(run'[p], state')
    BY <1>2, <1>3, <2>1, <2>2 DEF Fits, KeySteps, SheetSteps, Runs
  <2>4. Admits(state')
    BY <1>1, <2>1
  <2> QED
    BY <1>1, <1>11, <2>1, <2>2, <2>3, <2>4, AnswerQuiet, SheetQuiet, QuietOnce
<1> QED
  BY <1>5, <1>7, <1>8, <1>9, <1>10, <1>11

LEMMA CleanupOnce ==
    ASSUME OnceInv, SetupTypeOK', NEW p \in Processes,
           AnnounceKey(p) \/ QuarantineStage(p) \/ UnlinkStaged(p) \/ RemoveQuarantine(p)
             \/ SaveKeyReady(p)
    PROVE  OnceInv'
<1>1. /\ RunsTypeOK /\ IamTypeOK /\ Admits(state) /\ KeyOnce /\ SheetOnce
      /\ run[p].pc # "idle" => Fits(run[p], state)
      /\ run[p] \in Runs /\ run[p].mem \in Checkpoints
  BY OnceParts, RunFields
<1>2. run[p].pc # "idle" /\ Fits(run[p], state)
  BY <1>1 DEF AnnounceKey, QuarantineStage, UnlinkStaged, RemoveQuarantine, SaveKeyReady
<1>3. At(p, "settle") \in Runs /\ At(p, "sheet") \in Runs
  BY <1>1, AtType DEF RunsTypeOK, Steps
<1>4. \A step : At(p, step) = [run[p] EXCEPT !.pc = step]
  BY DEF At
<1>5. ASSUME AnnounceKey(p) PROVE OnceInv'
  <2> DEFINE c == keyStartedState(run[p].mem, Seen(p))
             r == [At(p, "settle") EXCEPT !.names = Seen(p), !.mayCreate = TRUE]
  <2>1. /\ Save(p, c, r) /\ NewDirectories("primary")
        /\ UNCHANGED <<projects, keys, sheets, sheetCalls>>
    BY <1>5 DEF AnnounceKey, drive
  <2>2. state.status = "project_selected" /\ NoKey /\ NoSheet
    BY <1>1, <1>2, <1>5 DEF AnnounceKey, Fits, Admits
  <2>3. Seen(p) \in SUBSET Nat
    BY <1>1, SeenType
  <2>4. c \in Checkpoints /\ c.status = "key_create_started" /\ c.project = state.project
    BY <1>1, <1>2, <2>3 DEF keyStartedState, Checkpoints, Statuses, FirstStep, Fits
  <2>5. r \in Runs /\ r.pc = "settle"
    BY <1>3, <2>3, <1>1, <1>4 DEF Runs
  <2>6. Admits(c)
    BY <1>1, <2>2, <2>4 DEF Admits
  <2>7. [r EXCEPT !.mem = c].pc = "settle" /\ [r EXCEPT !.mem = c].mem = c
    BY <2>5 DEF Runs
  <2>8. Fits([r EXCEPT !.mem = c], c)
    BY <2>2, <2>4, <2>7 DEF Fits, KeySteps, SheetSteps
  <2>9. (NoKey => NoKey') /\ KeyOnce'
    BY <1>1, <2>1, NewDirectoriesQuiet
  <2> QED
    BY <1>2, <2>1, <2>4, <2>5, <2>6, <2>8, <2>9, SaveOnce
<1>6. KeyDone(p) \in Steps
      /\ (run[p].pc \in KeySteps => Fits([run[p] EXCEPT !.pc = KeyDone(p)], state))
  BY <1>1, <1>2 DEF KeyDone, Steps, Fits, KeySteps, SheetSteps, Runs
<1>7. \A step \in {"unlink", "rmdir"} : step \in Steps
      /\ (run[p].pc \in KeySteps => Fits([run[p] EXCEPT !.pc = step], state))
  BY <1>1, <1>2 DEF Steps, Fits, KeySteps, SheetSteps, Runs
<1>8. ASSUME QuarantineStage(p) PROVE OnceInv'
  <2>1. run[p].pc \in KeySteps
        /\ UNCHANGED <<state, projects, keys, keyCalls, sheets, sheetCalls>>
    BY <1>8 DEF QuarantineStage, KeySteps, iam, drive
  <2>2. CASE Ends(p)
    BY <1>2, <2>1, <2>2, EndsOnce
  <2>3. CASE ~ Ends(p)
    <3>1. PICK step \in {"unlink", KeyDone(p)} : Goes(p, step)
      BY <1>8, <2>3 DEF QuarantineStage
    <3> QED
      BY <1>2, <1>6, <1>7, <2>1, <3>1, GoesQuietly
  <2> QED
    BY <2>2, <2>3
<1>9. ASSUME UnlinkStaged(p) PROVE OnceInv'
  <2>1. run[p].pc \in KeySteps
        /\ UNCHANGED <<state, projects, keys, keyCalls, sheets, sheetCalls>>
    BY <1>9 DEF UnlinkStaged, KeySteps, iam, drive
  <2>2. Ends(p) \/ Goes(p, "rmdir")
    BY <1>9 DEF UnlinkStaged
  <2> QED
    BY <1>2, <1>7, <2>1, <2>2, GoesQuietly, EndsOnce
<1>10. ASSUME RemoveQuarantine(p) PROVE OnceInv'
  <2>1. run[p].pc \in KeySteps /\ Goes(p, KeyDone(p))
        /\ UNCHANGED <<state, projects, keys, keyCalls, sheets, sheetCalls>>
    BY <1>10 DEF RemoveQuarantine, KeySteps, iam, drive
  <2> QED
    BY <1>2, <1>6, <2>1, GoesQuietly
<1>11. ASSUME SaveKeyReady(p) PROVE OnceInv'
  <2>1. PICK origin \in Origins : Save(p, keyReadyState(run[p].mem, origin), At(p, "sheet"))
    BY <1>11 DEF SaveKeyReady, Origins
  <2> DEFINE c == keyReadyState(run[p].mem, origin)
  <2>2. c \in Checkpoints /\ c.status = "key_ready" /\ c.project = state.project
    BY <1>1, <1>2 DEF keyReadyState, Checkpoints, Statuses, FirstStep, Fits
  <2>3. state.status \in {"project_selected", "key_create_started"}
        /\ UNCHANGED <<projects, keys, keyCalls, sheets, sheetCalls>>
    BY <1>2, <1>11 DEF SaveKeyReady, Fits, iam, drive
  <2>4. Admits(c)
    BY <1>1, <2>2, <2>3 DEF Admits
  <2>5. /\ [At(p, "sheet") EXCEPT !.mem = c].pc = "sheet"
        /\ [At(p, "sheet") EXCEPT !.mem = c].mem = c
        /\ [At(p, "sheet") EXCEPT !.mem = c].mayCreate = run[p].mayCreate
        /\ [At(p, "sheet") EXCEPT !.mem = c].account = run[p].account
    BY <1>1, <1>4 DEF Runs
  <2>6. Fits([At(p, "sheet") EXCEPT !.mem = c], c)
    BY <1>2, <2>2, <2>5 DEF Fits, KeySteps, SheetSteps
  <2> QED
    BY <1>1, <1>2, <1>3, <2>1, <2>2, <2>3, <2>4, <2>6, KeyQuiet, SaveOnce
<1> QED
  BY <1>5, <1>8, <1>9, <1>10, <1>11

\* A checkpoint past the creation of the spreadsheet admits everything.
LEMMA LateSaveOnce ==
    ASSUME OnceInv, SetupTypeOK', NEW p \in Processes, run[p].pc # "idle",
           NEW c \in Checkpoints, NEW step \in {"share", "ensure", "env", "pool", "pool_env"},
           c.status \notin {"none", "project_selected", "key_create_started", "key_ready"},
           c.project = run[p].mem.project, Save(p, c, At(p, step)),
           UNCHANGED <<projects, keys, keyCalls, sheets, sheetCalls>>
    PROVE  OnceInv'
<1>1. /\ RunsTypeOK /\ Admits(state) /\ KeyOnce /\ Fits(run[p], state) /\ run[p] \in Runs
  BY OnceParts
<1>2. At(p, step) \in Runs /\ At(p, step) = [run[p] EXCEPT !.pc = step]
  BY <1>1, AtType DEF RunsTypeOK, Steps
<1>3. Admits(c)
  BY <1>1 DEF Admits, Fits
<1>4. Fits([At(p, step) EXCEPT !.mem = c], c)
  BY <1>1, <1>2 DEF Fits, KeySteps, SheetSteps, Runs
<1> QED
  BY <1>1, <1>2, <1>3, <1>4, KeyQuiet, SaveOnce

LEMMA SheetOnceStep ==
    ASSUME OnceInv, SetupTypeOK', NEW p \in Processes,
           AnnounceSheet(p) \/ createSpreadsheet(p) \/ SheetCallAnswers(p) \/ FindSheet(p)
    PROVE  OnceInv'
<1>1. /\ RunsTypeOK /\ Admits(state) /\ KeyOnce /\ SheetOnce
      /\ run[p].pc # "idle" => Fits(run[p], state)
      /\ run[p] \in Runs /\ run[p].mem \in Checkpoints /\ run[p].mem.keyOrigin \in Origins
  BY OnceParts, RunFields
<1>2. run[p].pc # "idle" /\ Fits(run[p], state)
  BY <1>1 DEF AnnounceSheet, createSpreadsheet, SheetCallAnswers, FindSheet
<1>3. \A s \in DOMAIN sheets :
        /\ createdState(p, s) \in Checkpoints
        /\ createdState(p, s).status = "spreadsheet_created"
        /\ createdState(p, s).project = run[p].mem.project
  <2>1. \A s \in DOMAIN sheets : s \in Nat
    BY OnceParts DEF DriveTypeOK
  <2> QED
    BY <1>1, <2>1 DEF createdState, spreadsheetState, Checkpoints, Statuses, FirstStep, Origins
<1>4. ASSUME AnnounceSheet(p) PROVE OnceInv'
  <2> DEFINE c == startedState(run[p].mem, starts)
  <2>1. Save(p, c, At(p, "create_sheet"))
        /\ UNCHANGED <<projects, keys, keyCalls, sheets, sheetCalls>>
    BY <1>4 DEF AnnounceSheet, iam, drive
  <2>2. NoSheet /\ starts \in Nat
    BY <1>1, <1>2, <1>4, OnceParts DEF AnnounceSheet, Fits, Admits, BoundsTypeOK
  <2>3. c \in Checkpoints /\ c.status = "spreadsheet_create_started" /\ c.project = state.project
    BY <1>1, <1>2, <2>2 DEF startedState, Checkpoints, Statuses, FirstStep, Fits
  <2>4. Admits(c)
    BY <1>1, <2>2, <2>3 DEF Admits
  <2>5. At(p, "create_sheet") \in Runs
        /\ At(p, "create_sheet") = [run[p] EXCEPT !.pc = "create_sheet"]
    BY <1>1, AtType DEF RunsTypeOK, Steps
  <2>6. /\ [At(p, "create_sheet") EXCEPT !.mem = c].pc = "create_sheet"
        /\ [At(p, "create_sheet") EXCEPT !.mem = c].mem = c
        /\ [At(p, "create_sheet") EXCEPT !.mem = c].mayCreate = run[p].mayCreate
        /\ [At(p, "create_sheet") EXCEPT !.mem = c].account = run[p].account
    BY <1>1, <2>5 DEF Runs
  <2>7. Fits([At(p, "create_sheet") EXCEPT !.mem = c], c)
    BY <1>2, <2>2, <2>3, <2>6 DEF Fits, KeySteps, SheetSteps
  <2> QED
    BY <1>1, <1>2, <2>1, <2>3, <2>4, <2>5, <2>7, KeyQuiet, SaveOnce
<1>5. ASSUME createSpreadsheet(p) PROVE OnceInv'
  <2>1. /\ sheetCalls' = sheetCalls \cup {run[p].mem.mark}
        /\ UNCHANGED <<lock, state, projects, keys, keyCalls, sheets>>
    BY <1>5 DEF createSpreadsheet, disk, iam
  <2>2. NoSheet /\ state.status = "spreadsheet_create_started"
    BY <1>2, <1>5 DEF createSpreadsheet, Fits, SheetSteps
  <2>3. SheetOnce'
    BY <2>1, <2>2 DEF SheetOnce, NoSheet
  <2>4. Admits(state)' /\ KeyOnce'
    BY <1>1, <2>1, <2>2, KeyQuiet DEF Admits
  <2>5. /\ run'[p] = [run[p] EXCEPT !.pc = "creating_sheet"]
        /\ \A q \in Processes : q # p => run'[q].pc = "idle"
    BY <1>1, <1>2, <1>5, <2>1, GoesLeaves DEF createSpreadsheet, Steps
  <2>6. Fits(run[p], state)'
    BY <1>1, <1>2, <2>1, <2>2, <2>5, KeyQuiet DEF Fits, KeySteps, SheetSteps, Runs
  <2> QED
    BY <2>3, <2>4, <2>5, <2>6 DEF OnceInv, RunsFollow
<1>6. ASSUME SheetCallAnswers(p) PROVE OnceInv'
  <2>1. run[p].pc = "creating_sheet" /\ state.status = "spreadsheet_create_started"
        /\ UNCHANGED <<projects, keys, keyCalls, sheets>>
    BY <1>2, <1>6 DEF SheetCallAnswers, Fits, SheetSteps, iam
  <2>2. CASE \E s \in DOMAIN sheets :
               Save(p, createdState(p, s), At(p, "share")) /\ UNCHANGED sheetCalls
    BY <1>2, <1>3, <2>1, <2>2, LateSaveOnce
  <2>3. CASE /\ run[p].mem.mark \in sheetCalls
             /\ sheetCalls' = sheetCalls \ {run[p].mem.mark}
             /\ Goes(p, "find_rejected")
             /\ UNCHANGED <<lock, state>>
    <3>1. NoSheet'
      BY <1>1, <2>1, <2>3 DEF SheetOnce, NoSheet
    <3>2. SheetOnce'
      BY <3>1 DEF SheetOnce, NoSheet
    <3>3. /\ run'[p] = [run[p] EXCEPT !.pc = "find_rejected"]
          /\ \A q \in Processes : q # p => run'[q].pc = "idle"
      BY <1>1, <1>2, <2>3, GoesLeaves DEF Steps
    <3>4. Fits(run[p], state)'
      BY <1>1, <1>2, <2>1, <2>3, <3>1, <3>3, KeyQuiet DEF Fits, KeySteps, SheetSteps, Runs
    <3>5. Admits(state)' /\ KeyOnce'
      BY <1>1, <2>1, <2>3, KeyQuiet DEF Admits
    <3> QED
      BY <3>2, <3>3, <3>4, <3>5 DEF OnceInv, RunsFollow
  <2>4. CASE Goes(p, "find_sheet") /\ UNCHANGED <<lock, state, sheetCalls>>
    <3>1. Fits([run[p] EXCEPT !.pc = "find_sheet"], state)
      BY <1>1, <1>2, <2>1 DEF Fits, KeySteps, SheetSteps, Runs
    <3> QED
      BY <1>2, <2>1, <2>4, <3>1, GoesQuietly DEF Steps
  <2> QED
    BY <1>6, <2>2, <2>3, <2>4 DEF SheetCallAnswers
<1>7. ASSUME FindSheet(p) PROVE OnceInv'
  <2>1. /\ state.status = "spreadsheet_create_started"
        /\ run[p].pc = "find_rejected" => NoSheet
        /\ UNCHANGED <<projects, keys, keyCalls, sheets, sheetCalls>>
    BY <1>2, <1>7 DEF FindSheet, Fits, SheetSteps, iam, drive
  <2>2. \A s \in found : s \in DOMAIN sheets
    BY OnceParts DEF DriveTypeOK
  <2>3. CASE \E s \in DOMAIN sheets : Save(p, createdState(p, s), At(p, "share"))
    BY <1>2, <1>3, <2>1, <2>3, LateSaveOnce
  <2>4. CASE /\ Ends(p)
             /\ \/ UNCHANGED state
                \/ /\ run[p].pc = "find_rejected"
                   /\ state' = keyReadyState(run[p].mem, run[p].mem.keyOrigin)
    <3>1. \A q \in Processes : run'[q].pc = "idle"
      BY <1>1, <1>2, <2>4, EndsLeaves
    <3>2. keyReadyState(run[p].mem, run[p].mem.keyOrigin).status = "key_ready"
          /\ keyReadyState(run[p].mem, run[p].mem.keyOrigin).project = state.project
      BY <1>1, <1>2 DEF keyReadyState, Checkpoints, Fits
    <3>3. Admits(state')
      BY <1>1, <2>1, <2>4, <3>2 DEF Admits
    <3> QED
      BY <1>1, <2>1, <3>1, <3>3, KeyQuiet, SheetQuiet, QuietOnce
  <2> QED
    BY <1>7, <2>2, <2>3, <2>4 DEF FindSheet, RollsBack
<1> QED
  BY <1>4, <1>5, <1>6, <1>7

LEMMA ShareOnce ==
    ASSUME OnceInv, SetupTypeOK', NEW p \in Processes,
           AnnounceShare(p) \/ EnsureWriter(p) \/ SaveShared(p) \/ WriteEnv(p) \/ SaveComplete(p)
    PROVE  OnceInv'
<1>1. /\ run[p].pc # "idle" => Fits(run[p], state)
      /\ run[p] \in Runs /\ run[p].mem \in Checkpoints /\ run[p].mem.sheet \in Nat
      /\ run[p].mem.shareOrigin \in Origins
  BY OnceParts, RunFields
<1>2. run[p].pc # "idle" /\ Fits(run[p], state)
  BY <1>1 DEF AnnounceShare, EnsureWriter, SaveShared, WriteEnv, SaveComplete
<1>3. UNCHANGED <<projects, keys, keyCalls, sheets, sheetCalls>>
  BY DEF AnnounceShare, EnsureWriter, SaveShared, WriteEnv, SaveComplete, iam, drive
<1>4. \A status \in {"spreadsheet_share_started", "spreadsheet_shared", "complete"},
         origin \in Origins :
        LET c == spreadsheetState(run[p].mem, status, run[p].mem.sheet, origin)
        IN  c \in Checkpoints /\ c.status = status /\ c.project = run[p].mem.project
  BY <1>1 DEF spreadsheetState, Checkpoints, Statuses, FirstStep
<1>5. ASSUME AnnounceShare(p) PROVE OnceInv'
  BY <1>2, <1>3, <1>4, <1>5, LateSaveOnce DEF AnnounceShare, Origins
<1>6. ASSUME EnsureWriter(p) PROVE OnceInv'
  <2>1. UNCHANGED state
    BY <1>6 DEF EnsureWriter, disk
  <2>2. CASE Ends(p)
    BY <1>2, <1>3, <2>1, <2>2, EndsOnce
  <2>3. CASE ~ Ends(p)
    <3>1. PICK origin \in {"reused", "fresh"} :
            run' = [run EXCEPT ![p] = [At(p, "shared") EXCEPT !.mem.shareOrigin = origin]]
      BY <1>6, <2>3 DEF EnsureWriter
    <3>2. Fits([At(p, "shared") EXCEPT !.mem.shareOrigin = origin], state)
      BY <1>1, <1>2 DEF At, Fits, KeySteps, SheetSteps, Runs, Checkpoints
    <3> QED
      BY <1>2, <1>3, <2>1, <3>1, <3>2, GoesOnce
  <2> QED
    BY <2>2, <2>3
<1>7. ASSUME SaveShared(p) PROVE OnceInv'
  BY <1>1, <1>2, <1>3, <1>4, <1>7, LateSaveOnce DEF SaveShared
<1>8. ASSUME WriteEnv(p) PROVE OnceInv'
  <2>1. PICK step \in {"pool", "complete"} : Goes(p, step)
    BY <1>8 DEF WriteEnv
  <2>2. UNCHANGED state
    BY <1>8 DEF WriteEnv
  <2>3. step \in Steps /\ Fits([run[p] EXCEPT !.pc = step], state)
    BY <1>1, <1>2 DEF Fits, KeySteps, SheetSteps, Runs, Steps
  <2> QED
    BY <1>2, <1>3, <2>1, <2>2, <2>3, GoesQuietly
<1>9. ASSUME SaveComplete(p) PROVE OnceInv'
  BY <1>1, <1>2, <1>3, <1>4, <1>9, LateSaveOnce DEF SaveComplete
<1> QED
  BY <1>5, <1>6, <1>7, <1>8, <1>9

LEMMA PoolOnce ==
    ASSUME OnceInv, SetupTypeOK', NEW p \in Processes,
           ExpandPool(p) \/ SharePool(p) \/ SavePool(p) \/ WritePoolEnv(p)
    PROVE  OnceInv'
<1>1. /\ RunsTypeOK /\ IamTypeOK /\ Admits(state) /\ KeyOnce /\ SheetOnce
      /\ run[p].pc # "idle" => Fits(run[p], state)
      /\ run[p] \in Runs /\ run[p].mem \in Checkpoints
  BY OnceParts, RunFields
<1>2. run[p].pc # "idle" /\ Fits(run[p], state)
  BY <1>1 DEF ExpandPool, SharePool, SavePool, WritePoolEnv
<1>3. UNCHANGED <<projects, keys, sheets, sheetCalls>>
  BY DEF ExpandPool, SharePool, SavePool, WritePoolEnv, iam, drive
<1>4. \A step \in {"pool_env", "pool_save"} :
        step \in Steps /\ Fits([run[p] EXCEPT !.pc = step], state)
  BY <1>1, <1>2 DEF Fits, KeySteps, SheetSteps, Runs, Steps
<1>5. ASSUME ExpandPool(p) PROVE OnceInv'
  <2>1. UNCHANGED state
    BY <1>5 DEF ExpandPool
  <2>2. CASE Ends(p) /\ UNCHANGED keyCalls
    BY <1>2, <1>3, <2>1, <2>2, EndsOnce
  <2>3. CASE Goes(p, "pool_env") /\ UNCHANGED keyCalls
    BY <1>2, <1>3, <1>4, <2>1, <2>3, GoesQuietly
  <2>4. CASE ~ (Ends(p) /\ UNCHANGED keyCalls) /\ ~ (Goes(p, "pool_env") /\ UNCHANGED keyCalls)
    <3>1. PICK names \in SUBSET listed :
            /\ run' = [run EXCEPT ![p] =
                 [[At(p, "settle") EXCEPT !.account = "pool", !.checks = 0, !.mayCreate = TRUE]
                    EXCEPT !.names = names]]
            /\ NewDirectories("pool")
      BY <1>5, <2>4 DEF ExpandPool
    <3>2. /\ run'[p].pc = "settle" /\ run'[p].account = "pool" /\ run'[p].mem = run[p].mem
      BY <1>1, <3>1 DEF RunsTypeOK, Runs, At
    <3>3. Fits(run'[p], state')
      BY <1>2, <2>1, <3>2 DEF Fits, KeySteps, SheetSteps
    <3>4. \A q \in Processes : q # p => run'[q].pc = "idle"
      BY <1>1, <1>2, <3>1, Alone DEF RunsTypeOK
    <3>5. (NoKey => NoKey') /\ KeyOnce'
      BY <1>1, <1>3, <3>1, NewDirectoriesQuiet
    <3>6. Admits(state')
      BY <1>1, <2>1
    <3> QED
      BY <1>1, <1>3, <3>3, <3>4, <3>5, <3>6, SheetQuiet, QuietOnce
  <2> QED
    BY <2>2, <2>3, <2>4
<1>6. ASSUME SharePool(p) PROVE OnceInv'
  <2>1. UNCHANGED <<state, keyCalls>>
    BY <1>6 DEF SharePool, disk, iam
  <2> QED
    BY <1>2, <1>3, <1>4, <1>6, <2>1, GoesQuietly, EndsOnce DEF SharePool
<1>7. ASSUME SavePool(p) PROVE OnceInv'
  <2> DEFINE c == [run[p].mem EXCEPT !.pool = TRUE]
  <2>1. Save(p, c, At(p, "pool_env")) /\ UNCHANGED keyCalls
    BY <1>7 DEF SavePool, iam
  <2>2. c \in Checkpoints /\ c.status = state.status /\ c.project = state.project
    BY <1>1, <1>2 DEF Checkpoints, Fits
  <2>3. Admits(c)
    BY <1>1, <2>2 DEF Admits
  <2>4. At(p, "pool_env") \in Runs /\ At(p, "pool_env") = [run[p] EXCEPT !.pc = "pool_env"]
    BY <1>1, AtType DEF RunsTypeOK, Steps
  <2>5. /\ [At(p, "pool_env") EXCEPT !.mem = c].pc = "pool_env"
        /\ [At(p, "pool_env") EXCEPT !.mem = c].mem = c
        /\ [At(p, "pool_env") EXCEPT !.mem = c].mayCreate = run[p].mayCreate
        /\ [At(p, "pool_env") EXCEPT !.mem = c].account = run[p].account
    BY <1>1, <2>4 DEF Runs
  <2>6. Fits([At(p, "pool_env") EXCEPT !.mem = c], c)
    BY <1>2, <2>2, <2>5 DEF Fits, KeySteps, SheetSteps
  <2> QED
    BY <1>1, <1>2, <1>3, <2>1, <2>2, <2>3, <2>4, <2>6, KeyQuiet, SaveOnce
<1>8. ASSUME WritePoolEnv(p) PROVE OnceInv'
  <2>1. Ends(p) /\ UNCHANGED <<state, keyCalls>>
    BY <1>8 DEF WritePoolEnv, iam
  <2> QED
    BY <1>2, <1>3, <2>1, EndsOnce
<1> QED
  BY <1>5, <1>6, <1>7, <1>8

\* The cloud executes or drops a request; the runs and the checkpoint stay.
LEMMA CloudOnce ==
    ASSUME OnceInv, SetupTypeOK', Cloud
    PROVE  OnceInv'
<1>1. /\ IamTypeOK /\ DriveTypeOK /\ Admits(state) /\ KeyOnce /\ SheetOnce
      /\ \A p \in Processes : run[p].pc # "idle" => Fits(run[p], state)
  BY OnceParts
<1>2. UNCHANGED <<state, run, projects>>
  BY DEF Cloud, KeyCallRuns, KeyCallLost, KeyListed, SheetCallRuns, SheetCallLost, SheetFound,
     disk, iam
<1>3. ASSUME NoKey => NoKey', NoSheet => NoSheet', KeyOnce', SheetOnce'
      PROVE  OnceInv'
  <2>1. Admits(state)'
    BY <1>1, <1>2, <1>3 DEF Admits
  <2>2. RunsFollow'
    BY <1>1, <1>2, <1>3 DEF RunsFollow, Fits
  <2> QED
    BY <1>3, <2>1, <2>2 DEF OnceInv
<1>4. ASSUME NEW c \in keyCalls, KeyCallRuns(c) PROVE OnceInv'
  <2> DEFINE new == [account |-> c.account, maker |-> "setup", project |-> c.project]
  <2>1. /\ keys' = Append(keys, new) /\ keyCalls' = keyCalls \ {c}
        /\ UNCHANGED <<sheets, sheetCalls>>
    BY <1>4 DEF KeyCallRuns, drive
  <2>2. /\ DOMAIN keys' = DOMAIN keys \cup {Len(keys) + 1}
        /\ \A k \in DOMAIN keys : keys'[k] = keys[k]
        /\ keys'[Len(keys) + 1] = new
    BY <1>1, <2>1 DEF IamTypeOK
  <2>3. CASE c.account = "primary"
    <3>1. c \in PrimaryCalls /\ PrimaryCalls' = {} /\ Made("primary") = {}
      BY <1>1, <2>1, <2>3 DEF PrimaryCalls, KeyOnce
    <3>2. Made("primary")' \subseteq {Len(keys) + 1}
      BY <2>2, <3>1 DEF Made
    <3>3. KeyOnce' /\ ~ NoKey
      BY <3>1, <3>2 DEF KeyOnce, NoKey
    <3> QED
      BY <1>1, <1>3, <2>1, <3>3, SheetQuiet
  <2>4. CASE c.account # "primary"
    <3>1. PrimaryCalls' = PrimaryCalls
      BY <2>1, <2>4 DEF PrimaryCalls
    <3>2. Made("primary")' = Made("primary")
      BY <2>2, <2>4 DEF Made
    <3> QED
      BY <1>1, <1>3, <2>1, <3>1, <3>2, SheetQuiet DEF KeyOnce, NoKey
  <2> QED
    BY <2>3, <2>4
<1>5. ASSUME NEW c \in keyCalls, KeyCallLost(c) PROVE OnceInv'
  <2>1. PrimaryCalls' \subseteq PrimaryCalls /\ Made("primary")' = Made("primary")
        /\ UNCHANGED <<sheets, sheetCalls>>
    BY <1>5 DEF KeyCallLost, PrimaryCalls, Made, drive
  <2> QED
    BY <1>1, <1>3, <2>1, SheetQuiet DEF KeyOnce, NoKey
<1>6. ASSUME NEW k \in DOMAIN keys, KeyListed(k) PROVE OnceInv'
  BY <1>1, <1>3, <1>6, KeyQuiet, SheetQuiet DEF KeyListed, drive
<1>7. ASSUME NEW m \in sheetCalls, SheetCallRuns(m) \/ SheetCallLost(m) PROVE OnceInv'
  <2>1. UNCHANGED <<keys, keyCalls>> /\ sheets = <<>> /\ ~ NoSheet /\ sheetCalls' = {}
    BY <1>1, <1>7 DEF SheetCallRuns, SheetCallLost, iam, SheetOnce, NoSheet
  <2>2. sheets' = <<>> \/ sheets' = <<m>>
    BY <1>7, <2>1 DEF SheetCallRuns, SheetCallLost
  <2>3. \A s, t \in DOMAIN sheets' : s = t
    BY <2>2
  <2>4. SheetOnce'
    BY <2>1, <2>3 DEF SheetOnce
  <2> QED
    BY <1>1, <1>3, <2>1, <2>4, KeyQuiet
<1>8. ASSUME NEW s \in DOMAIN sheets, SheetFound(s) PROVE OnceInv'
  BY <1>1, <1>3, <1>8, KeyQuiet, SheetQuiet DEF SheetFound, iam
<1> QED
  BY <1>4, <1>5, <1>6, <1>7, <1>8 DEF Cloud

LEMMA OtherOnce ==
    ASSUME OnceInv, SetupTypeOK',
           \/ \E p \in Processes : Fails(p) \/ Crash(p)
           \/ RemoveLock
           \/ \E s \in DOMAIN sheets : UserShares(s)
           \/ UNCHANGED vars
    PROVE  OnceInv'
<1>1. /\ Admits(state) /\ KeyOnce /\ SheetOnce /\ RunsTypeOK
      /\ \A p \in Processes : run[p].pc # "idle" => Fits(run[p], state)
  BY OnceParts
<1>2. UNCHANGED <<state, projects, keys, keyCalls, sheets, sheetCalls>>
  BY DEF Fails, Crash, RemoveLock, UserShares, vars, disk, iam, drive
<1>3. ASSUME NEW p \in Processes, Fails(p) PROVE OnceInv'
  BY <1>2, <1>3, EndsOnce DEF Fails
<1>4. ASSUME \A p \in Processes : run'[p].pc = "idle" \/ run'[p] = run[p]
      PROVE  OnceInv'
  <2>1. Admits(state)'
    BY <1>1, <1>2, KeyQuiet, SheetQuiet DEF Admits
  <2>2. RunsFollow'
    BY <1>1, <1>2, <1>4, KeyQuiet, SheetQuiet DEF RunsFollow, Fits
  <2> QED
    BY <1>1, <1>2, <2>1, <2>2, KeyQuiet, SheetQuiet DEF OnceInv
<1>5. ASSUME NEW p \in Processes, Crash(p) PROVE OnceInv'
  <2>1. \A q \in Processes : run'[q].pc = "idle" \/ run'[q] = run[q]
    BY <1>1, <1>5, IdleType DEF Crash, RunsTypeOK
  <2> QED
    BY <1>4, <2>1
<1>6. ASSUME UNCHANGED run PROVE OnceInv'
  BY <1>4, <1>6
<1> QED
  BY <1>3, <1>5, <1>6 DEF RemoveLock, UserShares, vars

LEMMA OnceStep == OnceInv /\ [Next]_vars => OnceInv'
<1> SUFFICES ASSUME OnceInv, [Next]_vars PROVE OnceInv'
  OBVIOUS
<1>1. SetupTypeOK'
  BY TypeStep DEF OnceInv
<1> QED
  BY <1>1, StartOnce, SettlementOnce, CleanupOnce, SheetOnceStep, ShareOnce, PoolOnce,
     CloudOnce, OtherOnce DEF Next, RunStep, KeyStage, SheetStage

LEMMA OnceAlways == Spec => []OnceInv
<1>1. Init => OnceInv
  BY OnceInit
<1>2. OnceInv /\ [Next]_vars => OnceInv'
  BY OnceStep
<1> QED
  BY <1>1, <1>2, PTL DEF Spec

\* However often setup is killed, retried or answered late, one checkpoint
\* makes at most one key of the primary account (settleServiceAccountKey).
THEOREM KeyIsCreatedOnce == Spec => []KeyCreatedOnce
<1>1. OnceInv => KeyCreatedOnce
  BY DEF OnceInv, KeyOnce, KeyCreatedOnce
<1> QED
  BY <1>1, OnceAlways, PTL

\* And at most one spreadsheet and one project: the marker is in the
\* checkpoint before the request is sent, and the checkpoint goes back to
\* key_ready only when that request was refused.
THEOREM SpreadsheetIsCreatedOnce == Spec => []SpreadsheetCreatedOnce
<1>1. OnceInv => SpreadsheetCreatedOnce
  BY DEF OnceInv, SheetOnce, Admits, SpreadsheetCreatedOnce
<1> QED
  BY <1>1, OnceAlways, PTL

-----------------------------------------------------------------------------
(* The copies of the key.                                                  *)

\* What a directory of the primary account may hold.
Holds(d) ==
    /\ d.file \in {0, Partial} \cup Made("primary")
    /\ ~ d.dir => d.file = 0

\* While a key is announced, the installed key is the one setup made, what is
\* set aside is a link to it, and there is one directory at a time.
Announced ==
    /\ key["primary"] \in {0} \cup Made("primary")
    /\ quarantine["primary"].file \in {0, key["primary"]}
    /\ stage["primary"].file = Partial => key["primary"] = 0
    /\ ~ (stage["primary"].dir /\ quarantine["primary"].dir)

\* What a run that is going on knows of the copies.
Knows(r) ==
    /\ r.pc \in {"project", "create_project"} /\ ~ r.reused => key["primary"] = 0
    /\ r.pc = "baseline" => key["primary"] = 0
    /\ r.account = "primary" =>
         /\ r.mayCreate => ~ stage["primary"].dir /\ ~ quarantine["primary"].dir
         /\ r.pc \in {"cleanup", "unlink"} => key["primary"] # 0
         /\ r.pc = "cleanup" => stage["primary"].file \in {0, key["primary"]}
         /\ r.pc = "unlink" => ~ stage["primary"].dir

CopyInv ==
    /\ OnceInv
    /\ Holds(stage["primary"]) /\ Holds(quarantine["primary"])
    /\ PrimaryCalls # {} => key["primary"] = 0
    /\ state.status = "key_create_started" => Announced
    /\ \A p \in Processes : run[p].pc # "idle" => Knows(run[p])

LEMMA CopyInit == Init => CopyInv
<1> SUFFICES ASSUME Init PROVE CopyInv
  OBVIOUS
<1>1. OnceInv
  BY OnceInit
<1>2. Holds(stage["primary"]) /\ Holds(quarantine["primary"])
  BY DEF Init, Holds, Absent, Accounts
<1>3. PrimaryCalls = {} /\ state.status = "none"
  BY DEF Init, PrimaryCalls, NoState
<1>4. \A p \in Processes : run[p].pc = "idle"
  BY IdleType DEF Init
<1> QED
  BY <1>1, <1>2, <1>3, <1>4 DEF CopyInv

LEMMA CopyParts ==
    ASSUME CopyInv
    PROVE  /\ RunsTypeOK /\ DiskTypeOK /\ IamTypeOK /\ Admits(state) /\ KeyOnce
           /\ Holds(stage["primary"]) /\ Holds(quarantine["primary"])
           /\ PrimaryCalls # {} => key["primary"] = 0
           /\ state.status = "key_create_started" => Announced
           /\ \A p \in Processes : run[p].pc # "idle" => Fits(run[p], state) /\ Knows(run[p])
           /\ \A p \in Processes : run[p] \in Runs
BY OnceParts DEF CopyInv

\* A step that leaves the copies of the primary's key and its requests alone.
CopiesStay ==
    /\ key'["primary"] = key["primary"]
    /\ stage'["primary"] = stage["primary"]
    /\ quarantine'["primary"] = quarantine["primary"]
    /\ Made("primary")' = Made("primary")
    /\ PrimaryCalls' # {} => PrimaryCalls # {}

LEMMA CopySame ==
    ASSUME CopyInv, OnceInv', CopiesStay,
           state'.status = "key_create_started" => state.status = "key_create_started",
           \A q \in Processes : run'[q].pc = "idle" \/ Knows(run'[q])
    PROVE  CopyInv'
<1>1. /\ Holds(stage["primary"]) /\ Holds(quarantine["primary"])
      /\ PrimaryCalls # {} => key["primary"] = 0
      /\ state.status = "key_create_started" => Announced
  BY CopyParts
<1>2. Holds(stage["primary"])' /\ Holds(quarantine["primary"])'
  BY <1>1 DEF Holds, CopiesStay
<1>3. (state.status = "key_create_started" => Announced)'
  BY <1>1 DEF Announced, CopiesStay
<1>4. (\A q \in Processes : run[q].pc # "idle" => Knows(run[q]))'
  BY DEF Knows, CopiesStay
<1>5. (PrimaryCalls # {} => key["primary"] = 0)'
  BY <1>1 DEF CopiesStay
<1> QED
  BY <1>2, <1>3, <1>4, <1>5 DEF CopyInv

LEMMA CopyQuiet ==
    ASSUME CopyInv, OnceInv', UNCHANGED <<key, stage, quarantine, keys, keyCalls>>,
           state'.status = "key_create_started" => state.status = "key_create_started",
           \A q \in Processes : run'[q].pc = "idle" \/ Knows(run'[q])
    PROVE  CopyInv'
<1>1. CopiesStay
  BY DEF CopiesStay, Made, PrimaryCalls
<1> QED
  BY <1>1, CopySame

LEMMA EndsCopy ==
    ASSUME CopyInv, OnceInv', NEW p \in Processes, run[p].pc # "idle", Ends(p),
           UNCHANGED <<key, stage, quarantine, keys, keyCalls>>,
           state'.status = "key_create_started" => state.status = "key_create_started"
    PROVE  CopyInv'
<1>1. \A q \in Processes : run'[q].pc = "idle"
  BY CopyParts, EndsLeaves
<1> QED
  BY <1>1, CopyQuiet

LEMMA GoesCopy ==
    ASSUME CopyInv, OnceInv', NEW p \in Processes, run[p].pc # "idle",
           NEW r, run' = [run EXCEPT ![p] = r], Knows(r),
           UNCHANGED <<state, key, stage, quarantine, keys, keyCalls>>
    PROVE  CopyInv'
<1>1. RunsTypeOK
  BY CopyParts
<1>2. run'[p] = r /\ \A q \in Processes : q # p => run'[q].pc = "idle"
  BY <1>1, Alone DEF RunsTypeOK
<1> QED
  BY <1>2, CopyQuiet

LEMMA SaveCopy ==
    ASSUME CopyInv, OnceInv', NEW p \in Processes, run[p].pc # "idle",
           NEW c \in Checkpoints, NEW r \in Runs, Save(p, c, r),
           c.status = "key_create_started" => state.status = "key_create_started",
           Knows([r EXCEPT !.mem = c]),
           UNCHANGED <<key, stage, quarantine, keys, keyCalls>>
    PROVE  CopyInv'
<1>1. /\ state' \in {state, c}
      /\ \A q \in Processes : q # p => run'[q].pc = "idle"
      /\ run'[p].pc = "idle" \/ run'[p] = [r EXCEPT !.mem = c]
  BY CopyParts, SaveLeaves DEF DiskTypeOK
<1> QED
  BY <1>1, CopyQuiet

\* What p knows at a step that asks nothing of the copies.
PlainSteps == Steps \ {"idle", "project", "create_project", "baseline", "cleanup", "unlink"}

LEMMA PlainKnows ==
    ASSUME NEW p \in Processes, run[p] \in Runs, Knows(run[p]), NEW step \in PlainSteps
    PROVE  /\ At(p, step) = [run[p] EXCEPT !.pc = step] /\ At(p, step) \in Runs
           /\ Knows(At(p, step))
           /\ \A c \in Checkpoints : Knows([At(p, step) EXCEPT !.mem = c])
BY DEF PlainSteps, Knows, At, Runs

LEMMA StartCopy ==
    ASSUME CopyInv, OnceInv', NEW p \in Processes,
           Begin(p) \/ SelectProject(p) \/ ResumeProject(p) \/ CreateProject(p)
    PROVE  CopyInv'
<1>1. /\ RunsTypeOK /\ DiskTypeOK /\ run[p] \in Runs
      /\ run[p].pc # "idle" => Fits(run[p], state) /\ Knows(run[p])
  BY CopyParts
<1>2. UNCHANGED <<key, stage, quarantine, keys, keyCalls>>
  BY DEF Begin, SelectProject, ResumeProject, CreateProject, disk, iam
<1>3. ASSUME Begin(p) PROVE CopyInv'
  <2>1. PICK named, pooled :
          run' = [run EXCEPT ![p] =
             [Idle EXCEPT !.pc = FirstStep[state.status], !.mem = state,
                          !.loaded = state.status, !.named = named, !.pooled = pooled,
                          !.names = state.baseline,
                          !.reused = /\ key["primary"] # 0
                                     /\ state.status # "key_create_started"]]
    BY <1>3 DEF Begin
  <2>2. /\ run'[p].pc = FirstStep[state.status] /\ run'[p].mayCreate = FALSE
        /\ ~ run'[p].reused => key["primary"] = 0 \/ state.status = "key_create_started"
    BY <1>1, <2>1 DEF RunsTypeOK, Idle
  <2>3. state.status \in Statuses /\ UNCHANGED state
    BY <1>1, <1>3 DEF DiskTypeOK, Checkpoints, Begin, disk
  <2>4. Knows(run'[p])
    <3>1. run'[p].pc \notin {"create_project", "baseline", "cleanup", "unlink"}
      BY <2>2, <2>3 DEF FirstStep, Statuses
    <3>2. run'[p].pc = "project" => state.status # "key_create_started"
      BY <2>2, <2>3 DEF FirstStep, Statuses
    <3> QED
      BY <2>2, <3>1, <3>2 DEF Knows
  <2>5. \A q \in Processes : q # p => run'[q].pc = "idle"
    <3>1. \A q \in Processes : run[q].pc = "idle"
      BY <1>1, <1>3, SetupAssumption DEF Begin, RunsTypeOK
    <3> QED
      BY <1>1, <2>1, <3>1 DEF RunsTypeOK
  <2> QED
    BY <1>2, <2>3, <2>4, <2>5, CopyQuiet
<1>4. \A step \in {"create_project", KeyStep(p)} :
        run[p].pc \in {"project", "create_project"} =>
          /\ At(p, step) \in Runs /\ Knows(At(p, step))
          /\ \A c \in Checkpoints : Knows([At(p, step) EXCEPT !.mem = c])
  BY <1>1 DEF KeyStep, Knows, At, Runs, Steps
<1>5. ASSUME SelectProject(p) PROVE CopyInv'
  <2>1. run[p].pc = "project" /\ run[p].named \in SUBSET Nat /\ starts \in Nat
    BY <1>1, <1>5, OnceParts DEF SelectProject, Runs, BoundsTypeOK, CopyInv
  <2>2. PICK id \in Nat, step \in {"create_project", KeyStep(p)} :
          Save(p, projectState(id), At(p, step))
    BY <1>5, <2>1 DEF SelectProject
  <2>3. projectState(id) \in Checkpoints /\ projectState(id).status = "project_selected"
    BY NoStateType DEF projectState, NoState, Checkpoints, Statuses, FirstStep
  <2> QED
    BY <1>2, <1>4, <2>1, <2>2, <2>3, SaveCopy
<1>6. ASSUME ResumeProject(p) \/ CreateProject(p) PROVE CopyInv'
  <2>1. run[p].pc \in {"project", "create_project"} /\ UNCHANGED state
    BY <1>6 DEF ResumeProject, CreateProject, disk
  <2>2. Ends(p) \/ \E step \in {"create_project", KeyStep(p)} : Goes(p, step)
    BY <1>6 DEF ResumeProject, CreateProject
  <2> QED
    BY <1>2, <1>4, <2>1, <2>2, EndsCopy, GoesCopy DEF Goes
<1> QED
  BY <1>3, <1>5, <1>6

LEMMA PlainCopy ==
    ASSUME CopyInv, OnceInv', NEW p \in Processes,
           \/ AnnounceSheet(p) \/ createSpreadsheet(p) \/ SheetCallAnswers(p) \/ FindSheet(p)
           \/ AnnounceShare(p) \/ EnsureWriter(p) \/ SaveShared(p) \/ WriteEnv(p)
           \/ SaveComplete(p) \/ SharePool(p) \/ SavePool(p) \/ WritePoolEnv(p)
           \/ SaveKeyReady(p) \/ RefuseKey(p) \/ PollKey(p)
    PROVE  CopyInv'
<1>1. /\ RunsTypeOK /\ DiskTypeOK /\ run[p] \in Runs /\ run[p].mem \in Checkpoints
      /\ run[p].mem.sheet \in Nat /\ run[p].mem.mark \in Nat
      /\ run[p].mem.keyOrigin \in Origins /\ run[p].mem.shareOrigin \in Origins
      /\ starts \in Nat /\ sheets \in Seq(Nat) /\ found \subseteq DOMAIN sheets
  BY CopyParts, RunFields, OnceParts DEF CopyInv, BoundsTypeOK, DriveTypeOK
<1>2. run[p].pc # "idle"
  BY DEF AnnounceSheet, createSpreadsheet, SheetCallAnswers, FindSheet, AnnounceShare,
     EnsureWriter, SaveShared, WriteEnv, SaveComplete, SharePool, SavePool, WritePoolEnv,
     SaveKeyReady, RefuseKey, PollKey
<1>3. Fits(run[p], state) /\ Knows(run[p])
  BY <1>2, CopyParts
<1>4. UNCHANGED <<key, stage, quarantine, keys, keyCalls>>
  BY DEF AnnounceSheet, createSpreadsheet, SheetCallAnswers, FindSheet, AnnounceShare,
     EnsureWriter, SaveShared, WriteEnv, SaveComplete, SharePool, SavePool, WritePoolEnv,
     SaveKeyReady, RefuseKey, PollKey, disk, iam
<1>5. ASSUME NEW c \in Checkpoints, NEW step \in PlainSteps, Save(p, c, At(p, step)),
             c.status = "key_create_started" => state.status = "key_create_started"
      PROVE  CopyInv'
  BY <1>1, <1>2, <1>3, <1>4, <1>5, PlainKnows, SaveCopy
<1>6. ASSUME NEW step \in PlainSteps, Goes(p, step), UNCHANGED state
      PROVE  CopyInv'
  BY <1>1, <1>2, <1>3, <1>4, <1>6, PlainKnows, GoesCopy DEF Goes
<1>7. ASSUME Ends(p), state'.status = "key_create_started" => state.status = "key_create_started"
      PROVE  CopyInv'
  BY <1>2, <1>4, <1>7, EndsCopy
<1>8. \A step \in {"create_sheet", "share", "creating_sheet", "find_sheet", "find_rejected",
                   "ensure", "shared", "env", "pool", "complete", "pool_env", "pool_save", "sheet"} :
        step \in PlainSteps
  BY DEF PlainSteps, Steps
<1>9. \A s \in Nat, origin \in Origins, status \in {"spreadsheet_created",
          "spreadsheet_share_started", "spreadsheet_shared", "complete"} :
        LET c == spreadsheetState(run[p].mem, status, s, origin)
        IN  c \in Checkpoints /\ c.status = status
  BY <1>1 DEF spreadsheetState, Checkpoints, Statuses, FirstStep
<1>10. \A origin \in Origins :
        LET c == keyReadyState(run[p].mem, origin)
        IN  c \in Checkpoints /\ c.status = "key_ready"
  BY <1>1 DEF keyReadyState, Checkpoints, Statuses, FirstStep
<1>11. CASE AnnounceSheet(p)
  <2>1. startedState(run[p].mem, starts) \in Checkpoints
        /\ startedState(run[p].mem, starts).status = "spreadsheet_create_started"
    BY <1>1 DEF startedState, Checkpoints, Statuses, FirstStep
  <2> QED
    BY <1>5, <1>8, <1>11, <2>1 DEF AnnounceSheet
<1>12. CASE createSpreadsheet(p)
  BY <1>6, <1>8, <1>12 DEF createSpreadsheet, disk
<1>13. \A s \in DOMAIN sheets : createdState(p, s) \in Checkpoints
          /\ createdState(p, s).status = "spreadsheet_created"
  <2>1. \A s \in DOMAIN sheets : s \in Nat
    BY <1>1
  <2> QED
    BY <1>9, <2>1 DEF createdState, Origins
<1>14. CASE SheetCallAnswers(p)
  BY <1>5, <1>6, <1>8, <1>13, <1>14 DEF SheetCallAnswers
<1>15. CASE FindSheet(p)
  <2>1. \/ \E s \in DOMAIN sheets : Save(p, createdState(p, s), At(p, "share"))
        \/ Ends(p) /\ state' \in {state, keyReadyState(run[p].mem, run[p].mem.keyOrigin)}
    BY <1>1, <1>15 DEF FindSheet
  <2> QED
    BY <1>1, <1>5, <1>7, <1>8, <1>10, <1>13, <2>1
<1>16. CASE AnnounceShare(p)
  BY <1>1, <1>5, <1>8, <1>9, <1>16 DEF AnnounceShare, Origins
<1>17. CASE EnsureWriter(p)
  <2>1. UNCHANGED state
    BY <1>17 DEF EnsureWriter, disk
  <2>2. CASE Ends(p)
    BY <1>7, <2>1, <2>2
  <2>3. CASE ~ Ends(p)
    <3>1. PICK origin \in {"reused", "fresh"} :
            run' = [run EXCEPT ![p] = [At(p, "shared") EXCEPT !.mem.shareOrigin = origin]]
      BY <1>17, <2>3 DEF EnsureWriter
    <3>2. Knows([At(p, "shared") EXCEPT !.mem.shareOrigin = origin])
      BY <1>1, <1>3 DEF Knows, At, Runs
    <3> QED
      BY <1>2, <1>4, <2>1, <3>1, <3>2, GoesCopy
  <2> QED
    BY <2>2, <2>3
<1>18. CASE SaveShared(p)
  BY <1>1, <1>5, <1>8, <1>9, <1>18 DEF SaveShared
<1>19. CASE WriteEnv(p)
  BY <1>6, <1>8, <1>19 DEF WriteEnv
<1>20. CASE SaveComplete(p)
  BY <1>1, <1>5, <1>8, <1>9, <1>20 DEF SaveComplete
<1>21. CASE SharePool(p)
  BY <1>6, <1>7, <1>8, <1>21 DEF SharePool, disk
<1>22. CASE SavePool(p)
  <2>1. [run[p].mem EXCEPT !.pool = TRUE] \in Checkpoints
        /\ [run[p].mem EXCEPT !.pool = TRUE].status = state.status
    BY <1>1, <1>3 DEF Checkpoints, Fits
  <2> QED
    BY <1>5, <1>8, <1>22, <2>1 DEF SavePool
<1>23. CASE WritePoolEnv(p)
  BY <1>7, <1>23 DEF WritePoolEnv
<1>24. CASE SaveKeyReady(p)
  BY <1>5, <1>8, <1>10, <1>24 DEF SaveKeyReady, Origins
<1>25. CASE RefuseKey(p)
  BY <1>7, <1>25 DEF RefuseKey, disk
<1>26. CASE PollKey(p)
  <2>1. Knows([run[p] EXCEPT !.checks = @ + 1])
    BY <1>1, <1>3 DEF Knows, Runs
  <2> QED
    BY <1>2, <1>4, <1>7, <1>26, <2>1, GoesCopy DEF PollKey, disk
<1> QED
  BY <1>11, <1>12, <1>14, <1>15, <1>16, <1>17, <1>18, <1>19, <1>20, <1>21, <1>22, <1>23,
     <1>24, <1>25, <1>26

\* A settlement of the primary account, seen from its facts.
LEMMA SettlingKnows ==
    ASSUME CopyInv, NEW p \in Processes, run[p].pc \in KeySteps
    PROVE  /\ Fits(run[p], state) /\ Knows(run[p]) /\ run[p] \in Runs /\ run[p].pc # "idle"
           /\ run[p].account \in Accounts
           /\ run[p].account = "primary" => state.status = "key_create_started" /\ Announced
           /\ Seen(p) \subseteq DOMAIN keys /\ 0 \notin Seen(p) /\ Partial \notin Seen(p)
<1>1. run[p].pc # "idle"
  BY DEF KeySteps
<1>2. /\ Fits(run[p], state) /\ Knows(run[p]) /\ run[p] \in Runs /\ run[p].account \in Accounts
  BY <1>1, CopyParts, RunFields
<1>3. run[p].account = "primary" => state.status = "key_create_started"
  BY <1>2 DEF Fits
<1>4. Seen(p) \subseteq DOMAIN keys /\ DOMAIN keys \subseteq Nat \ {0}
  BY CopyParts DEF Seen, IamTypeOK
<1> QED
  BY <1>1, <1>2, <1>3, <1>4, CopyParts, SetupAssumption

LEMMA InstallCopy ==
    ASSUME CopyInv, OnceInv', NEW p \in Processes, installStagedKey(p) \/ FindKey(p)
    PROVE  CopyInv'
<1>1. run[p].pc = "settle" /\ run[p].pc \in KeySteps
  BY DEF installStagedKey, FindKey, KeySteps
<1>2. /\ Knows(run[p]) /\ run[p] \in Runs /\ run[p].pc # "idle" /\ run[p].account \in Accounts
      /\ run[p].account = "primary" => state.status = "key_create_started" /\ Announced
      /\ 0 \notin Seen(p) /\ Partial \notin Seen(p)
  BY <1>1, SettlingKnows
<1>3. /\ RunsTypeOK /\ DiskTypeOK /\ KeyOnce
      /\ Holds(stage["primary"]) /\ Holds(quarantine["primary"])
      /\ PrimaryCalls # {} => key["primary"] = 0
  BY CopyParts
<1>4. PICK b \in BOOLEAN : run' = [run EXCEPT ![p] = [At(p, "cleanup") EXCEPT !.reused = b]]
  <2>1. baselineIncludes(p, staged(p)) \in BOOLEAN /\ baselineIncludes(p, final(p)) \in BOOLEAN
    BY DEF baselineIncludes
  <2> QED
    BY <2>1 DEF installStagedKey, FindKey
<1>5. /\ run'[p].pc = "cleanup" /\ run'[p].account = run[p].account
      /\ run'[p].mayCreate = run[p].mayCreate
      /\ \A q \in Processes : q # p => run'[q].pc = "idle"
  BY <1>2, <1>3, <1>4, Alone DEF RunsTypeOK, Runs, At
<1>6. UNCHANGED <<state, stage, quarantine, keys, keyCalls>>
  BY DEF installStagedKey, FindKey, disk, iam
<1>7. PrimaryCalls' = PrimaryCalls /\ Made("primary")' = Made("primary")
  BY <1>6 DEF PrimaryCalls, Made
<1>8. CASE installStagedKey(p) /\ run[p].account = "primary"
  <2>1. /\ key["primary"] = 0 /\ stage["primary"].file \in Seen(p)
        /\ key' = [key EXCEPT !["primary"] = stage["primary"].file]
    BY <1>8 DEF installStagedKey, Links, staged, final
  <2>2. stage["primary"].file \in Made("primary")
    BY <1>2, <1>3, <2>1 DEF Holds
  <2>3. key'["primary"] = stage["primary"].file /\ key'["primary"] # 0
    BY <1>2, <1>3, <2>1 DEF DiskTypeOK, Accounts
  <2>4. PrimaryCalls = {}
    BY <1>3, <2>2 DEF KeyOnce
  <2>5. Announced'
    BY <1>2, <1>6, <1>7, <1>8, <2>1, <2>2, <2>3, SetupAssumption DEF Announced
  <2>6. Knows(run[p])'
    BY <1>2, <1>5, <1>6, <1>8, <2>3 DEF Knows
  <2>7. Holds(stage["primary"])' /\ Holds(quarantine["primary"])'
    BY <1>3, <1>6, <1>7 DEF Holds
  <2> QED
    BY <1>5, <1>7, <2>4, <2>5, <2>6, <2>7 DEF CopyInv
<1>9. CASE FindKey(p) /\ run[p].account = "primary"
  <2>1. /\ key["primary"] \in Seen(p) /\ ~ Obstacle(p) /\ UNCHANGED key
    BY <1>9 DEF FindKey, final, disk
  <2>2. key["primary"] # 0 /\ key["primary"] \in Made("primary")
    BY <1>2, <1>9, <2>1 DEF Announced
  <2>3. stage["primary"].file # Partial
    BY <1>9, <2>1 DEF Obstacle, staged
  <2>4. stage["primary"].file \in {0, key["primary"]}
    BY <1>3, <2>2, <2>3 DEF Holds, KeyOnce
  <2>5. CopiesStay
    BY <1>6, <1>7, <2>1 DEF CopiesStay
  <2>6. Knows(run'[p])
    BY <1>2, <1>5, <1>9, <2>2, <2>4 DEF Knows
  <2> QED
    BY <1>5, <1>6, <2>5, <2>6, CopySame
<1>10. CASE run[p].account # "primary"
  <2>1. key'["primary"] = key["primary"]
    BY <1>2, <1>3, <1>10 DEF installStagedKey, FindKey, Links, disk, DiskTypeOK, Accounts
  <2>2. CopiesStay
    BY <1>6, <1>7, <2>1 DEF CopiesStay
  <2>3. Knows(run'[p])
    BY <1>5, <1>10 DEF Knows
  <2> QED
    BY <1>5, <1>6, <2>2, <2>3, CopySame
<1> QED
  BY <1>8, <1>9, <1>10

LEMMA CreateCopy ==
    ASSUME CopyInv, OnceInv', NEW p \in Processes, CreateKey(p) \/ KeyCallAnswers(p)
    PROVE  CopyInv'
<1>1. run[p].pc \in KeySteps
  BY DEF CreateKey, KeyCallAnswers, KeySteps
<1>2. /\ Knows(run[p]) /\ run[p] \in Runs /\ run[p].pc # "idle" /\ run[p].account \in Accounts
      /\ run[p].account = "primary" => state.status = "key_create_started" /\ Announced
  BY <1>1, SettlingKnows
<1>3. /\ RunsTypeOK /\ DiskTypeOK /\ IamTypeOK
      /\ Holds(stage["primary"]) /\ Holds(quarantine["primary"])
      /\ PrimaryCalls # {} => key["primary"] = 0
  BY CopyParts
<1>4. UNCHANGED <<state, key, quarantine, keys>>
  BY DEF CreateKey, KeyCallAnswers, disk
<1>5. Made("primary")' = Made("primary")
  BY <1>4 DEF Made
<1>6. CASE CreateKey(p)
  <2> DEFINE r == [At(p, "creating") EXCEPT !.mayCreate = FALSE]
  <2>1. /\ run' = [run EXCEPT ![p] = r] /\ Local(p) = {} /\ run[p].mayCreate
        /\ stage' = [stage EXCEPT ![run[p].account].dir = TRUE]
        /\ keyCalls' = keyCalls \cup {[account |-> run[p].account,
              project |-> run[p].mem.project, at |-> starts, attached |-> TRUE]}
    BY <1>6 DEF CreateKey, MayCreate
  <2>2. run'[p].pc = "creating" /\ run'[p].mayCreate = FALSE
        /\ \A q \in Processes : q # p => run'[q].pc = "idle"
    BY <1>2, <1>3, <2>1, Alone DEF RunsTypeOK, Runs, At
  <2>3. Knows(run'[p]) /\ Knows(run[p])'
    BY <2>2 DEF Knows
  <2>4. CASE run[p].account = "primary"
    <3>1. key["primary"] = 0
      BY <1>3, <2>1, <2>4, SetupAssumption DEF Local, final, DiskTypeOK, Accounts
    <3>2. ~ quarantine["primary"].dir
      BY <1>2, <2>1, <2>4 DEF Knows
    <3>3. stage'["primary"].dir = TRUE /\ stage'["primary"].file = stage["primary"].file
      BY <1>3, <2>1, <2>4 DEF DiskTypeOK, Dirs, Accounts
    <3>4. Announced'
      BY <1>2, <1>4, <1>5, <2>4, <3>2, <3>3 DEF Announced
    <3>5. Holds(stage["primary"])' /\ Holds(quarantine["primary"])'
      BY <1>3, <1>4, <1>5, <3>3 DEF Holds
    <3> QED
      BY <1>4, <2>2, <2>3, <3>1, <3>4, <3>5 DEF CopyInv
  <2>5. CASE run[p].account # "primary"
    <3>1. stage'["primary"] = stage["primary"] /\ PrimaryCalls' = PrimaryCalls
      BY <1>2, <1>3, <2>1, <2>5 DEF DiskTypeOK, Accounts, PrimaryCalls
    <3>2. CopiesStay
      BY <1>4, <1>5, <3>1 DEF CopiesStay
    <3> QED
      BY <1>4, <2>2, <2>3, <3>2, CopySame
  <2> QED
    BY <2>4, <2>5
<1>7. CASE KeyCallAnswers(p)
  <2>1. Goes(p, "settle") /\ UNCHANGED <<lock, stage>>
    BY <1>7 DEF KeyCallAnswers, disk
  <2>2. /\ run'[p] = [run[p] EXCEPT !.pc = "settle"]
        /\ \A q \in Processes : q # p => run'[q].pc = "idle"
    BY <1>2, <1>3, <2>1, GoesLeaves DEF Steps
  <2>3. Knows(run'[p])
    BY <1>2, <2>2 DEF Knows, Runs
  <2>4. PrimaryCalls' # {} => PrimaryCalls # {}
    BY <1>3, <1>7 DEF KeyCallAnswers, PrimaryCalls, IamTypeOK
  <2>5. CopiesStay
    BY <1>4, <1>5, <2>1, <2>4 DEF CopiesStay
  <2> QED
    BY <1>4, <2>2, <2>3, <2>5, CopySame
<1> QED
  BY <1>6, <1>7

LEMMA AnnounceCopy ==
    ASSUME CopyInv, OnceInv', NEW p \in Processes, AnnounceKey(p) \/ ExpandPool(p)
    PROVE  CopyInv'
<1>1. run[p].pc # "idle" /\ UNCHANGED <<key, keys>>
  BY DEF AnnounceKey, ExpandPool
<1>2. /\ RunsTypeOK /\ DiskTypeOK /\ IamTypeOK /\ Admits(state)
      /\ Fits(run[p], state) /\ Knows(run[p]) /\ run[p] \in Runs /\ run[p].mem \in Checkpoints
      /\ PrimaryCalls # {} => key["primary"] = 0
  BY <1>1, CopyParts, RunFields
<1>3. Made("primary")' = Made("primary")
  BY <1>1 DEF Made
<1>4. CASE AnnounceKey(p)
  <2> DEFINE c == keyStartedState(run[p].mem, Seen(p))
             r == [At(p, "settle") EXCEPT !.names = Seen(p), !.mayCreate = TRUE]
  <2>1. /\ Save(p, c, r) /\ NewDirectories("primary") /\ run[p].pc = "baseline"
    BY <1>4 DEF AnnounceKey
  <2>2. state.status = "project_selected" /\ key["primary"] = 0 /\ key'["primary"] = 0
    BY <1>1, <1>2, <2>1 DEF Fits, Knows
  <2>3. stage'["primary"] = Absent /\ quarantine'["primary"] = Absent
    BY <1>2, <2>1 DEF NewDirectories, DiskTypeOK, Accounts
  <2>4. Holds(stage["primary"])' /\ Holds(quarantine["primary"])' /\ Announced'
    BY <2>2, <2>3, SetupAssumption DEF Holds, Announced, Absent
  <2>5. Seen(p) \in SUBSET Nat
    BY <1>2, SeenType
  <2>6. c \in Checkpoints /\ r \in Runs /\ r.pc = "settle"
    <3>1. c \in Checkpoints
      BY <1>2, <2>5 DEF keyStartedState, Checkpoints, Statuses, FirstStep
    <3>2. r \in Runs /\ r.pc = "settle"
      BY <1>2, <2>5 DEF At, Runs, Steps
    <3> QED
      BY <3>1, <3>2
  <2>7. /\ \A q \in Processes : q # p => run'[q].pc = "idle"
        /\ run'[p].pc = "idle" \/ run'[p] = [r EXCEPT !.mem = c]
    BY <1>1, <1>2, <2>1, <2>6, SaveLeaves DEF DiskTypeOK
  <2>8. run'[p].pc = "idle" \/ run'[p].pc = "settle"
    BY <2>6, <2>7 DEF Runs
  <2>9. run'[p].pc = "idle" \/ Knows(run[p])'
    BY <2>3, <2>8 DEF Knows, Absent
  <2> QED
    BY <2>2, <2>4, <2>7, <2>9 DEF CopyInv
<1>5. CASE ExpandPool(p)
  <2>1. UNCHANGED state
    BY <1>5 DEF ExpandPool
  <2>2. CopiesStay
    <3>1. CASE UNCHANGED <<stage, quarantine, keyCalls>>
      BY <1>1, <1>3, <3>1 DEF CopiesStay, PrimaryCalls
    <3>2. CASE NewDirectories("pool")
      BY <1>1, <1>2, <1>3, <3>2 DEF CopiesStay, PrimaryCalls, NewDirectories, DiskTypeOK,
         IamTypeOK, Accounts
    <3> QED
      BY <1>5, <3>1, <3>2 DEF ExpandPool
  <2>3. CASE Ends(p)
    BY <1>1, <1>2, <2>1, <2>2, <2>3, EndsLeaves, CopySame
  <2>4. CASE ~ Ends(p)
    <3>1. PICK r : /\ run' = [run EXCEPT ![p] = r]
                   /\ \/ r = At(p, "pool_env")
                      \/ r.account = "pool" /\ r.pc = "settle"
      <4>1. CASE Goes(p, "pool_env")
        BY <4>1 DEF Goes
      <4>2. CASE ~ Goes(p, "pool_env")
        <5>1. PICK names \in SUBSET listed : run' = [run EXCEPT ![p] =
                [[At(p, "settle") EXCEPT !.account = "pool", !.checks = 0, !.mayCreate = TRUE]
                   EXCEPT !.names = names]]
          BY <1>5, <2>4, <4>2 DEF ExpandPool
        <5> DEFINE r == [[At(p, "settle") EXCEPT !.account = "pool", !.checks = 0, !.mayCreate = TRUE]
                           EXCEPT !.names = names]
        <5>2. r.account = "pool" /\ r.pc = "settle"
          BY <1>2 DEF At, Runs
        <5> HIDE DEF r
        <5> QED
          BY <5>1, <5>2 DEF r
      <4> QED
        BY <4>1, <4>2
    <3>2. run'[p] = r /\ \A q \in Processes : q # p => run'[q].pc = "idle"
      BY <1>1, <1>2, <3>1, Alone DEF RunsTypeOK
    <3>3. Knows(r)
      BY <1>2, <3>1 DEF Knows, At, Runs
    <3> QED
      BY <2>1, <2>2, <3>2, <3>3, CopySame
  <2> QED
    BY <2>3, <2>4
<1> QED
  BY <1>4, <1>5

LEMMA CleanupCopy ==
    ASSUME CopyInv, OnceInv', NEW p \in Processes,
           QuarantineStage(p) \/ UnlinkStaged(p) \/ RemoveQuarantine(p)
    PROVE  CopyInv'
<1>1. run[p].pc \in {"cleanup", "unlink", "rmdir"} /\ run[p].pc \in KeySteps
  BY DEF QuarantineStage, UnlinkStaged, RemoveQuarantine, KeySteps
<1>2. /\ Knows(run[p]) /\ run[p] \in Runs /\ run[p].pc # "idle" /\ run[p].account \in Accounts
      /\ run[p].account = "primary" => state.status = "key_create_started" /\ Announced
  BY <1>1, SettlingKnows
<1>3. /\ RunsTypeOK /\ DiskTypeOK
      /\ Holds(stage["primary"]) /\ Holds(quarantine["primary"])
      /\ PrimaryCalls # {} => key["primary"] = 0
  BY CopyParts
<1>4. UNCHANGED <<state, key, keys, keyCalls>>
  BY DEF QuarantineStage, UnlinkStaged, RemoveQuarantine, iam
<1>5. Made("primary")' = Made("primary") /\ PrimaryCalls' = PrimaryCalls
  BY <1>4 DEF Made, PrimaryCalls
<1>6. KeyDone(p) \in Steps \ {"idle", "cleanup", "unlink", "project", "create_project", "baseline"}
  BY DEF KeyDone, Steps
<1>7. /\ \A q \in Processes : q # p => run'[q].pc = "idle"
      /\ \/ run'[p].pc = "idle"
         \/ \E step \in {"unlink", "rmdir", KeyDone(p)} :
              Goes(p, step) /\ run'[p] = [run[p] EXCEPT !.pc = step]
  BY <1>2, <1>3, <1>6, EndsLeaves, GoesLeaves DEF QuarantineStage, UnlinkStaged,
     RemoveQuarantine, Steps
<1>8. run'[p].pc = "idle" \/ (/\ run'[p].pc \in {"unlink", "rmdir", KeyDone(p)}
                              /\ run'[p].account = run[p].account
                              /\ run'[p].mayCreate = run[p].mayCreate)
  BY <1>2, <1>7 DEF Runs
<1>9. CASE run[p].account # "primary"
  <2>1. stage'["primary"] = stage["primary"] /\ quarantine'["primary"] = quarantine["primary"]
    BY <1>2, <1>3, <1>9 DEF QuarantineStage, UnlinkStaged, RemoveQuarantine, DiskTypeOK, Accounts
  <2>2. CopiesStay
    BY <1>4, <1>5, <2>1 DEF CopiesStay
  <2>3. run'[p].pc = "idle" \/ Knows(run'[p])
    BY <1>6, <1>8, <1>9 DEF Knows
  <2> QED
    BY <1>4, <1>7, <2>2, <2>3, CopySame
<1>10. CASE run[p].account = "primary"
  <2>1. /\ key["primary"] \in {0} \cup Made("primary")
        /\ quarantine["primary"].file \in {0, key["primary"]}
        /\ stage["primary"].file = Partial => key["primary"] = 0
        /\ ~ (stage["primary"].dir /\ quarantine["primary"].dir)
    BY <1>2, <1>10 DEF Announced
  <2>2. CASE QuarantineStage(p)
    <3>1. stage["primary"].file \in {0, key["primary"]} /\ key["primary"] # 0
      BY <1>2, <1>10, <2>2 DEF QuarantineStage, Knows
    <3>2. CASE stage["primary"].dir
      <4>1. /\ quarantine'["primary"] = stage["primary"] /\ stage'["primary"] = Absent
        BY <1>3, <1>10, <2>1, <2>2, <3>2 DEF QuarantineStage, DiskTypeOK, Accounts
      <4>2. Holds(stage["primary"])' /\ Holds(quarantine["primary"])' /\ Announced'
        BY <1>3, <1>4, <1>5, <2>1, <3>1, <4>1, SetupAssumption DEF Holds, Announced, Absent
      <4>3. run'[p].pc = "idle" \/ Knows(run[p])'
        BY <1>2, <1>4, <1>6, <1>8, <1>10, <3>1, <3>2, <4>1 DEF Knows, Absent
      <4> QED
        BY <1>3, <1>4, <1>5, <1>7, <4>2, <4>3 DEF CopyInv
    <3>3. CASE ~ stage["primary"].dir
      <4>1. UNCHANGED <<stage, quarantine>>
        BY <1>10, <2>2, <3>3 DEF QuarantineStage
      <4>2. CopiesStay
        BY <1>4, <1>5, <4>1 DEF CopiesStay
      <4>3. run'[p].pc = "idle" \/ Knows(run'[p])
        BY <1>2, <1>6, <1>8, <1>10, <3>1, <3>3 DEF Knows
      <4> QED
        BY <1>4, <1>7, <4>2, <4>3, CopySame
    <3> QED
      BY <3>2, <3>3
  <2>3. CASE UnlinkStaged(p)
    <3>1. ~ stage["primary"].dir /\ stage["primary"].file = 0 /\ key["primary"] # 0
      BY <1>2, <1>3, <1>10, <2>3 DEF UnlinkStaged, Knows, Holds
    <3>2. CASE /\ quarantine' = [quarantine EXCEPT !["primary"] = Empty]
               /\ Goes(p, "rmdir") /\ UNCHANGED <<lock, stage>>
      <4>1. quarantine'["primary"] = Empty
        BY <1>3, <3>2 DEF DiskTypeOK, Accounts
      <4>2. ~ run[p].mayCreate
        <5>1. run[p].mayCreate => NoKey
          BY <1>2, <1>10, CopyParts DEF Fits
        <5> QED
          BY <2>1, <3>1, <5>1 DEF NoKey
      <4>3. Holds(stage["primary"])' /\ Holds(quarantine["primary"])' /\ Announced'
        BY <1>3, <1>4, <1>5, <2>1, <3>1, <3>2, <4>1 DEF Holds, Announced, Empty
      <4>4. run'[p].pc = "rmdir" /\ run'[p].mayCreate = run[p].mayCreate
        <5>1. run'[p] = [run[p] EXCEPT !.pc = "rmdir"]
          BY <1>2, <1>3, <3>2, GoesLeaves DEF Steps
        <5> QED
          BY <1>2, <5>1 DEF Runs
      <4>5. Knows(run[p])'
        BY <4>2, <4>4 DEF Knows
      <4> QED
        BY <1>3, <1>4, <1>5, <1>7, <4>3, <4>5 DEF CopyInv
    <3>3. CASE /\ stage' = [stage EXCEPT !["primary"] = quarantine["primary"]]
               /\ quarantine' = [quarantine EXCEPT !["primary"] = Absent]
               /\ Ends(p)
      <4>1. stage'["primary"] = quarantine["primary"] /\ quarantine'["primary"] = Absent
        BY <1>3, <3>3 DEF DiskTypeOK, Accounts
      <4>2. Holds(stage["primary"])' /\ Holds(quarantine["primary"])' /\ Announced'
        BY <1>3, <1>4, <1>5, <2>1, <4>1, SetupAssumption DEF Holds, Announced, Absent, DiskTypeOK, Accounts
      <4>3. \A q \in Processes : run'[q].pc = "idle"
        BY <1>2, <1>3, <3>3, EndsLeaves
      <4> QED
        BY <1>3, <1>4, <1>5, <4>2, <4>3 DEF CopyInv
    <3> QED
      BY <1>10, <2>3, <3>2, <3>3 DEF UnlinkStaged
  <2>4. CASE RemoveQuarantine(p)
    <3>1. quarantine'["primary"] = Absent /\ UNCHANGED stage
      BY <1>3, <1>10, <2>4 DEF RemoveQuarantine, DiskTypeOK, Accounts
    <3>2. Holds(stage["primary"])' /\ Holds(quarantine["primary"])' /\ Announced'
      BY <1>3, <1>4, <1>5, <2>1, <3>1 DEF Holds, Announced, Absent
    <3>3. Goes(p, KeyDone(p)) /\ UNCHANGED lock
      BY <2>4 DEF RemoveQuarantine
    <3>4. run'[p].pc = KeyDone(p) /\ run'[p].mayCreate = run[p].mayCreate
          /\ run'[p].account = run[p].account
      <4>1. run'[p] = [run[p] EXCEPT !.pc = KeyDone(p)]
        BY <1>2, <1>3, <1>6, <3>3, GoesLeaves
      <4> QED
        BY <1>2, <4>1 DEF Runs
    <3>5. Knows(run[p])'
      BY <1>2, <1>6, <1>10, <3>1, <3>4 DEF Knows, Absent
    <3> QED
      BY <1>3, <1>4, <1>5, <1>7, <3>2, <3>5 DEF CopyInv
  <2> QED
    BY <2>2, <2>3, <2>4
<1> QED
  BY <1>9, <1>10

LEMMA CloudCopy ==
    ASSUME CopyInv, OnceInv', Cloud
    PROVE  CopyInv'
<1>1. /\ IamTypeOK /\ DiskTypeOK /\ KeyOnce
      /\ Holds(stage["primary"]) /\ Holds(quarantine["primary"])
      /\ PrimaryCalls # {} => key["primary"] = 0
      /\ state.status = "key_create_started" => Announced
      /\ \A q \in Processes : run[q].pc = "idle" \/ Knows(run[q])
  BY CopyParts
<1>2. UNCHANGED <<state, run, key, quarantine>>
  BY DEF Cloud, KeyCallRuns, KeyCallLost, KeyListed, SheetCallRuns, SheetCallLost, SheetFound,
     disk
<1>3. ASSUME CopiesStay PROVE CopyInv'
  BY <1>1, <1>2, <1>3, CopySame
<1>4. ASSUME NEW c \in keyCalls, KeyCallRuns(c) PROVE CopyInv'
  <2>1. /\ keyCalls' = keyCalls \ {c}
        /\ keys' = Append(keys, [account |-> c.account, maker |-> "setup", project |-> c.project])
    BY <1>4 DEF KeyCallRuns
  <2>2. PICK f \in {0, Partial, Len(keys) + 1} :
          /\ stage' = IF f = 0 THEN stage ELSE [stage EXCEPT ![c.account].file = f]
          /\ f # 0 => stage[c.account].dir
    BY <1>4 DEF KeyCallRuns
  <2>3. /\ c.account \in Accounts /\ DOMAIN keys' = DOMAIN keys \cup {Len(keys) + 1}
        /\ \A k \in DOMAIN keys : keys'[k] = keys[k]
        /\ keys'[Len(keys) + 1].account = c.account /\ keys'[Len(keys) + 1].maker = "setup"
    BY <1>1, <2>1 DEF IamTypeOK
  <2>4. CASE c.account # "primary"
    <3>1. stage'["primary"] = stage["primary"]
      BY <1>1, <2>2, <2>3, <2>4 DEF DiskTypeOK, Accounts
    <3>2. Made("primary")' = Made("primary") /\ PrimaryCalls' = PrimaryCalls
      BY <2>1, <2>3, <2>4 DEF Made, PrimaryCalls
    <3> QED
      BY <1>2, <1>3, <3>1, <3>2 DEF CopiesStay
  <2>5. CASE c.account = "primary"
    <3>1. c \in PrimaryCalls /\ Made("primary") = {} /\ key["primary"] = 0 /\ PrimaryCalls' = {}
      BY <1>1, <2>1, <2>5 DEF PrimaryCalls, KeyOnce
    <3>2. Len(keys) + 1 \in Made("primary")'
      BY <2>3, <2>5 DEF Made
    <3>3. /\ stage'["primary"].dir = stage["primary"].dir
          /\ \/ stage'["primary"].file = stage["primary"].file
             \/ stage["primary"].dir /\ stage'["primary"].file \in {Partial, Len(keys) + 1}
      BY <1>1, <2>2, <2>5 DEF DiskTypeOK, Dirs, Accounts
    <3>4. stage["primary"].file \in {0, Partial} /\ quarantine["primary"].file \in {0, Partial}
      BY <1>1, <3>1 DEF Holds
    <3>5. Holds(stage["primary"])' /\ Holds(quarantine["primary"])'
      BY <1>1, <1>2, <3>2, <3>3, <3>4 DEF Holds
    <3>6. (state.status = "key_create_started" => Announced)'
      BY <1>1, <1>2, <3>1, <3>3 DEF Announced
    <3>7. \A q \in Processes : run'[q].pc = "idle" \/ Knows(run[q])'
      BY <1>1, <1>2, <3>1, <3>3 DEF Knows
    <3> QED
      BY <3>1, <3>5, <3>6, <3>7 DEF CopyInv
  <2> QED
    BY <2>4, <2>5
<1>5. ASSUME NEW c \in keyCalls, KeyCallLost(c) PROVE CopyInv'
  <2>1. PrimaryCalls' \subseteq PrimaryCalls /\ UNCHANGED <<stage, keys>>
    BY <1>5 DEF KeyCallLost, PrimaryCalls, disk
  <2> QED
    BY <1>2, <1>3, <2>1 DEF CopiesStay, Made
<1>6. ASSUME NEW k \in DOMAIN keys, KeyListed(k) PROVE CopyInv'
  BY <1>2, <1>3, <1>6 DEF KeyListed, CopiesStay, Made, PrimaryCalls, disk
<1>7. ASSUME NEW m, SheetCallRuns(m) \/ SheetCallLost(m) \/ SheetFound(m) PROVE CopyInv'
  BY <1>2, <1>3, <1>7 DEF SheetCallRuns, SheetCallLost, SheetFound, CopiesStay, Made,
     PrimaryCalls, disk, iam
<1> QED
  BY <1>4, <1>5, <1>6, <1>7 DEF Cloud

LEMMA OtherCopy ==
    ASSUME CopyInv, OnceInv',
           \/ \E p \in Processes : Fails(p) \/ Crash(p)
           \/ RemoveLock
           \/ \E s \in DOMAIN sheets : UserShares(s)
           \/ UNCHANGED vars
    PROVE  CopyInv'
<1>1. UNCHANGED <<state, key, stage, quarantine, keys, keyCalls>>
  BY DEF Fails, Crash, RemoveLock, UserShares, vars, disk, iam
<1>2. RunsTypeOK /\ \A q \in Processes : run[q].pc = "idle" \/ Knows(run[q])
  BY CopyParts
<1>3. ASSUME NEW p \in Processes, Fails(p) PROVE CopyInv'
  BY <1>1, <1>3, EndsCopy DEF Fails
<1>4. ASSUME NEW p \in Processes, Crash(p) PROVE CopyInv'
  <2>1. \A q \in Processes : run'[q].pc = "idle" \/ run'[q] = run[q]
    BY <1>2, <1>4, IdleType DEF Crash, RunsTypeOK
  <2> QED
    BY <1>1, <1>2, <2>1, CopyQuiet
<1>5. ASSUME UNCHANGED run PROVE CopyInv'
  BY <1>1, <1>2, <1>5, CopyQuiet
<1> QED
  BY <1>3, <1>4, <1>5 DEF RemoveLock, UserShares, vars

LEMMA CopyStep == CopyInv /\ [Next]_vars => CopyInv'
<1> SUFFICES ASSUME CopyInv, [Next]_vars PROVE CopyInv'
  OBVIOUS
<1>1. OnceInv'
  BY OnceStep DEF CopyInv
<1>2. CASE UNCHANGED vars
  BY <1>1, <1>2, OtherCopy
<1>3. ASSUME NEW p \in Processes, Begin(p) \/ RunStep(p) \/ Fails(p) \/ Crash(p)
      PROVE  CopyInv'
  BY <1>1, <1>3, StartCopy, InstallCopy, CreateCopy, AnnounceCopy, CleanupCopy, PlainCopy,
     OtherCopy DEF RunStep, KeyStage, SheetStage
<1> QED
  BY <1>1, <1>2, <1>3, CloudCopy, OtherCopy DEF Next

LEMMA CopyAlways == Spec => []CopyInv
<1>1. Init => CopyInv
  BY CopyInit
<1>2. CopyInv /\ [Next]_vars => CopyInv'
  BY CopyStep
<1> QED
  BY <1>1, <1>2, PTL DEF Spec

\* A copy of an announced key on this machine is where a settlement looks,
\* and nothing beside it makes the settlement refuse it (settleKeyPass,
\* cleanupOwnedStage): no crash strands the key.
THEOREM CrashStrandsNothing == Spec => []CrashStrandsNoKey
<1>1. CopyInv => CrashStrandsNoKey
  <2> SUFFICES ASSUME CopyInv, NEW k \in Made("primary"),
                      state.status = "key_create_started",
                      k \in {key["primary"], stage["primary"].file, quarantine["primary"].file}
               PROVE  /\ InReach(k)
                      /\ {key["primary"], stage["primary"].file} \subseteq {0, k}
                      /\ ~ (stage["primary"].dir /\ quarantine["primary"].dir)
    BY DEF CrashStrandsNoKey
  <2>1. Announced /\ KeyOnce /\ Holds(stage["primary"]) /\ IamTypeOK
    BY CopyParts
  <2>2. k # 0 /\ k # Partial
    BY <2>1, SetupAssumption DEF Made, IamTypeOK
  <2> QED
    BY <2>1, <2>2 DEF Announced, Holds, KeyOnce, InReach
<1> QED
  BY <1>1, CopyAlways, PTL

LEMMA ReachInstall ==
    ASSUME CopyInv, NEW p \in Processes, NEW k \in DOMAIN keys, InReach(k),
           installStagedKey(p) \/ CreateKey(p) \/ QuarantineStage(p) \/ UnlinkStaged(p)
    PROVE  InReach(k)'
<1>1. run[p].pc \in KeySteps
  BY DEF installStagedKey, CreateKey, QuarantineStage, UnlinkStaged, KeySteps
<1>2. /\ Knows(run[p]) /\ run[p].account \in Accounts
      /\ run[p].account = "primary" => Announced
  BY <1>1, SettlingKnows
<1>3. /\ DiskTypeOK /\ IamTypeOK /\ Holds(stage["primary"]) /\ k # 0
  BY CopyParts DEF IamTypeOK
<1>4. CASE run[p].account # "primary"
  <2>1. stage'["primary"] = stage["primary"] /\ key'["primary"] = key["primary"]
    BY <1>2, <1>3, <1>4 DEF installStagedKey, Links, CreateKey, QuarantineStage, UnlinkStaged,
       DiskTypeOK, Accounts
  <2> QED
    BY <2>1 DEF InReach
<1>5. CASE run[p].account = "primary" /\ installStagedKey(p)
  <2>1. key["primary"] = 0 /\ UNCHANGED stage
    BY <1>5 DEF installStagedKey, final
  <2> QED
    BY <1>3, <2>1 DEF InReach
<1>6. CASE run[p].account = "primary" /\ CreateKey(p)
  <2>1. stage'["primary"].file = stage["primary"].file /\ UNCHANGED key
    BY <1>3, <1>6 DEF CreateKey, DiskTypeOK, Dirs, Accounts
  <2> QED
    BY <2>1 DEF InReach
<1>7. CASE run[p].account = "primary" /\ QuarantineStage(p)
  <2>1. stage["primary"].file \in {0, key["primary"]} /\ UNCHANGED key
    BY <1>2, <1>7 DEF QuarantineStage, Knows
  <2> QED
    BY <1>3, <2>1 DEF InReach
<1>8. CASE run[p].account = "primary" /\ UnlinkStaged(p)
  <2>1. stage["primary"].file = 0 /\ UNCHANGED key
    BY <1>2, <1>3, <1>8 DEF UnlinkStaged, Knows, Holds
  <2> QED
    BY <1>3, <2>1 DEF InReach
<1> QED
  BY <1>4, <1>5, <1>6, <1>7, <1>8

LEMMA ReachAnnounce ==
    ASSUME CopyInv, NEW p \in Processes, NEW k \in DOMAIN keys, InReach(k),
           AnnounceKey(p) \/ ExpandPool(p)
    PROVE  InReach(k)'
<1>1. run[p].pc # "idle" /\ UNCHANGED key
  BY DEF AnnounceKey, ExpandPool
<1>2. /\ DiskTypeOK /\ IamTypeOK /\ Holds(stage["primary"]) /\ Admits(state)
      /\ Fits(run[p], state) /\ k \in Nat \ {0}
  BY <1>1, CopyParts DEF IamTypeOK
<1>3. CASE AnnounceKey(p)
  <2>1. Made("primary") = {}
    BY <1>2, <1>3 DEF AnnounceKey, Fits, Admits, NoKey
  <2>2. stage["primary"].file # k
    BY <1>2, <2>1, SetupAssumption DEF Holds
  <2> QED
    BY <1>1, <2>2 DEF InReach
<1>4. CASE ExpandPool(p)
  <2>1. stage'["primary"] = stage["primary"]
    BY <1>2, <1>4 DEF ExpandPool, NewDirectories, DiskTypeOK, Accounts
  <2> QED
    BY <1>1, <2>1 DEF InReach
<1> QED
  BY <1>3, <1>4

LEMMA ReachCloud ==
    ASSUME CopyInv, NEW k \in DOMAIN keys, InReach(k), Cloud
    PROVE  InReach(k)'
<1>1. /\ DiskTypeOK /\ IamTypeOK /\ Holds(stage["primary"]) /\ KeyOnce /\ k \in Nat \ {0}
  BY CopyParts DEF IamTypeOK
<1>2. UNCHANGED key
  BY DEF Cloud, KeyCallRuns, KeyCallLost, KeyListed, SheetCallRuns, SheetCallLost, SheetFound,
     disk
<1>3. ASSUME NEW c \in keyCalls, KeyCallRuns(c) PROVE InReach(k)'
  <2>1. CASE c.account = "primary"
    <3>1. Made("primary") = {}
      BY <1>1, <2>1 DEF PrimaryCalls, KeyOnce
    <3>2. stage["primary"].file # k
      BY <1>1, <3>1, SetupAssumption DEF Holds
    <3> QED
      BY <1>2, <3>2 DEF InReach
  <2>2. CASE c.account # "primary"
    <3>1. stage'["primary"] = stage["primary"]
      BY <1>1, <1>3, <2>2 DEF KeyCallRuns, DiskTypeOK, IamTypeOK, Accounts
    <3> QED
      BY <1>2, <3>1 DEF InReach
  <2> QED
    BY <2>1, <2>2
<1>4. CASE UNCHANGED stage
  BY <1>2, <1>4 DEF InReach
<1> QED
  BY <1>3, <1>4 DEF Cloud, KeyCallLost, KeyListed, SheetCallRuns, SheetCallLost, SheetFound, disk

\* A whole copy of the primary's key that a settlement would find never
\* leaves its sight (installStagedKey, cleanupOwnedStage).
THEOREM CopiesStayInReach == Spec => CopyStaysInReach
<1>1. CopyInv /\ [Next]_vars => (\A k \in DOMAIN keys : InReach(k) => InReach(k)')
  <2> SUFFICES ASSUME CopyInv, [Next]_vars, NEW k \in DOMAIN keys, InReach(k)
               PROVE  InReach(k)'
    OBVIOUS
  <2>1. CASE UNCHANGED <<key, stage>>
    BY <2>1 DEF InReach
  <2>2. ASSUME NEW p \in Processes, KeyStage(p) PROVE InReach(k)'
    BY <2>1, <2>2, ReachInstall, ReachAnnounce DEF KeyStage, RefuseKey, FindKey, PollKey,
       KeyCallAnswers, RemoveQuarantine, SaveKeyReady, disk
  <2>3. ASSUME NEW p \in Processes, SheetStage(p) PROVE InReach(k)'
    BY <2>1, <2>3, ReachAnnounce DEF SheetStage, AnnounceSheet, createSpreadsheet,
       SheetCallAnswers, FindSheet, AnnounceShare, EnsureWriter, SaveShared, WriteEnv,
       SaveComplete, SharePool, SavePool, WritePoolEnv, disk
  <2>4. ASSUME NEW p \in Processes,
               \/ Begin(p) \/ SelectProject(p) \/ ResumeProject(p) \/ CreateProject(p)
               \/ Fails(p) \/ Crash(p)
        PROVE  InReach(k)'
    BY <2>1, <2>4 DEF Begin, SelectProject, ResumeProject, CreateProject, Fails, Crash, disk
  <2>5. CASE RemoveLock \/ (\E s \in DOMAIN sheets : UserShares(s)) \/ UNCHANGED vars
    BY <2>1, <2>5 DEF RemoveLock, UserShares, vars, disk
  <2> QED
    BY <2>2, <2>3, <2>4, <2>5, ReachCloud DEF Next, RunStep
<1>2. CopyInv /\ [Next]_vars => [\A k \in DOMAIN keys : InReach(k) => InReach(k)']_vars
  BY <1>1
<1> QED
  BY <1>2, CopyAlways, PTL DEF Spec, CopyStaysInReach

-----------------------------------------------------------------------------
(* The grant, the .env file and the pool.                                  *)

\* Nothing was granted to the primary account by setup.
NoGrant == \A g \in bySetup : g[1] # "primary"

GrantStatuses == {"spreadsheet_share_started", "spreadsheet_shared", "complete"}

\* What is there when c is the checkpoint.
Backed(c) ==
    /\ c.status \notin GrantStatuses => NoGrant
    /\ c.status \in {"spreadsheet_shared", "complete"} /\ <<"primary", c.sheet>> \in bySetup
         => c.shareOrigin = "fresh"
    /\ c.status = "complete" => key["primary"] # 0 /\ Shared("primary", c.sheet)
    /\ c.pool => c.status = "complete" /\ key["pool"] # 0 /\ Shared("pool", c.sheet)
    /\ env.sheet # 0 =>
         /\ c.status \in {"spreadsheet_shared", "complete"} /\ env.sheet = c.sheet
         /\ key["primary"] # 0 /\ Shared("primary", env.sheet)
         /\ env.pool => c.pool

\* The steps outside a settlement that lead to the primary account's key.
PrimarySteps == {"project", "create_project", "baseline", "key_ready"}

\* What a run relies on when c is the checkpoint: it remembers all of c, but
\* for the origin of a grant it has not saved yet.
Relies(r, c) ==
    /\ r.pc # "shared" => r.mem = c
    /\ r.pc = "shared" =>
         /\ r.mem.sheet = c.sheet /\ r.mem.pool = c.pool
         /\ r.mem.keyOrigin = c.keyOrigin
         /\ <<"primary", c.sheet>> \in bySetup => r.mem.shareOrigin = "fresh"
    /\ r.pc \in PrimarySteps => r.account = "primary"
    /\ r.pc = "share" => c.status = "spreadsheet_created"
    /\ r.pc \in {"ensure", "shared"} => c.status = "spreadsheet_share_started"
    /\ r.pc = "ensure" /\ r.loaded # "spreadsheet_share_started" => NoGrant
    /\ r.loaded = "complete" => c.status = "complete"
    /\ r.pc = "env" => c.status \in {"spreadsheet_shared", "complete"}
    /\ r.pc = "env" /\ c.status = "complete" => r.loaded = "complete"
    /\ r.pc = "complete" => /\ c.status = "spreadsheet_shared"
                            /\ key["primary"] # 0 /\ Shared("primary", c.sheet)
    /\ r.pc \in {"pool", "pool_share", "pool_save", "pool_env"} => c.status = "complete"
    /\ r.pc \in KeySteps /\ r.account = "pool" => c.status = "complete"
    /\ r.pc = "pool_save" => <<"pool", c.sheet>> \in bySetup
    /\ r.pc = "pool_env" => c.pool

BackedInv ==
    /\ OnceInv
    /\ Backed(state)
    /\ \A p \in Processes : run[p].pc # "idle" => Relies(run[p], state)

LEMMA BackedInit == Init => BackedInv
<1> SUFFICES ASSUME Init PROVE BackedInv
  OBVIOUS
<1>1. OnceInv
  BY OnceInit
<1>2. Backed(state)
  BY DEF Init, Backed, NoGrant, GrantStatuses, NoState
<1>3. \A p \in Processes : run[p].pc = "idle"
  BY IdleType DEF Init
<1> QED
  BY <1>1, <1>2, <1>3 DEF BackedInv

LEMMA BackedParts ==
    ASSUME BackedInv
    PROVE  /\ OnceInv /\ RunsTypeOK /\ DiskTypeOK /\ IamTypeOK /\ DriveTypeOK /\ BoundsTypeOK
           /\ Backed(state)
           /\ \A p \in Processes : run[p].pc # "idle" => Fits(run[p], state) /\ Relies(run[p], state)
           /\ \A p \in Processes : run[p] \in Runs
BY OnceParts DEF BackedInv

\* A step of the run p that changes no key, no grant and no .env file.
LEMMA BackedStep ==
    ASSUME BackedInv, OnceInv', NEW p \in Processes,
           \A q \in Processes : q # p => run'[q].pc = "idle",
           Backed(state'), run'[p].pc = "idle" \/ Relies(run'[p], state'),
           UNCHANGED <<key, env, bySetup, byUser>>
    PROVE  BackedInv'
<1>1. Backed(state)'
  BY DEF Backed, Shared, NoGrant
<1>2. (\A q \in Processes : run[q].pc # "idle" => Relies(run[q], state))'
  BY DEF Relies, Shared, NoGrant
<1> QED
  BY <1>1, <1>2 DEF BackedInv

LEMMA EndsBacked ==
    ASSUME BackedInv, OnceInv', NEW p \in Processes, run[p].pc # "idle", Ends(p),
           Backed(state'), UNCHANGED <<key, env, bySetup, byUser>>
    PROVE  BackedInv'
BY BackedParts, EndsLeaves, BackedStep

LEMMA GoesBacked ==
    ASSUME BackedInv, OnceInv', NEW p \in Processes, run[p].pc # "idle",
           NEW r, run' = [run EXCEPT ![p] = r], Relies(r, state),
           UNCHANGED <<state, key, env, bySetup, byUser>>
    PROVE  BackedInv'
<1>1. RunsTypeOK /\ Backed(state')
  BY BackedParts
<1>2. run'[p] = r /\ \A q \in Processes : q # p => run'[q].pc = "idle"
  BY <1>1, Alone DEF RunsTypeOK
<1> QED
  BY <1>1, <1>2, BackedStep

LEMMA SaveBacked ==
    ASSUME BackedInv, OnceInv', NEW p \in Processes, run[p].pc # "idle",
           NEW c \in Checkpoints, NEW r \in Runs, Save(p, c, r),
           Backed(c), Relies([r EXCEPT !.mem = c], c),
           UNCHANGED <<key, env, bySetup, byUser>>
    PROVE  BackedInv'
<1>1. RunsTypeOK /\ state \in Checkpoints /\ Backed(state)
  BY BackedParts DEF DiskTypeOK
<1>2. /\ state' \in {state, c}
      /\ \A q \in Processes : q # p => run'[q].pc = "idle"
      /\ \/ run'[p].pc = "idle"
         \/ state' = c /\ run'[p] = [r EXCEPT !.mem = c]
  BY <1>1, SaveLeaves
<1>3. Backed(state')
  BY <1>1, <1>2
<1>4. run'[p].pc = "idle" \/ Relies(run'[p], state')
  BY <1>2
<1> QED
  BY <1>2, <1>3, <1>4, BackedStep

\* The steps that ask nothing of the grant, the .env file and the pool.
EarlySteps == {"project", "create_project", "baseline", "settle", "creating", "cleanup",
               "unlink", "rmdir", "key_ready", "sheet"} \cup SheetSteps

\* A run that goes on among them, over checkpoint c.
LEMMA EarlyRelies ==
    ASSUME NEW p \in Processes, run[p] \in Runs, NEW c \in Checkpoints, NEW step \in EarlySteps,
           run[p].loaded # "complete",
           step \in KeySteps \cup PrimarySteps => run[p].account = "primary"
    PROVE  /\ At(p, step) \in Runs /\ At(p, step) = [run[p] EXCEPT !.pc = step]
           /\ Relies([At(p, step) EXCEPT !.mem = c], c)
           /\ run[p].mem = c => Relies(At(p, step), c)
<1>1. At(p, step) \in Runs /\ At(p, step) = [run[p] EXCEPT !.pc = step]
  BY DEF At, Runs, EarlySteps, SheetSteps, Steps
<1>2. ASSUME NEW r \in Runs, r.pc = step, r.mem = c, r.loaded = run[p].loaded,
             r.account = run[p].account
      PROVE  Relies(r, c)
  BY <1>2 DEF Relies, EarlySteps, SheetSteps, KeySteps, PrimarySteps
<1>3. [At(p, step) EXCEPT !.mem = c] \in Runs
  BY <1>1 DEF Runs
<1> QED
  BY <1>1, <1>2, <1>3 DEF Runs

\* Checkpoints before the grant.
LEMMA EarlyBacked ==
    ASSUME Backed(state), state.status \notin GrantStatuses,
           NEW c \in Checkpoints, c.status \notin GrantStatuses, c.pool = FALSE
    PROVE  Backed(c)
BY DEF Backed, GrantStatuses

LEMMA StartBacked ==
    ASSUME BackedInv, OnceInv', NEW p \in Processes,
           Begin(p) \/ SelectProject(p) \/ ResumeProject(p) \/ CreateProject(p)
    PROVE  BackedInv'
<1>1. /\ RunsTypeOK /\ DiskTypeOK /\ run[p] \in Runs /\ Backed(state)
      /\ run[p].pc # "idle" => Fits(run[p], state) /\ Relies(run[p], state)
  BY BackedParts
<1>2. UNCHANGED <<key, env, bySetup, byUser>>
  BY DEF Begin, SelectProject, ResumeProject, CreateProject, disk, iam, drive
<1>3. ASSUME Begin(p) PROVE BackedInv'
  <2>1. PICK named, pooled :
          run' = [run EXCEPT ![p] =
             [Idle EXCEPT !.pc = FirstStep[state.status], !.mem = state,
                          !.loaded = state.status, !.named = named, !.pooled = pooled,
                          !.names = state.baseline,
                          !.reused = /\ key["primary"] # 0
                                     /\ state.status # "key_create_started"]]
    BY <1>3 DEF Begin
  <2>2. /\ run'[p].pc = FirstStep[state.status] /\ run'[p].mem = state
        /\ run'[p].loaded = state.status /\ run'[p].account = "primary"
    BY <1>1, <2>1 DEF RunsTypeOK, Idle
  <2>3. state.status \in Statuses /\ UNCHANGED state
    BY <1>1, <1>3 DEF DiskTypeOK, Checkpoints, Begin, disk
  <2>4. Relies(run'[p], state)
    BY <1>1, <2>2, <2>3 DEF FirstStep, Statuses, Relies, KeySteps, PrimarySteps, Backed
  <2>5. \A q \in Processes : q # p => run'[q].pc = "idle"
    <3>1. \A q \in Processes : run[q].pc = "idle"
      BY <1>1, <1>3, SetupAssumption DEF Begin, RunsTypeOK
    <3> QED
      BY <1>1, <2>1, <3>1 DEF RunsTypeOK
  <2> QED
    BY <1>1, <1>2, <2>3, <2>4, <2>5, BackedStep
<1>4. \A step \in {"create_project", KeyStep(p)} : step \in EarlySteps \ KeySteps
  BY DEF KeyStep, EarlySteps, KeySteps, SheetSteps
<1>5. run[p].pc \in {"project", "create_project"} =>
        /\ run[p].pc # "idle" /\ state.status \notin GrantStatuses
        /\ run[p].loaded # "complete" /\ run[p].mem = state /\ run[p].account = "primary"
  BY <1>1 DEF Fits, Relies, GrantStatuses, PrimarySteps
<1>6. ASSUME SelectProject(p) PROVE BackedInv'
  <2>1. run[p].pc = "project" /\ run[p].named \in SUBSET Nat /\ starts \in Nat
    BY <1>1, <1>6, BackedParts DEF SelectProject, Runs, BoundsTypeOK
  <2>2. PICK id \in Nat, step \in {"create_project", KeyStep(p)} :
          Save(p, projectState(id), At(p, step))
    BY <1>6, <2>1 DEF SelectProject
  <2>3. projectState(id) \in Checkpoints /\ projectState(id).status = "project_selected"
        /\ projectState(id).pool = FALSE
    BY NoStateType DEF projectState, NoState, Checkpoints, Statuses, FirstStep
  <2>4. Backed(projectState(id))
    BY <1>1, <1>5, <2>1, <2>3, EarlyBacked DEF GrantStatuses
  <2>5. At(p, step) \in Runs /\ Relies([At(p, step) EXCEPT !.mem = projectState(id)], projectState(id))
    BY <1>1, <1>4, <1>5, <2>1, <2>3, EarlyRelies
  <2> QED
    BY <1>2, <1>5, <2>1, <2>2, <2>3, <2>4, <2>5, SaveBacked
<1>7. ASSUME ResumeProject(p) \/ CreateProject(p) PROVE BackedInv'
  <2>1. run[p].pc \in {"project", "create_project"} /\ UNCHANGED state /\ state \in Checkpoints
    BY <1>1, <1>7 DEF ResumeProject, CreateProject, disk, DiskTypeOK
  <2>2. Ends(p) \/ \E step \in {"create_project", KeyStep(p)} : Goes(p, step)
    BY <1>7 DEF ResumeProject, CreateProject
  <2>3. \A step \in {"create_project", KeyStep(p)} : Relies(At(p, step), state)
    BY <1>1, <1>4, <1>5, <2>1, EarlyRelies
  <2> QED
    BY <1>1, <1>2, <1>5, <2>1, <2>2, <2>3, EndsBacked, GoesBacked DEF Goes
<1> QED
  BY <1>3, <1>6, <1>7

\* A settlement over a checkpoint before the sheet, or that of the pool.
LEMMA SettlingRelies ==
    ASSUME BackedInv, NEW p \in Processes, run[p].pc \in KeySteps,
           NEW r \in Runs, r.mem = run[p].mem, r.loaded = run[p].loaded,
           r.account = run[p].account, r.pc \in KeySteps \cup {KeyDone(p)}
    PROVE  Relies(r, state)
<1>1. run[p] \in Runs /\ Fits(run[p], state) /\ Relies(run[p], state)
  BY BackedParts DEF KeySteps
<1>2. run[p].mem = state
  BY <1>1 DEF Relies, KeySteps
<1>3. run[p].account \in Accounts
  BY <1>1 DEF Runs
<1>4. CASE run[p].account = "primary"
  BY <1>1, <1>2, <1>4 DEF Fits, Relies, KeySteps, KeyDone, PrimarySteps
<1>5. CASE run[p].account = "pool"
  BY <1>1, <1>2, <1>5 DEF Relies, KeySteps, KeyDone, PrimarySteps
<1> QED
  BY <1>3, <1>4, <1>5 DEF Accounts

LEMMA KeyBacked ==
    ASSUME BackedInv, OnceInv', NEW p \in Processes,
           RefuseKey(p) \/ FindKey(p) \/ CreateKey(p) \/ PollKey(p) \/ KeyCallAnswers(p)
             \/ QuarantineStage(p) \/ UnlinkStaged(p) \/ RemoveQuarantine(p)
    PROVE  BackedInv'
<1>1. RunsTypeOK /\ run[p] \in Runs /\ Backed(state)
  BY BackedParts
<1>2. run[p].pc \in KeySteps /\ run[p].pc # "idle"
  BY DEF KeySteps, RefuseKey, FindKey, CreateKey, PollKey, KeyCallAnswers, QuarantineStage,
     UnlinkStaged, RemoveQuarantine
<1>3. UNCHANGED <<state, key, env, bySetup, byUser>>
  BY DEF RefuseKey, FindKey, CreateKey, PollKey, KeyCallAnswers, QuarantineStage,
     UnlinkStaged, RemoveQuarantine, disk, drive
<1>4. ASSUME NEW step \in KeySteps \cup {KeyDone(p)}, Goes(p, step) PROVE BackedInv'
  <2>1. At(p, step) \in Runs /\ At(p, step) = [run[p] EXCEPT !.pc = step]
    BY <1>1 DEF At, Runs, Steps, KeySteps, KeyDone
  <2>2. Relies(At(p, step), state)
    BY <1>1, <1>2, <2>1, SettlingRelies DEF Runs
  <2> QED
    BY <1>2, <1>3, <1>4, <2>2, GoesBacked DEF Goes
<1>5. ASSUME Ends(p) PROVE BackedInv'
  BY <1>1, <1>2, <1>3, <1>5, EndsBacked
<1>6. CASE RefuseKey(p)
  BY <1>5, <1>6 DEF RefuseKey
<1>7. CASE FindKey(p)
  <2>1. PICK b \in BOOLEAN : run' = [run EXCEPT ![p] = [At(p, "cleanup") EXCEPT !.reused = b]]
    <3>1. baselineIncludes(p, final(p)) \in BOOLEAN
      BY DEF baselineIncludes
    <3> QED
      BY <1>7, <3>1 DEF FindKey
  <2>2. [At(p, "cleanup") EXCEPT !.reused = b] \in Runs
    BY <1>1 DEF At, Runs, Steps
  <2>3. Relies([At(p, "cleanup") EXCEPT !.reused = b], state)
    BY <1>1, <1>2, <2>2, SettlingRelies DEF At, Runs, KeySteps
  <2> QED
    BY <1>2, <1>3, <2>1, <2>3, GoesBacked
<1>8. CASE CreateKey(p)
  <2>1. run' = [run EXCEPT ![p] = [At(p, "creating") EXCEPT !.mayCreate = FALSE]]
    BY <1>8 DEF CreateKey
  <2>2. [At(p, "creating") EXCEPT !.mayCreate = FALSE] \in Runs
    BY <1>1 DEF At, Runs, Steps
  <2>3. Relies([At(p, "creating") EXCEPT !.mayCreate = FALSE], state)
    BY <1>1, <1>2, <2>2, SettlingRelies DEF At, Runs, KeySteps
  <2> QED
    BY <1>2, <1>3, <2>1, <2>3, GoesBacked
<1>9. CASE PollKey(p)
  <2>1. [run[p] EXCEPT !.checks = @ + 1] \in Runs
    BY <1>1 DEF Runs
  <2>2. Relies([run[p] EXCEPT !.checks = @ + 1], state)
    BY <1>1, <1>2, <2>1, SettlingRelies DEF Runs
  <2> QED
    BY <1>2, <1>3, <1>5, <1>9, <2>2, GoesBacked DEF PollKey
<1>10. CASE KeyCallAnswers(p)
  BY <1>4, <1>10 DEF KeyCallAnswers, KeySteps
<1>11. CASE QuarantineStage(p)
  BY <1>4, <1>5, <1>11 DEF QuarantineStage, KeySteps
<1>12. CASE UnlinkStaged(p)
  BY <1>4, <1>5, <1>12 DEF UnlinkStaged, KeySteps
<1>13. CASE RemoveQuarantine(p)
  BY <1>4, <1>13 DEF RemoveQuarantine
<1> QED
  BY <1>6, <1>7, <1>8, <1>9, <1>10, <1>11, <1>12, <1>13

\* An installed key stays installed.
LEMMA InstallBacked ==
    ASSUME BackedInv, OnceInv', NEW p \in Processes, installStagedKey(p)
    PROVE  BackedInv'
<1>1. /\ RunsTypeOK /\ DiskTypeOK /\ IamTypeOK /\ run[p] \in Runs /\ Backed(state)
      /\ run[p].pc = "settle" /\ Relies(run[p], state)
  BY BackedParts DEF installStagedKey
<1>2. /\ UNCHANGED <<state, env, bySetup, byUser>>
      /\ key' = [key EXCEPT ![run[p].account] = staged(p)]
      /\ staged(p) # 0
  BY <1>1 DEF installStagedKey, drive, Links, Seen, IamTypeOK
<1>3. \A a \in Accounts : key[a] # 0 => key'[a] # 0
  BY <1>1, <1>2 DEF DiskTypeOK
<1>4. Backed(state)'
  BY <1>1, <1>2, <1>3 DEF Backed, Shared, NoGrant, Accounts
<1>5. PICK b \in BOOLEAN : run' = [run EXCEPT ![p] = [At(p, "cleanup") EXCEPT !.reused = b]]
  <2>1. baselineIncludes(p, staged(p)) \in BOOLEAN
    BY DEF baselineIncludes
  <2> QED
    BY <2>1 DEF installStagedKey
<1>6. [At(p, "cleanup") EXCEPT !.reused = b] \in Runs
  BY <1>1 DEF At, Runs, Steps
<1>7. Relies([At(p, "cleanup") EXCEPT !.reused = b], state)
  BY <1>1, <1>6, SettlingRelies DEF At, Runs, KeySteps
<1>8. run'[p].pc = "cleanup" /\ Relies(run'[p], state)
  BY <1>1, <1>5, <1>6, <1>7 DEF RunsTypeOK, At, Runs
<1>9. \A q \in Processes : q # p => run'[q].pc = "idle"
  BY <1>1, <1>5, Alone DEF RunsTypeOK
<1>10. (\A q \in Processes : run[q].pc # "idle" => Relies(run[q], state))'
  BY <1>2, <1>8, <1>9 DEF Relies, NoGrant
<1> QED
  BY <1>4, <1>10 DEF BackedInv

LEMMA SheetBacked ==
    ASSUME BackedInv, OnceInv', NEW p \in Processes,
           AnnounceKey(p) \/ SaveKeyReady(p) \/ AnnounceSheet(p) \/ createSpreadsheet(p)
             \/ SheetCallAnswers(p) \/ FindSheet(p)
    PROVE  BackedInv'
<1>1. /\ RunsTypeOK /\ DiskTypeOK /\ run[p] \in Runs /\ run[p].mem \in Checkpoints
      /\ run[p].mem.sheet \in Nat /\ run[p].mem.mark \in Nat
      /\ run[p].mem.keyOrigin \in Origins /\ run[p].mem.shareOrigin \in Origins
      /\ starts \in Nat /\ sheets \in Seq(Nat) /\ found \subseteq DOMAIN sheets
      /\ Seen(p) \in SUBSET Nat /\ Backed(state)
  BY BackedParts, RunFields, SeenType DEF BoundsTypeOK, DriveTypeOK
<1>2. run[p].pc \in {"baseline", "key_ready", "sheet"} \cup SheetSteps
  BY DEF AnnounceKey, SaveKeyReady, AnnounceSheet, createSpreadsheet, SheetCallAnswers,
     FindSheet, SheetSteps
<1>3. run[p].pc # "idle" /\ Fits(run[p], state) /\ Relies(run[p], state)
  BY <1>2, BackedParts DEF SheetSteps
<1>4. /\ state.status \notin GrantStatuses /\ run[p].mem = state /\ run[p].loaded # "complete"
      /\ run[p].mem.pool = FALSE
  BY <1>1, <1>2, <1>3 DEF Fits, Relies, GrantStatuses, SheetSteps, Backed
<1>5. UNCHANGED <<key, env, bySetup, byUser>>
  BY DEF AnnounceKey, SaveKeyReady, AnnounceSheet, createSpreadsheet, SheetCallAnswers,
     FindSheet, disk, drive
<1>6. ASSUME NEW c \in Checkpoints, c.status \notin GrantStatuses, c.pool = FALSE
      PROVE  Backed(c)
  BY <1>1, <1>4, <1>6, EarlyBacked
<1>7. ASSUME NEW c \in Checkpoints, NEW step \in EarlySteps \ (KeySteps \cup PrimarySteps), Save(p, c, At(p, step)),
             c.status \notin GrantStatuses, c.pool = FALSE
      PROVE  BackedInv'
  BY <1>1, <1>3, <1>4, <1>5, <1>6, <1>7, EarlyRelies, SaveBacked
<1>8. ASSUME NEW step \in EarlySteps \ (KeySteps \cup PrimarySteps), Goes(p, step), UNCHANGED state
      PROVE  BackedInv'
  BY <1>1, <1>3, <1>4, <1>5, <1>8, EarlyRelies, GoesBacked DEF Goes
<1>9. \A step \in {"sheet"} \cup SheetSteps : step \in EarlySteps \ (KeySteps \cup PrimarySteps)
  BY DEF EarlySteps, SheetSteps, KeySteps, PrimarySteps
<1>10. \A origin \in Origins :
        LET c == keyReadyState(run[p].mem, origin)
        IN  c \in Checkpoints /\ c.status \notin GrantStatuses /\ c.pool = FALSE
  BY <1>1, <1>4 DEF keyReadyState, Checkpoints, Statuses, FirstStep, GrantStatuses
<1>11. CASE AnnounceKey(p)
  <2>1. /\ keyStartedState(run[p].mem, Seen(p)) \in Checkpoints
        /\ keyStartedState(run[p].mem, Seen(p)).status \notin GrantStatuses
        /\ keyStartedState(run[p].mem, Seen(p)).pool = FALSE
    BY <1>1, <1>4 DEF keyStartedState, Checkpoints, Statuses, FirstStep, GrantStatuses
  <2> DEFINE r == [At(p, "settle") EXCEPT !.names = Seen(p), !.mayCreate = TRUE]
             c == keyStartedState(run[p].mem, Seen(p))
  <2>2. Save(p, c, r)
    BY <1>11 DEF AnnounceKey
  <2>3. At(p, "settle") \in Runs /\ At(p, "settle").pc = "settle"
        /\ At(p, "settle").loaded = run[p].loaded
    BY <1>1 DEF At, Runs, Steps
  <2>4. r \in Runs /\ r.pc = "settle" /\ r.loaded # "complete"
    BY <1>1, <1>4, <2>3 DEF Runs
  <2>5. run[p].pc = "baseline" /\ run[p].account = "primary"
    BY <1>3, <1>11 DEF AnnounceKey, Relies, PrimarySteps
  <2>6. r.account = "primary"
    BY <1>1, <2>5 DEF At, Runs
  <2>7. Relies([r EXCEPT !.mem = c], c)
    BY <2>1, <2>4, <2>6 DEF Relies, KeySteps, PrimarySteps, Runs
  <2> QED
    BY <1>3, <1>5, <1>6, <2>1, <2>2, <2>4, <2>7, SaveBacked
<1>12. CASE SaveKeyReady(p)
  BY <1>7, <1>9, <1>10, <1>12 DEF SaveKeyReady, Origins
<1>13. CASE AnnounceSheet(p)
  <2>1. /\ startedState(run[p].mem, starts) \in Checkpoints
        /\ startedState(run[p].mem, starts).status \notin GrantStatuses
        /\ startedState(run[p].mem, starts).pool = FALSE
    BY <1>1, <1>4 DEF startedState, Checkpoints, Statuses, FirstStep, GrantStatuses
  <2> QED
    BY <1>7, <1>9, <1>13, <2>1 DEF AnnounceSheet, SheetSteps
<1>14. CASE createSpreadsheet(p)
  BY <1>8, <1>9, <1>14 DEF createSpreadsheet, disk, SheetSteps
<1>15. ASSUME NEW s \in DOMAIN sheets, Save(p, createdState(p, s), At(p, "share"))
       PROVE  BackedInv'
  <2> DEFINE c == createdState(p, s)
  <2>1. s \in Nat
    BY <1>1
  <2>2. c \in Checkpoints /\ c.status = "spreadsheet_created" /\ c.pool = FALSE
    BY <1>1, <1>4, <2>1 DEF createdState, spreadsheetState, Checkpoints, Statuses, FirstStep, Origins
  <2>3. At(p, "share") \in Runs /\ At(p, "share").pc = "share"
        /\ At(p, "share").loaded # "complete"
    BY <1>1, <1>4 DEF At, Runs, Steps
  <2>4. Relies([At(p, "share") EXCEPT !.mem = c], c)
    BY <2>2, <2>3 DEF Relies, KeySteps, PrimarySteps, Runs
  <2>5. Backed(c)
    BY <1>6, <2>2 DEF GrantStatuses
  <2> QED
    BY <1>3, <1>5, <1>15, <2>2, <2>3, <2>4, <2>5, SaveBacked
<1>16. CASE SheetCallAnswers(p)
  BY <1>8, <1>9, <1>15, <1>16 DEF SheetCallAnswers, SheetSteps
<1>17. CASE FindSheet(p)
  <2>1. \/ \E s \in DOMAIN sheets : Save(p, createdState(p, s), At(p, "share"))
        \/ Ends(p) /\ state' \in {state, keyReadyState(run[p].mem, run[p].mem.keyOrigin)}
    BY <1>1, <1>17 DEF FindSheet
  <2>2. state' \in {state, keyReadyState(run[p].mem, run[p].mem.keyOrigin)} => Backed(state')
    BY <1>1, <1>6, <1>10
  <2> QED
    BY <1>3, <1>5, <1>15, <2>1, <2>2, EndsBacked
<1> QED
  BY <1>11, <1>12, <1>13, <1>14, <1>16, <1>17

\* The three checkpoints of the grant.
LEMMA ShareBacked ==
    ASSUME BackedInv, OnceInv', NEW p \in Processes,
           AnnounceShare(p) \/ SaveShared(p) \/ SaveComplete(p)
    PROVE  BackedInv'
<1>1. /\ RunsTypeOK /\ run[p] \in Runs /\ run[p].mem \in Checkpoints
      /\ run[p].mem.sheet \in Nat /\ run[p].mem.shareOrigin \in Origins /\ Backed(state)
  BY BackedParts, RunFields
<1>2. run[p].pc \in {"share", "shared", "complete"}
  BY DEF AnnounceShare, SaveShared, SaveComplete
<1>3. run[p].pc # "idle" /\ Fits(run[p], state) /\ Relies(run[p], state)
  BY <1>2, BackedParts
<1>4. UNCHANGED <<key, env, bySetup, byUser>>
  BY DEF AnnounceShare, SaveShared, SaveComplete, drive
<1>5. \A origin \in Origins, status \in GrantStatuses :
        LET c == spreadsheetState(run[p].mem, status, run[p].mem.sheet, origin)
        IN  /\ c \in Checkpoints /\ c.status = status /\ c.sheet = run[p].mem.sheet
            /\ c.shareOrigin = origin /\ c.pool = run[p].mem.pool
  BY <1>1 DEF spreadsheetState, Checkpoints, Statuses, FirstStep, GrantStatuses
<1>6. \A step \in {"ensure", "env", "pool"} :
        /\ At(p, step) \in Runs /\ At(p, step) = [run[p] EXCEPT !.pc = step]
        /\ At(p, step).pc = step /\ At(p, step).loaded = run[p].loaded
  BY <1>1 DEF At, Runs, Steps
<1>7. CASE AnnounceShare(p)
  <2> DEFINE c == spreadsheetState(run[p].mem, "spreadsheet_share_started",
                                   run[p].mem.sheet, "unknown")
  <2>1. /\ Save(p, c, At(p, "ensure")) /\ run[p].pc = "share"
        /\ state.status = "spreadsheet_created" /\ run[p].mem = state
    BY <1>3, <1>7 DEF AnnounceShare, Relies
  <2>2. /\ c \in Checkpoints /\ c.status = "spreadsheet_share_started" /\ c.pool = state.pool
    BY <1>5, <2>1 DEF Origins, GrantStatuses
  <2>3. NoGrant /\ Backed(c)
    BY <1>1, <2>1, <2>2 DEF Backed, GrantStatuses
  <2>4. run[p].loaded # "complete"
    BY <1>3, <2>1 DEF Relies
  <2>5. Relies([At(p, "ensure") EXCEPT !.mem = c], c)
    BY <1>6, <2>2, <2>3, <2>4 DEF Relies, KeySteps, PrimarySteps, Runs
  <2> QED
    BY <1>3, <1>4, <1>6, <2>1, <2>2, <2>3, <2>5, SaveBacked
<1>8. CASE SaveShared(p)
  <2> DEFINE c == spreadsheetState(run[p].mem, "spreadsheet_shared", run[p].mem.sheet,
                                   run[p].mem.shareOrigin)
  <2>1. /\ Save(p, c, At(p, "env")) /\ run[p].pc = "shared"
        /\ state.status = "spreadsheet_share_started"
        /\ run[p].mem.sheet = state.sheet /\ run[p].mem.pool = state.pool
        /\ <<"primary", state.sheet>> \in bySetup => run[p].mem.shareOrigin = "fresh"
    BY <1>3, <1>8 DEF SaveShared, Relies
  <2>2. /\ c \in Checkpoints /\ c.status = "spreadsheet_shared" /\ c.pool = state.pool
        /\ c.sheet = state.sheet /\ c.shareOrigin = run[p].mem.shareOrigin
    BY <1>1, <1>5, <2>1 DEF GrantStatuses
  <2>3. Backed(c)
    BY <1>1, <2>1, <2>2 DEF Backed, GrantStatuses
  <2>4. run[p].loaded # "complete"
    BY <1>3, <2>1 DEF Relies
  <2>5. Relies([At(p, "env") EXCEPT !.mem = c], c)
    BY <1>6, <2>2, <2>4 DEF Relies, KeySteps, PrimarySteps, Runs
  <2> QED
    BY <1>3, <1>4, <1>6, <2>1, <2>2, <2>3, <2>5, SaveBacked
<1>9. CASE SaveComplete(p)
  <2> DEFINE c == spreadsheetState(run[p].mem, "complete", run[p].mem.sheet,
                                   run[p].mem.shareOrigin)
  <2>1. /\ Save(p, c, At(p, "pool")) /\ run[p].pc = "complete"
        /\ state.status = "spreadsheet_shared" /\ run[p].mem = state
        /\ key["primary"] # 0 /\ Shared("primary", state.sheet)
    BY <1>3, <1>9 DEF SaveComplete, Relies
  <2>2. /\ c \in Checkpoints /\ c.status = "complete" /\ c.pool = state.pool
        /\ c.sheet = state.sheet /\ c.shareOrigin = state.shareOrigin
    BY <1>1, <1>5, <2>1 DEF GrantStatuses
  <2>3. Backed(c)
    BY <1>1, <2>1, <2>2 DEF Backed, GrantStatuses
  <2>4. Relies([At(p, "pool") EXCEPT !.mem = c], c)
    BY <1>6, <2>2 DEF Relies, KeySteps, PrimarySteps, Runs
  <2> QED
    BY <1>3, <1>4, <1>6, <2>1, <2>2, <2>3, <2>4, SaveBacked
<1> QED
  BY <1>7, <1>8, <1>9

\* A step of the only run that leaves the checkpoint alone, and after which
\* the checkpoint is still backed.
LEMMA AloneBacked ==
    ASSUME BackedInv, OnceInv', NEW p \in Processes, run[p].pc # "idle",
           Backed(state)', UNCHANGED state,
           Ends(p) \/ \E r \in Runs : run' = [run EXCEPT ![p] = r] /\ Relies(r, state)'
    PROVE  BackedInv'
<1>1. RunsTypeOK
  BY BackedParts
<1>2. CASE Ends(p)
  BY <1>1, <1>2, EndsLeaves DEF BackedInv
<1>3. CASE \E r \in Runs : run' = [run EXCEPT ![p] = r] /\ Relies(r, state)'
  <2>1. PICK r \in Runs : run' = [run EXCEPT ![p] = r] /\ Relies(r, state)'
    BY <1>3
  <2>2. run'[p] = r /\ \A q \in Processes : q # p => run'[q].pc = "idle"
    BY <1>1, <2>1, Alone DEF RunsTypeOK
  <2>3. Relies(run[p], state)'
    BY <2>1, <2>2
  <2> QED
    BY <2>2, <2>3 DEF BackedInv
<1> QED
  BY <1>2, <1>3

LEMMA EnsureBacked ==
    ASSUME BackedInv, OnceInv', NEW p \in Processes, EnsureWriter(p)
    PROVE  BackedInv'
<1>1. /\ RunsTypeOK /\ DriveTypeOK /\ run[p] \in Runs /\ run[p].mem \in Checkpoints
      /\ run[p].mem.sheet \in Nat /\ Backed(state)
      /\ run[p].pc = "ensure" /\ Fits(run[p], state) /\ Relies(run[p], state)
  BY BackedParts, RunFields DEF EnsureWriter
<1>2. /\ UNCHANGED <<state, key, env, byUser>>
      /\ bySetup' = IF Shared("primary", run[p].mem.sheet) THEN bySetup
                    ELSE bySetup \cup {<<"primary", run[p].mem.sheet>>}
  BY DEF EnsureWriter, disk
<1>3. /\ run[p].mem = state /\ state.status = "spreadsheet_share_started"
      /\ run[p].loaded # "spreadsheet_share_started" => NoGrant
      /\ run[p].loaded # "complete"
  BY <1>1 DEF Relies
<1>4. Backed(state)'
  BY <1>1, <1>2, <1>3 DEF Backed, Shared, NoGrant, GrantStatuses
<1>5. CASE Ends(p)
  BY <1>1, <1>2, <1>4, <1>5, AloneBacked
<1>6. CASE ~ Ends(p)
  <2> DEFINE reuse == /\ Shared("primary", run[p].mem.sheet)
                      /\ run[p].loaded # "spreadsheet_share_started"
             origin == IF reuse THEN "reused" ELSE "fresh"
  <2>1. run' = [run EXCEPT ![p] = [At(p, "shared") EXCEPT !.mem.shareOrigin = origin]]
    BY <1>6 DEF EnsureWriter
  <2>2. <<"primary", state.sheet>> \in bySetup' => origin = "fresh"
    <3>1. CASE reuse
      <4>1. bySetup' = bySetup /\ NoGrant
        BY <1>2, <1>3, <3>1
      <4> QED
        BY <4>1 DEF NoGrant
    <3>2. CASE ~ reuse
      BY <3>2
    <3> QED
      BY <3>1, <3>2
  <2>3. At(p, "shared") \in Runs /\ At(p, "shared").pc = "shared"
        /\ At(p, "shared").loaded = run[p].loaded /\ At(p, "shared").mem = run[p].mem
    BY <1>1 DEF At, Runs, Steps
  <2>4. PICK r \in Runs :
          /\ r = [At(p, "shared") EXCEPT !.mem.shareOrigin = origin]
          /\ r.pc = "shared" /\ r.loaded = run[p].loaded
          /\ r.mem.sheet = state.sheet /\ r.mem.pool = state.pool
          /\ r.mem.keyOrigin = state.keyOrigin /\ r.mem.shareOrigin = origin
    <3> HIDE DEF origin
    <3>1. origin \in Origins
      BY DEF origin, Origins
    <3> DEFINE r == [At(p, "shared") EXCEPT !.mem.shareOrigin = origin]
    <3>2. /\ r \in Runs /\ r.pc = "shared" /\ r.loaded = run[p].loaded
          /\ r.mem.sheet = state.sheet /\ r.mem.pool = state.pool
          /\ r.mem.keyOrigin = state.keyOrigin /\ r.mem.shareOrigin = origin
      BY <1>1, <1>3, <2>3, <3>1 DEF Runs, Checkpoints
    <3> HIDE DEF r
    <3> QED
      BY <3>2 DEF r
  <2>5. Relies(r, state)'
    <3> HIDE DEF origin
    <3> QED
      BY <1>2, <1>3, <2>2, <2>4 DEF Relies, KeySteps, PrimarySteps
  <2> QED
    BY <1>1, <1>2, <1>4, <2>1, <2>4, <2>5, AloneBacked
<1> QED
  BY <1>5, <1>6

LEMMA EnvBacked ==
    ASSUME BackedInv, OnceInv', NEW p \in Processes, WriteEnv(p) \/ WritePoolEnv(p)
    PROVE  BackedInv'
<1>1. /\ RunsTypeOK /\ DiskTypeOK /\ run[p] \in Runs /\ run[p].mem \in Checkpoints /\ Backed(state)
      /\ run[p].pc \in {"env", "pool_env"} /\ Relies(run[p], state) /\ run[p].mem = state
  <2>1. run[p].pc \in {"env", "pool_env"}
    BY DEF WriteEnv, WritePoolEnv
  <2> QED
    BY <2>1, BackedParts, RunFields DEF Relies
<1>2. UNCHANGED <<state, key, bySetup, byUser>>
  BY DEF WriteEnv, WritePoolEnv, drive
<1>3. CASE WriteEnv(p)
  <2>1. /\ env' = [sheet |-> state.sheet, pool |-> FALSE]
        /\ state.status \in {"spreadsheet_shared", "complete"}
        /\ key["primary"] # 0 /\ Shared("primary", state.sheet)
    BY <1>1, <1>3 DEF WriteEnv, Relies, Backed
  <2>2. Backed(state)'
    BY <1>1, <1>2, <2>1 DEF Backed, Shared, NoGrant, GrantStatuses
  <2>3. PICK step \in {"pool", "complete"} :
          /\ run' = [run EXCEPT ![p] = At(p, step)]
          /\ step = IF run[p].loaded = "complete" THEN "pool" ELSE "complete"
    BY <1>3 DEF WriteEnv, Goes
  <2>4. PICK r \in Runs :
          r = At(p, step) /\ r.pc = step /\ r.loaded = run[p].loaded /\ r.mem = state
    <3>1. /\ At(p, step) \in Runs /\ At(p, step).pc = step
          /\ At(p, step).loaded = run[p].loaded /\ At(p, step).mem = state
      BY <1>1 DEF At, Runs, Steps
    <3> QED
      BY <3>1
  <2>5. state.status = IF run[p].loaded = "complete" THEN "complete" ELSE "spreadsheet_shared"
    BY <1>1, <1>3 DEF WriteEnv, Relies
  <2>6. Relies(r, state)'
    BY <1>2, <2>1, <2>3, <2>4, <2>5 DEF Relies, Shared, KeySteps, PrimarySteps
  <2> QED
    BY <1>1, <1>2, <2>2, <2>3, <2>4, <2>6, AloneBacked
<1>4. CASE WritePoolEnv(p)
  <2>1. env' = [sheet |-> state.sheet, pool |-> TRUE] /\ state.pool /\ state.status = "complete" /\ Ends(p)
    BY <1>1, <1>4 DEF WritePoolEnv, Relies, Backed
  <2>2. Backed(state)'
    BY <1>1, <1>2, <2>1 DEF Backed, Shared, NoGrant, GrantStatuses
  <2> QED
    BY <1>1, <1>2, <2>1, <2>2, AloneBacked
<1> QED
  BY <1>3, <1>4

LEMMA PoolBacked ==
    ASSUME BackedInv, OnceInv', NEW p \in Processes,
           ExpandPool(p) \/ SharePool(p) \/ SavePool(p)
    PROVE  BackedInv'
<1>1. /\ RunsTypeOK /\ DiskTypeOK /\ DriveTypeOK /\ run[p] \in Runs
      /\ run[p].mem \in Checkpoints /\ Backed(state)
      /\ run[p].pc \in {"pool", "pool_share", "pool_save"}
      /\ Relies(run[p], state) /\ run[p].mem = state /\ state.status = "complete"
  <2>1. run[p].pc \in {"pool", "pool_share", "pool_save"}
    BY DEF ExpandPool, SharePool, SavePool
  <2> QED
    BY <2>1, BackedParts, RunFields DEF Relies
<1>2. \A step \in {"pool_env", "pool_save", "settle"} :
        /\ At(p, step) \in Runs /\ At(p, step).pc = step /\ At(p, step).mem = state
  BY <1>1 DEF At, Runs, Steps
<1>3. CASE ExpandPool(p)
  <2>1. UNCHANGED <<state, key, env, bySetup, byUser>>
    BY <1>3 DEF ExpandPool, drive
  <2>2. CASE Ends(p)
    BY <1>1, <2>1, <2>2, EndsBacked
  <2>3. CASE Goes(p, "pool_env") /\ state.pool
    <3>1. Relies(At(p, "pool_env"), state)
      BY <1>1, <1>2, <2>3 DEF Relies, KeySteps, PrimarySteps
    <3> QED
      BY <1>1, <2>1, <2>3, <3>1, GoesBacked DEF Goes
  <2>4. CASE \E names \in SUBSET Nat : run' = [run EXCEPT ![p] =
               [[At(p, "settle") EXCEPT !.account = "pool", !.checks = 0,
                                        !.mayCreate = TRUE] EXCEPT !.names = names]]
    <3>1. PICK names \in SUBSET Nat : run' = [run EXCEPT ![p] =
               [[At(p, "settle") EXCEPT !.account = "pool", !.checks = 0,
                                        !.mayCreate = TRUE] EXCEPT !.names = names]]
      BY <2>4
    <3> DEFINE r == [[At(p, "settle") EXCEPT !.account = "pool", !.checks = 0,
                                             !.mayCreate = TRUE] EXCEPT !.names = names]
    <3>2. r.pc = "settle" /\ r.mem = state
      BY <1>2 DEF Runs
    <3>3. Relies(r, state)
      <4> HIDE DEF r
      <4> QED
        BY <1>1, <3>2 DEF Relies, KeySteps, PrimarySteps
    <3> QED
      BY <1>1, <2>1, <3>1, <3>3, GoesBacked
  <2>5. {k \in listed : keys[k].account = "pool" /\ keys[k].project = run[p].mem.project} \in SUBSET Nat
    BY BackedParts DEF IamTypeOK
  <2>6. \/ Ends(p)
        \/ Goes(p, "pool_env") /\ state.pool
        \/ run' = [run EXCEPT ![p] =
             [[At(p, "settle") EXCEPT !.account = "pool", !.checks = 0,
                                      !.mayCreate = TRUE] EXCEPT
               !.names = {k \in listed : /\ keys[k].account = "pool"
                                         /\ keys[k].project = run[p].mem.project}]]
    <3>1. [At(p, "settle") EXCEPT !.account = "pool", !.checks = 0,
                                  !.mayCreate = TRUE].mem.project = run[p].mem.project
      BY <1>1 DEF At, Runs, Steps
    <3> QED
      BY <1>3, <3>1 DEF ExpandPool
  <2> QED
    BY <2>2, <2>3, <2>4, <2>5, <2>6
<1>4. CASE SharePool(p)
  <2>1. /\ UNCHANGED <<state, key, env, byUser>>
        /\ bySetup' = bySetup \cup {<<"pool", state.sheet>>}
        /\ Ends(p) \/ Goes(p, "pool_save")
    BY <1>1, <1>4 DEF SharePool, disk
  <2>2. Backed(state)'
    BY <1>1, <2>1 DEF Backed, Shared, GrantStatuses
  <2>3. PICK r \in Runs : r = At(p, "pool_save") /\ r.pc = "pool_save" /\ r.mem = state
    BY <1>2
  <2>4. Relies(r, state)'
    BY <1>1, <2>1, <2>3 DEF Relies, KeySteps, PrimarySteps
  <2> QED
    BY <1>1, <2>1, <2>2, <2>3, <2>4, AloneBacked DEF Goes
<1>5. CASE SavePool(p)
  <2> DEFINE c == [run[p].mem EXCEPT !.pool = TRUE]
  <2>1. /\ Save(p, c, At(p, "pool_env")) /\ key["pool"] # 0
        /\ UNCHANGED <<key, env, bySetup, byUser>> /\ run[p].pc = "pool_save"
    BY <1>5 DEF SavePool, drive
  <2>2. /\ c \in Checkpoints /\ c.status = "complete" /\ c.pool
        /\ c.sheet = state.sheet /\ c.shareOrigin = state.shareOrigin
    BY <1>1 DEF Checkpoints
  <2>3. Shared("pool", state.sheet)
    BY <1>1, <2>1 DEF Relies, Shared
  <2>4. Backed(c)
    BY <1>1, <2>1, <2>2, <2>3 DEF Backed, GrantStatuses
  <2>5. Relies([At(p, "pool_env") EXCEPT !.mem = c], c)
    BY <1>2, <2>2 DEF Relies, KeySteps, PrimarySteps, Runs
  <2> QED
    BY <1>1, <1>2, <2>1, <2>2, <2>4, <2>5, SaveBacked
<1> QED
  BY <1>3, <1>4, <1>5

\* The cloud, the user, and a run that is interrupted.
LEMMA OtherBacked ==
    ASSUME BackedInv, OnceInv',
           \/ Cloud \/ RemoveLock \/ UNCHANGED vars
           \/ \E p \in Processes : Fails(p) \/ Crash(p)
           \/ \E s \in DOMAIN sheets : UserShares(s)
    PROVE  BackedInv'
<1>1. /\ Backed(state) /\ UNCHANGED <<state, key, env, bySetup>> /\ byUser \subseteq byUser'
  BY BackedParts DEF Cloud, KeyCallRuns, KeyCallLost, KeyListed, SheetCallRuns, SheetCallLost,
     SheetFound, RemoveLock, vars, Fails, Crash, UserShares, disk, drive
<1>2. Backed(state)'
  BY <1>1 DEF Backed, Shared, NoGrant
<1>3. \A p \in Processes : run'[p].pc = "idle" \/ run'[p] = run[p]
  <2>1. UNCHANGED run \/ \E p \in Processes : run' = [run EXCEPT ![p] = Idle]
    BY DEF Cloud, KeyCallRuns, KeyCallLost, KeyListed, SheetCallRuns, SheetCallLost,
       SheetFound, RemoveLock, vars, Fails, Crash, UserShares, Ends
  <2> QED
    BY <2>1, IdleType, BackedParts DEF RunsTypeOK
<1>4. (\A p \in Processes : run[p].pc # "idle" => Relies(run[p], state))'
  BY <1>1, <1>3, BackedParts DEF Relies, Shared, NoGrant
<1> QED
  BY <1>2, <1>4 DEF BackedInv

LEMMA BackedNext == BackedInv /\ OnceInv' /\ [Next]_vars => BackedInv'
<1> SUFFICES ASSUME BackedInv, OnceInv', [Next]_vars PROVE BackedInv'
  OBVIOUS
<1>1. ASSUME NEW p \in Processes, RunStep(p) PROVE BackedInv'
  BY <1>1, StartBacked, KeyBacked, InstallBacked, SheetBacked, ShareBacked, EnsureBacked,
     EnvBacked, PoolBacked DEF RunStep, KeyStage, SheetStage
<1>2. ASSUME NEW p \in Processes, Begin(p) PROVE BackedInv'
  BY <1>2, StartBacked
<1> QED
  BY <1>1, <1>2, OtherBacked DEF Next

LEMMA BackedAlways == Spec => []BackedInv
<1>1. Init => BackedInv
  BY BackedInit
<1>2. BackedInv /\ [Next]_vars => BackedInv'
  BY BackedNext, OnceStep DEF BackedInv
<1> QED
  BY <1>1, <1>2, PTL DEF Spec

\* The .env file names the spreadsheet of the checkpoint, which the installed
\* key can read, and a pool that is there, at every moment a run may be killed:
\* the file is written after the checkpoint vouches for what it names.
THEOREM EnvFileIsBacked == Spec => []EnvIsBacked
<1>1. BackedInv => EnvIsBacked
  BY DEF BackedInv, Backed, EnvIsBacked
<1> QED
  BY <1>1, BackedAlways, PTL

-----------------------------------------------------------------------------
(* Where the key comes from.                                               *)

\* What checkpoint c says of the installed key.
Tells(c) ==
    /\ c.status = "key_create_started" => c.baseline \subseteq DOMAIN keys \ Made("primary")
    /\ c.status \notin {"none", "project_selected", "key_create_started"} =>
         (c.keyOrigin = "created") = (key["primary"] \in Made("primary"))

\* What a run makes of it when c is the checkpoint.
Reckons(r, c) ==
    /\ r.pc \in KeySteps /\ r.account = "primary" => r.names = c.baseline
    /\ r.pc \in {"cleanup", "unlink", "rmdir", "key_ready"} /\ r.account = "primary" =>
         r.reused = (key["primary"] \notin Made("primary"))

OriginInv ==
    /\ CopyInv /\ BackedInv
    /\ key["primary"] \in {0} \cup DOMAIN keys
    /\ Tells(state)
    /\ \A p \in Processes : run[p].pc # "idle" => Reckons(run[p], state)

LEMMA OriginInit == Init => OriginInv
<1> SUFFICES ASSUME Init PROVE OriginInv
  OBVIOUS
<1>1. CopyInv /\ BackedInv
  BY CopyInit, BackedInit
<1>2. key["primary"] \in {0} \cup DOMAIN keys /\ Tells(state)
  BY DEF Init, Tells, NoState, Accounts
<1>3. \A p \in Processes : run[p].pc = "idle"
  BY IdleType DEF Init
<1> QED
  BY <1>1, <1>2, <1>3 DEF OriginInv

LEMMA OriginParts ==
    ASSUME OriginInv
    PROVE  /\ CopyInv /\ BackedInv /\ OnceInv
           /\ RunsTypeOK /\ DiskTypeOK /\ IamTypeOK /\ DriveTypeOK /\ BoundsTypeOK
           /\ Admits(state) /\ Tells(state)
           /\ key["primary"] \in {0} \cup DOMAIN keys
           /\ \A p \in Processes : run[p].pc # "idle" =>
                Fits(run[p], state) /\ Relies(run[p], state) /\ Reckons(run[p], state)
           /\ \A p \in Processes : run[p] \in Runs
BY OnceParts, BackedParts DEF OriginInv, BackedInv

\* A step of the run p that makes and installs no key of the primary account.
LEMMA OriginQuiet ==
    ASSUME OriginInv, CopyInv', BackedInv', NEW p \in Processes,
           \A q \in Processes : q # p => run'[q].pc = "idle",
           Tells(state'), run'[p].pc = "idle" \/ Reckons(run'[p], state'),
           UNCHANGED keys, key'["primary"] = key["primary"]
    PROVE  OriginInv'
<1>1. Made("primary")' = Made("primary")
  BY DEF Made
<1>2. Tells(state)'
  BY <1>1 DEF Tells
<1>3. (\A q \in Processes : run[q].pc # "idle" => Reckons(run[q], state))'
  BY <1>1 DEF Reckons
<1> QED
  BY <1>1, <1>2, <1>3, OriginParts DEF OriginInv

LEMMA EndsOrigin ==
    ASSUME OriginInv, CopyInv', BackedInv', NEW p \in Processes, run[p].pc # "idle", Ends(p),
           Tells(state'), UNCHANGED <<key, keys>>
    PROVE  OriginInv'
BY OriginParts, EndsLeaves, OriginQuiet

LEMMA GoesOrigin ==
    ASSUME OriginInv, CopyInv', BackedInv', NEW p \in Processes, run[p].pc # "idle",
           NEW r, run' = [run EXCEPT ![p] = r], Reckons(r, state),
           UNCHANGED <<state, key, keys>>
    PROVE  OriginInv'
<1>1. RunsTypeOK /\ Tells(state')
  BY OriginParts
<1>2. run'[p] = r /\ \A q \in Processes : q # p => run'[q].pc = "idle"
  BY <1>1, Alone DEF RunsTypeOK
<1> QED
  BY <1>1, <1>2, OriginQuiet

LEMMA SaveOrigin ==
    ASSUME OriginInv, CopyInv', BackedInv', NEW p \in Processes, run[p].pc # "idle",
           NEW c \in Checkpoints, NEW r \in Runs, Save(p, c, r),
           Tells(c), Reckons([r EXCEPT !.mem = c], c),
           UNCHANGED <<key, keys>>
    PROVE  OriginInv'
<1>1. RunsTypeOK /\ state \in Checkpoints /\ Tells(state)
  BY OriginParts DEF DiskTypeOK
<1>2. /\ state' \in {state, c}
      /\ \A q \in Processes : q # p => run'[q].pc = "idle"
      /\ \/ run'[p].pc = "idle"
         \/ state' = c /\ run'[p] = [r EXCEPT !.mem = c]
  BY <1>1, SaveLeaves
<1>3. Tells(state')
  BY <1>1, <1>2
<1>4. run'[p].pc = "idle" \/ Reckons(run'[p], state')
  BY <1>2
<1> QED
  BY <1>2, <1>3, <1>4, OriginQuiet

\* While the project is looked for there is no key to tell apart.
LEMMA StartOrigin ==
    ASSUME OriginInv, CopyInv', BackedInv', NEW p \in Processes,
           Begin(p) \/ SelectProject(p) \/ ResumeProject(p) \/ CreateProject(p)
    PROVE  OriginInv'
<1>1. /\ RunsTypeOK /\ DiskTypeOK /\ run[p] \in Runs /\ Tells(state) /\ Admits(state)
      /\ run[p].pc # "idle" => Fits(run[p], state) /\ Reckons(run[p], state)
  BY OriginParts
<1>2. UNCHANGED <<key, keys>>
  BY DEF Begin, SelectProject, ResumeProject, CreateProject, disk, iam
<1>3. ASSUME Begin(p) PROVE OriginInv'
  <2>1. PICK named, pooled :
          run' = [run EXCEPT ![p] =
             [Idle EXCEPT !.pc = FirstStep[state.status], !.mem = state,
                          !.loaded = state.status, !.named = named, !.pooled = pooled,
                          !.names = state.baseline,
                          !.reused = /\ key["primary"] # 0
                                     /\ state.status # "key_create_started"]]
    BY <1>3 DEF Begin
  <2>2. run'[p].pc = FirstStep[state.status] /\ run'[p].names = state.baseline
    BY <1>1, <2>1 DEF RunsTypeOK, Idle
  <2>3. state.status \in Statuses /\ UNCHANGED state
    BY <1>1, <1>3 DEF DiskTypeOK, Checkpoints, Begin, disk
  <2>4. Reckons(run'[p], state)
    BY <2>2, <2>3 DEF FirstStep, Statuses, Reckons, KeySteps
  <2>5. \A q \in Processes : q # p => run'[q].pc = "idle"
    <3>1. \A q \in Processes : run[q].pc = "idle"
      BY <1>1, <1>3, SetupAssumption DEF Begin, RunsTypeOK
    <3> QED
      BY <1>1, <2>1, <3>1 DEF RunsTypeOK
  <2> QED
    BY <1>1, <1>2, <2>3, <2>4, <2>5, OriginQuiet
<1>4. run[p].pc \in {"project", "create_project"} =>
        /\ run[p].pc # "idle" /\ Made("primary") = {}
  BY <1>1 DEF Fits, Admits, NoKey
<1>5. ASSUME Made("primary") = {}, NEW step \in {"create_project", KeyStep(p)}
      PROVE  /\ At(p, step) \in Runs
             /\ Reckons(At(p, step), state)
             /\ \A c \in Checkpoints : Reckons([At(p, step) EXCEPT !.mem = c], c)
  BY <1>1, <1>5 DEF KeyStep, Reckons, At, Runs, Steps, KeySteps
<1>6. ASSUME SelectProject(p) PROVE OriginInv'
  <2>1. run[p].pc = "project" /\ run[p].named \in SUBSET Nat /\ starts \in Nat
    BY <1>1, <1>6, OriginParts DEF SelectProject, Runs, BoundsTypeOK
  <2>2. PICK id \in Nat, step \in {"create_project", KeyStep(p)} :
          Save(p, projectState(id), At(p, step))
    BY <1>6, <2>1 DEF SelectProject
  <2>3. projectState(id) \in Checkpoints /\ projectState(id).status = "project_selected"
    BY NoStateType DEF projectState, NoState, Checkpoints, Statuses, FirstStep
  <2>4. Tells(projectState(id))
    BY <2>3 DEF Tells
  <2> QED
    BY <1>2, <1>4, <1>5, <2>1, <2>2, <2>3, <2>4, SaveOrigin
<1>7. ASSUME ResumeProject(p) \/ CreateProject(p) PROVE OriginInv'
  <2>1. run[p].pc \in {"project", "create_project"} /\ UNCHANGED state
    BY <1>7 DEF ResumeProject, CreateProject, disk
  <2>2. Ends(p) \/ \E step \in {"create_project", KeyStep(p)} : Goes(p, step)
    BY <1>7 DEF ResumeProject, CreateProject
  <2> QED
    BY <1>1, <1>2, <1>4, <1>5, <2>1, <2>2, EndsOrigin, GoesOrigin DEF Goes
<1> QED
  BY <1>3, <1>6, <1>7

\* The announcement lists what was there before the first key was made.
LEMMA AnnounceOrigin ==
    ASSUME OriginInv, CopyInv', BackedInv', NEW p \in Processes, AnnounceKey(p)
    PROVE  OriginInv'
<1>1. /\ RunsTypeOK /\ IamTypeOK /\ run[p] \in Runs /\ run[p].mem \in Checkpoints
      /\ run[p].pc = "baseline" /\ Fits(run[p], state) /\ Admits(state)
  BY OriginParts, RunFields DEF AnnounceKey
<1>2. Made("primary") = {}
  BY <1>1 DEF Fits, Admits, NoKey
<1> DEFINE c == keyStartedState(run[p].mem, Seen(p))
           r == [At(p, "settle") EXCEPT !.names = Seen(p), !.mayCreate = TRUE]
<1>3. Seen(p) \in SUBSET Nat /\ Seen(p) \subseteq DOMAIN keys
  BY <1>1, SeenType DEF Seen, IamTypeOK
<1>4. c \in Checkpoints /\ c.status = "key_create_started" /\ c.baseline = Seen(p)
  BY <1>1, <1>3 DEF keyStartedState, Checkpoints, Statuses, FirstStep
<1>5. Tells(c)
  BY <1>2, <1>3, <1>4 DEF Tells
<1>6. r \in Runs /\ r.pc = "settle" /\ r.names = Seen(p)
  BY <1>1, <1>3 DEF At, Runs, Steps
<1>7. Reckons([r EXCEPT !.mem = c], c)
  <2> HIDE DEF c
  <2> QED
    BY <1>4, <1>6 DEF Reckons, Runs
<1>8. Save(p, c, r) /\ UNCHANGED <<key, keys>>
  BY DEF AnnounceKey
<1> QED
  BY <1>1, <1>4, <1>5, <1>6, <1>7, <1>8, SaveOrigin

\* A settlement of the primary account finds only keys that setup made.
LEMMA SettlementOrigin ==
    ASSUME OriginInv, CopyInv', BackedInv', NEW p \in Processes,
           installStagedKey(p) \/ FindKey(p)
    PROVE  OriginInv'
<1>1. /\ RunsTypeOK /\ DiskTypeOK /\ IamTypeOK /\ run[p] \in Runs /\ Tells(state)
      /\ run[p].pc = "settle" /\ Fits(run[p], state) /\ Reckons(run[p], state)
      /\ UNCHANGED <<state, keys>> /\ run[p].account \in Accounts
  BY OriginParts, RunFields DEF installStagedKey, FindKey, iam, disk
<1>2. Made("primary")' = Made("primary")
  BY <1>1 DEF Made
<1>3. PICK k \in Nat, b \in BOOLEAN :
        /\ k \in Seen(p)
        /\ run' = [run EXCEPT ![p] = [At(p, "cleanup") EXCEPT !.reused = b]]
        /\ b = (k \in run[p].names)
        /\ k = key'[run[p].account]
        /\ \A a \in Accounts \ {run[p].account} : key'[a] = key[a]
        /\ run[p].account = "primary" => k \in {Partial, 0} \cup Made("primary")
  <2>1. CASE installStagedKey(p)
    <3>1. (staged(p) \in run[p].names) \in BOOLEAN
      OBVIOUS
    <3>2. run[p].account = "primary" => staged(p) \in {Partial, 0} \cup Made("primary")
      BY OriginParts DEF CopyInv, Holds, staged
    <3>3. key' = [key EXCEPT ![run[p].account] = staged(p)]
      BY <2>1 DEF installStagedKey, Links
    <3>4. staged(p) \in Nat /\ staged(p) \in Seen(p)
      BY <1>1, <2>1, SeenType DEF installStagedKey
    <3>5. key'[run[p].account] = staged(p) /\ \A a \in Accounts \ {run[p].account} : key'[a] = key[a]
      BY <1>1, <3>3 DEF DiskTypeOK
    <3>6. run' = [run EXCEPT ![p] = [At(p, "cleanup") EXCEPT !.reused = (staged(p) \in run[p].names)]]
      BY <2>1 DEF installStagedKey, baselineIncludes
    <3> QED
      BY <3>1, <3>2, <3>4, <3>5, <3>6
  <2>2. CASE FindKey(p)
    <3>1. (final(p) \in run[p].names) \in BOOLEAN
      OBVIOUS
    <3>2. run[p].account = "primary" => final(p) \in {Partial, 0} \cup Made("primary")
      BY <1>1, OriginParts DEF CopyInv, Announced, final, Fits, KeySteps
    <3>3. final(p) \in Nat /\ final(p) \in Seen(p)
      BY <1>1, <2>2, SeenType DEF FindKey
    <3>4. key'[run[p].account] = final(p) /\ \A a \in Accounts \ {run[p].account} : key'[a] = key[a]
      BY <1>1, <2>2 DEF FindKey, final, disk
    <3>5. run' = [run EXCEPT ![p] = [At(p, "cleanup") EXCEPT !.reused = (final(p) \in run[p].names)]]
      BY <2>2 DEF FindKey, baselineIncludes
    <3> QED
      BY <3>1, <3>2, <3>3, <3>4, <3>5
  <2> QED
    BY <2>1, <2>2
<1>4. /\ [At(p, "cleanup") EXCEPT !.reused = b].pc = "cleanup"
      /\ [At(p, "cleanup") EXCEPT !.reused = b].reused = b
      /\ [At(p, "cleanup") EXCEPT !.reused = b].names = run[p].names
      /\ [At(p, "cleanup") EXCEPT !.reused = b].account = run[p].account
  BY <1>1 DEF At, Runs, Steps
<1>5. /\ run'[p].pc = "cleanup" /\ run'[p].reused = b /\ run'[p].names = run[p].names
      /\ run'[p].account = run[p].account
      /\ \A q \in Processes : q # p => run'[q].pc = "idle"
  BY <1>1, <1>3, <1>4, Alone DEF RunsTypeOK
<1>6. k \in DOMAIN keys /\ k \in Nat
  BY <1>1, <1>3 DEF Seen, IamTypeOK
<1>7. CASE run[p].account = "primary"
  <2>1. state.status = "key_create_started" /\ run[p].names = state.baseline
    BY <1>1, <1>7 DEF Fits, Reckons, KeySteps
  <2>2. k \in Made("primary")
    BY <1>3, <1>6, <1>7, SetupAssumption, OriginParts DEF IamTypeOK
  <2>3. b = FALSE
    BY <1>1, <1>3, <2>1, <2>2 DEF Tells
  <2>4. Tells(state)' /\ Reckons(run[p], state)'
    BY <1>1, <1>2, <1>3, <1>5, <1>7, <2>1, <2>2, <2>3 DEF Tells, Reckons
  <2> QED
    BY <1>1, <1>3, <1>5, <1>6, <1>7, <2>4 DEF OriginInv
<1>8. CASE run[p].account = "pool"
  <2>1. key'["primary"] = key["primary"]
    BY <1>3, <1>8 DEF Accounts
  <2>2. Reckons(run'[p], state')
    BY <1>5, <1>8 DEF Reckons
  <2> QED
    BY <1>1, <1>5, <2>1, <2>2, OriginQuiet
<1> QED
  BY <1>1, <1>7, <1>8 DEF Accounts

\* What a run at another step reckons is what it reckoned before.
LEMMA KeepsReckoning ==
    ASSUME NEW p \in Processes, run[p] \in Runs, NEW c, NEW d, Reckons(run[p], c), d.baseline = c.baseline,
           NEW r \in Runs, r.account = run[p].account,
           \/ r.pc \notin KeySteps \cup {"key_ready"}
           \/ /\ r.names = run[p].names /\ r.reused = run[p].reused
              /\ run[p].pc \in KeySteps
              /\ r.pc \in {"cleanup", "unlink", "rmdir", "key_ready"} =>
                   run[p].pc \in {"cleanup", "unlink", "rmdir"}
    PROVE  Reckons(r, d)
BY DEF Reckons, KeySteps

LEMMA KeyOrigin ==
    ASSUME OriginInv, CopyInv', BackedInv', NEW p \in Processes,
           RefuseKey(p) \/ CreateKey(p) \/ PollKey(p) \/ KeyCallAnswers(p)
             \/ QuarantineStage(p) \/ UnlinkStaged(p) \/ RemoveQuarantine(p)
    PROVE  OriginInv'
<1>1. RunsTypeOK /\ run[p] \in Runs /\ Tells(state)
  BY OriginParts
<1>2. run[p].pc \in KeySteps /\ run[p].pc # "idle"
  BY DEF KeySteps, RefuseKey, CreateKey, PollKey, KeyCallAnswers, QuarantineStage,
     UnlinkStaged, RemoveQuarantine
<1>3. Reckons(run[p], state)
  BY <1>2, OriginParts
<1>4. UNCHANGED <<state, key, keys>>
  BY DEF RefuseKey, CreateKey, PollKey, KeyCallAnswers, QuarantineStage,
     UnlinkStaged, RemoveQuarantine, disk, iam
<1>5. ASSUME NEW step \in KeySteps \cup {KeyDone(p)}, Goes(p, step),
             step \in {"cleanup", "unlink", "rmdir", "key_ready"} =>
               run[p].pc \in {"cleanup", "unlink", "rmdir"}
      PROVE  OriginInv'
  <2>1. /\ At(p, step) \in Runs /\ At(p, step).pc = step /\ At(p, step).account = run[p].account
        /\ At(p, step).names = run[p].names /\ At(p, step).reused = run[p].reused
    BY <1>1 DEF At, Runs, Steps, KeySteps, KeyDone
  <2>2. Reckons(At(p, step), state)
    BY <1>1, <1>2, <1>3, <1>5, <2>1, KeepsReckoning
  <2> QED
    BY <1>2, <1>4, <1>5, <2>2, GoesOrigin DEF Goes
<1>6. ASSUME Ends(p) PROVE OriginInv'
  BY <1>1, <1>2, <1>4, <1>6, EndsOrigin
<1>7. CASE RefuseKey(p)
  BY <1>6, <1>7 DEF RefuseKey
<1>8. CASE CreateKey(p)
  <2> DEFINE r == [At(p, "creating") EXCEPT !.mayCreate = FALSE]
  <2>1. /\ r \in Runs /\ r.pc = "creating" /\ r.account = run[p].account
        /\ r.names = run[p].names /\ r.reused = run[p].reused
    BY <1>1 DEF At, Runs, Steps
  <2>2. Reckons(r, state)
    <3> HIDE DEF r
    <3> QED
      BY <1>1, <1>2, <1>3, <2>1, KeepsReckoning
  <2>3. run' = [run EXCEPT ![p] = r]
    BY <1>8 DEF CreateKey
  <2> QED
    BY <1>2, <1>4, <2>2, <2>3, GoesOrigin
<1>9. CASE PollKey(p)
  <2>1. run[p].pc = "settle"
    BY <1>9 DEF PollKey
  <2>2. Reckons([run[p] EXCEPT !.checks = @ + 1], state)
    BY <1>1, <1>3, <2>1 DEF Reckons, Runs
  <2> QED
    BY <1>2, <1>4, <1>6, <1>9, <2>2, GoesOrigin DEF PollKey
<1>10. CASE KeyCallAnswers(p)
  BY <1>5, <1>10 DEF KeyCallAnswers, KeySteps
<1>11. CASE QuarantineStage(p)
  BY <1>5, <1>6, <1>11 DEF QuarantineStage, KeySteps
<1>12. CASE UnlinkStaged(p)
  BY <1>5, <1>6, <1>12 DEF UnlinkStaged, KeySteps
<1>13. CASE RemoveQuarantine(p)
  BY <1>5, <1>13 DEF RemoveQuarantine
<1> QED
  BY <1>7, <1>8, <1>9, <1>10, <1>11, <1>12, <1>13

\* key_ready records what the settlement found, and later checkpoints copy it.
LEMMA SavesOrigin ==
    ASSUME OriginInv, CopyInv', BackedInv', NEW p \in Processes,
           \/ SaveKeyReady(p) \/ AnnounceSheet(p) \/ createSpreadsheet(p)
           \/ SheetCallAnswers(p) \/ FindSheet(p) \/ AnnounceShare(p) \/ EnsureWriter(p)
           \/ SaveShared(p) \/ WriteEnv(p) \/ SaveComplete(p) \/ SharePool(p)
           \/ SavePool(p) \/ WritePoolEnv(p)
    PROVE  OriginInv'
<1> DEFINE A == \/ AnnounceSheet(p) \/ createSpreadsheet(p)
                \/ SheetCallAnswers(p) \/ FindSheet(p) \/ AnnounceShare(p) \/ EnsureWriter(p)
                \/ SaveShared(p) \/ WriteEnv(p) \/ SaveComplete(p) \/ SharePool(p)
                \/ SavePool(p) \/ WritePoolEnv(p)
<1>1. /\ RunsTypeOK /\ DiskTypeOK /\ run[p] \in Runs /\ run[p].mem \in Checkpoints
      /\ run[p].mem.sheet \in Nat /\ run[p].mem.mark \in Nat
      /\ run[p].mem.keyOrigin \in Origins /\ run[p].mem.shareOrigin \in Origins
      /\ starts \in Nat /\ sheets \in Seq(Nat) /\ found \subseteq DOMAIN sheets /\ Tells(state)
  BY OriginParts, RunFields DEF BoundsTypeOK, DriveTypeOK
<1>2. run[p].pc \in {"key_ready", "sheet", "share", "ensure", "shared", "env", "complete",
                     "pool_share", "pool_save", "pool_env"} \cup SheetSteps
  BY DEF SaveKeyReady, AnnounceSheet, createSpreadsheet, SheetCallAnswers, FindSheet,
     AnnounceShare, EnsureWriter, SaveShared, WriteEnv, SaveComplete, SharePool, SavePool,
     WritePoolEnv, SheetSteps
<1>3. run[p].pc # "idle" /\ Fits(run[p], state) /\ Relies(run[p], state) /\ Reckons(run[p], state)
  BY <1>2, OriginParts DEF SheetSteps
<1>4. UNCHANGED <<key, keys>>
  BY DEF SaveKeyReady, AnnounceSheet, createSpreadsheet, SheetCallAnswers, FindSheet,
     AnnounceShare, EnsureWriter, SaveShared, WriteEnv, SaveComplete, SharePool, SavePool,
     WritePoolEnv, disk, iam
<1> DEFINE Plain == Steps \ (KeySteps \cup {"key_ready"})
<1>5. ASSUME NEW r \in Runs, r.pc \in Plain, NEW c PROVE Reckons(r, c)
  BY <1>5 DEF Reckons, KeySteps
<1>6. ASSUME NEW c \in Checkpoints, Tells(c), NEW step \in Plain, Save(p, c, At(p, step))
      PROVE  OriginInv'
  <2>1. At(p, step) \in Runs /\ [At(p, step) EXCEPT !.mem = c] \in Runs
        /\ [At(p, step) EXCEPT !.mem = c].pc = step
    BY <1>1 DEF At, Runs
  <2> QED
    BY <1>3, <1>4, <1>5, <1>6, <2>1, SaveOrigin
<1>7. ASSUME NEW step \in Plain, Goes(p, step), UNCHANGED state PROVE OriginInv'
  <2>1. At(p, step) \in Runs /\ At(p, step).pc = step
    BY <1>1 DEF At, Runs
  <2> QED
    BY <1>3, <1>4, <1>5, <1>7, <2>1, GoesOrigin DEF Goes
<1>8. ASSUME Ends(p), Tells(state') PROVE OriginInv'
  BY <1>3, <1>4, <1>8, EndsOrigin
<1>9. \A step \in {"sheet", "create_sheet", "share", "creating_sheet", "find_sheet",
                   "find_rejected", "ensure", "shared", "env", "pool", "complete",
                   "pool_env", "pool_save"} : step \in Plain
  BY DEF Steps, KeySteps
<1>10. CASE SaveKeyReady(p)
  <2> DEFINE o == IF run[p].reused THEN "reused" ELSE "created"
             c == keyReadyState(run[p].mem, o)
  <2>1. o \in Origins /\ (o = "created" <=> ~ run[p].reused)
    BY <1>1 DEF Origins, Runs
  <2>2. c \in Checkpoints /\ c.status = "key_ready" /\ c.keyOrigin = o
    BY <1>1, <2>1 DEF keyReadyState, Checkpoints, Statuses, FirstStep
  <2>3. run[p].pc = "key_ready" /\ Save(p, c, At(p, "sheet"))
    BY <1>10 DEF SaveKeyReady
  <2>4. run[p].reused <=> key["primary"] \notin Made("primary")
    BY <1>1, <1>3, <2>3 DEF Reckons, Relies, PrimarySteps, Runs
  <2> HIDE DEF Plain, c, o
  <2>5. Tells(c)
    BY <2>1, <2>2, <2>4 DEF Tells
  <2> QED
    BY <1>6, <1>9, <2>2, <2>3, <2>5
<1>11. run[p].pc # "key_ready" => run[p].mem.keyOrigin = state.keyOrigin
  BY <1>3 DEF Relies
<1>12. A => /\ run[p].pc # "key_ready"
            /\ state.status \notin {"none", "project_selected", "key_create_started"}
  BY <1>3 DEF AnnounceSheet, createSpreadsheet, SheetCallAnswers, FindSheet,
     AnnounceShare, EnsureWriter, SaveShared, WriteEnv, SaveComplete, SharePool, SavePool,
     WritePoolEnv, Fits, Relies, SheetSteps
<1>13. ASSUME A, NEW c \in Checkpoints, c.keyOrigin = run[p].mem.keyOrigin,
              c.status # "key_create_started"
       PROVE  Tells(c)
  BY <1>1, <1>11, <1>12, <1>13 DEF Tells
<1>14. ASSUME A, NEW s \in Nat, NEW origin \in Origins,
              NEW status \in {"spreadsheet_created"} \cup GrantStatuses
       PROVE  LET c == spreadsheetState(run[p].mem, status, s, origin)
              IN  c \in Checkpoints /\ Tells(c)
  <2> DEFINE c == spreadsheetState(run[p].mem, status, s, origin)
  <2>1. c \in Checkpoints /\ c.keyOrigin = run[p].mem.keyOrigin /\ c.status # "key_create_started"
    BY <1>1 DEF spreadsheetState, Checkpoints, Statuses, FirstStep, GrantStatuses
  <2> HIDE DEF c
  <2>2. Tells(c)
    BY <1>13, <1>14, <2>1
  <2> QED
    BY <2>1, <2>2 DEF c
<1>15. ASSUME A, NEW s \in DOMAIN sheets, Save(p, createdState(p, s), At(p, "share"))
       PROVE  OriginInv'
  <2>1. s \in Nat
    BY <1>1
  <2> HIDE DEF Plain, A
  <2> QED
    BY <1>6, <1>9, <1>14, <1>15, <2>1 DEF createdState, Origins
<1>16. CASE AnnounceSheet(p)
  <2> DEFINE c == startedState(run[p].mem, starts)
  <2>1. c \in Checkpoints /\ c.keyOrigin = run[p].mem.keyOrigin /\ c.status # "key_create_started"
    BY <1>1 DEF startedState, Checkpoints, Statuses, FirstStep
  <2>2. Save(p, c, At(p, "create_sheet"))
    BY <1>16 DEF AnnounceSheet
  <2> HIDE DEF Plain, c
  <2> QED
    BY <1>6, <1>9, <1>13, <1>16, <2>1, <2>2
<1>17. CASE createSpreadsheet(p)
  <2> HIDE DEF Plain
  <2> QED
    BY <1>7, <1>9, <1>17 DEF createSpreadsheet, disk
<1>18. CASE SheetCallAnswers(p)
  <2>1. A
    BY <1>18
  <2> HIDE DEF Plain, A
  <2> QED
    BY <1>7, <1>9, <1>15, <1>18, <2>1 DEF SheetCallAnswers
<1>19. CASE FindSheet(p)
  <2>1. \/ \E s \in DOMAIN sheets : Save(p, createdState(p, s), At(p, "share"))
        \/ Ends(p) /\ state' \in {state, keyReadyState(run[p].mem, run[p].mem.keyOrigin)}
    BY <1>1, <1>19 DEF FindSheet
  <2>2. LET c == keyReadyState(run[p].mem, run[p].mem.keyOrigin)
        IN  c \in Checkpoints /\ c.keyOrigin = run[p].mem.keyOrigin /\ c.status # "key_create_started"
    BY <1>1 DEF keyReadyState, Checkpoints, Statuses, FirstStep
  <2>3. A
    BY <1>19
  <2> HIDE DEF Plain, A
  <2> QED
    BY <1>1, <1>8, <1>13, <1>15, <2>1, <2>2, <2>3
<1>20. CASE AnnounceShare(p)
  <2>1. A
    BY <1>20
  <2> HIDE DEF Plain, A
  <2> QED
    BY <1>1, <1>6, <1>9, <1>14, <1>20, <2>1 DEF AnnounceShare, Origins, GrantStatuses
<1>21. CASE EnsureWriter(p)
  <2>1. UNCHANGED state
    BY <1>21 DEF EnsureWriter, disk
  <2>2. CASE Ends(p)
    BY <1>1, <1>8, <2>1, <2>2
  <2>3. CASE ~ Ends(p)
    <3>1. PICK origin \in {"reused", "fresh"} :
            run' = [run EXCEPT ![p] = [At(p, "shared") EXCEPT !.mem.shareOrigin = origin]]
      BY <1>21, <2>3 DEF EnsureWriter
    <3>2. Reckons([At(p, "shared") EXCEPT !.mem.shareOrigin = origin], state)
      BY <1>1 DEF Reckons, At, Runs, KeySteps
    <3> QED
      BY <1>3, <1>4, <2>1, <3>1, <3>2, GoesOrigin
  <2> QED
    BY <2>2, <2>3
<1>22. CASE SaveShared(p)
  <2>1. A
    BY <1>22
  <2> HIDE DEF Plain, A
  <2> QED
    BY <1>1, <1>6, <1>9, <1>14, <1>22, <2>1 DEF SaveShared, GrantStatuses
<1>23. CASE WriteEnv(p)
  <2> HIDE DEF Plain
  <2> QED
    BY <1>7, <1>9, <1>23 DEF WriteEnv
<1>24. CASE SaveComplete(p)
  <2>1. A
    BY <1>24
  <2> HIDE DEF Plain, A
  <2> QED
    BY <1>1, <1>6, <1>9, <1>14, <1>24, <2>1 DEF SaveComplete, GrantStatuses
<1>25. CASE SharePool(p)
  <2> HIDE DEF Plain
  <2> QED
    BY <1>1, <1>7, <1>8, <1>9, <1>25 DEF SharePool, disk
<1>26. CASE SavePool(p)
  <2> DEFINE c == [run[p].mem EXCEPT !.pool = TRUE]
  <2>1. run[p].mem = state /\ state.status = "complete"
    BY <1>3, <1>26 DEF SavePool, Relies
  <2>2. c \in Checkpoints /\ c.keyOrigin = run[p].mem.keyOrigin /\ c.status # "key_create_started"
    BY <1>1, <2>1 DEF Checkpoints
  <2>3. Save(p, c, At(p, "pool_env"))
    BY <1>26 DEF SavePool
  <2> HIDE DEF Plain, c
  <2> QED
    BY <1>6, <1>9, <1>13, <1>26, <2>2, <2>3
<1>27. CASE WritePoolEnv(p)
  BY <1>1, <1>8, <1>27 DEF WritePoolEnv
<1> QED
  BY <1>10, <1>16, <1>17, <1>18, <1>19, <1>20, <1>21, <1>22, <1>23, <1>24, <1>25, <1>26, <1>27

LEMMA PoolOrigin ==
    ASSUME OriginInv, CopyInv', BackedInv', NEW p \in Processes, ExpandPool(p)
    PROVE  OriginInv'
<1>1. /\ RunsTypeOK /\ IamTypeOK /\ run[p] \in Runs /\ Tells(state)
      /\ run[p].pc = "pool" /\ UNCHANGED <<state, key, keys>>
  BY OriginParts DEF ExpandPool
<1>2. CASE Ends(p)
  BY <1>1, <1>2, EndsOrigin
<1>3. CASE Goes(p, "pool_env")
  <2>1. Reckons(At(p, "pool_env"), state)
    BY <1>1 DEF Reckons, KeySteps, At, Runs
  <2> QED
    BY <1>1, <1>3, <2>1, GoesOrigin DEF Goes
<1>4. CASE ~ Ends(p) /\ ~ Goes(p, "pool_env")
  <2>1. [At(p, "settle") EXCEPT !.account = "pool", !.checks = 0, !.mayCreate = TRUE].account = "pool"
    BY <1>1 DEF At, Runs, Steps
  <2>2. PICK names : run' = [run EXCEPT ![p] =
             [[At(p, "settle") EXCEPT !.account = "pool", !.checks = 0,
                                      !.mayCreate = TRUE] EXCEPT !.names = names]]
    BY <1>4 DEF ExpandPool
  <2> DEFINE r == [[At(p, "settle") EXCEPT !.account = "pool", !.checks = 0,
                                           !.mayCreate = TRUE] EXCEPT !.names = names]
  <2>3. r.account = "pool"
    BY <2>1 DEF At
  <2>4. Reckons(r, state)
    <3> HIDE DEF r
    <3> QED
      BY <2>3 DEF Reckons
  <2> QED
    BY <1>1, <2>2, <2>4, GoesOrigin
<1> QED
  BY <1>2, <1>3, <1>4

\* A key that appears is new: it is neither installed nor announced.
LEMMA CreationOrigin ==
    ASSUME OriginInv, CopyInv', BackedInv', NEW c \in keyCalls, KeyCallRuns(c)
    PROVE  OriginInv'
<1>1. /\ IamTypeOK /\ DiskTypeOK /\ Tells(state) /\ key["primary"] \in {0} \cup DOMAIN keys
      /\ UNCHANGED <<state, key, run>>
  BY OriginParts DEF KeyCallRuns
<1>2. PICK r \in Keys : keys' = Append(keys, r)
  <2>1. [account |-> c.account, maker |-> "setup", project |-> c.project] \in Keys
    BY <1>1 DEF IamTypeOK, Keys
  <2> QED
    BY <2>1 DEF KeyCallRuns
<1>3. /\ \A k \in DOMAIN keys : k \in DOMAIN keys' /\ keys'[k] = keys[k]
      /\ 0 \notin DOMAIN keys'
  BY <1>1, <1>2 DEF IamTypeOK
<1>4. /\ \A k \in DOMAIN keys : k \in Made("primary")' <=> k \in Made("primary")
      /\ 0 \notin Made("primary") /\ 0 \notin Made("primary")'
  BY <1>1, <1>3 DEF Made, IamTypeOK
<1>5. key["primary"] \in Made("primary")' <=> key["primary"] \in Made("primary")
  BY <1>1, <1>4
<1>6. Tells(state)'
  <2>1. state.status = "key_create_started" =>
          state.baseline \subseteq DOMAIN keys' \ Made("primary")'
    BY <1>1, <1>3, <1>4 DEF Tells
  <2>2. state.status \notin {"none", "project_selected", "key_create_started"} =>
          (state.keyOrigin = "created" <=> key["primary"] \in Made("primary")')
    BY <1>1, <1>5 DEF Tells
  <2> QED
    BY <1>1, <2>1, <2>2 DEF Tells
<1>7. (\A q \in Processes : run[q].pc # "idle" => Reckons(run[q], state))'
  <2> SUFFICES ASSUME NEW q \in Processes, run[q].pc # "idle" PROVE Reckons(run[q], state)'
    BY <1>1
  <2>1. Reckons(run[q], state)
    BY OriginParts
  <2> QED
    BY <1>1, <1>5, <2>1 DEF Reckons
<1> QED
  BY <1>1, <1>3, <1>6, <1>7 DEF OriginInv

LEMMA OtherOrigin ==
    ASSUME OriginInv, CopyInv', BackedInv',
           \/ \E c \in keyCalls : KeyCallLost(c)
           \/ \E k \in DOMAIN keys : KeyListed(k)
           \/ \E m \in sheetCalls : SheetCallRuns(m) \/ SheetCallLost(m)
           \/ \E s \in DOMAIN sheets : SheetFound(s) \/ UserShares(s)
           \/ RemoveLock \/ UNCHANGED vars
           \/ \E p \in Processes : Fails(p) \/ Crash(p)
    PROVE  OriginInv'
<1>1. /\ Tells(state) /\ UNCHANGED <<state, key, keys>>
      /\ key["primary"] \in {0} \cup DOMAIN keys
  BY OriginParts DEF KeyCallLost, KeyListed, SheetCallRuns, SheetCallLost,
     SheetFound, UserShares, RemoveLock, vars, Fails, Crash, disk, iam
<1>2. Made("primary")' = Made("primary") /\ Tells(state)'
  BY <1>1 DEF Made, Tells
<1>3. \A p \in Processes : run'[p].pc = "idle" \/ run'[p] = run[p]
  <2>1. UNCHANGED run \/ \E p \in Processes : run' = [run EXCEPT ![p] = Idle]
    BY DEF KeyCallLost, KeyListed, SheetCallRuns, SheetCallLost,
       SheetFound, UserShares, RemoveLock, vars, Fails, Crash, Ends
  <2> QED
    BY <2>1, IdleType, OriginParts DEF RunsTypeOK
<1>4. (\A p \in Processes : run[p].pc # "idle" => Reckons(run[p], state))'
  BY <1>1, <1>2, <1>3, OriginParts DEF Reckons
<1> QED
  BY <1>1, <1>2, <1>4 DEF OriginInv

LEMMA OriginNext == OriginInv /\ CopyInv' /\ BackedInv' /\ [Next]_vars => OriginInv'
<1> SUFFICES ASSUME OriginInv, CopyInv', BackedInv', [Next]_vars PROVE OriginInv'
  OBVIOUS
<1>1. ASSUME NEW p \in Processes, RunStep(p) PROVE OriginInv'
  BY <1>1, StartOrigin, AnnounceOrigin, SettlementOrigin, KeyOrigin, SavesOrigin, PoolOrigin
     DEF RunStep, KeyStage, SheetStage
<1>2. ASSUME NEW p \in Processes, Begin(p) PROVE OriginInv'
  BY <1>2, StartOrigin
<1>3. ASSUME Cloud PROVE OriginInv'
  BY <1>3, CreationOrigin, OtherOrigin DEF Cloud
<1> QED
  BY <1>1, <1>2, <1>3, OtherOrigin DEF Next

LEMMA OriginAlways == Spec => []OriginInv
<1>1. Init => OriginInv
  BY OriginInit
<1>2. OriginInv /\ [Next]_vars => OriginInv'
  BY OriginNext, CopyStep, BackedNext DEF OriginInv, CopyInv
<1> QED
  BY <1>1, <1>2, PTL DEF Spec

\* Verification waits for what this setup made and for nothing else: however
\* often the setup was resumed, the checkpoint tells a key of its own from one
\* it was given, and a grant of its own is fresh (keyOrigin and shareOrigin of
\* the checkpoint).
THEOREM FreshnessIsKept == Spec => []FreshnessKept
<1>1. OriginInv => FreshnessKept
  BY OriginParts DEF FreshnessKept, Tells, Backed, BackedInv
<1> QED
  BY <1>1, OriginAlways, PTL
=============================================================================
