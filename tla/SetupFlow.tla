----------------------------- MODULE SetupFlow ------------------------------
(***************************************************************************)
(* `hikoutei setup`: one command that creates a Google Cloud project, a    *)
(* service-account key and a spreadsheet, shares the spreadsheet with the  *)
(* service account and writes the .env file, and that may be killed        *)
(* between any two of its effects and started again by any number of       *)
(* people.  None of the remote creations can be repeated safely, so each   *)
(* is announced in the checkpoint file before it is sent, and a run that   *)
(* finds an announcement only looks for what it may have produced.         *)
(*                                                                         *)
(* The cloud is external: a call may be answered, lost, executed after its *)
(* sender gave up or died, and what it created shows up in the lists some  *)
(* time later.  The user is external too: he removes a lock directory a    *)
(* crash left behind once no run is alive, and may share the spreadsheet   *)
(* by hand.                                                                *)
(***************************************************************************)
EXTENDS Naturals, Sequences, FiniteSets

CONSTANTS
    Processes,      \* the invocations of the command that may overlap
    Nobody,         \* nobody holds the setup lock
    Partial,        \* a key file gcloud did not finish writing
    MaxChecks,      \* KEY_SETTLE_MAX_ATTEMPTS: evidence checks of one settlement
    MaxStarts,      \* bound: runs that get the lock
    MaxCrashes      \* bound: runs that are killed

ASSUME SetupAssumption ==
    /\ Nobody \notin Processes
    /\ Partial \notin Nat
    /\ MaxChecks \in Nat \ {0}
    /\ MaxStarts \in Nat
    /\ MaxCrashes \in Nat

VARIABLES
    lock,           \* the creator of the lock directory, Nobody when there is none
    state,          \* the checkpoint file
    key,            \* the installed key file of each account, 0 when absent
    stage,          \* the staging directory the latest marker of an account names
    quarantine,     \* the cleanup directory of the same marker
    env,            \* the .env file: its spreadsheet (0: no file), its pool line
    run,            \* what each invocation holds in memory
    projects,       \* the cloud projects that exist
    keys,           \* the user-managed keys, in order of creation
    listed,         \* the keys `keys list` shows by now
    keyCalls,       \* `keys create` requests that have not taken effect
    sheets,         \* the creation markers of the spreadsheets that exist, in order
    found,          \* the spreadsheets a marker query shows by now
    sheetCalls,     \* `files.create` requests that have not taken effect
    bySetup,        \* the accounts setup made writers, with the spreadsheet
    byUser,         \* the spreadsheets the user shared with the primary by hand
    starts, crashes \* counters of the bounds; starts also numbers the runs

disk == <<state, key, stage, quarantine, env>>
iam == <<projects, keys, listed, keyCalls>>
drive == <<sheets, found, sheetCalls, bySetup, byUser>>
bounds == <<starts, crashes>>
vars == <<lock, disk, run, iam, drive, bounds>>

-----------------------------------------------------------------------------
(* The checkpoint and the memory of a run.                                 *)

Accounts == {"primary", "pool"}

\* Mutant: a key that is announced is announced again.
FirstStep_Again ==
    [none |-> "project", project_selected |-> "project",
     key_create_started |-> "baseline", key_ready |-> "sheet",
     spreadsheet_create_started |-> "find_sheet", spreadsheet_created |-> "share",
     spreadsheet_share_started |-> "ensure", spreadsheet_shared |-> "env",
     complete |-> "env"]

\* Where a run that loads a checkpoint of each status takes up the work.
FirstStep ==
    [none |-> "project", project_selected |-> "project",
     key_create_started |-> "settle", key_ready |-> "sheet",
     spreadsheet_create_started |-> "find_sheet", spreadsheet_created |-> "share",
     spreadsheet_share_started |-> "ensure", spreadsheet_shared |-> "env",
     complete |-> "env"]

Statuses == DOMAIN FirstStep

Steps == {"idle", "project", "create_project", "baseline", "settle", "creating",
          "cleanup", "unlink", "rmdir", "key_ready", "sheet", "create_sheet",
          "creating_sheet", "find_sheet", "find_rejected", "share", "ensure",
          "shared", "env", "complete", "pool", "pool_share", "pool_save", "pool_env"}

Origins == {"unknown", "created", "fresh", "reused"}

NoState ==
    [status |-> "none", project |-> 0, baseline |-> {}, keyOrigin |-> "unknown",
     mark |-> 0, sheet |-> 0, shareOrigin |-> "unknown", pool |-> FALSE]

projectState(id) ==
    [NoState EXCEPT !.status = "project_selected", !.project = id]
keyStartedState(c, names) ==
    [c EXCEPT !.status = "key_create_started", !.baseline = names]
keyReadyState(c, origin) ==
    [c EXCEPT !.status = "key_ready", !.baseline = {}, !.mark = 0, !.keyOrigin = origin]
startedState(c, m) ==
    [c EXCEPT !.status = "spreadsheet_create_started", !.mark = m]
spreadsheetState(c, status, s, origin) ==
    [c EXCEPT !.status = status, !.mark = 0, !.sheet = s, !.shareOrigin = origin]

Absent == [dir |-> FALSE, file |-> 0]
Empty == [dir |-> TRUE, file |-> 0]

Idle == [pc |-> "idle", mem |-> NoState, loaded |-> "none", named |-> {},
         pooled |-> FALSE, account |-> "primary", reused |-> FALSE,
         mayCreate |-> FALSE, checks |-> 0, names |-> {}]

At(p, step) == [run[p] EXCEPT !.pc = step]
Goes(p, step) == run' = [run EXCEPT ![p] = At(p, step)]

\* Every return releases the lock, and only the directory the run created.
Ends(p) ==
    /\ run' = [run EXCEPT ![p] = Idle]
    /\ lock' = IF lock = p THEN Nobody ELSE lock

\* The checkpoint is replaced by a rename; the fsync of the directory that
\* follows can fail, and then the run reports a failure over a file that is
\* already in place.  The run goes on as r.
Save(p, c, r) ==
    \/ /\ state' = c
       /\ run' = [run EXCEPT ![p] = [r EXCEPT !.mem = c]]
       /\ UNCHANGED lock
    \/ /\ state' \in {state, c}
       /\ Ends(p)

Init ==
    /\ lock = Nobody
    /\ state = NoState
    /\ keys \in {<<>>, <<[account |-> "primary", maker |-> "user", project |-> 0]>>}
    /\ key \in [Accounts -> {0} \cup DOMAIN keys]
    /\ key["pool"] = 0
    /\ stage = [a \in Accounts |-> Absent]
    /\ quarantine = [a \in Accounts |-> Absent]
    /\ env = [sheet |-> 0, pool |-> FALSE]
    /\ run = [p \in Processes |-> Idle]
    /\ projects = {0}
    /\ listed = DOMAIN keys
    /\ keyCalls = {}
    /\ sheets = <<>>
    /\ found = {}
    /\ sheetCalls = {}
    /\ bySetup = {}
    /\ byUser = {}
    /\ starts = 0
    /\ crashes = 0

-----------------------------------------------------------------------------
(* Starting.                                                               *)

\* What a run accepts before it changes anything: an explicit project may
\* not contradict the checkpoint, and the key file must be there once the
\* checkpoint vouches for it, and belong to the project.  While a key is
\* being created the key file is left to the settlement.
Accepts(named) ==
    LET k == key["primary"] IN
    IF state.status = "none"
    THEN k # 0 => named = {keys[k].project}
    ELSE /\ named \subseteq {state.project}
         /\ state.status # "key_create_started" =>
              IF k = 0 THEN state.status = "project_selected"
                       ELSE keys[k].project = state.project

\* `hikoutei setup [--project x] [--sa-count 2]`: the lock directory is made
\* by a mkdir, which refuses whatever is there.
Begin(p) ==
    /\ run[p].pc = "idle"
    /\ lock = Nobody
    /\ starts < MaxStarts
    /\ \E named \in {{}} \cup {{x} : x \in projects \cup {state.project}}, pooled \in BOOLEAN :
        /\ Accepts(named)
        /\ run' = [run EXCEPT ![p] =
             [Idle EXCEPT !.pc = FirstStep[state.status], !.mem = state,
                          !.loaded = state.status, !.named = named, !.pooled = pooled,
                          !.names = state.baseline,
                          !.reused = /\ key["primary"] # 0
                                     /\ state.status # "key_create_started"]]
    /\ lock' = p
    /\ starts' = starts + 1
    /\ UNCHANGED <<disk, iam, drive, crashes>>

\* What follows the project phase.
KeyStep(p) == IF run[p].reused THEN "key_ready" ELSE "baseline"

\* The project is decided: the one named, which must exist, or a new id.
SelectProject(p) ==
    /\ run[p].pc = "project"
    /\ run[p].mem.status = "none"
    /\ IF run[p].named = {}
       THEN Save(p, projectState(starts), At(p, "create_project"))
       ELSE \E id \in run[p].named : Save(p, projectState(id), At(p, KeyStep(p)))
    /\ UNCHANGED <<key, stage, quarantine, env, iam, drive, bounds>>

\* A resumed run describes the project; it creates it only when it is absent
\* and this invocation did not name it.
ResumeProject(p) ==
    /\ run[p].pc = "project"
    /\ run[p].mem.status = "project_selected"
    /\ \/ run[p].mem.project \in projects /\ Goes(p, KeyStep(p)) /\ UNCHANGED lock
       \/ run[p].mem.project \notin projects /\ run[p].named = {}
            /\ Goes(p, "create_project") /\ UNCHANGED lock
       \/ run[p].mem.project \notin projects /\ run[p].named # {} /\ Ends(p)
    /\ UNCHANGED <<disk, iam, drive, bounds>>

\* `projects create`; an id that exists already counts as reused.  The
\* answer may be lost.
CreateProject(p) ==
    /\ run[p].pc = "create_project"
    /\ projects' = projects \cup {run[p].mem.project}
    /\ \/ Goes(p, KeyStep(p)) /\ UNCHANGED lock
       \/ Ends(p)
    /\ UNCHANGED <<disk, keys, listed, keyCalls, drive, bounds>>

-----------------------------------------------------------------------------
(* The key: announced, created in a private directory, installed by a hard *)
(* link, and the directory removed.  The pool account goes the same way,   *)
(* but its announcement is in memory only.                                 *)

Seen(p) == {k \in listed : /\ keys[k].account = run[p].account
                           /\ keys[k].project = run[p].mem.project}

\* A new marker names directories that do not exist; what still writes to the
\* directory of an earlier one is out of sight.
NewDirectories(a) ==
    /\ stage' = [stage EXCEPT ![a] = Absent]
    /\ quarantine' = [quarantine EXCEPT ![a] = Absent]
    /\ keyCalls' = {[c EXCEPT !.attached = c.attached /\ c.account # a] : c \in keyCalls}

\* The run that writes the announcement is the only one that may create.
AnnounceKey(p) ==
    /\ run[p].pc = "baseline"
    /\ Save(p, keyStartedState(run[p].mem, Seen(p)),
            [At(p, "settle") EXCEPT !.names = Seen(p), !.mayCreate = TRUE])
    /\ NewDirectories("primary")
    /\ UNCHANGED <<key, env, projects, keys, listed, drive, bounds>>

staged(p) == stage[run[p].account].file
final(p) == key[run[p].account]

\* The keys this machine holds a whole copy of, where the settlement looks.
Local(p) == {staged(p), final(p)} \ {0, Partial}

\* What stops a settlement at once: a key that is new and of which there is
\* no copy, two different copies, a staged file that is not a key.
Obstacle(p) ==
    \/ ~ (Seen(p) \ run[p].names \subseteq Local(p))
    \/ Cardinality(Local(p)) = 2
    \/ staged(p) = Partial

\* Mutant: a key is compared with what is listed now.
baselineIncludes_Now(p, k) == k \in Seen(p)

\* The key was there before this setup created one.
baselineIncludes(p, k) == k \in run[p].names

RefuseKey(p) ==
    /\ run[p].pc = "settle"
    /\ Obstacle(p)
    /\ Ends(p)
    /\ UNCHANGED <<disk, iam, drive, bounds>>

\* Mutant: the link is made after the cleanup.
Links_Later(p) == key' = key

\* linkSync: the staged copy stays.
Links(p) == key' = [key EXCEPT ![run[p].account] = staged(p)]

\* The staged copy of an active key is linked to the final path.
installStagedKey(p) ==
    /\ run[p].pc = "settle"
    /\ ~ Obstacle(p)
    /\ final(p) = 0
    /\ staged(p) \in Seen(p)
    /\ Links(p)
    /\ run' = [run EXCEPT ![p] = [At(p, "cleanup") EXCEPT !.reused = baselineIncludes(p, staged(p))]]
    /\ UNCHANGED <<lock, state, stage, quarantine, env, iam, drive, bounds>>

\* The installed key is active: what is left is the cleanup.
FindKey(p) ==
    /\ run[p].pc = "settle"
    /\ ~ Obstacle(p)
    /\ final(p) \in Seen(p)
    /\ run' = [run EXCEPT ![p] = [At(p, "cleanup") EXCEPT !.reused = baselineIncludes(p, final(p))]]
    /\ UNCHANGED <<lock, disk, iam, drive, bounds>>

\* Mutant: whoever finds no evidence creates.
MayCreate_Resumed(p) == Local(p) = {}

\* Only the run that wrote the announcement, and only once.
MayCreate(p) == Local(p) = {} /\ run[p].mayCreate

\* The one create, in the staging directory.
CreateKey(p) ==
    LET a == run[p].account IN
    /\ run[p].pc = "settle"
    /\ ~ Obstacle(p)
    /\ MayCreate(p)
    /\ stage' = [stage EXCEPT ![a].dir = TRUE]
    /\ keyCalls' = keyCalls \cup
         {[account |-> a, project |-> run[p].mem.project, at |-> starts, attached |-> TRUE]}
    /\ run' = [run EXCEPT ![p] = [At(p, "creating") EXCEPT !.mayCreate = FALSE]]
    /\ UNCHANGED <<lock, state, key, quarantine, env, projects, keys, listed, drive, bounds>>

\* Nothing to act on yet: a bounded number of checks, then the outcome is
\* uncertain and the announcement stays.
PollKey(p) ==
    /\ run[p].pc = "settle"
    /\ ~ Obstacle(p)
    /\ Local(p) \cap Seen(p) = {}
    /\ ~ MayCreate(p)
    /\ IF run[p].checks + 1 < MaxChecks
       THEN /\ run' = [run EXCEPT ![p].checks = @ + 1]
            /\ UNCHANGED lock
       ELSE Ends(p)
    /\ UNCHANGED <<disk, iam, drive, bounds>>

\* gcloud exits; whatever it says, the settlement looks at the evidence.  A
\* request it gave up on may still be executed, without a file.
KeyCallAnswers(p) ==
    /\ run[p].pc = "creating"
    /\ Goes(p, "settle")
    /\ keyCalls' = {[c EXCEPT !.attached = c.attached /\ c.at # starts] : c \in keyCalls}
    /\ UNCHANGED <<lock, disk, projects, keys, listed, drive, bounds>>

\* The cloud executes a request.  gcloud writes the file if it still runs,
\* and it survives the process that started it.
KeyCallRuns(c) ==
    LET k == Len(keys) + 1 IN
    /\ keys' = Append(keys, [account |-> c.account, maker |-> "setup", project |-> c.project])
    /\ keyCalls' = keyCalls \ {c}
    /\ \E f \in IF c.attached /\ stage[c.account].dir THEN {0, Partial, k} ELSE {0} :
        stage' = IF f = 0 THEN stage ELSE [stage EXCEPT ![c.account].file = f]
    /\ UNCHANGED <<lock, state, key, quarantine, env, run, projects, listed, drive, bounds>>

KeyCallLost(c) ==
    /\ keyCalls' = keyCalls \ {c}
    /\ UNCHANGED <<lock, disk, run, projects, keys, listed, drive, bounds>>

KeyListed(k) ==
    /\ listed' = listed \cup {k}
    /\ UNCHANGED <<lock, disk, run, projects, keys, keyCalls, drive, bounds>>

\* Mutant: the pool account is recorded before it is shared with.
KeyDone_Unshared(p) == IF run[p].account = "primary" THEN "key_ready" ELSE "pool_save"

KeyDone(p) == IF run[p].account = "primary" THEN "key_ready" ELSE "pool_share"

\* The staging directory is moved aside before anything in it is deleted;
\* the directory a crash left aside is taken up where it is.
QuarantineStage(p) ==
    LET a == run[p].account IN
    /\ run[p].pc = "cleanup"
    /\ \/ /\ stage[a].dir
          /\ IF quarantine[a].dir
             THEN Ends(p) /\ UNCHANGED <<stage, quarantine>>
             ELSE /\ quarantine' = [quarantine EXCEPT ![a] = stage[a]]
                  /\ stage' = [stage EXCEPT ![a] = Absent]
                  /\ Goes(p, "unlink") /\ UNCHANGED lock
       \/ /\ ~ stage[a].dir
          /\ Goes(p, IF quarantine[a].dir THEN "unlink" ELSE KeyDone(p))
          /\ UNCHANGED <<lock, stage, quarantine>>
    /\ UNCHANGED <<state, key, env, iam, drive, bounds>>

\* The staged link goes once it is seen to be the installed file.  Otherwise,
\* and when that fails, the directory is moved back.
UnlinkStaged(p) ==
    LET a == run[p].account
        f == quarantine[a].file IN
    /\ run[p].pc = "unlink"
    /\ \/ /\ f \in {0, key[a]}
          /\ quarantine' = [quarantine EXCEPT ![a] = Empty]
          /\ Goes(p, "rmdir")
          /\ UNCHANGED <<lock, stage>>
       \/ /\ f # 0
          /\ stage' = [stage EXCEPT ![a] = quarantine[a]]
          /\ quarantine' = [quarantine EXCEPT ![a] = Absent]
          /\ Ends(p)
    /\ UNCHANGED <<state, key, env, iam, drive, bounds>>

RemoveQuarantine(p) ==
    /\ run[p].pc = "rmdir"
    /\ quarantine' = [quarantine EXCEPT ![run[p].account] = Absent]
    /\ Goes(p, KeyDone(p))
    /\ UNCHANGED <<lock, state, key, stage, env, iam, drive, bounds>>

SaveKeyReady(p) ==
    /\ run[p].pc = "key_ready"
    /\ Save(p, keyReadyState(run[p].mem, IF run[p].reused THEN "reused" ELSE "created"),
            At(p, "sheet"))
    /\ UNCHANGED <<key, stage, quarantine, env, iam, drive, bounds>>

-----------------------------------------------------------------------------
(* The spreadsheet: announced with a marker, created once, found again by  *)
(* the marker when the answer was lost.                                    *)

AnnounceSheet(p) ==
    /\ run[p].pc = "sheet"
    /\ Save(p, startedState(run[p].mem, starts), At(p, "create_sheet"))
    /\ UNCHANGED <<key, stage, quarantine, env, iam, drive, bounds>>

createSpreadsheet(p) ==
    /\ run[p].pc = "create_sheet"
    /\ sheetCalls' = sheetCalls \cup {run[p].mem.mark}
    /\ Goes(p, "creating_sheet")
    /\ UNCHANGED <<lock, disk, iam, sheets, found, bySetup, byUser, bounds>>

SheetCallRuns(m) ==
    /\ sheets' = Append(sheets, m)
    /\ sheetCalls' = sheetCalls \ {m}
    /\ UNCHANGED <<lock, disk, run, iam, found, bySetup, byUser, bounds>>

SheetCallLost(m) ==
    /\ sheetCalls' = sheetCalls \ {m}
    /\ UNCHANGED <<lock, disk, run, iam, sheets, found, bySetup, byUser, bounds>>

SheetFound(s) ==
    /\ found' = found \cup {s}
    /\ UNCHANGED <<lock, disk, run, iam, sheets, sheetCalls, bySetup, byUser, bounds>>

createdState(p, s) == spreadsheetState(run[p].mem, "spreadsheet_created", s, "unknown")

\* The answer names the file, says that nothing was done (400 or 403), or
\* says nothing of use.
SheetCallAnswers(p) ==
    /\ run[p].pc = "creating_sheet"
    /\ \/ /\ \E s \in DOMAIN sheets :
                /\ sheets[s] = run[p].mem.mark
                /\ Save(p, createdState(p, s), At(p, "share"))
          /\ UNCHANGED sheetCalls
       \/ /\ run[p].mem.mark \in sheetCalls
          /\ sheetCalls' = sheetCalls \ {run[p].mem.mark}
          /\ Goes(p, "find_rejected")
          /\ UNCHANGED <<lock, state>>
       \/ /\ Goes(p, "find_sheet")
          /\ UNCHANGED <<lock, state, sheetCalls>>
    /\ UNCHANGED <<key, stage, quarantine, env, iam, sheets, found, bySetup, byUser, bounds>>

\* Mutant: an unknown outcome without a match counts as a refusal.
RollsBack_Unknown(p, matches) == matches = {}

\* Only a request that was refused before it created anything.
RollsBack(p, matches) == matches = {} /\ run[p].pc = "find_rejected"

\* settleMarkerMatches: one match is the spreadsheet; none and many leave the
\* announcement in place, so that no later run creates.
FindSheet(p) ==
    LET matches == {s \in found : sheets[s] = run[p].mem.mark} IN
    /\ run[p].pc \in {"find_sheet", "find_rejected"}
    /\ \/ /\ Cardinality(matches) = 1
          /\ \E s \in matches : Save(p, createdState(p, s), At(p, "share"))
       \/ /\ Cardinality(matches) # 1
          /\ state' \in IF RollsBack(p, matches)
                        THEN {state, keyReadyState(run[p].mem, run[p].mem.keyOrigin)}
                        ELSE {state}
          /\ Ends(p)
    /\ UNCHANGED <<key, stage, quarantine, env, iam, drive, bounds>>

-----------------------------------------------------------------------------
(* Sharing, the .env file, the pool.                                       *)

Shared(a, s) == <<a, s>> \in bySetup \/ (a = "primary" /\ s \in byUser)

AnnounceShare(p) ==
    /\ run[p].pc = "share"
    /\ Save(p, spreadsheetState(run[p].mem, "spreadsheet_share_started",
                                run[p].mem.sheet, "unknown"), At(p, "ensure"))
    /\ UNCHANGED <<key, stage, quarantine, env, iam, drive, bounds>>

\* ensureSaWriter: an existing permission is reused.  A run that loaded the
\* announcement cannot tell whose permission it is and calls it fresh.  The
\* check that follows the grant, or its answer, may fail.
EnsureWriter(p) ==
    LET s == run[p].mem.sheet
        reuse == Shared("primary", s) /\ run[p].loaded # "spreadsheet_share_started" IN
    /\ run[p].pc = "ensure"
    /\ bySetup' = IF Shared("primary", s) THEN bySetup ELSE bySetup \cup {<<"primary", s>>}
    /\ \/ /\ run' = [run EXCEPT ![p] = [At(p, "shared") EXCEPT
                !.mem.shareOrigin = IF reuse THEN "reused" ELSE "fresh"]]
          /\ UNCHANGED lock
       \/ Ends(p)
    /\ UNCHANGED <<disk, iam, sheets, found, sheetCalls, byUser, bounds>>

SaveShared(p) ==
    /\ run[p].pc = "shared"
    /\ Save(p, spreadsheetState(run[p].mem, "spreadsheet_shared", run[p].mem.sheet,
                                run[p].mem.shareOrigin), At(p, "env"))
    /\ UNCHANGED <<key, stage, quarantine, env, iam, drive, bounds>>

\* Unless the checkpoint is complete, the installed key must read the
\* spreadsheet before the file is written.  A pool line is not kept.
WriteEnv(p) ==
    /\ run[p].pc = "env"
    /\ \/ run[p].loaded = "complete"
       \/ key["primary"] # 0 /\ Shared("primary", run[p].mem.sheet)
    /\ env' = [sheet |-> run[p].mem.sheet, pool |-> FALSE]
    /\ Goes(p, IF run[p].loaded = "complete" THEN "pool" ELSE "complete")
    /\ UNCHANGED <<lock, state, key, stage, quarantine, iam, drive, bounds>>

SaveComplete(p) ==
    /\ run[p].pc = "complete"
    /\ Save(p, spreadsheetState(run[p].mem, "complete", run[p].mem.sheet,
                                run[p].mem.shareOrigin), At(p, "pool"))
    /\ UNCHANGED <<key, stage, quarantine, env, iam, drive, bounds>>

\* expandCredentialPool: an entry that is recorded is skipped; for a missing
\* one the run lists the keys, takes a marker and may create.
ExpandPool(p) ==
    /\ run[p].pc = "pool"
    /\ \/ ~ run[p].pooled /\ Ends(p) /\ UNCHANGED <<stage, quarantine, keyCalls>>
       \/ /\ run[p].pooled /\ state.pool
          /\ Goes(p, "pool_env")
          /\ UNCHANGED <<lock, stage, quarantine, keyCalls>>
       \/ /\ run[p].pooled /\ ~ state.pool
          /\ LET r == [At(p, "settle") EXCEPT !.account = "pool", !.checks = 0,
                                              !.mayCreate = TRUE]
             IN  run' = [run EXCEPT ![p] = [r EXCEPT !.names =
                   {k \in listed : /\ keys[k].account = "pool"
                                   /\ keys[k].project = r.mem.project}]]
          /\ NewDirectories("pool")
          /\ UNCHANGED lock
    /\ UNCHANGED <<state, key, env, projects, keys, listed, drive, bounds>>

SharePool(p) ==
    /\ run[p].pc = "pool_share"
    /\ bySetup' = bySetup \cup {<<"pool", run[p].mem.sheet>>}
    /\ \/ Goes(p, "pool_save") /\ UNCHANGED lock
       \/ Ends(p)
    /\ UNCHANGED <<disk, iam, sheets, found, sheetCalls, byUser, bounds>>

SavePool(p) ==
    /\ run[p].pc = "pool_save"
    /\ key["pool"] # 0
    /\ Save(p, [run[p].mem EXCEPT !.pool = TRUE], At(p, "pool_env"))
    /\ UNCHANGED <<key, stage, quarantine, env, iam, drive, bounds>>

WritePoolEnv(p) ==
    /\ run[p].pc = "pool_env"
    /\ env' = [sheet |-> run[p].mem.sheet, pool |-> TRUE]
    /\ Ends(p)
    /\ UNCHANGED <<state, key, stage, quarantine, iam, drive, bounds>>

-----------------------------------------------------------------------------
(* Failures, the user, the specification.                                  *)

\* Any other call of a run may fail without effect: the run returns.
Fails(p) ==
    /\ run[p].pc \notin {"idle", "creating", "creating_sheet"}
    /\ Ends(p)
    /\ UNCHANGED <<disk, iam, drive, bounds>>

\* A killed run leaves the lock, and the gcloud process it started.
Crash(p) ==
    /\ run[p].pc # "idle"
    /\ crashes < MaxCrashes
    /\ crashes' = crashes + 1
    /\ run' = [run EXCEPT ![p] = Idle]
    /\ UNCHANGED <<lock, disk, iam, drive, starts>>

\* The user does what the message of a busy lock tells him.
RemoveLock ==
    /\ lock # Nobody
    /\ \A p \in Processes : run[p].pc = "idle"
    /\ lock' = Nobody
    /\ UNCHANGED <<disk, run, iam, drive, bounds>>

UserShares(s) ==
    /\ ~ Shared("primary", s)
    /\ byUser' = byUser \cup {s}
    /\ UNCHANGED <<lock, disk, run, iam, sheets, found, sheetCalls, bySetup, bounds>>

KeyStage(p) ==
    \/ AnnounceKey(p) \/ RefuseKey(p) \/ installStagedKey(p) \/ FindKey(p)
    \/ CreateKey(p) \/ PollKey(p) \/ KeyCallAnswers(p) \/ QuarantineStage(p)
    \/ UnlinkStaged(p) \/ RemoveQuarantine(p) \/ SaveKeyReady(p)

SheetStage(p) ==
    \/ AnnounceSheet(p) \/ createSpreadsheet(p) \/ SheetCallAnswers(p) \/ FindSheet(p)
    \/ AnnounceShare(p) \/ EnsureWriter(p) \/ SaveShared(p) \/ WriteEnv(p)
    \/ SaveComplete(p) \/ ExpandPool(p) \/ SharePool(p) \/ SavePool(p)
    \/ WritePoolEnv(p)

\* A step of a run that is going on.
RunStep(p) ==
    \/ SelectProject(p) \/ ResumeProject(p) \/ CreateProject(p)
    \/ KeyStage(p) \/ SheetStage(p)

Cloud ==
    \/ \E c \in keyCalls : KeyCallRuns(c) \/ KeyCallLost(c)
    \/ \E k \in DOMAIN keys \ listed : KeyListed(k)
    \/ \E m \in sheetCalls : SheetCallRuns(m) \/ SheetCallLost(m)
    \/ \E s \in DOMAIN sheets \ found : SheetFound(s)

Next ==
    \/ \E p \in Processes : Begin(p) \/ RunStep(p) \/ Fails(p) \/ Crash(p)
    \/ Cloud
    \/ RemoveLock
    \/ \E s \in DOMAIN sheets : UserShares(s)

Spec == Init /\ [][Next]_vars

-----------------------------------------------------------------------------
(* Properties.                                                             *)

Made(a) == {k \in DOMAIN keys : keys[k].account = a /\ keys[k].maker = "setup"}

Checkpoints ==
    [status : Statuses, project : Nat, baseline : SUBSET Nat, keyOrigin : Origins,
     mark : Nat, sheet : Nat, shareOrigin : Origins, pool : BOOLEAN]

Runs ==
    [pc : Steps, mem : Checkpoints, loaded : Statuses, named : SUBSET Nat,
     pooled : BOOLEAN, account : Accounts, reused : BOOLEAN, mayCreate : BOOLEAN,
     checks : Nat, names : SUBSET Nat]

Dirs == [dir : BOOLEAN, file : Nat \cup {Partial}]

\* Types; and the run that is going on, if any, is the one that made the lock
\* directory, so that there is never a second one.
SetupTypeOK ==
    /\ lock \in Processes \cup {Nobody}
    /\ state \in Checkpoints
    /\ key \in [Accounts -> Nat]
    /\ stage \in [Accounts -> Dirs] /\ quarantine \in [Accounts -> Dirs]
    /\ env \in [sheet : Nat, pool : BOOLEAN]
    /\ run \in [Processes -> Runs]
    /\ projects \subseteq Nat
    /\ keys \in Seq([account : Accounts, maker : {"user", "setup"}, project : Nat])
    /\ listed \subseteq DOMAIN keys
    /\ keyCalls \subseteq [account : Accounts, project : Nat, at : Nat, attached : BOOLEAN]
    /\ sheets \in Seq(Nat)
    /\ found \subseteq DOMAIN sheets
    /\ sheetCalls \subseteq Nat
    /\ bySetup \subseteq Accounts \X Nat
    /\ byUser \subseteq Nat
    /\ starts \in Nat /\ crashes \in Nat
    /\ \A p \in Processes : run[p].pc # "idle" => lock = p

\* However often setup is killed and started again, and however late a
\* request is executed, one checkpoint creates at most one key for the
\* primary account: "a resume never creates" (settleServiceAccountKey).
KeyCreatedOnce == \A j, k \in Made("primary") : j = k

\* And at most one spreadsheet and one project: the marker is recorded before
\* the request, an unknown outcome is only looked for, and only a request
\* that was refused goes back to key_ready.
SpreadsheetCreatedOnce ==
    /\ \A s, t \in DOMAIN sheets : s = t
    /\ \A x, y \in projects \ {0} : x = y

\* A whole copy of the primary's key that a resumed settlement would find is
\* never removed or moved out of its sight: install, quarantine, unlink and a
\* crash between any two of them leave the key where it looks.
InReach(k) == k \in {key["primary"], stage["primary"].file}
CopyStaysInReach == [][\A k \in DOMAIN keys : InReach(k) => InReach(k)']_vars

\* While a key is announced, a whole copy of it on this machine is found, and
\* nothing on the disk makes the settlement refuse it: the run that finds the
\* key listed goes on to key_ready.
CrashStrandsNoKey ==
    \A k \in Made("primary") :
        /\ state.status = "key_create_started"
        /\ k \in {key["primary"], stage["primary"].file, quarantine["primary"].file}
        => /\ InReach(k)
           /\ {key["primary"], stage["primary"].file} \subseteq {0, k}
           /\ ~ (stage["primary"].dir /\ quarantine["primary"].dir)

\* Whatever run finishes the work, verification knows what it must wait for:
\* keyOrigin tells a key this setup created from one it was given, and a
\* permission this setup granted is called fresh.
FreshnessKept ==
    /\ state.status \notin {"none", "project_selected", "key_create_started"} =>
         (state.keyOrigin = "created") = (key["primary"] \in Made("primary"))
    /\ /\ state.status \in {"spreadsheet_shared", "complete"}
       /\ <<"primary", state.sheet>> \in bySetup
       => state.shareOrigin = "fresh"

\* The .env file names the spreadsheet of the checkpoint, which the installed
\* key can read, and a pool only when its key and its permission are there.
EnvIsBacked ==
    env.sheet # 0 =>
        /\ state.status \in {"spreadsheet_shared", "complete"}
        /\ env.sheet = state.sheet
        /\ key["primary"] # 0 /\ Shared("primary", env.sheet)
        /\ env.pool => state.pool /\ key["pool"] # 0 /\ Shared("pool", env.sheet)

\* What setupFlow.ts:1777-1780 says of the pool: a crash leaves an orphaned key
\* that the retry "treats as baseline (fails uncertain, never duplicates
\* silently)".
PoolKeyCreatedOnce == \A j, k \in Made("pool") : j = k
=============================================================================
