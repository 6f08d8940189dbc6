-------------------------- MODULE LocalProvisioning --------------------------
(* The desktop's screen that sets up a local server                            *)
(* (components/server-connection.tsx and local-server-provisioning.tsx): it    *)
(* saves the answers of a questionnaire, has the native runtime start          *)
(* PostgreSQL, the backend and perhaps the web interface, and meanwhile reads  *)
(* the runtime's snapshot four times a second to show which steps are          *)
(* complete.  The runtime is a sequential command that stops at its first      *)
(* error, takes back what it started, and leaves a snapshot; the screen has    *)
(* nothing but snapshots, and infers from them how far it came.                *)
(*                                                                             *)
(* done, failedAt and the set forgiven are history: the parts the runtime     *)
(* finished since the questionnaire was sent, where its last attempt failed,   *)
(* and what explains a step that is shown complete and is not.                 *)
EXTENDS Naturals, Sequences, SequencesExt

CONSTANTS
  MaxAttempts,  \* bound: attempts to provision
  MaxLoads,     \* bound: reads of the settings
  MaxPolls      \* bound: reads of the snapshot under way at a time

VARIABLES
  localRuntime,   \* the native snapshot: its status and what is known of each part
  attempt,   \* the command that runs, the webEnabled it was called with, the parts it started
  config,    \* webEnabled as the native side has saved it
  screen,    \* the questionnaire, the steps, or the application behind them
  steps,     \* reached stage, error of the steps, and the error of the web interface
  settings,  \* localSettings: webEnabled as the screen knows it, or Unknown
  loads,     \* what reads of the settings under way found
  polls,     \* snapshots read and not yet shown, in the order of the reads
  budget, done, failedAt, forgiven

provisioningVars == <<localRuntime, attempt, config, screen, steps, settings, loads, polls,
                      budget, done, failedAt, forgiven>>

STAGES == <<"prepare", "postgresqlRuntime", "database", "backend", "web", "connect">>
Index(s) == CHOOSE i \in DOMAIN STAGES : STAGES[i] = s

Unknown == "unknown"
Resting == [at |-> "none", web |-> "off", started |-> {}]
Opened == [reached |-> "prepare", webError |-> FALSE, error |-> FALSE]

\* The snapshot, without versions, ports, paths and messages.
LocalRuntimeSnapshot ==
  [status : {"disabled", "preparing", "installing", "stopped", "startingDatabase", "databaseReady",
             "startingBackend", "startingWeb", "ready", "failed"},
   pg : {"none", "installed", "running"},
   backend : {"none", "installed", "running"},
   web : {"none", "installed", "running", "error"}]

-----------------------------------------------------------------------------
(* What a snapshot is taken to mean: the first part that does not run, where   *)
(* the status does not name the stage.                                         *)

\* A bug to be found: a part that is installed is taken for one that runs.
inferIncompleteStageByFiles(s, webEnabled) ==
  IF s.pg = "none" THEN "postgresqlRuntime"
  ELSE IF s.backend = "none" THEN "backend"
  ELSE IF webEnabled /\ s.web \notin {"running", "error"} THEN "web"
  ELSE "connect"

inferIncompleteStage(s, webEnabled) ==
  IF s.pg = "none" THEN "postgresqlRuntime"
  ELSE IF s.pg = "installed" THEN "database"
  ELSE IF s.backend # "running" THEN "backend"
  ELSE IF webEnabled /\ s.web \notin {"running", "error"} THEN "web"
  ELSE "connect"

\* While something is installed the parts tell which; the other statuses name
\* their stage.
getLocalProvisioningStage(s, webEnabled) ==
  CASE s.status = "installing" ->
         IF s.pg = "none" THEN "postgresqlRuntime"
         ELSE IF s.pg = "running" /\ s.backend = "none" THEN "backend"
         ELSE inferIncompleteStage(s, webEnabled)
    [] s.status = "failed" -> inferIncompleteStage(s, webEnabled)
    [] s.status \in {"startingDatabase", "databaseReady"} -> "database"
    [] s.status = "startingBackend" -> "backend"
    [] s.status = "startingWeb" -> "web"
    [] s.status = "ready" -> "connect"
    [] OTHER -> "prepare"

advanceLocalProvisioningStage(current, next) == IF Index(next) > Index(current) THEN next ELSE current

Shows(old, snapshot, webEnabled) ==
  [old EXCEPT !.webError = snapshot.web = "error",
              !.reached = advanceLocalProvisioningStage(@, getLocalProvisioningStage(snapshot, webEnabled))]

\* buildSteps: what is shown of a stage.
stateFor(stage) ==
  IF stage = "web" /\ settings # "on" THEN "skipped"
  ELSE IF stage = "web" /\ steps.webError THEN "warning"
  ELSE IF Index(stage) < Index(steps.reached) THEN "complete"
  ELSE IF Index(stage) > Index(steps.reached) THEN "pending"
  ELSE IF steps.error THEN "failed" ELSE "active"

-----------------------------------------------------------------------------
(* The native runtime: start_local_runtime_attempt, one step per status. *)

Up(part) == part = "running"
step(at, s) == attempt' = [attempt EXCEPT !.at = at] /\ localRuntime' = s
finishes(stages) == done' = done \cup stages
NativeFrame == UNCHANGED <<config, screen, steps, settings, loads, polls, budget, failedAt>>

\* The command has the operation lock.
Begin ==
  /\ attempt.at = "called"
  /\ step("prepare", [localRuntime EXCEPT !.status = "preparing"])
  /\ UNCHANGED <<done, forgiven>> /\ NativeFrame

\* prepare_foundation inspects the parts; what is not up is this attempt's to
\* start, and to stop again.
Prepare ==
  LET seen == [localRuntime EXCEPT !.web = IF @ \in {"running", "error"} THEN "installed" ELSE @]
  IN /\ attempt.at = "prepare"
     /\ localRuntime' = [seen EXCEPT !.status = IF seen.pg = "none" THEN "installing" ELSE "startingDatabase"]
     /\ attempt' = [attempt EXCEPT !.at = "database",
                                   !.started = {p \in {"pg", "backend"} : ~Up(seen[p])}]
     /\ finishes({"prepare"} \cup (IF seen.pg = "none" THEN {} ELSE {"postgresqlRuntime"}))
     /\ UNCHANGED forgiven /\ NativeFrame

InstallPostgresql ==
  /\ attempt.at = "database" /\ localRuntime.status = "installing"
  /\ step("database", [localRuntime EXCEPT !.pg = "installed", !.status = "startingDatabase"])
  /\ finishes({"postgresqlRuntime"})
  /\ UNCHANGED forgiven /\ NativeFrame

StartPostgresql ==
  /\ attempt.at = "database" /\ localRuntime.status = "startingDatabase"
  /\ step("backend", [localRuntime EXCEPT !.pg = "running", !.status = "databaseReady"])
  /\ finishes({"database"})
  /\ UNCHANGED forgiven /\ NativeFrame

\* The backend's binary is installed if it is not, and started.
StartingBackend ==
  /\ attempt.at = "backend" /\ localRuntime.status \in {"databaseReady", "installing"}
  /\ step("backend", [localRuntime EXCEPT !.status =
              IF @ = "databaseReady" /\ localRuntime.backend = "none" THEN "installing"
              ELSE "startingBackend"])
  /\ UNCHANGED <<done, forgiven>> /\ NativeFrame

StartBackend ==
  /\ attempt.at = "backend" /\ localRuntime.status = "startingBackend"
  /\ step("connect", [localRuntime EXCEPT !.backend = "running"])
  /\ finishes({"backend"})
  /\ UNCHANGED forgiven /\ NativeFrame

\* The native client connects; the web interface follows where it is enabled.
ConnectClient ==
  /\ attempt.at = "connect"
  /\ IF config = "on"
     THEN /\ attempt' = [attempt EXCEPT !.at = "web", !.started = @ \cup {"web"}]
          /\ localRuntime' = [localRuntime EXCEPT !.status =
                                IF localRuntime.web = "none" THEN "installing" ELSE "startingWeb"]
     ELSE step("finish", localRuntime)
  /\ UNCHANGED <<done, forgiven>> /\ NativeFrame

\* An error of the web interface is kept in its snapshot and fails nothing.
StartWeb ==
  /\ attempt.at = "web"
  /\ \/ localRuntime.status = "installing" /\ step("web", [localRuntime EXCEPT !.status = "startingWeb"])
     \/ \E web \in {"running", "error"} :
          /\ web = "running" => localRuntime.status = "startingWeb"
          /\ step("finish", [localRuntime EXCEPT !.web = web])
  /\ UNCHANGED <<done, forgiven>> /\ NativeFrame

Finish ==
  /\ attempt.at = "finish"
  /\ step("succeeded", [localRuntime EXCEPT !.status = "ready"])
  /\ finishes({"web"})
  /\ UNCHANGED forgiven /\ NativeFrame

\* A step fails: rollback_failed_start stops what the attempt started.  It
\* leaves the web interface's part of the snapshot alone.
Fail ==
  /\ attempt.at \in {"prepare", "database", "backend", "connect", "finish"}
  /\ attempt' = [attempt EXCEPT !.at = "rollback"]
  /\ failedAt' = CASE attempt.at = "database" /\ localRuntime.pg = "none" -> "postgresqlRuntime"
                   [] attempt.at = "finish" -> "connect"
                   [] OTHER -> attempt.at
  /\ forgiven' = forgiven \cup (IF attempt.at = "prepare" THEN {"unprepared"} ELSE {})
  /\ UNCHANGED <<localRuntime, config, screen, steps, settings, loads, polls, budget, done>>

Stopped(parts) ==
  [localRuntime EXCEPT !.pg = IF "pg" \in parts /\ Up(@) THEN "installed" ELSE @,
                  !.backend = IF "backend" \in parts /\ Up(@) THEN "installed" ELSE @,
                  !.status = IF "pg" \in parts THEN "stopped" ELSE @]

Rollback ==
  /\ attempt.at = "rollback" /\ attempt.started # {}
  /\ attempt' = [attempt EXCEPT !.started = {}]
  /\ localRuntime' = Stopped(attempt.started)
  /\ UNCHANGED <<done, forgiven>> /\ NativeFrame

Failed ==
  /\ attempt.at = "rollback" /\ attempt.started = {}
  /\ step("failed", [localRuntime EXCEPT !.status = "failed"])
  /\ UNCHANGED <<done, forgiven>> /\ NativeFrame

\* stop_local_runtime, for a server whose setup status cannot be read.
Stop ==
  /\ attempt.at = "stopping"
  /\ step("failed", [Stopped({"pg", "backend"}) EXCEPT !.web = IF @ = "none" THEN "none" ELSE "installed"])
  /\ UNCHANGED <<done, forgiven>> /\ NativeFrame

-----------------------------------------------------------------------------
(* The screen. *)

Connecting == attempt.at # "none"

\* The effect on localSettings and mode: each time Local is chosen without
\* settings, they are read.
loadSettings ==
  /\ settings = Unknown /\ screen = "form" /\ budget.loads < MaxLoads
  /\ loads' = loads \cup {config}
  /\ budget' = [budget EXCEPT !.loads = @ + 1]
  /\ UNCHANGED <<localRuntime, attempt, config, screen, steps, settings, polls, done, failedAt, forgiven>>

\* A read that is answered after the questionnaire was sent puts what it found
\* over what was saved.
settingsLoaded(l) ==
  /\ loads' = loads \ {l}
  /\ settings' = l
  \* Another webEnabled is another effect: reads of the old one are dropped.
  /\ polls' = IF l = settings THEN polls ELSE <<>>
  /\ forgiven' = forgiven \cup (IF screen # "form" /\ l # config THEN {"reread"} ELSE {})
  /\ UNCHANGED <<localRuntime, attempt, config, screen, steps, budget, done, failedAt>>

\* The questionnaire is there once the settings are, and sends its answers once.
Questionnaire == screen = "form" /\ settings # Unknown /\ ~Connecting

\* connectLocal: the answers are saved, the steps start over, and the runtime
\* is called.
connectLocal(web) ==
  /\ Questionnaire /\ budget.attempts < MaxAttempts
  /\ config' = web /\ settings' = web
  /\ screen' = "steps" /\ steps' = Opened
  /\ attempt' = [Resting EXCEPT !.at = "called", !.web = web]
  /\ budget' = [budget EXCEPT !.attempts = @ + 1]
  /\ done' = {} /\ failedAt' = Unknown
  /\ forgiven' = {} /\ polls' = <<>>
  /\ UNCHANGED <<localRuntime, loads>>

\* The questionnaire cannot be saved.
saveFails ==
  /\ Questionnaire /\ localRuntime.status # "failed"
  /\ localRuntime' = [localRuntime EXCEPT !.status = "failed"]
  /\ UNCHANGED <<attempt, config, screen, steps, settings, loads, polls, budget, done, failedAt, forgiven>>

\* provisionLocal once more: the reached stage stays what it was.
retry ==
  /\ screen = "steps" /\ ~Connecting /\ budget.attempts < MaxAttempts
  /\ attempt' = [Resting EXCEPT !.at = "called", !.web = settings]
  /\ steps' = [steps EXCEPT !.error = FALSE]
  /\ budget' = [budget EXCEPT !.attempts = @ + 1]
  /\ forgiven' = forgiven \cup {"retried"}
  /\ UNCHANGED <<localRuntime, config, screen, settings, loads, polls, done, failedAt>>

\* Every 250 ms the snapshot is read.  A read can come before the command does.
\* (A second read of a snapshot that is already on its way changes nothing.)
poll ==
  /\ screen = "steps" /\ Connecting /\ Len(polls) < MaxPolls
  /\ \A i \in DOMAIN polls : polls[i].snapshot # localRuntime
  /\ polls' = Append(polls, [snapshot |-> localRuntime, late |-> FALSE])
  /\ forgiven' = forgiven \cup (IF attempt.at = "called" THEN {"early"} ELSE {})
  /\ UNCHANGED <<localRuntime, attempt, config, screen, steps, settings, loads, budget, done, failedAt>>

\* The reads are answered in any order, and the last answer is shown.
polled(i) ==
  /\ polls' = RemoveAt([j \in DOMAIN polls |-> [polls[j] EXCEPT !.late = @ \/ j < i]], i)
  /\ steps' = Shows(steps, polls[i].snapshot, settings = "on")
  /\ forgiven' = forgiven \cup (IF polls[i].late THEN {"overtaken"} ELSE {})
  /\ UNCHANGED <<localRuntime, attempt, config, screen, settings, loads, budget, done, failedAt>>

\* The command ended well; then the setup status is asked for.
runtimeConnected ==
  /\ attempt.at = "succeeded"
  /\ screen' = "connected" /\ attempt' = Resting /\ polls' = <<>>
  /\ UNCHANGED <<localRuntime, config, steps, settings, loads, budget, done, failedAt, forgiven>>

statusUnknown ==
  /\ attempt.at = "succeeded"
  /\ attempt' = [attempt EXCEPT !.at = "stopping"] /\ failedAt' = "connect"
  /\ UNCHANGED <<localRuntime, config, screen, steps, settings, loads, polls, budget, done, forgiven>>

\* The command failed: the snapshot is read a last time, and the buttons return.
provisioningFailed ==
  /\ attempt.at = "failed"
  /\ steps' = [Shows(steps, localRuntime, attempt.web = "on") EXCEPT !.error = TRUE]
  /\ attempt' = Resting /\ polls' = <<>>
  /\ UNCHANGED <<localRuntime, config, screen, settings, loads, budget, done, failedAt, forgiven>>

backToLocalSetup ==
  /\ screen = "steps" /\ ~Connecting /\ budget.loads < MaxLoads
  /\ screen' = "form" /\ steps' = Opened
  /\ loads' = loads \cup {config}
  /\ budget' = [budget EXCEPT !.loads = @ + 1]
  /\ done' = {} /\ failedAt' = Unknown /\ forgiven' = {}
  /\ UNCHANGED <<localRuntime, attempt, config, settings, polls>>

-----------------------------------------------------------------------------
ProvisioningInit ==
  /\ \E status \in {"disabled", "stopped", "failed"}, pg, backend \in {"none", "installed"} :
       /\ localRuntime = [status |-> status, pg |-> pg, backend |-> backend, web |-> "none"]
       /\ status = "disabled" => pg = "none" /\ backend = "none"
       /\ pg = "none" => backend = "none"
  /\ attempt = Resting /\ config = "off"
  /\ screen = "form" /\ steps = Opened /\ settings = Unknown
  /\ loads = {} /\ polls = <<>> /\ budget = [loads |-> 0, attempts |-> 0]
  /\ done = {} /\ failedAt = Unknown /\ forgiven = {}

ProvisioningNext ==
  \/ Begin \/ Prepare \/ InstallPostgresql \/ StartPostgresql \/ StartingBackend \/ StartBackend
  \/ ConnectClient \/ StartWeb \/ Finish \/ Fail \/ Rollback \/ Failed \/ Stop
  \/ loadSettings \/ \E l \in loads : settingsLoaded(l)
  \/ \E web \in {"on", "off"} : connectLocal(web)
  \/ saveFails \/ retry \/ poll \/ \E i \in DOMAIN polls : polled(i)
  \/ runtimeConnected \/ statusUnknown \/ provisioningFailed \/ backToLocalSetup

ProvisioningSpec == ProvisioningInit /\ [][ProvisioningNext]_provisioningVars

-----------------------------------------------------------------------------
\* A step that is shown complete is: the runtime finished that part since the
\* questionnaire was sent, although the screen sees only some snapshots, in any
\* order, and they name a stage by what is missing.  (A retry forgets that the
\* web interface had failed.)
CompleteIsDone ==
  screen = "steps" /\ forgiven \subseteq {"retried"} =>
    \A s \in ToSet(STAGES) :
      stateFor(s) = "complete" /\ (s = "web" => forgiven = {}) => s \in done

\* The step shown as failed is not one after the step that failed, unless an
\* earlier attempt came further.
FailureIsNotAhead ==
  screen = "steps" /\ steps.error /\ forgiven = {} => Index(steps.reached) <= Index(failedAt)

\* The buttons return only when the runtime rests, and the application opens
\* only on a runtime that is ready.
RetryMeetsNoAttempt ==
  /\ localRuntime \in LocalRuntimeSnapshot
  /\ steps.error => attempt = Resting /\ polls = <<>>
  /\ screen = "connected" =>
       localRuntime.status = "ready" /\ Up(localRuntime.pg) /\ Up(localRuntime.backend)

\* A reread setting apart, a step is skipped exactly when the runtime skips it.
SkippedIsDisabled == screen = "steps" /\ "reread" \notin forgiven => settings = config

StepsAreTrue == CompleteIsDone /\ FailureIsNotAhead /\ RetryMeetsNoAttempt /\ SkippedIsDisabled
=============================================================================
