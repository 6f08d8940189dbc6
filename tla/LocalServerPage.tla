--------------------------- MODULE LocalServerPage ---------------------------
(* The settings page of the local server                                       *)
(* (features/settings/local-server/ui/local-server-page.tsx): it shows the     *)
(* saved settings and a snapshot of the runtime, saves the settings, restarts  *)
(* the runtime, and exports and imports the database.  Each of these is a      *)
(* function that awaits one native command after the other, guarded by a flag  *)
(* of its own, so that different ones overlap.  The native side runs one       *)
(* command at a time, and the answers come in any order.  The data directory   *)
(* is compatible with the application; otherwise every action is disabled.     *)
(*                                                                             *)
(* What the page is about is counted: how often the settings were saved, and   *)
(* how often what runs has changed.  A snapshot shows both.                    *)
EXTENDS Integers, FiniteSets

CONSTANTS
  MaxChanges,  \* bound: changes of the settings, and of what runs
  MaxOverlap   \* bound: functions under way at a time

VARIABLES
  server,          \* external: the saved settings and what runs
  page,            \* the settings and the runtime that are shown, or NotRead
  flow,            \* the functions: which command each awaits, and its answer
  databaseAction,  \* the flag of the two database functions
  pardoned         \* history: what explains a page that is behind

pageVars == <<server, page, flow, databaseAction, pardoned>>

Flows == {"refresh", "save", "restart", "export", "import"}
Database == {"export", "import"}
NotRead == [settings |-> -1, runs |-> -1]
AtRest == [at |-> "rest", answer |-> NotRead, outcome |-> "none"]


\* The function awaits the command, and has its answer.
Answered(f, at, outcomes) == flow[f].at = at /\ flow[f].outcome \in outcomes
Loaded == page.settings # NotRead.settings
Running(f) == flow[f].at \notin {"rest", "dialog"}

\* The buttons of the tabs: each is disabled while its own function runs, the
\* two of the database together, and an export needs a database that is shown.
LocalServerConfiguration == Loaded /\ flow["save"] = AtRest
LocalServerRuntime == Loaded /\ flow["restart"] = AtRest
LocalServerDatabase(f) ==
  /\ Loaded /\ flow[f] = AtRest /\ databaseAction = "none"
  /\ f = "export" => page.runtime # NotRead
Bounded == Cardinality({f \in Flows : flow[f] # AtRest}) < MaxOverlap

awaits(f, at) == flow' = [flow EXCEPT ![f] = [AtRest EXCEPT !.at = at]]

-----------------------------------------------------------------------------
(* The native commands. *)

\* What the first command of a function does, if it succeeds and if it fails: a
\* restart that fails has stopped the runtime, a save that fails marks it.
Effects(f, failed) ==
  CASE f = "save" /\ ~failed -> [server EXCEPT !.settings = @ + 1]
    [] f = "save" /\ failed -> [server EXCEPT !.runs = @ + 1]
    [] f \in {"restart", "import"} -> [server EXCEPT !.runs = @ + 1]
    [] OTHER -> server

\* The command gets the lock of the runtime, runs and answers.
execute(f) ==
  /\ flow[f].at \in {"first", "second", "recover"} /\ flow[f].outcome = "none"
  /\ \E outcome \in {"done", "failed"} :
       /\ server' = IF flow[f].at = "first" THEN Effects(f, outcome = "failed") ELSE server
       /\ flow' = [flow EXCEPT ![f].outcome = outcome, ![f].answer = server']
  /\ server'.settings <= MaxChanges /\ server'.runs <= MaxChanges
  /\ UNCHANGED <<page, databaseAction, pardoned>>

-----------------------------------------------------------------------------
(* The page. *)

\* setSettings and setRuntime.  A snapshot may be older than the one shown.
present(what, answer) ==
  /\ page' = CASE what = "settings" -> [page EXCEPT !.settings = answer.settings]
               [] what = "runtime" -> [page EXCEPT !.runtime = answer]
               [] what = "nothing" -> page
  /\ pardoned' = pardoned \cup
       (IF \/ what = "settings" /\ Loaded /\ answer.settings < page.settings
           \/ /\ what = "runtime" /\ page.runtime # NotRead
              /\ answer.settings < page.runtime.settings \/ answer.runs < page.runtime.runs
        THEN {"crossed"} ELSE {})

\* The page is mounted once; its settings come first, and all is shown together.
refreshed ==
  /\ Answered("refresh", "first", {"done", "failed"})
  /\ awaits("refresh", IF flow["refresh"].outcome = "done" THEN "second" ELSE "rest")
  /\ UNCHANGED <<server, page, databaseAction, pardoned>>

allRefreshed ==
  /\ Answered("refresh", "second", {"done", "failed"})
  /\ page' = IF flow["refresh"].outcome = "failed" THEN page
             ELSE [settings |-> flow["refresh"].answer.settings, runtime |-> flow["refresh"].answer]
  /\ awaits("refresh", "rest")
  /\ UNCHANGED <<server, databaseAction, pardoned>>

\* save and restart: a flag each.
beginFunction(f) ==
  /\ \/ f = "save" /\ LocalServerConfiguration
     \/ f = "restart" /\ LocalServerRuntime
  /\ Bounded
  /\ awaits(f, "first")
  /\ UNCHANGED <<server, page, databaseAction, pardoned>>

\* exportDatabase and importDatabase look at the flag, and ask for a file.
askFile(f) ==
  /\ f \in Database /\ LocalServerDatabase(f) /\ Bounded
  /\ awaits(f, "dialog")
  /\ UNCHANGED <<server, page, databaseAction, pardoned>>

\* The file is chosen, the flag is set, whatever it is by now.
fileChosen(f) ==
  /\ flow[f].at = "dialog"
  /\ awaits(f, "first")
  /\ databaseAction' = f
  /\ pardoned' = pardoned \cup (IF databaseAction # "none" THEN {"twice"} ELSE {})
  /\ UNCHANGED <<server, page>>

dialogClosed(f) ==
  /\ flow[f].at = "dialog" /\ awaits(f, "rest")
  /\ UNCHANGED <<server, page, databaseAction, pardoned>>

\* The end of a function: its flag is taken back.
functionOver(f) ==
  /\ awaits(f, "rest")
  /\ databaseAction' = IF f \in Database THEN "none" ELSE databaseAction

\* The first command answers well: the saved settings are shown, an import
\* shows its runtime; then the second command is called.
firstSucceeds(f) ==
  /\ f # "refresh" /\ Answered(f, "first", {"done"})
  /\ present(CASE f = "save" -> "settings" [] f = "import" -> "runtime" [] OTHER -> "nothing",
             flow[f].answer)
  /\ awaits(f, "second")
  /\ UNCHANGED <<server, databaseAction>>

\* A bug to be found: a restart trusts its own answer.
secondSucceedsButRestart(f) ==
  /\ f # "refresh" /\ Answered(f, "second", {"done"})
  /\ present(CASE f = "import" -> "settings" [] f = "restart" -> "nothing" [] OTHER -> "runtime",
             flow[f].answer)
  /\ functionOver(f)
  /\ UNCHANGED server

\* The second: prepareLocalRuntime, and for an import the settings.
secondSucceeds(f) ==
  /\ f # "refresh" /\ Answered(f, "second", {"done"})
  /\ present(IF f = "import" THEN "settings" ELSE "runtime", flow[f].answer)
  /\ functionOver(f)
  /\ UNCHANGED server

\* A failure is shown as an error, and what is shown stays; only an import
\* reads the runtime once more.
functionFails(f) ==
  /\ f # "refresh" /\ \E at \in {"first", "second"} : Answered(f, at, {"failed"})
  /\ IF f = "import"
     THEN awaits(f, "recover") /\ UNCHANGED <<databaseAction, pardoned>>
     ELSE /\ functionOver(f)
          /\ pardoned' = IF f = "export" /\ flow[f].at = "first" THEN pardoned
                         ELSE pardoned \cup {"failed"}
  /\ UNCHANGED <<server, page>>

recovered(f) ==
  /\ Answered(f, "recover", {"done", "failed"})
  /\ IF flow[f].outcome = "failed"
     THEN page' = [page EXCEPT !.runtime = NotRead] /\ pardoned' = pardoned \cup {"failed"}
     ELSE present("runtime", flow[f].answer)
  /\ functionOver(f)
  /\ UNCHANGED server

-----------------------------------------------------------------------------
PageInit ==
  /\ server = [settings |-> 0, runs |-> 0]
  /\ page = [settings |-> NotRead.settings, runtime |-> NotRead]
  /\ flow = [f \in Flows |-> IF f = "refresh" THEN [AtRest EXCEPT !.at = "first"] ELSE AtRest]
  /\ databaseAction = "none" /\ pardoned = {}

PageNext ==
  \/ refreshed \/ allRefreshed
  \/ \E f \in Flows :
       \/ execute(f) \/ beginFunction(f) \/ askFile(f) \/ fileChosen(f) \/ dialogClosed(f)
       \/ firstSucceeds(f) \/ secondSucceeds(f) \/ functionFails(f) \/ recovered(f)

PageSpec == PageInit /\ [][PageNext]_pageVars

-----------------------------------------------------------------------------
\* When nothing is under way the page shows the settings and the runtime as they
\* are, although every function reads in its own time and they overlap; unless a
\* snapshot overtook a newer one, or a failure left what was shown.
RestIsShown ==
  (\A f \in Flows : flow[f] = AtRest) /\ Loaded /\ pardoned \subseteq {"twice"} =>
    /\ page.settings = server.settings
    /\ page.runtime = server

\* While the database is exported or imported neither can be started again,
\* unless both files were asked for at once.
DatabaseIsBusy ==
  "twice" \notin pardoned =>
    \A f \in Database : Running(f) => databaseAction = f

PageIsTrue == RestIsShown /\ DatabaseIsBusy
=============================================================================
