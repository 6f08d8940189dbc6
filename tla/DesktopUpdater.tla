--------------------------- MODULE DesktopUpdater ---------------------------
(* The updater of the desktop application (updater-provider.tsx) and what its *)
(* settings show: it checks a channel for a release and installs what it      *)
(* found.  The busy flag keeps checks and installations apart; loading the    *)
(* preferences and a change of channel await a file without taking the flag.  *)
EXTENDS Naturals

CONSTANT Channels
ASSUME ChannelsAssumption == "stable" \in Channels /\ {"none", "loading"} \cap Channels = {}

VARIABLES
  stage,      \* the stage shown
  update,     \* the channel the offered release was found on, or "none"
  blocked,    \* this release cannot run the local server
  channel,    \* preferencesRef.channel, or why there is none: "loading", "none"
  busy,       \* busyRef
  task,       \* the check or installation in flight
  switch,     \* the channel a change awaits the settings file for, or "none"
  met         \* history: a change of the preferences and a check or an offer met

updaterVars == <<stage, update, blocked, channel, busy, task, switch, met>>

NoTask == [kind |-> "none", channel |-> "none"]
InstallStages == {"preparing-runtime", "downloading", "installing"}

UpdaterInit ==
  /\ stage = "idle" /\ update = "none" /\ blocked = FALSE /\ channel = "loading"
  /\ busy = FALSE /\ task = NoTask /\ switch = "none" /\ met = FALSE

\* Without preferences the stable channel is checked.
Selected == IF channel \in Channels THEN channel ELSE "stable"

-----------------------------------------------------------------------------
\* What the settings show, and which of their controls can be used.
DesktopUpdaterSettings ==
  LET working == stage \in InstallStages \cup {"checking"} IN
  [select |-> channel \in Channels /\ ~working,
   check |-> ~working,
   upToDate |-> stage = "up-to-date",
   offer |-> update # "none",
   progress |-> update # "none" /\ stage \in InstallStages,
   install |-> update # "none" /\ ~working /\ ~blocked]

UpdateStatusBadge ==
  CASE stage = "checking" -> "Checking"
    [] stage \in InstallStages \cup {"available"} -> "Update available"
    [] stage = "up-to-date" -> "Up to date"
    [] stage = "error" -> "Check failed"
    [] OTHER -> "Idle"

\* The button before there is a connection, and the link in the header after.
PreconnectionUpdater ==
  IF stage \in InstallStages \cup {"checking"} THEN "Working"
  ELSE IF update # "none" THEN "Update" ELSE "Updates"
DesktopHeaderActions == update # "none" /\ stage # "error"

-----------------------------------------------------------------------------
\* The preferences are there, or cannot be read.
load(c) ==
  /\ channel = "loading" /\ channel' = c
  /\ met' = (met \/ (task # NoTask /\ task.channel # c) \/ update \notin {"none", c})
  /\ UNCHANGED <<stage, update, blocked, busy, task, switch>>

loadFails ==
  /\ channel = "loading" /\ channel' = "none" /\ stage' = "error"
  /\ met' = (met \/ task # NoTask)
  /\ UNCHANGED <<update, blocked, busy, task, switch>>

\* checkForUpdates, or the check at the start of the application.
checkForUpdates ==
  /\ DesktopUpdaterSettings.check /\ ~busy
  /\ busy' = TRUE /\ stage' = "checking" /\ update' = "none"
  /\ task' = [kind |-> "check", channel |-> Selected]
  /\ met' = (switch # "none")
  /\ UNCHANGED <<blocked, channel, switch>>

\* A bug to be found: the busy flag is not given back.
checkedStillBusy ==
  /\ task.kind = "check"
  /\ \/ stage' = "available" /\ update' = task.channel /\ blocked' \in BOOLEAN
     \/ stage' \in {"up-to-date", "error"} /\ UNCHANGED <<update, blocked>>
  /\ task' = NoTask
  /\ UNCHANGED <<channel, busy, switch, met>>

checked ==
  /\ task.kind = "check"
  /\ \/ stage' = "available" /\ update' = task.channel /\ blocked' \in BOOLEAN
     \/ stage' \in {"up-to-date", "error"} /\ UNCHANGED <<update, blocked>>
  /\ busy' = FALSE /\ task' = NoTask
  /\ UNCHANGED <<channel, switch, met>>

\* installUpdate subscribes to the progress first; a failure there leaves the
\* flag set, outside the try.
installUpdate ==
  /\ DesktopUpdaterSettings.install /\ ~busy
  /\ busy' = TRUE /\ stage' = "downloading"
  /\ task' = [kind |-> "listen", channel |-> Selected]
  /\ met' = (met \/ switch # "none")
  /\ UNCHANGED <<update, blocked, channel, switch>>

listened ==
  /\ task.kind = "listen"
  /\ \/ task' = [task EXCEPT !.kind = "install"]
     \/ task' = [task EXCEPT !.kind = "unheard"]
  /\ UNCHANGED <<stage, update, blocked, channel, busy, switch, met>>

\* The events of the progress.
progress ==
  /\ task.kind = "install"
  /\ stage' \in InstallStages
  /\ UNCHANGED <<update, blocked, channel, busy, task, switch, met>>

\* The installation fails or is declined; when it succeeds the application is
\* started again, from UpdaterInit.
installed ==
  /\ task.kind = "install"
  /\ stage' = "available" /\ busy' = FALSE /\ task' = NoTask
  /\ UNCHANGED <<update, blocked, channel, switch, met>>

\* setChannel, up to its await and after it.
setChannel(c) ==
  /\ DesktopUpdaterSettings.select /\ ~busy /\ switch = "none" /\ c # channel
  /\ switch' = c
  /\ UNCHANGED <<stage, update, blocked, channel, busy, task, met>>

channelSet ==
  /\ switch # "none" /\ switch' = "none"
  /\ \/ /\ channel' = switch /\ stage' = "idle" /\ update' = "none"
        /\ met' = (met \/ task # NoTask)
     \/ UNCHANGED <<channel, stage, update, met>> \* the file cannot be written
  /\ UNCHANGED <<blocked, busy, task>>

UpdaterNext == \/ \E c \in Channels : load(c) \/ setChannel(c)
               \/ loadFails
               \/ checkForUpdates \/ checked \/ installUpdate \/ listened \/ progress \/ installed
               \/ channelSet

UpdaterSpec == UpdaterInit /\ [][UpdaterNext]_updaterVars

-----------------------------------------------------------------------------
\* The busy flag is held exactly as long as a check or an installation is under
\* way.  Unless loading the preferences or a change of channel met one: the release
\* that is offered, and what is installed, come from the selected channel, nothing
\* is called up to date next to an offer, and the controls are usable exactly when
\* a click does something.
OfferIsOfChannel ==
  /\ busy <=> task # NoTask
  /\ ~met => /\ update \in {"none", Selected}
             /\ task # NoTask => task.channel = Selected
             /\ DesktopUpdaterSettings.check <=> ~busy
             /\ DesktopUpdaterSettings.upToDate => ~DesktopUpdaterSettings.offer
             /\ UpdateStatusBadge = "Update available" => DesktopUpdaterSettings.offer
             /\ DesktopHeaderActions => UpdateStatusBadge = "Update available"
             /\ PreconnectionUpdater = "Working" <=> busy
=============================================================================
