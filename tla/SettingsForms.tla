---------------------------- MODULE SettingsForms ----------------------------
(* The settings pages that keep a copy of what the server, or the desktop's   *)
(* native side, holds: the profile, whose name and picture are two forms over *)
(* one user; the common settings, whose fields stay editable while they are   *)
(* saved; and the tray and notification switches of the desktop.  One         *)
(* behaviour exercises one of them.  Requests may fail after they were served.*)
EXTENDS Naturals, FiniteSets

CONSTANTS
  Fields,   \* fields of the common settings, and the desktop's switches
  MaxSaves  \* bound: changes that are sent
ASSUME SettingsAssumption == MaxSaves \in Nat

VARIABLES
  setting,   \* which of them, and where
  saves,     \* changes sent so far
  server,    \* what is stored: by the server, or in the preferences file
  shown,     \* the copy: the current user, the stored configuration, the preferences
  name,      \* the request that saves the profile's name
  avatar,    \* the request that changes or removes the picture
  draft,     \* the fields as the user has edited them
  saving,    \* the request that saves them
  refresh,   \* router.refresh: the configuration on its way back
  native,    \* what the native side does
  wanted,    \* history: what the user last chose of each field
  lost,      \* history: fields edited while a save was under way
  crossed,   \* history: both profile forms were busy at a time
  troubled   \* history: a request failed, and its form says so

settingVars == <<setting, saves, server, shown, name, avatar, draft, saving, refresh,
                 native, wanted, lost, crossed, troubled>>

Settings == {"profile", "desktop profile", "common", "desktop common", "runtime"}
Nothing == [f \in Fields |-> 0]
User(n, a) == [name |-> n, avatar |-> a]
NoCall == [at |-> "idle"]
Profile == setting \in {"profile", "desktop profile"}
Common == setting \in {"common", "desktop common"}

SettingsInit ==
  /\ setting \in Settings /\ saves = 0
  /\ server = IF Profile THEN User(0, 0) ELSE Nothing
  /\ shown = server
  /\ name = NoCall /\ avatar = NoCall
  /\ draft = Nothing /\ saving = NoCall /\ refresh = NoCall /\ native = Nothing
  /\ wanted = Nothing /\ lost = {} /\ crossed = FALSE /\ troubled = FALSE

Counted == saves < MaxSaves /\ saves' = saves + 1

-----------------------------------------------------------------------------
(* The profile.                                                               *)
otherThanProfile == <<draft, saving, refresh, native, wanted, lost>>

\* Every save is of a name the user does not have yet.
saveName ==
  /\ Profile /\ name = NoCall /\ Counted
  /\ name' = [at |-> "sent", to |-> saves']
  /\ crossed' = (crossed \/ avatar # NoCall)
  /\ UNCHANGED <<setting, server, shown, avatar, troubled, otherThanProfile>>

\* PATCH /me answers with the whole user.
nameServed ==
  /\ name.at = "sent"
  /\ server' = [server EXCEPT !.name = name.to]
  /\ name' = [at |-> "served", user |-> server']
  /\ UNCHANGED <<setting, saves, shown, avatar, crossed, troubled, otherThanProfile>>

nameSaved ==
  /\ name.at = "served"
  /\ shown' = name.user /\ name' = NoCall
  /\ UNCHANGED <<setting, saves, server, avatar, crossed, troubled, otherThanProfile>>

nameFails ==
  /\ name.at \in {"sent", "served"}
  /\ name' = NoCall /\ troubled' = TRUE
  /\ UNCHANGED <<setting, saves, server, shown, avatar, crossed, otherThanProfile>>

\* selectAvatar and removeAvatar.  The desktop's handler holds the user it was
\* rendered with, from before the file is chosen in the system's dialog.
changeAvatar ==
  /\ Profile /\ avatar = NoCall /\ Counted
  /\ \E remove \in BOOLEAN :
       avatar' = [at |-> "sent", remove |-> remove, user |-> shown, revision |-> 0]
  /\ crossed' = (crossed \/ name # NoCall)
  /\ UNCHANGED <<setting, server, shown, name, troubled, otherThanProfile>>

\* Either way the revision of the picture grows by one.
avatarServed ==
  /\ avatar.at = "sent"
  /\ server' = [server EXCEPT !.avatar = @ + 1]
  /\ avatar' = [avatar EXCEPT !.at = "served", !.revision = server'.avatar]
  /\ UNCHANGED <<setting, saves, shown, name, crossed, troubled, otherThanProfile>>

\* A bug to be found: the web's handler, too, puts back the user it holds.
avatarChangedOverHeld ==
  /\ avatar.at = "served" /\ avatar' = NoCall
  /\ shown' = [avatar.user EXCEPT
                 !.avatar = IF avatar.remove THEN avatar.user.avatar + 1 ELSE avatar.revision]
  /\ UNCHANGED <<setting, saves, server, name, crossed, troubled, otherThanProfile>>

\* The web changes the current user, the desktop puts back the one it holds; who
\* removes the picture counts the revision.
avatarChanged ==
  LET user == IF setting = "profile" THEN shown ELSE avatar.user
  IN /\ avatar.at = "served" /\ avatar' = NoCall
     /\ shown' = [user EXCEPT
                    !.avatar = IF avatar.remove THEN user.avatar + 1 ELSE avatar.revision]
     /\ UNCHANGED <<setting, saves, server, name, crossed, troubled, otherThanProfile>>

avatarFails ==
  /\ avatar.at \in {"sent", "served"} /\ avatar' = NoCall /\ troubled' = TRUE
  /\ UNCHANGED <<setting, saves, server, shown, name, crossed, otherThanProfile>>

-----------------------------------------------------------------------------
(* The common settings.                                                       *)
otherThanCommon == <<name, avatar, native, crossed>>
Dirty == draft # shown

\* The user edits a field, also while the fields are being saved.
edit(f) ==
  /\ Common /\ \E v \in {0, 1} \ {draft[f]} :
       draft' = [draft EXCEPT ![f] = v] /\ wanted' = [wanted EXCEPT ![f] = v]
  /\ lost' = IF saving = NoCall THEN lost \ {f} ELSE lost \cup {f}
  /\ UNCHANGED <<setting, saves, server, shown, saving, refresh, troubled, otherThanCommon>>

save ==
  /\ Common /\ Dirty /\ saving = NoCall /\ Counted
  /\ saving' = [at |-> "sent", to |-> draft]
  /\ UNCHANGED <<setting, server, shown, draft, refresh, wanted, lost, troubled, otherThanCommon>>

\* PUT answers with the whole configuration.
saveServed ==
  /\ saving.at = "sent"
  /\ server' = saving.to /\ saving' = [saving EXCEPT !.at = "served"]
  /\ UNCHANGED <<setting, saves, shown, draft, refresh, wanted, lost, troubled, otherThanCommon>>

\* Where the values of a new configuration differ from those before, an effect
\* puts them into all fields.
Drafted(config) == IF config = shown THEN draft ELSE config
Stores(config) == shown' = config /\ draft' = Drafted(config)

\* The web then reads its pages again.
saved ==
  /\ saving.at = "served" /\ saving' = NoCall
  /\ Stores(saving.to)
  /\ refresh' = IF setting = "common" THEN [at |-> "sent"] ELSE refresh
  /\ UNCHANGED <<setting, saves, server, wanted, lost, troubled, otherThanCommon>>

saveFails ==
  /\ saving.at \in {"sent", "served"} /\ saving' = NoCall /\ troubled' = TRUE
  /\ UNCHANGED <<setting, saves, server, shown, draft, refresh, wanted, lost, otherThanCommon>>

refreshServed ==
  /\ refresh.at = "sent"
  /\ refresh' = [at |-> "served", config |-> server]
  /\ UNCHANGED <<setting, saves, server, shown, draft, saving, wanted, lost, troubled, otherThanCommon>>

\* initialConfig: the provider replaces what it stores.
configRefreshed ==
  /\ refresh.at = "served" /\ refresh' = NoCall
  /\ Stores(refresh.config)
  /\ UNCHANGED <<setting, saves, server, saving, wanted, lost, troubled, otherThanCommon>>

-----------------------------------------------------------------------------
(* The switches: one at a time; the native side first, then the preferences.  *)
otherThanRuntime == <<name, avatar, draft, refresh, lost, crossed>>

setSwitch(f) ==
  /\ setting = "runtime" /\ saving = NoCall /\ Counted
  /\ saving' = [at |-> "native", field |-> f, to |-> 1 - shown[f]]
  /\ wanted' = [wanted EXCEPT ![f] = 1 - shown[f]]
  /\ UNCHANGED <<setting, server, shown, native, troubled, otherThanRuntime>>

nativeSet ==
  /\ saving.at = "native"
  /\ native' = [native EXCEPT ![saving.field] = saving.to]
  /\ saving' = [saving EXCEPT !.at = "preferences"]
  /\ UNCHANGED <<setting, saves, server, shown, wanted, troubled, otherThanRuntime>>

preferencesSet ==
  /\ saving.at = "preferences"
  /\ server' = [server EXCEPT ![saving.field] = saving.to]
  /\ shown' = server' /\ saving' = NoCall
  /\ UNCHANGED <<setting, saves, native, wanted, troubled, otherThanRuntime>>

\* A call of the two fails; the second may have stored the value nevertheless.
switchFails ==
  /\ saving.at \in {"native", "preferences"} /\ saving' = NoCall /\ troubled' = TRUE
  /\ \/ UNCHANGED server
     \/ saving.at = "preferences" /\ server' = [server EXCEPT ![saving.field] = saving.to]
  /\ UNCHANGED <<setting, saves, shown, native, wanted, otherThanRuntime>>

SettingsNext ==
  \/ saveName \/ nameServed \/ nameSaved \/ nameFails
  \/ changeAvatar \/ avatarServed \/ avatarChanged \/ avatarFails
  \/ save \/ saveServed \/ saved \/ saveFails \/ refreshServed \/ configRefreshed
  \/ \E f \in Fields : edit(f) \/ setSwitch(f)
  \/ nativeSet \/ preferencesSet \/ switchFails

SettingsSpec == SettingsInit /\ [][SettingsNext]_settingVars

-----------------------------------------------------------------------------
\* However saves, edits, picture changes, refreshes and failures interleave, once
\* they are over and none failed: the user shown is the server's, except that the
\* web may show an old picture, and the desktop an old user, when both forms were
\* busy at a time; a field holds what the user last chose, unless that was while
\* the fields were being saved; the copy shown is what is stored; and the native
\* side does what the switches say.
SettingsAreTrue ==
  (~troubled /\ name = NoCall /\ avatar = NoCall /\ saving = NoCall /\ refresh = NoCall) =>
    /\ crossed => (setting = "profile" => shown.name = server.name)
    /\ ~crossed => shown = server
    /\ Common => \A f \in Fields \ lost : draft[f] = wanted[f]
    /\ setting = "runtime" => native = shown /\ wanted = shown
=============================================================================
