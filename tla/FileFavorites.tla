---------------------------- MODULE FileFavorites ---------------------------
(* Favourites and the selection in the list of files of the web application   *)
(* (use-file-browser-selection.ts): a star is changed at once, the request    *)
(* follows, and a failure puts the star back that was there before.  A reload *)
(* of the list brings the server's stars of the moment it was served.         *)
EXTENDS Naturals, FiniteSets

CONSTANTS
  Files,
  Toggles     \* bound: the single changes under way at a time

VARIABLES
  listed,     \* nodes
  starred,    \* isFavorite of the nodes
  selected,
  bulk,       \* setNodesFavorite in flight; its targets are favoritePending
  toggles,    \* setFavorite in flight
  reload,     \* a load of the list: its answer once served
  favorites,  \* external: the stars in the database
  raced       \* history: two changes of a star, or a change and a reload, overlap

favoriteVars == <<listed, starred, selected, bulk, toggles, reload, favorites, raced>>

NoToggle == [file |-> "none", value |-> FALSE, before |-> FALSE, state |-> "none"]
NoBulk == [open |-> {}, failed |-> {}, targets |-> {}, value |-> FALSE]
NoReload == [state |-> "none", stars |-> {}, files |-> {}]

Busy(f) == f \in bulk.targets \/ \E t \in Toggles : toggles[t].file = f
Still == bulk = NoBulk /\ \A t \in Toggles : toggles[t] = NoToggle
put(stars, fs, value) == IF value THEN stars \cup fs ELSE stars \ fs

FavoritesInit ==
  /\ listed = Files /\ favorites \in SUBSET Files /\ starred = favorites
  /\ selected = {} /\ bulk = NoBulk /\ reload = NoReload /\ raced = FALSE
  /\ toggles = [t \in Toggles |-> NoToggle]

\* setFavorite, from the menu of a file.
setFavorite(t, f) ==
  /\ f \in listed /\ toggles[t] = NoToggle
  /\ toggles' = [toggles EXCEPT ![t] = [file |-> f, value |-> f \notin starred,
                                        before |-> f \in starred, state |-> "sent"]]
  /\ starred' = put(starred, {f}, f \notin starred)
  /\ raced' = (raced \/ Busy(f) \/ reload # NoReload)
  /\ UNCHANGED <<listed, selected, bulk, reload, favorites>>

\* The server stores the star, or the request fails on the way.
stored(t) ==
  /\ toggles[t].state = "sent"
  /\ \/ /\ toggles' = [toggles EXCEPT ![t].state = "stored"]
        /\ favorites' = put(favorites, {toggles[t].file}, toggles[t].value)
     \/ toggles' = [toggles EXCEPT ![t].state = "failed"] /\ UNCHANGED favorites
  /\ UNCHANGED <<listed, starred, selected, bulk, reload, raced>>

\* A failure puts back the star as the menu saw it.
answered(t) ==
  /\ toggles[t].state \in {"stored", "failed"}
  /\ starred' = IF toggles[t].state = "failed" /\ toggles[t].file \in listed
                THEN put(starred, {toggles[t].file}, toggles[t].before) ELSE starred
  /\ toggles' = [toggles EXCEPT ![t] = NoToggle]
  /\ UNCHANGED <<listed, selected, bulk, reload, favorites, raced>>

\* setNodesFavorite: the selected files whose star differs, one bulk at a time.
setNodesFavorite(value) ==
  LET targets == {f \in selected : (f \in starred) # value}
  IN /\ bulk = NoBulk /\ targets # {}
     /\ bulk' = [open |-> targets, failed |-> {}, targets |-> targets, value |-> value]
     /\ starred' = put(starred, targets, value)
     /\ raced' = (raced \/ (\E f \in targets : Busy(f)) \/ reload # NoReload)
     /\ UNCHANGED <<listed, selected, toggles, reload, favorites>>

bulkStored(f) ==
  /\ f \in bulk.open
  /\ \/ /\ bulk' = [bulk EXCEPT !.open = @ \ {f}]
        /\ favorites' = put(favorites, {f}, bulk.value)
     \/ bulk' = [bulk EXCEPT !.open = @ \ {f}, !.failed = @ \cup {f}] /\ UNCHANGED favorites
  /\ UNCHANGED <<listed, starred, selected, toggles, reload, raced>>

\* A bug to be found: one failure puts every star of the bulk back.
bulkSettledTogether ==
  /\ bulk # NoBulk /\ bulk.open = {}
  /\ starred' = IF bulk.failed # {} THEN put(starred, bulk.targets \cap listed, ~bulk.value)
                ELSE starred
  /\ bulk' = NoBulk
  /\ UNCHANGED <<listed, selected, toggles, reload, favorites, raced>>

\* All requests have settled: the failed ones get their star back.
bulkSettled ==
  /\ bulk # NoBulk /\ bulk.open = {}
  /\ starred' = put(starred, bulk.failed \cap listed, ~bulk.value)
  /\ bulk' = NoBulk
  /\ UNCHANGED <<listed, selected, toggles, reload, favorites, raced>>

\* The list is loaded anew; the selection is cut down to what is listed.
reloadSent ==
  /\ reload = NoReload
  /\ reload' = [NoReload EXCEPT !.state = "sent"]
  /\ raced' = ~Still
  /\ UNCHANGED <<listed, starred, selected, bulk, toggles, favorites>>

reloadServed ==
  /\ reload.state = "sent"
  /\ \E files \in {listed, Files} :
       reload' = [state |-> "served", stars |-> favorites \cap files, files |-> files]
  /\ UNCHANGED <<listed, starred, selected, bulk, toggles, favorites, raced>>

reloadShown ==
  /\ reload.state = "served"
  /\ listed' = reload.files /\ starred' = reload.stars
  /\ selected' = selected \cap listed'
  /\ reload' = NoReload
  /\ UNCHANGED <<bulk, toggles, favorites, raced>>

reloadFails ==
  /\ reload # NoReload
  /\ reload' = NoReload /\ raced' = TRUE
  /\ UNCHANGED <<listed, starred, selected, bulk, toggles, favorites>>

\* removeNodes, after a dialog has moved or trashed a file of the list.
removeNode(f) ==
  /\ f \in listed
  /\ listed' = listed \ {f} /\ starred' = starred \ {f} /\ selected' = selected \ {f}
  /\ UNCHANGED <<bulk, toggles, reload, favorites, raced>>

\* The check boxes, Ctrl+A and Escape.
choose ==
  /\ \/ \E f \in listed : selected' = (selected \cup {f}) \/ selected' = selected \ {f}
     \/ selected' = listed
     \/ selected' = {}
  /\ UNCHANGED <<listed, starred, bulk, toggles, reload, favorites, raced>>

FavoritesNext ==
  \/ \E t \in Toggles : stored(t) \/ answered(t) \/ \E f \in Files : setFavorite(t, f)
  \/ \E value \in BOOLEAN : setNodesFavorite(value)
  \/ \E f \in Files : bulkStored(f) \/ removeNode(f)
  \/ bulkSettled \/ reloadSent \/ reloadServed \/ reloadShown \/ reloadFails \/ choose

FavoritesSpec == FavoritesInit /\ [][FavoritesNext]_favoriteVars

-----------------------------------------------------------------------------
\* When nothing is under way the stars in the list are those in the database,
\* whatever failed, and only what is listed is selected; unless two changes of a
\* star or a change and a reload overlapped, or a reload failed.
FavoritesAgree ==
  /\ selected \subseteq listed
  /\ Still /\ reload = NoReload /\ ~raced => starred = favorites \cap listed
=============================================================================
