----------------------------- MODULE FormDialogs -----------------------------
(* The dialogs and pages of the web and the desktop that submit one form:     *)
(* what they have in common is the protocol below, what differs is in one     *)
(* record per dialog.  The answer of a request arrives whatever happened to   *)
(* its dialog: the dialog can be closed and opened again while the request is *)
(* on its way.  A dialog whose component lives on keeps its state between two *)
(* openings, one that is mounted anew forgets it.  A bulk request that fails  *)
(* for some of its nodes counts as failed: its message says for how many.     *)
EXTENDS Naturals, Sequences, FiniteSets

CONSTANTS
  MaxOpenings,  \* bound: how often the dialog is opened
  Submissions   \* bound: requests in flight at a time
ASSUME DialogAssumption == MaxOpenings \in Nat

VARIABLES
  dialog,    \* which of the dialogs
  opening,   \* the number of the opening, 0 while the dialog is closed
  openings,  \* openings so far
  pending,   \* the busy flag: pending, isSubmitting
  message,   \* the error shown: the opening it is about, and whether the deed was done
  requests,
  stolen     \* history: the answer of one opening closed another

dialogVars == <<dialog, opening, openings, pending, message, requests, stolen>>

NoMessage == [about |-> 0, done |-> FALSE]
NoRequest == [opening |-> 0, at |-> "none"]
InFlight == {r \in Submissions : requests[r] # NoRequest}

-----------------------------------------------------------------------------
(* The dialogs.  locks: it cannot be closed while it is busy.  refuses: nor   *)
(* opened.  frees: closing takes the busy flag away.  clears: closing takes   *)
(* the message away.  toasts: the message is not part of the dialog.          *)
(* remounts: each opening is a new component, and a late answer finds the old *)
(* one gone.  after: what follows the answer; "refresh" awaits the caller's   *)
(* list or the object's new state.  honest: a failure of that refresh is not  *)
(* reported as a failure of the deed.                                         *)
Locked(name) ==
  [name |-> name, locks |-> TRUE, refuses |-> FALSE, frees |-> FALSE, clears |-> TRUE,
   toasts |-> FALSE, remounts |-> FALSE, after |-> <<"close">>, honest |-> TRUE]
Remounted(name) == [Locked(name) EXCEPT !.remounts = TRUE]
\* form.reset() of react-hook-form also resets isSubmitting.
Unlocked(name) == [Locked(name) EXCEPT !.locks = FALSE, !.frees = TRUE]
\* The change and the reading of what it changed share one try.
Refreshing(d) == [d EXCEPT !.after = <<"refresh", "close">>, !.honest = FALSE]
Toasting(d) == [d EXCEPT !.toasts = TRUE]

\* Web: files and collections.
CreateFolderDialog == [Unlocked("create folder") EXCEPT !.after = <<"close", "refresh">>]
RenameNodeDialog ==
  [Unlocked("rename") EXCEPT !.remounts = TRUE, !.after = <<"close", "refresh">>]
\* A bug to be found: a dialog that can be closed while it is busy.
TrashNodesUnlocked ==
  [Locked("trash nodes") EXCEPT !.locks = FALSE, !.after = <<"refresh", "close">>]
TrashNodesDialog == [Remounted("trash nodes") EXCEPT !.after = <<"refresh", "close">>]
MoveNodesDialog == Remounted("move nodes")
CreateCollectionDialog == Unlocked("create collection")
EditCollectionDialog == Unlocked("edit collection")

\* Web: administration.
CreateUserDialog ==
  [Toasting(Locked("create user")) EXCEPT
     !.refuses = TRUE, !.after = <<"close", "refresh">>, !.honest = FALSE]
EditUserDialog == Toasting(Locked("edit user"))
UserQuotaDialog == Toasting(Refreshing(Locked("user quota")))
ResetUserPasswordDialog == Toasting(Refreshing(Locked("reset password")))
UserStatusDialog == Toasting(Refreshing(Locked("user status")))
ReconcileQuotaDialog ==
  [Toasting(Locked("reconcile")) EXCEPT !.after = <<"refresh">>, !.honest = FALSE]

\* Web: the profile picture.
RemoveAvatarDialog == Toasting(Locked("remove avatar"))

\* Both: the pages of the first administrator and of a password that must be changed.
SetupForm == Locked("setup")
ChangePasswordForm == Refreshing(Locked("change password"))

\* Desktop.
DesktopCreateFolderDialog == Locked("desktop create folder")
DesktopRenameNodeDialog == Remounted("desktop rename")
DesktopTrashNodesDialog == Remounted("desktop trash nodes")
DesktopMoveNodesDialog == Remounted("desktop move nodes")
DesktopEditCollectionDialog == Locked("desktop edit collection")
DesktopTrashCollectionButton ==
  [Locked("desktop trash collection") EXCEPT !.locks = FALSE, !.clears = FALSE, !.after = <<>>]
CreateAdminUserDialog ==
  [Locked("desktop create user") EXCEPT
     !.refuses = TRUE, !.after = <<"close", "refresh">>, !.honest = FALSE]
DesktopEditUserDialog == Remounted("desktop edit user")
QuotaDialog == Refreshing(Remounted("desktop user quota"))
PasswordDialog == Refreshing(Remounted("desktop reset password"))
StatusDialog == Refreshing(Remounted("desktop user status"))
DesktopSyncPairDialog == Remounted("sync pair")

Dialogs ==
  {CreateFolderDialog, RenameNodeDialog, TrashNodesDialog, MoveNodesDialog,
   CreateCollectionDialog, EditCollectionDialog, CreateUserDialog, EditUserDialog,
   UserQuotaDialog, ResetUserPasswordDialog, UserStatusDialog, ReconcileQuotaDialog,
   RemoveAvatarDialog, SetupForm, ChangePasswordForm, DesktopCreateFolderDialog, DesktopRenameNodeDialog,
   DesktopTrashNodesDialog, DesktopMoveNodesDialog, DesktopEditCollectionDialog,
   DesktopTrashCollectionButton, CreateAdminUserDialog, DesktopEditUserDialog, QuotaDialog,
   PasswordDialog, StatusDialog, DesktopSyncPairDialog}

-----------------------------------------------------------------------------
DialogsInit ==
  /\ dialog \in Dialogs
  /\ opening = 0 /\ openings = 0 /\ pending = FALSE /\ message = NoMessage
  /\ requests = [r \in Submissions |-> NoRequest] /\ stolen = FALSE

openDialog ==
  /\ opening = 0 /\ openings < MaxOpenings
  /\ dialog.refuses => ~pending
  /\ openings' = openings + 1 /\ opening' = openings'
  /\ pending' = (pending /\ ~dialog.remounts)
  /\ message' = IF dialog.remounts \/ dialog.toasts THEN NoMessage ELSE message
  /\ UNCHANGED <<dialog, requests, stolen>>

closeDialog ==
  /\ opening # 0
  /\ dialog.locks => ~pending
  /\ opening' = 0
  /\ pending' = (pending /\ ~dialog.frees)
  /\ message' = IF dialog.clears THEN NoMessage ELSE message
  /\ UNCHANGED <<dialog, openings, requests, stolen>>

submit(r) ==
  /\ opening # 0 /\ ~pending /\ requests[r] = NoRequest
  /\ pending' = TRUE /\ message' = NoMessage
  /\ requests' = [requests EXCEPT ![r] = [opening |-> opening, at |-> "sent"]]
  /\ UNCHANGED <<dialog, opening, openings, stolen>>

\* The server answers the request, or it fails on the way.
served(r) ==
  /\ requests[r].at = "sent"
  /\ \E at \in {"done", "failed"} : requests' = [requests EXCEPT ![r].at = at]
  /\ UNCHANGED <<dialog, opening, openings, pending, message, stolen>>

\* The component that submitted r is still there.
Alive(r) == dialog.remounts => requests[r].opening = opening

\* The handler of r closes the dialog, whichever opening that is by now.
Closes(r) ==
  /\ opening' = 0
  /\ stolen' = (stolen \/ opening \notin {0, requests[r].opening})

\* The handler of r ends, with m as its message.
Over(r, m) ==
  /\ requests' = [requests EXCEPT ![r] = NoRequest]
  /\ IF Alive(r) THEN pending' = FALSE /\ message' = m ELSE UNCHANGED <<pending, message>>

answered(r) ==
  /\ requests[r].at = "done"
  /\ IF dialog.after # <<>> /\ Head(dialog.after) = "refresh"
     THEN /\ requests' = [requests EXCEPT ![r].at = "refreshing"]
          /\ UNCHANGED <<opening, pending, message, stolen>>
     ELSE IF dialog.after = <<"close", "refresh">>
     THEN /\ Closes(r)
          /\ requests' = [requests EXCEPT ![r].at = "refreshing"]
          /\ pending' = (pending /\ ~dialog.frees)
          /\ message' = IF Alive(r) THEN NoMessage ELSE message
     ELSE Closes(r) /\ Over(r, NoMessage)
  /\ UNCHANGED <<dialog, openings>>

rejected(r) ==
  /\ requests[r].at = "failed"
  /\ Over(r, [about |-> requests[r].opening, done |-> FALSE])
  /\ UNCHANGED <<dialog, opening, openings, stolen>>

refreshed(r) ==
  /\ requests[r].at = "refreshing"
  /\ \E ok \in BOOLEAN :
       IF ok \/ dialog.honest
       THEN /\ IF dialog.after = <<"refresh", "close">> THEN Closes(r)
               ELSE UNCHANGED <<opening, stolen>>
            /\ Over(r, NoMessage)
       ELSE /\ Over(r, [about |-> requests[r].opening, done |-> TRUE])
            /\ UNCHANGED <<opening, stolen>>
  /\ UNCHANGED <<dialog, openings>>

DialogsNext ==
  \/ openDialog \/ closeDialog
  \/ \E r \in Submissions : submit(r) \/ served(r) \/ answered(r) \/ rejected(r) \/ refreshed(r)

DialogsSpec == DialogsInit /\ [][DialogsNext]_dialogVars

-----------------------------------------------------------------------------
\* Dialogs that can be closed, and opened again, before their answer arrives.
Leaky == {"create folder", "rename", "create collection", "edit collection",
          "desktop trash collection"}
\* Dialogs that report the failed refresh of a list as a failure of the deed.
Misreporting == {"create user", "user quota", "reset password", "user status", "reconcile",
                 "change password", "desktop create user", "desktop user quota", "desktop reset password",
                 "desktop user status"}

\* However openings, submissions, answers and refreshes interleave: a dialog is
\* busy exactly while its one request is under way, an answer closes only the
\* opening that asked, and a message shown is about what this opening asked for,
\* and true: it does not say that what was done was not.  Leaky dialogs are
\* excused from the first part and Misreporting ones from the second.
DialogsAreTrue ==
  /\ dialog.name \notin Leaky =>
       /\ Cardinality(InFlight) <= 1
       /\ pending <=> InFlight # {}
       /\ ~stolen
       /\ opening # 0 /\ dialog.name # "desktop create user" => message.about \in {0, opening}
  /\ dialog.name \notin Misreporting => ~message.done
=============================================================================
