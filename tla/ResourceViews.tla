---------------------------- MODULE ResourceViews ----------------------------
(* The lists and details the web and the desktop application read from the    *)
(* server: what they have in common is the protocol below, what differs is in *)
(* one record per view.  A view shows the rows of one key: a folder in an     *)
(* order, a search, a filter, a page.  Its key changes, it is read again, it  *)
(* reads a second page, and it changes what it shows, while the answers of    *)
(* earlier requests are still on their way.                                   *)
EXTENDS Naturals, Sequences, FiniteSets

CONSTANTS
  Reads,    \* bound: reads in flight at a time
  Changes,  \* bound: the changes made to the server's data
  MaxReads  \* bound: how often the view asks
ASSUME ViewAssumption == MaxReads \in Nat

Closed == 0
Keys == {1, 2}

VARIABLES
  view,     \* which of the views
  key,      \* the key it is at, Closed for a dialog that is not open
  rows,     \* the pages shown: of which key, and the changes they contain
  loading,
  failed,    \* the last read failed, and the view says so
  reads,
  asked,    \* reads so far
  changes,
  stored,   \* the server: the changes in the data of each key
  excused    \* history: a change failed, and the view says so

viewVars == <<view, key, rows, loading, failed, reads, asked, changes, stored, excused>>

NoRead == [kind |-> "none", key |-> Closed, has |-> {}, at |-> "none", wanted |-> FALSE]
NoChange == [kind |-> "none", key |-> Closed, at |-> "none"]
ReadsInFlight == {r \in Reads : reads[r] # NoRead}
ChangesInFlight == {c \in Changes : changes[c].at \in {"sent", "done", "failed"}}

-----------------------------------------------------------------------------
(* The views.  keys: where it can be.  moves: its key changes "ahead" of the  *)
(* rows or "with" them.  late: a read that another key has overtaken is       *)
(* "discarded"; with "refused" no read starts while one is under way; with    *)
(* "shown" neither.  hides: the rows disappear until those of a new key are   *)
(* there.  keeps: once read the rows are never read again.  again: whether    *)
(* the same key can be read again, "always", "failed" (a retry) or "never".   *)
(* calls: a change reads the rows again by a call of its own that no other    *)
(* read discards or refuses.  more: what a second page is appended to, the    *)
(* rows of that moment ("any"), or it is a read like any other and refused or *)
(* discarded like one ("read").  edits: a change patches the rows when it is  *)
(* answered, or reads them again.  serial: one change at a time.  early:      *)
(* changes can be made before the rows are there.  locks: it stays open       *)
(* during a change.                                                           *)
Shown(name) ==
  [name |-> name, keys |-> {1}, moves |-> "ahead", late |-> "shown", hides |-> FALSE,
   keeps |-> FALSE, again |-> "never", calls |-> FALSE, more |-> "none", edits |-> {},
   serial |-> FALSE, early |-> FALSE, locks |-> FALSE]
Discarded(name) == [Shown(name) EXCEPT !.keys = Keys, !.late = "discarded", !.hides = TRUE]
Dialog(name) == [Discarded(name) EXCEPT !.keys = {Closed, 1}]
Paged(v) == [v EXCEPT !.more = "any"]
Again(v, when) == [v EXCEPT !.again = when]
Edited(v, edits) == [v EXCEPT !.edits = edits]
\* A table of the diagnostics: one read at a time, of rows or of more rows.
Filtered(name) ==
  [Shown(name) EXCEPT !.keys = Keys, !.late = "refused", !.more = "read", !.again = "always"]

\* Web.
WorkspaceSwitcher == [Again(Dialog("switcher"), "failed") EXCEPT !.hides = FALSE, !.keeps = TRUE]
AdminUserPicker == [WorkspaceSwitcher EXCEPT !.name = "user picker", !.late = "refused"]
CommandPalette == [Dialog("palette") EXCEPT !.keys = {Closed, 1, 2}, !.hides = FALSE]
AddCollectionItemDialog == [CommandPalette EXCEPT !.name = "add item"]
AccessDialog ==
  [Edited(Dialog("access"), {"patch"}) EXCEPT !.serial = TRUE, !.early = TRUE, !.locks = TRUE]
PublicShareDialog == [Edited(Dialog("share"), {"patch"}) EXCEPT !.serial = TRUE]
CollectionDetail == [Edited(Shown("collection"), {"patch", "reload"}) EXCEPT !.calls = TRUE]
AdminView ==
  [Edited(Filtered("users"), {"patch", "reload"}) EXCEPT
     !.moves = "with", !.more = "none", !.again = "never"]
StorageOverview == [Edited(Shown("storage overview"), {"reload"}) EXCEPT !.calls = TRUE]
BotRuntime ==
  [Again(Edited(Discarded("bots"), {"reload"}), "always") EXCEPT !.keys = {1}, !.hides = FALSE]
AuditDiagnostics == Filtered("audit")
JobDiagnostics == Filtered("job runs")
UploadDiagnostics == Filtered("upload sessions")
MoveTargets == [Again(Filtered("move targets"), "never") EXCEPT !.moves = "with"]
SearchResults == [Again(Discarded("search"), "failed") EXCEPT !.more = "read"]
FavoritesView == Edited([SearchResults EXCEPT !.name = "favorites"], {"patch"})
ActivityView == [SearchResults EXCEPT !.name = "activity"]
StorageView == Again(Discarded("storage"), "failed")
TrashView == Paged(Edited(Shown("trash"), {"patch"}))
VersionHistory == [Edited(Discarded("versions"), {"reload"}) EXCEPT !.serial = TRUE]

\* Desktop.
FilesPage == Paged(Again(Edited(Discarded("desktop files"), {"reload"}), "always"))
CollectionPage ==
  [Edited(Discarded("desktop collection"), {"patch", "reload"}) EXCEPT !.hides = FALSE, !.calls = TRUE]
SearchPage == Paged(Again(Discarded("desktop search"), "failed"))
FavoritesPage == Edited([SearchPage EXCEPT !.name = "desktop favorites"], {"patch"})
CollectionsPage == [SearchPage EXCEPT !.name = "desktop collections"]
TrashPage == [Paged(Edited(Discarded("desktop trash"), {"patch"})) EXCEPT !.hides = FALSE]
DesktopAccessDialog == [AccessDialog EXCEPT !.name = "desktop access"]
DesktopPublicShareDialog == [PublicShareDialog EXCEPT !.name = "desktop share", !.locks = TRUE]
DesktopCommandPalette == [CommandPalette EXCEPT !.name = "desktop palette"]
DesktopWorkspaceSwitcher == [WorkspaceSwitcher EXCEPT !.name = "desktop switcher"]
DesktopAdminPage == [AdminView EXCEPT !.name = "desktop users", !.calls = TRUE]
DesktopBotsPage == [Again(Edited(Shown("desktop bots"), {"reload"}), "always") EXCEPT !.calls = TRUE]
DesktopDiagnostics == [Filtered("desktop diagnostics") EXCEPT !.moves = "with"]
DesktopMoveTargets == [MoveTargets EXCEPT !.name = "desktop move targets"]
FileVersions ==
  [Edited(Shown("desktop versions"), {"reload"}) EXCEPT !.hides = TRUE, !.serial = TRUE]
DesktopFilePage == Again(Discarded("desktop file"), "always")
DesktopCollectionFilePage == [Discarded("desktop collection file") EXCEPT !.hides = FALSE]

Views ==
  {WorkspaceSwitcher, AdminUserPicker, CommandPalette, AddCollectionItemDialog, AccessDialog,
   PublicShareDialog, CollectionDetail, AdminView, StorageOverview, BotRuntime,
   AuditDiagnostics, JobDiagnostics, UploadDiagnostics, MoveTargets, SearchResults,
   FavoritesView, ActivityView, StorageView, TrashView, VersionHistory, FilesPage,
   CollectionPage, SearchPage, FavoritesPage, CollectionsPage, TrashPage,
   DesktopAccessDialog, DesktopPublicShareDialog, DesktopCommandPalette,
   DesktopWorkspaceSwitcher, DesktopAdminPage, DesktopBotsPage, DesktopDiagnostics,
   DesktopMoveTargets, FileVersions, DesktopFilePage, DesktopCollectionFilePage}

-----------------------------------------------------------------------------
Page(k, has) == [key |-> k, has |-> has]
RowsKey == rows[1].key

\* The pages and dialogs that are given their rows, or read them when they open.
ViewsInit ==
  /\ view \in Views
  /\ key = IF Closed \in view.keys THEN Closed ELSE 1
  /\ rows = IF key = Closed THEN <<>> ELSE <<Page(1, {})>>
  /\ loading = FALSE /\ failed = FALSE
  /\ reads = [r \in Reads |-> NoRead] /\ asked = 0
  /\ changes = [c \in Changes |-> NoChange]
  /\ stored = [k \in Keys |-> {}] /\ excused = FALSE

\* The reads, when the view starts another by the call all of them come from.
\* A bug to be found: reads are never discarded.
NeverOvertaken == reads
Overtaken ==
  IF view.late = "discarded"
  THEN [r \in Reads |-> IF \/ reads[r].kind = "rows"
                           \/ reads[r].kind = "page" /\ view.more = "read"
                        THEN [reads[r] EXCEPT !.wanted = FALSE] ELSE reads[r]]
  ELSE reads
\* The view asks for rows or a page of k; others is what the reads become that
\* it does not start.
Ask(kind, k, others) ==
  /\ asked < MaxReads /\ asked' = asked + 1
  /\ \E r \in Reads :
       /\ reads[r] = NoRead
       /\ \A q \in Reads : q < r => reads[q] # NoRead
       /\ reads' = [others EXCEPT ![r] =
                      [kind |-> kind, key |-> k, has |-> {}, at |-> "sent", wanted |-> TRUE]]

\* A read of rows that shows it is loading, or nothing where it is refused.
ReadRows(k) ==
  IF view.late = "refused" /\ loading
  THEN UNCHANGED <<reads, asked, loading, failed>>
  ELSE Ask("rows", k, Overtaken) /\ loading' = TRUE /\ failed' = FALSE

\* Another folder, order, filter, page; a dialog opens.  Where the key moves
\* with the rows, nothing changes yet.
goTo(k) ==
  /\ k \in view.keys \ {Closed, key}
  /\ IF view.moves = "with"
     THEN ~loading /\ UNCHANGED <<key, rows>>
     ELSE /\ key' = k
          /\ rows' = IF view.hides THEN <<>> ELSE rows
  /\ IF view.keeps /\ rows # <<>>
     THEN UNCHANGED <<reads, asked, loading, failed>>
     ELSE ReadRows(k)
  /\ UNCHANGED <<view, changes, stored, excused>>

close ==
  /\ Closed \in view.keys /\ key # Closed
  /\ view.locks => ChangesInFlight = {}
  /\ key' = Closed /\ reads' = Overtaken
  /\ UNCHANGED <<view, rows, loading, failed, asked, changes, stored, excused>>

readAgain ==
  /\ key # Closed
  /\ \/ view.again = "always"
     \/ view.again = "failed" /\ failed /\ ~loading
  /\ ReadRows(key)
  /\ rows' = IF view.hides THEN <<>> ELSE rows
  /\ UNCHANGED <<view, key, changes, stored, excused>>

\* The second page: never two at a time, and never while a read like it is refused.
loadMore ==
  /\ view.more # "none" /\ key # Closed /\ Len(rows) = 1
  /\ \A r \in Reads : reads[r].kind = "page" => ~reads[r].wanted
  /\ IF view.late = "refused" THEN ~loading /\ loading' = TRUE ELSE UNCHANGED loading
  /\ Ask("page", key, reads)
  /\ UNCHANGED <<view, key, rows, failed, changes, stored, excused>>

\* The server answers a read with what it has then, or the read fails.
serveRead(r) ==
  /\ reads[r].at = "sent"
  /\ \E at \in {"done", "failed"} :
       reads' = [reads EXCEPT ![r].at = at, ![r].has = stored[reads[r].key]]
  /\ UNCHANGED <<view, key, rows, loading, failed, asked, changes, stored, excused>>

\* A page is appended to whatever is shown by then.
readDone(r) ==
  LET read == reads[r]
      page == Page(read.key, read.has)
  IN /\ read.at = "done"
     /\ reads' = [reads EXCEPT ![r] = NoRead]
     /\ IF read.wanted
        THEN /\ rows' = IF read.kind # "page" THEN <<page>>
                        ELSE IF rows = <<>> THEN rows ELSE Append(rows, page)
             /\ key' = IF read.kind # "page" /\ view.moves = "with" THEN read.key ELSE key
             /\ loading' = IF read.kind = "rows" \/ view.late = "refused" THEN FALSE ELSE loading
        ELSE UNCHANGED <<key, rows, loading>>
     /\ UNCHANGED <<view, failed, asked, changes, stored, excused>>

readFails(r) ==
  /\ reads[r].at = "failed"
  /\ reads' = [reads EXCEPT ![r] = NoRead]
  /\ IF reads[r].wanted
     THEN /\ failed' = TRUE
          /\ loading' = IF reads[r].kind = "rows" \/ view.late = "refused" THEN FALSE ELSE loading
     ELSE UNCHANGED <<failed, loading>>
  /\ UNCHANGED <<view, key, rows, asked, changes, stored, excused>>

-----------------------------------------------------------------------------
change(c) ==
  /\ key # Closed /\ changes[c] = NoChange
  /\ ~view.early => ~(view.hides /\ loading) /\ rows # <<>>
  /\ view.serial => ChangesInFlight = {}
  /\ \E kind \in view.edits :
       changes' = [changes EXCEPT ![c] = [kind |-> kind, key |-> key, at |-> "sent"]]
  /\ UNCHANGED <<view, key, rows, loading, failed, reads, asked, stored, excused>>

\* The server makes the change, or not; its answer can be lost when it has.
serveChange(c) ==
  /\ changes[c].at = "sent"
  /\ \E made \in BOOLEAN, at \in {"done", "failed"} :
       /\ at = "done" => made
       /\ changes' = [changes EXCEPT ![c].at = at]
       /\ stored' = IF made THEN [stored EXCEPT ![changes[c].key] = @ \cup {c}] ELSE stored
  /\ UNCHANGED <<view, key, rows, loading, failed, reads, asked, excused>>

\* The answer is put into the rows it is about, or they are read again.
changeDone(c) ==
  /\ changes[c].at = "done"
  /\ changes' = [changes EXCEPT ![c].at = "over"]
  /\ IF changes[c].kind = "patch"
     THEN /\ rows' = [i \in DOMAIN rows |->
                        IF rows[i].key = changes[c].key THEN [rows[i] EXCEPT !.has = @ \cup {c}]
                        ELSE rows[i]]
          /\ UNCHANGED <<reads, asked, loading, failed>>
     ELSE IF view.calls
     THEN /\ Ask("call", changes[c].key, reads)
          /\ UNCHANGED <<rows, loading, failed>>
     ELSE /\ ReadRows(key)
          /\ rows' = IF view.hides THEN <<>> ELSE rows
  /\ UNCHANGED <<view, key, stored, excused>>

changeFails(c) ==
  /\ changes[c].at = "failed"
  /\ changes' = [changes EXCEPT ![c].at = "over"] /\ excused' = TRUE
  /\ UNCHANGED <<view, key, rows, loading, failed, reads, asked, stored>>

ViewsNext ==
  \/ \E k \in Keys : goTo(k)
  \/ close \/ readAgain \/ loadMore
  \/ \E r \in Reads : serveRead(r) \/ readDone(r) \/ readFails(r)
  \/ \E c \in Changes : change(c) \/ serveChange(c) \/ changeDone(c) \/ changeFails(c)

ViewsSpec == ViewsInit /\ [][ViewsNext]_viewVars

-----------------------------------------------------------------------------
AtRest == ReadsInFlight = {} /\ ChangesInFlight = {} /\ ~failed /\ ~excused /\ key # Closed

\* Views that show, under one key, rows read for another.
Mixed == {"audit", "job runs", "upload sessions", "desktop collection", "desktop collections",
          "desktop favorites", "desktop files", "desktop search", "desktop trash"}
\* Views that lose a change they have shown, or never show it.
Outdated == {"access", "collection", "favorites", "share", "storage overview", "users",
             "desktop access", "desktop bots", "desktop collection", "desktop favorites",
             "desktop trash", "desktop users"}

\* However reads, second pages, changes, openings and moves of one view
\* interleave and their answers are delayed: once all are answered and none
\* failed, the view is not loading, it shows rows, every page of them is of the
\* key it is at, and they contain every change made there.  Mixed views are
\* excused from the keys and Outdated ones from the changes.
ViewsAreCurrent ==
  AtRest =>
    /\ ~loading /\ rows # <<>>
    /\ view.name \notin Mixed => \A i \in DOMAIN rows : rows[i].key = key
    /\ view.name \notin Outdated => (rows[1].key = key => rows[1].has = stored[key])
=============================================================================
