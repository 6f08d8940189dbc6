----------------------------- MODULE DropTargets ------------------------------
(* Where files are dropped and picked for an upload: FileUploadTarget of the   *)
(* web client and DesktopFileUploadTarget.  The browser's target stays while   *)
(* its folder changes, sees the drag through an overlay it renders over the    *)
(* page, and reads what was dropped before it adds it; the desktop's is        *)
(* mounted anew with every folder, and asks the webview for its events.        *)
EXTENDS Naturals

CONSTANTS
  Folders,
  MaxMounts, \* bound: of desktop targets
  MaxGifts   \* bound: drops and picks
ASSUME TargetsAssumption == MaxMounts \in Nat \ {0} /\ MaxGifts \in Nat

VARIABLES
  app,      \* which of the two
  target,   \* the target shown: the last one mounted, or 0 while a folder is loaded
  targets,  \* the targets: their folder, whether it can be written to, the events
  drag,     \* external: where the files are that are dragged
  overlay,  \* dragOverlayActive, dragActive
  ready,    \* dropReady: the web's overlay says "Release to upload"
  held,     \* the drop the browser reads: a gift, and whether on the panel
  picking,  \* the target whose file dialog is open, or 0
  gifts,    \* history: the folder shown when each gift was made
  uploads,  \* history: the gifts added
  slipped   \* history: a drag ended that the overlay did not see end

targetVars == <<app, target, targets, drag, overlay, ready, held, picking, gifts, uploads, slipped>>

NoHold == [gift |-> 0, folder |-> "none", inside |-> FALSE]
Unmounted == [folder |-> "none", editable |-> FALSE, events |-> "none", disposed |-> FALSE, busy |-> FALSE]
Mounted(f, e) == [Unmounted EXCEPT !.folder = f, !.editable = e, !.events = IF e THEN "asked" ELSE "none"]
Gifts == DOMAIN gifts
NextGift == CHOOSE n \in 1..MaxGifts : n \notin Gifts /\ n - 1 \in Gifts \cup {0}
Gave(f) == gifts' = [g \in Gifts \cup {NextGift} |-> IF g = NextGift THEN f ELSE gifts[g]]
More == \E n \in 1..MaxGifts : n \notin Gifts
Added(g, t, f) == [gift |-> g, folder |-> f, stray |-> t # target] \* by a target not shown

Here == targets[target]
Web == app = "web"
Desktop == app = "desktop"

TargetsInit ==
  /\ app \in {"web", "desktop"} /\ target = 1
  /\ \E f \in Folders, e \in BOOLEAN :
       targets = [t \in 1..MaxMounts |-> IF t = 1 THEN Mounted(f, e) ELSE Unmounted]
  /\ drag = "out" /\ overlay = FALSE /\ ready = FALSE /\ held = NoHold /\ picking = 0
  /\ gifts = [g \in {} |-> "none"] /\ uploads = {} /\ slipped = FALSE

-----------------------------------------------------------------------------
(* The web client.                                                            *)
FileUploadTarget(f, e) ==
  /\ Web /\ targets' = [targets EXCEPT ![1] = Mounted(f, e)]
  /\ IF e THEN UNCHANGED <<drag, overlay, ready>>
     ELSE /\ overlay' = FALSE /\ ready' = FALSE
          /\ drag' = IF drag = "out" THEN "out" ELSE "page"
  /\ UNCHANGED <<app, target, held, picking, gifts, uploads, slipped>>

\* The files are dragged over an element of the page: the overlay is rendered.
handleDragEnter ==
  /\ Web /\ drag \in {"out", "page"} /\ drag' = "page"
  /\ overlay' = (overlay \/ Here.editable)
  /\ UNCHANGED <<app, target, targets, ready, held, picking, gifts, uploads, slipped>>

\* Only then are they over the overlay, or its panel.
onDragOver ==
  /\ Web /\ overlay /\ drag # "out"
  /\ drag' \in {"overlay", "panel"} /\ ready' = (drag' = "panel")
  /\ UNCHANGED <<app, target, targets, overlay, held, picking, gifts, uploads, slipped>>

\* A drag that leaves the page, or ends, before it was over the overlay is not
\* the overlay's.
onDragLeave ==
  /\ Web /\ drag # "out" /\ drag' = "out"
  /\ overlay' = (overlay /\ drag = "page") /\ ready' = (ready /\ drag = "page")
  /\ slipped' = IF drag = "page" THEN slipped \/ overlay ELSE FALSE
  /\ UNCHANGED <<app, target, targets, held, picking, gifts, uploads>>

\* The drop, and what happens when its files were read.
drop ==
  /\ Web /\ drag \in {"overlay", "panel"} /\ held = NoHold /\ More
  /\ drag' = "out" /\ slipped' = FALSE
  /\ Gave(Here.folder)
  /\ held' = [gift |-> NextGift, folder |-> Here.folder, inside |-> drag = "panel"]
  /\ UNCHANGED <<app, target, targets, overlay, ready, picking, uploads>>

onDrop ==
  /\ Web /\ held # NoHold /\ held' = NoHold
  /\ overlay' = FALSE /\ ready' = FALSE
  /\ drag' = IF drag = "out" THEN "out" ELSE "page"
  /\ uploads' = IF held.inside /\ overlay
                THEN uploads \cup {Added(held.gift, 1, held.folder)} ELSE uploads
  /\ UNCHANGED <<app, target, targets, picking, gifts, slipped>>

-----------------------------------------------------------------------------
(* The desktop application.                                                   *)
unmount ==
  /\ Desktop /\ target # 0 /\ target < MaxMounts
  /\ targets' = [targets EXCEPT ![target].disposed = TRUE,
                                ![target].events = IF @ = "live" THEN "none" ELSE @]
  /\ target' = 0 /\ overlay' = FALSE
  /\ UNCHANGED <<app, drag, ready, held, picking, gifts, uploads, slipped>>

DesktopFileUploadTarget(f, e) ==
  /\ Desktop /\ target = 0
  /\ LET t == CHOOSE n \in 1..MaxMounts : targets[n] = Unmounted /\ \A m \in 1..(n - 1) : targets[m] # Unmounted
     IN target' = t /\ targets' = [targets EXCEPT ![t] = Mounted(f, e)]
  /\ UNCHANGED <<app, drag, overlay, ready, held, picking, gifts, uploads, slipped>>

\* onDragDropEvent is answered; a target that is gone by then unsubscribes.
subscribed(t) ==
  /\ Desktop /\ targets[t].events = "asked"
  /\ targets' = [targets EXCEPT ![t].events = IF targets[t].disposed THEN "none" ELSE "live"]
  /\ UNCHANGED <<app, target, drag, overlay, ready, held, picking, gifts, uploads, slipped>>

\* Who hears an event: all that are subscribed, and of those that have asked some.
Hears(h) == {t \in 1..MaxMounts : targets[t].events = "live"} \subseteq h
            /\ \A t \in h : targets[t].events \in {"live", "asked"}

onDragDropEvent(h) ==
  /\ Desktop /\ Hears(h)
  /\ \/ drag' = "page" /\ overlay' = (overlay \/ (target \in h /\ ~Here.busy)) /\ UNCHANGED slipped
     \/ /\ drag # "out" /\ drag' = "out"
        /\ overlay' = (overlay /\ target \notin h) /\ slipped' = overlay'
  /\ UNCHANGED <<app, target, targets, ready, held, picking, gifts, uploads>>

\* enqueuePaths: of a target whose last paths are still being added nothing is.
dropPaths(h) ==
  LET takers == {t \in h : ~targets[t].busy} IN
  /\ Desktop /\ Hears(h) /\ drag # "out" /\ drag' = "out" /\ More
  /\ overlay' = (overlay /\ target \notin h) /\ slipped' = overlay'
  /\ Gave(IF target = 0 THEN "none" ELSE Here.folder)
  /\ uploads' = uploads \cup {Added(NextGift, t, targets[t].folder) : t \in takers}
  /\ targets' = [t \in 1..MaxMounts |-> IF t \in takers THEN [targets[t] EXCEPT !.busy = TRUE] ELSE targets[t]]
  /\ UNCHANGED <<app, target, ready, held, picking>>

enqueued(t) ==
  /\ targets[t].busy /\ targets' = [targets EXCEPT ![t].busy = FALSE]
  /\ UNCHANGED <<app, target, drag, overlay, ready, held, picking, gifts, uploads, slipped>>

-----------------------------------------------------------------------------
(* The file dialogs, of "Upload" and of the command.                          *)
openFiles ==
  /\ target # 0 /\ Here.editable /\ ~Here.busy /\ picking = 0 /\ picking' = target
  /\ UNCHANGED <<app, target, targets, drag, overlay, ready, held, gifts, uploads, slipped>>

\* The browser adds to the folder it shows by then, unless it cannot be written
\* to; the desktop to the folder the dialog was opened for.
picked ==
  /\ picking # 0 /\ picking' = 0 /\ More
  /\ LET t == targets[picking] IN
     /\ Gave(t.folder)
     /\ IF t.editable /\ ~t.busy
        THEN /\ uploads' = uploads \cup {Added(NextGift, picking, t.folder)}
             /\ targets' = IF Desktop THEN [targets EXCEPT ![picking].busy = TRUE] ELSE targets
        ELSE UNCHANGED <<uploads, targets>>
  /\ UNCHANGED <<app, target, drag, overlay, ready, held, slipped>>

TargetsNext ==
  \/ \E f \in Folders, e \in BOOLEAN : FileUploadTarget(f, e) \/ DesktopFileUploadTarget(f, e)
  \/ handleDragEnter \/ onDragOver \/ onDragLeave \/ drop \/ onDrop
  \/ unmount \/ \E t \in 1..MaxMounts : subscribed(t) \/ enqueued(t)
  \/ \E h \in SUBSET (1..MaxMounts) : onDragDropEvent(h) \/ dropPaths(h)
  \/ openFiles \/ picked

TargetsSpec == TargetsInit /\ [][TargetsNext]_targetVars

-----------------------------------------------------------------------------
\* However folders change meanwhile: what was dropped or picked is added to the
\* folder that was shown then, and once; except by a desktop target that was gone
\* before it was subscribed, which adds it to its own folder as well.  The overlay is
\* there only over a folder that can be written to and, but for a drag that
\* slipped by it, only as long as something is dragged or read.
DropsReachTheirFolder ==
  /\ \A u \in uploads : u.folder = gifts[u.gift] \/ u.stray
  /\ \A u, v \in uploads : u.gift = v.gift => u = v \/ u.stray \/ v.stray
  /\ overlay => target # 0 /\ Here.editable /\ (drag # "out" \/ held # NoHold \/ slipped)
  /\ ready => overlay
=============================================================================
