----------------------------- MODULE UploadPages -----------------------------
(* What the browser shows of its uploads: the store with its indexes of the   *)
(* tasks by status (web/src/lib/uploads/upload-store.ts), the progress that   *)
(* the engine publishes late, the dock that announces the end of a batch, and *)
(* the page with its selection and its actions on many tasks at once.  The    *)
(* engine itself is WebUploads: here a task takes the steps it takes there.   *)
EXTENDS Naturals, Sequences, FiniteSets, SequencesExt

CONSTANTS
  Uploads,        \* task ids
  Size,           \* of every file, in published steps of progress
  MaxCompletions  \* bound: of completionVersion
ASSUME UploadPagesAssumption ==
  Size \in Nat \ {0} /\ MaxCompletions \in Nat /\ "none" \notin Uploads

VARIABLES
  tasks, order,  \* the store: the tasks listed and their order
  index,         \* activeIds, uploadingIds, finalizingIds, failedIds, in insertion order
  lastFailedId,
  summary,       \* activeCount, failedCount and the copy of the current task
  completionVersion,
  pendingProgress, \* the engine's: progress that is not published yet
  chosen,      \* the page's selection
  cancelling,    \* the targets of the page's cancelMany calls that wait for their DELETEs
  dock,          \* completionVersion seen, completion visible, hovered, its timer
  pointer,       \* external: the pointer is over the dock
  earned,        \* history: the last task to be active completed, and none was failed
  vanished       \* history: the dock went away under the pointer

uploadStoreVars == <<tasks, order, index, lastFailedId, summary, completionVersion>>
dockVars == <<dock, pointer, vanished>>
uploadPageVars == <<uploadStoreVars, pendingProgress, chosen, cancelling, dockVars, earned>>

NoTask == "none"
Unlisted == [status |-> NoTask, session |-> FALSE, bytes |-> 0]
IsActive(s) == s \in {"queued", "preparing", "uploading", "finalizing", "cancelling"}
Listed == {u \in Uploads : tasks[u].status # NoTask}
NoIndex == [active |-> <<>>, uploading |-> <<>>, finalizing |-> <<>>, failed |-> <<>>]
NoSummary == [activeCount |-> 0, failedCount |-> 0, id |-> NoTask, task |-> Unlisted]

UploadPagesInit ==
  /\ tasks = [u \in Uploads |-> Unlisted] /\ order = <<>>
  /\ index = NoIndex /\ lastFailedId = NoTask /\ summary = NoSummary /\ completionVersion = 0
  /\ pendingProgress = [u \in Uploads |-> 0]
  /\ chosen = {} /\ cancelling = {}
  /\ dock = [seen |-> 0, visible |-> FALSE, hovered |-> FALSE, timer |-> FALSE]
  /\ pointer = FALSE /\ earned = FALSE /\ vanished = FALSE

-----------------------------------------------------------------------------
(* The store.                                                                 *)

\* updateStatusSet: a Set of the language, which keeps the order of insertion.
Reindexed(ids, u, had, has) ==
  IF ~had /\ has THEN Append(ids, u) ELSE IF had /\ ~has THEN RemoveFirst(ids, u) ELSE ids

updateIndexes(u, previous, next) ==
  [active |-> Reindexed(index.active, u, IsActive(previous), IsActive(next)),
   uploading |-> Reindexed(index.uploading, u, previous = "uploading", next = "uploading"),
   finalizing |-> Reindexed(index.finalizing, u, previous = "finalizing", next = "finalizing"),
   failed |-> Reindexed(index.failed, u, previous = "error", next = "error")]

\* A bug to be found: the task that failed last is forgotten with its failure.
lastFailedForgotten(ix, u, previous, next) ==
  IF previous # "error" /\ next = "error" THEN u
  ELSE IF previous = "error" /\ next # "error" /\ lastFailedId = u THEN NoTask
  ELSE lastFailedId

LastFailed(ix, u, previous, next) ==
  IF previous # "error" /\ next = "error" THEN u
  ELSE IF previous = "error" /\ next # "error" /\ lastFailedId = u
  THEN IF ix.failed = <<>> THEN NoTask ELSE Last(ix.failed)
  ELSE lastFailedId

Front1(ids, otherwise) == IF ids = <<>> THEN otherwise ELSE Head(ids)

\* currentSummary.
Summary(ix, failed, ts) ==
  LET id == Front1(ix.uploading, Front1(ix.finalizing, Front1(ix.active, failed)))
  IN [activeCount |-> Len(ix.active), failedCount |-> Len(ix.failed), id |-> id,
      task |-> IF id = NoTask THEN Unlisted ELSE ts[id]]

\* The task u has become next: the indexes and the summary follow its status.
Becomes(u, next) ==
  /\ tasks' = [tasks EXCEPT ![u] = next]
  /\ index' = updateIndexes(u, tasks[u].status, next.status)
  /\ lastFailedId' = LastFailed(index', u, tasks[u].status, next.status)
  /\ summary' = Summary(index', lastFailedId', tasks')

addUploadTasks(u) ==
  /\ u \notin Listed
  /\ Becomes(u, [Unlisted EXCEPT !.status = "queued"])
  /\ order' = Append(order, u) /\ earned' = FALSE
  /\ UNCHANGED <<completionVersion, pendingProgress, chosen, cancelling, dockVars>>

\* The engine's patchTask and patchUploadTask, of a task that is listed; with its
\* current status nothing changes that is told apart here.
patchUploadTask(u, next) ==
  LET ends == IsActive(tasks[u].status) /\ summary.activeCount = 1 /\ ~IsActive(next.status)
  IN /\ next.status # tasks[u].status
     /\ Becomes(u, next)
     /\ pendingProgress' = IF next.status = "uploading" THEN pendingProgress
                           ELSE [pendingProgress EXCEPT ![u] = 0]
     /\ IF /\ next.status = "completed" /\ summary.activeCount > 0
           /\ index'.active = <<>> /\ index'.failed = <<>>
        THEN completionVersion < MaxCompletions /\ completionVersion' = completionVersion + 1
        ELSE UNCHANGED completionVersion
     /\ earned' = IF ends THEN next.status = "completed" /\ index'.failed = <<>>
                  ELSE earned /\ ~IsActive(next.status) /\ next.status # "error"
     /\ UNCHANGED order

\* What the runs of WebUploads make of a task, and the answers to its DELETE.
Steps ==
  [queued |-> {"preparing", "uploading", "error"},
   preparing |-> {"uploading", "finalizing", "completed", "skipped", "error", "cancelled"},
   uploading |-> {"finalizing", "error"},
   finalizing |-> {"completed", "error", "cancelled"},
   cancelling |-> {"uploading", "finalizing", "completed", "cancelled", "error"},
   cancelled |-> {"uploading", "finalizing", "error"},
   error |-> {"preparing", "uploading", "finalizing", "completed", "cancelled"},
   completed |-> {"error"}, skipped |-> {}]

runGoesOn(u) ==
  /\ u \in Listed
  /\ \E s \in Steps[tasks[u].status] :
       patchUploadTask(u, [status |-> s,
                           session |-> tasks[u].session \/ s \in {"uploading", "finalizing", "completed"},
                           bytes |-> IF s = "completed" THEN Size
                                     ELSE IF s = "skipped" THEN 0 ELSE tasks[u].bytes])
  /\ UNCHANGED <<chosen, cancelling, dockVars>>

\* A part of the task's file was sent, now n steps in all; what is noted of a task
\* that is not uploading goes with its next status.
queueProgress(u, n) ==
  /\ u \in Listed /\ tasks[u].status = "uploading" /\ n # pendingProgress[u]
  /\ pendingProgress' = [pendingProgress EXCEPT ![u] = n]
  /\ UNCHANGED <<uploadStoreVars, chosen, cancelling, dockVars, earned>>

\* The timer publishes what is pending of the tasks that are uploading; progress
\* never goes back.
updateUploadProgress ==
  /\ \E u \in Uploads : pendingProgress[u] # 0
  /\ tasks' = [u \in Uploads |->
       IF tasks[u].status = "uploading" /\ pendingProgress[u] > tasks[u].bytes
       THEN [tasks[u] EXCEPT !.bytes = pendingProgress[u]] ELSE tasks[u]]
  /\ summary' = IF summary.id = NoTask THEN summary ELSE [summary EXCEPT !.task = tasks'[summary.id]]
  /\ pendingProgress' = [u \in Uploads |-> 0]
  /\ UNCHANGED <<order, index, lastFailedId, completionVersion, chosen, cancelling, dockVars, earned>>

-----------------------------------------------------------------------------
(* The page.                                                                  *)
canCancel(u) == \/ tasks[u].status = "queued"
                \/ tasks[u].session /\ tasks[u].status \in {"preparing", "uploading", "error"}
canRemove(u) == \/ tasks[u].status \in {"completed", "skipped", "cancelled"}
                \/ tasks[u].status = "error" /\ ~tasks[u].session

\* The box of a row, and the one of all rows.
mark(u) ==
  /\ u \in Listed
  /\ chosen' = IF u \in chosen THEN chosen \ {u} ELSE chosen \cup {u}
  /\ UNCHANGED <<uploadStoreVars, pendingProgress, cancelling, dockVars, earned>>

markAll ==
  /\ Listed # {}
  /\ chosen' = IF Listed \subseteq chosen THEN {} ELSE Listed
  /\ UNCHANGED <<uploadStoreVars, pendingProgress, cancelling, dockVars, earned>>

\* retryMany tells the engine one task after the other: here one at a time.
retryOne(u) ==
  /\ tasks[u].status = "error"
  /\ patchUploadTask(u, [tasks[u] EXCEPT !.status = "queued"])
  /\ chosen' \in {chosen, chosen \ {u}} \* the row's button keeps the selection
  /\ UNCHANGED <<cancelling, dockVars>>

\* cancel() of a task that is queued is done at once, of another a DELETE goes out.
cancelOne(u) ==
  /\ canCancel(u)
  /\ patchUploadTask(u, [tasks[u] EXCEPT !.status = IF @ = "queued" THEN "cancelled" ELSE "cancelling"])
  /\ UNCHANGED <<chosen, dockVars>>

cancelRow(u) == cancelOne(u) /\ UNCHANGED cancelling

\* Cancel selected, Cancel all: told apart from one after the other only by what
\* the page forgets in the end.
cancelMany(u) == cancelOne(u) /\ cancelling' = cancelling \cup {u}

\* All requests of a call have been answered.
cancelManyEnds ==
  /\ cancelling # {}
  /\ \E targets \in SUBSET cancelling \ {{}} :
       chosen' = chosen \ targets /\ cancelling' = cancelling \ targets
  /\ UNCHANGED <<uploadStoreVars, pendingProgress, dockVars, earned>>

removeUploadTask(u) ==
  /\ Becomes(u, Unlisted) /\ order' = RemoveFirst(order, u)
  /\ chosen' = chosen \ {u}
  /\ UNCHANGED <<completionVersion, pendingProgress, cancelling, dockVars, earned>>

\* Dismiss, or Clear completed.
remove(u) == u \in Listed /\ canRemove(u) /\ removeUploadTask(u)

-----------------------------------------------------------------------------
(* The dock.                                                                  *)
NeedsAttention == summary.activeCount > 0 \/ summary.failedCount > 0
Shown == NeedsAttention \/ dock.visible

\* The dock was rendered with what the store says, and its effects have run.
Rendered == dock.seen = completionVersion /\ (NeedsAttention => ~dock.visible)

dockEffects ==
  LET visible == ~NeedsAttention /\ (dock.visible \/ completionVersion # dock.seen)
  IN /\ ~Rendered
     /\ dock' = [dock EXCEPT !.seen = completionVersion, !.visible = visible,
                  !.timer = IF visible = dock.visible THEN @ ELSE visible /\ ~dock.hovered]
     /\ UNCHANGED <<uploadStoreVars, pendingProgress, chosen, cancelling, earned, pointer, vanished>>

\* Nothing is left to show: the dock leaves the page, and no event tells it that
\* the pointer left.
dockVanishes ==
  /\ ~Shown /\ pointer
  /\ pointer' = FALSE /\ vanished' = TRUE
  /\ UNCHANGED <<uploadStoreVars, pendingProgress, chosen, cancelling, dock, earned>>

pointerEnters ==
  /\ Shown /\ ~pointer /\ pointer' = TRUE /\ vanished' = FALSE
  /\ dock' = [dock EXCEPT !.hovered = TRUE, !.timer = FALSE]
  /\ UNCHANGED <<uploadStoreVars, pendingProgress, chosen, cancelling, earned>>

pointerLeaves ==
  /\ Shown /\ pointer /\ pointer' = FALSE
  /\ dock' = [dock EXCEPT !.hovered = FALSE, !.timer = dock.visible]
  /\ UNCHANGED <<uploadStoreVars, pendingProgress, chosen, cancelling, earned, vanished>>

\* Three seconds have passed.
hideTimer ==
  /\ dock.timer
  /\ dock' = [dock EXCEPT !.visible = FALSE, !.timer = FALSE]
  /\ UNCHANGED <<uploadStoreVars, pendingProgress, chosen, cancelling, earned, pointer, vanished>>

\* React renders, and runs the effects, before the next event is handled.
UploadPagesNext ==
  IF ~Rendered \/ (~Shown /\ pointer) THEN dockEffects \/ dockVanishes
  ELSE \/ \E u \in Uploads :
            \/ addUploadTasks(u) \/ runGoesOn(u) \/ mark(u) \/ retryOne(u) \/ cancelRow(u)
            \/ cancelMany(u) \/ remove(u)
            \/ \E n \in 1..Size : queueProgress(u, n)
       \/ cancelManyEnds \/ updateUploadProgress \/ markAll \/ pointerEnters \/ pointerLeaves \/ hideTimer

UploadPagesSpec == UploadPagesInit /\ [][UploadPagesNext]_uploadPageVars

-----------------------------------------------------------------------------
WithStatus(S) == {u \in Uploads : tasks[u].status \in S}
Rank(u) == CASE tasks[u].status = "uploading" -> 1
             [] tasks[u].status = "finalizing" -> 2
             [] tasks[u].status \in {"queued", "preparing", "cancelling"} -> 3
             [] tasks[u].status = "error" -> 4

\* The counters, kept up change by change, are those of the tasks listed; the
\* task the dock names is one of the most telling status, a failed one only when
\* none is active, and the copy it shows is the task as it is listed, with the
\* latest progress.
SummaryIsDerived ==
  /\ summary.activeCount = Cardinality({u \in Uploads : IsActive(tasks[u].status)})
  /\ summary.failedCount = Cardinality(WithStatus({"error"}))
  /\ LET telling == {u \in Uploads : IsActive(tasks[u].status) \/ tasks[u].status = "error"}
     IN IF telling = {} THEN summary.id = NoTask
        ELSE /\ summary.id \in telling /\ summary.task = tasks[summary.id]
             /\ \A u \in telling : Rank(summary.id) <= Rank(u)
  /\ ToSet(order) = Listed

\* "Upload complete" is shown after a batch that ended with a completed task and
\* left no failed one, and goes away: a timer runs unless the pointer is over the
\* dock.  The dock that vanished under the pointer keeps it for there.
DockIsHonest ==
  /\ Rendered /\ dock.visible => earned
  /\ Rendered /\ dock.visible /\ ~vanished => (dock.timer <=> ~pointer)

\* The page selects tasks it lists, and no cancel of many forgets its targets.
UploadsAreShown ==
  /\ SummaryIsDerived /\ DockIsHonest
  /\ chosen \subseteq Listed
=============================================================================
