-------------------------- MODULE TransferProjection --------------------------
(* The desktop's view of its transfers: the native engine (external, Rust)     *)
(* changes tasks under a lock, numbers every change, and emits it after the    *)
(* lock is released, so events overtake each other; the provider subscribes    *)
(* event by event, asks for a snapshot, and folds all of it into a store       *)
(* (uploads/core/upload-store.ts, downloads/core/download-store.ts).           *)
EXTENDS Integers, Sequences, SequencesExt, FiniteSets

CONSTANTS
  Transfers,      \* task ids, used once each
  MaxRevision,    \* bound: changes of the native engine
  Subscriptions   \* bound: mounts of the provider, in this order
ASSUME ProjectionAssumption ==
  Subscriptions \subseteq Nat \ {0} /\ MaxRevision \in Nat /\ Transfers \cap {"none", "answer"} = {}

VARIABLES
  kind,       \* which of the two stores: "uploads" or "downloads"
  revision, native, born, \* external: the engine's revision, tasks, ids used
  events,     \* external: emitted and not yet delivered
  sub,        \* the provider's mounts
  shownTasks, order, baselineRevision, latestRevision, taskRevisions, removedRevisions,
  indexes,    \* uploads: activeIds, uploadingIds, finalizingIds, failedIds
  lastFailedId, activeCount, failedCount, currentTask,
  wiped       \* history: a mount that was over emptied the store of the next

storeVars == <<shownTasks, order, baselineRevision, latestRevision, taskRevisions, removedRevisions,
               indexes, lastFailedId, activeCount, failedCount, currentTask>>
projectionVars == <<kind, revision, native, born, events, sub, storeVars, wiped>>

ActiveStates == {"queued", "uploading", "finalizing"}
States == ActiveStates \cup {"completed", "error"}
EventTypes == <<"snapshot", "task", "removed">>
Larger(a, b) == IF a > b THEN a ELSE b
NoTasks == [t \in Transfers |-> "none"]
NoRevisions == [t \in Transfers |-> -1]
NoIndexes == [active |-> <<>>, uploading |-> <<>>, finalizing |-> <<>>, failed |-> <<>>]
Mounted == {s \in Subscriptions : sub[s].mounted}

ProjectionInit ==
  /\ kind \in {"uploads", "downloads"}
  /\ revision = 0 /\ native = NoTasks /\ born = {} /\ events = {}
  /\ sub = [s \in Subscriptions |-> [phase |-> "none", mounted |-> FALSE, heard |-> {}]]
  /\ shownTasks = NoTasks /\ order = <<>> /\ baselineRevision = -1 /\ latestRevision = -1
  /\ taskRevisions = NoRevisions /\ removedRevisions = NoRevisions
  /\ indexes = NoIndexes /\ lastFailedId = "none"
  /\ activeCount = 0 /\ failedCount = 0 /\ currentTask = "none"
  /\ wiped = FALSE

-----------------------------------------------------------------------------
(* The native engine (external).                                               *)

\* A change is numbered under the lock and emitted to whoever listens when it arrives.
emit(e) ==
  /\ revision < MaxRevision /\ revision' = revision + 1 \* bound
  /\ events' = events \cup {[e EXCEPT !.revision = revision + 1]}

Event(type, t, s, all) == [type |-> type, revision |-> 0, task |-> t, state |-> s, tasks |-> all]

\* Uploads are added with a snapshot, downloads with an event of their own.
nativeAdds(t) ==
  /\ t \notin born /\ born' = born \cup {t}
  /\ native' = [native EXCEPT ![t] = "queued"]
  /\ emit(IF kind = "uploads" THEN Event("snapshot", "none", "none", native')
          ELSE Event("task", t, "queued", NoTasks))

nativeChanges(t) ==
  /\ native[t] \in States /\ UNCHANGED born
  /\ \E s \in States \ {native[t]} :
       /\ native' = [native EXCEPT ![t] = s] /\ emit(Event("task", t, s, NoTasks))

nativeRemoves(t) ==
  /\ native[t] \in {"completed", "error"} /\ UNCHANGED born
  /\ native' = [native EXCEPT ![t] = "none"]
  /\ emit(Event("removed", t, "none", NoTasks))

\* The engine is reset when the user signs out.
nativeResets ==
  /\ native # NoTasks /\ native' = NoTasks /\ UNCHANGED born
  /\ emit(Event("snapshot", "none", "none", NoTasks))

-----------------------------------------------------------------------------
(* The stores.                                                                 *)

\* The elements of s that are in S, in their order.
Kept(s, S) ==
  LET upTo[i \in 0..Len(s)] ==
        IF i = 0 THEN <<>>
        ELSE IF s[i] \in S THEN Append(upTo[i - 1], s[i]) ELSE upTo[i - 1]
  IN upTo[Len(s)]

\* updateStatusIndexes, and the same for the set of one status.
updateStatusSet(ids, t, had, has) ==
  IF ~had /\ has THEN Append(ids, t) ELSE IF had /\ ~has THEN Kept(ids, Transfers \ {t}) ELSE ids

updateStatusIndexes(ix, t, previous, next) ==
  [active |-> updateStatusSet(ix.active, t, previous \in ActiveStates, next \in ActiveStates),
   uploading |-> updateStatusSet(ix.uploading, t, previous = "uploading", next = "uploading"),
   finalizing |-> updateStatusSet(ix.finalizing, t, previous = "finalizing", next = "finalizing"),
   failed |-> updateStatusSet(ix.failed, t, previous = "error", next = "error")]

lastFailed(ix, t, previous, next) ==
  IF previous # "error" /\ next = "error" THEN t
  ELSE IF previous = "error" /\ next # "error" /\ lastFailedId = t
  THEN IF ix.failed = <<>> THEN "none" ELSE Last(ix.failed)
  ELSE lastFailedId

\* rebuildStatusIndexes: what updateStatusIndexes makes of the tasks in order.
rebuildStatusIndexes(ts, ids) ==
  LET Of(S) == Kept(ids, {t \in Transfers : ts[t] \in S})
  IN [active |-> Of(ActiveStates), uploading |-> Of({"uploading"}),
      finalizing |-> Of({"finalizing"}), failed |-> Of({"error"})]

HeadOr(s, otherwise) == IF s = <<>> THEN otherwise ELSE Head(s)
LastOr(s, otherwise) == IF s = <<>> THEN otherwise ELSE Last(s)

\* The upload store's summary, from its indexes.
currentSummary(ix, failed) ==
  /\ indexes' = ix /\ lastFailedId' = failed
  /\ activeCount' = Len(ix.active) /\ failedCount' = Len(ix.failed)
  /\ currentTask' = HeadOr(ix.uploading, HeadOr(ix.finalizing, HeadOr(ix.active, failed)))

\* The download store's summary, from its tasks.
summary(ts, ids) ==
  LET Of(S) == Kept(ids, {t \in Transfers : ts[t] \in S})
  IN /\ activeCount' = Len(Of(ActiveStates)) /\ failedCount' = Len(Of({"error"}))
     /\ currentTask' = HeadOr(Of(ActiveStates \cup {"error"}), "none")
     /\ UNCHANGED <<indexes, lastFailedId>>

\* A snapshot replaces all but what newer events said of single tasks.
merged(e) ==
  /\ taskRevisions' = [t \in Transfers |-> IF taskRevisions[t] > e.revision /\ shownTasks[t] # "none"
                                           THEN taskRevisions[t] ELSE -1]
  /\ removedRevisions' = [t \in Transfers |-> IF removedRevisions[t] > e.revision
                                              THEN removedRevisions[t] ELSE -1]
  /\ shownTasks' = [t \in Transfers |-> IF removedRevisions'[t] # -1 THEN "none"
                                        ELSE IF taskRevisions'[t] # -1 THEN shownTasks[t]
                                        ELSE e.tasks[t]]
  /\ baselineRevision' = e.revision
  /\ latestRevision' = Larger(latestRevision, e.revision)
  /\ LET listed == SetToSeq({t \in Transfers : e.tasks[t] # "none"})
         newer == SetToSeq({t \in Transfers : taskRevisions'[t] # -1 /\ e.tasks[t] = "none"})
     IN order' = Kept(listed \o newer, {t \in Transfers : shownTasks'[t] # "none"})

replaceUploadSnapshot(e) ==
  /\ merged(e)
  /\ LET ix == rebuildStatusIndexes(shownTasks', order')
     IN currentSummary(ix, LastOr(ix.failed, "none"))

replaceDownloadSnapshot(e) == merged(e) /\ summary(shownTasks', order')

\* A bug to be found: an event is compared with the last snapshot only.
isNewsSinceSnapshot(e) == e.revision > baselineRevision

isNews(e) ==
  /\ e.revision > baselineRevision
  /\ e.revision > Larger(taskRevisions[e.task], removedRevisions[e.task])

\* The event's task is what it says, whatever was known of it before.
projected(e) ==
  LET known == shownTasks[e.task] # "none"
      gone == e.type = "removed"
  IN /\ shownTasks' = [shownTasks EXCEPT ![e.task] = e.state]
     /\ order' = IF gone THEN Kept(order, Transfers \ {e.task})
                 ELSE IF known THEN order ELSE Append(order, e.task)
     /\ taskRevisions' = [taskRevisions EXCEPT ![e.task] = IF gone THEN -1 ELSE e.revision]
     /\ removedRevisions' = [removedRevisions EXCEPT ![e.task] = IF gone THEN e.revision ELSE -1]
     /\ latestRevision' = Larger(latestRevision, e.revision)
     /\ UNCHANGED baselineRevision

applyUploadEvent(e) ==
  LET previous == shownTasks[e.task]
      ix == updateStatusIndexes(indexes, e.task, previous, e.state)
  IN projected(e) /\ currentSummary(ix, lastFailed(ix, e.task, previous, e.state))

applyDownloadEvent(e) == projected(e) /\ summary(shownTasks', order')

emptied ==
  /\ shownTasks' = NoTasks /\ order' = <<>> /\ baselineRevision' = -1 /\ latestRevision' = -1
  /\ taskRevisions' = NoRevisions /\ removedRevisions' = NoRevisions
  /\ indexes' = NoIndexes /\ lastFailedId' = "none"
  /\ activeCount' = 0 /\ failedCount' = 0 /\ currentTask' = "none"

\* What the handlers of a mounted provider make of an event.
fold(e) ==
  IF e.type = "snapshot"
  THEN IF e.revision < baselineRevision THEN UNCHANGED storeVars
       ELSE IF kind = "uploads" THEN replaceUploadSnapshot(e) ELSE replaceDownloadSnapshot(e)
  ELSE IF ~isNews(e) THEN UNCHANGED storeVars
       ELSE IF kind = "uploads" THEN applyUploadEvent(e) ELSE applyDownloadEvent(e)

-----------------------------------------------------------------------------
(* The provider.                                                               *)

\* Its effect begins to subscribe.
mount(s) ==
  /\ Mounted = {} /\ sub[s].phase = "none" /\ \A r \in Subscriptions : r < s => sub[r].phase # "none"
  /\ sub' = [sub EXCEPT ![s] = [phase |-> "listening", mounted |-> TRUE, heard |-> {}]]
  /\ UNCHANGED <<storeVars, wiped>>

\* listen resolves for one more event, or the snapshot is asked for.
listen(s) ==
  /\ sub[s].phase = "listening"
  /\ LET n == Cardinality(sub[s].heard)
     IN IF n < Len(EventTypes)
        THEN sub' = [sub EXCEPT ![s].heard = @ \cup {EventTypes[n + 1]}]
        ELSE sub' = [sub EXCEPT ![s].phase = "asking"]
  /\ UNCHANGED <<storeVars, wiped>>

\* An event reaches the listeners there are; one per mount that still listens,
\* and only a mounted provider heeds it.
deliver(e) ==
  /\ e \in events /\ events' = events \ {e}
  /\ IF \E s \in Mounted : e.type \in sub[s].heard THEN fold(e) ELSE UNCHANGED storeVars
  /\ UNCHANGED <<sub, wiped, revision, native, born, kind>>

\* The engine answers with a snapshot.
snapshotTaken(s) ==
  /\ sub[s].phase = "asking"
  /\ sub' = [sub EXCEPT ![s].phase = "answered"]
  /\ events' = events \cup {[Event("snapshot", "none", "none", native)
                             EXCEPT !.revision = revision, !.task = "answer"]}
  /\ UNCHANGED <<storeVars, wiped, revision, native, born, kind>>

\* subscribeNative... goes on with the answer and resolves; a provider that is
\* gone by then unsubscribes and empties the store once more.
subscribed(s) ==
  /\ sub[s].phase = "answered"
  /\ \E e \in events :
       /\ e.task = "answer" /\ events' = events \ {e}
       /\ IF sub[s].mounted
          THEN fold(e) /\ sub' = [sub EXCEPT ![s].phase = "live"] /\ UNCHANGED wiped
          ELSE /\ sub' = [sub EXCEPT ![s].phase = "over", ![s].heard = {}]
               /\ emptied /\ wiped' = (wiped \/ \E r \in Mounted : sub[r].heard # {})
  /\ UNCHANGED <<revision, native, born, kind>>

\* A listen or the snapshot fails: the provider stays without a subscription.
subscribeFails(s) ==
  /\ sub[s].phase \in {"listening", "asking"}
  /\ sub' = [sub EXCEPT ![s].phase = "over", ![s].heard = {}]
  /\ IF sub[s].mounted THEN emptied ELSE UNCHANGED storeVars
  /\ UNCHANGED <<wiped, revision, native, born, events, kind>>

unmountProvider(s) ==
  /\ sub[s].mounted
  /\ sub' = [sub EXCEPT ![s].mounted = FALSE,
                        ![s].phase = IF @ = "live" THEN "over" ELSE @,
                        ![s].heard = IF sub[s].phase = "live" THEN {} ELSE @]
  /\ emptied
  /\ UNCHANGED wiped

ProjectionNext ==
  \/ /\ \/ \E t \in Transfers : nativeAdds(t) \/ nativeChanges(t) \/ nativeRemoves(t)
        \/ nativeResets
     /\ UNCHANGED <<kind, sub, storeVars, wiped>>
  \/ \E e \in events : e.task # "answer" /\ deliver(e)
  \/ \E s \in Subscriptions : snapshotTaken(s) \/ subscribed(s) \/ subscribeFails(s)
  \/ /\ \E s \in Subscriptions : mount(s) \/ listen(s) \/ unmountProvider(s)
     /\ UNCHANGED <<kind, revision, native, born, events>>

ProjectionSpec == ProjectionInit /\ [][ProjectionNext]_projectionVars

-----------------------------------------------------------------------------
Quiet == events = {}

\* Whatever overtook what, a subscribed provider shows, once every event is
\* delivered, exactly the engine's tasks; its counts and the task it names
\* are those of these tasks.
ProjectionConverges ==
  /\ ~wiped /\ Quiet /\ (\E s \in Mounted : sub[s].phase = "live") => shownTasks = native
  /\ ToSet(order) = {t \in Transfers : shownTasks[t] # "none"} /\ Len(order) = Cardinality(ToSet(order))
  /\ activeCount = Cardinality({t \in Transfers : shownTasks[t] \in ActiveStates})
  /\ failedCount = Cardinality({t \in Transfers : shownTasks[t] = "error"})
  /\ currentTask # "none" <=> activeCount + failedCount > 0
  /\ currentTask # "none" => shownTasks[currentTask] \in
       (IF activeCount > 0 /\ kind = "uploads" THEN ActiveStates ELSE ActiveStates \cup {"error"})
=============================================================================
