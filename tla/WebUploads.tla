----------------------------- MODULE WebUploads -----------------------------
(* The browser's upload engine (web/src/lib/uploads): the queue of tasks, the  *)
(* runs that upload their parts, cancel, retry, remove, and the reset when the *)
(* signed-in part of the application goes away.  Between two awaits the code   *)
(* runs alone; every await is a point where another callback may run.  The     *)
(* server's sessions are external.  Parts pass the gate of UploadGate, which   *)
(* implements Semaphore: here a part is sent when fewer than PartSlots are.    *)
EXTENDS Integers, Sequences, FiniteSets

CONSTANTS
  Tasks,          \* upload tasks; their random ids are never used again
  File,           \* the folder and name of each task's file
  SkipExisting,   \* the tasks that come from a dropped folder
  Parts,          \* the parts of a file
  Runs, Sessions, \* bounds: runs alive at a time, sessions created in all
  FileSlots,      \* uploadFileConcurrency
  PartSlots,      \* the limit of the part gate
  MaxEpoch, MaxFaults \* bounds: resets, failed requests
ASSUME UploadsAssumption ==
  /\ FileSlots \in Nat \ {0} /\ PartSlots \in Nat \ {0}
  /\ MaxEpoch \in Nat /\ MaxFaults \in Nat
  /\ Runs \subseteq Nat \ {0} /\ Sessions \subseteq Nat \ {0}

VARIABLES
  enabled, epoch,  \* the engine's
  plans,           \* prepareFiles calls that wait for the folder of their file
  status, session, \* the store: each task's status, its session or 0
  queue,           \* the queue behind the cursor
  activeFiles,     \* the runs of this epoch, as the engine counts them
  runs,            \* the execute() calls
  gateQueue,       \* runs that wait at the file gate
  controller,      \* the run whose AbortController each task has, or 0
  cancels,         \* DELETE requests in flight
  sessions,        \* external: the upload sessions
  faults,          \* requests that failed so far
  cancelFailed     \* history: the tasks whose cancel failed

pumpVars == <<status, queue, activeFiles, runs, gateQueue, controller>>
uploadVars == <<enabled, epoch, plans, session, pumpVars, cancels, sessions, faults,
                cancelFailed>>

Active == {"queued", "preparing", "uploading", "finalizing", "cancelling"}
Settled == {"completed", "skipped", "cancelled"}
Statuses == Active \cup Settled \cup {"none", "error", "removed"}

NoRun == [task |-> "none", epoch |-> 0, resume |-> 0, pc |-> "none", aborted |-> FALSE,
          session |-> 0, found |-> "none", part |-> [p \in Parts |-> "todo"]]

Init ==
  /\ enabled = TRUE /\ epoch = 0 /\ plans = {}
  /\ status = [t \in Tasks |-> "none"] /\ session = [t \in Tasks |-> 0]
  /\ queue = <<>> /\ activeFiles = 0
  /\ runs = [r \in Runs |-> NoRun] /\ gateQueue = <<>>
  /\ controller = [t \in Tasks |-> 0]
  /\ cancels = {}
  /\ sessions = [s \in Sessions |-> [state |-> "none", parts |-> {}]]
  /\ faults = 0 /\ cancelFailed = {}

AliveRuns(rs) == {r \in Runs : rs[r].pc # "none"}
SlotFree(rs) == Cardinality({r \in AliveRuns(rs) : rs[r].pc # "waiting"}) < FileSlots
Current(r) == runs[r].epoch = epoch
MayFail == faults < MaxFaults /\ faults' = faults + 1
Lowest(S) == CHOOSE x \in S : \A y \in S : x <= y

\* patchTask: a task that was removed is not there to be patched.
patchTask(t, to) == IF status[t] = "removed" THEN status ELSE [status EXCEPT ![t] = to]

-----------------------------------------------------------------------------
(* The pump.  takeQueuedTask drops the entries whose task is no longer queued. *)
(* One task is taken: a caller adds one task or frees one slot, and            *)
(* ActiveIsAttended says that no second one could start.                       *)
pump(st, q, n, rs, ctl) ==
  LET live == {i \in DOMAIN q : st[q[i]] = "queued"}
      i == Lowest(live)
      t == q[i]
      r == Lowest(Runs \ AliveRuns(rs))
      starts == gateQueue = <<>> /\ SlotFree(rs)
  IN IF ~enabled \/ n >= FileSlots
     THEN /\ status' = st /\ queue' = q /\ activeFiles' = n /\ runs' = rs
          /\ controller' = ctl /\ UNCHANGED gateQueue
     ELSE IF live = {}
     THEN /\ status' = st /\ queue' = <<>> /\ activeFiles' = n /\ runs' = rs
          /\ controller' = ctl /\ UNCHANGED gateQueue
     ELSE /\ AliveRuns(rs) # Runs \* bound
          /\ queue' = SubSeq(q, i + 1, Len(q)) /\ activeFiles' = n + 1
          /\ runs' = [rs EXCEPT ![r] =
               [NoRun EXCEPT !.task = t, !.epoch = epoch, !.resume = session[t],
                             !.pc = IF starts THEN "opening" ELSE "waiting"]]
          /\ status' = IF starts THEN [st EXCEPT ![t] = "preparing"] ELSE st
          /\ controller' = IF starts THEN [ctl EXCEPT ![t] = r] ELSE ctl
          /\ gateQueue' = IF starts THEN gateQueue ELSE Append(gateQueue, r)

\* A bug to be found: the run of an older epoch gives back a slot of this one.
endAnyEpoch(r, st) ==
  LET t == runs[r].task
  IN pump(st, queue, IF activeFiles > 0 THEN activeFiles - 1 ELSE 0, [runs EXCEPT ![r] = NoRun],
          IF controller[t] = r THEN [controller EXCEPT ![t] = 0] ELSE controller)

\* A run ends with the store at st: its slot is released, its controller
\* forgotten if it is still the task's, and the pump of its epoch goes on.
end(r, st) ==
  LET rs == [runs EXCEPT ![r] = NoRun]
      t == runs[r].task
      ctl == IF controller[t] = r THEN [controller EXCEPT ![t] = 0] ELSE controller
  IN IF Current(r)
     THEN pump(st, queue, IF activeFiles > 0 THEN activeFiles - 1 ELSE 0, rs, ctl)
     ELSE /\ runs' = rs /\ controller' = ctl
          /\ UNCHANGED <<status, queue, activeFiles, gateQueue>>

\* The catch of execute(), with the store at st: a run that was cancelled or
\* belongs to an older epoch leaves it, a name that exists may be skipped.
throws(r, st, exists) ==
  LET t == runs[r].task
      to == IF exists /\ t \in SkipExisting THEN "skipped" ELSE "error"
  IN end(r, IF ~Current(r) \/ st[t] \in {"cancelling", "cancelled", "removed"}
            THEN st ELSE [st EXCEPT ![t] = to])

\* execute() comes to its end: the task is complete.
succeeds(r) == end(r, IF Current(r) THEN patchTask(runs[r].task, "completed") ELSE status)

-----------------------------------------------------------------------------
(* The user.                                                                   *)

\* addFiles: planUploadFiles asks the server for the folders of the files.
addFiles(t) ==
  /\ enabled /\ status[t] = "none"
  /\ \A p \in plans : p.task # t
  /\ plans' = plans \cup {[task |-> t, epoch |-> epoch]}
  /\ UNCHANGED <<enabled, epoch, session, pumpVars, cancels, sessions, faults, cancelFailed>>

\* prepareFiles goes on: the plan of an older epoch is dropped, a file that is
\* already being uploaded to the same place is skipped, another is queued.
prepareFiles(p) ==
  LET t == p.task
      known == {File[u] : u \in {v \in Tasks : status[v] \in Active \cup {"error"}}}
      wanted == p.epoch = epoch /\ enabled /\ File[t] \notin known
  IN /\ p \in plans /\ plans' = plans \ {p}
     /\ IF wanted
        THEN pump([status EXCEPT ![t] = "queued"], Append(queue, t), activeFiles, runs, controller)
        ELSE UNCHANGED pumpVars
     /\ UNCHANGED <<enabled, epoch, session, cancels, sessions, faults, cancelFailed>>

\* The folders could not be created.
planFails(p) ==
  /\ p \in plans /\ plans' = plans \ {p} /\ MayFail
  /\ UNCHANGED <<enabled, epoch, session, pumpVars, cancels, sessions, cancelFailed>>

retry(t) ==
  /\ enabled /\ status[t] = "error"
  /\ pump([status EXCEPT ![t] = "queued"], Append(queue, t), activeFiles, runs, controller)
  /\ UNCHANGED <<enabled, epoch, plans, session, cancels, sessions, faults, cancelFailed>>

\* cancel() of a task that waits: nothing was started.
cancelQueued(t) ==
  /\ enabled /\ status[t] = "queued"
  /\ status' = [status EXCEPT ![t] = "cancelled"]
  /\ UNCHANGED <<enabled, epoch, plans, session, queue, activeFiles, runs, gateQueue,
                 controller, cancels, sessions, faults, cancelFailed>>

\* cancel() of a task with a session, where the page offers it: its run is
\* aborted and the server asked to delete the session.
cancel(t) ==
  /\ enabled /\ session[t] # 0 /\ status[t] \in {"preparing", "uploading", "error"}
  /\ status' = [status EXCEPT ![t] = "cancelling"]
  /\ runs' = [r \in Runs |->
                IF r = controller[t] THEN [runs[r] EXCEPT !.aborted = TRUE] ELSE runs[r]]
  /\ cancels' = cancels \cup {[task |-> t, session |-> session[t], epoch |-> epoch]}
  /\ UNCHANGED <<enabled, epoch, plans, session, queue, activeFiles, gateQueue, controller,
                 sessions, faults, cancelFailed>>

\* The server closes the session, unless it is completed.
deleteSession(c) ==
  /\ c \in cancels /\ sessions[c.session].state = "open"
  /\ sessions' = [sessions EXCEPT ![c.session].state = "cancelled"]
  /\ UNCHANGED <<enabled, epoch, plans, session, pumpVars, cancels, faults, cancelFailed>>

\* A bug to be found: a cancel without an answer is forgotten.
cancelledSilently(c) ==
  /\ c \in cancels /\ cancels' = cancels \ {c}
  /\ \/ /\ sessions[c.session].state = "cancelled" /\ UNCHANGED faults
        /\ status' = IF c.epoch # epoch THEN status ELSE patchTask(c.task, "cancelled")
     \/ MayFail /\ UNCHANGED status
  /\ UNCHANGED <<enabled, epoch, plans, session, queue, activeFiles, runs, gateQueue,
                 controller, sessions, cancelFailed>>

\* cancel() goes on with the answer (done, or refused for a completed session)
\* or without one.
cancelled(c) ==
  /\ c \in cancels /\ cancels' = cancels \ {c}
  /\ \E answer \in {"cancelled", "completed", "lost"} :
       /\ IF answer = "lost" THEN MayFail
          ELSE sessions[c.session].state = answer /\ UNCHANGED faults
       /\ status' = IF c.epoch # epoch THEN status
                    ELSE patchTask(c.task, IF answer = "cancelled" THEN "cancelled" ELSE "error")
       /\ cancelFailed' = IF answer = "cancelled" THEN cancelFailed ELSE cancelFailed \cup {c.task}
  /\ UNCHANGED <<enabled, epoch, plans, session, queue, activeFiles, runs, gateQueue,
                 controller, sessions>>

remove(t) ==
  /\ status[t] \in Settled \/ (status[t] = "error" /\ session[t] = 0)
  /\ status' = [status EXCEPT ![t] = "removed"] /\ session' = [session EXCEPT ![t] = 0]
  /\ UNCHANGED <<enabled, epoch, plans, queue, activeFiles, runs, gateQueue,
                 controller, cancels, sessions, faults, cancelFailed>>

\* reset(): the provider is unmounted, as when the user signs out.
reset ==
  /\ epoch < MaxEpoch /\ enabled
  /\ enabled' = FALSE /\ epoch' = epoch + 1
  /\ runs' = [r \in Runs |->
                IF \E t \in Tasks : controller[t] = r
                THEN [runs[r] EXCEPT !.aborted = TRUE] ELSE runs[r]]
  /\ controller' = [t \in Tasks |-> 0]
  /\ queue' = <<>> /\ activeFiles' = 0
  /\ status' = [t \in Tasks |-> IF status[t] = "none" THEN "none" ELSE "removed"]
  /\ session' = [t \in Tasks |-> 0]
  /\ UNCHANGED <<plans, gateQueue, cancels, sessions, faults, cancelFailed>>

\* configure(): the provider is mounted again.
configure ==
  /\ ~enabled /\ enabled' = TRUE
  /\ UNCHANGED <<epoch, plans, session, pumpVars, cancels, sessions, faults, cancelFailed>>

-----------------------------------------------------------------------------
(* A run: execute() and uploadFile().                                          *)

\* A slot of the file gate comes free for the first run that waits; execute()
\* begins, unless its epoch is over.
start(r) ==
  /\ gateQueue # <<>> /\ r = Head(gateQueue) /\ SlotFree(runs)
  /\ gateQueue' = Tail(gateQueue)
  /\ LET t == runs[r].task
     IN IF Current(r)
        THEN /\ status' = patchTask(t, "preparing")
             /\ controller' = [controller EXCEPT ![t] = r]
             /\ runs' = [runs EXCEPT ![r].pc = "opening"]
        ELSE runs' = [runs EXCEPT ![r] = NoRun] /\ UNCHANGED <<status, controller>>
  /\ UNCHANGED <<enabled, epoch, plans, session, queue, activeFiles, cancels, sessions, faults, cancelFailed>>

Fresh == {s \in Sessions : sessions[s].state = "none"}

\* The server creates the session, or answers with the one of an earlier run;
\* from here on the answer arrives even if the run is aborted.
openSession(r) ==
  /\ runs[r].pc = "opening" /\ ~runs[r].aborted
  /\ runs[r].resume = 0 => Fresh # {} \* bound
  /\ LET s == IF runs[r].resume = 0 THEN Lowest(Fresh) ELSE runs[r].resume
         now == IF runs[r].resume = 0 THEN [state |-> "open", parts |-> {}] ELSE sessions[s]
     IN /\ sessions' = [sessions EXCEPT ![s] = now]
        /\ runs' = [runs EXCEPT ![r] =
             [@ EXCEPT !.pc = "opened", !.resume = 0, !.session = s, !.found = now.state,
                       !.part = [p \in Parts |-> IF p \in now.parts THEN "done" ELSE "todo"]]]
  /\ UNCHANGED <<enabled, epoch, plans, status, session, queue, activeFiles, gateQueue, controller,
                 cancels, faults, cancelFailed>>

\* The request for the session fails, is aborted, or finds the name taken; a
\* session whose answer is lost stays on the server.
openFails(r) ==
  /\ runs[r].pc = "opening"
  /\ \E why \in {"aborted", "failed", "exists"} :
       /\ why = "aborted" => runs[r].aborted
       /\ why = "exists" => runs[r].resume = 0
       /\ IF why = "failed" THEN MayFail ELSE UNCHANGED faults
       /\ throws(r, status, why = "exists")
       /\ \/ UNCHANGED sessions
          \/ /\ why # "exists" /\ runs[r].resume = 0 /\ Fresh # {}
             /\ sessions' = [sessions EXCEPT ![Lowest(Fresh)].state = "open"]
  /\ UNCHANGED <<enabled, epoch, plans, session, cancels, cancelFailed>>

\* Promise.allSettled over the parts, now at part, with the store at st: while
\* some are under way the run waits; a failed part fails it; else it finalizes.
allSettled(r, part, st) ==
  IF \E p \in Parts : part[p] \in {"todo", "sending"}
  THEN /\ runs' = [runs EXCEPT ![r] = [@ EXCEPT !.pc = "parts", !.found = "none", !.part = part]]
       /\ status' = st /\ UNCHANGED <<queue, activeFiles, gateQueue, controller>>
  ELSE IF \E p \in Parts : part[p] = "failed"
  THEN throws(r, st, FALSE)
  ELSE /\ runs' = [runs EXCEPT ![r] = [@ EXCEPT !.pc = "finalizing", !.found = "none",
                                                !.part = NoRun.part]]
       /\ status' = IF Current(r) /\ st[runs[r].task] # "removed"
                    THEN [st EXCEPT ![runs[r].task] = "finalizing"] ELSE st
       /\ UNCHANGED <<queue, activeFiles, gateQueue, controller>>

\* uploadFile goes on with the session: onSession stores it whatever the task's
\* status; a completed session ends the run, one that is not open fails it; of
\* an aborted run the gate refuses every part.
onSession(r) ==
  LET t == runs[r].task
      st == IF Current(r) THEN patchTask(t, "uploading") ELSE status
      part == [p \in Parts |-> IF runs[r].aborted /\ runs[r].part[p] = "todo" THEN "failed"
                               ELSE runs[r].part[p]]
  IN /\ runs[r].pc = "opened"
     /\ session' = IF Current(r) /\ status[t] # "removed"
                   THEN [session EXCEPT ![t] = runs[r].session] ELSE session
     /\ \/ runs[r].found = "completed" /\ succeeds(r)
        \/ runs[r].found = "cancelled" /\ throws(r, st, FALSE)
        \/ runs[r].found = "open" /\ allSettled(r, part, st)
     /\ UNCHANGED <<enabled, epoch, plans, cancels, sessions, faults, cancelFailed>>

Sending == {rp \in Runs \X Parts : runs[rp[1]].part[rp[2]] = "sending"}

\* A part passes the gate; its digest is computed and the PUT sent.
sendPart(r, p) ==
  /\ runs[r].pc = "parts" /\ runs[r].part[p] = "todo" /\ ~runs[r].aborted
  /\ Cardinality(Sending) < PartSlots
  /\ runs' = [runs EXCEPT ![r].part[p] = "sending"]
  /\ UNCHANGED <<enabled, epoch, plans, status, session, queue, activeFiles, gateQueue,
                 controller, cancels, sessions, faults, cancelFailed>>

Stored(r, p) == [sessions EXCEPT ![runs[r].session].parts = @ \cup {p}]

putPart(r, p) ==
  /\ runs[r].pc = "parts" /\ runs[r].part[p] = "sending" /\ ~runs[r].aborted
  /\ sessions[runs[r].session].state = "open"
  /\ sessions' = Stored(r, p)
  /\ allSettled(r, [runs[r].part EXCEPT ![p] = "done"], status)
  /\ UNCHANGED <<enabled, epoch, plans, session, cancels, faults, cancelFailed>>

\* A part is given up: its run is aborted, the session is closed, or the third
\* attempt failed; the server may have stored it.
partFails(r, p) ==
  LET sending == runs[r].part[p] = "sending"
      open == sending /\ sessions[runs[r].session].state = "open"
  IN /\ runs[r].pc = "parts" /\ runs[r].part[p] \in {"todo", "sending"}
     /\ sending \/ runs[r].aborted
     /\ IF open /\ ~runs[r].aborted THEN MayFail ELSE UNCHANGED faults
     /\ sessions' \in IF open THEN {sessions, Stored(r, p)} ELSE {sessions}
     /\ allSettled(r, [runs[r].part EXCEPT ![p] = "failed"], status)
     /\ UNCHANGED <<enabled, epoch, plans, session, cancels, cancelFailed>>

\* The server finalizes the file (again, if the answer of an earlier request was
\* lost) and the run learns of it.
complete(r) ==
  /\ runs[r].pc = "finalizing"
  /\ sessions[runs[r].session].state \in {"open", "completed"}
  /\ sessions' = [sessions EXCEPT ![runs[r].session].state = "completed"]
  /\ succeeds(r)
  /\ UNCHANGED <<enabled, epoch, plans, session, cancels, faults, cancelFailed>>

\* The request to finalize fails or is aborted; it may have done its work.
completeFails(r) ==
  LET s == runs[r].session
  IN /\ runs[r].pc = "finalizing"
     /\ IF runs[r].aborted \/ sessions[s].state = "cancelled" THEN UNCHANGED faults ELSE MayFail
     /\ \/ UNCHANGED sessions
        \/ sessions[s].state = "open" /\ sessions' = [sessions EXCEPT ![s].state = "completed"]
     /\ throws(r, status, FALSE)
     /\ UNCHANGED <<enabled, epoch, plans, session, cancels, cancelFailed>>

-----------------------------------------------------------------------------
runStep(r) ==
  \/ start(r) \/ openSession(r) \/ openFails(r) \/ onSession(r)
  \/ complete(r) \/ completeFails(r)
  \/ \E p \in Parts : sendPart(r, p) \/ putPart(r, p) \/ partFails(r, p)
cancelStep(t) == \E c \in cancels : c.task = t /\ (deleteSession(c) \/ cancelled(c))
planStep(t) == \E p \in plans : p.task = t /\ (prepareFiles(p) \/ planFails(p))

Next ==
  \/ \E t \in Tasks : addFiles(t) \/ planStep(t) \/ retry(t) \/ cancelQueued(t) \/ cancel(t)
                      \/ remove(t) \/ cancelStep(t)
  \/ \E r \in Runs : runStep(r)
  \/ reset \/ configure

Spec == Init /\ [][Next]_uploadVars

\* Requests are answered, fail or time out, and the event loop runs what
\* follows; what the user does is free.
FairSpec == /\ Spec
            /\ \A r \in Runs : WF_uploadVars(runStep(r))
            /\ \A t \in Tasks : WF_uploadVars(cancelStep(t)) /\ WF_uploadVars(planStep(t))

-----------------------------------------------------------------------------
TypeOK ==
  /\ enabled \in BOOLEAN /\ epoch \in 0..MaxEpoch /\ faults \in 0..MaxFaults
  /\ plans \subseteq [task : Tasks, epoch : 0..MaxEpoch]
  /\ status \in [Tasks -> Statuses] /\ session \in [Tasks -> Sessions \cup {0}]
  /\ queue \in Seq(Tasks) /\ activeFiles \in 0..FileSlots
  /\ gateQueue \in Seq(Runs) /\ controller \in [Tasks -> Runs \cup {0}]
  /\ cancels \subseteq [task : Tasks, session : Sessions, epoch : 0..MaxEpoch]

InQueue(t) == \E i \in DOMAIN queue : queue[i] = t
RunsOf(t) == {r \in AliveRuns(runs) : runs[r].task = t /\ Current(r)}

\* The engine's count of its runs is right after any mixture of cancels, failed
\* cancels, retries and resets; a slot never idles while a task is queued; a task
\* shown as active has something that will settle it, a place in the queue, a run
\* or a DELETE in flight; and one run at a time uploads a task, as long as no
\* cancel of it failed (then it may be retried while parts of the cancelled run
\* are still hashed).
ActiveIsAttended ==
  /\ TypeOK
  /\ activeFiles = Cardinality({r \in AliveRuns(runs) : Current(r)})
  /\ \A t \in Tasks :
       /\ status[t] = "queued" =>
            \/ InQueue(t) /\ activeFiles = FileSlots
            \/ \E r \in RunsOf(t) : runs[r].pc = "waiting"
       /\ status[t] \in {"preparing", "uploading", "finalizing"} => RunsOf(t) # {}
       /\ status[t] = "cancelling" =>
            RunsOf(t) # {} \/ \E c \in cancels : c.task = t /\ c.epoch = epoch
       /\ t \notin cancelFailed => Cardinality(RunsOf(t)) <= 1

\* What the page calls complete is stored on the server: no callback of a run
\* that was cancelled, retried or left behind by a reset says so otherwise.
CompletedIsStored ==
  \A t \in Tasks : status[t] = "completed" =>
    session[t] # 0 /\ sessions[session[t]].state = "completed"

\* Whatever a task is shown as is so: active ones are attended, completed ones stored.
TasksAreTrue == ActiveIsAttended /\ CompletedIsStored

\* Every task the page shows as active settles or fails.
TasksSettle == \A t \in Tasks : status[t] \in Active ~> status[t] \notin Active
=============================================================================
