---------------------------- MODULE DesktopSync -----------------------------
(* Folder synchronisation in the desktop application (sync-provider.tsx): the *)
(* provider keeps the pairs in a ref that mirrors a file of settings, and the *)
(* set of pairs that run.  A run is started by the user through a command, or *)
(* by the native scheduler (external, src-tauri/src/sync/engine), which tells *)
(* of it with two events.  The provider listens to them; a change of the      *)
(* pairs or of the session makes it listen anew, and events sent before the   *)
(* new subscription stands are lost.  A pair is a version of its settings, 0  *)
(* for none; the list of conflicts is left out.                               *)
EXTENDS Integers, Sequences, FiniteSets

CONSTANTS
  Pairs,       \* identifiers
  MaxVersion,  \* bound: the versions of a pair's settings
  Ops,         \* bound: the provider's calls in flight at a time
  MaxEvents    \* bound: the native events in flight
ASSUME SyncAssumption == MaxVersion \in Nat \ {0} /\ MaxEvents \in Nat /\ 1 \in Ops /\ Ops \subseteq Nat

VARIABLES
  hasUser,    \* the session has a user, whose pairs these are
  ref,         \* allPairsRef and allPairs
  running,     \* runningRef
  runtime,     \* the status shown for each pair
  listening,   \* the subscription to the events stands
  ops,         \* the calls
  stored,      \* external: the settings file
  schedule,    \* external: the pairs the scheduler was given
  active,      \* external: the pairs the engine runs, and for whom
  runEvents,   \* external: events on their way
  excused,     \* history: pairs whose run was not told of, or met another
  raced        \* history: two edits overlap, or the file was not read

syncVars == <<hasUser, ref, running, runtime, listening, ops, stored, schedule, active,
              runEvents, excused, raced>>

None == [kind |-> "none", pair |-> "none", at |-> "none", next |-> <<>>]
Edits == {"load", "add", "update", "reselect", "remove"}
Runs == {"run", "resolve"}
Editing == {o \in Ops : ops[o].kind \in Edits}
RunsOf(p) == {o \in Ops : ops[o].kind \in Runs /\ ops[o].pair = p}
Told(p) == \E i \in DOMAIN runEvents : runEvents[i].pair = p

SyncInit ==
  /\ stored \in [Pairs -> 0..1]
  /\ ref = [p \in Pairs |-> 0] /\ running = {} /\ runtime = [p \in Pairs |-> "none"]
  /\ hasUser = FALSE /\ listening = FALSE
  /\ ops = [o \in Ops |-> IF o = 1 THEN [None EXCEPT !.kind = "load", !.at = "save"] ELSE None]
  /\ schedule = {} /\ active = [p \in Pairs |-> "none"] /\ runEvents = <<>>
  /\ excused = {} /\ raced = FALSE

-----------------------------------------------------------------------------
\* A call takes the first free slot.
begin(o, kind, p, at, next) ==
  /\ ops[o] = None /\ \A q \in Ops : q < o => ops[q] # None
  /\ ops' = [ops EXCEPT ![o] = [kind |-> kind, pair |-> p, at |-> at, next |-> next]]
goto(o, at) == ops' = [ops EXCEPT ![o].at = at]
over(o) == ops' = [ops EXCEPT ![o] = None]
Alone(o) == Editing \subseteq {o}

\* The pairs of the signed-in user.
scoped(pairs) == IF hasUser THEN {p \in Pairs : pairs[p] # 0} ELSE {}

\* addPair and updatePair compute the whole list before they await anything; a
\* new local folder also resets the baseline and the status of the pair.
edit(o, p, kind, version) ==
  /\ hasUser /\ (kind = "add") <=> (ref[p] = 0)
  /\ begin(o, kind, p, "validate", [ref EXCEPT ![p] = version])
  /\ raced' = (Editing # {} \/ ref # stored)
  /\ UNCHANGED <<hasUser, ref, running, runtime, listening, stored, schedule, active, runEvents,
                 excused>>

addPair(o, p) == edit(o, p, "add", 1)
updatePair(o, p) == \E k \in {"update", "reselect"}, v \in 1..MaxVersion : edit(o, p, k, v)

\* removePair and resetPairState refuse a pair that runs, then await.
removePair(o, p) ==
  /\ p \notin running /\ ref[p] # 0 /\ hasUser /\ runtime[p] # "syncing"
  /\ begin(o, "remove", p, "clear", <<>>)
  /\ raced' = (Editing # {} \/ ref # stored)
  /\ UNCHANGED <<hasUser, ref, running, runtime, listening, stored, schedule, active, runEvents,
                 excused>>

resetPairState(o, p) ==
  /\ p \notin running /\ ref[p] # 0 /\ runtime[p] # "syncing"
  /\ begin(o, "reset", p, "clear", <<>>)
  /\ UNCHANGED <<hasUser, ref, running, runtime, listening, stored, schedule, active, runEvents,
                 excused, raced>>

\* runPair (runAll and the tray call it for each enabled pair in turn) and
\* resolveConflict: the pair is marked before the first await.
startRun(o, p, kind, at) ==
  /\ p \notin running /\ ref[p] # 0 /\ hasUser
  /\ begin(o, kind, p, at, <<>>)
  /\ running' = running \cup {p}
  /\ runtime' = [runtime EXCEPT ![p] = "syncing"]
  /\ excused' = IF active[p] # "none" \/ Told(p) \/ RunsOf(p) # {} THEN excused \cup {p} ELSE excused \ {p}
  /\ UNCHANGED <<hasUser, ref, listening, stored, schedule, active, runEvents, raced>>

runPair(o, p) == startRun(o, p, "run", "validate")
resolveConflict(o, p) == startRun(o, p, "resolve", "native")

-----------------------------------------------------------------------------
\* The validation of the roots answers.
validated(o) ==
  /\ ops[o].at = "validate"
  /\ goto(o, CASE ops[o].kind = "run" -> "native"
               [] ops[o].kind = "reselect" -> "clear"
               [] OTHER -> "save")
  /\ UNCHANGED <<hasUser, ref, running, runtime, listening, stored, schedule, active, runEvents,
                 excused, raced>>

\* clearNativeSyncPairState has answered; removal ignores its failure and
\* gives the folder back, after which the status is forgotten.
cleared(o) ==
  LET p == ops[o].pair
  IN /\ ops[o].at = "clear"
     /\ CASE ops[o].kind = "reset" -> over(o)
          [] ops[o].kind = "reselect" -> goto(o, "save")
          [] ops[o].kind = "remove" -> goto(o, "revoke")
     /\ runtime' = IF ops[o].kind = "remove" THEN runtime ELSE [runtime EXCEPT ![p] = "idle"]
     /\ UNCHANGED <<hasUser, ref, running, listening, stored, schedule, active, runEvents,
                    excused, raced>>

\* The list to save is read only now.
revoked(o) ==
  LET p == ops[o].pair
  IN /\ ops[o].at = "revoke"
     /\ ops' = [ops EXCEPT ![o].at = "save", ![o].next = [ref EXCEPT ![p] = 0]]
     /\ runtime' = [runtime EXCEPT ![p] = "none"]
     /\ UNCHANGED <<hasUser, ref, running, listening, stored, schedule, active, runEvents,
                    excused, raced>>

\* saveSyncPairs writes the whole list; loadSyncPairs reads it.
written(o) ==
  /\ ops[o].at = "save"
  /\ IF ops[o].kind = "load"
     THEN ops' = [ops EXCEPT ![o].at = "saved", ![o].next = stored] /\ UNCHANGED stored
     ELSE goto(o, "saved") /\ stored' = ops[o].next
  /\ UNCHANGED <<hasUser, ref, running, runtime, listening, schedule, active, runEvents,
                 excused, raced>>

\* persist goes on.  The new list makes the provider listen anew.
persisted(o) ==
  /\ ops[o].at = "saved"
  /\ ref' = ops[o].next /\ listening' = FALSE
  /\ over(o)
  /\ UNCHANGED <<hasUser, running, runtime, stored, schedule, active, runEvents, excused,
                 raced>>

\* A command fails: an edit stops where it is, a run ends in an error.
fails(o) ==
  LET p == ops[o].pair
  IN /\ ops[o].at \in {"validate", "clear", "revoke", "save"}
     /\ ~(ops[o].kind = "remove" /\ ops[o].at = "clear")
     /\ over(o)
     /\ IF ops[o].kind = "run"
        THEN running' = running \ {p} /\ runtime' = [runtime EXCEPT ![p] = "error"]
        ELSE UNCHANGED <<running, runtime>>
     /\ raced' = (raced \/ ops[o].kind = "load")
     /\ UNCHANGED <<hasUser, ref, listening, stored, schedule, active, runEvents, excused>>

-----------------------------------------------------------------------------
\* The command reaches the engine, which refuses a pair it already runs.
beginRun(o) ==
  LET p == ops[o].pair
  IN /\ ops[o].at = "native"
     /\ IF active[p] = "none"
        THEN active' = [active EXCEPT ![p] = "user"] /\ goto(o, "running")
        ELSE UNCHANGED active /\ goto(o, "refused")
     /\ UNCHANGED <<hasUser, ref, running, runtime, listening, stored, schedule, runEvents,
                    excused, raced>>

endRun(o) ==
  LET p == ops[o].pair
  IN /\ ops[o].at = "running"
     /\ active' = [active EXCEPT ![p] = "none"]
     /\ \E at \in {"done", "refused"} : goto(o, at)
     /\ UNCHANGED <<hasUser, ref, running, runtime, listening, stored, schedule, runEvents,
                    excused, raced>>

\* The answer is there; a good one reads the conflicts before the call is over.
runAnswered(o) ==
  LET p == ops[o].pair
  IN /\ ops[o].at \in {"done", "refused"}
     /\ runtime' = [runtime EXCEPT ![p] = IF ops[o].at = "done" THEN "idle" ELSE "error"]
     /\ IF ops[o].at = "done" THEN goto(o, "conflicts") /\ UNCHANGED running
        ELSE over(o) /\ running' = running \ {p}
     /\ UNCHANGED <<hasUser, ref, listening, stored, schedule, active, runEvents, excused,
                    raced>>

\* A bug to be found: the mark is taken away by a good answer only.
conflictsReadWell(o) ==
  LET p == ops[o].pair
  IN /\ ops[o].at = "conflicts"
     /\ \/ UNCHANGED runtime /\ running' = running \ {p}
        \/ ops[o].kind = "resolve" /\ runtime' = [runtime EXCEPT ![p] = "error"] /\ UNCHANGED running
     /\ over(o)
     /\ UNCHANGED <<hasUser, ref, listening, stored, schedule, active, runEvents, excused, raced>>

\* refreshConflicts: its failure ends the resolution of a conflict in an error.
conflictsRead(o) ==
  LET p == ops[o].pair
  IN /\ ops[o].at = "conflicts"
     /\ running' = running \ {p}
     /\ \/ UNCHANGED runtime
        \/ ops[o].kind = "resolve" /\ runtime' = [runtime EXCEPT ![p] = "error"]
     /\ over(o)
     /\ UNCHANGED <<hasUser, ref, listening, stored, schedule, active, runEvents, excused,
                    raced>>

-----------------------------------------------------------------------------
\* External: the scheduler finds a pair due, and ends its run.
Send(p, stage) == runEvents' = Append(runEvents, [pair |-> p, stage |-> stage])

scheduled(p) ==
  /\ p \in schedule /\ active[p] = "none"
  /\ Len(runEvents) < MaxEvents \* bound
  /\ active' = [active EXCEPT ![p] = "scheduler"]
  /\ Send(p, "started")
  /\ excused' = IF RunsOf(p) # {} \/ p \in running \/ Told(p) THEN excused \cup {p}
                ELSE excused \ {p}
  /\ UNCHANGED <<hasUser, ref, running, runtime, listening, ops, stored, schedule, raced>>

finished(p) ==
  /\ active[p] = "scheduler"
  /\ Len(runEvents) < MaxEvents \* bound
  /\ active' = [active EXCEPT ![p] = "none"]
  /\ \E stage \in {"finished", "failed"} : Send(p, stage)
  /\ UNCHANGED <<hasUser, ref, running, runtime, listening, ops, stored, schedule, excused,
                 raced>>

\* The callback of "desktop-sync-run"; without it, or the pair, an event is lost.
delivered ==
  LET e == Head(runEvents)
  IN /\ runEvents # <<>>
     /\ runEvents' = Tail(runEvents)
     /\ IF listening /\ ref[e.pair] # 0
        THEN /\ running' = IF e.stage = "started" THEN running \cup {e.pair}
                           ELSE running \ {e.pair}
             /\ runtime' = [runtime EXCEPT ![e.pair] =
                  CASE e.stage = "started" -> "syncing"
                    [] e.stage = "finished" -> "idle"
                    [] e.stage = "failed" -> "error"]
             /\ UNCHANGED excused
        ELSE excused' = excused \cup {e.pair} /\ UNCHANGED <<running, runtime>>
     /\ UNCHANGED <<hasUser, ref, listening, ops, stored, schedule, active, raced>>

\* The promise of listen resolves.
subscribe ==
  /\ ~listening /\ listening' = TRUE
  /\ UNCHANGED <<hasUser, ref, running, runtime, ops, stored, schedule, active, runEvents,
                 excused, raced>>

\* The effect that configures the scheduler; it fails as a whole.
configure ==
  /\ schedule # scoped(ref) /\ schedule' = scoped(ref)
  /\ UNCHANGED <<hasUser, ref, running, runtime, listening, ops, stored, active, runEvents,
                 excused, raced>>

\* The session gets its user, or loses it.
sessionChanges ==
  /\ hasUser' = ~hasUser /\ listening' = FALSE
  /\ UNCHANGED <<ref, running, runtime, ops, stored, schedule, active, runEvents, excused,
                 raced>>

syncStep(o) == \/ validated(o) \/ cleared(o) \/ revoked(o) \/ written(o) \/ persisted(o)
               \/ fails(o) \/ beginRun(o) \/ endRun(o) \/ runAnswered(o) \/ conflictsRead(o)

SyncNext ==
  \/ \E o \in Ops, p \in Pairs :
       \/ addPair(o, p) \/ updatePair(o, p) \/ removePair(o, p) \/ resetPairState(o, p)
       \/ runPair(o, p) \/ resolveConflict(o, p)
  \/ \E o \in Ops : syncStep(o)
  \/ \E p \in Pairs : scheduled(p) \/ finished(p)
  \/ delivered \/ subscribe \/ configure \/ sessionChanges

SyncSpec == SyncInit /\ [][SyncNext]_syncVars

-----------------------------------------------------------------------------
(* Properties.                                                                 *)

\* The provider knows what runs: a pair marked as running has a call or a run of
\* the engine behind it, and what the engine runs is marked as soon as its event
\* is there.  Otherwise a pair could be removed or its baseline reset under a
\* run, or refuse every run until the application restarts.  Excused is a pair
\* of which an event was lost, or a run of the user met one of the scheduler.
RunningIsTrue ==
  \A p \in Pairs \ excused :
    /\ p \in running => RunsOf(p) # {} \/ active[p] # "none" \/ Told(p)
    /\ active[p] # "none" => p \in running \/ Told(p)
    /\ Cardinality(RunsOf(p)) <= 1

\* The list in memory is the list in the file whenever no edit is under way,
\* unless two edits overlap, each with a list of its own, or the file could not
\* be read at the start.
EditsAreKept == ~raced /\ Editing = {} => ref = stored

\* The two together: what runs, and which pairs there are.
SyncIsTrue == RunningIsTrue /\ EditsAreKept
=============================================================================
