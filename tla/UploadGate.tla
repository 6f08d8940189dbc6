----------------------------- MODULE UploadGate -----------------------------
(* The gate that upload parts, upload files and thumbnail captures pass       *)
(* (web/src/lib/uploads/gate.ts): a FIFO queue of waiters with abort signals  *)
(* before a limit that adapts to the server between 1 and a ceiling.  Aborts  *)
(* may arrive while a client waits, works, or has been admitted and not run.  *)
EXTENDS Integers, Sequences, SequencesExt, FiniteSets

CONSTANTS Clients, MaxCeiling
ASSUME GateAssumption == MaxCeiling \in Nat \ {0} /\ IsFiniteSet(Clients)

VARIABLES
  pc,           \* where each client's call of run() stands
  aborted,      \* the clients whose signal is aborted
  active,       \* ConcurrencyGate.active
  waiting,      \* ConcurrencyGate.waiting
  limit,        \* the limit, of both gates
  ceiling,      \* AdaptiveConcurrencyGate.ceiling
  initialized,  \* AdaptiveConcurrencyGate.initialized
  healthy       \* AdaptiveConcurrencyGate.healthySuccesses

gateVars == <<pc, aborted, active, waiting, limit, ceiling, initialized, healthy>>

Least(a, b) == IF a < b THEN a ELSE b
Most(a, b) == IF a > b THEN a ELSE b

Init ==
  /\ pc = [c \in Clients |-> "idle"] /\ aborted = {}
  /\ active = 0 /\ waiting = <<>>
  /\ limit = 1 /\ ceiling = 1 /\ initialized = FALSE /\ healthy = 0

-----------------------------------------------------------------------------
(* drain: hand slots to the first waiters while slots are free; a waiter whose *)
(* signal is aborted is rejected and takes none.                               *)

\* How many waiters of w are looked at when free slots are handed out.
Examined(w, free) ==
  LET Live(p) == Cardinality({i \in 1..p : w[i] \notin aborted})
      Stops(p) == p = Len(w) \/ Live(p) >= free
  IN CHOOSE p \in 0..Len(w) : Stops(p) /\ \A q \in 0..(p - 1) : ~Stops(q)

\* The state after a drain with n slots taken under limit m, the waiters being
\* w and the clients at p.
drain(n, m, w, p) ==
  LET k == Examined(w, Most(0, m - n))
      admitted == {w[i] : i \in 1..k} \ aborted
      rejected == {w[i] : i \in 1..k} \cap aborted
  IN /\ active' = n + Cardinality(admitted)
     /\ waiting' = SubSeq(w, k + 1, Len(w))
     /\ pc' = [c \in Clients |-> IF c \in admitted THEN "admitted"
                                 ELSE IF c \in rejected THEN "idle" ELSE p[c]]

\* The adaptive gate's setLimit, clamped to the ceiling top.
setLimit(wanted, top, p) ==
  LET next == Least(top, Most(1, wanted))
  IN /\ limit' = next
     /\ IF next = limit
        THEN pc' = p /\ UNCHANGED <<active, waiting>>
        ELSE drain(active, next, waiting, p)

-----------------------------------------------------------------------------

\* run() up to acquire: refused when aborted, admitted below the limit, queued.
acquire(c) ==
  /\ pc[c] = "idle" /\ c \notin aborted
  /\ IF active < limit
     THEN /\ active' = active + 1 /\ pc' = [pc EXCEPT ![c] = "admitted"]
          /\ UNCHANGED waiting
     ELSE /\ waiting' = Append(waiting, c) /\ pc' = [pc EXCEPT ![c] = "waiting"]
          /\ UNCHANGED active
  /\ UNCHANGED <<aborted, limit, ceiling, initialized, healthy>>

\* A bug to be found: the abort is seen outside of the try, and the slot lost.
runLosingSlot(c) ==
  /\ pc[c] = "admitted"
  /\ pc' = [pc EXCEPT ![c] = IF c \in aborted THEN "idle" ELSE "working"]
  /\ UNCHANGED <<aborted, active, waiting, limit, ceiling, initialized, healthy>>

\* run() goes on after acquire: the work starts unless its signal is aborted.
run(c) ==
  /\ pc[c] = "admitted"
  /\ pc' = [pc EXCEPT ![c] = IF c \in aborted THEN "leaving" ELSE "working"]
  /\ UNCHANGED <<aborted, active, waiting, limit, ceiling, initialized, healthy>>

\* A bug to be found: nobody is told that a slot came free.
releaseSilently(c) ==
  /\ pc[c] = "leaving"
  /\ active' = active - 1 /\ pc' = [pc EXCEPT ![c] = "idle"]
  /\ UNCHANGED <<aborted, waiting, limit, ceiling, initialized, healthy>>

\* The finally of run().
release(c) ==
  /\ pc[c] = "leaving"
  /\ drain(active - 1, limit, waiting, [pc EXCEPT ![c] = "idle"])
  /\ UNCHANGED <<aborted, limit, ceiling, initialized, healthy>>

\* The abort listener of a waiter.
abort(c) ==
  /\ c \notin aborted /\ pc[c] # "idle"
  /\ aborted' = aborted \cup {c}
  /\ \/ /\ pc[c] = "waiting" /\ pc' = [pc EXCEPT ![c] = "idle"]
        /\ \E i \in 1..Len(waiting) : waiting[i] = c /\ waiting' = RemoveAt(waiting, i)
     \/ pc[c] # "waiting" /\ UNCHANGED <<waiting, pc>>
  /\ UNCHANGED <<active, limit, ceiling, initialized, healthy>>

\* The caller comes back with the signal of another upload.
renew(c) ==
  /\ pc[c] = "idle" /\ c \in aborted
  /\ aborted' = aborted \ {c}
  /\ UNCHANGED <<pc, active, waiting, limit, ceiling, initialized, healthy>>

\* setCeiling: a session tells how many parts the server wants at a time.
setCeiling(top) ==
  /\ ceiling' = top /\ initialized' = TRUE
  /\ healthy' = IF ceiling # top THEN 0 ELSE healthy
  /\ IF ~initialized THEN setLimit(Least(2, top), top, pc)
     ELSE IF limit > top THEN setLimit(top, top, pc)
     ELSE UNCHANGED <<pc, active, waiting, limit>>
  /\ UNCHANGED aborted

\* recordSuccess: a part arrived, no slower than before or much slower; enough
\* healthy ones raise the limit by one.  The work then ends.
recordSuccess(c) ==
  /\ pc[c] = "working"
  /\ LET p == [pc EXCEPT ![c] = "leaving"]
         Same == pc' = p /\ UNCHANGED <<active, waiting, limit>>
     IN \E latencyHealthy \in BOOLEAN :
          IF limit >= ceiling THEN Same /\ UNCHANGED healthy
          ELSE IF ~latencyHealthy THEN Same /\ healthy' = 0
          ELSE IF healthy + 1 < limit THEN Same /\ healthy' = healthy + 1
          ELSE healthy' = 0 /\ setLimit(limit + 1, ceiling, p)
  /\ UNCHANGED <<aborted, ceiling, initialized>>

\* recordCongestion: a part failed for want of capacity; unless the last decrease
\* is too recent the limit is halved.  The part is tried again or given up.
recordCongestion(c) ==
  /\ pc[c] = "working" /\ c \notin aborted
  /\ healthy' = 0
  /\ \E end \in {"working", "leaving"}, cooled \in BOOLEAN :
       LET p == [pc EXCEPT ![c] = end]
       IN IF limit <= 1 \/ ~cooled
          THEN pc' = p /\ UNCHANGED <<active, waiting, limit>>
          ELSE setLimit((limit + 1) \div 2, ceiling, p)
  /\ UNCHANGED <<aborted, ceiling, initialized>>

\* The work fails otherwise, or stops at an abort.
fail(c) ==
  /\ pc[c] = "working"
  /\ pc' = [pc EXCEPT ![c] = "leaving"]
  /\ UNCHANGED <<aborted, active, waiting, limit, ceiling, initialized, healthy>>

Progress(c) == run(c) \/ release(c) \/ recordSuccess(c) \/ fail(c)

Next ==
  \/ \E c \in Clients : acquire(c) \/ abort(c) \/ renew(c) \/ recordCongestion(c)
                        \/ Progress(c)
  \/ \E top \in 1..MaxCeiling : setCeiling(top)

Spec == Init /\ [][Next]_gateVars

\* Work ends: a part is sent, refused or given up after three attempts, and the
\* event loop runs what follows.
GateFair == \A c \in Clients : WF_gateVars(Progress(c))

-----------------------------------------------------------------------------
Holding == {"admitted", "working", "leaving"}
Holders == {c \in Clients : pc[c] \in Holding}

\* Slots are neither leaked nor handed out twice, whatever the order of aborts,
\* ends and changes of the limit; the limit stays between 1 and the ceiling, and
\* those that wait are the ones in the queue.
SlotsAreCounted ==
  /\ active = Cardinality(Holders)
  /\ 1 <= limit /\ limit <= ceiling
  /\ \A c \in Clients : pc[c] = "waiting" <=> c \in ToSet(waiting)

\* The gate implements a resizable semaphore.
Gate == INSTANCE Semaphore WITH holders <- Holders, waiters <- ToSet(waiting), capacity <- limit
ImplementsSemaphore == Gate!SemSpec

\* Whoever waits is admitted or gives up.
WaitersAreServed == \A c \in Clients : pc[c] = "waiting" ~> pc[c] # "waiting"
=============================================================================
