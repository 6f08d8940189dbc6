---------------------------- MODULE JobQueueProofs ----------------------------
(***************************************************************************)
(* Proofs about JobQueue: the lease invariant, and that the queue keeps    *)
(* every job to the life cycle of JobLifecycle, for any number of jobs,    *)
(* workers and attempts and any number of restarts.                        *)
(***************************************************************************)
EXTENDS JobQueue, TLAPS

\* How a worker that is not idle looks.
LEMMA BusyWorker ==
    ASSUME TypeOK, NEW w \in Workers, worker[w] # Idle
    PROVE  /\ worker[w].job \in Jobs
           /\ worker[w].attempt \in 1 .. MaxAttempts
  <1>1. worker[w] \in Handling \cup Finishing
    BY DEF TypeOK
  <1> QED BY <1>1 DEF Handling, Finishing

\* A worker at a named point of runJob is not idle.
LEMMA PointIsBusy ==
    ASSUME NEW w \in Workers
    PROVE  worker[w].pc \in {"handle", "finish"} => worker[w] # Idle
  BY DEF Idle

\* The claiming UPDATE, whether its answer arrives or not.
LEMMA ClaimedKeepsRow ==
    ASSUME TypeOK, NEW w \in Workers, NEW j \in Jobs, Claimed(w, j)
    PROVE  /\ status' \in [Jobs -> Lifecycle!Statuses]
           /\ attempts' \in [Jobs -> 0 .. MaxAttempts]
           /\ lockedBy' \in [Jobs -> Workers \cup {NoWorker}]
           /\ stale' \subseteq Jobs
           /\ later' \subseteq Jobs
           /\ up' \in BOOLEAN
           /\ attempts[j] + 1 \in 1 .. MaxAttempts
  BY JobAssumption DEF Claimed, TypeOK, Lifecycle!Statuses

\* What an attempt without an outcome leaves is a status of the life cycle.
LEMMA AfterAttemptIsStatus ==
    ASSUME NEW j \in Jobs
    PROVE  /\ AfterAttempt(j) \in Lifecycle!Statuses
           /\ AfterAttempt(j) # "running"
           /\ AfterAttempt(j) = "queued" => ~(attempts[j] >= MaxAttempts)
  BY DEF AfterAttempt, Lifecycle!Statuses, Lifecycle!Settled

\* The statement that ends an attempt keeps the types.
LEMMA FinishKeepsType ==
    ASSUME TypeOK, NEW w \in Workers, NEW result \in Results,
           NEW to \in Lifecycle!Statuses, Finish(w, result, to)
    PROVE  /\ status' \in [Jobs -> Lifecycle!Statuses]
           /\ attempts' \in [Jobs -> 0 .. MaxAttempts]
           /\ lockedBy' \in [Jobs -> Workers \cup {NoWorker}]
           /\ stale' \subseteq Jobs
           /\ worker' \in [Workers -> {Idle} \cup Handling \cup Finishing]
           /\ up' \in BOOLEAN
  <1>1. worker[w].job \in Jobs
    BY BusyWorker, PointIsBusy DEF Finish
  <1> QED BY <1>1 DEF Finish, TypeOK

THEOREM TypeStep == TypeOK /\ [Next]_vars => TypeOK'
  <1> SUFFICES ASSUME TypeOK, [Next]_vars PROVE TypeOK'
    OBVIOUS
  <1>1. ASSUME NEW j \in Jobs, Enqueue(j) PROVE TypeOK'
    BY <1>1 DEF Enqueue, TypeOK, Lifecycle!Statuses
  <1>2. ASSUME NEW j \in Jobs, RunAtPasses(j) PROVE TypeOK'
    BY <1>2 DEF RunAtPasses, TypeOK
  <1>3. ASSUME NEW j \in Jobs, LeaseExpires(j) PROVE TypeOK'
    BY <1>3 DEF LeaseExpires, TypeOK
  <1>4. ASSUME NEW w \in Workers, NEW j \in Jobs, Claim(w, j) PROVE TypeOK'
    <2>1. Claimed(w, j)
      BY <1>4 DEF Claim
    <2>2. [pc |-> "handle", job |-> j, attempt |-> attempts[j] + 1] \in Handling
      BY <2>1, ClaimedKeepsRow DEF Handling
    <2>3. worker' \in [Workers -> {Idle} \cup Handling \cup Finishing]
      BY <1>4, <2>2 DEF Claim, TypeOK
    <2> QED BY <2>1, <2>3, ClaimedKeepsRow DEF TypeOK
  <1>5. ASSUME NEW w \in Workers, NEW j \in Jobs, ClaimUnanswered(w, j) PROVE TypeOK'
    <2>1. Claimed(w, j) /\ worker' = worker
      BY <1>5 DEF ClaimUnanswered
    <2> QED BY <2>1, ClaimedKeepsRow DEF TypeOK
  <1>6. ASSUME NEW w \in Workers, Touch(w) PROVE TypeOK'
    BY <1>6 DEF Touch, TypeOK
  <1>7. ASSUME NEW w \in Workers, RecoverStale(w) PROVE TypeOK'
    BY <1>7, AfterAttemptIsStatus DEF RecoverStale, TypeOK
  <1>8. ASSUME NEW w \in Workers, NEW result \in Results, HandlerEnds(w, result) PROVE TypeOK'
    <2>1. worker[w].job \in Jobs /\ worker[w].attempt \in 1 .. MaxAttempts
      BY <1>8, BusyWorker, PointIsBusy DEF HandlerEnds
    <2>2. [pc |-> "finish", job |-> worker[w].job, attempt |-> worker[w].attempt,
           result |-> result] \in Finishing
      BY <2>1 DEF Finishing
    <2> QED BY <1>8, <2>2 DEF HandlerEnds, jobVars, TypeOK
  <1>9. ASSUME NEW w \in Workers, Complete(w) PROVE TypeOK'
    <2>1. Finish(w, "ok", "completed") /\ later' = later
      BY <1>9 DEF Complete
    <2>2. "ok" \in Results /\ "completed" \in Lifecycle!Statuses
      BY DEF Results, Lifecycle!Statuses, Lifecycle!Settled
    <2> QED BY <2>1, <2>2, FinishKeepsType DEF TypeOK
  <1>10. ASSUME NEW w \in Workers, Fail(w) PROVE TypeOK'
    <2>1. Finish(w, "permanent", "failed") /\ later' = later
      BY <1>10 DEF Fail
    <2>2. "permanent" \in Results /\ "failed" \in Lifecycle!Statuses
      BY DEF Results, Lifecycle!Statuses, Lifecycle!Settled
    <2> QED BY <2>1, <2>2, FinishKeepsType DEF TypeOK
  <1>11. ASSUME NEW w \in Workers, Retry(w) PROVE TypeOK'
    <2>1. Finish(w, "error", AfterAttempt(worker[w].job))
      BY <1>11 DEF Retry
    <2>2. worker[w].job \in Jobs
      BY <2>1, BusyWorker, PointIsBusy DEF Finish
    <2>3. "error" \in Results /\ AfterAttempt(worker[w].job) \in Lifecycle!Statuses
      BY <2>2, AfterAttemptIsStatus DEF Results
    <2>4. later' \subseteq Jobs
      BY <1>11, <2>2 DEF Retry, TypeOK
    <2> QED BY <2>1, <2>3, <2>4, FinishKeepsType DEF TypeOK
  <1>12. ASSUME NEW w \in Workers, FinishFails(w) PROVE TypeOK'
    BY <1>12 DEF FinishFails, jobVars, TypeOK
  <1>13. CASE Shutdown
    BY <1>13 DEF Shutdown, jobVars, TypeOK
  <1>14. CASE Restart
    BY <1>14 DEF Restart, jobVars, TypeOK
  <1>15. CASE UNCHANGED vars
    BY <1>15 DEF vars, jobVars, TypeOK
  <1> QED BY <1>1, <1>2, <1>3, <1>4, <1>5, <1>6, <1>7, <1>8, <1>9, <1>10, <1>11, <1>12,
             <1>13, <1>14, <1>15 DEF Next

THEOREM InitHolds == Init => IInv
  BY JobAssumption DEF Init, IInv, TypeOK, JobsAreConsistent, HolderRunsCurrentAttempt, Idle,
     Lifecycle!Statuses

\* Every variable keeps its type (the columns of the jobs table and the state
\* of a worker loop).
THEOREM TypeCorrect == Spec => []TypeOK
  <1>1. Init => TypeOK
    BY InitHolds DEF IInv
  <1> QED BY <1>1, TypeStep, PTL DEF Spec

-----------------------------------------------------------------------------
\* The lease invariant.

\* No status changes but by an attempt that ends: what else a step of the
\* workers may do keeps the jobs consistent.
LEMMA FinishKeepsConsistent ==
    ASSUME TypeOK, JobsAreConsistent, NEW w \in Workers, NEW result, NEW to,
           to \notin {"none", "running"},
           to = "queued" => attempts[worker[w].job] < MaxAttempts,
           Finish(w, result, to)
    PROVE  JobsAreConsistent'
  <1>1. worker[w].job \in Jobs
    BY BusyWorker, PointIsBusy DEF Finish
  <1> QED BY <1>1 DEF Finish, TypeOK, JobsAreConsistent

THEOREM ConsistentStep == TypeOK /\ JobsAreConsistent /\ [Next]_vars => JobsAreConsistent'
  <1> SUFFICES ASSUME TypeOK, JobsAreConsistent, [Next]_vars PROVE JobsAreConsistent'
    OBVIOUS
  <1>1. ASSUME NEW j \in Jobs, Enqueue(j) PROVE JobsAreConsistent'
    BY <1>1, JobAssumption DEF Enqueue, TypeOK, JobsAreConsistent
  <1>2. ASSUME NEW j \in Jobs, RunAtPasses(j) PROVE JobsAreConsistent'
    BY <1>2 DEF RunAtPasses, JobsAreConsistent
  <1>3. ASSUME NEW j \in Jobs, LeaseExpires(j) PROVE JobsAreConsistent'
    BY <1>3 DEF LeaseExpires, JobsAreConsistent
  <1>4. ASSUME NEW w \in Workers, NEW j \in Jobs, Claim(w, j) \/ ClaimUnanswered(w, j)
        PROVE  JobsAreConsistent'
    BY <1>4 DEF Claim, ClaimUnanswered, Claimed, TypeOK, JobsAreConsistent
  <1>5. ASSUME NEW w \in Workers, Touch(w) PROVE JobsAreConsistent'
    BY <1>5 DEF Touch, JobsAreConsistent
  <1>6. ASSUME NEW w \in Workers, RecoverStale(w) PROVE JobsAreConsistent'
    BY <1>6, JobAssumption DEF RecoverStale, AfterAttempt, TypeOK, JobsAreConsistent
  <1>7. ASSUME NEW w \in Workers, NEW result \in Results, HandlerEnds(w, result)
        PROVE  JobsAreConsistent'
    BY <1>7 DEF HandlerEnds, jobVars, JobsAreConsistent
  <1>8. ASSUME NEW w \in Workers, Complete(w) \/ Fail(w) PROVE JobsAreConsistent'
    BY <1>8, FinishKeepsConsistent DEF Complete, Fail
  <1>9. ASSUME NEW w \in Workers, Retry(w) PROVE JobsAreConsistent'
    <2>1. Finish(w, "error", AfterAttempt(worker[w].job))
      BY <1>9 DEF Retry
    <2>2. worker[w].job \in Jobs
      BY <2>1, BusyWorker, PointIsBusy DEF Finish
    <2>3. /\ AfterAttempt(worker[w].job) \notin {"none", "running"}
          /\ AfterAttempt(worker[w].job) = "queued" => attempts[worker[w].job] < MaxAttempts
      BY <2>2, JobAssumption DEF AfterAttempt, TypeOK
    <2> QED BY <2>1, <2>3, FinishKeepsConsistent
  <1>10. ASSUME NEW w \in Workers, FinishFails(w) PROVE JobsAreConsistent'
    BY <1>10 DEF FinishFails, jobVars, JobsAreConsistent
  <1>11. CASE Shutdown \/ Restart \/ UNCHANGED vars
    BY <1>11 DEF Shutdown, Restart, vars, jobVars, JobsAreConsistent
  <1> QED BY <1>1, <1>2, <1>3, <1>4, <1>5, <1>6, <1>7, <1>8, <1>9, <1>10, <1>11 DEF Next

THEOREM HolderStep ==
    TypeOK /\ HolderRunsCurrentAttempt /\ [Next]_vars => HolderRunsCurrentAttempt'
  <1> SUFFICES ASSUME TypeOK, HolderRunsCurrentAttempt, [Next]_vars,
                      NEW v \in Workers, worker'[v] # Idle, Holds(v)'
               PROVE  worker'[v].attempt = attempts'[worker'[v].job]
    BY DEF HolderRunsCurrentAttempt
  \* A step that leaves v alone with its job, and gives it no lease.
  <1>1. ASSUME worker'[v] = worker[v], attempts' = attempts, Holds(v)
        PROVE  worker'[v].attempt = attempts'[worker'[v].job]
    BY <1>1 DEF HolderRunsCurrentAttempt
  <1>2. ASSUME NEW j \in Jobs, Enqueue(j) PROVE worker'[v].attempt = attempts'[worker'[v].job]
    BY <1>1, <1>2 DEF Enqueue, TypeOK, Holds
  <1>3. ASSUME NEW j \in Jobs, RunAtPasses(j) \/ LeaseExpires(j)
        PROVE  worker'[v].attempt = attempts'[worker'[v].job]
    BY <1>1, <1>3 DEF RunAtPasses, LeaseExpires, Holds
  <1>4. ASSUME NEW w \in Workers, NEW j \in Jobs, Claim(w, j)
        PROVE  worker'[v].attempt = attempts'[worker'[v].job]
    <2>1. CASE v = w
      <3>1. worker'[v] = [pc |-> "handle", job |-> j, attempt |-> attempts[j] + 1]
        BY <1>4, <2>1 DEF Claim, TypeOK
      <3> QED BY <1>4, <3>1 DEF Claim, Claimed, TypeOK
    <2>2. CASE v # w
      <3>1. worker'[v] = worker[v]
        BY <1>4, <2>2 DEF Claim, TypeOK
      <3>2. worker[v].job \in Jobs
        BY <3>1, BusyWorker
      <3>3. worker[v].job # j
        BY <1>4, <2>2, <3>1, <3>2 DEF Claim, Claimed, Holds, TypeOK
      <3> QED BY <1>4, <3>1, <3>2, <3>3
              DEF Claim, Claimed, Holds, TypeOK, HolderRunsCurrentAttempt
    <2> QED BY <2>1, <2>2
  \* The idle worker whose claim went unanswered is not v.
  <1>5. ASSUME NEW w \in Workers, NEW j \in Jobs, ClaimUnanswered(w, j)
        PROVE  worker'[v].attempt = attempts'[worker'[v].job]
    <2>1. worker'[v] = worker[v] /\ v # w
      BY <1>5 DEF ClaimUnanswered, Claimed
    <2>2. worker[v].job \in Jobs
      BY <2>1, BusyWorker
    <2>3. worker[v].job # j
      BY <1>5, <2>1, <2>2 DEF ClaimUnanswered, Claimed, Holds, TypeOK
    <2> QED BY <1>5, <2>1, <2>2, <2>3
            DEF ClaimUnanswered, Claimed, Holds, TypeOK, HolderRunsCurrentAttempt
  <1>6. ASSUME NEW w \in Workers, Touch(w) PROVE worker'[v].attempt = attempts'[worker'[v].job]
    BY <1>1, <1>6 DEF Touch, Holds
  <1>7. ASSUME NEW w \in Workers, RecoverStale(w)
        PROVE  worker'[v].attempt = attempts'[worker'[v].job]
    <2>1. worker'[v] = worker[v] /\ attempts' = attempts
      BY <1>7 DEF RecoverStale
    <2>2. worker[v].job \in Jobs
      BY <2>1, BusyWorker
    <2>3. worker[v].job \notin stale
      BY <1>7, <2>1, <2>2, JobAssumption DEF RecoverStale, Holds
    <2> QED BY <1>1, <1>7, <2>1, <2>2, <2>3 DEF RecoverStale, Holds
  <1>8. ASSUME NEW w \in Workers, NEW result \in Results, HandlerEnds(w, result)
        PROVE  worker'[v].attempt = attempts'[worker'[v].job]
    <2>1. worker[w] # Idle
      BY <1>8, PointIsBusy DEF HandlerEnds
    <2>2. CASE v = w
      BY <1>8, <2>1, <2>2 DEF HandlerEnds, jobVars, Holds, TypeOK, HolderRunsCurrentAttempt
    <2>3. CASE v # w
      BY <1>1, <1>8, <2>3 DEF HandlerEnds, jobVars, Holds, TypeOK
    <2> QED BY <2>2, <2>3
  <1>9. ASSUME NEW w \in Workers, NEW result, NEW to, Finish(w, result, to)
        PROVE  worker'[v].attempt = attempts'[worker'[v].job]
    <2>1. v # w /\ worker'[v] = worker[v] /\ attempts' = attempts
      BY <1>9 DEF Finish, TypeOK
    <2>2. worker[v].job \in Jobs /\ worker[w].job \in Jobs
      BY <1>9, <2>1, BusyWorker, PointIsBusy DEF Finish
    <2>3. Holds(v)
      BY <1>9, <2>1, <2>2, JobAssumption DEF Finish, Holds, TypeOK
    <2> QED BY <1>1, <2>1, <2>3
  <1>10. ASSUME NEW w \in Workers, FinishFails(w)
         PROVE  worker'[v].attempt = attempts'[worker'[v].job]
    BY <1>1, <1>10 DEF FinishFails, jobVars, Holds, TypeOK
  <1>11. CASE Shutdown \/ UNCHANGED vars
    BY <1>1, <1>11 DEF Shutdown, vars, jobVars, Holds
  <1>12. CASE Restart
    BY <1>12 DEF Restart
  <1> QED BY <1>2, <1>3, <1>4, <1>5, <1>6, <1>7, <1>8, <1>9, <1>10, <1>11, <1>12
          DEF Next, Complete, Fail, Retry

\* A worker holds a lease only for the attempt it is making (runJob, and the
\* WHERE clauses on locked_by).
THEOREM HolderAlwaysRunsCurrentAttempt == Spec => []IInv
  <1>1. IInv /\ [Next]_vars => IInv'
    BY TypeStep, ConsistentStep, HolderStep DEF IInv
  <1> QED BY <1>1, InitHolds, PTL DEF Spec

-----------------------------------------------------------------------------
\* Leases.

\* The steps that touch no job's status, as one fact.
LEMMA StatusKept ==
    ASSUME \/ \E j \in Jobs : RunAtPasses(j) \/ LeaseExpires(j)
           \/ \E w \in Workers : Touch(w) \/ FinishFails(w)
           \/ \E w \in Workers, result \in Results : HandlerEnds(w, result)
           \/ Shutdown \/ Restart \/ UNCHANGED vars
    PROVE  status' = status /\ attempts' = attempts
  BY DEF RunAtPasses, LeaseExpires, Touch, FinishFails, HandlerEnds, Shutdown, Restart,
         jobVars, vars

\* A job that is running stops only by the hand of the worker that makes its
\* current attempt, or after its lease has expired (the WHERE clauses of
\* Complete, Fail, Retry and RecoverStale).
THEOREM LeaseAlwaysRespected == Spec => LeaseIsRespected
  <1> DEFINE Respects == \A j \in Jobs : status[j] = "running" /\ status'[j] # "running" =>
                  \/ j \in stale
                  \/ \E w \in Workers : /\ worker[w] # Idle
                                        /\ worker[w].job = j
                                        /\ worker[w].attempt = attempts[j]
  <1>1. IInv /\ [Next]_vars => [Respects]_vars
    <2> SUFFICES ASSUME IInv, Next,
                        NEW j \in Jobs, status[j] = "running", status'[j] # "running",
                        j \notin stale
                 PROVE  \E w \in Workers : /\ worker[w] # Idle
                                           /\ worker[w].job = j
                                           /\ worker[w].attempt = attempts[j]
      OBVIOUS
    <2>1. ASSUME NEW i \in Jobs, Enqueue(i) PROVE FALSE
      BY <2>1 DEF Enqueue, IInv, TypeOK
    <2>2. ASSUME NEW w \in Workers, NEW i \in Jobs, Claimed(w, i) PROVE FALSE
      BY <2>2 DEF Claimed, IInv, TypeOK
    <2>3. ASSUME NEW w \in Workers, RecoverStale(w) PROVE FALSE
      BY <2>3 DEF RecoverStale, IInv, TypeOK
    <2>4. ASSUME NEW w \in Workers, NEW result, NEW to, Finish(w, result, to)
          PROVE  worker[w] # Idle /\ worker[w].job = j /\ worker[w].attempt = attempts[j]
      <3>1. worker[w] # Idle
        BY <2>4, PointIsBusy DEF Finish
      <3>2. worker[w].job \in Jobs
        BY <3>1, BusyWorker DEF IInv
      <3>3. Holds(w) /\ worker[w].job = j
        BY <2>4, <3>2 DEF Finish, IInv, TypeOK
      <3> QED BY <3>1, <3>3 DEF IInv, HolderRunsCurrentAttempt
    <2> QED BY <2>1, <2>2, <2>3, <2>4, StatusKept
            DEF Next, Claim, ClaimUnanswered, Complete, Fail, Retry
  <1> QED BY <1>1, HolderAlwaysRunsCurrentAttempt, PTL DEF Spec, LeaseIsRespected

-----------------------------------------------------------------------------
\* Refinement.

\* A statement that moves one job by a step of its life cycle and leaves the
\* others is a step of the abstract queue.
LEMMA OneJobMoves ==
    ASSUME TypeOK, TypeOK', NEW j \in Jobs,
           \A i \in Jobs \ {j} : status'[i] = status[i] /\ attempts'[i] = attempts[i],
           \/ Lifecycle!Enqueue(j) \/ Lifecycle!Start(j) \/ Lifecycle!Complete(j)
           \/ Lifecycle!Fail(j) \/ Lifecycle!Requeue(j) \/ Lifecycle!Bury(j)
           \/ Lifecycle!Rest(j)
    PROVE  Lifecycle!Next
  BY DEF Lifecycle!Next, Lifecycle!Rest, Lifecycle!Keeps, TypeOK

\* What Retry and RecoverStale do to a running job.
LEMMA AttemptEnds ==
    ASSUME TypeOK, NEW j \in Jobs, status[j] = "running",
           status'[j] = AfterAttempt(j), attempts' = attempts
    PROVE  Lifecycle!Requeue(j) \/ Lifecycle!Bury(j)
  BY JobAssumption DEF AfterAttempt, TypeOK, Lifecycle!Requeue, Lifecycle!Bury, Lifecycle!Moves,
         Lifecycle!Keeps

\* The statements that end an attempt.
LEMMA FinishImplements ==
    ASSUME IInv, TypeOK', NEW w \in Workers, NEW result, NEW to, Finish(w, result, to),
           to \in {"completed", "failed"} \/ to = AfterAttempt(worker[w].job)
    PROVE  Lifecycle!Next
  <1> DEFINE j == worker[w].job
  <1>1. j \in Jobs /\ attempts' = attempts
    BY BusyWorker, PointIsBusy DEF Finish, IInv
  <1>2. CASE Holds(w)
    <2>1. status[j] = "running" /\ status' = [status EXCEPT ![j] = to]
      BY <1>2 DEF Finish, Holds
    <2>2. status'[j] = to /\ \A i \in Jobs \ {j} : status'[i] = status[i]
      BY <1>1, <2>1 DEF IInv, TypeOK
    <2>3. CASE to = AfterAttempt(j)
      BY <1>1, <2>1, <2>2, <2>3, AttemptEnds, OneJobMoves DEF IInv
    <2>4. CASE to \in {"completed", "failed"}
      <3>1. Lifecycle!Complete(j) \/ Lifecycle!Fail(j)
        BY <1>1, <2>1, <2>2, <2>4
           DEF Lifecycle!Complete, Lifecycle!Fail, Lifecycle!Moves, Lifecycle!Keeps
      <3> QED BY <1>1, <2>2, <3>1, OneJobMoves DEF IInv
    <2> QED BY <2>3, <2>4
  <1>3. CASE ~Holds(w)
    BY <1>1, <1>3, OneJobMoves DEF Finish, IInv, Lifecycle!Rest, Lifecycle!Keeps
  <1> QED BY <1>2, <1>3

\* Every statement of the queue is a step of the life cycle the operator's
\* manual draws, or changes no job's status.
THEOREM QueueImplementsLifecycle == Spec => ImplementsLifecycle
  <1>1. Init => Lifecycle!Init
    BY DEF Init, Lifecycle!Init
  <1>2. IInv /\ TypeOK' /\ [Next]_vars => [Lifecycle!Next]_(Lifecycle!lifecycleVars)
    <2> SUFFICES ASSUME IInv, TypeOK', [Next]_vars
                 PROVE  Lifecycle!Next \/ (status' = status /\ attempts' = attempts)
      BY DEF Lifecycle!lifecycleVars
    <2>1. ASSUME NEW j \in Jobs, Enqueue(j) PROVE Lifecycle!Next
      <3>1. Lifecycle!Enqueue(j)
        BY <2>1 DEF Enqueue, IInv, TypeOK, Lifecycle!Enqueue, Lifecycle!Moves, Lifecycle!Keeps
      <3> QED BY <2>1, <3>1, OneJobMoves DEF Enqueue, IInv, TypeOK
    <2>2. ASSUME NEW w \in Workers, NEW j \in Jobs, Claimed(w, j) PROVE Lifecycle!Next
      <3>1. Lifecycle!Start(j)
        BY <2>2 DEF Claimed, IInv, TypeOK, Lifecycle!Start, Lifecycle!Moves
      <3> QED BY <2>2, <3>1, OneJobMoves DEF Claimed, IInv, TypeOK
    <2>3. ASSUME NEW w \in Workers, RecoverStale(w) PROVE Lifecycle!Next
      <3>1. ASSUME NEW j \in stale PROVE Lifecycle!Requeue(j) \/ Lifecycle!Bury(j)
        BY <2>3, <3>1, AttemptEnds DEF RecoverStale, IInv, TypeOK, JobsAreConsistent
      <3>2. ASSUME NEW j \in Jobs, j \notin stale PROVE Lifecycle!Rest(j)
        BY <2>3, <3>2 DEF RecoverStale, Lifecycle!Rest, Lifecycle!Keeps
      <3> QED BY <3>1, <3>2 DEF Lifecycle!Next, TypeOK
    <2>4. ASSUME NEW w \in Workers, Complete(w) \/ Fail(w) \/ Retry(w) PROVE Lifecycle!Next
      BY <2>4, FinishImplements DEF Complete, Fail, Retry
    <2> QED BY <2>1, <2>2, <2>3, <2>4, StatusKept DEF Next, Claim, ClaimUnanswered
  <1>3. Spec => []TypeOK
    BY TypeCorrect
  <1> QED BY <1>1, <1>2, <1>3, HolderAlwaysRunsCurrentAttempt, PTL
          DEF Spec, ImplementsLifecycle, Lifecycle!Spec
=============================================================================
