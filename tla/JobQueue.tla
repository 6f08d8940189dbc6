------------------------------- MODULE JobQueue -------------------------------
(***************************************************************************)
(* The background jobs of internal/jobs: rows of the jobs table, claimed   *)
(* under a lease by the workers of one server process, which may shut down *)
(* or die at any moment and comes up again with the same worker names.     *)
(*                                                                         *)
(* An action is one statement on the jobs table, the end of a handler, or  *)
(* the passing of a moment the statements compare with the clock.          *)
(***************************************************************************)
EXTENDS Naturals

CONSTANTS
    Jobs,
    Known,          \* the jobs of a type that has a handler
    Workers,
    NoWorker,       \* a NULL locked_by
    MaxAttempts     \* jobs.max_attempts

ASSUME JobAssumption ==
    /\ Known \subseteq Jobs
    /\ NoWorker \notin Workers
    /\ MaxAttempts \in Nat \ {0}

VARIABLES
    status,     \* jobs.status; "none" before the insert
    attempts,   \* jobs.attempts
    lockedBy,   \* jobs.locked_by
    stale,      \* the running jobs whose locked_at is past the lease timeout
    later,      \* the queued jobs whose run_at is still to come
    worker,     \* what each worker goroutine is doing
    up          \* FALSE between the cancellation of the context and the exit

jobVars == <<status, attempts, lockedBy, stale, later>>
vars == <<jobVars, worker, up>>

Idle == [pc |-> "idle"]
Results == {"ok", "permanent", "error"}

Init ==
    /\ status = [j \in Jobs |-> "none"]
    /\ attempts = [j \in Jobs |-> 0]
    /\ lockedBy = [j \in Jobs |-> NoWorker]
    /\ stale = {}
    /\ later = {}
    /\ worker = [w \in Workers |-> Idle]
    /\ up = TRUE

-----------------------------------------------------------------------------
\* A producer inserts a job, to run now or after a delay.
Enqueue(j) ==
    /\ status[j] = "none"
    /\ status' = [status EXCEPT ![j] = "queued"]
    /\ later' \in {later, later \cup {j}}
    /\ UNCHANGED <<attempts, lockedBy, stale, worker, up>>

RunAtPasses(j) ==
    /\ j \in later
    /\ later' = later \ {j}
    /\ UNCHANGED <<status, attempts, lockedBy, stale, worker, up>>

\* locked_at is set by Claim and by each heartbeat; the clock may pass the
\* timeout at any time, as a process may be suspended or cut off from the
\* database.
LeaseExpires(j) ==
    /\ status[j] = "running" /\ j \notin stale
    /\ stale' = stale \cup {j}
    /\ UNCHANGED <<status, attempts, lockedBy, later, worker, up>>

-----------------------------------------------------------------------------
\* The statements.

\* The claiming UPDATE.
Claimed(w, j) ==
    /\ up
    /\ worker[w] = Idle
    /\ status[j] = "queued" /\ j \notin later /\ attempts[j] < MaxAttempts
    /\ status' = [status EXCEPT ![j] = "running"]
    /\ attempts' = [attempts EXCEPT ![j] = @ + 1]
    /\ lockedBy' = [lockedBy EXCEPT ![j] = w]
    /\ UNCHANGED <<stale, later, up>>

Claim(w, j) ==
    /\ Claimed(w, j)
    /\ worker' = [worker EXCEPT ![w] = [pc |-> "handle", job |-> j, attempt |-> attempts[j] + 1]]

\* The claim is made and its answer is lost: the worker goes round its loop.
ClaimUnanswered(w, j) == Claimed(w, j) /\ UNCHANGED worker

\* WHERE id = job AND status = 'running' AND locked_by = worker.
HoldsRunning(w) == status[worker[w].job] = "running"  \* mutant
Holds(w) == status[worker[w].job] = "running" /\ lockedBy[worker[w].job] = w

\* A heartbeat that finds the lease lost cancels the handler, which then ends
\* in one of the ways it may end anyway.
TouchAnyHolder(w) ==  \* mutant
    /\ worker[w].pc = "handle"
    /\ status[worker[w].job] = "running"
    /\ stale' = stale \ {worker[w].job}
    /\ lockedBy' = [lockedBy EXCEPT ![worker[w].job] = w]
    /\ UNCHANGED <<status, attempts, later, worker, up>>
Touch(w) ==
    /\ worker[w].pc = "handle"
    /\ Holds(w)
    /\ stale' = stale \ {worker[w].job}
    /\ UNCHANGED <<status, attempts, lockedBy, later, worker, up>>

\* The status a job takes when an attempt ends without an outcome.
AlwaysQueued(j) == "queued"  \* mutant
AfterAttempt(j) == IF attempts[j] >= MaxAttempts THEN "dead" ELSE "queued"

\* One statement for all the expired leases.
RecoverAttemptsLeft(w) ==  \* mutant
    LET again == {j \in stale : attempts[j] < MaxAttempts}
    IN  /\ up
        /\ worker[w] = Idle
        /\ again # {}
        /\ status' = [j \in Jobs |-> IF j \in again THEN AfterAttempt(j) ELSE status[j]]
        /\ lockedBy' = [j \in Jobs |-> IF j \in again THEN NoWorker ELSE lockedBy[j]]
        /\ stale' = stale \ again
        /\ UNCHANGED <<attempts, later, worker, up>>
RecoverStale(w) ==
    /\ up
    /\ worker[w] = Idle
    /\ stale # {}
    /\ status' = [j \in Jobs |-> IF j \in stale THEN AfterAttempt(j) ELSE status[j]]
    /\ lockedBy' = [j \in Jobs |-> IF j \in stale THEN NoWorker ELSE lockedBy[j]]
    /\ stale' = {}
    /\ UNCHANGED <<attempts, later, worker, up>>

-----------------------------------------------------------------------------
\* runJob.

\* The handler returns and the heartbeat has stopped.  A job of an unknown type
\* has no handler and fails for good.
HandlerEnds(w, result) ==
    /\ worker[w].pc = "handle"
    /\ worker[w].job \notin Known => result = "permanent"
    /\ worker' = [worker EXCEPT ![w] = [pc |-> "finish", job |-> @.job, attempt |-> @.attempt,
                                        result |-> result]]
    /\ UNCHANGED <<jobVars, up>>

\* Complete, Fail and Retry change the row only for the holder of the lease;
\* whoever has lost it is told so and goes on to the next job.
Finish(w, result, to) ==
    /\ worker[w].pc = "finish"
    /\ worker[w].result = result
    /\ worker' = [worker EXCEPT ![w] = Idle]
    /\ IF Holds(w)
         THEN LET j == worker[w].job
              IN  /\ status' = [status EXCEPT ![j] = to]
                  /\ lockedBy' = [lockedBy EXCEPT ![j] = NoWorker]
                  /\ stale' = stale \ {j}
         ELSE UNCHANGED <<status, lockedBy, stale>>
    /\ UNCHANGED <<attempts, up>>

Complete(w) == Finish(w, "ok", "completed") /\ UNCHANGED later
Fail(w) == Finish(w, "permanent", "failed") /\ UNCHANGED later

\* The job waits before its next attempt, except at shutdown.
Retry(w) ==
    /\ Finish(w, "error", AfterAttempt(worker[w].job))
    /\ later' = IF up /\ Holds(w) /\ AfterAttempt(worker[w].job) = "queued"
                  THEN later \cup {worker[w].job}
                  ELSE later

\* The database refuses or the five seconds a shutdown allows are over.
FinishFails(w) ==
    /\ worker[w].pc = "finish"
    /\ worker' = [worker EXCEPT ![w] = Idle]
    /\ UNCHANGED <<jobVars, up>>

\* The context is cancelled; the process does not wait for its workers.
Shutdown == up /\ up' = FALSE /\ UNCHANGED <<jobVars, worker>>

\* The process is gone, stopped or crashed, and another takes its place.
Restart ==
    /\ worker' = [w \in Workers |-> Idle]
    /\ up' = TRUE
    /\ UNCHANGED jobVars

-----------------------------------------------------------------------------
Next ==
    \/ \E j \in Jobs : Enqueue(j)
    \/ \E j \in Jobs : RunAtPasses(j)
    \/ \E j \in Jobs : LeaseExpires(j)
    \/ \E w \in Workers, j \in Jobs : Claim(w, j)
    \/ \E w \in Workers, j \in Jobs : ClaimUnanswered(w, j)
    \/ \E w \in Workers : Touch(w)
    \/ \E w \in Workers : RecoverStale(w)
    \/ \E w \in Workers, result \in Results : HandlerEnds(w, result)
    \/ \E w \in Workers : Complete(w)
    \/ \E w \in Workers : Fail(w)
    \/ \E w \in Workers : Retry(w)
    \/ \E w \in Workers : FinishFails(w)
    \/ Shutdown
    \/ Restart

Spec == Init /\ [][Next]_vars

\* A running job no worker is at work on any more.
Unattended(j) == ~\E w \in Workers : worker[w] # Idle /\ worker[w].job = j

\* The clock runs, handlers return, a worker goes on to its next statement, a
\* process that stops is started again; Claim takes the job whose run_at is
\* oldest, so no due job is passed over for ever, and the loop recovers before
\* it claims.
FairSpec ==
    /\ Spec
    /\ \A j \in Jobs : /\ WF_vars(RunAtPasses(j))
                       /\ WF_vars(Unattended(j) /\ LeaseExpires(j))
                       /\ SF_vars(\E w \in Workers : Claim(w, j))
    /\ \A w \in Workers : /\ WF_vars(\E result \in Results : HandlerEnds(w, result))
                          /\ WF_vars(Complete(w) \/ Fail(w) \/ Retry(w) \/ FinishFails(w))
    /\ SF_vars(\E w \in Workers : RecoverStale(w))
    /\ WF_vars(~up /\ Restart)

-----------------------------------------------------------------------------
\* Properties.

Handling == [pc : {"handle"}, job : Jobs, attempt : 1 .. MaxAttempts]
Finishing == [pc : {"finish"}, job : Jobs, attempt : 1 .. MaxAttempts, result : Results]

Lifecycle == INSTANCE JobLifecycle

\* Every variable stays in the range its column or type allows.
TypeOK ==
    /\ status \in [Jobs -> Lifecycle!Statuses]
    /\ attempts \in [Jobs -> 0 .. MaxAttempts]
    /\ lockedBy \in [Jobs -> Workers \cup {NoWorker}]
    /\ stale \subseteq Jobs
    /\ later \subseteq Jobs
    /\ worker \in [Workers -> {Idle} \cup Handling \cup Finishing]
    /\ up \in BOOLEAN

\* Only running jobs have a lease to lose, and a queued job has an attempt left.
JobsAreConsistent ==
    /\ \A j \in stale : status[j] = "running"
    /\ \A j \in Jobs : /\ status[j] = "none" => attempts[j] = 0
                       /\ status[j] = "queued" => attempts[j] < MaxAttempts

\* A worker that holds a lease holds it for the attempt it is making: a worker
\* whose job was recovered, and perhaps claimed again, no longer counts.
HolderRunsCurrentAttempt ==
    \A w \in Workers :
        worker[w] # Idle /\ Holds(w) => worker[w].attempt = attempts[worker[w].job]

IInv == TypeOK /\ JobsAreConsistent /\ HolderRunsCurrentAttempt

\* A job stops running by the hand of the worker that makes its current
\* attempt, or because its lease has expired.
LeaseIsRespected ==
    [][\A j \in Jobs : status[j] = "running" /\ status'[j] # "running" =>
          \/ j \in stale
          \/ \E w \in Workers : /\ worker[w] # Idle
                                /\ worker[w].job = j
                                /\ worker[w].attempt = attempts[j]]_vars

\* The queue keeps each job to the life cycle of the operator's manual.
ImplementsLifecycle == Lifecycle!Spec

\* Every job that is queued ends up completed, failed or dead, however often
\* the server is restarted.
JobsSettle == \A j \in Jobs : status[j] = "queued" ~> status[j] \in Lifecycle!Settled
=============================================================================
