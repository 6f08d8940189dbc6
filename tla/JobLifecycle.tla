----------------------------- MODULE JobLifecycle -----------------------------
(***************************************************************************)
(* What the job queue promises of each job: the life cycle the operator's  *)
(* manual draws under "Job leases".  Several jobs may move in one step,    *)
(* because one statement recovers every expired lease.                     *)
(***************************************************************************)
EXTENDS Naturals

CONSTANTS
    Jobs,
    MaxAttempts     \* jobs.max_attempts

Settled == {"completed", "failed", "dead"}
Statuses == {"none", "queued", "running"} \cup Settled

VARIABLES
    status,     \* jobs.status; "none" before the insert
    attempts    \* jobs.attempts

lifecycleVars == <<status, attempts>>

Init ==
    /\ status = [j \in Jobs |-> "none"]
    /\ attempts = [j \in Jobs |-> 0]

Moves(j, from, to) == status[j] = from /\ status'[j] = to
Keeps(j) == attempts'[j] = attempts[j]

Enqueue(j) == Moves(j, "none", "queued") /\ Keeps(j)
Start(j) ==
    /\ Moves(j, "queued", "running")
    /\ attempts[j] < MaxAttempts
    /\ attempts'[j] = attempts[j] + 1
Complete(j) == Moves(j, "running", "completed") /\ Keeps(j)
Fail(j) == Moves(j, "running", "failed") /\ Keeps(j)
Requeue(j) == Moves(j, "running", "queued") /\ attempts[j] < MaxAttempts /\ Keeps(j)
Bury(j) == Moves(j, "running", "dead") /\ attempts[j] >= MaxAttempts /\ Keeps(j)
Rest(j) == status'[j] = status[j] /\ Keeps(j)

Next ==
    /\ status' \in [Jobs -> Statuses]
    /\ attempts' \in [Jobs -> 0 .. MaxAttempts]
    /\ \A j \in Jobs : \/ Enqueue(j) \/ Start(j) \/ Complete(j) \/ Fail(j)
                       \/ Requeue(j) \/ Bury(j) \/ Rest(j)

Spec == Init /\ [][Next]_lifecycleVars
=============================================================================
