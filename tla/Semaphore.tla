----------------------------- MODULE Semaphore -----------------------------
(* What the web client's queues of asynchronous work promise their callers: a *)
(* resizable semaphore.  At most capacity clients are admitted (clients that  *)
(* were admitted under a larger capacity keep their slot), whoever waits may  *)
(* give up, and no step leaves a slot idle while somebody waits for it.       *)
EXTENDS Integers, FiniteSets

CONSTANT Clients
VARIABLES holders, waiters, capacity

semVars == <<holders, waiters, capacity>>

SemInit ==
  /\ holders = {} /\ waiters = {}
  /\ capacity \in Nat \ {0}

\* Whoever enters does so below the new capacity, and no slot stays idle.
Sound ==
  /\ holders' \ holders # {} => Cardinality(holders') <= capacity'
  /\ waiters' # {} => Cardinality(holders') >= capacity'

\* A client asks, and is admitted at once or waits.
Ask(c) ==
  /\ c \notin holders \cup waiters
  /\ holders' \cup waiters' = holders \cup waiters \cup {c}
  /\ holders \subseteq holders'
  /\ holders' \cap waiters' = {}
  /\ capacity' = capacity
  /\ Sound

\* A holder leaves, a waiter gives up, or the capacity changes; waiters follow.
Settle ==
  /\ \E gone \in SUBSET (holders \cup waiters) :
       /\ Cardinality(gone) <= 1
       /\ holders' \cup waiters' = (holders \cup waiters) \ gone
       /\ holders \ gone \subseteq holders'
  /\ holders' \cap waiters' = {}
  /\ capacity' \in Nat \ {0}
  /\ Sound

SemNext == Settle \/ \E c \in Clients : Ask(c)

SemSpec == SemInit /\ [][SemNext]_semVars
=============================================================================
