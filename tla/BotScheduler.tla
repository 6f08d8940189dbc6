----------------------------- MODULE BotScheduler -----------------------------
(***************************************************************************)
(* The leases on Discord bots: discordstore.Scheduler with its fairness    *)
(* between classes of operations, its operator controls and the probe.     *)
(*                                                                         *)
(* The scheduler is a monitor: an action is one critical section of its    *)
(* mutex.  A caller that has to wait sleeps on the channel "changed", that *)
(* every notification closes, or on the timer of the earliest cooldown.    *)
(***************************************************************************)
EXTENDS Integers, Sequences, FiniteSets, SequencesExt

CONSTANTS
    MaxBots,        \* the bots that may ever be configured
    FirstBots,      \* those resolved at start-up
    NumClasses,     \* the classes of fairLeaseOperations, in their order
    Callers,        \* the goroutines that ask for leases
    Exclusions,     \* the sets of bots a call may exclude
    MaxDisturbances \* bound on the operator's interventions and cancelled calls

ASSUME SchedulerAssumption ==
    /\ MaxBots \in Nat \ {0} /\ FirstBots \in 0 .. MaxBots
    /\ NumClasses \in Nat \ {0}
    /\ Exclusions \subseteq SUBSET (0 .. MaxBots - 1)
    /\ MaxDisturbances \in Nat

Bots == 0 .. MaxBots - 1
Classes == 0 .. NumClasses - 1

VARIABLES
    size,       \* len(bots)
    next,       \* the index the search for a bot starts from
    cursor,     \* fairCursor
    queue,      \* the fair waiters, by waiter id
    busy,
    cooling,    \* the bots whose cooldown is not over
    enabled, healthy, draining,     \* the flags of botControl, as sets of bots
    call,       \* what each caller is doing
    awake,      \* the waiting callers whose sleep has ended
    disturbed,  \* the number of interventions and cancellations so far
    passed      \* history: for each class, the leases given to others in a row while
                \* one of its own waiters could have been served, up to NumClasses

controlVars == <<enabled, healthy, draining>>
vars == <<size, next, cursor, queue, busy, cooling, controlVars, call, awake, disturbed, passed>>

Idle == [pc |-> "idle"]

Init ==
    /\ size = FirstBots
    /\ next = 0
    /\ cursor = 0
    /\ queue = <<>>
    /\ busy = {}
    /\ cooling = {}
    /\ enabled = Bots
    /\ healthy = Bots
    /\ draining = {}
    /\ call = [c \in Callers |-> Idle]
    /\ awake = {}
    /\ disturbed = 0
    /\ passed = [k \in Classes |-> 0]

-----------------------------------------------------------------------------
\* The selection of a bot and of a waiter.

At(c, pc) == call[c].pc = pc
Goto(c, to) == call' = [call EXCEPT ![c] = to]

Known == 0 .. size - 1
Eligible(b) == b \in enabled /\ b \in healthy /\ b \notin draining
Usable(excluded) == {b \in Known \ excluded : Eligible(b)}
Available(excluded) == Usable(excluded) \ (busy \cup cooling)

\* The index after i of n in a circle, and how far it is from one to another.
AfterUnwrapped(i, n) == i + 1  \* mutant
After(i, n) == IF i + 1 < n THEN i + 1 ELSE 0
Distance(from, i, n) == IF i >= from THEN i - from ELSE i + n - from

\* The available bot the search meets first.
Selected(excluded, b) ==
    /\ b \in Available(excluded)
    /\ \A other \in Available(excluded) :
          Distance(next, b, size) <= Distance(next, other, size)

Assignable(c) == Available(call[c].excluded) # {}

\* How far a class is from its turn.
Turn(k) == Distance(cursor, k, NumClasses)

\* c is the waiter nextAssignableFairWaiterLocked finds in the queue q: the
\* oldest assignable one of the first class from the cursor that has any.
IsNext(q, c) ==
    \E i \in DOMAIN q :
        /\ q[i] = c
        /\ Assignable(c)
        /\ \A j \in DOMAIN q : Assignable(q[j]) =>
              \/ Turn(call[c].class) < Turn(call[q[j]].class)
              \/ call[c].class = call[q[j]].class /\ i <= j

\* The environment may intervene MaxDisturbances times in a behaviour.
Disturb == disturbed < MaxDisturbances /\ disturbed' = disturbed + 1

\* notifyLocked: everyone asleep but the caller that goes to sleep only now.
Sleepers == {c \in Callers : call[c].pc \in {"wait", "probewait"}}
NotifyAllBut(c) == awake' = Sleepers \ {c}

-----------------------------------------------------------------------------
\* Acquire.

Ask(c, k, excluded) ==
    /\ At(c, "idle")
    /\ Goto(c, [pc |-> "ask", class |-> k, excluded |-> excluded])
    /\ UNCHANGED <<size, next, cursor, queue, busy, cooling, controlVars, awake, disturbed, passed>>

\* The caller has just called, or woken from its sleep.
Running(c) == At(c, "ask") \/ (At(c, "wait") /\ c \in awake)

\* The queue as the caller finds it: whoever comes to waiting callers joins them.
Joined(c) == IF At(c, "ask") /\ queue # <<>> THEN Append(queue, c) ELSE queue
InQueue(c) == \E i \in DOMAIN queue : queue[i] = c
Place(c) == CHOOSE i \in DOMAIN queue : queue[i] = c
LeaveNothing(c) == queue' = queue  \* mutant
Leave(c) == queue' = IF InQueue(c) THEN RemoveAt(queue, Place(c)) ELSE queue

MayTake(c) == (At(c, "ask") /\ queue = <<>>) \/ IsNext(Joined(c), c)

\* advanceFairnessLocked: the turn passes on to the class after k.
TurnKept(k) == k  \* mutant
TurnAfter(k) == After(k, NumClasses)

CountUp(n) == IF n < NumClasses THEN n + 1 ELSE n

\* The lease goes to c.
Serve(c) ==
    LET could(k) == \E i \in DOMAIN Joined(c) :
                        call[Joined(c)[i]].class = k /\ Assignable(Joined(c)[i])
    IN  /\ cursor' = TurnAfter(call[c].class)
        /\ passed' = [k \in Classes |->
                         IF k # call[c].class /\ could(k) THEN CountUp(passed[k]) ELSE 0]

TakeBot(c, b) ==
    /\ Running(c)
    /\ Selected(call[c].excluded, b)
    /\ MayTake(c)
    /\ Leave(c)
    /\ Serve(c)
    /\ next' = After(b, size)
    /\ busy' = busy \cup {b}
    /\ Goto(c, [pc |-> "hold", bot |-> b, lease |-> "fair"])
    /\ IF queue # <<>> THEN NotifyAllBut(c) ELSE UNCHANGED awake
    /\ UNCHANGED <<size, cooling, controlVars, disturbed>>

\* Nothing to wait for: no usable bot, or only cooling ones.
NoUsableBot(c) ==
    LET usable == Usable(call[c].excluded)
    IN  /\ Running(c)
        /\ Available(call[c].excluded) = {}
        /\ usable \cap busy = {}
        /\ Leave(c)
        /\ Goto(c, Idle)
        /\ IF At(c, "wait") \/ (queue # <<>> /\ usable # {})
             THEN NotifyAllBut(c)
             ELSE UNCHANGED awake
        /\ UNCHANGED <<size, next, cursor, busy, cooling, controlVars, disturbed, passed>>

\* Another waiter is to have the bot, or all are busy.  Only the second sleeps
\* with a timer, that ends with the first of these cooldowns.
NoTimer(c) == {}  \* mutant
Timer(c) == IF Assignable(c) THEN {} ELSE (Usable(call[c].excluded) \cap cooling) \ busy
Wait(c) ==
    /\ Running(c)
    /\ IF Assignable(c) THEN ~MayTake(c) ELSE Usable(call[c].excluded) \cap busy # {}
    /\ Goto(c, [pc |-> "wait", class |-> call[c].class, excluded |-> call[c].excluded,
                timer |-> Timer(c)])
    /\ IF At(c, "ask")
         THEN queue' = Append(queue, c) /\ NotifyAllBut(c)
         ELSE awake' = awake \ {c} /\ UNCHANGED queue
    /\ UNCHANGED <<size, next, cursor, busy, cooling, controlVars, disturbed, passed>>

\* The context of a waiting caller is cancelled.
GiveUp(c) ==
    /\ Disturb
    /\ At(c, "wait")
    /\ Leave(c)
    /\ Goto(c, Idle)
    /\ NotifyAllBut(c)
    /\ UNCHANGED <<size, next, cursor, busy, cooling, controlVars, passed>>

-----------------------------------------------------------------------------
\* The lease.

\* A release ends a drain.
Release(c) ==
    /\ At(c, "hold")
    /\ Goto(c, Idle)
    /\ busy' = busy \ {call[c].bot}
    /\ draining' = draining \ {call[c].bot}
    /\ enabled' = IF call[c].bot \in draining THEN enabled \ {call[c].bot} ELSE enabled
    /\ NotifyAllBut(c)
    /\ UNCHANGED <<size, next, cursor, queue, cooling, healthy, disturbed, passed>>

\* Discord answers the holder's request with a rate limit, or a longer one.
Cooldown(c) ==
    /\ At(c, "hold")
    /\ cooling' = cooling \cup {call[c].bot}
    /\ NotifyAllBut(c)
    /\ UNCHANGED <<size, next, cursor, queue, busy, controlVars, call, disturbed, passed>>

CooldownEnds(b) ==
    /\ b \in cooling
    /\ cooling' = cooling \ {b}
    /\ awake' = awake \cup {c \in Callers : At(c, "wait") /\ b \in call[c].timer}
    /\ UNCHANGED <<size, next, cursor, queue, busy, controlVars, call, disturbed, passed>>

-----------------------------------------------------------------------------
\* The operator: a probe, a drain, an enabling, a new bot.

Probe(c, b) ==
    /\ Disturb
    /\ b \in Known
    /\ At(c, "idle")
    /\ Goto(c, [pc |-> "probe", bot |-> b])
    /\ UNCHANGED <<size, next, cursor, queue, busy, cooling, controlVars, awake, passed>>

ProbeRunning(c) == At(c, "probe") \/ (At(c, "probewait") /\ c \in awake)

\* AcquireControl goes past the controls and the queue, and notifies nobody.
ProbeTakeAnyway(c) ==  \* mutant
    /\ ProbeRunning(c)
    /\ call[c].bot \notin cooling
    /\ busy' = busy \cup {call[c].bot}
    /\ Goto(c, [pc |-> "hold", bot |-> call[c].bot, lease |-> "probe"])
    /\ awake' = awake \ {c}
    /\ UNCHANGED <<size, next, cursor, queue, cooling, controlVars, disturbed, passed>>
ProbeTake(c) ==
    /\ ProbeRunning(c)
    /\ call[c].bot \notin busy \cup cooling
    /\ busy' = busy \cup {call[c].bot}
    /\ Goto(c, [pc |-> "hold", bot |-> call[c].bot, lease |-> "probe"])
    /\ awake' = awake \ {c}
    /\ UNCHANGED <<size, next, cursor, queue, cooling, controlVars, disturbed, passed>>

ProbeWait(c) ==
    /\ ProbeRunning(c)
    /\ call[c].bot \in busy
    /\ Goto(c, [pc |-> "probewait", bot |-> call[c].bot])
    /\ awake' = awake \ {c}
    /\ UNCHANGED <<size, next, cursor, queue, busy, cooling, controlVars, disturbed, passed>>

\* The bot is cooling, or the context of the waiting probe is cancelled.
ProbeEnds(c) ==
    /\ \/ ProbeRunning(c) /\ call[c].bot \in cooling \ busy
       \/ At(c, "probewait")
    /\ Goto(c, Idle)
    /\ awake' = awake \ {c}
    /\ UNCHANGED <<size, next, cursor, queue, busy, cooling, controlVars, disturbed, passed>>

\* The probe's verdict, under its lease.
SetHealthy(c) ==
    /\ At(c, "hold") /\ call[c].lease = "probe"
    /\ healthy' \in {healthy \cup {call[c].bot}, healthy \ {call[c].bot}}
    /\ Goto(c, [pc |-> "hold", bot |-> call[c].bot, lease |-> "judged"])
    /\ IF healthy' # healthy THEN NotifyAllBut(c) ELSE UNCHANGED awake
    /\ UNCHANGED <<size, next, cursor, queue, busy, cooling, enabled, draining, disturbed, passed>>

\* A bot at work is drained, another disabled at once.
Drain(b) ==
    /\ Disturb
    /\ b \in Known
    /\ IF b \in busy
         THEN b \notin draining /\ draining' = draining \cup {b} /\ UNCHANGED enabled
         ELSE b \in enabled /\ enabled' = enabled \ {b} /\ draining' = draining \ {b}
    /\ awake' = Sleepers
    /\ UNCHANGED <<size, next, cursor, queue, busy, cooling, healthy, call, passed>>

Enable(b) ==
    /\ Disturb
    /\ b \in Known
    /\ b \notin enabled \/ b \in draining
    /\ enabled' = enabled \cup {b}
    /\ draining' = draining \ {b}
    /\ awake' = Sleepers
    /\ UNCHANGED <<size, next, cursor, queue, busy, cooling, healthy, call, passed>>

AddBot ==
    /\ size < MaxBots
    /\ size' = size + 1
    /\ awake' = Sleepers
    /\ UNCHANGED <<next, cursor, queue, busy, cooling, controlVars, call, disturbed, passed>>

-----------------------------------------------------------------------------
Acquire(c) == (\E b \in Bots : TakeBot(c, b)) \/ NoUsableBot(c) \/ Wait(c)
AcquireControl(c) == ProbeTake(c) \/ ProbeWait(c) \/ ProbeEnds(c)

Next ==
    \/ \E c \in Callers, k \in Classes, excluded \in Exclusions : Ask(c, k, excluded)
    \/ \E c \in Callers, b \in Bots : TakeBot(c, b)
    \/ \E c \in Callers : NoUsableBot(c)
    \/ \E c \in Callers : Wait(c)
    \/ \E c \in Callers : GiveUp(c)
    \/ \E c \in Callers : Release(c)
    \/ \E c \in Callers : Cooldown(c)
    \/ \E b \in Bots : CooldownEnds(b)
    \/ \E c \in Callers, b \in Bots : Probe(c, b)
    \/ \E c \in Callers : ProbeTake(c)
    \/ \E c \in Callers : ProbeWait(c)
    \/ \E c \in Callers : ProbeEnds(c)
    \/ \E c \in Callers : SetHealthy(c)
    \/ \E b \in Bots : Drain(b)
    \/ \E b \in Bots : Enable(b)
    \/ AddBot

Spec == Init /\ [][Next]_vars

\* Goroutines that can run do, requests to Discord end, cooldowns pass.
FairSpec ==
    /\ Spec
    /\ \A c \in Callers : /\ WF_vars(Acquire(c))
                          /\ WF_vars(AcquireControl(c))
                          /\ WF_vars(Release(c))
    /\ \A b \in Bots : WF_vars(CooldownEnds(b))

-----------------------------------------------------------------------------
\* Properties.

Request == [pc : {"ask"}, class : Classes, excluded : Exclusions]
Waiting == [pc : {"wait"}, class : Classes, excluded : Exclusions, timer : SUBSET Bots]
Probing == [pc : {"probe", "probewait"}, bot : Bots]
Holding == [pc : {"hold"}, bot : Bots, lease : {"fair", "probe", "judged"}]

\* Every variable stays in its range.
TypeOK ==
    /\ size \in FirstBots .. MaxBots
    /\ next \in Bots
    /\ cursor \in Classes
    /\ queue \in Seq(Callers)
    /\ busy \subseteq Bots /\ cooling \subseteq Bots
    /\ enabled \subseteq Bots /\ healthy \subseteq Bots /\ draining \subseteq Bots
    /\ call \in [Callers -> {Idle} \cup Request \cup Waiting \cup Probing \cup Holding]
    /\ awake \subseteq Sleepers
    /\ disturbed \in 0 .. MaxDisturbances
    /\ passed \in [Classes -> 0 .. NumClasses]

\* "one bot <= one Discord operation lease at a time", probes included, and a
\* bot is busy exactly while someone holds its lease.
OneLeasePerBot ==
    /\ \A b \in Bots : b \in busy <=> \E c \in Callers : At(c, "hold") /\ call[c].bot = b
    /\ \A c, d \in Callers :
          At(c, "hold") /\ At(d, "hold") /\ call[c].bot = call[d].bot => c = d

\* A drain is never left over: only a bot at work is draining, so that its
\* release ends the drain.
DrainingBotsWork == draining \subseteq busy

\* The queue holds each waiting caller once.
QueueIsWaiting ==
    /\ \A c \in Callers : At(c, "wait") <=> InQueue(c)
    /\ \A i, j \in DOMAIN queue : queue[i] = queue[j] => i = j

\* "the scheduler rotates between assignable classes": however long other
\* classes queue, a class with a waiter that could be served is passed over by
\* each of them once at most.
RotationIsFair == \A k \in Classes : passed[k] < NumClasses

\* No wake-up is lost: the waiter whose turn it is and who could have a free bot
\* is not asleep.
ProbeUnderWay == \E c \in Callers : At(c, "hold") /\ call[c].lease # "fair"
NextWaiterIsAwake == \A c \in Callers : IsNext(queue, c) => c \in awake
NextWaiterIsAwakeUnlessProbing == ProbeUnderWay \/ NextWaiterIsAwake

\* A caller asleep with nothing to take has a timer for every bot it may use that
\* only its cooldown keeps from it.
SleepersAreTimed ==
    \A c \in Callers :
        At(c, "wait") /\ c \notin awake =>
            ProbeUnderWay \/ Assignable(c)
            \/ (Usable(call[c].excluded) \cap cooling) \ busy \subseteq call[c].timer

\* The turn of a class comes nearer with every lease it is passed over for.
TurnComesNearer == \A k \in Classes : passed[k] + Turn(k) < NumClasses

\* The invariant that the proofs use.
IInv ==
    /\ TypeOK
    /\ OneLeasePerBot
    /\ DrainingBotsWork
    /\ QueueIsWaiting
    /\ TurnComesNearer
    /\ SleepersAreTimed
    /\ NextWaiterIsAwakeUnlessProbing

\* Every call ends with a lease or an error.
EveryCallIsAnswered == \A c \in Callers : At(c, "ask") ~> At(c, "hold") \/ At(c, "idle")
=============================================================================
