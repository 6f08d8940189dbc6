-------------------------- MODULE BotSchedulerProofs --------------------------
(***************************************************************************)
(* Proofs about BotScheduler: one lease per bot, the rotation between the  *)
(* classes and the absence of lost wake-ups, for any number of bots,       *)
(* classes and callers and any bound on the interventions.                 *)
(***************************************************************************)
EXTENDS BotScheduler, SequenceTheorems, TLAPS

\* The set a call's record belongs to, and how it looks at each point.
Call == {Idle} \cup Request \cup Waiting \cup Probing \cup Holding

LEMMA RecordShape ==
    ASSUME NEW r \in Call
    PROVE  /\ r.pc \in {"ask", "wait"} => r.class \in Classes /\ r.excluded \in Exclusions
           /\ r.pc = "wait" => r.timer \subseteq Bots
           /\ r.pc \in {"probe", "probewait", "hold"} => r.bot \in Bots
           /\ r.pc = "hold" => r.lease \in {"fair", "probe", "judged"}
  BY DEF Call, Idle, Request, Waiting, Probing, Holding

LEMMA CallShape ==
    ASSUME TypeOK, NEW c \in Callers
    PROVE  /\ At(c, "ask") \/ At(c, "wait") => /\ call[c].class \in Classes
                                               /\ call[c].excluded \in Exclusions
           /\ At(c, "wait") => call[c].timer \subseteq Bots
           /\ At(c, "probe") \/ At(c, "probewait") \/ At(c, "hold") => call[c].bot \in Bots
           /\ At(c, "hold") => call[c].lease \in {"fair", "probe", "judged"}
  <1>1. call[c] \in Call
    BY DEF TypeOK, Call
  <1> QED BY <1>1, RecordShape DEF At

\* The queue after a waiter has left it.
LEMMA RemovalKeepsOthers ==
    ASSUME NEW S, NEW q \in Seq(S), NEW p \in DOMAIN q,
           \A i, j \in DOMAIN q : q[i] = q[j] => i = j
    PROVE  /\ RemoveAt(q, p) \in Seq(S)
           /\ \A i, j \in DOMAIN RemoveAt(q, p) : RemoveAt(q, p)[i] = RemoveAt(q, p)[j] => i = j
           /\ \A d : (\E i \in DOMAIN RemoveAt(q, p) : RemoveAt(q, p)[i] = d)
                        <=> d # q[p] /\ \E i \in DOMAIN q : q[i] = d
  <1> DEFINE r == RemoveAt(q, p)
             Old(i) == IF i < p THEN i ELSE i + 1
  <1>1. /\ r \in Seq(S)
        /\ Len(r) = Len(q) - 1
        /\ \A i \in 1 .. Len(r) : r[i] = q[Old(i)]
    <2> DEFINE front == SubSeq(q, 1, p - 1)
               back == SubSeq(q, p + 1, Len(q))
    <2>1. p \in 1 .. Len(q)
      OBVIOUS
    <2>2. /\ front \in Seq(S) /\ Len(front) = p - 1
          /\ \A i \in 1 .. p - 1 : front[i] = q[i]
      BY <2>1, SubSeqProperties
    <2>3. /\ back \in Seq(S) /\ Len(back) = Len(q) - p
          /\ \A i \in 1 .. Len(q) - p : back[i] = q[p + i]
      BY <2>1, SubSeqProperties
    <2>4. r = front \o back
      BY DEF RemoveAt
    <2> HIDE DEF front, back, r
    <2>5. /\ r \in Seq(S) /\ Len(r) = Len(q) - 1
          /\ \A i \in 1 .. Len(r) : r[i] = IF i < p THEN front[i] ELSE back[i - p + 1]
      BY <2>1, <2>2, <2>3, <2>4, ConcatProperties
    <2>6. ASSUME NEW i \in 1 .. Len(r) PROVE r[i] = q[Old(i)]
      <3>1. CASE i < p
        BY <2>1, <2>2, <2>5, <3>1
      <3>2. CASE i >= p
        <4>1. i - p + 1 \in 1 .. Len(q) - p /\ p + (i - p + 1) = i + 1
          BY <2>1, <2>5, <3>2
        <4> QED BY <2>1, <2>3, <2>5, <3>2, <4>1
      <3> QED BY <2>1, <3>1, <3>2
    <2> QED BY <2>5, <2>6
  <1>2. DOMAIN q = 1 .. Len(q) /\ DOMAIN r = 1 .. Len(r)
    BY <1>1
  <1> HIDE DEF r
  <1>3. \A i \in DOMAIN r : Old(i) \in DOMAIN q /\ Old(i) # p
    BY <1>1, <1>2
  <1>4. \A i, j \in DOMAIN r : r[i] = r[j] => i = j
    <2> TAKE i, j \in DOMAIN r
    <2>1. r[i] = q[Old(i)] /\ r[j] = q[Old(j)]
      BY <1>1, <1>2
    <2> QED BY <1>1, <1>2, <1>3, <2>1
  <1>5. ASSUME NEW d, NEW i \in DOMAIN r, r[i] = d
        PROVE  d # q[p] /\ \E k \in DOMAIN q : q[k] = d
    <2>1. r[i] = q[Old(i)]
      BY <1>1, <1>2
    <2> QED BY <1>3, <1>5, <2>1
  <1>6. ASSUME NEW d, d # q[p], NEW i \in DOMAIN q, q[i] = d
        PROVE  \E k \in DOMAIN r : r[k] = d
    <2>1. CASE i < p
      <3>1. i \in DOMAIN r /\ Old(i) = i
        BY <1>1, <1>2, <2>1
      <3> QED BY <1>1, <1>2, <1>6, <3>1
    <2>2. CASE i > p
      <3>1. i - 1 \in DOMAIN r /\ Old(i - 1) = i
        BY <1>1, <1>2, <2>2
      <3> QED BY <1>1, <1>2, <1>6, <3>1
    <2> QED BY <1>2, <1>6, <2>1, <2>2
  <1> QED BY <1>1, <1>4, <1>5, <1>6 DEF r

LEMMA LeaveKeepsQueue ==
    ASSUME TypeOK, QueueIsWaiting, NEW c \in Callers, Leave(c)
    PROVE  /\ queue' \in Seq(Callers)
           /\ \A i, j \in DOMAIN queue' : queue'[i] = queue'[j] => i = j
           /\ \A d : (\E i \in DOMAIN queue' : queue'[i] = d) <=> d # c /\ InQueue(d)
  <1>1. CASE InQueue(c)
    <2>1. Place(c) \in DOMAIN queue /\ queue[Place(c)] = c
      BY <1>1 DEF InQueue, Place
    <2>2. queue' = RemoveAt(queue, Place(c))
      BY <1>1 DEF Leave
    <2>3. queue \in Seq(Callers) /\ \A i, j \in DOMAIN queue : queue[i] = queue[j] => i = j
      BY DEF TypeOK, QueueIsWaiting
    <2>4. /\ RemoveAt(queue, Place(c)) \in Seq(Callers)
          /\ \A i, j \in DOMAIN RemoveAt(queue, Place(c)) :
                RemoveAt(queue, Place(c))[i] = RemoveAt(queue, Place(c))[j] => i = j
          /\ \A d : (\E i \in DOMAIN RemoveAt(queue, Place(c)) : RemoveAt(queue, Place(c))[i] = d)
                       <=> d # queue[Place(c)] /\ \E i \in DOMAIN queue : queue[i] = d
      BY ONLY <2>1, <2>3, RemovalKeepsOthers
    <2> QED BY <2>1, <2>2, <2>4 DEF InQueue
  <1>2. CASE ~InQueue(c)
    BY <1>2 DEF Leave, InQueue, TypeOK, QueueIsWaiting
  <1> QED BY <1>1, <1>2

LEMMA AppendKeepsQueue ==
    ASSUME TypeOK, QueueIsWaiting, NEW c \in Callers, ~InQueue(c), queue' = Append(queue, c)
    PROVE  /\ queue' \in Seq(Callers)
           /\ \A i, j \in DOMAIN queue' : queue'[i] = queue'[j] => i = j
           /\ \A d : (\E i \in DOMAIN queue' : queue'[i] = d) <=> d = c \/ InQueue(d)
  <1>1. queue \in Seq(Callers) /\ \A i, j \in DOMAIN queue : queue[i] = queue[j] => i = j
    BY DEF TypeOK, QueueIsWaiting
  <1>2. /\ queue' \in Seq(Callers)
        /\ DOMAIN queue' = 1 .. Len(queue) + 1
        /\ DOMAIN queue = 1 .. Len(queue)
        /\ \A i \in DOMAIN queue : queue'[i] = queue[i]
        /\ queue'[Len(queue) + 1] = c
    BY <1>1
  <1>3. \A i \in DOMAIN queue : queue[i] # c
    BY DEF InQueue
  <1>4. \A i, j \in DOMAIN queue' : queue'[i] = queue'[j] => i = j
    BY <1>1, <1>2, <1>3
  <1>5. \A d : (\E i \in DOMAIN queue' : queue'[i] = d) <=> d = c \/ InQueue(d)
    <2> TAKE d
    <2>1. ASSUME NEW i \in DOMAIN queue', queue'[i] = d PROVE d = c \/ InQueue(d)
      BY <1>2, <2>1 DEF InQueue
    <2>2. ASSUME InQueue(d) PROVE \E i \in DOMAIN queue' : queue'[i] = d
      BY <1>2, <2>2 DEF InQueue
    <2>3. \E i \in DOMAIN queue' : queue'[i] = c
      BY <1>1, <1>2
    <2> QED BY <2>1, <2>2, <2>3
  <1> QED BY <1>2, <1>4, <1>5

LEMMA GotoSetsOne ==
    ASSUME TypeOK, NEW c \in Callers, NEW to, Goto(c, to)
    PROVE  /\ call'[c] = to
           /\ \A d \in Callers \ {c} : call'[d] = call[d]
  BY DEF Goto, TypeOK

LEMMA GotoChangesOne ==
    ASSUME TypeOK, NEW c \in Callers, NEW to \in Call, Goto(c, to)
    PROVE  /\ call' \in [Callers -> Call]
           /\ call'[c] = to
           /\ \A d \in Callers \ {c} : call'[d] = call[d]
  BY DEF Goto, TypeOK, Call

\* The sleepers other than c are among those of the next state.
LEMMA NotifyWakesSleepers ==
    ASSUME TypeOK, NEW c \in Callers, NEW to \in Call, Goto(c, to)
    PROVE  /\ NotifyAllBut(c) => awake' \subseteq Sleepers'
           /\ awake' = awake \ {c} => awake' \subseteq Sleepers'
           /\ c \notin Sleepers /\ UNCHANGED awake => awake' \subseteq Sleepers'
  <1>1. \A d \in Callers \ {c} : call'[d] = call[d]
    BY GotoChangesOne
  <1> QED BY <1>1 DEF NotifyAllBut, Sleepers, TypeOK

LEMMA AfterIsInRange ==
    ASSUME NEW n \in Nat, NEW i \in 0 .. n - 1
    PROVE  After(i, n) \in 0 .. n - 1
  BY DEF After

LEMMA TypeStep ==
    ASSUME TypeOK, QueueIsWaiting, [Next]_vars
    PROVE  TypeOK'
  <1> USE SchedulerAssumption
  <1>1. ASSUME NEW c \in Callers, NEW k \in Classes, NEW excluded \in Exclusions,
               Ask(c, k, excluded)
        PROVE  TypeOK'
    <2>1. [pc |-> "ask", class |-> k, excluded |-> excluded] \in Call
      BY DEF Call, Request
    <2>2. c \notin Sleepers
      BY <1>1 DEF Ask, At, Sleepers
    <2>3. call' \in [Callers -> Call] /\ awake' \subseteq Sleepers'
      BY <1>1, <2>1, <2>2, GotoChangesOne, NotifyWakesSleepers DEF Ask
    <2> QED BY <1>1, <2>3 DEF Ask, TypeOK, Call, controlVars
  <1>2. ASSUME NEW c \in Callers, NEW b \in Bots, TakeBot(c, b)
        PROVE  TypeOK'
    <2>1. [pc |-> "hold", bot |-> b, lease |-> "fair"] \in Call
      BY DEF Call, Holding
    <2>2. queue # <<>> \/ c \notin Sleepers
      <3>1. queue = <<>> => ~InQueue(c)
        BY DEF InQueue
      <3> QED BY <1>2, <3>1 DEF TakeBot, Running, QueueIsWaiting, Sleepers, At
    <2>3. call' \in [Callers -> Call] /\ awake' \subseteq Sleepers'
      BY <1>2, <2>1, <2>2, GotoChangesOne, NotifyWakesSleepers DEF TakeBot
    <2>4. queue' \in Seq(Callers)
      BY <1>2, LeaveKeepsQueue DEF TakeBot
    <2>5. next' \in Bots
      <3>1. b \in 0 .. size - 1 /\ size \in Nat /\ size <= MaxBots
        BY <1>2 DEF TakeBot, Selected, Available, Usable, Known, TypeOK
      <3> QED BY <1>2, <3>1, AfterIsInRange DEF TakeBot, Bots
    <2>6. cursor' \in Classes
      <3>1. call[c].class \in 0 .. NumClasses - 1
        BY <1>2, CallShape DEF TakeBot, Running, Classes
      <3> QED BY <1>2, <3>1, AfterIsInRange DEF TakeBot, Serve, TurnAfter, Classes
    <2>7. passed' \in [Classes -> 0 .. NumClasses]
      <3> DEFINE could(k) == \E i \in DOMAIN Joined(c) :
                                call[Joined(c)[i]].class = k /\ Assignable(Joined(c)[i])
                 count(k) == IF k # call[c].class /\ could(k) THEN CountUp(passed[k]) ELSE 0
      <3>1. passed' = [k \in Classes |-> count(k)]
        BY <1>2 DEF TakeBot, Serve
      <3>2. ASSUME NEW k \in Classes PROVE count(k) \in 0 .. NumClasses
        <4>1. passed[k] \in 0 .. NumClasses
          BY DEF TypeOK
        <4> HIDE DEF could
        <4> QED BY <4>1 DEF CountUp
      <3> HIDE DEF count
      <3> QED BY <3>1, <3>2
    <2> QED BY <1>2, <2>3, <2>4, <2>5, <2>6, <2>7 DEF TakeBot, TypeOK, Call, controlVars
  <1>3. ASSUME NEW c \in Callers, NoUsableBot(c)
        PROVE  TypeOK'
    <2>1. Idle \in Call
      BY DEF Call
    <2>2. At(c, "wait") \/ c \notin Sleepers
      BY <1>3 DEF NoUsableBot, Running, Sleepers, At
    <2>3. call' \in [Callers -> Call] /\ awake' \subseteq Sleepers'
      BY <1>3, <2>1, <2>2, GotoChangesOne, NotifyWakesSleepers DEF NoUsableBot
    <2>4. queue' \in Seq(Callers)
      BY <1>3, LeaveKeepsQueue DEF NoUsableBot
    <2> QED BY <1>3, <2>3, <2>4 DEF NoUsableBot, TypeOK, Call, controlVars
  <1>4. ASSUME NEW c \in Callers, Wait(c)
        PROVE  TypeOK'
    <2> DEFINE to == [pc |-> "wait", class |-> call[c].class, excluded |-> call[c].excluded,
                      timer |-> Timer(c)]
    <2>1. to \in Call
      <3>1. call[c].class \in Classes /\ call[c].excluded \in Exclusions
        BY <1>4, CallShape DEF Wait, Running
      <3>2. Timer(c) \subseteq Bots
        BY DEF Timer, TypeOK
      <3> QED BY <3>1, <3>2 DEF Call, Waiting
    <2>2. Goto(c, to)
      BY <1>4 DEF Wait
    <2> HIDE DEF to
    <2>3. call' \in [Callers -> Call] /\ awake' \subseteq Sleepers'
      BY <1>4, <2>1, <2>2, GotoChangesOne, NotifyWakesSleepers DEF Wait
    <2>4. queue' \in Seq(Callers)
      <3>1. queue' = Append(queue, c) \/ queue' = queue
        BY <1>4 DEF Wait
      <3>2. queue \in Seq(Callers)
        BY DEF TypeOK
      <3> QED BY <3>1, <3>2
    <2> QED BY <1>4, <2>3, <2>4 DEF Wait, TypeOK, Call, controlVars
  <1>5. ASSUME NEW c \in Callers, GiveUp(c)
        PROVE  TypeOK'
    <2>1. Idle \in Call
      BY DEF Call
    <2>2. call' \in [Callers -> Call] /\ awake' \subseteq Sleepers'
      BY <1>5, <2>1, GotoChangesOne, NotifyWakesSleepers DEF GiveUp
    <2>3. queue' \in Seq(Callers)
      BY <1>5, LeaveKeepsQueue DEF GiveUp
    <2> QED BY <1>5, <2>2, <2>3 DEF GiveUp, Disturb, TypeOK, Call, controlVars
  <1>6. ASSUME NEW c \in Callers, Release(c)
        PROVE  TypeOK'
    <2>1. Idle \in Call
      BY DEF Call
    <2>2. call' \in [Callers -> Call] /\ awake' \subseteq Sleepers'
      BY <1>6, <2>1, GotoChangesOne, NotifyWakesSleepers DEF Release
    <2> QED BY <1>6, <2>2 DEF Release, TypeOK, Call
  <1>7. ASSUME NEW c \in Callers, Cooldown(c)
        PROVE  TypeOK'
    BY <1>7, CallShape DEF Cooldown, NotifyAllBut, Sleepers, TypeOK, controlVars
  <1>8. ASSUME NEW b \in Bots, CooldownEnds(b)
        PROVE  TypeOK'
    BY <1>8 DEF CooldownEnds, At, Sleepers, TypeOK, controlVars
  <1>9. ASSUME NEW c \in Callers, NEW b \in Bots, Probe(c, b)
        PROVE  TypeOK'
    <2>1. [pc |-> "probe", bot |-> b] \in Call
      BY DEF Call, Probing
    <2>2. c \notin Sleepers
      BY <1>9 DEF Probe, At, Sleepers
    <2>3. call' \in [Callers -> Call] /\ awake' \subseteq Sleepers'
      BY <1>9, <2>1, <2>2, GotoChangesOne, NotifyWakesSleepers DEF Probe
    <2> QED BY <1>9, <2>3 DEF Probe, Disturb, TypeOK, Call, controlVars
  <1>10. ASSUME NEW c \in Callers, ProbeTake(c)
         PROVE  TypeOK'
    <2>1. call[c].bot \in Bots
      BY <1>10, CallShape DEF ProbeTake, ProbeRunning
    <2>2. [pc |-> "hold", bot |-> call[c].bot, lease |-> "probe"] \in Call
      BY <2>1 DEF Call, Holding
    <2>3. call' \in [Callers -> Call] /\ awake' \subseteq Sleepers'
      BY <1>10, <2>2, GotoChangesOne, NotifyWakesSleepers DEF ProbeTake
    <2> QED BY <1>10, <2>1, <2>3 DEF ProbeTake, TypeOK, Call, controlVars
  <1>11. ASSUME NEW c \in Callers, ProbeWait(c)
         PROVE  TypeOK'
    <2>1. [pc |-> "probewait", bot |-> call[c].bot] \in Call
      BY <1>11, CallShape DEF ProbeWait, ProbeRunning, Call, Probing
    <2>2. call' \in [Callers -> Call] /\ awake' \subseteq Sleepers'
      BY <1>11, <2>1, GotoChangesOne, NotifyWakesSleepers DEF ProbeWait
    <2> QED BY <1>11, <2>2 DEF ProbeWait, TypeOK, Call, controlVars
  <1>12. ASSUME NEW c \in Callers, ProbeEnds(c)
         PROVE  TypeOK'
    <2>1. Idle \in Call
      BY DEF Call
    <2>2. call' \in [Callers -> Call] /\ awake' \subseteq Sleepers'
      BY <1>12, <2>1, GotoChangesOne, NotifyWakesSleepers DEF ProbeEnds
    <2> QED BY <1>12, <2>2 DEF ProbeEnds, TypeOK, Call, controlVars
  <1>13. ASSUME NEW c \in Callers, SetHealthy(c)
         PROVE  TypeOK'
    <2>1. [pc |-> "hold", bot |-> call[c].bot, lease |-> "judged"] \in Call
      BY <1>13, CallShape DEF SetHealthy, Call, Holding
    <2>2. c \notin Sleepers
      BY <1>13 DEF SetHealthy, At, Sleepers
    <2>3. call' \in [Callers -> Call] /\ awake' \subseteq Sleepers'
      BY <1>13, <2>1, <2>2, GotoChangesOne, NotifyWakesSleepers DEF SetHealthy
    <2>4. healthy' \subseteq Bots
      BY <1>13, CallShape DEF SetHealthy, TypeOK
    <2> QED BY <1>13, <2>3, <2>4 DEF SetHealthy, TypeOK, Call
  <1>14. ASSUME NEW b \in Bots, Drain(b)
         PROVE  TypeOK'
    BY <1>14 DEF Drain, Disturb, Sleepers, TypeOK
  <1>15. ASSUME NEW b \in Bots, Enable(b)
         PROVE  TypeOK'
    BY <1>15 DEF Enable, Disturb, Sleepers, TypeOK
  <1>16. ASSUME AddBot
         PROVE  TypeOK'
    BY <1>16 DEF AddBot, Sleepers, TypeOK, controlVars
  <1>17. CASE UNCHANGED vars
    BY <1>17 DEF vars, controlVars, TypeOK, Sleepers
  <1> QED
    BY <1>1, <1>2, <1>3, <1>4, <1>5, <1>6, <1>7, <1>8, <1>9, <1>10, <1>11, <1>12, <1>13,
       <1>14, <1>15, <1>16, <1>17 DEF Next

-----------------------------------------------------------------------------
\* Leases and drains.

\* A step in which no lease begins or ends.
LEMMA LeasesUnmoved ==
    ASSUME OneLeasePerBot, busy' = busy,
           \A c \in Callers : /\ At(c, "hold")' <=> At(c, "hold")
                              /\ At(c, "hold") => call'[c].bot = call[c].bot
    PROVE  OneLeasePerBot'
  BY DEF OneLeasePerBot, At

LEMMA LeaseTaken ==
    ASSUME TypeOK, OneLeasePerBot, NEW c \in Callers, ~At(c, "hold"),
           NEW b \in Bots \ busy, NEW l, Goto(c, [pc |-> "hold", bot |-> b, lease |-> l]),
           busy' = busy \cup {b}
    PROVE  OneLeasePerBot'
  <1>1. /\ At(c, "hold")' /\ call'[c].bot = b
        /\ \A d \in Callers \ {c} : call'[d] = call[d]
    BY GotoSetsOne DEF At
  <1>2. \A d \in Callers : At(d, "hold") => call[d].bot \in Bots /\ call[d].bot # b
    BY CallShape DEF OneLeasePerBot
  <1> QED BY <1>1, <1>2 DEF OneLeasePerBot, At

LEMMA LeaseEnded ==
    ASSUME TypeOK, OneLeasePerBot, NEW c \in Callers, At(c, "hold"), Goto(c, Idle),
           busy' = busy \ {call[c].bot}
    PROVE  OneLeasePerBot'
  <1>1. ~At(c, "hold")' /\ \A d \in Callers \ {c} : call'[d] = call[d]
    BY GotoSetsOne DEF At, Idle
  <1>2. \A d \in Callers \ {c} : At(d, "hold") => call[d].bot # call[c].bot
    BY DEF OneLeasePerBot
  <1> QED BY <1>1, <1>2 DEF OneLeasePerBot, At

LEMMA LeaseStep ==
    ASSUME TypeOK, OneLeasePerBot, [Next]_vars
    PROVE  OneLeasePerBot'
  <1>1. ASSUME NEW c \in Callers, NEW b \in Bots, TakeBot(c, b)
        PROVE  OneLeasePerBot'
    <2>1. ~At(c, "hold") /\ b \notin busy
      BY <1>1 DEF TakeBot, Running, At, Selected, Available
    <2> QED BY <1>1, <2>1, LeaseTaken DEF TakeBot
  <1>2. ASSUME NEW c \in Callers, ProbeTake(c)
        PROVE  OneLeasePerBot'
    <2>1. ~At(c, "hold") /\ call[c].bot \in Bots \ busy
      BY <1>2, CallShape DEF ProbeTake, ProbeRunning, At
    <2> QED BY <1>2, <2>1, LeaseTaken DEF ProbeTake
  <1>3. ASSUME NEW c \in Callers, Release(c)
        PROVE  OneLeasePerBot'
    BY <1>3, LeaseEnded DEF Release
  <1>4. ASSUME NEW c \in Callers, NEW to, Goto(c, to), to.pc # "hold", ~At(c, "hold"), busy' = busy
        PROVE  OneLeasePerBot'
    <2>1. call'[c] = to /\ \A d \in Callers \ {c} : call'[d] = call[d]
      BY <1>4, GotoSetsOne
    <2> QED BY <1>4, <2>1, LeasesUnmoved DEF At
  <1>5. ASSUME NEW c \in Callers, NEW k \in Classes, NEW excluded \in Exclusions,
               Ask(c, k, excluded)
        PROVE  OneLeasePerBot'
    BY <1>4, <1>5 DEF Ask, At
  <1>6. ASSUME NEW c \in Callers, NoUsableBot(c) \/ GiveUp(c) \/ ProbeEnds(c)
        PROVE  OneLeasePerBot'
    BY <1>4, <1>6 DEF NoUsableBot, GiveUp, ProbeEnds, Running, ProbeRunning, At, Idle
  <1>7. ASSUME NEW c \in Callers, Wait(c)
        PROVE  OneLeasePerBot'
    BY <1>4, <1>7 DEF Wait, Running, At
  <1>8. ASSUME NEW c \in Callers, NEW b \in Bots, Probe(c, b)
        PROVE  OneLeasePerBot'
    BY <1>4, <1>8 DEF Probe, At
  <1>9. ASSUME NEW c \in Callers, ProbeWait(c)
        PROVE  OneLeasePerBot'
    BY <1>4, <1>9 DEF ProbeWait, ProbeRunning, At
  <1>10. ASSUME NEW c \in Callers, SetHealthy(c)
         PROVE  OneLeasePerBot'
    <2>1. /\ call'[c] = [pc |-> "hold", bot |-> call[c].bot, lease |-> "judged"]
          /\ \A d \in Callers \ {c} : call'[d] = call[d]
      BY <1>10, GotoSetsOne DEF SetHealthy
    <2> QED BY <1>10, <2>1, LeasesUnmoved DEF SetHealthy, At
  <1>11. CASE UNCHANGED <<busy, call>>
    BY <1>11, LeasesUnmoved DEF At
  <1> QED
    BY <1>1, <1>2, <1>3, <1>5, <1>6, <1>7, <1>8, <1>9, <1>10, <1>11
    DEF Next, Cooldown, CooldownEnds, Drain, Enable, AddBot, vars

LEMMA DrainStep ==
    ASSUME TypeOK, DrainingBotsWork, [Next]_vars
    PROVE  DrainingBotsWork'
  <1> USE DEF DrainingBotsWork, controlVars
  <1>1. ASSUME NEW c \in Callers, NEW b \in Bots, TakeBot(c, b)
        PROVE  DrainingBotsWork'
    BY <1>1 DEF TakeBot
  <1>2. ASSUME NEW c \in Callers, Release(c)
        PROVE  DrainingBotsWork'
    BY <1>2 DEF Release
  <1>3. ASSUME NEW c \in Callers, ProbeTake(c)
        PROVE  DrainingBotsWork'
    BY <1>3 DEF ProbeTake
  <1>4. ASSUME NEW b \in Bots, Drain(b)
        PROVE  DrainingBotsWork'
    BY <1>4 DEF Drain
  <1>5. ASSUME NEW b \in Bots, Enable(b)
        PROVE  DrainingBotsWork'
    BY <1>5 DEF Enable
  <1>6. CASE UNCHANGED <<busy, draining>>
    BY <1>6
  <1> QED
    BY <1>1, <1>2, <1>3, <1>4, <1>5, <1>6
    DEF Next, Ask, NoUsableBot, Wait, GiveUp, Cooldown, CooldownEnds, Probe, ProbeWait,
        ProbeEnds, SetHealthy, AddBot, vars

-----------------------------------------------------------------------------
\* The queue.

LEMMA QueueUnmoved ==
    ASSUME QueueIsWaiting, queue' = queue,
           \A c \in Callers : At(c, "wait")' <=> At(c, "wait")
    PROVE  QueueIsWaiting'
  BY DEF QueueIsWaiting, InQueue

LEMMA QueueLeft ==
    ASSUME TypeOK, QueueIsWaiting, NEW c \in Callers, Leave(c),
           NEW to, Goto(c, to), to.pc # "wait"
    PROVE  QueueIsWaiting'
  <1>1. ~At(c, "wait")' /\ \A d \in Callers \ {c} : At(d, "wait")' <=> At(d, "wait")
    BY GotoSetsOne DEF At
  <1>2. /\ \A i, j \in DOMAIN queue' : queue'[i] = queue'[j] => i = j
        /\ \A d : InQueue(d)' <=> d # c /\ InQueue(d)
    BY LeaveKeepsQueue DEF InQueue
  <1> QED BY <1>1, <1>2 DEF QueueIsWaiting

LEMMA QueueStep ==
    ASSUME TypeOK, QueueIsWaiting, [Next]_vars
    PROVE  QueueIsWaiting'
  <1>1. ASSUME NEW c \in Callers, NEW to, Goto(c, to), to.pc # "wait", ~At(c, "wait"), queue' = queue
        PROVE  QueueIsWaiting'
    <2>1. call'[c] = to /\ \A d \in Callers \ {c} : call'[d] = call[d]
      BY <1>1, GotoSetsOne
    <2> QED BY <1>1, <2>1, QueueUnmoved DEF At
  <1>2. ASSUME NEW c \in Callers, NEW k \in Classes, NEW excluded \in Exclusions,
               Ask(c, k, excluded)
        PROVE  QueueIsWaiting'
    BY <1>1, <1>2 DEF Ask, At
  <1>3. ASSUME NEW c \in Callers, NEW b \in Bots, TakeBot(c, b)
        PROVE  QueueIsWaiting'
    BY <1>3, QueueLeft DEF TakeBot
  <1>4. ASSUME NEW c \in Callers, NoUsableBot(c) \/ GiveUp(c)
        PROVE  QueueIsWaiting'
    BY <1>4, QueueLeft DEF NoUsableBot, GiveUp, Idle
  <1>5. ASSUME NEW c \in Callers, Wait(c)
        PROVE  QueueIsWaiting'
    <2>1. At(c, "wait")' /\ \A d \in Callers \ {c} : At(d, "wait")' <=> At(d, "wait")
      BY <1>5, GotoSetsOne DEF Wait, At
    <2>2. CASE At(c, "ask")
      <3>1. ~At(c, "wait") /\ ~InQueue(c) /\ queue' = Append(queue, c)
        BY <1>5, <2>2 DEF Wait, At, QueueIsWaiting
      <3>2. /\ \A i, j \in DOMAIN queue' : queue'[i] = queue'[j] => i = j
            /\ \A d : InQueue(d)' <=> d = c \/ InQueue(d)
        BY <3>1, AppendKeepsQueue DEF InQueue
      <3> QED BY <2>1, <3>2 DEF QueueIsWaiting
    <2>3. CASE ~At(c, "ask")
      BY <1>5, <2>1, <2>3, QueueUnmoved DEF Wait, Running
    <2> QED BY <2>2, <2>3
  <1>6. ASSUME NEW c \in Callers, Release(c)
        PROVE  QueueIsWaiting'
    BY <1>1, <1>6 DEF Release, At, Idle
  <1>7. ASSUME NEW c \in Callers, NEW b \in Bots, Probe(c, b)
        PROVE  QueueIsWaiting'
    BY <1>1, <1>7 DEF Probe, At
  <1>8. ASSUME NEW c \in Callers, ProbeTake(c)
        PROVE  QueueIsWaiting'
    BY <1>1, <1>8 DEF ProbeTake, ProbeRunning, At
  <1>9. ASSUME NEW c \in Callers, ProbeWait(c)
        PROVE  QueueIsWaiting'
    BY <1>1, <1>9 DEF ProbeWait, ProbeRunning, At
  <1>10. ASSUME NEW c \in Callers, ProbeEnds(c)
         PROVE  QueueIsWaiting'
    BY <1>1, <1>10 DEF ProbeEnds, ProbeRunning, At, Idle
  <1>11. ASSUME NEW c \in Callers, SetHealthy(c)
         PROVE  QueueIsWaiting'
    BY <1>1, <1>11 DEF SetHealthy, At
  <1>12. CASE UNCHANGED <<queue, call>>
    BY <1>12, QueueUnmoved DEF At
  <1> QED
    BY <1>2, <1>3, <1>4, <1>5, <1>6, <1>7, <1>8, <1>9, <1>10, <1>11, <1>12
    DEF Next, Cooldown, CooldownEnds, Drain, Enable, AddBot, vars

-----------------------------------------------------------------------------
\* The rotation.

\* The class served had its turn before every other class that could be served.
LEMMA ServedTurnIsFirst ==
    ASSUME TypeOK, QueueIsWaiting, NEW c \in Callers, Running(c), MayTake(c),
           NEW k \in Classes, k # call[c].class,
           NEW i \in DOMAIN Joined(c), call[Joined(c)[i]].class = k, Assignable(Joined(c)[i])
    PROVE  Turn(call[c].class) < Turn(k)
  <1>1. CASE At(c, "ask") /\ queue = <<>>
    <2>1. Joined(c) = <<>>
      BY <1>1 DEF Joined
    <2> QED BY <2>1
  <1>2. CASE IsNext(Joined(c), c)
    BY <1>2 DEF IsNext
  <1> QED BY <1>1, <1>2 DEF MayTake

\* When a class is served, those behind it come nearer to their turn.
LEMMA TurnAdvances ==
    ASSUME cursor \in Classes, NEW j \in Classes, NEW k \in Classes, cursor' = TurnAfter(j)
    PROVE  /\ Turn(k)' \in 0 .. NumClasses - 1
           /\ Turn(j) < Turn(k) => Turn(k)' < Turn(k)
  BY SchedulerAssumption DEF Turn, Distance, TurnAfter, After, Classes

LEMMA TurnStep ==
    ASSUME TypeOK, QueueIsWaiting, TurnComesNearer, [Next]_vars
    PROVE  TurnComesNearer'
  <1>1. ASSUME NEW c \in Callers, NEW b \in Bots, TakeBot(c, b)
        PROVE  TurnComesNearer'
    <2> SUFFICES ASSUME NEW k \in Classes
                 PROVE  passed'[k] + Turn(k)' < NumClasses
      BY DEF TurnComesNearer
    <2> DEFINE could == \E i \in DOMAIN Joined(c) :
                           call[Joined(c)[i]].class = k /\ Assignable(Joined(c)[i])
    <2>1. /\ Running(c) /\ MayTake(c)
          /\ call[c].class \in Classes /\ cursor \in Classes
          /\ cursor' = TurnAfter(call[c].class)
      BY <1>1, CallShape DEF TakeBot, Serve, Running, TypeOK
    <2>2. passed'[k] = IF k # call[c].class /\ could THEN CountUp(passed[k]) ELSE 0
      BY <1>1 DEF TakeBot, Serve
    <2>3. k # call[c].class /\ could => Turn(call[c].class) < Turn(k)
      BY <2>1, ServedTurnIsFirst
    <2>4. /\ Turn(k)' \in 0 .. NumClasses - 1
          /\ Turn(call[c].class) < Turn(k) => Turn(k)' < Turn(k)
      BY <2>1, TurnAdvances
    <2>5. /\ passed[k] \in 0 .. NumClasses /\ Turn(k) \in 0 .. NumClasses - 1
          /\ passed[k] + Turn(k) < NumClasses
      BY SchedulerAssumption DEF TypeOK, TurnComesNearer, Turn, Distance, Classes
    <2> HIDE DEF could
    <2>6. CASE k = call[c].class \/ ~could
      <3>1. passed'[k] = 0
        BY <2>2, <2>6
      <3> QED BY <2>4, <3>1, SchedulerAssumption
    <2>7. CASE ~(k = call[c].class \/ ~could)
      <3>1. passed[k] < NumClasses
        BY <2>5, SchedulerAssumption
      <3>2. passed'[k] = passed[k] + 1
        BY <2>2, <2>7, <3>1 DEF CountUp
      <3> QED BY <2>3, <2>4, <2>5, <2>7, <3>2, SchedulerAssumption
    <2> QED BY <2>6, <2>7
  <1>2. CASE UNCHANGED <<cursor, passed>>
    BY <1>2 DEF TurnComesNearer, Turn
  <1> QED
    BY <1>1, <1>2
    DEF Next, Ask, NoUsableBot, Wait, GiveUp, Release, Cooldown, CooldownEnds, Probe,
        ProbeTake, ProbeWait, ProbeEnds, SetHealthy, Drain, Enable, AddBot, vars

LEMMA TurnMeansFair ==
    ASSUME TypeOK, TurnComesNearer
    PROVE  RotationIsFair
  <1> SUFFICES ASSUME NEW k \in Classes PROVE passed[k] < NumClasses
    BY DEF RotationIsFair
  <1>1. passed[k] \in 0 .. NumClasses /\ passed[k] + Turn(k) < NumClasses
    BY DEF TypeOK, TurnComesNearer
  <1>2. Turn(k) \in Nat
    BY SchedulerAssumption DEF TypeOK, Turn, Distance, Classes
  <1> QED BY <1>1, <1>2, SchedulerAssumption

-----------------------------------------------------------------------------
\* The wake-ups.

Alert == SleepersAreTimed /\ NextWaiterIsAwakeUnlessProbing

LEMMA NextWaits ==
    ASSUME QueueIsWaiting, NEW c \in Callers, IsNext(queue, c)
    PROVE  At(c, "wait")
  BY DEF IsNext, QueueIsWaiting, InQueue

\* A step that wakes every waiter.
LEMMA AllAwake ==
    ASSUME QueueIsWaiting', \A d \in Callers : At(d, "wait")' => d \in awake'
    PROVE  Alert'
  <1>1. \A d \in Callers : IsNext(queue, d)' => At(d, "wait")'
    BY DEF IsNext, QueueIsWaiting, InQueue
  <1> QED BY <1>1 DEF Alert, SleepersAreTimed, NextWaiterIsAwakeUnlessProbing, NextWaiterIsAwake

LEMMA NotifyWakesAll ==
    ASSUME TypeOK, QueueIsWaiting', NEW c \in Callers, NEW to, Goto(c, to), to.pc # "wait",
           NotifyAllBut(c)
    PROVE  Alert'
  <1>1. call'[c] = to /\ \A d \in Callers \ {c} : call'[d] = call[d]
    BY GotoSetsOne
  <1>2. \A d \in Callers : At(d, "wait")' => d \in awake'
    BY <1>1 DEF At, NotifyAllBut, Sleepers
  <1> QED BY <1>2, AllAwake

\* A step that touches neither the bots nor a waiter.
LEMMA WaitersUnmoved ==
    ASSUME TypeOK, QueueIsWaiting, Alert,
           UNCHANGED <<size, cursor, queue, busy, cooling, controlVars>>,
           \A d \in Callers : /\ At(d, "wait")' <=> At(d, "wait")
                              /\ At(d, "wait") => call'[d] = call[d] /\ (d \in awake => d \in awake'),
           ProbeUnderWay => ProbeUnderWay'
    PROVE  Alert'
  <1>1. \A d \in Callers : At(d, "wait") => (Assignable(d)' <=> Assignable(d))
    BY DEF Assignable, Available, Usable, Known, Eligible, controlVars
  <1>2. \A i \in DOMAIN queue : queue[i] \in Callers /\ At(queue[i], "wait")
    BY DEF QueueIsWaiting, InQueue, TypeOK
  <1>3. ASSUME NEW d \in Callers, At(d, "wait") PROVE IsNext(queue, d)' => IsNext(queue, d)
    BY <1>1, <1>2, <1>3 DEF IsNext, Turn
  <1>4. SleepersAreTimed'
    BY <1>1 DEF Alert, SleepersAreTimed, Usable, Known, Eligible, controlVars
  <1>5. NextWaiterIsAwakeUnlessProbing'
    <2>1. \A d \in Callers : IsNext(queue, d)' => At(d, "wait")
      BY <1>2 DEF IsNext
    <2> QED BY <1>3, <2>1 DEF Alert, NextWaiterIsAwakeUnlessProbing, NextWaiterIsAwake
  <1> QED BY <1>4, <1>5 DEF Alert

\* The waiter that goes back to sleep has looked: it is not its turn, or it has
\* set a timer.
LEMMA WaitKeepsAlert ==
    ASSUME TypeOK, QueueIsWaiting, QueueIsWaiting', Alert, NEW c \in Callers, Wait(c)
    PROVE  Alert'
  <1>1. /\ call'[c] = [pc |-> "wait", class |-> call[c].class,
                       excluded |-> call[c].excluded, timer |-> Timer(c)]
        /\ \A d \in Callers \ {c} : call'[d] = call[d]
    BY GotoSetsOne DEF Wait
  <1>2. \A d \in Callers : (Assignable(d)' <=> Assignable(d)) /\ call'[d].class = call[d].class
    BY <1>1 DEF Wait, Assignable, Available, Usable, Known, Eligible, controlVars
  <1>3. /\ queue' \in Seq(Callers)
        /\ queue' = IF At(c, "ask") THEN Append(queue, c) ELSE queue
    <2>1. queue' = Append(queue, c) \/ queue' = queue
      BY DEF Wait
    <2>2. queue \in Seq(Callers)
      BY DEF TypeOK
    <2>3. queue' \in Seq(Callers)
      BY <2>1, <2>2
    <2> QED BY <2>3 DEF Wait
  <1>4. ASSUME NEW d \in Callers PROVE IsNext(queue, d)' <=> IsNext(queue', d)
    <2>1. \A i \in DOMAIN queue' : queue'[i] \in Callers
      BY <1>3
    <2>2. cursor' = cursor
      BY DEF Wait
    <2> QED BY <1>2, <2>1, <2>2 DEF IsNext, Turn
  <1>5. ~IsNext(queue', c)
    <2>1. CASE Assignable(c)
      <3>1. ~MayTake(c)
        BY <2>1 DEF Wait
      <3>2. Joined(c) = queue'
        BY <1>3, <3>1 DEF Joined, MayTake
      <3> QED BY <3>1, <3>2 DEF MayTake
    <2>2. CASE ~Assignable(c)
      BY <2>2 DEF IsNext
    <2> QED BY <2>1, <2>2
  <1>6. Assignable(c)' \/ ((Usable(call[c].excluded) \cap cooling) \ busy)'
                             \subseteq call'[c].timer
    <2>1. Usable(call[c].excluded)' = Usable(call[c].excluded)
      BY <1>1 DEF Wait, Usable, Known, Eligible, controlVars
    <2> QED BY <1>1, <1>2, <2>1 DEF Wait, Timer
  <1>7. CASE At(c, "ask")
    <2>1. \A d \in Callers \ {c} : At(d, "wait")' => d \in awake'
      BY <1>1, <1>7 DEF Wait, NotifyAllBut, Sleepers, At
    <2>2. SleepersAreTimed'
      BY <1>6, <2>1 DEF SleepersAreTimed
    <2>3. \A d \in Callers : IsNext(queue, d)' => At(d, "wait")'
      BY DEF IsNext, QueueIsWaiting, InQueue
    <2>4. NextWaiterIsAwake'
      BY <1>4, <1>5, <2>1, <2>3 DEF NextWaiterIsAwake
    <2> QED BY <2>2, <2>4 DEF Alert, NextWaiterIsAwakeUnlessProbing
  <1>8. CASE ~At(c, "ask")
    <2>1. queue' = queue /\ awake' = awake \ {c} /\ At(c, "wait")
      BY <1>8 DEF Wait, Running
    <2>2. ProbeUnderWay' <=> ProbeUnderWay
      BY <1>1, <2>1 DEF ProbeUnderWay, At
    <2>3. \A d \in Callers \ {c} :
              Usable(call[d].excluded)' = Usable(call[d].excluded) /\ call'[d] = call[d]
      BY <1>1 DEF Wait, Usable, Known, Eligible, controlVars
    <2>4. SleepersAreTimed'
      <3> SUFFICES ASSUME NEW d \in Callers, At(d, "wait")', d \notin awake', ~ProbeUnderWay',
                          ~Assignable(d)'
                   PROVE  ((Usable(call[d].excluded) \cap cooling) \ busy)' \subseteq call'[d].timer
        BY DEF SleepersAreTimed
      <3>1. CASE d = c
        BY <1>6, <3>1
      <3>2. CASE d # c
        <4>1. At(d, "wait") /\ d \notin awake /\ ~ProbeUnderWay /\ ~Assignable(d)
          BY <1>2, <2>1, <2>2, <2>3, <3>2 DEF At
        <4>2. (Usable(call[d].excluded) \cap cooling) \ busy \subseteq call[d].timer
          BY <4>1 DEF Alert, SleepersAreTimed
        <4> QED BY <2>3, <3>2, <4>2 DEF Wait
      <3> QED BY <3>1, <3>2
    <2>5. NextWaiterIsAwakeUnlessProbing'
      BY <1>4, <1>5, <2>1, <2>2 DEF Alert, NextWaiterIsAwakeUnlessProbing, NextWaiterIsAwake
    <2> QED BY <2>4, <2>5 DEF Alert
  <1> QED BY <1>7, <1>8

\* The end of a cooldown wakes those whose timer it ends, and a waiter that had
\* something to take before still finds who was ahead of it.
LEMMA CooldownEndKeepsAlert ==
    ASSUME TypeOK, QueueIsWaiting, Alert, NEW b \in Bots, CooldownEnds(b)
    PROVE  Alert'
  <1>1. UNCHANGED <<size, cursor, queue, busy, controlVars, call>> /\ cooling' = cooling \ {b}
    BY DEF CooldownEnds
  <1>2. \A d \in Callers : Usable(call[d].excluded)' = Usable(call[d].excluded)
    BY <1>1 DEF Usable, Known, Eligible, controlVars
  <1>3. \A d \in Callers : Assignable(d) => Assignable(d)'
    BY <1>1, <1>2 DEF Assignable, Available
  <1>4. \A d \in Callers : At(d, "wait") /\ d \notin awake' => d \notin awake /\ b \notin call[d].timer
    BY DEF CooldownEnds
  <1>5. ASSUME NEW d \in Callers, At(d, "wait"), d \notin awake', ~ProbeUnderWay, ~Assignable(d)
        PROVE  /\ ~Assignable(d)'
               /\ ((Usable(call[d].excluded) \cap cooling) \ busy)' \subseteq call'[d].timer
    <2>1. (Usable(call[d].excluded) \cap cooling) \ busy \subseteq call[d].timer
      BY <1>4, <1>5 DEF Alert, SleepersAreTimed
    <2>2. b \notin (Usable(call[d].excluded) \cap cooling) \ busy
      BY <1>4, <1>5, <2>1
    <2>3. Available(call[d].excluded)' = Available(call[d].excluded)
      BY <1>1, <1>2, <2>2 DEF Available, CooldownEnds
    <2>4. ~Assignable(d)'
      BY <1>1, <1>5, <2>3 DEF Assignable
    <2> QED BY <1>1, <1>2, <2>1, <2>4
  <1>6. ProbeUnderWay' <=> ProbeUnderWay
    BY <1>1 DEF ProbeUnderWay, At
  <1>7. SleepersAreTimed'
    BY <1>1, <1>3, <1>5, <1>6 DEF SleepersAreTimed, At
  <1>8. NextWaiterIsAwakeUnlessProbing'
    <2> SUFFICES ASSUME ~ProbeUnderWay, NEW d \in Callers, IsNext(queue, d)', d \notin awake'
                 PROVE  FALSE
      BY <1>6 DEF NextWaiterIsAwakeUnlessProbing, NextWaiterIsAwake
    <2>1. At(d, "wait")
      BY <1>1 DEF IsNext, QueueIsWaiting, InQueue
    <2>2. Assignable(d)
      BY <1>5, <2>1 DEF IsNext
    <2>3. \A i \in DOMAIN queue : queue[i] \in Callers
      BY DEF TypeOK
    <2>4. IsNext(queue, d)
      BY <1>1, <1>3, <2>2, <2>3 DEF IsNext, Turn
    <2> QED BY <1>4, <2>1, <2>4 DEF Alert, NextWaiterIsAwakeUnlessProbing, NextWaiterIsAwake
  <1> QED BY <1>7, <1>8 DEF Alert

LEMMA AlertStep ==
    ASSUME TypeOK, QueueIsWaiting, QueueIsWaiting', Alert, [Next]_vars
    PROVE  Alert'
  <1>1. ASSUME NEW c \in Callers, NEW to, Goto(c, to), to.pc # "wait", ~At(c, "wait"),
               ~At(c, "hold"), queue' = queue, awake \ {c} \subseteq awake',
               UNCHANGED <<size, cursor, busy, cooling, controlVars>>
        PROVE  Alert'
    <2>1. call'[c] = to /\ \A d \in Callers \ {c} : call'[d] = call[d]
      BY <1>1, GotoSetsOne
    <2>2. ProbeUnderWay => ProbeUnderWay'
      BY <1>1, <2>1 DEF ProbeUnderWay, At
    <2> QED BY <1>1, <2>1, <2>2, WaitersUnmoved DEF At
  <1>2. ASSUME NEW c \in Callers, NEW k \in Classes, NEW excluded \in Exclusions,
               Ask(c, k, excluded)
        PROVE  Alert'
    BY <1>1, <1>2 DEF Ask, At
  <1>3. ASSUME NEW c \in Callers, NEW b \in Bots, TakeBot(c, b)
        PROVE  Alert'
    <2>1. CASE queue = <<>>
      <3>1. \A d \in Callers : ~At(d, "wait")
        BY <2>1 DEF QueueIsWaiting, InQueue
      <3>2. \A d \in Callers : ~At(d, "wait")'
        BY <1>3, <3>1, GotoSetsOne DEF TakeBot, At
      <3> QED BY <3>2, AllAwake
    <2>2. CASE queue # <<>>
      BY <1>3, <2>2, NotifyWakesAll DEF TakeBot
    <2> QED BY <2>1, <2>2
  <1>4. ASSUME NEW c \in Callers, NoUsableBot(c)
        PROVE  Alert'
    <2>1. CASE At(c, "wait")
      BY <1>4, <2>1, NotifyWakesAll DEF NoUsableBot, Idle
    <2>2. CASE ~At(c, "wait")
      <3>1. queue' = queue /\ ~At(c, "hold")
        BY <1>4, <2>2 DEF NoUsableBot, Leave, QueueIsWaiting, Running, At
      <3>2. NotifyAllBut(c) \/ UNCHANGED awake
        BY <1>4 DEF NoUsableBot
      <3>3. Goto(c, Idle) /\ UNCHANGED <<size, cursor, busy, cooling, controlVars>>
        BY <1>4 DEF NoUsableBot
      <3> QED BY <1>1, <2>2, <3>1, <3>2, <3>3, NotifyWakesAll DEF Idle
    <2> QED BY <2>1, <2>2
  <1>5. ASSUME NEW c \in Callers, Wait(c)
        PROVE  Alert'
    BY <1>5, WaitKeepsAlert
  <1>6. ASSUME NEW c \in Callers, GiveUp(c)
        PROVE  Alert'
    BY <1>6, NotifyWakesAll DEF GiveUp, Idle
  <1>7. ASSUME NEW c \in Callers, Release(c)
        PROVE  Alert'
    BY <1>7, NotifyWakesAll DEF Release, Idle
  <1>8. ASSUME NEW c \in Callers, Cooldown(c)
        PROVE  Alert'
    <2>1. \A d \in Callers : At(d, "wait")' => d \in awake'
      BY <1>8 DEF Cooldown, NotifyAllBut, Sleepers, At
    <2> QED BY <2>1, AllAwake
  <1>9. ASSUME NEW b \in Bots, CooldownEnds(b)
        PROVE  Alert'
    BY <1>9, CooldownEndKeepsAlert
  <1>10. ASSUME NEW c \in Callers, NEW b \in Bots, Probe(c, b)
         PROVE  Alert'
    BY <1>1, <1>10 DEF Probe, At
  <1>11. ASSUME NEW c \in Callers, ProbeTake(c)
         PROVE  Alert'
    <2>1. call'[c] = [pc |-> "hold", bot |-> call[c].bot, lease |-> "probe"]
      BY <1>11, GotoSetsOne DEF ProbeTake
    <2>2. ProbeUnderWay'
      BY <2>1 DEF ProbeUnderWay, At
    <2> QED BY <2>2 DEF Alert, SleepersAreTimed, NextWaiterIsAwakeUnlessProbing
  <1>12. ASSUME NEW c \in Callers, ProbeWait(c)
         PROVE  Alert'
    BY <1>1, <1>12 DEF ProbeWait, ProbeRunning, At
  <1>13. ASSUME NEW c \in Callers, ProbeEnds(c)
         PROVE  Alert'
    BY <1>1, <1>13 DEF ProbeEnds, ProbeRunning, At, Idle
  <1>14. ASSUME NEW c \in Callers, SetHealthy(c)
         PROVE  Alert'
    <2>1. /\ call'[c] = [pc |-> "hold", bot |-> call[c].bot, lease |-> "judged"]
          /\ \A d \in Callers \ {c} : call'[d] = call[d]
      BY <1>14, GotoSetsOne DEF SetHealthy
    <2>2. CASE healthy' = healthy
      <3>1. ProbeUnderWay'
        BY <2>1 DEF ProbeUnderWay, At
      <3> QED BY <3>1 DEF Alert, SleepersAreTimed, NextWaiterIsAwakeUnlessProbing
    <2>3. CASE healthy' # healthy
      <3>1. \A d \in Callers : At(d, "wait")' => d \in awake'
        BY <1>14, <2>1, <2>3 DEF SetHealthy, NotifyAllBut, Sleepers, At
      <3> QED BY <3>1, AllAwake
    <2> QED BY <2>2, <2>3
  <1>15. CASE AddBot \/ \E b \in Bots : Drain(b) \/ Enable(b)
    <2>1. \A d \in Callers : At(d, "wait")' => d \in awake'
      BY <1>15 DEF AddBot, Drain, Enable, Sleepers, At
    <2> QED BY <2>1, AllAwake
  <1>16. CASE UNCHANGED vars
    BY <1>16, WaitersUnmoved DEF vars, ProbeUnderWay, At
  <1> QED
    BY <1>2, <1>3, <1>4, <1>5, <1>6, <1>7, <1>8, <1>9, <1>10, <1>11, <1>12, <1>13,
       <1>14, <1>15, <1>16 DEF Next

-----------------------------------------------------------------------------
\* The invariant and what follows from it.

LEMMA InvInit == Init => IInv
  <1> SUFFICES ASSUME Init PROVE IInv
    OBVIOUS
  <1> USE SchedulerAssumption DEF Init
  <1>1. TypeOK
    BY DEF TypeOK, Bots, Classes, Sleepers, Idle
  <1>2. \A c \in Callers : call[c].pc = "idle"
    BY DEF Idle
  <1>3. OneLeasePerBot /\ DrainingBotsWork
    BY <1>2 DEF OneLeasePerBot, DrainingBotsWork, At
  <1>4. QueueIsWaiting
    BY <1>2 DEF QueueIsWaiting, InQueue, At
  <1>5. TurnComesNearer
    BY DEF TurnComesNearer, Turn, Distance, Classes
  <1>6. SleepersAreTimed /\ NextWaiterIsAwakeUnlessProbing
    BY <1>2 DEF SleepersAreTimed, NextWaiterIsAwakeUnlessProbing, NextWaiterIsAwake, IsNext, At
  <1> QED BY <1>1, <1>3, <1>4, <1>5, <1>6 DEF IInv

LEMMA InvStep == IInv /\ [Next]_vars => IInv'
  <1> SUFFICES ASSUME IInv, [Next]_vars PROVE IInv'
    OBVIOUS
  <1>1. TypeOK' /\ OneLeasePerBot' /\ DrainingBotsWork' /\ QueueIsWaiting' /\ TurnComesNearer'
    BY TypeStep, LeaseStep, DrainStep, QueueStep, TurnStep DEF IInv
  <1>2. Alert'
    BY <1>1, AlertStep DEF IInv, Alert
  <1> QED BY <1>1, <1>2 DEF IInv, Alert

\* The invariant of the scheduler, for any bots, classes, callers and exclusions.
THEOREM SafetyCorrect == Spec => []IInv
  BY InvInit, InvStep, PTL DEF Spec

\* Every variable stays in its range.
THEOREM TypeCorrect == Spec => []TypeOK
  <1>1. IInv => TypeOK
    BY DEF IInv
  <1> QED BY <1>1, SafetyCorrect, PTL

\* No bot ever has two leases, whatever probes, drains and cooldowns do.
THEOREM OneLeaseAlways == Spec => []OneLeasePerBot
  <1>1. IInv => OneLeasePerBot
    BY DEF IInv
  <1> QED BY <1>1, SafetyCorrect, PTL

\* A drain ends with the lease it waits for.
THEOREM DrainsAlwaysEnd == Spec => []DrainingBotsWork
  <1>1. IInv => DrainingBotsWork
    BY DEF IInv
  <1> QED BY <1>1, SafetyCorrect, PTL

\* The queue is always exactly the waiting callers.
THEOREM QueueAlwaysWaiting == Spec => []QueueIsWaiting
  <1>1. IInv => QueueIsWaiting
    BY DEF IInv
  <1> QED BY <1>1, SafetyCorrect, PTL

\* A class with work is passed over once by each other class at most.
THEOREM RotationAlwaysFair == Spec => []RotationIsFair
  <1>1. IInv => RotationIsFair
    BY TurnMeansFair DEF IInv
  <1> QED BY <1>1, SafetyCorrect, PTL

\* While no probe holds a bot, the waiter whose turn it is has been woken.
THEOREM NoWakeUpIsLost == Spec => []NextWaiterIsAwakeUnlessProbing
  <1>1. IInv => NextWaiterIsAwakeUnlessProbing
    BY DEF IInv
  <1> QED BY <1>1, SafetyCorrect, PTL
=============================================================================
