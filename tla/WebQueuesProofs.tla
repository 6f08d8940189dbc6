--------------------------- MODULE WebQueuesProofs ----------------------------
(* What waits, and for what: the theorems about UploadGate, ThumbnailLoads,    *)
(* PreviewWarms, FilePreviews, SearchPages, DropTargets and FolderPlans, for any *)
(* clients and ceiling, any visuals, calls and slots, any owners and keys, any   *)
(* files, requests and bounds, any folders, targets and gifts, any drops, names  *)
(* and batches; and about the composition of MCWebQueues.                       *)
EXTENDS MCWebQueues, TLAPS, FiniteSetTheorems, FunctionTheorems, SequenceTheorems, WellFoundedInduction

-------------------------------------------------------------------------------
(* UploadGate.                                                                *)

States == {"idle", "waiting"} \cup Holding
HoldersOf(p) == {c \in Clients : p[c] \in Holding}

\* The queue holds the clients that wait, each once and none of them aborted.
QueueOf(w, p, a) ==
  /\ w \in Seq(Clients) /\ p \in [Clients -> States]
  /\ \A i, j \in 1..Len(w) : w[i] = w[j] => i = j
  /\ \A i \in 1..Len(w) : p[w[i]] = "waiting" /\ w[i] \notin a
  /\ \A c \in Clients : p[c] = "waiting" => \E i \in 1..Len(w) : w[i] = c

LimitOK == limit \in Nat /\ ceiling \in 1..MaxCeiling /\ 1 <= limit /\ limit <= ceiling

GateInv ==
  /\ aborted \subseteq Clients
  /\ LimitOK
  /\ QueueOf(waiting, pc, aborted)
  /\ active = Cardinality(HoldersOf(pc))
  /\ waiting # <<>> => active >= limit

-----------------------------------------------------------------------------
(* What a drain does *)

LEMMA HoldersFinite ==
  ASSUME NEW p
  PROVE IsFiniteSet(HoldersOf(p)) /\ Cardinality(HoldersOf(p)) \in Nat
  BY GateAssumption, FS_Subset, FS_CardinalityType DEF HoldersOf

\* Nobody in the queue is aborted, so a drain looks at no more than it admits.
LEMMA ExaminedIs ==
  ASSUME NEW w \in Seq(Clients), NEW free \in Nat,
         \A i \in 1..Len(w) : w[i] \notin aborted
  PROVE  Examined(w, free) = Least(free, Len(w))
<1> DEFINE Live(p) == Cardinality({i \in 1..p : w[i] \notin aborted})
           Stops(p) == p = Len(w) \/ Live(p) >= free
           First(p) == Stops(p) /\ \A q \in 0..(p - 1) : ~Stops(q)
           m == Least(free, Len(w))
<1>0. Len(w) \in Nat
      BY LenProperties
<1>1. ASSUME NEW p \in 0..Len(w) PROVE Live(p) = p
  <2>1. {i \in 1..p : w[i] \notin aborted} = 1..p
        BY <1>0
  <2>2. Cardinality(1..p) = p
        BY <1>0, FS_Interval
  <2> QED BY <2>1, <2>2
<1> HIDE DEF Live
<1>2. m \in 0..Len(w) /\ First(m)
      BY <1>0, <1>1 DEF Least
<1>3. ASSUME NEW p \in 0..Len(w), First(p) PROVE p = m
  <2>1. ~(p < m)
        BY <1>0, <1>2, <1>3
  <2>2. ~(m < p)
        BY <1>0, <1>2, <1>3
  <2> QED BY <2>1, <2>2, <1>0, <1>2
<1> HIDE DEF Stops, m
<1>4. (CHOOSE p \in 0..Len(w) : First(p)) = m
      BY <1>2, <1>3
<1> QED BY <1>4, Zenon DEF Examined, Live, Stops, m

\* The first k of a queue are k clients.
LEMMA FirstsAreCounted ==
  ASSUME NEW w \in Seq(Clients), NEW k \in 0..Len(w),
         \A i, j \in 1..Len(w) : w[i] = w[j] => i = j
  PROVE  /\ IsFiniteSet({w[i] : i \in 1..k})
         /\ Cardinality({w[i] : i \in 1..k}) = k
<1> DEFINE T == {w[i] : i \in 1..k}
           f == [i \in 1..k |-> w[i]]
<1>1. Len(w) \in Nat /\ IsFiniteSet(1..k) /\ Cardinality(1..k) = k
      BY LenProperties, FS_Interval
<1>2. f \in Bijection(1..k, T)
      BY <1>1 DEF Bijection, Injection, Surjection, IsInjective
<1>3. ExistsBijection(1..k, T)
      BY <1>2 DEF ExistsBijection
<1> QED BY <1>1, <1>3, FS_Bijection

\* What a drain under the limit m leaves, the clients having been at p.
Drained(p, m) ==
  /\ QueueOf(waiting', pc', aborted)
  /\ active' = Cardinality(HoldersOf(pc'))
  /\ waiting' # <<>> => active' >= m
  /\ HoldersOf(p) \subseteq HoldersOf(pc')
  /\ HoldersOf(pc') # HoldersOf(p) => active' <= m
  /\ \A c \in Clients : pc'[c] = "idle" <=> p[c] = "idle"

LEMMA DrainIs ==
  ASSUME NEW w, NEW p, NEW m \in Nat, NEW n,
         QueueOf(w, p, aborted), n = Cardinality(HoldersOf(p)),
         drain(n, m, w, p)
  PROVE  Drained(p, m)
<1> DEFINE free == Most(0, m - n)
           k == Least(free, Len(w))
           T == {w[i] : i \in 1..k}
<1>0. /\ w \in Seq(Clients) /\ Len(w) \in Nat
      /\ n \in Nat
      /\ \A i \in 1..Len(w) : w[i] \in Clients
      BY HoldersFinite, LenProperties, ElementOfSeq DEF QueueOf
<1>1. free \in Nat /\ k \in 0..Len(w)
      BY <1>0 DEF Most, Least
<1>2. Examined(w, free) = k
      BY <1>0, <1>1, ExaminedIs DEF QueueOf
<1> HIDE DEF free
<1>3. /\ k < Len(w) => n + k >= m
      /\ k > 0 => n + k <= m
      BY <1>0, <1>1 DEF free, Most, Least
<1> HIDE DEF k
<1>4. T \ aborted = T /\ T \cap aborted = {} /\ T \subseteq Clients
  <2>1. \A i \in 1..k : i \in 1..Len(w)
        BY <1>0, <1>1
  <2>2. \A i \in 1..Len(w) : w[i] \notin aborted
        BY Zenon DEF QueueOf
  <2>3. \A x \in T : x \notin aborted /\ x \in Clients
        BY <1>0, <2>1, <2>2, Zenon
  <2> HIDE DEF T
  <2> QED BY <2>3
<1>5. /\ active' = n + Cardinality(T)
      /\ waiting' = SubSeq(w, k + 1, Len(w))
      /\ pc' = [c \in Clients |-> IF c \in T THEN "admitted" ELSE p[c]]
  <2>1. /\ active' = n + Cardinality(T \ aborted)
        /\ waiting' = SubSeq(w, k + 1, Len(w))
        /\ pc' = [c \in Clients |-> IF c \in T \ aborted THEN "admitted"
                                    ELSE IF c \in T \cap aborted THEN "idle" ELSE p[c]]
        BY <1>2, Zenon DEF drain, free
  <2> QED BY <2>1, <1>4
<1>6. IsFiniteSet(T) /\ Cardinality(T) = k
      BY <1>0, <1>1, FirstsAreCounted DEF QueueOf
<1>7. \A c \in T : p[c] = "waiting"
      BY <1>1 DEF QueueOf
<1>8. HoldersOf(pc') = HoldersOf(p) \cup T /\ HoldersOf(p) \cap T = {}
      BY <1>4, <1>5, <1>7 DEF HoldersOf, Holding
<1>9. Cardinality(HoldersOf(pc')) = n + k
  <2>1. Cardinality(HoldersOf(p) \cup T)
          = Cardinality(HoldersOf(p)) + Cardinality(T) - Cardinality(HoldersOf(p) \cap T)
        BY <1>6, HoldersFinite, FS_Union, Zenon
  <2>2. Cardinality(HoldersOf(p) \cap T) = 0
        BY <1>8, FS_EmptySet, Zenon
  <2>3. Cardinality(HoldersOf(pc')) = Cardinality(HoldersOf(p)) + Cardinality(T) - 0
        BY <2>1, <2>2, <1>8, Zenon
  <2> HIDE DEF T
  <2> QED BY <2>3, <1>0, <1>1, <1>6
<1>10. /\ waiting' \in Seq(Clients) /\ Len(waiting') = Len(w) - k
       /\ \A i \in 1..Len(w) - k : waiting'[i] = w[k + i]
  <2>1. \A i \in (k + 1)..Len(w) : w[i] \in Clients
        BY <1>0, <1>1
  <2>2. /\ waiting' \in Seq(Clients)
        /\ Len(waiting') = IF k + 1 <= Len(w) THEN Len(w) - (k + 1) + 1 ELSE 0
        /\ \A i \in 1..Len(w) - (k + 1) + 1 : waiting'[i] = w[(k + 1) + i - 1]
        BY <2>1, <1>0, <1>1, <1>5, SubSeqProperties
  <2> QED BY <2>2, <1>0, <1>1
<1>11. QueueOf(waiting', pc', aborted)
  <2>1. pc' \in [Clients -> States]
        BY <1>5 DEF QueueOf, States, Holding
  <2>2. ASSUME NEW i \in 1..Len(waiting'), NEW j \in 1..Len(waiting'), waiting'[i] = waiting'[j]
        PROVE  i = j
    <3>1. k + i \in 1..Len(w) /\ k + j \in 1..Len(w) /\ w[k + i] = w[k + j]
          BY <2>2, <1>0, <1>1, <1>10
    <3>2. k + i = k + j
          BY <3>1 DEF QueueOf
    <3> QED BY <3>2, <1>0, <1>1, <1>10
  <2>3. ASSUME NEW i \in 1..Len(waiting')
        PROVE  pc'[waiting'[i]] = "waiting" /\ waiting'[i] \notin aborted
    <3>0. k \in Nat /\ Len(w) \in Nat /\ k <= Len(w) /\ i \in Nat /\ i >= 1 /\ i <= Len(w) - k
          BY <1>0, <1>1, <1>10
    <3>1. k + i \in 1..Len(w) /\ waiting'[i] = w[k + i]
          BY <3>0, <1>10
    <3>2. w[k + i] \notin T
          BY <3>1, <1>1 DEF QueueOf
    <3> QED BY <3>1, <3>2, <1>0, <1>5 DEF QueueOf
  <2>4. ASSUME NEW c \in Clients, pc'[c] = "waiting"
        PROVE  \E i \in 1..Len(waiting') : waiting'[i] = c
    <3>1. c \notin T /\ p[c] = "waiting"
          BY <2>4, <1>5
    <3>2. PICK j \in 1..Len(w) : w[j] = c
          BY <3>1 DEF QueueOf
    <3>3. j > k
          BY <3>1, <3>2, <1>1
    <3>4. j - k \in 1..Len(waiting') /\ waiting'[j - k] = c
          BY <3>2, <3>3, <1>0, <1>1, <1>10
    <3> QED BY <3>4
  <2> QED BY <2>1, <2>2, <2>3, <2>4, <1>10 DEF QueueOf
<1>12. waiting' # <<>> => active' >= m
  <2>1. waiting' # <<>> => k < Len(w)
        BY <1>0, <1>1, <1>10, EmptySeq
  <2> QED BY <2>1, <1>3, <1>5, <1>6
<1>13. HoldersOf(pc') # HoldersOf(p) => active' <= m
  <2>1. k = 0 => T = {}
        BY <1>6, FS_EmptySet
  <2>2. active' = n + k
        BY <1>5, <1>6
  <2> HIDE DEF T
  <2> QED BY <2>1, <2>2, <1>1, <1>3, <1>8
<1>14. \A c \in Clients : pc'[c] = "idle" <=> p[c] = "idle"
       BY <1>5, <1>7
<1> QED BY <1>5, <1>6, <1>8, <1>9, <1>11, <1>12, <1>13, <1>14 DEF Drained

-----------------------------------------------------------------------------
(* The steps: each keeps the invariant and is one of the semaphore's *)

Stutters == UNCHANGED <<Holders, ToSet(waiting), limit>>
Good == GateInv' /\ (Gate!SemNext \/ Stutters)
Waits(p) == {c \in Clients : p[c] = "waiting"}

LEMMA OneIsOne == \A c : Cardinality({c}) <= 1
<1>1. \A c : Cardinality({c}) = 1
      BY FS_Singleton, Zenon
<1> QED BY <1>1

\* The cardinality Semaphore speaks of is the one of this module.
LEMMA SameCardinality == \A S : Gate!Cardinality(S) = Cardinality(S)
  BY Zenon DEF Gate!Cardinality, Cardinality, Gate!IsFiniteSet, IsFiniteSet

LEMMA QueuedAre ==
  ASSUME NEW w, NEW p, NEW a, QueueOf(w, p, a)
  PROVE  ToSet(w) = Waits(p)
<1>1. Len(w) \in Nat /\ DOMAIN w = 1..Len(w) /\ \A i \in 1..Len(w) : w[i] \in Clients
      BY LenProperties, ElementOfSeq DEF QueueOf
<1> QED BY <1>1 DEF QueueOf, ToSet, Waits

\* Who leaves the gate in a step, and what the step must not do to the others.
LEMMA StepSettles ==
  ASSUME GateInv, GateInv', NEW gone \in SUBSET Clients,
         Cardinality(gone) <= 1,
         \A c \in gone : pc[c] # "idle",
         \A c \in Clients : pc'[c] # "idle" <=> pc[c] # "idle" /\ c \notin gone,
         HoldersOf(pc) \ gone \subseteq HoldersOf(pc'),
         HoldersOf(pc') \ HoldersOf(pc) # {} => active' <= limit'
  PROVE  Good
<1> DEFINE H == HoldersOf(pc)
           V == Waits(pc)
           H1 == HoldersOf(pc')
           V1 == Waits(pc')
<1>1. /\ Holders = H /\ ToSet(waiting) = V
      /\ Holders' = H1 /\ ToSet(waiting)' = V1
      BY QueuedAre, Zenon DEF GateInv, Holders, HoldersOf
<1>2. pc \in [Clients -> States] /\ pc' \in [Clients -> States]
      BY DEF GateInv, QueueOf
<1>3. gone \in SUBSET (H \cup V) /\ H1 \cup V1 = (H \cup V) \ gone
      BY <1>2 DEF HoldersOf, Waits, States, Holding
<1>4. H1 \cap V1 = {}
      BY DEF HoldersOf, Waits, Holding
<1>5. limit' \in Nat \ {0}
      BY DEF GateInv, LimitOK
<1>6. active' = Cardinality(H1) /\ (V1 # {} => Cardinality(H1) >= limit')
  <2>1. V1 # {} => waiting' # <<>>
    <3>1. waiting' = <<>> => Len(waiting') = 0
          BY EmptySeq
    <3> QED BY <3>1 DEF GateInv, QueueOf, Waits
  <2> QED BY <2>1 DEF GateInv
<1>7. H1 \ H # {} => Cardinality(H1) <= limit'
      BY <1>6
<1>8. Gate!Sound
      BY <1>1, <1>6, <1>7, SameCardinality, Zenon DEF Gate!Sound
<1>9. Gate!Settle
      BY <1>1, <1>3, <1>4, <1>5, <1>8, SameCardinality, Zenon DEF Gate!Settle
<1> QED BY <1>9 DEF Good, Gate!SemNext

\* Steps that move no client to or from the queue or the slots.
LEMMA StepStutters ==
  ASSUME GateInv, UNCHANGED <<waiting, active, limit>>,
         pc' \in [Clients -> States],
         HoldersOf(pc') = HoldersOf(pc), Waits(pc') = Waits(pc),
         aborted' \subseteq Clients, \A c \in aborted' : c \in aborted \/ pc[c] # "waiting",
         ceiling' \in 1..MaxCeiling, limit <= ceiling'
  PROVE  Good
<1>1. QueueOf(waiting', pc', aborted')
  <2>1. \A i \in 1..Len(waiting) : waiting[i] \in Clients
        BY LenProperties, ElementOfSeq DEF GateInv, QueueOf
  <2> QED BY <2>1 DEF GateInv, QueueOf, Waits
<1>2. GateInv'
      BY <1>1 DEF GateInv, LimitOK
<1>3. Stutters
      BY DEF Stutters, Holders, HoldersOf
<1> QED BY <1>2, <1>3 DEF Good

\* A client that goes on with its slot.
LEMMA ClientGoesOn ==
  ASSUME GateInv, NEW c \in Clients, pc[c] \in Holding, NEW e \in Holding
  PROVE  LET p == [pc EXCEPT ![c] = e]
         IN /\ p \in [Clients -> States]
            /\ HoldersOf(p) = HoldersOf(pc) /\ Waits(p) = Waits(pc)
            /\ \A d \in Clients : p[d] = "idle" <=> pc[d] = "idle"
            /\ QueueOf(waiting, p, aborted)
<1> DEFINE p == [pc EXCEPT ![c] = e]
<1>1. pc \in [Clients -> States]
      BY DEF GateInv, QueueOf
<1>2. /\ p \in [Clients -> States]
      /\ HoldersOf(p) = HoldersOf(pc) /\ Waits(p) = Waits(pc)
      /\ \A d \in Clients : p[d] = "idle" <=> pc[d] = "idle"
      /\ \A d \in Clients : p[d] = "waiting" <=> pc[d] = "waiting"
      BY <1>1 DEF States, Holding, HoldersOf, Waits
<1> HIDE DEF p
<1>3. \A i \in 1..Len(waiting) : waiting[i] \in Clients
      BY LenProperties, ElementOfSeq DEF GateInv, QueueOf
<1>4. QueueOf(waiting, p, aborted)
      BY <1>2, <1>3 DEF GateInv, QueueOf
<1> QED BY <1>2, <1>4 DEF p

\* A drain under the new limit, after a client gone or with nobody gone.
LEMMA StepDrains ==
  ASSUME GateInv, NEW p, NEW gone \in SUBSET Clients, NEW m \in Nat \ {0},
         Cardinality(gone) <= 1,
         \A c \in gone : pc[c] # "idle",
         \A c \in Clients : p[c] # "idle" <=> pc[c] # "idle" /\ c \notin gone,
         HoldersOf(p) = HoldersOf(pc) \ gone,
         QueueOf(waiting, p, aborted),
         drain(Cardinality(HoldersOf(p)), m, waiting, p),
         UNCHANGED aborted, limit' = m, ceiling' \in 1..MaxCeiling, m <= ceiling'
  PROVE  Good
<1>1. Drained(p, m)
      BY DrainIs
<1>2. GateInv'
      BY <1>1 DEF GateInv, LimitOK, Drained
<1>3. \A c \in Clients : pc'[c] # "idle" <=> pc[c] # "idle" /\ c \notin gone
      BY <1>1 DEF Drained
<1>4. HoldersOf(pc) \ gone \subseteq HoldersOf(pc')
      BY <1>1 DEF Drained
<1>5. HoldersOf(pc') \ HoldersOf(pc) # {} => active' <= limit'
      BY <1>1 DEF Drained
<1> QED BY <1>2, <1>3, <1>4, <1>5, StepSettles

LEMMA StepSetsLimit ==
  ASSUME GateInv, NEW p, QueueOf(waiting, p, aborted),
         HoldersOf(p) = HoldersOf(pc), Waits(p) = Waits(pc),
         \A d \in Clients : p[d] = "idle" <=> pc[d] = "idle",
         NEW awaited \in Nat, NEW top \in 1..MaxCeiling,
         setLimit(awaited, top, p),
         UNCHANGED aborted, ceiling' = top
  PROVE  Good
<1> DEFINE next == Least(top, Most(1, awaited))
<1>1. next \in Nat \ {0} /\ next <= top
      BY GateAssumption DEF Least, Most
<1>2. /\ limit' = next
      /\ \/ next = limit /\ pc' = p /\ UNCHANGED <<active, waiting>>
         \/ drain(active, next, waiting, p)
      BY Zenon DEF setLimit
<1> HIDE DEF next
<1>3. CASE next = limit /\ pc' = p /\ UNCHANGED <<active, waiting>>
  <2>1. /\ UNCHANGED <<waiting, active, limit>> /\ pc' \in [Clients -> States]
        /\ aborted' \subseteq Clients /\ limit <= ceiling'
        BY <1>1, <1>2, <1>3 DEF GateInv, QueueOf
  <2> QED BY <2>1, <1>3, StepStutters
<1>4. CASE drain(active, next, waiting, p)
  <2>1. IsFiniteSet({}) /\ Cardinality({}) <= 1
        BY FS_EmptySet
  <2>2. active = Cardinality(HoldersOf(p))
        BY DEF GateInv
  <2>3. drain(Cardinality(HoldersOf(p)), next, waiting, p)
        BY <1>4, <2>2, Zenon
  <2> QED BY <2>1, <2>3, <1>1, <1>2, StepDrains
<1> QED BY <1>2, <1>3, <1>4, Zenon

LEMMA acquireStep == ASSUME GateInv, NEW c \in Clients, acquire(c) PROVE Good
<1>1. /\ pc[c] = "idle" /\ c \notin aborted /\ UNCHANGED <<aborted, limit, ceiling>>
      /\ pc \in [Clients -> States]
      BY DEF acquire, GateInv, QueueOf
<1>2. /\ HoldersOf(pc) \subseteq Clients /\ c \notin HoldersOf(pc) \cup Waits(pc)
      /\ Holders = HoldersOf(pc) /\ ToSet(waiting) = Waits(pc)
      BY <1>1, QueuedAre DEF HoldersOf, Waits, Holding, Holders, GateInv
<1>3. ASSUME GateInv', HoldersOf(pc') \cup Waits(pc') = HoldersOf(pc) \cup Waits(pc) \cup {c},
             HoldersOf(pc) \subseteq HoldersOf(pc'),
             HoldersOf(pc') \ HoldersOf(pc) # {} => active' <= limit'
      PROVE  Good
  <2>1. Holders' = HoldersOf(pc') /\ ToSet(waiting)' = Waits(pc')
        BY <1>3, QueuedAre, Zenon DEF GateInv, Holders, HoldersOf
  <2>2. HoldersOf(pc') \cap Waits(pc') = {}
        BY DEF HoldersOf, Waits, Holding
  <2>3. active' = Cardinality(HoldersOf(pc')) /\ (Waits(pc') # {} => active' >= limit')
    <3>1. waiting' = <<>> => Len(waiting') = 0
          BY EmptySeq
    <3> QED BY <1>3, <3>1 DEF GateInv, QueueOf, Waits
  <2>4. Gate!Sound
    <3>1. HoldersOf(pc') \ HoldersOf(pc) # {} => Cardinality(HoldersOf(pc')) <= limit'
          BY <1>3, <2>3
    <3>2. Waits(pc') # {} => Cardinality(HoldersOf(pc')) >= limit'
          BY <2>3
    <3> QED BY <3>1, <3>2, <2>1, <1>2, SameCardinality, Zenon DEF Gate!Sound
  <2>5. Gate!Ask(c)
        BY <2>1, <2>2, <2>4, <1>1, <1>2, <1>3, Zenon DEF Gate!Ask
  <2> QED BY <2>5, <1>3, Zenon DEF Good, Gate!SemNext
<1>4. CASE active < limit
  <2>1. active' = active + 1 /\ pc' = [pc EXCEPT ![c] = "admitted"] /\ waiting' = waiting
        BY <1>4, Zenon DEF acquire
  <2>2. /\ HoldersOf(pc') = HoldersOf(pc) \cup {c} /\ Waits(pc') = Waits(pc)
        /\ pc' \in [Clients -> States]
        BY <1>1, <2>1 DEF HoldersOf, Waits, States, Holding
  <2>3. Cardinality(HoldersOf(pc')) = active + 1
        BY <1>2, <2>2, HoldersFinite, FS_AddElement DEF GateInv
  <2>4. waiting = <<>>
        BY <1>4, HoldersFinite DEF GateInv, LimitOK
  <2>5. QueueOf(waiting', pc', aborted')
    <3>1. Len(waiting) = 0
          BY <2>4, EmptySeq
    <3> QED BY <3>1, <1>1, <2>1, <2>2 DEF GateInv, QueueOf, Waits
  <2>6. GateInv'
        BY <1>1, <2>1, <2>3, <2>4, <2>5 DEF GateInv, LimitOK
  <2>7. active' <= limit'
        BY <1>1, <1>4, <2>1, HoldersFinite DEF GateInv, LimitOK
  <2> QED BY <1>3, <2>2, <2>6, <2>7
<1>5. CASE ~(active < limit)
  <2>1. active' = active /\ pc' = [pc EXCEPT ![c] = "waiting"] /\ waiting' = Append(waiting, c)
        BY <1>5, Zenon DEF acquire
  <2>2. /\ HoldersOf(pc') = HoldersOf(pc) /\ Waits(pc') = Waits(pc) \cup {c}
        /\ pc' \in [Clients -> States]
        BY <1>1, <2>1 DEF HoldersOf, Waits, States, Holding
  <2>3. /\ waiting' \in Seq(Clients) /\ Len(waiting') = Len(waiting) + 1
        /\ waiting'[Len(waiting) + 1] = c
        /\ \A i \in 1..Len(waiting) : waiting'[i] = waiting[i] /\ waiting[i] # c
        /\ Len(waiting) \in Nat
        BY <1>1, <2>1, LenProperties DEF GateInv, QueueOf
  <2>4. \A i \in 1..Len(waiting') : i = Len(waiting) + 1 \/ i \in 1..Len(waiting)
        BY <2>3
  <2>5. QueueOf(waiting', pc', aborted')
    <3>1. \A i, j \in 1..Len(waiting') : waiting'[i] = waiting'[j] => i = j
          BY <2>3, <2>4 DEF GateInv, QueueOf
    <3>2. \A i \in 1..Len(waiting') : pc'[waiting'[i]] = "waiting" /\ waiting'[i] \notin aborted'
      <4>1. \A i \in 1..Len(waiting) : waiting[i] \in Waits(pc')
            BY <2>2, ElementOfSeq DEF GateInv, QueueOf, Waits
      <4> QED BY <4>1, <1>1, <2>1, <2>3, <2>4 DEF GateInv, QueueOf, Waits
    <3>3. ASSUME NEW d \in Clients, pc'[d] = "waiting" PROVE \E i \in 1..Len(waiting') : waiting'[i] = d
      <4>1. CASE d = c
        <5>1. Len(waiting) + 1 \in 1..Len(waiting')
              BY <2>3
        <5> QED BY <4>1, <5>1, <2>3
      <4>2. CASE d # c
        <5>1. PICK i \in 1..Len(waiting) : waiting[i] = d
              BY <3>3, <4>2, <1>1, <2>1 DEF GateInv, QueueOf
        <5>2. i \in 1..Len(waiting') /\ waiting'[i] = d
              BY <5>1, <2>3
        <5> QED BY <5>2
      <4> QED BY <4>1, <4>2
    <3> QED BY <2>2, <2>3, <3>1, <3>2, <3>3 DEF QueueOf
  <2>6. GateInv'
        BY <1>1, <1>5, <2>1, <2>2, <2>5, HoldersFinite DEF GateInv, LimitOK
  <2> QED BY <1>3, <2>2, <2>6
<1> QED BY <1>4, <1>5

LEMMA releaseStep == ASSUME GateInv, NEW c \in Clients, release(c) PROVE Good
<1> DEFINE p == [pc EXCEPT ![c] = "idle"]
<1>1. /\ pc[c] = "leaving" /\ UNCHANGED <<aborted, limit, ceiling>>
      /\ drain(active - 1, limit, waiting, p)
      BY DEF release
<1>2. pc \in [Clients -> States] /\ \A i \in 1..Len(waiting) : waiting[i] \in Clients
      BY ElementOfSeq DEF GateInv, QueueOf
<1>3. /\ p \in [Clients -> States]
      /\ HoldersOf(p) = HoldersOf(pc) \ {c} /\ c \in HoldersOf(pc)
      /\ \A d \in Clients : p[d] = "waiting" <=> pc[d] = "waiting"
      /\ \A d \in Clients : p[d] # "idle" <=> pc[d] # "idle" /\ d \notin {c}
      BY <1>1, <1>2 DEF HoldersOf, States, Holding
<1> HIDE DEF p
<1>4. QueueOf(waiting, p, aborted)
      BY <1>2, <1>3 DEF GateInv, QueueOf
<1>5. Cardinality(HoldersOf(p)) = active - 1
      BY <1>3, HoldersFinite, FS_RemoveElement DEF GateInv
<1>6. drain(Cardinality(HoldersOf(p)), limit, waiting, p)
      BY <1>1, <1>5, Zenon
<1>7. Cardinality({c}) <= 1
      BY OneIsOne
<1>8. limit \in Nat \ {0} /\ ceiling' \in 1..MaxCeiling /\ limit <= ceiling' /\ limit' = limit
      BY <1>1 DEF GateInv, LimitOK
<1> QED BY <1>1, <1>3, <1>4, <1>6, <1>7, <1>8, StepDrains

\* A waiter that gives up leaves the others in their order.
LEMMA abortStep == ASSUME GateInv, NEW c \in Clients, abort(c) PROVE Good
<1>1. /\ c \notin aborted /\ pc[c] # "idle" /\ aborted' = aborted \cup {c}
      /\ UNCHANGED <<active, limit, ceiling>>
      BY DEF abort
<1>2. pc \in [Clients -> States]
      BY DEF GateInv, QueueOf
<1>3. CASE pc[c] = "waiting"
  <2>1. /\ pc' = [pc EXCEPT ![c] = "idle"]
        /\ \E i \in 1..Len(waiting) : waiting[i] = c /\ waiting' = RemoveAt(waiting, i)
        BY <1>3, Zenon DEF abort
  <2>2. PICK i \in 1..Len(waiting) : waiting[i] = c /\ waiting' = RemoveAt(waiting, i)
        BY <2>1
  <2>3. /\ waiting \in Seq(Clients) /\ Len(waiting) \in Nat
        /\ \A j \in 1..Len(waiting) : waiting[j] \in Clients
        BY LenProperties, ElementOfSeq DEF GateInv, QueueOf
  <2>4. /\ waiting' \in Seq(Clients) /\ Len(waiting') = Len(waiting) - 1
        /\ \A j \in 1..Len(waiting) - 1 : waiting'[j] = waiting[IF j < i THEN j ELSE j + 1]
    <3> DEFINE a == SubSeq(waiting, 1, i - 1)
               b == SubSeq(waiting, i + 1, Len(waiting))
    <3>1. /\ a \in Seq(Clients) /\ Len(a) = i - 1
          /\ \A j \in 1..i - 1 : a[j] = waiting[j]
      <4>1. \A j \in 1..i - 1 : waiting[j] \in Clients
            BY <2>3
      <4>2. /\ a \in Seq(Clients) /\ Len(a) = IF 1 <= i - 1 THEN (i - 1) - 1 + 1 ELSE 0
            /\ \A j \in 1..(i - 1) - 1 + 1 : a[j] = waiting[1 + j - 1]
            BY <4>1, <2>3, SubSeqProperties
      <4> QED BY <4>2
    <3>2. /\ b \in Seq(Clients) /\ Len(b) = Len(waiting) - i
          /\ \A j \in 1..Len(waiting) - i : b[j] = waiting[i + j]
      <4>1. \A j \in (i + 1)..Len(waiting) : waiting[j] \in Clients
            BY <2>3
      <4>2. /\ b \in Seq(Clients)
            /\ Len(b) = IF i + 1 <= Len(waiting) THEN Len(waiting) - (i + 1) + 1 ELSE 0
            /\ \A j \in 1..Len(waiting) - (i + 1) + 1 : b[j] = waiting[(i + 1) + j - 1]
            BY <4>1, <2>3, SubSeqProperties
      <4> QED BY <4>2, <2>3
    <3>3. waiting' = a \o b
          BY <2>2, Zenon DEF RemoveAt
    <3> HIDE DEF a, b
    <3>4. /\ a \o b \in Seq(Clients) /\ Len(a \o b) = Len(a) + Len(b)
          /\ \A j \in 1..Len(a) + Len(b) : (a \o b)[j] = IF j <= Len(a) THEN a[j] ELSE b[j - Len(a)]
          BY <3>1, <3>2, ConcatProperties
    <3>5. ASSUME NEW j \in 1..Len(waiting) - 1
          PROVE  (a \o b)[j] = waiting[IF j < i THEN j ELSE j + 1]
      <4>1. CASE j < i
            BY <4>1, <3>1, <3>2, <3>4, <2>3
      <4>2. CASE ~(j < i)
        <5>1. (a \o b)[j] = b[j - (i - 1)]
              BY <4>2, <3>1, <3>2, <3>4, <2>3
        <5>2. b[j - (i - 1)] = waiting[i + (j - (i - 1))]
          <6>1. j - (i - 1) \in 1..Len(waiting) - i
                BY <4>2, <2>3
          <6> QED BY <6>1, <3>2
        <5>3. i + (j - (i - 1)) = j + 1
              BY <2>3
        <5> QED BY <5>1, <5>2, <5>3, <4>2
      <4> QED BY <4>1, <4>2
    <3> QED BY <3>1, <3>2, <3>3, <3>4, <3>5, <2>3
  <2>5. /\ pc' \in [Clients -> States]
        /\ HoldersOf(pc') = HoldersOf(pc)
        /\ \A d \in Clients : pc'[d] # "idle" <=> pc[d] # "idle" /\ d \notin {c}
        /\ \A d \in Clients : pc'[d] = "waiting" <=> pc[d] = "waiting" /\ d # c
        BY <2>1, <1>2, <1>3 DEF HoldersOf, States, Holding
  <2> DEFINE at(j) == IF j < i THEN j ELSE j + 1
  <2>6. \A j \in 1..Len(waiting') : at(j) \in 1..Len(waiting) /\ waiting'[j] = waiting[at(j)] /\ at(j) # i
        BY <2>3, <2>4
  <2>7. QueueOf(waiting', pc', aborted')
    <3>1. ASSUME NEW j \in 1..Len(waiting'), NEW k \in 1..Len(waiting'), waiting'[j] = waiting'[k]
          PROVE  j = k
      <4>1. at(j) = at(k)
            BY <3>1, <2>6 DEF GateInv, QueueOf
      <4> QED BY <4>1, <2>3, <2>4
    <3>2. ASSUME NEW j \in 1..Len(waiting')
          PROVE  pc'[waiting'[j]] = "waiting" /\ waiting'[j] \notin aborted'
      <4>1. waiting'[j] # c
            BY <2>2, <2>6 DEF GateInv, QueueOf
      <4> HIDE DEF at
      <4>2. /\ waiting[at(j)] \in Clients /\ pc[waiting[at(j)]] = "waiting"
            /\ waiting[at(j)] \notin aborted /\ waiting'[j] = waiting[at(j)]
            BY <2>3, <2>6 DEF GateInv, QueueOf
      <4> QED BY <4>1, <4>2, <2>5, <1>1
    <3>3. ASSUME NEW d \in Clients, pc'[d] = "waiting" PROVE \E j \in 1..Len(waiting') : waiting'[j] = d
      <4>1. PICK k \in 1..Len(waiting) : waiting[k] = d
            BY <3>3, <2>5 DEF GateInv, QueueOf
      <4>2. k # i
            BY <4>1, <2>2, <2>5, <3>3
      <4>3. CASE k < i
        <5>1. k \in 1..Len(waiting') /\ waiting'[k] = d
              BY <4>1, <4>3, <2>3, <2>4
        <5> QED BY <5>1
      <4>4. CASE k > i
        <5>1. k - 1 \in 1..Len(waiting') /\ at(k - 1) = k
              BY <4>4, <2>3, <2>4
        <5>2. waiting'[k - 1] = d
              BY <5>1, <4>1, <2>6
        <5> QED BY <5>1, <5>2
      <4> QED BY <4>2, <4>3, <4>4, <2>3
    <3> QED BY <2>4, <2>5, <3>1, <3>2, <3>3 DEF QueueOf
  <2>8. waiting # <<>>
    <3>1. waiting = <<>> => Len(waiting) = 0
          BY EmptySeq
    <3> QED BY <3>1
  <2>9. GateInv'
        BY <1>1, <2>5, <2>7, <2>8 DEF GateInv, LimitOK
  <2>10. Cardinality({c}) <= 1
        BY OneIsOne
  <2> QED BY <1>1, <2>5, <2>9, <2>10, StepSettles
<1>4. CASE pc[c] # "waiting"
  <2>1. UNCHANGED <<waiting, pc>>
        BY <1>4, Zenon DEF abort
  <2>2. aborted' \subseteq Clients /\ ceiling' \in 1..MaxCeiling /\ limit <= ceiling'
        BY <1>1 DEF GateInv, LimitOK
  <2> QED BY <1>1, <1>2, <1>4, <2>1, <2>2, StepStutters
<1> QED BY <1>3, <1>4

LEMMA renewStep == ASSUME GateInv, NEW c \in Clients, renew(c) PROVE Good
<1>1. aborted' = aborted \ {c} /\ UNCHANGED <<pc, active, waiting, limit, ceiling>>
      BY DEF renew
<1>2. /\ aborted' \subseteq Clients /\ ceiling' \in 1..MaxCeiling /\ limit <= ceiling'
      /\ pc' \in [Clients -> States]
      BY <1>1 DEF GateInv, LimitOK, QueueOf
<1> QED BY <1>1, <1>2, StepStutters

\* A client that goes on while nobody else moves.
LEMMA StepGoesOn ==
  ASSUME GateInv, NEW c \in Clients, pc[c] \in Holding, NEW e \in Holding,
         pc' = [pc EXCEPT ![c] = e], UNCHANGED <<aborted, active, waiting, limit, ceiling>>
  PROVE  Good
<1>1. pc' \in [Clients -> States] /\ HoldersOf(pc') = HoldersOf(pc) /\ Waits(pc') = Waits(pc)
      BY ClientGoesOn, Zenon
<1>2. aborted' \subseteq Clients /\ ceiling' \in 1..MaxCeiling /\ limit <= ceiling'
      BY DEF GateInv, LimitOK
<1> QED BY <1>1, <1>2, StepStutters

LEMMA runStep == ASSUME GateInv, NEW c \in Clients, run(c) PROVE Good
<1>1. pc[c] \in Holding /\ UNCHANGED <<aborted, active, waiting, limit, ceiling>>
      BY DEF run, Holding
<1>2. \E e \in Holding : pc' = [pc EXCEPT ![c] = e]
      BY DEF run, Holding
<1> QED BY <1>1, <1>2, StepGoesOn

LEMMA failStep == ASSUME GateInv, NEW c \in Clients, fail(c) PROVE Good
<1>1. pc[c] \in Holding /\ UNCHANGED <<aborted, active, waiting, limit, ceiling>>
      BY DEF fail, Holding
<1>2. \E e \in Holding : pc' = [pc EXCEPT ![c] = e]
      BY DEF fail, Holding
<1> QED BY <1>1, <1>2, StepGoesOn

LEMMA recordSuccessStep == ASSUME GateInv, NEW c \in Clients, recordSuccess(c) PROVE Good
<1> DEFINE p == [pc EXCEPT ![c] = "leaving"]
<1>1. pc[c] \in Holding /\ "leaving" \in Holding /\ UNCHANGED <<aborted, ceiling>>
      BY DEF recordSuccess, Holding
<1>2. \/ pc' = p /\ UNCHANGED <<active, waiting, limit>>
      \/ setLimit(limit + 1, ceiling, p)
      BY Zenon DEF recordSuccess
<1>3. CASE pc' = p /\ UNCHANGED <<active, waiting, limit>>
      BY <1>1, <1>3, StepGoesOn
<1>4. CASE setLimit(limit + 1, ceiling, p)
  <2>1. /\ HoldersOf(p) = HoldersOf(pc) /\ Waits(p) = Waits(pc) /\ QueueOf(waiting, p, aborted)
        /\ \A d \in Clients : p[d] = "idle" <=> pc[d] = "idle"
        BY <1>1, ClientGoesOn, Zenon
  <2>2. limit + 1 \in Nat /\ ceiling \in 1..MaxCeiling
        BY DEF GateInv, LimitOK
  <2> HIDE DEF p
  <2> QED BY <2>1, <2>2, <1>1, <1>4, StepSetsLimit
<1> QED BY <1>2, <1>3, <1>4, Zenon

LEMMA recordCongestionStep ==
  ASSUME GateInv, NEW c \in Clients, recordCongestion(c)
  PROVE  Good
<1>1. PICK end \in {"working", "leaving"} :
        \/ pc' = [pc EXCEPT ![c] = end] /\ UNCHANGED <<active, waiting, limit>>
        \/ setLimit((limit + 1) \div 2, ceiling, [pc EXCEPT ![c] = end])
      BY Zenon DEF recordCongestion
<1> DEFINE p == [pc EXCEPT ![c] = end]
<1>2. pc[c] \in Holding /\ end \in Holding /\ UNCHANGED <<aborted, ceiling>>
      BY DEF recordCongestion, Holding
<1>3. CASE pc' = p /\ UNCHANGED <<active, waiting, limit>>
      BY <1>2, <1>3, StepGoesOn
<1>4. CASE setLimit((limit + 1) \div 2, ceiling, p)
  <2>1. /\ HoldersOf(p) = HoldersOf(pc) /\ Waits(p) = Waits(pc) /\ QueueOf(waiting, p, aborted)
        /\ \A d \in Clients : p[d] = "idle" <=> pc[d] = "idle"
        BY <1>2, ClientGoesOn, Zenon
  <2>2. (limit + 1) \div 2 \in Nat /\ ceiling \in 1..MaxCeiling
        BY DEF GateInv, LimitOK
  <2> HIDE DEF p
  <2> QED BY <2>1, <2>2, <1>2, <1>4, StepSetsLimit
<1> QED BY <1>1, <1>3, <1>4, Zenon

LEMMA setCeilingStep == ASSUME GateInv, NEW top \in 1..MaxCeiling, setCeiling(top) PROVE Good
<1>1. ceiling' = top /\ UNCHANGED aborted /\ pc \in [Clients -> States]
      BY DEF setCeiling, GateInv, QueueOf
<1>2. \/ setLimit(Least(2, top), top, pc)
      \/ setLimit(top, top, pc)
      \/ ~(limit > top) /\ UNCHANGED <<pc, active, waiting, limit>>
      BY Zenon DEF setCeiling
<1>3. QueueOf(waiting, pc, aborted)
      BY DEF GateInv
<1>4. ASSUME NEW awaited \in Nat, setLimit(awaited, top, pc) PROVE Good
      BY <1>1, <1>3, <1>4, StepSetsLimit
<1>5. CASE ~(limit > top) /\ UNCHANGED <<pc, active, waiting, limit>>
  <2>1. aborted' \subseteq Clients /\ ceiling' \in 1..MaxCeiling /\ limit <= ceiling'
        BY <1>1, <1>5 DEF GateInv, LimitOK
  <2>2. pc' \in [Clients -> States] /\ HoldersOf(pc') = HoldersOf(pc) /\ Waits(pc') = Waits(pc)
        BY <1>1, <1>5
  <2>3. UNCHANGED <<waiting, active, limit>>
        BY <1>5
  <2> QED BY <2>1, <2>2, <2>3, <1>1, StepStutters
<1>6. Least(2, top) \in Nat /\ top \in Nat
      BY GateAssumption DEF Least
<1> QED BY <1>2, <1>4, <1>5, <1>6, Zenon

-----------------------------------------------------------------------------

LEMMA GateInit == Init => GateInv
<1> SUFFICES ASSUME Init PROVE GateInv
    OBVIOUS
<1>1. HoldersOf(pc) = {}
      BY DEF Init, HoldersOf, Holding
<1>2. active = Cardinality(HoldersOf(pc))
      BY <1>1, FS_EmptySet DEF Init
<1>3. waiting \in Seq(Clients) /\ Len(waiting) = 0
      BY EmptySeq DEF Init
<1>4. QueueOf(waiting, pc, aborted)
      BY <1>3 DEF Init, QueueOf, States
<1> QED BY <1>2, <1>4, GateAssumption DEF Init, GateInv, LimitOK

LEMMA GateStep == GateInv /\ [Next]_gateVars => Good
<1> SUFFICES ASSUME GateInv, [Next]_gateVars PROVE Good
    OBVIOUS
<1>1. CASE UNCHANGED gateVars
  <2>1. /\ UNCHANGED <<waiting, active, limit, ceiling, aborted, pc>>
        /\ pc' \in [Clients -> States] /\ aborted' \subseteq Clients
        /\ ceiling' \in 1..MaxCeiling /\ limit <= ceiling'
        BY <1>1 DEF gateVars, GateInv, QueueOf, LimitOK
  <2>2. HoldersOf(pc') = HoldersOf(pc) /\ Waits(pc') = Waits(pc)
        BY <2>1
  <2> QED BY <2>1, <2>2, StepStutters
<1>2. ASSUME NEW c \in Clients, Progress(c) PROVE Good
      BY <1>2, runStep, releaseStep, recordSuccessStep, failStep DEF Progress
<1>3. ASSUME NEW c \in Clients,
             acquire(c) \/ abort(c) \/ renew(c) \/ recordCongestion(c) \/ Progress(c)
      PROVE  Good
      BY <1>2, <1>3, acquireStep, abortStep, renewStep, recordCongestionStep
<1>4. ASSUME NEW top \in 1..MaxCeiling, setCeiling(top) PROVE Good
      BY <1>4, setCeilingStep
<1> QED BY <1>1, <1>3, <1>4 DEF Next

LEMMA GateAlwaysInv == Spec => []GateInv
<1>1. GateInv /\ [Next]_gateVars => GateInv'
      BY GateStep DEF Good
<1> QED BY <1>1, GateInit, PTL DEF Spec

\* No slot leaks and none is handed out twice, whatever the order of aborts, ends
\* and changes of the limit: ConcurrencyGate.active counts the clients between
\* acquire and release, and those that wait are the ones queued.
THEOREM SlotsAreAlwaysCounted == Spec => []SlotsAreCounted
<1>1. GateInv => SlotsAreCounted
  <2> SUFFICES ASSUME GateInv PROVE SlotsAreCounted
      OBVIOUS
  <2>1. ToSet(waiting) = Waits(pc)
        BY QueuedAre DEF GateInv
  <2>2. active = Cardinality(Holders) /\ 1 <= limit /\ limit <= ceiling
        BY DEF GateInv, LimitOK, Holders, HoldersOf
  <2> QED BY <2>1, <2>2, Zenon DEF SlotsAreCounted, Waits
<1> QED BY <1>1, GateAlwaysInv, PTL

\* The adaptive gate is a resizable semaphore: whoever enters does so below the
\* limit, nobody is put out, and no slot stays idle while somebody waits.
THEOREM GateImplementsSemaphore == Spec => ImplementsSemaphore
<1>1. Init => Gate!SemInit
  <2> SUFFICES ASSUME Init PROVE Gate!SemInit
      OBVIOUS
  <2>1. Holders = {}
        BY DEF Init, Holders, Holding
  <2>2. ToSet(waiting) = {} /\ limit \in Nat \ {0}
        BY DEF Init, ToSet
  <2> QED BY <2>1, <2>2 DEF Gate!SemInit
<1>2. GateInv /\ [Next]_gateVars => [Gate!SemNext]_Gate!semVars
  <2>1. Good => Gate!SemNext \/ UNCHANGED Gate!semVars
        BY Zenon DEF Good, Stutters, Gate!semVars
  <2> QED BY <2>1, GateStep, Zenon
<1> QED BY <1>1, <1>2, GateAlwaysInv, PTL DEF Spec, ImplementsSemaphore, Gate!SemSpec

-------------------------------------------------------------------------------
(* Lists: what is kept of one, taken from it and put behind it.               *)

\* A set of numbers that is not empty has a least element.
LEMMA LeastOne ==
    ASSUME NEW B, B \subseteq Nat, B # {}
    PROVE  \E n \in B : \A m \in Nat : m < n => m \notin B
  <1>1. IsWellFoundedOn(OpToRel(<, Nat), Nat)
    BY NatLessThanWellFounded, Zenon
  <1>2. PICK n \in B : \A m \in B : ~ (<<m, n>> \in OpToRel(<, Nat))
    BY <1>1, WFMin, Zenon
  <1> QED BY <1>2 DEF OpToRel

\* f[i] is what Kept takes of the first i elements, up to n.
Filters(f, s, S, n) ==
  f = [i \in 0..n |-> IF i = 0 THEN <<>>
                      ELSE IF s[i] \in S THEN Append(f[i - 1], s[i]) ELSE f[i - 1]]

\* The recursion of Kept has a solution.
LEMMA FiltersExist ==
    ASSUME NEW T, NEW s \in Seq(T), NEW S
    PROVE  \A n \in Nat : \E f : Filters(f, s, S, n)
  <1> DEFINE Bad == {n \in Nat : ~ \E f : Filters(f, s, S, n)}
  <1> SUFFICES ASSUME Bad # {} PROVE FALSE
    OBVIOUS
  <1>1. PICK n \in Bad : \A m \in Nat : m < n => m \notin Bad
    BY LeastOne
  <1>2. CASE n = 0
    <2> DEFINE g == [i \in 0..0 |-> <<>>]
    <2>1. Filters(g, s, S, 0)
      BY DEF Filters
    <2> QED BY <1>1, <1>2, <2>1
  <1>3. CASE n # 0
    <2>1. n - 1 \in Nat /\ n - 1 < n /\ n \in Nat
      BY <1>1, <1>3
    <2>2. PICK f : Filters(f, s, S, n - 1)
      BY <1>1, <2>1
    <2> DEFINE g == [i \in 0..n |-> IF i = 0 THEN <<>>
                      ELSE IF s[i] \in S THEN Append(f[i - 1], s[i]) ELSE f[i - 1]]
    <2>3. \A i \in 0..(n - 1) : g[i] = f[i]
      <3>1. \A i \in 0..(n - 1) : f[i] = IF i = 0 THEN <<>>
                      ELSE IF s[i] \in S THEN Append(f[i - 1], s[i]) ELSE f[i - 1]
        BY <2>1, <2>2, Zenon DEF Filters
      <3>2. \A i \in 0..(n - 1) : i \in 0..n
        BY <2>1
      <3>3. \A i \in 0..n : g[i] = IF i = 0 THEN <<>>
                      ELSE IF s[i] \in S THEN Append(f[i - 1], s[i]) ELSE f[i - 1]
        BY Zenon
      <3> QED BY <3>1, <3>2, <3>3, Zenon
    <2>4. \A i \in 0..n : i # 0 => i - 1 \in 0..(n - 1)
      BY <2>1
    <2>5. Filters(g, s, S, n)
      BY <2>3, <2>4 DEF Filters
    <2> QED BY <1>1, <2>5
  <1> QED BY <1>2, <1>3

\* Kept is the last value of such a function.
LEMMA KeptFilters ==
    ASSUME NEW T, NEW s \in Seq(T), NEW S
    PROVE  \E f : Filters(f, s, S, Len(s)) /\ Kept(s, S) = f[Len(s)]
  <1>1. Len(s) \in Nat
    BY LenProperties
  <1>2. PICK g : Filters(g, s, S, Len(s))
    BY <1>1, FiltersExist
  <1> DEFINE f == CHOOSE f : Filters(f, s, S, Len(s))
  <1>3. Filters(f, s, S, Len(s))
    BY <1>2
  <1>4. Kept(s, S) = f[Len(s)]
    BY DEF Kept, Filters
  <1> QED BY <1>3, <1>4

\* What Kept has taken of the first i elements of s: those of S, in their order.
Taken(q, T, s, S, i) ==
  /\ q \in Seq(T)
  /\ \A a \in 1..Len(q) : \E p \in 1..i : q[a] = s[p] /\ s[p] \in S
  /\ \A p \in 1..i : s[p] \in S => \E a \in 1..Len(q) : q[a] = s[p]
  /\ \A a, b \in 1..Len(q) : a < b => \E p, r \in 1..i : p < r /\ q[a] = s[p] /\ q[b] = s[r]

\* One element more.
LEMMA TakenGrows ==
    ASSUME NEW T, NEW s \in Seq(T), NEW S, NEW i \in 1..Len(s), NEW q, Taken(q, T, s, S, i - 1)
    PROVE  /\ s[i] \in S => Taken(Append(q, s[i]), T, s, S, i)
           /\ s[i] \notin S => Taken(q, T, s, S, i)
  <1>1. i \in Nat /\ i >= 1 /\ s[i] \in T /\ Len(s) \in Nat
    BY LenProperties, ElementOfSeq
  <1>2. q \in Seq(T) /\ Len(q) \in Nat
    BY LenProperties DEF Taken
  <1>3. \A p \in 1..i : p \in 1..(i - 1) \/ p = i
    BY <1>1
  <1>4. \A p \in 1..(i - 1) : p \in 1..i
    BY <1>1
  <1>5. ASSUME s[i] \notin S PROVE Taken(q, T, s, S, i)
    <2>1. \A a \in 1..Len(q) : \E p \in 1..i : q[a] = s[p] /\ s[p] \in S
      BY <1>4, Zenon DEF Taken
    <2>2. \A p \in 1..i : s[p] \in S => \E a \in 1..Len(q) : q[a] = s[p]
      BY <1>3, <1>5, Zenon DEF Taken
    <2>3. \A a, b \in 1..Len(q) : a < b => \E p, r \in 1..i : p < r /\ q[a] = s[p] /\ q[b] = s[r]
      <3> TAKE a, b \in 1..Len(q)
      <3> HAVE a < b
      <3>1. PICK p, r \in 1..(i - 1) : p < r /\ q[a] = s[p] /\ q[b] = s[r]
        BY Zenon DEF Taken
      <3> QED BY <1>4, <3>1, Zenon
    <2> QED BY <1>2, <2>1, <2>2, <2>3, Zenon DEF Taken
  <1>6. ASSUME s[i] \in S PROVE Taken(Append(q, s[i]), T, s, S, i)
    <2>1. PICK r : r = Append(q, s[i])
      OBVIOUS
    <2>2. /\ r \in Seq(T) /\ Len(r) = Len(q) + 1 /\ r[Len(r)] = s[i]
          /\ \A a \in 1..Len(q) : r[a] = q[a]
      BY <1>1, <1>2, <2>1, AppendProperties
    <2>3. \A a \in 1..Len(r) : a \in 1..Len(q) \/ a = Len(r)
      BY <1>2, <2>2
    <2>4. \A a \in 1..Len(q) : a \in 1..Len(r)
      BY <1>2, <2>2
    <2>5. \A a \in 1..Len(r) : \E p \in 1..i : r[a] = s[p] /\ s[p] \in S
      <3> TAKE a \in 1..Len(r)
      <3>1. CASE a \in 1..Len(q)
        <4>1. PICK p \in 1..(i - 1) : q[a] = s[p] /\ s[p] \in S
          BY <3>1, Zenon DEF Taken
        <4> QED BY <1>4, <2>2, <3>1, <4>1, Zenon
      <3>2. CASE a = Len(r)
        <4>1. i \in 1..i
          BY <1>1
        <4> QED BY <1>6, <2>2, <3>2, <4>1, Zenon
      <3> QED BY <2>3, <3>1, <3>2, Zenon
    <2>6. \A p \in 1..i : s[p] \in S => \E a \in 1..Len(r) : r[a] = s[p]
      <3>1. Len(r) \in 1..Len(r)
        BY <1>2, <2>2
      <3> TAKE p \in 1..i
      <3> HAVE s[p] \in S
      <3>2. CASE p \in 1..(i - 1)
        <4>1. PICK a \in 1..Len(q) : q[a] = s[p]
          BY <3>2, Zenon DEF Taken
        <4> QED BY <2>2, <2>4, <4>1, Zenon
      <3>3. CASE p = i
        BY <2>2, <3>1, <3>3, Zenon
      <3> QED BY <1>3, <3>2, <3>3, Zenon
    <2>7. ASSUME NEW a \in 1..Len(r), NEW b \in 1..Len(r), a < b
          PROVE  \E p, t \in 1..i : p < t /\ r[a] = s[p] /\ r[b] = s[t]
      <3>1. a \in 1..Len(q)
        BY <1>2, <2>2, <2>7
      <3>2. CASE b \in 1..Len(q)
        <4>1. PICK p, t \in 1..(i - 1) : p < t /\ q[a] = s[p] /\ q[b] = s[t]
          BY <2>7, <3>1, <3>2, Zenon DEF Taken
        <4> QED BY <1>4, <2>2, <3>1, <3>2, <4>1, Zenon
      <3>3. CASE b = Len(r)
        <4>1. PICK p \in 1..(i - 1) : q[a] = s[p]
          BY <3>1 DEF Taken
        <4>2. p \in 1..i /\ p < i /\ i \in 1..i
          BY <1>1, <4>1
        <4> QED BY <2>2, <3>1, <3>3, <4>1, <4>2
      <3> QED BY <2>3, <3>2, <3>3
    <2>8. Taken(r, T, s, S, i)
      BY <2>2, <2>5, <2>6, <2>7 DEF Taken
    <2> QED BY <2>1, <2>8
  <1> QED BY <1>5, <1>6

\* Kept returns the elements of s that are in S, in their order.
LEMMA KeptTakes ==
    ASSUME NEW T, NEW s \in Seq(T), NEW S
    PROVE  Taken(Kept(s, S), T, s, S, Len(s))
  <1>1. Len(s) \in Nat
    BY LenProperties
  <1>2. PICK f : Filters(f, s, S, Len(s)) /\ Kept(s, S) = f[Len(s)]
    BY KeptFilters
  <1> DEFINE Bad == {i \in 0..Len(s) : ~Taken(f[i], T, s, S, i)}
  <1>3. ASSUME Bad # {} PROVE FALSE
    <2> HIDE DEF Bad
    <2>a. Bad \subseteq Nat
      BY <1>1 DEF Bad
    <2>1. PICK i \in Bad : \A j \in Nat : j < i => j \notin Bad
      BY <1>3, <2>a, LeastOne, Zenon
    <2> USE DEF Bad
    <2>2. CASE i = 0
      <3>1. f[0] = <<>>
        BY <1>1, <1>2 DEF Filters
      <3>2. Taken(<<>>, T, s, S, 0)
        BY EmptySeq DEF Taken
      <3> QED BY <2>1, <2>2, <3>1, <3>2
    <2>3. CASE i # 0
      <3>1. i \in 1..Len(s) /\ i - 1 \in 0..Len(s) /\ i - 1 \in Nat /\ i - 1 < i
        BY <1>1, <2>1, <2>3
      <3>2. Taken(f[i - 1], T, s, S, i - 1)
        BY <2>1, <3>1
      <3>3. f[i] = IF s[i] \in S THEN Append(f[i - 1], s[i]) ELSE f[i - 1]
        BY <1>2, <2>3, <3>1 DEF Filters
      <3>4. Taken(f[i], T, s, S, i)
        BY <3>1, <3>2, <3>3, TakenGrows
      <3> QED BY <2>1, <3>4
    <2> QED BY <2>2, <2>3
  <1>4. Taken(f[Len(s)], T, s, S, Len(s))
    BY <1>1, <1>3
  <1> QED BY <1>2, <1>4

\* s lists the elements of X, once each.
Lists(s, X) ==
  /\ s \in Seq(X)
  /\ \A a, b \in 1..Len(s) : a < b => s[a] # s[b]
  /\ \A x \in X : \E a \in 1..Len(s) : s[a] = x

\* A list is as long as its set has elements.
LEMMA ListsCount ==
    ASSUME NEW X, NEW s, Lists(s, X)
    PROVE  /\ Len(s) \in Nat /\ IsFiniteSet(X) /\ Len(s) = Cardinality(X)
           /\ \A a \in 1..Len(s) : s[a] \in X
           /\ DOMAIN s = 1..Len(s) /\ ToSet(s) = X
  <1>1. s \in Seq(X)
    BY DEF Lists
  <1>2. Len(s) \in Nat /\ s \in [1..Len(s) -> X] /\ DOMAIN s = 1..Len(s)
    BY <1>1, LenProperties
  <1>3. \A a, b \in 1..Len(s) : s[a] = s[b] => a = b
    <2> TAKE a, b \in 1..Len(s)
    <2>1. a < b \/ b < a \/ a = b
      BY <1>2
    <2> QED BY <2>1 DEF Lists
  <1>4. s \in Bijection(1..Len(s), X)
    <2>1. s \in Injection(1..Len(s), X)
      BY <1>2, <1>3 DEF Injection, IsInjective
    <2>2. s \in Surjection(1..Len(s), X)
      BY <1>2 DEF Surjection, Lists
    <2> QED BY <2>1, <2>2 DEF Bijection
  <1>5. ExistsBijection(1..Len(s), X)
    BY <1>4 DEF ExistsBijection
  <1>6. Cardinality(X) = Len(s) /\ IsFiniteSet(X)
    BY <1>2, <1>5, FS_CountingElements, FS_NatBijection
  <1>7. ToSet(s) = X
    BY <1>2 DEF ToSet, Lists
  <1> QED BY <1>2, <1>6, <1>7

\* The empty list.
LEMMA ListsNothing == Lists(<<>>, {})
  BY EmptySeq DEF Lists

\* Part of a list.
LEMMA ListsKept ==
    ASSUME NEW X, NEW s, Lists(s, X), NEW S
    PROVE  Lists(Kept(s, S), X \cap S)
  <1>1. s \in Seq(X) /\ Len(s) \in Nat
    BY LenProperties DEF Lists
  <1>2. PICK q : q = Kept(s, S)
    OBVIOUS
  <1>3. Taken(q, X, s, S, Len(s))
    BY <1>1, <1>2, KeptTakes
  <1>4. q \in Seq(X) /\ Len(q) \in Nat /\ q \in [1..Len(q) -> X]
    BY <1>3, LenProperties DEF Taken
  <1>5. \A a \in 1..Len(q) : q[a] \in X \cap S
    BY <1>3, <1>4, Zenon DEF Taken
  <1>6. q \in Seq(X \cap S)
    BY <1>4, <1>5, SeqDef
  <1>7. \A a, b \in 1..Len(q) : a < b => q[a] # q[b]
    <2> TAKE a, b \in 1..Len(q)
    <2> HAVE a < b
    <2>1. PICK p, r \in 1..Len(s) : p < r /\ q[a] = s[p] /\ q[b] = s[r]
      BY <1>3, Zenon DEF Taken
    <2> QED BY <2>1, Zenon DEF Lists
  <1>8. \A x \in X \cap S : \E a \in 1..Len(q) : q[a] = x
    <2> TAKE x \in X \cap S
    <2>1. PICK p \in 1..Len(s) : s[p] = x
      BY DEF Lists
    <2> QED BY <1>3, <2>1, Zenon DEF Taken
  <1>9. Lists(q, X \cap S)
    BY <1>6, <1>7, <1>8, Zenon DEF Lists
  <1> QED BY <1>2, <1>9

\* One element more.
LEMMA ListsAppend ==
    ASSUME NEW X, NEW s, Lists(s, X), NEW x, x \notin X
    PROVE  Lists(Append(s, x), X \cup {x})
  <1>1. PICK q : q = Append(s, x)
    OBVIOUS
  <1>2. s \in Seq(X \cup {x}) /\ Len(s) \in Nat /\ s \in [1..Len(s) -> X]
    <2>1. s \in Seq(X)
      BY DEF Lists
    <2> QED BY <2>1, LenProperties, SeqMonotonic
  <1>3. /\ q \in Seq(X \cup {x}) /\ Len(q) = Len(s) + 1 /\ q[Len(q)] = x
        /\ \A a \in 1..Len(s) : q[a] = s[a]
    BY <1>1, <1>2, AppendProperties
  <1>4. \A a \in 1..Len(q) : a \in 1..Len(s) \/ a = Len(q)
    BY <1>2, <1>3
  <1>5. \A a \in 1..Len(s) : a \in 1..Len(q) /\ q[a] \in X
    BY <1>2, <1>3
  <1>6. Len(q) \in 1..Len(q) /\ Len(q) \notin 1..Len(s)
    BY <1>2, <1>3
  <1>7. \A a, b \in 1..Len(q) : a < b => q[a] # q[b]
    <2> TAKE a, b \in 1..Len(q)
    <2> HAVE a < b
    <2>1. a \in 1..Len(s)
      BY <1>2, <1>3
    <2>2. CASE b \in 1..Len(s)
      BY <1>3, <2>1, <2>2 DEF Lists
    <2>3. CASE b = Len(q)
      BY <1>3, <1>5, <2>1, <2>3
    <2> QED BY <1>4, <2>2, <2>3
  <1>8. \A y \in X \cup {x} : \E a \in 1..Len(q) : q[a] = y
    <2> TAKE y \in X \cup {x}
    <2>1. CASE y = x
      BY <1>3, <1>6, <2>1
    <2>2. CASE y \in X
      <3>1. PICK a \in 1..Len(s) : s[a] = y
        BY <2>2 DEF Lists
      <3> QED BY <1>3, <1>5, <3>1
    <2> QED BY <2>1, <2>2
  <1>9. Lists(q, X \cup {x})
    BY <1>3, <1>7, <1>8, Zenon DEF Lists
  <1> QED BY <1>1, <1>9

\* One list after another.
LEMMA ListsConcat ==
    ASSUME NEW X, NEW Y, NEW s, NEW r, Lists(s, X), Lists(r, Y), X \cap Y = {}
    PROVE  Lists(s \o r, X \cup Y)
  <1>1. PICK q : q = s \o r
    OBVIOUS
  <1>2. /\ Len(s) \in Nat /\ Len(r) \in Nat /\ s \in Seq(X \cup Y) /\ r \in Seq(X \cup Y)
        /\ s \in [1..Len(s) -> X] /\ r \in [1..Len(r) -> Y]
    <2>1. s \in Seq(X) /\ r \in Seq(Y)
      BY DEF Lists
    <2> QED BY <2>1, LenProperties, SeqMonotonic
  <1>3. /\ q \in Seq(X \cup Y) /\ Len(q) = Len(s) + Len(r)
        /\ \A i \in 1..Len(q) : q[i] = IF i <= Len(s) THEN s[i] ELSE r[i - Len(s)]
    BY <1>1, <1>2, ConcatProperties
  <1>4. \A i \in 1..Len(q) : \/ i \in 1..Len(s) /\ q[i] = s[i] /\ q[i] \in X
                             \/ /\ i > Len(s) /\ i - Len(s) \in 1..Len(r)
                                /\ q[i] = r[i - Len(s)] /\ q[i] \in Y
    <2> TAKE i \in 1..Len(q)
    <2>1. CASE i <= Len(s)
      <3>1. i \in 1..Len(s) /\ q[i] = s[i]
        BY <1>2, <1>3, <2>1
      <3> QED BY <1>2, <3>1
    <2>2. CASE ~(i <= Len(s))
      <3>1. PICK k : k = i - Len(s)
        OBVIOUS
      <3>2. k \in 1..Len(r) /\ q[i] = r[k] /\ i > Len(s)
        BY <1>2, <1>3, <2>2, <3>1
      <3>3. r[k] \in Y
        BY <1>2, <3>2
      <3> QED BY <3>1, <3>2, <3>3
    <2> QED BY <2>1, <2>2
  <1>5. \A a, b \in 1..Len(q) : a < b => q[a] # q[b]
    <2> TAKE a, b \in 1..Len(q)
    <2> HAVE a < b
    <2>1. CASE b \in 1..Len(s)
      <3>1. a \in 1..Len(s) /\ s[a] # s[b]
        BY <1>2, <2>1 DEF Lists
      <3> QED BY <1>3, <1>2, <2>1, <3>1
    <2>2. CASE a \in 1..Len(s) /\ b \notin 1..Len(s)
      <3>1. q[a] \in X /\ q[b] \in Y
        BY <1>2, <1>3, <1>4, <2>2
      <3> QED BY <3>1
    <2>3. CASE a \notin 1..Len(s)
      <3>1. b \notin 1..Len(s)
        BY <1>2, <1>3, <2>3
      <3>2. /\ a - Len(s) \in 1..Len(r) /\ q[a] = r[a - Len(s)]
            /\ b - Len(s) \in 1..Len(r) /\ q[b] = r[b - Len(s)]
            /\ a - Len(s) < b - Len(s)
        BY <1>2, <1>3, <1>4, <2>3, <3>1
      <3>3. PICK c, d \in 1..Len(r) : c < d /\ q[a] = r[c] /\ q[b] = r[d]
        BY <3>2
      <3>4. r[c] # r[d]
        BY <3>3, Zenon DEF Lists
      <3> QED BY <3>3, <3>4, Zenon
    <2> QED BY <2>1, <2>2, <2>3
  <1>6. \A y \in X \cup Y : \E a \in 1..Len(q) : q[a] = y
    <2> TAKE y \in X \cup Y
    <2>1. CASE y \in X
      <3>1. PICK a \in 1..Len(s) : s[a] = y
        BY <2>1 DEF Lists
      <3>2. a \in 1..Len(q) /\ q[a] = s[a]
        BY <1>2, <1>3, <3>1
      <3> QED BY <3>1, <3>2
    <2>2. CASE y \in Y
      <3>1. PICK a \in 1..Len(r) : r[a] = y
        BY <2>2 DEF Lists
      <3>2. PICK b : b = a + Len(s)
        OBVIOUS
      <3>3. b \in 1..Len(q) /\ ~(b <= Len(s)) /\ b - Len(s) = a
        BY <1>2, <1>3, <3>2
      <3> QED BY <1>3, <3>1, <3>3
    <2> QED BY <2>1, <2>2
  <1>7. Lists(q, X \cup Y)
    BY <1>3, <1>5, <1>6, Zenon DEF Lists
  <1> QED BY <1>1, <1>7


\* A sequence is one of its elements.
LEMMA SeqNarrows ==
    ASSUME NEW X, NEW Y, NEW s \in Seq(X), \A i \in 1..Len(s) : s[i] \in Y
    PROVE  s \in Seq(Y)
  <1>1. Len(s) \in Nat /\ s = [i \in 1..Len(s) |-> s[i]]
    BY LenProperties
  <1> QED BY <1>1, SeqDef

Firsts(s, k) == {s[i] : i \in 1..k}
Behind(s, k) == SubSeq(s, k + 1, Len(s))

\* The first k of a list are k of its elements, and the others are the rest.
LEMMA ListsFirst ==
    ASSUME NEW X, NEW s, Lists(s, X), NEW k \in 0..Len(s)
    PROVE  /\ Firsts(s, k) \subseteq X /\ IsFiniteSet(Firsts(s, k)) /\ Cardinality(Firsts(s, k)) = k
           /\ Lists(Behind(s, k), X \ Firsts(s, k)) /\ Len(Behind(s, k)) = Len(s) - k
  <1> DEFINE T == {s[i] : i \in 1..k}
             r == SubSeq(s, k + 1, Len(s))
             f == [i \in 1..k |-> s[i]]
  <1>1. /\ Len(s) \in Nat /\ \A a \in 1..Len(s) : s[a] \in X
        /\ IsFiniteSet(1..k) /\ Cardinality(1..k) = k
    <2>1. Len(s) \in Nat /\ \A a \in 1..Len(s) : s[a] \in X
      BY ListsCount
    <2>2. k \in Nat
      BY <2>1
    <2>3. IsFiniteSet(1..k) /\ Cardinality(1..k) = k
      BY <2>2, FS_Interval
    <2> QED BY <2>1, <2>3
  <1>2. \A a, b \in 1..Len(s) : s[a] = s[b] => a = b
    BY <1>1 DEF Lists
  <1>3. f \in Bijection(1..k, T)
    BY <1>1, <1>2 DEF Bijection, Injection, Surjection, IsInjective
  <1>4. ExistsBijection(1..k, T)
    BY <1>3 DEF ExistsBijection
  <1>5. IsFiniteSet(T) /\ Cardinality(T) = k
    BY <1>1, <1>4, FS_Bijection
  <1>6. T \subseteq X
    BY <1>1
  <1>7. /\ r \in Seq(X) /\ Len(r) = Len(s) - k
        /\ \A i \in 1..(Len(s) - k) : r[i] = s[k + i]
    <2>1. s \in Seq(X) /\ \A i \in (k + 1)..Len(s) : s[i] \in X
      BY <1>1 DEF Lists
    <2>2. /\ r \in Seq(X)
          /\ Len(r) = IF k + 1 <= Len(s) THEN Len(s) - (k + 1) + 1 ELSE 0
          /\ \A i \in 1..Len(s) - (k + 1) + 1 : r[i] = s[(k + 1) + i - 1]
      BY <2>1, <1>1, SubSeqProperties
    <2> QED BY <2>2, <1>1
  <1> HIDE DEF r
  <1>8. ASSUME NEW i \in 1..Len(r)
        PROVE  k + i \in 1..Len(s) /\ r[i] = s[k + i] /\ s[k + i] \in X \ T
    <2>1. k + i \in 1..Len(s) /\ i \in 1..(Len(s) - k) /\ ~(k + i <= k)
      BY <1>1, <1>7
    <2>2. r[i] = s[k + i] /\ s[k + i] \in X
      BY <2>1, <1>1, <1>7
    <2>3. ASSUME NEW j \in 1..k PROVE s[j] # s[k + i]
      <3>1. j \in 1..Len(s) /\ j # k + i
        BY <1>1, <2>1
      <3> QED BY <3>1, <2>1, <1>2, Zenon
    <2>4. s[k + i] \notin T
      BY <2>3, Zenon
    <2> QED BY <2>1, <2>2, <2>4, Zenon
  <1>9. r \in Seq(X \ T)
    <2>1. r \in Seq(X) /\ \A i \in 1..Len(r) : r[i] \in X \ T
      BY <1>7, <1>8
    <2> QED BY <2>1, SeqNarrows
  <1>10. ASSUME NEW a \in 1..Len(r), NEW b \in 1..Len(r), a < b PROVE r[a] # r[b]
    <2>1. k + a # k + b
      BY <1>1, <1>7, <1>10
    <2>2. s[k + a] # s[k + b]
      BY <2>1, <1>2, <1>8, Zenon
    <2> QED BY <2>2, <1>8, Zenon
  <1>11. ASSUME NEW x \in X \ T PROVE \E a \in 1..Len(r) : r[a] = x
    <2>1. PICK p \in 1..Len(s) : s[p] = x
      BY DEF Lists
    <2>2. ~(p <= k)
      BY <1>11, <2>1, <1>1
    <2>3. p - k \in 1..Len(r) /\ k + (p - k) = p
      BY <2>2, <1>1, <1>7
    <2>4. r[p - k] = s[p]
      BY <2>3, <1>8
    <2> QED BY <2>1, <2>3, <2>4
  <1>12. Lists(r, X \ T)
    BY <1>9, <1>10, <1>11 DEF Lists
  <1> QED BY <1>5, <1>6, <1>7, <1>12, Zenon DEF r, Firsts, Behind

\* A list without its i-th element.
LEMMA ListsRemoved ==
    ASSUME NEW X, NEW s, Lists(s, X), NEW i \in 1..Len(s)
    PROVE  Lists(RemoveAt(s, i), X \ {s[i]})
  <1> DEFINE a == SubSeq(s, 1, i - 1)
             b == SubSeq(s, i + 1, Len(s))
             r == RemoveAt(s, i)
             at(j) == IF j < i THEN j ELSE j + 1
  <1>1. s \in Seq(X) /\ Len(s) \in Nat /\ \A j \in 1..Len(s) : s[j] \in X
    BY ListsCount DEF Lists
  <1>2. /\ a \in Seq(X) /\ Len(a) = i - 1
        /\ \A j \in 1..(i - 1) : a[j] = s[j]
    <2>1. \A j \in 1..(i - 1) : s[j] \in X
      BY <1>1
    <2>2. /\ a \in Seq(X) /\ Len(a) = IF 1 <= i - 1 THEN (i - 1) - 1 + 1 ELSE 0
          /\ \A j \in 1..(i - 1) - 1 + 1 : a[j] = s[1 + j - 1]
      BY <2>1, <1>1, SubSeqProperties
    <2> QED BY <2>2
  <1>3. /\ b \in Seq(X) /\ Len(b) = Len(s) - i
        /\ \A j \in 1..(Len(s) - i) : b[j] = s[i + j]
    <2>1. \A j \in (i + 1)..Len(s) : s[j] \in X
      BY <1>1
    <2>2. /\ b \in Seq(X) /\ Len(b) = IF i + 1 <= Len(s) THEN Len(s) - (i + 1) + 1 ELSE 0
          /\ \A j \in 1..Len(s) - (i + 1) + 1 : b[j] = s[(i + 1) + j - 1]
      BY <2>1, <1>1, SubSeqProperties
    <2> QED BY <2>2, <1>1
  <1>4. r = a \o b
    BY Zenon DEF RemoveAt
  <1> HIDE DEF a, b, r
  <1>5. /\ r \in Seq(X) /\ Len(r) = Len(a) + Len(b)
        /\ \A j \in 1..Len(a) + Len(b) : r[j] = IF j <= Len(a) THEN a[j] ELSE b[j - Len(a)]
    BY <1>2, <1>3, <1>4, ConcatProperties
  <1>6. Len(r) = Len(s) - 1
    BY <1>1, <1>2, <1>3, <1>5
  <1>7. ASSUME NEW j \in 1..Len(r) PROVE at(j) \in 1..Len(s) /\ at(j) # i /\ r[j] = s[at(j)]
    <2>1. CASE j < i
      BY <2>1, <1>1, <1>2, <1>3, <1>5, <1>6
    <2>2. CASE ~(j < i)
      <3>0. j \in 1..Len(a) + Len(b) /\ Len(a) = i - 1 /\ ~(j <= Len(a))
        BY <2>2, <1>1, <1>2, <1>5
      <3>1. r[j] = b[j - (i - 1)]
        BY <3>0, <1>5, Zenon
      <3>2. j - (i - 1) \in 1..(Len(s) - i)
        BY <2>2, <1>1, <1>6
      <3>3. b[j - (i - 1)] = s[i + (j - (i - 1))]
        BY <3>2, <1>3
      <3>4. i + (j - (i - 1)) = j + 1 /\ j + 1 \in 1..Len(s)
        BY <2>2, <1>1, <1>6
      <3> QED BY <3>1, <3>3, <3>4, <2>2
    <2> QED BY <2>1, <2>2
  <1>8. \A p, q \in 1..Len(s) : s[p] = s[q] => p = q
    BY <1>1 DEF Lists
  <1>9. \A j \in 1..Len(r) : r[j] \in X \ {s[i]}
    BY <1>1, <1>7, <1>8
  <1>10. r \in Seq(X \ {s[i]})
    BY <1>5, <1>9, SeqNarrows
  <1>11. \A p, q \in 1..Len(r) : p < q => r[p] # r[q]
    <2>1. ASSUME NEW p \in 1..Len(r), NEW q \in 1..Len(r), p < q PROVE at(p) # at(q)
      BY <2>1, <1>1, <1>6
    <2>2. \A p \in 1..Len(r) : at(p) \in 1..Len(s) /\ r[p] = s[at(p)]
      BY <1>7
    <2> HIDE DEF at
    <2> QED BY <2>1, <2>2, <1>8
  <1>12. ASSUME NEW x \in X \ {s[i]} PROVE \E j \in 1..Len(r) : r[j] = x
    <2>1. PICK p \in 1..Len(s) : s[p] = x
      BY DEF Lists
    <2>2. p # i
      BY <2>1, <1>12
    <2> DEFINE j == IF p < i THEN p ELSE p - 1
    <2>3. j \in 1..Len(r) /\ at(j) = p
      BY <2>2, <1>1, <1>6
    <2>4. r[j] = s[at(j)]
      BY <2>3, <1>7
    <2> QED BY <2>1, <2>3, <2>4
  <1>13. Lists(r, X \ {s[i]})
    BY <1>10, <1>11, <1>12, Zenon DEF Lists
  <1> QED BY <1>13 DEF r

-------------------------------------------------------------------------------
(* ThumbnailLoads.                                                            *)

\* The calls that wait for a slot and those that have one.
Awaiting(cs) == {k \in Calls : cs[k].pc = "waiting"}
Fetching(cs) == {k \in Calls : cs[k].pc \in {"admitted", "loading"}}

LoadStages == {"none", "waiting", "admitted", "loading", "delayed", "loaded", "failed"}
ThumbCalls == [pc : LoadStages, visual : Visuals \cup {"none"}, source : Sources \cup {"none"},
               attempt : Nat, aborted : BOOLEAN]

\* The queue q lists the calls that wait, and n counts those that have a slot.
SlotsOf(q, n, cs) ==
  /\ Lists(q, Awaiting(cs))
  /\ IsFiniteSet(Fetching(cs)) /\ n = Cardinality(Fetching(cs))

\* A call that is not aborted brings what its visual shows next.
CallBrings(k, src, img, lat, cs) ==
  /\ cs[k].pc # "none" /\ ~cs[k].aborted =>
       /\ cs[k].visual \in Visuals /\ cs[k].source \in Sources
       /\ lat[cs[k].visual] = k /\ src[cs[k].visual] = cs[k].source
       /\ img[cs[k].visual] = "loading"
  /\ cs[k].aborted => cs[k].pc \in {"admitted", "loaded", "failed"}

\* A visual that loads has a call, and what it shows is its file.
VisualIs(v, src, img, lat, cs) ==
  /\ lat[v] # 0 => cs[lat[v]].pc # "none" /\ ~cs[lat[v]].aborted /\ cs[lat[v]].visual = v
  /\ lat[v] = 0 /\ src[v] # "none" => img[v] \in {"failed", src[v]}
  /\ src[v] = "none" => img[v] = "loading"

VisualsOf(src, img, lat, cs) ==
  /\ src \in [Visuals -> Sources \cup {"none"}]
  /\ img \in [Visuals -> Sources \cup {"loading", "failed"}]
  /\ lat \in [Visuals -> Calls \cup {0}]
  /\ cs \in [Calls -> ThumbCalls]
  /\ \A k \in Calls : CallBrings(k, src, img, lat, cs)
  /\ \A v \in Visuals : VisualIs(v, src, img, lat, cs)

ThumbInv ==
  /\ SlotsOf(pending, loading, call)
  /\ VisualsOf(source, image, latest, call)

\* A call as a drain leaves it: as it was, or with its slot.
Follows(c, d) ==
  /\ d.visual = c.visual /\ d.source = c.source /\ d.attempt = c.attempt /\ d.aborted = c.aborted
  /\ d.pc = c.pc \/ (c.pc = "waiting" /\ d.pc = "admitted")

-----------------------------------------------------------------------------
(* What a drain does *)

\* A record of a call with another stage.
LEMMA StageSet ==
  ASSUME NEW c \in ThumbCalls, NEW stage \in LoadStages, NEW d, d = [c EXCEPT !.pc = stage]
  PROVE  /\ d \in ThumbCalls /\ d.pc = stage /\ d.visual = c.visual /\ d.source = c.source
         /\ d.attempt = c.attempt /\ d.aborted = c.aborted
  BY DEF ThumbCalls

\* A drain admits the first of the queue while slots are free, and counts them.
LEMMA QueueDrains ==
  ASSUME NEW cs \in [Calls -> ThumbCalls], NEW q, NEW n, SlotsOf(q, n, cs), drainQueue(n, q, cs)
  PROVE  /\ SlotsOf(pending', loading', call')
         /\ call' \in [Calls -> ThumbCalls]
         /\ \A c \in Calls : Follows(cs[c], call'[c])
<1> DEFINE free == IF n < QueueLimit THEN QueueLimit - n ELSE 0
           k == IF Len(q) < free THEN Len(q) ELSE free
           T == {q[i] : i \in 1..k}
<1>1. Lists(q, Awaiting(cs)) /\ IsFiniteSet(Fetching(cs)) /\ n = Cardinality(Fetching(cs))
      BY DEF SlotsOf
<1>2. Len(q) \in Nat /\ n \in Nat
      BY <1>1, ListsCount, FS_CardinalityType
<1>3. k \in 0..Len(q)
      BY <1>2, ThumbnailAssumption
<1>4. /\ loading' = n + k
      /\ pending' = SubSeq(q, k + 1, Len(q))
      /\ call' = [c \in Calls |-> IF c \in T THEN [cs[c] EXCEPT !.pc = "admitted"] ELSE cs[c]]
      BY Zenon DEF drainQueue
<1> HIDE DEF k
<1>t. T = Firsts(q, k) /\ pending' = Behind(q, k)
      BY <1>4 DEF Firsts, Behind
<1> HIDE DEF T
<1>5. /\ T \subseteq Awaiting(cs) /\ IsFiniteSet(T) /\ Cardinality(T) = k
      /\ Lists(pending', Awaiting(cs) \ T)
  <2>1. /\ Firsts(q, k) \subseteq Awaiting(cs) /\ IsFiniteSet(Firsts(q, k)) /\ Cardinality(Firsts(q, k)) = k
        /\ Lists(Behind(q, k), Awaiting(cs) \ Firsts(q, k))
        BY <1>1, <1>3, ListsFirst
  <2> QED BY <2>1, <1>t, Zenon
<1>6. \A c \in T : c \in Calls /\ cs[c].pc = "waiting"
      BY <1>5 DEF Awaiting
<1>7. ASSUME NEW c \in Calls
      PROVE  /\ call'[c] \in ThumbCalls /\ Follows(cs[c], call'[c])
             /\ c \in T => call'[c].pc = "admitted"
             /\ c \notin T => call'[c] = cs[c]
  <2>1. CASE c \in T
    <3>1. call'[c] = [cs[c] EXCEPT !.pc = "admitted"]
          BY <2>1, <1>4
    <3>2. cs[c] \in ThumbCalls /\ "admitted" \in LoadStages
          BY DEF LoadStages
    <3>3. /\ call'[c] \in ThumbCalls /\ call'[c].pc = "admitted"
          /\ call'[c].visual = cs[c].visual /\ call'[c].source = cs[c].source
          /\ call'[c].attempt = cs[c].attempt /\ call'[c].aborted = cs[c].aborted
          BY <3>1, <3>2, StageSet
    <3> QED BY <2>1, <3>3, <1>6, Zenon DEF Follows
  <2>2. CASE c \notin T
    <3>1. call'[c] = cs[c]
          BY <2>2, <1>4
    <3> QED BY <2>2, <3>1 DEF Follows
  <2> QED BY <2>1, <2>2
<1>8. call' \in [Calls -> ThumbCalls]
      BY <1>4, <1>7
<1>9. Awaiting(call') = Awaiting(cs) \ T
  <2>1. \A c \in Calls : call'[c].pc = "waiting" <=> cs[c].pc = "waiting" /\ c \notin T
        BY <1>6, <1>7
  <2> QED BY <2>1 DEF Awaiting
<1>10. Fetching(call') = Fetching(cs) \cup T /\ Fetching(cs) \cap T = {}
  <2>1. \A c \in Calls : call'[c].pc \in {"admitted", "loading"}
                           <=> cs[c].pc \in {"admitted", "loading"} \/ c \in T
        BY <1>6, <1>7
  <2> QED BY <2>1, <1>6 DEF Fetching
<1>11. IsFiniteSet(Fetching(call')) /\ Cardinality(Fetching(call')) = n + k
  <2>1. /\ IsFiniteSet(Fetching(cs) \cup T)
        /\ Cardinality(Fetching(cs) \cup T)
             = Cardinality(Fetching(cs)) + Cardinality(T) - Cardinality(Fetching(cs) \cap T)
        BY <1>1, <1>5, FS_Union, Zenon
  <2>2. Cardinality(Fetching(cs) \cap T) = 0
        BY <1>10, FS_EmptySet, Zenon
  <2>3. Cardinality(Fetching(call')) = n + k - 0
        BY <2>1, <2>2, <1>1, <1>5, <1>10, Zenon
  <2> QED BY <2>1, <2>3, <1>2, <1>3, <1>10
<1>12. Lists(pending', Awaiting(call'))
      BY <1>5, <1>9, Zenon
<1> QED BY <1>4, <1>7, <1>8, <1>11, <1>12, Zenon DEF SlotsOf

\* What a visual shows does not depend on who has a slot.
LEMMA VisualsFollow ==
  ASSUME NEW src, NEW img, NEW lat, NEW cs, NEW ds \in [Calls -> ThumbCalls],
         VisualsOf(src, img, lat, cs), \A c \in Calls : Follows(cs[c], ds[c])
  PROVE  VisualsOf(src, img, lat, ds)
<1>1. /\ src \in [Visuals -> Sources \cup {"none"}]
      /\ img \in [Visuals -> Sources \cup {"loading", "failed"}]
      /\ lat \in [Visuals -> Calls \cup {0}] /\ cs \in [Calls -> ThumbCalls]
      BY DEF VisualsOf
<1>2. ASSUME NEW k \in Calls PROVE CallBrings(k, src, img, lat, ds)
  <2>1. CallBrings(k, src, img, lat, cs) /\ Follows(cs[k], ds[k])
        BY DEF VisualsOf
  <2> QED BY <2>1 DEF CallBrings, Follows
<1>3. ASSUME NEW v \in Visuals PROVE VisualIs(v, src, img, lat, ds)
  <2>1. VisualIs(v, src, img, lat, cs) /\ lat[v] \in Calls \cup {0}
        BY <1>1 DEF VisualsOf
  <2>2. lat[v] # 0 => Follows(cs[lat[v]], ds[lat[v]])
        BY <2>1
  <2> QED BY <2>1, <2>2 DEF VisualIs, Follows
<1> QED BY <1>1, <1>2, <1>3 DEF VisualsOf

\* A step that ends with a drain: the slots and the visuals before it are enough.
LEMMA StepThatDrains ==
  ASSUME NEW cs, NEW q, NEW n, SlotsOf(q, n, cs), drainQueue(n, q, cs),
         VisualsOf(source', image', latest', cs)
  PROVE  ThumbInv'
<1>1. cs \in [Calls -> ThumbCalls]
      BY DEF VisualsOf
<1>2. /\ SlotsOf(pending', loading', call')
      /\ call' \in [Calls -> ThumbCalls]
      /\ \A c \in Calls : Follows(cs[c], call'[c])
      BY <1>1, QueueDrains
<1>3. VisualsOf(source', image', latest', call')
      BY <1>2, VisualsFollow
<1> QED BY <1>2, <1>3 DEF ThumbInv

\* A step that leaves the queue alone: no call comes to wait, gets or frees a slot.
LEMMA StepThatLeaves ==
  ASSUME ThumbInv, UNCHANGED <<pending, loading>>, Awaiting(call') = Awaiting(call),
         Fetching(call') = Fetching(call), VisualsOf(source', image', latest', call')
  PROVE  ThumbInv'
<1>1. SlotsOf(pending', loading', call')
      BY DEF ThumbInv, SlotsOf
<1> QED BY <1>1 DEF ThumbInv

\* The calls ds are cs but for the call k.
OnlyCall(k, cs, ds) ==
  /\ cs \in [Calls -> ThumbCalls] /\ ds \in [Calls -> ThumbCalls]
  /\ \A c \in Calls : c # k => ds[c] = cs[c]

\* Whoever waits or has a slot, but for the call k, still does.
LEMMA OneCallMoves ==
  ASSUME NEW k \in Calls, NEW cs, NEW ds, OnlyCall(k, cs, ds)
  PROVE  /\ ds[k].pc # "waiting" => Awaiting(ds) = Awaiting(cs) \ {k}
         /\ ds[k].pc = "waiting" => Awaiting(ds) = Awaiting(cs) \cup {k}
         /\ ds[k].pc \notin {"admitted", "loading"} => Fetching(ds) = Fetching(cs) \ {k}
         /\ ds[k].pc \in {"admitted", "loading"} => Fetching(ds) = Fetching(cs) \cup {k}
         /\ k \in Awaiting(cs) <=> cs[k].pc = "waiting"
         /\ k \in Fetching(cs) <=> cs[k].pc \in {"admitted", "loading"}
  BY DEF OnlyCall, Awaiting, Fetching

\* A call changes, and neither joins the queue nor leaves it or its slot.
LEMMA CallStays ==
  ASSUME NEW k \in Calls, NEW cs, NEW ds, OnlyCall(k, cs, ds), NEW q, NEW n, SlotsOf(q, n, cs),
         cs[k].pc # "waiting", ds[k].pc # "waiting",
         cs[k].pc \in {"admitted", "loading"} <=> ds[k].pc \in {"admitted", "loading"}
  PROVE  SlotsOf(q, n, ds)
<1>1. Awaiting(ds) = Awaiting(cs) /\ Fetching(ds) = Fetching(cs)
      BY OneCallMoves
<1> QED BY <1>1, Zenon DEF SlotsOf

\* A call joins the queue.
LEMMA CallJoins ==
  ASSUME NEW k \in Calls, NEW cs, NEW ds, OnlyCall(k, cs, ds), NEW q, NEW n, SlotsOf(q, n, cs),
         cs[k].pc \notin {"waiting", "admitted", "loading"}, ds[k].pc = "waiting"
  PROVE  SlotsOf(Append(q, k), n, ds)
<1>1. Awaiting(ds) = Awaiting(cs) \cup {k} /\ Fetching(ds) = Fetching(cs) /\ k \notin Awaiting(cs)
      BY OneCallMoves
<1>2. Lists(q, Awaiting(cs))
      BY DEF SlotsOf
<1>3. Lists(Append(q, k), Awaiting(cs) \cup {k})
      BY <1>1, <1>2, ListsAppend
<1> QED BY <1>1, <1>3, Zenon DEF SlotsOf

\* A call leaves the queue.
LEMMA CallLeaves ==
  ASSUME NEW k \in Calls, NEW cs, NEW ds, OnlyCall(k, cs, ds), NEW q, NEW n, SlotsOf(q, n, cs),
         cs[k].pc = "waiting", ds[k].pc \notin {"waiting", "admitted", "loading"},
         NEW i \in 1..Len(q), q[i] = k
  PROVE  SlotsOf(RemoveAt(q, i), n, ds)
<1>1. Awaiting(ds) = Awaiting(cs) \ {k} /\ Fetching(ds) = Fetching(cs)
  <2>1. cs[k].pc \notin {"admitted", "loading"} /\ ds[k].pc # "waiting" /\ ds[k].pc \notin {"admitted", "loading"}
        OBVIOUS
  <2>2. k \notin Fetching(cs)
        BY <2>1 DEF Fetching
  <2>3. Awaiting(ds) = Awaiting(cs) \ {k}
        BY <2>1, OneCallMoves
  <2>4. Fetching(ds) = Fetching(cs) \ {k}
        BY <2>1, OneCallMoves
  <2> QED BY <2>2, <2>3, <2>4
<1>2. Lists(q, Awaiting(cs))
      BY DEF SlotsOf
<1>3. Lists(RemoveAt(q, i), Awaiting(cs) \ {q[i]})
      BY <1>2, ListsRemoved
<1>4. Lists(RemoveAt(q, i), Awaiting(ds))
      BY <1>1, <1>3, Zenon
<1> QED BY <1>1, <1>4, Zenon DEF SlotsOf

\* A call frees its slot.
LEMMA CallFrees ==
  ASSUME NEW k \in Calls, NEW cs, NEW ds, OnlyCall(k, cs, ds), NEW q, NEW n, SlotsOf(q, n, cs),
         cs[k].pc \in {"admitted", "loading"}, ds[k].pc \notin {"waiting", "admitted", "loading"}
  PROVE  SlotsOf(q, n - 1, ds)
<1>1. Awaiting(ds) = Awaiting(cs) /\ Fetching(ds) = Fetching(cs) \ {k} /\ k \in Fetching(cs)
      BY OneCallMoves
<1>2. IsFiniteSet(Fetching(cs)) /\ n = Cardinality(Fetching(cs))
      BY DEF SlotsOf
<1>3. IsFiniteSet(Fetching(cs) \ {k}) /\ Cardinality(Fetching(cs) \ {k}) = Cardinality(Fetching(cs)) - 1
      BY <1>1, <1>2, FS_RemoveElement
<1> QED BY <1>1, <1>2, <1>3, Zenon DEF SlotsOf

\* The call k goes on for its visual.
LEMMA CallGoesOn ==
  ASSUME NEW k \in Calls, NEW cs, NEW ds, OnlyCall(k, cs, ds),
         NEW src, NEW img, NEW lat, VisualsOf(src, img, lat, cs),
         cs[k].pc # "none", ds[k].pc # "none", ~cs[k].aborted, ~ds[k].aborted,
         ds[k].visual = cs[k].visual, ds[k].source = cs[k].source
  PROVE  VisualsOf(src, img, lat, ds)
<1>1. /\ src \in [Visuals -> Sources \cup {"none"}]
      /\ img \in [Visuals -> Sources \cup {"loading", "failed"}]
      /\ lat \in [Visuals -> Calls \cup {0}] /\ cs \in [Calls -> ThumbCalls]
      /\ ds \in [Calls -> ThumbCalls] /\ \A c \in Calls : c # k => ds[c] = cs[c]
      BY DEF VisualsOf, OnlyCall
<1>2. ASSUME NEW c \in Calls PROVE CallBrings(c, src, img, lat, ds)
  <2>1. CallBrings(c, src, img, lat, cs)
        BY DEF VisualsOf
  <2> QED BY <2>1, <1>1 DEF CallBrings
<1>3. ASSUME NEW v \in Visuals PROVE VisualIs(v, src, img, lat, ds)
  <2>1. VisualIs(v, src, img, lat, cs) /\ lat[v] \in Calls \cup {0}
        BY <1>1 DEF VisualsOf
  <2> QED BY <2>1, <1>1 DEF VisualIs
<1> QED BY <1>1, <1>2, <1>3 DEF VisualsOf

\* An aborted call ends: no visual has it any more.
LEMMA AbortedEnds ==
  ASSUME NEW k \in Calls, NEW cs, NEW ds, OnlyCall(k, cs, ds),
         NEW src, NEW img, NEW lat, VisualsOf(src, img, lat, cs),
         cs[k].aborted, ds[k].pc = "none", ~ds[k].aborted
  PROVE  VisualsOf(src, img, lat, ds)
<1>1. /\ src \in [Visuals -> Sources \cup {"none"}]
      /\ img \in [Visuals -> Sources \cup {"loading", "failed"}]
      /\ lat \in [Visuals -> Calls \cup {0}] /\ cs \in [Calls -> ThumbCalls]
      /\ ds \in [Calls -> ThumbCalls] /\ \A c \in Calls : c # k => ds[c] = cs[c]
      BY DEF VisualsOf, OnlyCall
<1>2. ASSUME NEW c \in Calls PROVE CallBrings(c, src, img, lat, ds)
  <2>1. CallBrings(c, src, img, lat, cs)
        BY DEF VisualsOf
  <2> QED BY <2>1, <1>1 DEF CallBrings
<1>3. ASSUME NEW v \in Visuals PROVE VisualIs(v, src, img, lat, ds)
  <2>1. VisualIs(v, src, img, lat, cs) /\ lat[v] \in Calls \cup {0}
        BY <1>1 DEF VisualsOf
  <2> QED BY <2>1, <1>1 DEF VisualIs
<1> QED BY <1>1, <1>2, <1>3 DEF VisualsOf

\* The record of no call.
LEMMA NoCallIs == NoCall \in ThumbCalls /\ NoCall.pc = "none" /\ NoCall.aborted = FALSE
  BY DEF NoCall, ThumbCalls, LoadStages

-----------------------------------------------------------------------------
(* The steps *)

\* A call with a slot goes on, or gives the slot back if it was aborted.
LEMMA preloadStep == ASSUME ThumbInv, NEW k \in Calls, preload(k) PROVE ThumbInv'
<1>1. /\ call[k].pc = "admitted" /\ UNCHANGED <<source, image, latest>>
      /\ SlotsOf(pending, loading, call) /\ VisualsOf(source, image, latest, call)
      /\ call \in [Calls -> ThumbCalls] /\ call[k].aborted \in BOOLEAN /\ call[k] \in ThumbCalls
      BY DEF preload, ThumbInv, VisualsOf, ThumbCalls
<1>2. CASE call[k].aborted
  <2>1. PICK ds : ds = [call EXCEPT ![k] = NoCall]
        OBVIOUS
  <2>2. drainQueue(loading - 1, pending, ds)
        BY <1>2, <2>1, Zenon DEF preload
  <2>3. OnlyCall(k, call, ds) /\ ds[k] = NoCall
        BY <2>1, <1>1, NoCallIs DEF OnlyCall
  <2>4. SlotsOf(pending, loading - 1, ds)
        BY <2>3, <1>1, NoCallIs, CallFrees
  <2>5. VisualsOf(source, image, latest, ds)
        BY <2>3, <1>1, <1>2, NoCallIs, AbortedEnds
  <2>6. VisualsOf(source', image', latest', ds)
        BY <2>5, <1>1
  <2> QED BY <2>2, <2>4, <2>6, StepThatDrains
<1>3. CASE ~call[k].aborted
  <2>1. PICK ds : ds = [call EXCEPT ![k].pc = "loading"]
        OBVIOUS
  <2>2. call' = ds /\ UNCHANGED <<pending, loading>>
        BY <1>3, <2>1, Zenon DEF preload
  <2>3. ds[k] = [call[k] EXCEPT !.pc = "loading"] /\ "loading" \in LoadStages
        BY <2>1, <1>1 DEF LoadStages
  <2>4. /\ ds[k] \in ThumbCalls /\ ds[k].pc = "loading" /\ ds[k].visual = call[k].visual
        /\ ds[k].source = call[k].source /\ ds[k].aborted = call[k].aborted
        BY <2>3, <1>1, StageSet
  <2>5. OnlyCall(k, call, ds)
        BY <2>1, <2>4, <1>1 DEF OnlyCall
  <2>6. SlotsOf(pending, loading, ds)
        BY <2>4, <2>5, <1>1, CallStays
  <2>7. VisualsOf(source, image, latest, ds)
        BY <2>4, <2>5, <1>1, <1>3, CallGoesOn
  <2> QED BY <2>2, <2>6, <2>7, <1>1 DEF ThumbInv
<1> QED BY <1>1, <1>2, <1>3

\* A call whose image has loaded or failed frees its slot and goes on.
LEMMA CallFreesAndGoesOn ==
  ASSUME ThumbInv, NEW k \in Calls, call[k].pc = "loading", UNCHANGED <<source, image, latest>>,
         NEW d \in ThumbCalls, d.pc \in {"loaded", "failed", "delayed"}, d.visual = call[k].visual,
         d.source = call[k].source, d.aborted = call[k].aborted,
         drainQueue(loading - 1, pending, [call EXCEPT ![k] = d])
  PROVE  ThumbInv'
<1>1. /\ SlotsOf(pending, loading, call) /\ VisualsOf(source, image, latest, call)
      /\ call \in [Calls -> ThumbCalls] /\ ~call[k].aborted
      BY DEF ThumbInv, VisualsOf, CallBrings
<1>2. PICK ds : ds = [call EXCEPT ![k] = d]
      OBVIOUS
<1>3. OnlyCall(k, call, ds) /\ ds[k] = d
      BY <1>1, <1>2 DEF OnlyCall
<1>4. SlotsOf(pending, loading - 1, ds)
      BY <1>1, <1>3, CallFrees
<1>5. VisualsOf(source, image, latest, ds)
      BY <1>1, <1>3, CallGoesOn
<1>6. VisualsOf(source', image', latest', ds) /\ drainQueue(loading - 1, pending, ds)
      BY <1>2, <1>5
<1> QED BY <1>4, <1>6, StepThatDrains

\* The image has loaded.
LEMMA loadedStep == ASSUME ThumbInv, NEW k \in Calls, loaded(k) PROVE ThumbInv'
<1>1. /\ call[k].pc = "loading" /\ UNCHANGED <<source, image, latest>>
      /\ drainQueue(loading - 1, pending, [call EXCEPT ![k].pc = "loaded"])
      BY DEF loaded
<1>2. call \in [Calls -> ThumbCalls] /\ call[k] \in ThumbCalls /\ "loaded" \in LoadStages
      BY DEF ThumbInv, VisualsOf, LoadStages
<1>3. PICK d : d = [call[k] EXCEPT !.pc = "loaded"]
      OBVIOUS
<1>4. [call EXCEPT ![k].pc = "loaded"] = [call EXCEPT ![k] = d]
      BY <1>2, <1>3
<1>5. /\ d \in ThumbCalls /\ d.pc = "loaded" /\ d.visual = call[k].visual
      /\ d.source = call[k].source /\ d.aborted = call[k].aborted
      BY <1>2, <1>3, StageSet
<1>6. drainQueue(loading - 1, pending, [call EXCEPT ![k] = d])
      BY <1>1, <1>4, Zenon
<1> QED BY <1>1, <1>5, <1>6, CallFreesAndGoesOn

\* The image fails, and is tried again later unless that was the last attempt.
LEMMA loadFailsStep == ASSUME ThumbInv, NEW k \in Calls, loadFails(k) PROVE ThumbInv'
<1>1. call \in [Calls -> ThumbCalls] /\ call[k] \in ThumbCalls /\ call[k].attempt \in Nat
      BY DEF ThumbInv, VisualsOf, ThumbCalls
<1>3. PICK pc2, n : /\ pc2 = (IF call[k].attempt + 1 < Attempts THEN "delayed" ELSE "failed")
                    /\ n = IF call[k].attempt + 1 < Attempts THEN call[k].attempt + 1 ELSE call[k].attempt
      OBVIOUS
<1>4. /\ call[k].pc = "loading" /\ UNCHANGED <<source, image, latest>>
      /\ drainQueue(loading - 1, pending, [call EXCEPT ![k].pc = pc2, ![k].attempt = n])
      BY <1>3, <1>1 DEF loadFails
<1>5. PICK d : d = [call[k] EXCEPT !.pc = pc2, !.attempt = n]
      OBVIOUS
<1>6. pc2 \in {"delayed", "failed"} /\ n \in Nat
      BY <1>1, <1>3
<1>7. /\ d \in ThumbCalls /\ d.pc = pc2 /\ d.visual = call[k].visual
      /\ d.source = call[k].source /\ d.aborted = call[k].aborted
      BY <1>1, <1>5, <1>6 DEF ThumbCalls, LoadStages
<1>8. [call EXCEPT ![k].pc = pc2, ![k].attempt = n] = [call EXCEPT ![k] = d]
      BY <1>1, <1>5
<1>9. drainQueue(loading - 1, pending, [call EXCEPT ![k] = d])
      BY <1>4, <1>8, Zenon
<1> QED BY <1>4, <1>6, <1>7, <1>9, CallFreesAndGoesOn

\* A call asks for a slot.
LEMMA StepThatAsks ==
  ASSUME NEW k \in Calls, NEW cs \in [Calls -> ThumbCalls], acquireSlot(k, cs),
         SlotsOf(pending, loading, cs), cs[k].pc \notin {"waiting", "admitted", "loading"},
         \A ds : ds = [cs EXCEPT ![k].pc = "waiting"] => VisualsOf(source', image', latest', ds)
  PROVE  ThumbInv'
<1>1. PICK ds : ds = [cs EXCEPT ![k].pc = "waiting"]
      OBVIOUS
<1>2. drainQueue(loading, Append(pending, k), ds)
      BY <1>1, Zenon DEF acquireSlot
<1>3. cs[k] \in ThumbCalls /\ "waiting" \in LoadStages /\ ds[k] = [cs[k] EXCEPT !.pc = "waiting"]
      BY <1>1 DEF LoadStages
<1>4. ds[k] \in ThumbCalls /\ ds[k].pc = "waiting"
      BY <1>3, StageSet
<1>5. OnlyCall(k, cs, ds)
      BY <1>1, <1>4 DEF OnlyCall
<1>6. SlotsOf(Append(pending, k), loading, ds)
      BY <1>4, <1>5, CallJoins
<1> QED BY <1>1, <1>2, <1>6, StepThatDrains

\* The next attempt asks for a slot again.
LEMMA retryLoadStep == ASSUME ThumbInv, NEW k \in Calls, retryLoad(k) PROVE ThumbInv'
<1>1. /\ call[k].pc = "delayed" /\ acquireSlot(k, call) /\ UNCHANGED <<source, image, latest>>
      /\ call \in [Calls -> ThumbCalls] /\ call[k] \in ThumbCalls /\ "waiting" \in LoadStages
      /\ SlotsOf(pending, loading, call) /\ VisualsOf(source, image, latest, call)
      BY DEF retryLoad, ThumbInv, VisualsOf, LoadStages
<1>2. ~call[k].aborted
      BY <1>1 DEF VisualsOf, CallBrings
<1>3. ASSUME NEW ds, ds = [call EXCEPT ![k].pc = "waiting"] PROVE VisualsOf(source', image', latest', ds)
  <2>1. ds[k] = [call[k] EXCEPT !.pc = "waiting"]
        BY <1>1, <1>3
  <2>2. /\ ds[k] \in ThumbCalls /\ ds[k].pc = "waiting" /\ ds[k].visual = call[k].visual
        /\ ds[k].source = call[k].source /\ ds[k].aborted = call[k].aborted
        BY <2>1, <1>1, StageSet
  <2>3. OnlyCall(k, call, ds)
        BY <2>2, <1>1, <1>3 DEF OnlyCall
  <2>4. VisualsOf(source, image, latest, ds)
        BY <2>2, <2>3, <1>1, <1>2, CallGoesOn
  <2> QED BY <2>4, <1>1
<1> QED BY <1>1, <1>3, StepThatAsks

\* The end of a call reaches its visual, unless it was aborted.
LEMMA settleVisualStep == ASSUME ThumbInv, NEW k \in Calls, settleVisual(k) PROVE ThumbInv'
<1>1. /\ call[k].pc \in {"loaded", "failed"} /\ UNCHANGED <<source, pending, loading>>
      /\ call' = [call EXCEPT ![k] = NoCall]
      /\ latest' = [latest EXCEPT ![call[k].visual] = IF @ = k THEN 0 ELSE @]
      /\ image' = IF call[k].aborted THEN image
                  ELSE [image EXCEPT ![call[k].visual] =
                          IF call[k].pc = "loaded" THEN call[k].source ELSE "failed"]
      BY Zenon DEF settleVisual
<1>2. /\ SlotsOf(pending, loading, call) /\ VisualsOf(source, image, latest, call)
      /\ source \in [Visuals -> Sources \cup {"none"}]
      /\ image \in [Visuals -> Sources \cup {"loading", "failed"}]
      /\ latest \in [Visuals -> Calls \cup {0}] /\ call \in [Calls -> ThumbCalls]
      /\ CallBrings(k, source, image, latest, call) /\ 0 \notin Calls
      BY ThumbnailAssumption DEF ThumbInv, VisualsOf
<1>3. OnlyCall(k, call, call') /\ call'[k] = NoCall
      BY <1>1, <1>2, NoCallIs DEF OnlyCall
<1>4. SlotsOf(pending, loading, call')
  <2>1. PICK ds : ds = call'
        OBVIOUS
  <2>2. SlotsOf(pending, loading, ds)
        BY <2>1, <1>1, <1>2, <1>3, NoCallIs, CallStays
  <2> QED BY <2>1, <2>2
<1>5. VisualsOf(source', image', latest', call')
  <2>1. CASE call[k].aborted
    <3>1. \A v \in Visuals : latest[v] # k
      <4>1. ASSUME NEW v \in Visuals, latest[v] = k PROVE FALSE
        <5>1. VisualIs(v, source, image, latest, call)
              BY <1>2 DEF VisualsOf
        <5> QED BY <5>1, <4>1, <1>2, <2>1 DEF VisualIs
      <4> QED BY <4>1
    <3>2. latest' = latest
          BY <1>1, <1>2, <3>1
    <3>3. PICK ds : ds = call'
          OBVIOUS
    <3>4. VisualsOf(source, image, latest, ds)
          BY <3>3, <2>1, <1>2, <1>3, NoCallIs, AbortedEnds
    <3> QED BY <3>2, <3>3, <3>4, <2>1, <1>1
  <2>2. CASE ~call[k].aborted
    <3>1. PICK v \in Visuals : v = call[k].visual
          BY <1>1, <1>2, <2>2 DEF CallBrings
    <3>2. latest[v] = k /\ source[v] = call[k].source /\ source[v] \in Sources
          BY <3>1, <1>1, <1>2, <2>2 DEF CallBrings
    <3>3. PICK s \in {"failed", source[v]} : image' = [image EXCEPT ![v] = s]
          BY <3>1, <3>2, <1>1, <2>2
    <3>4. latest' = [latest EXCEPT ![v] = 0]
          BY <3>1, <3>2, <1>1, <1>2
    <3>5. /\ image' \in [Visuals -> Sources \cup {"loading", "failed"}]
          /\ latest' \in [Visuals -> Calls \cup {0}] /\ call' \in [Calls -> ThumbCalls]
          BY <3>2, <3>3, <3>4, <1>2, <1>3 DEF OnlyCall
    <3>6. ASSUME NEW c \in Calls PROVE CallBrings(c, source', image', latest', call')
      <4>1. CASE c = k
            BY <4>1, <1>3, NoCallIs DEF CallBrings
      <4>2. CASE c # k
        <5>1. CallBrings(c, source, image, latest, call) /\ call'[c] = call[c]
              BY <4>2, <1>2, <1>3 DEF VisualsOf, OnlyCall
        <5>2. call[c].pc # "none" /\ ~call[c].aborted => call[c].visual # v /\ call[c].visual \in Visuals
              BY <5>1, <4>2, <3>2 DEF CallBrings
        <5> QED BY <5>1, <5>2, <3>3, <3>4, <1>1, <1>2 DEF CallBrings
      <4> QED BY <4>1, <4>2
    <3>7. ASSUME NEW w \in Visuals PROVE VisualIs(w, source', image', latest', call')
      <4>0. VisualIs(w, source, image, latest, call)
            BY <1>2 DEF VisualsOf
      <4>1. CASE w = v
            BY <4>1, <3>2, <3>3, <3>4, <1>1, <1>2, ThumbnailAssumption DEF VisualIs
      <4>2. CASE w # v
        <5>1. latest'[w] = latest[w] /\ image'[w] = image[w] /\ source'[w] = source[w]
              BY <4>2, <3>3, <3>4, <1>1, <1>2
        <5>2. latest[w] # 0 => latest[w] \in Calls /\ latest[w] # k
              BY <4>0, <4>2, <3>1, <1>2 DEF VisualIs
        <5>3. latest[w] # 0 => call'[latest[w]] = call[latest[w]]
              BY <5>2, <1>3 DEF OnlyCall
        <5> QED BY <4>0, <5>1, <5>3, Zenon DEF VisualIs
      <4> QED BY <4>1, <4>2
    <3> QED BY <3>5, <3>6, <3>7, <1>1, <1>2 DEF VisualsOf
  <2> QED BY <2>1, <2>2
<1> QED BY <1>1, <1>4, <1>5 DEF ThumbInv

\* What the others show once a visual has left its file and its call is over.
LEMMA VisualLeft ==
  ASSUME ThumbInv, NEW v \in Visuals, source[v] # "none",
         source' = [source EXCEPT ![v] = "none"], latest' = [latest EXCEPT ![v] = 0],
         image' = [image EXCEPT ![v] = "loading"],
         NEW ds \in [Calls -> ThumbCalls],
         \A c \in Calls : c # latest[v] => ds[c] = call[c],
         latest[v] # 0 => \/ ds[latest[v]].pc = "none" /\ ~ds[latest[v]].aborted
                          \/ ds[latest[v]].aborted /\ ds[latest[v]].pc \in {"admitted", "loaded", "failed"}
  PROVE  VisualsOf(source', image', latest', ds)
<1>1. /\ VisualsOf(source, image, latest, call)
      /\ source \in [Visuals -> Sources \cup {"none"}]
      /\ image \in [Visuals -> Sources \cup {"loading", "failed"}]
      /\ latest \in [Visuals -> Calls \cup {0}] /\ call \in [Calls -> ThumbCalls]
      /\ 0 \notin Calls
      BY ThumbnailAssumption DEF ThumbInv, VisualsOf
<1>2. /\ source' \in [Visuals -> Sources \cup {"none"}]
      /\ image' \in [Visuals -> Sources \cup {"loading", "failed"}]
      /\ latest' \in [Visuals -> Calls \cup {0}]
      BY <1>1
<1>3. ASSUME NEW c \in Calls PROVE CallBrings(c, source', image', latest', ds)
  <2>1. CASE c = latest[v]
        BY <2>1, <1>1 DEF CallBrings
  <2>2. CASE c # latest[v]
    <3>1. CallBrings(c, source, image, latest, call) /\ ds[c] = call[c]
          BY <2>2, <1>1 DEF VisualsOf
    <3>2. call[c].pc # "none" /\ ~call[c].aborted => call[c].visual # v /\ call[c].visual \in Visuals
          BY <3>1, <2>2 DEF CallBrings
    <3> QED BY <3>1, <3>2, <1>1 DEF CallBrings
  <2> QED BY <2>1, <2>2
<1>4. ASSUME NEW w \in Visuals PROVE VisualIs(w, source', image', latest', ds)
  <2>0. VisualIs(w, source, image, latest, call) /\ VisualIs(v, source, image, latest, call)
        BY <1>1 DEF VisualsOf
  <2>1. CASE w = v
        BY <2>1, <1>1 DEF VisualIs
  <2>2. CASE w # v
    <3>1. latest'[w] = latest[w] /\ image'[w] = image[w] /\ source'[w] = source[w]
          BY <2>2, <1>1
    <3>2. latest[w] # 0 => latest[w] \in Calls /\ latest[w] # latest[v]
          BY <2>0, <2>2, <1>1 DEF VisualIs
    <3>3. latest[w] # 0 => ds[latest[w]] = call[latest[w]]
          BY <3>2
    <3> QED BY <2>0, <3>1, <3>3, Zenon DEF VisualIs
  <2> QED BY <2>1, <2>2
<1> QED BY <1>2, <1>3, <1>4 DEF VisualsOf

\* The call of the visual that leaves is over, wherever it stands.
LEMMA leaveStep == ASSUME ThumbInv, NEW v \in Visuals, leave(v) PROVE ThumbInv'
<1>1. /\ source[v] # "none" /\ source' = [source EXCEPT ![v] = "none"]
      /\ latest' = [latest EXCEPT ![v] = 0] /\ image' = [image EXCEPT ![v] = "loading"]
      /\ abortCall(latest[v])
      BY DEF leave
<1>2. /\ SlotsOf(pending, loading, call) /\ VisualsOf(source, image, latest, call)
      /\ latest \in [Visuals -> Calls \cup {0}] /\ call \in [Calls -> ThumbCalls]
      BY DEF ThumbInv, VisualsOf
<1>3. CASE latest[v] = 0
  <2>1. UNCHANGED <<pending, loading, call>>
        BY <1>1, <1>3, Zenon DEF abortCall
  <2>2. VisualsOf(source', image', latest', call)
        BY <1>1, <1>2, <1>3, VisualLeft
  <2> QED BY <2>1, <2>2, <1>2 DEF ThumbInv
<1>4. CASE latest[v] # 0
  <2>1. PICK k \in Calls : k = latest[v]
        BY <1>2, <1>4
  <2>2. PICK over : over = [call EXCEPT ![k] = NoCall]
        OBVIOUS
  <2>3. OnlyCall(k, call, over) /\ over[k].pc = "none" /\ ~over[k].aborted
        BY <2>2, <1>2, NoCallIs DEF OnlyCall
  <2>4. VisualsOf(source', image', latest', over)
        BY <2>1, <2>3, <1>1, <1>2, VisualLeft DEF OnlyCall
  <2>5. call[k].pc # "none" /\ ~call[k].aborted /\ call[k].pc \in LoadStages
        BY <2>1, <1>2, <1>4 DEF VisualsOf, VisualIs, ThumbCalls
  <2>6. IF call[k].pc = "waiting"
        THEN \E i \in 1..Len(pending) : pending[i] = k /\ drainQueue(loading, RemoveAt(pending, i), over)
        ELSE IF call[k].pc = "delayed" THEN call' = over /\ UNCHANGED <<pending, loading>>
        ELSE IF call[k].pc = "loading" THEN drainQueue(loading - 1, pending, over)
        ELSE call' = [call EXCEPT ![k].aborted = TRUE] /\ UNCHANGED <<pending, loading>>
        BY <2>1, <2>2, <1>1, <1>4, Zenon DEF abortCall
  <2>7. CASE call[k].pc = "waiting"
    <3>1. PICK i \in 1..Len(pending) : pending[i] = k /\ drainQueue(loading, RemoveAt(pending, i), over)
          BY <2>6, <2>7, Zenon
    <3>2. SlotsOf(RemoveAt(pending, i), loading, over)
          BY <3>1, <2>3, <2>7, <1>2, CallLeaves
    <3> QED BY <3>1, <3>2, <2>4, StepThatDrains
  <2>8. CASE call[k].pc = "delayed"
    <3>1. call' = over /\ UNCHANGED <<pending, loading>>
          BY <2>6, <2>8, Zenon
    <3>2. SlotsOf(pending, loading, over)
          BY <2>3, <2>8, <1>2, CallStays
    <3> QED BY <3>1, <3>2, <2>4 DEF ThumbInv
  <2>9. CASE call[k].pc = "loading"
    <3>1. drainQueue(loading - 1, pending, over)
          BY <2>6, <2>9, Zenon
    <3>2. SlotsOf(pending, loading - 1, over)
          BY <2>3, <2>9, <1>2, CallFrees
    <3> QED BY <3>1, <3>2, <2>4, StepThatDrains
  <2>10. CASE call[k].pc \in {"admitted", "loaded", "failed"}
    <3>1. PICK ds : ds = [call EXCEPT ![k].aborted = TRUE]
          OBVIOUS
    <3>2. call' = ds /\ UNCHANGED <<pending, loading>>
          BY <2>6, <2>10, <3>1, Zenon
    <3>3. ds \in [Calls -> ThumbCalls] /\ ds[k].aborted = TRUE /\ ds[k].pc = call[k].pc
          BY <3>1, <1>2 DEF ThumbCalls
    <3>4. OnlyCall(k, call, ds)
          BY <3>1, <3>3, <1>2 DEF OnlyCall
    <3>5. SlotsOf(pending, loading, ds)
          BY <3>3, <3>4, <2>10, <1>2, CallStays
    <3>6. VisualsOf(source', image', latest', ds)
          BY <2>1, <2>10, <3>3, <3>4, <1>1, <1>2, VisualLeft DEF OnlyCall
    <3> QED BY <3>2, <3>5, <3>6 DEF ThumbInv
  <2> QED BY <2>5, <2>7, <2>8, <2>9, <2>10 DEF LoadStages
<1> QED BY <1>3, <1>4

\* A visual shows a file: a call that was over is taken for it.
LEMMA showStep ==
  ASSUME ThumbInv, NEW v \in Visuals, NEW s \in Sources, show(v, s) PROVE ThumbInv'
<1>1. /\ SlotsOf(pending, loading, call) /\ VisualsOf(source, image, latest, call)
      /\ source \in [Visuals -> Sources \cup {"none"}]
      /\ image \in [Visuals -> Sources \cup {"loading", "failed"}]
      /\ latest \in [Visuals -> Calls \cup {0}] /\ call \in [Calls -> ThumbCalls]
      BY DEF ThumbInv, VisualsOf
<1>2. PICK k : k = CHOOSE n \in Idle : \A m \in Idle : n <= m
      OBVIOUS
<1>3. PICK c : c = [NoCall EXCEPT !.visual = v, !.source = s]
      OBVIOUS
<1>4. PICK cs : cs = [call EXCEPT ![k] = c]
      OBVIOUS
<1>5. /\ source[v] = "none" /\ Idle # {}
      /\ source' = [source EXCEPT ![v] = s] /\ image' = [image EXCEPT ![v] = "loading"]
      /\ latest' = [latest EXCEPT ![v] = k]
      /\ acquireSlot(k, cs)
      BY <1>2, <1>3, <1>4, Zenon DEF show
<1>6. k \in Calls /\ call[k].pc = "none"
  <2>1. Idle \subseteq Nat
        BY ThumbnailAssumption DEF Idle
  <2>2. PICK n \in Idle : \A m \in Nat : m < n => m \notin Idle
        BY <2>1, <1>5, LeastOne
  <2>3. \A m \in Idle : n <= m
        BY <2>1, <2>2
  <2>4. k \in Idle
        BY <1>2, <2>3
  <2> QED BY <2>4 DEF Idle
<1>7. /\ c \in ThumbCalls /\ c.pc = "none" /\ c.visual = v /\ c.source = s /\ c.aborted = FALSE
      BY <1>3 DEF NoCall, ThumbCalls, LoadStages
<1>8. OnlyCall(k, call, cs) /\ cs[k] = c /\ cs \in [Calls -> ThumbCalls]
      BY <1>1, <1>4, <1>6, <1>7 DEF OnlyCall
<1>9. SlotsOf(pending, loading, cs)
      BY <1>1, <1>6, <1>7, <1>8, CallStays
<1>10. ASSUME NEW ds, ds = [cs EXCEPT ![k].pc = "waiting"] PROVE VisualsOf(source', image', latest', ds)
  <2>1. ds[k] = [c EXCEPT !.pc = "waiting"] /\ "waiting" \in LoadStages
        BY <1>6, <1>8, <1>10 DEF LoadStages
  <2>2. /\ ds[k] \in ThumbCalls /\ ds[k].pc = "waiting" /\ ds[k].visual = v /\ ds[k].source = s
        /\ ds[k].aborted = FALSE
        BY <2>1, <1>7, StageSet
  <2>3. ds \in [Calls -> ThumbCalls] /\ \A d \in Calls : d # k => ds[d] = call[d]
        BY <2>2, <1>6, <1>8, <1>10 DEF OnlyCall
  <2>4. /\ source' \in [Visuals -> Sources \cup {"none"}]
        /\ image' \in [Visuals -> Sources \cup {"loading", "failed"}]
        /\ latest' \in [Visuals -> Calls \cup {0}]
        BY <1>1, <1>5, <1>6
  <2>5. ASSUME NEW d \in Calls PROVE CallBrings(d, source', image', latest', ds)
    <3>1. CASE d = k
          BY <3>1, <2>2, <1>1, <1>5 DEF CallBrings
    <3>2. CASE d # k
      <4>1. CallBrings(d, source, image, latest, call) /\ ds[d] = call[d]
            BY <3>2, <2>3, <1>1 DEF VisualsOf
      <4>2. call[d].pc # "none" /\ ~call[d].aborted => call[d].visual # v /\ call[d].visual \in Visuals
        <5>1. "none" \notin Sources
              BY ThumbnailAssumption
        <5> QED BY <4>1, <5>1, <1>5 DEF CallBrings
      <4> QED BY <4>1, <4>2, <1>1, <1>5 DEF CallBrings
    <3> QED BY <3>1, <3>2
  <2>6. ASSUME NEW w \in Visuals PROVE VisualIs(w, source', image', latest', ds)
    <3>0. VisualIs(w, source, image, latest, call) /\ 0 \notin Calls /\ "none" \notin Sources
          BY <1>1, ThumbnailAssumption DEF VisualsOf
    <3>1. CASE w = v
          BY <3>0, <3>1, <2>2, <1>1, <1>5, <1>6 DEF VisualIs
    <3>2. CASE w # v
      <4>1. latest'[w] = latest[w] /\ image'[w] = image[w] /\ source'[w] = source[w]
            BY <3>2, <1>1, <1>5
      <4>2. latest[w] # 0 => latest[w] \in Calls /\ latest[w] # k
            BY <3>0, <1>1, <1>6 DEF VisualIs
      <4>3. latest[w] # 0 => ds[latest[w]] = call[latest[w]]
            BY <4>2, <2>3
      <4> QED BY <3>0, <4>1, <4>3, Zenon DEF VisualIs
    <3> QED BY <3>1, <3>2
  <2> QED BY <2>3, <2>4, <2>5, <2>6 DEF VisualsOf
<1> QED BY <1>5, <1>6, <1>7, <1>8, <1>9, <1>10, StepThatAsks

\* At first nothing is shown and nobody waits.
LEMMA ThumbStarts == ASSUME ThumbInit PROVE ThumbInv
<1>1. /\ source = [v \in Visuals |-> "none"] /\ image = [v \in Visuals |-> "loading"]
      /\ latest = [v \in Visuals |-> 0] /\ call = [k \in Calls |-> NoCall]
      /\ pending = <<>> /\ loading = 0
      BY DEF ThumbInit
<1>2. Awaiting(call) = {} /\ Fetching(call) = {}
      BY <1>1, NoCallIs DEF Awaiting, Fetching
<1>3. IsFiniteSet(Fetching(call)) /\ Cardinality(Fetching(call)) = 0
      BY <1>2, FS_EmptySet, Zenon
<1>4. Lists(pending, Awaiting(call))
      BY <1>1, <1>2, ListsNothing, Zenon
<1>5. SlotsOf(pending, loading, call)
      BY <1>1, <1>3, <1>4 DEF SlotsOf
<1>6. call \in [Calls -> ThumbCalls] /\ \A k \in Calls : call[k] = NoCall
      BY <1>1, NoCallIs
<1>7. VisualsOf(source, image, latest, call)
      BY <1>1, <1>6, NoCallIs DEF VisualsOf, CallBrings, VisualIs
<1> QED BY <1>5, <1>7 DEF ThumbInv

\* Every step keeps the invariant.
LEMMA ThumbKeeps == ASSUME ThumbInv, [ThumbNext]_thumbVars PROVE ThumbInv'
<1>1. CASE UNCHANGED thumbVars
      BY <1>1 DEF ThumbInv, SlotsOf, VisualsOf, CallBrings, VisualIs, Awaiting, Fetching, thumbVars
<1>2. ASSUME NEW v \in Visuals, leave(v) PROVE ThumbInv'
      BY <1>2, leaveStep
<1>3. ASSUME NEW v \in Visuals, NEW s \in Sources, show(v, s) PROVE ThumbInv'
      BY <1>3, showStep
<1>4. ASSUME NEW k \in Calls, loadStep(k) PROVE ThumbInv'
      BY <1>4, preloadStep, loadedStep, loadFailsStep, retryLoadStep, settleVisualStep DEF loadStep
<1> QED BY <1>1, <1>2, <1>3, <1>4, Zenon DEF ThumbNext

\* The invariant is what VisualsShowTheirFile says, and why.
LEMMA ThumbShows == ASSUME ThumbInv PROVE VisualsShowTheirFile
<1>1. /\ SlotsOf(pending, loading, call) /\ VisualsOf(source, image, latest, call)
      /\ source \in [Visuals -> Sources \cup {"none"}]
      /\ latest \in [Visuals -> Calls \cup {0}]
      BY DEF ThumbInv, VisualsOf
<1>2. loading = Cardinality(Loading)
      BY <1>1, Zenon DEF SlotsOf, Fetching, Loading
<1>3. ASSUME NEW k \in Calls PROVE call[k].pc = "waiting" <=> k \in ToSet(pending)
  <2>1. ToSet(pending) = Awaiting(call)
        BY <1>1, ListsCount DEF SlotsOf
  <2> QED BY <2>1 DEF Awaiting
<1>4. ASSUME NEW v \in Visuals
      PROVE  /\ image[v] \in {"loading", "failed", source[v]}
             /\ source[v] # "none" /\ image[v] = "loading" =>
                  latest[v] # 0 /\ call[latest[v]].visual = v /\ ~call[latest[v]].aborted
  <2>1. VisualIs(v, source, image, latest, call) /\ source[v] \in Sources \cup {"none"}
        BY <1>1 DEF VisualsOf
  <2>2. latest[v] # 0 => image[v] = "loading"
        BY <2>1, <1>1 DEF VisualsOf, VisualIs, CallBrings
  <2>3. "loading" \notin Sources
        BY ThumbnailAssumption
  <2> QED BY <2>1, <2>2, <2>3 DEF VisualIs
<1> QED BY <1>2, <1>3, <1>4, Zenon DEF VisualsShowTheirFile

\* A visual never shows the image of another file, no slot is lost to an abort, and
\* a visual waits for an image only while a call brings it, for any visuals,
\* files, calls, limit of slots and number of attempts.
THEOREM VisualsAlwaysShowTheirFile == ThumbSpec => []VisualsShowTheirFile
<1>1. ThumbInit => ThumbInv
      BY ThumbStarts
<1>2. ThumbInv /\ [ThumbNext]_thumbVars => ThumbInv'
      BY ThumbKeeps
<1>3. ThumbInv => VisualsShowTheirFile
      BY ThumbShows
<1> QED BY <1>1, <1>2, <1>3, PTL DEF ThumbSpec

-------------------------------------------------------------------------------
(* PreviewWarms.                                                              *)

\* What comes first in q is no less urgent than what follows.
InOrder(q) == \A i, j \in 1..Len(q) : i < j => priority(q[i]) <= priority(q[j])

\* The queue and the memory hold a key once, what is under way can be counted,
\* and the rest is what WarmQueueIsExact says.
WarmInv ==
  /\ windows \in [Owners -> SUBSET Keys]
  /\ warming \subseteq Keys /\ IsFiniteSet(warming) /\ Cardinality(warming) <= WarmLimit
  /\ Lists(warmed, ToSet(warmed)) /\ ToSet(warmed) \subseteq Keys /\ Len(warmed) <= Remembered
  /\ Lists(warmQueue, ToSet(warmQueue)) /\ ToSet(warmQueue) \subseteq desired(windows)
  /\ InOrder(warmQueue)
  /\ ToSet(warmQueue) \cap (warming \cup ToSet(warmed)) = {}
  /\ warmQueue # <<>> => Cardinality(warming) = WarmLimit
  /\ desired(windows) \subseteq ToSet(warmQueue) \cup warming \cup ToSet(warmed) \cup tried

-----------------------------------------------------------------------------
(* What a drain does *)

\* A list of the elements of X that is not empty.
LEMMA ListsSome ==
  ASSUME NEW X, NEW s, Lists(s, X)
  PROVE  /\ Lists(s, ToSet(s)) /\ ToSet(s) = X
         /\ s # <<>> <=> Len(s) > 0
<1>1. ToSet(s) = X /\ s \in Seq(X)
      BY ListsCount DEF Lists
<1>2. Lists(s, ToSet(s))
      BY <1>1, Zenon
<1>3. s # <<>> <=> Len(s) > 0
      BY <1>1, EmptySeq, LenProperties
<1> QED BY <1>1, <1>2, <1>3

\* The rest of a list in its order.
LEMMA BehindAre ==
  ASSUME NEW X, NEW s, Lists(s, X), NEW k \in 0..Len(s), NEW i \in 1..(Len(s) - k)
  PROVE  Behind(s, k)[i] = s[k + i]
<1>1. s \in Seq(X) /\ Len(s) \in Nat /\ \A j \in 1..Len(s) : s[j] \in X
      BY ListsCount DEF Lists
<1>2. \A j \in (k + 1)..Len(s) : s[j] \in X
      BY <1>1
<1>3. \A j \in 1..Len(s) - (k + 1) + 1 : SubSeq(s, k + 1, Len(s))[j] = s[(k + 1) + j - 1]
      BY <1>1, <1>2, SubSeqProperties
<1>4. i \in 1..Len(s) - (k + 1) + 1 /\ (k + 1) + i - 1 = k + i
      BY <1>1
<1>5. SubSeq(s, k + 1, Len(s))[i] = s[k + i]
      BY <1>3, <1>4
<1> QED BY <1>5 DEF Behind

\* The keys that q holds are none of those under way or remembered: a drain takes
\* its first ones, as many as there are slots.
LEMMA WarmsDrain ==
  ASSUME NEW q, NEW X, Lists(q, X), X \subseteq Keys, InOrder(q),
         NEW running, running \subseteq Keys, IsFiniteSet(running), Cardinality(running) <= WarmLimit,
         X \cap (running \cup ToSet(warmed')) = {},
         drainWarms(q, running)
  PROVE  /\ warming' \subseteq Keys /\ IsFiniteSet(warming') /\ Cardinality(warming') <= WarmLimit
         /\ Lists(warmQueue', ToSet(warmQueue')) /\ InOrder(warmQueue')
         /\ warmQueue' # <<>> => Cardinality(warming') = WarmLimit
         /\ X \cup running = ToSet(warmQueue') \cup warming'
         /\ ToSet(warmQueue') \subseteq X /\ ToSet(warmQueue') \cap warming' = {}
         /\ warming' \subseteq X \cup running
<1> DEFINE c == Cardinality(running)
           room == IF Cardinality(running) < WarmLimit THEN WarmLimit - Cardinality(running) ELSE 0
           New(i) == {q[j] : j \in 1..i} \ (running \cup ToSet(warmed'))
           Stops(i) == i = Len(q) \/ Cardinality(New(i)) >= room
           First(i) == Stops(i) /\ \A j \in 0..(i - 1) : ~Stops(j)
           m == IF Len(q) < room THEN Len(q) ELSE room
           n == CHOOSE i \in 0..Len(q) : First(i)
<1>1. Len(q) \in Nat /\ c \in Nat /\ WarmLimit \in Nat /\ c <= WarmLimit
      BY ListsCount, FS_CardinalityType, WarmAssumption
<1>2. room \in Nat /\ room = WarmLimit - c /\ m \in 0..Len(q)
      BY <1>1
<1>3. ASSUME NEW i \in 0..Len(q) PROVE New(i) = Firsts(q, i) /\ Cardinality(New(i)) = i
  <2>1. Firsts(q, i) \subseteq X /\ Cardinality(Firsts(q, i)) = i
        BY ListsFirst
  <2>2. New(i) = Firsts(q, i)
        BY <2>1 DEF Firsts
  <2> QED BY <2>1, <2>2, Zenon
<1>4. warming' = running \cup New(n) /\ warmQueue' = SubSeq(q, n + 1, Len(q))
      BY Zenon DEF drainWarms
<1> HIDE DEF New, room
<1>5. First(m)
  <2>1. Stops(m)
        BY <1>1, <1>2, <1>3
  <2>2. \A j \in 0..(m - 1) : ~Stops(j)
    <3>1. ASSUME NEW j \in 0..(m - 1) PROVE ~Stops(j)
      <4>1. j \in 0..Len(q) /\ j < Len(q) /\ j < room
            BY <1>1, <1>2
      <4> QED BY <4>1, <1>2, <1>3
    <3> QED BY <3>1
  <2> QED BY <2>1, <2>2
<1> HIDE DEF m
<1>6. ASSUME NEW i \in 0..Len(q), First(i) PROVE i = m
  <2>1. ~(i < m)
        BY <1>1, <1>2, <1>5, <1>6
  <2>2. ~(m < i)
        BY <1>1, <1>2, <1>5, <1>6
  <2> QED BY <2>1, <2>2, <1>1, <1>2
<1> HIDE DEF Stops
<1>7. n = m
      BY <1>2, <1>5, <1>6
<1> HIDE DEF n
<1>8. warming' = running \cup Firsts(q, m) /\ warmQueue' = Behind(q, m)
      BY <1>2, <1>3, <1>4, <1>7 DEF Behind
<1>9. /\ Firsts(q, m) \subseteq X /\ IsFiniteSet(Firsts(q, m)) /\ Cardinality(Firsts(q, m)) = m
      /\ Lists(Behind(q, m), X \ Firsts(q, m)) /\ Len(Behind(q, m)) = Len(q) - m
      /\ \A i \in 1..(Len(q) - m) : Behind(q, m)[i] = q[m + i]
  <2>1. m \in 0..Len(q) /\ Lists(q, X)
        BY <1>2
  <2>2. /\ Firsts(q, m) \subseteq X /\ IsFiniteSet(Firsts(q, m)) /\ Cardinality(Firsts(q, m)) = m
        /\ Lists(Behind(q, m), X \ Firsts(q, m)) /\ Len(Behind(q, m)) = Len(q) - m
        BY <2>1, ListsFirst
  <2>3. \A i \in 1..(Len(q) - m) : Behind(q, m)[i] = q[m + i]
    <3>1. ASSUME NEW i \in 1..(Len(q) - m) PROVE Behind(q, m)[i] = q[m + i]
          BY <2>1, BehindAre
    <3> QED BY <3>1
  <2> QED BY <2>2, <2>3, Zenon
<1>10. IsFiniteSet(warming') /\ Cardinality(warming') = c + m
  <2>1. running \cap Firsts(q, m) = {}
        BY <1>9
  <2>2. /\ IsFiniteSet(running \cup Firsts(q, m))
        /\ Cardinality(running \cup Firsts(q, m))
             = Cardinality(running) + Cardinality(Firsts(q, m)) - Cardinality(running \cap Firsts(q, m))
        BY <1>9, FS_Union, Zenon
  <2>3. Cardinality(running \cap Firsts(q, m)) = 0
        BY <2>1, FS_EmptySet, Zenon
  <2>4. Cardinality(running \cup Firsts(q, m)) = c + m - 0
        BY <2>2, <2>3, <1>9, Zenon
  <2> QED BY <2>2, <2>4, <1>1, <1>2, <1>8
<1>11. Lists(warmQueue', X \ Firsts(q, m)) /\ Len(warmQueue') = Len(q) - m
       BY <1>8, <1>9, Zenon
<1>12. ToSet(warmQueue') = X \ Firsts(q, m) /\ Lists(warmQueue', ToSet(warmQueue'))
       BY <1>11, ListsSome
<1>13. warmQueue' # <<>> => Cardinality(warming') = WarmLimit
  <2>1. warmQueue' # <<>> => Len(q) - m > 0
    <3>1. PICK r : r = warmQueue'
          OBVIOUS
    <3>2. r # <<>> => Len(r) > 0
          BY <3>1, <1>11, ListsSome
    <3> QED BY <3>1, <3>2, <1>11
  <2>2. Len(q) - m > 0 => m = room
        BY <1>1, <1>2 DEF m
  <2> QED BY <2>1, <2>2, <1>1, <1>2, <1>10
<1>14. InOrder(warmQueue')
  <2>1. ASSUME NEW i \in 1..(Len(q) - m), NEW j \in 1..(Len(q) - m), i < j
        PROVE  priority(q[m + i]) <= priority(q[m + j])
    <3>1. m + i \in 1..Len(q) /\ m + j \in 1..Len(q) /\ m + i < m + j
          BY <2>1, <1>1, <1>2
    <3> QED BY <3>1 DEF InOrder
  <2> QED BY <2>1, <1>8, <1>9 DEF InOrder
<1>15. Cardinality(warming') <= WarmLimit
       BY <1>1, <1>2, <1>10 DEF m
<1> QED BY <1>8, <1>9, <1>10, <1>12, <1>13, <1>14, <1>15

-----------------------------------------------------------------------------
(* What is kept *)

\* Part of a list in order is in order.
LEMMA OrderKept ==
  ASSUME NEW X, NEW q, Lists(q, X), InOrder(q), NEW S
  PROVE  InOrder(Kept(q, S))
<1>1. q \in Seq(X)
      BY DEF Lists
<1>2. Taken(Kept(q, S), X, q, S, Len(q))
      BY <1>1, KeptTakes
<1>3. ASSUME NEW i \in 1..Len(Kept(q, S)), NEW j \in 1..Len(Kept(q, S)), i < j
      PROVE  priority(Kept(q, S)[i]) <= priority(Kept(q, S)[j])
  <2>1. PICK p \in 1..Len(q), r \in 1..Len(q) : p < r /\ Kept(q, S)[i] = q[p] /\ Kept(q, S)[j] = q[r]
        BY <1>2, <1>3, Zenon DEF Taken
  <2>2. priority(q[p]) <= priority(q[r])
        BY <2>1 DEF InOrder
  <2> QED BY <2>1, <2>2, Zenon
<1> QED BY <1>3 DEF InOrder

\* Sorted by priority, a list holds the same keys, the urgent ones first.
LEMMA SortedIs ==
  ASSUME NEW q, NEW X, Lists(q, X), X \subseteq Keys
  PROVE  Lists(byPriority(q), X) /\ InOrder(byPriority(q))
<1> DEFINE A == {k \in Keys : priority(k) = 0}
           B == {k \in Keys : priority(k) = 1}
<1>1. (X \cap A) \cap (X \cap B) = {} /\ (X \cap A) \cup (X \cap B) = X
      BY DEF priority
<1>2. \A k \in A : priority(k) = 0
      OBVIOUS
<1>3. \A k \in B : priority(k) = 1
      OBVIOUS
<1>4. PICK a, b : a = Kept(q, A) /\ b = Kept(q, B)
      OBVIOUS
<1>5. byPriority(q) = a \o b
      BY <1>4, Zenon DEF byPriority
<1> HIDE DEF A, B
<1>6. Lists(a, X \cap A) /\ Lists(b, X \cap B)
  <2>1. Lists(Kept(q, A), X \cap A) /\ Lists(Kept(q, B), X \cap B)
        BY ListsKept
  <2> QED BY <2>1, <1>4, Zenon
<1>7. Lists(a \o b, X)
  <2>1. Lists(a \o b, (X \cap A) \cup (X \cap B))
        BY <1>1, <1>6, ListsConcat
  <2> QED BY <2>1, <1>1, Zenon
<1>8. InOrder(a \o b)
  <2>1. /\ a \in Seq(X \cap A) /\ b \in Seq(X \cap B) /\ Len(a) \in Nat /\ Len(b) \in Nat
        /\ \A i \in 1..Len(a) : priority(a[i]) = 0
        /\ \A i \in 1..Len(b) : priority(b[i]) = 1
    <3>1. /\ a \in Seq(X \cap A) /\ Len(a) \in Nat
          /\ \A i \in 1..Len(a) : a[i] \in X \cap A
          BY <1>6, ListsCount DEF Lists
    <3>2. /\ b \in Seq(X \cap B) /\ Len(b) \in Nat
          /\ \A i \in 1..Len(b) : b[i] \in X \cap B
          BY <1>6, ListsCount DEF Lists
    <3> QED BY <3>1, <3>2, <1>2, <1>3
  <2>2. a \in Seq(Keys) /\ b \in Seq(Keys)
    <3>1. \A i \in 1..Len(a) : a[i] \in Keys
          BY <1>6, ListsCount
    <3>2. \A i \in 1..Len(b) : b[i] \in Keys
          BY <1>6, ListsCount
    <3> QED BY <2>1, <3>1, <3>2, SeqNarrows
  <2>3. /\ Len(a \o b) = Len(a) + Len(b)
        /\ \A i \in 1..Len(a) + Len(b) : (a \o b)[i] = IF i <= Len(a) THEN a[i] ELSE b[i - Len(a)]
        BY <2>2, ConcatProperties
  <2>4. ASSUME NEW i \in 1..Len(a \o b)
        PROVE  priority((a \o b)[i]) = IF i <= Len(a) THEN 0 ELSE 1
    <3>1. CASE i <= Len(a)
          BY <3>1, <2>1, <2>3
    <3>2. CASE ~(i <= Len(a))
      <4>1. i - Len(a) \in 1..Len(b) /\ (a \o b)[i] = b[i - Len(a)]
            BY <3>2, <2>1, <2>3
      <4> QED BY <4>1, <3>2, <2>1
    <3> QED BY <3>1, <3>2
  <2>5. ASSUME NEW i \in 1..Len(a \o b), NEW j \in 1..Len(a \o b), i < j
        PROVE  priority((a \o b)[i]) <= priority((a \o b)[j])
    <3>1. /\ priority((a \o b)[i]) = IF i <= Len(a) THEN 0 ELSE 1
          /\ priority((a \o b)[j]) = IF j <= Len(a) THEN 0 ELSE 1
          BY <2>4
    <3> QED BY <3>1, <2>1, <2>3, <2>5
  <2> QED BY <2>5 DEF InOrder
<1> QED BY <1>5, <1>7, <1>8, Zenon

\* A window lists its tasks.
LEMMA WindowLists ==
  ASSUME NEW t \in WarmWindows
  PROVE  Lists(t, ToSet(t)) /\ ToSet(t) \subseteq Keys /\ t \in Seq(Keys)
<1>1. PICK m \in 0..WindowSize : t \in [1..m -> Keys]
      BY Zenon DEF WarmWindows, BoundedSeq, SeqOf
<1>2. t \in Seq(Keys) /\ Len(t) = m /\ DOMAIN t = 1..Len(t) /\ m \in Nat
      BY <1>1, WarmAssumption
<1>3. \A i, j \in 1..Len(t) : t[i] = t[j] => i = j
      BY <1>2, Zenon DEF WarmWindows
<1>4. \A i \in 1..Len(t) : t[i] \in ToSet(t)
      BY <1>2 DEF ToSet
<1>5. t \in Seq(ToSet(t))
      BY <1>2, <1>4, SeqNarrows
<1>6. \A x \in ToSet(t) : \E i \in 1..Len(t) : t[i] = x
      BY <1>2, Zenon DEF ToSet
<1>7. \A i, j \in 1..Len(t) : i < j => t[i] # t[j]
      BY <1>2, <1>3
<1>8. Lists(t, ToSet(t))
      BY <1>5, <1>6, <1>7, Zenon DEF Lists
<1>9. ToSet(t) \subseteq Keys
      BY <1>1, <1>2 DEF ToSet
<1> QED BY <1>2, <1>8, <1>9

-----------------------------------------------------------------------------
(* The steps *)

\* What some window wants is what each wants.
LEMMA DesiredIs ==
  ASSUME NEW ws \in [Owners -> SUBSET Keys]
  PROVE  /\ desired(ws) \subseteq Keys
         /\ \A k : k \in desired(ws) <=> \E o \in Owners : k \in ws[o]
  BY DEF desired

\* A window changes: what nobody wants leaves the queue, what is new joins it.
LEMMA setWarmWindowStep ==
  ASSUME WarmInv, NEW o \in Owners, NEW t \in WarmWindows, setWarmWindow(o, t) PROVE WarmInv'
<1>1. PICK wishes, kept, added, all :
        /\ wishes = [windows EXCEPT ![o] = ToSet(t)]
        /\ kept = Kept(warmQueue, desired(wishes))
        /\ added = Kept(t, Keys \ (ToSet(warmed) \cup warming \cup ToSet(kept)))
        /\ all = kept \o added
      OBVIOUS
<1>2. /\ windows' = wishes /\ warmed' = warmed /\ tried' = tried \ ToSet(added)
      /\ drainWarms(byPriority(all), warming)
      BY <1>1, Zenon DEF setWarmWindow
<1>3. Lists(t, ToSet(t)) /\ ToSet(t) \subseteq Keys
      BY WindowLists
<1>4. /\ windows \in [Owners -> SUBSET Keys] /\ wishes \in [Owners -> SUBSET Keys]
      /\ desired(wishes) \subseteq Keys /\ desired(windows) \subseteq Keys
  <2>1. windows \in [Owners -> SUBSET Keys]
        BY DEF WarmInv
  <2>2. wishes \in [Owners -> SUBSET Keys]
        BY <2>1, <1>1, <1>3
  <2> QED BY <2>1, <2>2, DesiredIs
<1>5. /\ ToSet(t) \subseteq desired(wishes)
      /\ desired(wishes) \subseteq desired(windows) \cup ToSet(t)
      /\ desired(windows) \cap desired(wishes) \subseteq desired(windows)
  <2>1. \A p \in Owners : p # o => wishes[p] = windows[p]
        BY <1>1, <1>4
  <2>2. wishes[o] = ToSet(t)
        BY <1>1, <1>4
  <2>3. \A k : k \in desired(wishes) <=> \E p \in Owners : k \in wishes[p]
        BY <1>4, DesiredIs
  <2>4. \A k : k \in desired(windows) <=> \E p \in Owners : k \in windows[p]
        BY <1>4, DesiredIs
  <2> QED BY <2>1, <2>2, <2>3, <2>4, Zenon
<1>6. PICK Q, X, Y : /\ Q = ToSet(warmQueue) /\ X = Q \cap desired(wishes)
                     /\ Y = ToSet(t) \cap (Keys \ (ToSet(warmed) \cup warming \cup ToSet(kept)))
      OBVIOUS
<1>7. /\ Lists(warmQueue, Q) /\ InOrder(warmQueue) /\ Q \cap (warming \cup ToSet(warmed)) = {}
      /\ desired(windows) \subseteq Q \cup warming \cup ToSet(warmed) \cup tried
      BY <1>6, Zenon DEF WarmInv
<1>8. Lists(kept, X) /\ ToSet(kept) = X
  <2>1. Lists(Kept(warmQueue, desired(wishes)), Q \cap desired(wishes))
        BY <1>7, ListsKept
  <2>2. Lists(kept, X)
        BY <2>1, <1>1, <1>6, Zenon
  <2> QED BY <2>2, ListsSome
<1>9. Lists(added, Y) /\ ToSet(added) = Y
  <2>1. Lists(Kept(t, Keys \ (ToSet(warmed) \cup warming \cup ToSet(kept))),
              ToSet(t) \cap (Keys \ (ToSet(warmed) \cup warming \cup ToSet(kept))))
        BY <1>3, ListsKept
  <2>2. Lists(added, Y)
        BY <2>1, <1>1, <1>6, Zenon
  <2> QED BY <2>2, ListsSome
<1>10. X \cap Y = {} /\ X \cup Y \subseteq Keys /\ (X \cup Y) \cap (warming \cup ToSet(warmed)) = {}
       BY <1>3, <1>4, <1>6, <1>7, <1>8
<1>11. Lists(all, X \cup Y)
  <2>1. Lists(kept \o added, X \cup Y)
        BY <1>8, <1>9, <1>10, ListsConcat
  <2> QED BY <2>1, <1>1, Zenon
<1>12. PICK sorted : sorted = byPriority(all)
       OBVIOUS
<1>13. Lists(sorted, X \cup Y) /\ InOrder(sorted)
  <2>1. Lists(byPriority(all), X \cup Y) /\ InOrder(byPriority(all))
        BY <1>10, <1>11, SortedIs
  <2> QED BY <2>1, <1>12, Zenon
<1>14. /\ warming \subseteq Keys /\ IsFiniteSet(warming) /\ Cardinality(warming) <= WarmLimit
       /\ (X \cup Y) \cap (warming \cup ToSet(warmed')) = {}
       /\ drainWarms(sorted, warming)
  <2>1. warming \subseteq Keys /\ IsFiniteSet(warming) /\ Cardinality(warming) <= WarmLimit
        BY DEF WarmInv
  <2>2. (X \cup Y) \cap (warming \cup ToSet(warmed')) = {}
        BY <1>2, <1>10
  <2>3. drainWarms(sorted, warming)
        BY <1>2, <1>12, Zenon
  <2> QED BY <2>1, <2>2, <2>3
<1>15. /\ warming' \subseteq Keys /\ IsFiniteSet(warming') /\ Cardinality(warming') <= WarmLimit
       /\ Lists(warmQueue', ToSet(warmQueue')) /\ InOrder(warmQueue')
       /\ warmQueue' # <<>> => Cardinality(warming') = WarmLimit
       /\ (X \cup Y) \cup warming = ToSet(warmQueue') \cup warming'
       /\ ToSet(warmQueue') \subseteq X \cup Y /\ ToSet(warmQueue') \cap warming' = {}
       /\ warming' \subseteq (X \cup Y) \cup warming
       BY <1>10, <1>13, <1>14, WarmsDrain
<1>16. ToSet(warmQueue') \subseteq desired(windows') /\ ToSet(warmQueue') \cap (warming' \cup ToSet(warmed')) = {}
  <2>1. X \cup Y \subseteq desired(wishes)
        BY <1>5, <1>6
  <2> QED BY <2>1, <1>2, <1>10, <1>15
<1>17. desired(windows') \subseteq ToSet(warmQueue') \cup warming' \cup ToSet(warmed') \cup tried'
  <2>1. PICK QQ, W : QQ = ToSet(warmQueue') /\ W = warming'
        OBVIOUS
  <2>2. X \cup Y \cup warming = QQ \cup W
        BY <2>1, <1>15
  <2>3. tried' = tried \ Y /\ warmed' = warmed /\ desired(windows') = desired(wishes)
        BY <1>2, <1>9
  <2>4. ASSUME NEW k \in desired(wishes) PROVE k \in QQ \cup W \cup ToSet(warmed) \cup (tried \ Y)
    <3>1. CASE k \in ToSet(t)
          BY <3>1, <2>2, <1>3, <1>6, <1>8
    <3>2. CASE k \notin ToSet(t)
          BY <3>2, <2>2, <2>4, <1>5, <1>6, <1>7
    <3> QED BY <3>1, <3>2
  <2> QED BY <2>1, <2>3, <2>4
<1>18. Lists(warmed', ToSet(warmed')) /\ ToSet(warmed') \subseteq Keys /\ Len(warmed') <= Remembered
       BY <1>2 DEF WarmInv
<1>19. windows' \in [Owners -> SUBSET Keys]
       BY <1>2, <1>4
<1> QED BY <1>15, <1>16, <1>17, <1>18, <1>19, Zenon DEF WarmInv

\* An owner goes: the rest of the queue stays in its order.
LEMMA clearWindowStep == ASSUME WarmInv, NEW o \in Owners, clearWindow(o) PROVE WarmInv'
<1>1. /\ windows' = [windows EXCEPT ![o] = {}]
      /\ warmQueue' = Kept(warmQueue, desired(windows'))
      /\ UNCHANGED <<warming, warmed, tried>>
      BY DEF clearWindow
<1>2. PICK Q, D, q, ws : /\ Q = ToSet(warmQueue) /\ D = desired(windows') /\ q = Kept(warmQueue, D)
                         /\ ws = windows'
      OBVIOUS
<1>3. /\ windows \in [Owners -> SUBSET Keys] /\ ws \in [Owners -> SUBSET Keys]
      /\ D = desired(ws) /\ D \subseteq desired(windows)
  <2>1. windows \in [Owners -> SUBSET Keys]
        BY DEF WarmInv
  <2>2. ws \in [Owners -> SUBSET Keys] /\ \A p \in Owners : ws[p] \subseteq windows[p]
        BY <2>1, <1>1, <1>2
  <2>3. D = desired(ws)
        BY <1>2
  <2>4. \A k : k \in desired(ws) <=> \E p \in Owners : k \in ws[p]
        BY <2>2, DesiredIs
  <2>5. \A k : k \in desired(windows) <=> \E p \in Owners : k \in windows[p]
        BY <2>1, DesiredIs
  <2>6. desired(ws) \subseteq desired(windows)
        BY <2>2, <2>4, <2>5
  <2> QED BY <2>1, <2>2, <2>3, <2>6
<1>4. /\ Lists(warmQueue, Q) /\ InOrder(warmQueue) /\ Q \cap (warming \cup ToSet(warmed)) = {}
      /\ Q \subseteq desired(windows)
      /\ desired(windows) \subseteq Q \cup warming \cup ToSet(warmed) \cup tried
      BY <1>2, Zenon DEF WarmInv
<1>5. Lists(q, Q \cap D) /\ InOrder(q)
  <2>1. Lists(Kept(warmQueue, D), Q \cap D)
        BY <1>4, ListsKept
  <2>2. InOrder(Kept(warmQueue, D))
        BY <1>4, OrderKept
  <2> QED BY <2>1, <2>2, <1>2, Zenon
<1>6. Lists(q, ToSet(q)) /\ ToSet(q) = Q \cap D
      BY <1>5, ListsSome
<1>7. q # <<>> => Cardinality(warming) = WarmLimit
  <2>1. q # <<>> => Q # {}
    <3>1. q # <<>> => Len(q) > 0
          BY <1>5, ListsSome
    <3>2. Len(q) > 0 => q[1] \in Q \cap D
          BY <1>5, ListsCount
    <3> QED BY <3>1, <3>2
  <2>2. warmQueue = <<>> => Q = {}
    <3>1. warmQueue = <<>> => Len(warmQueue) = 0
          BY EmptySeq
    <3>2. \A k \in Q : \E a \in 1..Len(warmQueue) : warmQueue[a] = k
          BY <1>4 DEF Lists
    <3> QED BY <3>1, <3>2
  <2> QED BY <2>1, <2>2 DEF WarmInv
<1>8. warmQueue' = q
      BY <1>1, <1>2, Zenon
<1>9. /\ Lists(warmQueue', ToSet(warmQueue')) /\ InOrder(warmQueue')
      /\ ToSet(warmQueue') = Q \cap D
      BY <1>5, <1>6, <1>8, Zenon
<1>10. /\ ToSet(warmQueue') \subseteq desired(windows')
       /\ ToSet(warmQueue') \cap (warming' \cup ToSet(warmed')) = {}
       /\ desired(windows') \subseteq ToSet(warmQueue') \cup warming' \cup ToSet(warmed') \cup tried'
  <2>1. desired(windows') = D
        BY <1>2
  <2>2. warming' = warming /\ ToSet(warmed') = ToSet(warmed) /\ tried' = tried
        BY <1>1
  <2> QED BY <2>1, <2>2, <1>3, <1>4, <1>9
<1>11. /\ windows' \in [Owners -> SUBSET Keys]
       /\ warming' \subseteq Keys /\ IsFiniteSet(warming') /\ Cardinality(warming') <= WarmLimit
       /\ Lists(warmed', ToSet(warmed')) /\ ToSet(warmed') \subseteq Keys /\ Len(warmed') <= Remembered
       /\ warmQueue' # <<>> => Cardinality(warming') = WarmLimit
       BY <1>1, <1>2, <1>3, <1>7, <1>8 DEF WarmInv
<1> QED BY <1>9, <1>10, <1>11, Zenon DEF WarmInv

\* The queue after a request of k ended, whatever is remembered by now.
LEMMA QueueAfterEnd ==
  ASSUME WarmInv, NEW k \in warming, drainWarms(warmQueue, warming \ {k}),
         ToSet(warmed') \subseteq ToSet(warmed) \cup {k}
  PROVE  /\ warming' \subseteq Keys /\ IsFiniteSet(warming') /\ Cardinality(warming') <= WarmLimit
         /\ Lists(warmQueue', ToSet(warmQueue')) /\ InOrder(warmQueue')
         /\ warmQueue' # <<>> => Cardinality(warming') = WarmLimit
         /\ ToSet(warmQueue) \cup (warming \ {k}) = ToSet(warmQueue') \cup warming'
         /\ ToSet(warmQueue') \subseteq desired(windows)
         /\ ToSet(warmQueue') \cap (warming' \cup ToSet(warmed')) = {}
<1>1. PICK Q, R : Q = ToSet(warmQueue) /\ R = warming \ {k}
      OBVIOUS
<1>2. /\ Lists(warmQueue, Q) /\ InOrder(warmQueue) /\ Q \cap (warming \cup ToSet(warmed)) = {}
      /\ Q \subseteq desired(windows)
      /\ warming \subseteq Keys /\ IsFiniteSet(warming) /\ Cardinality(warming) <= WarmLimit
      BY <1>1, Zenon DEF WarmInv
<1>3. Q \subseteq Keys
  <2>1. desired(windows) \subseteq Keys
        BY DesiredIs DEF WarmInv
  <2> QED BY <2>1, <1>2
<1>4. R \subseteq Keys /\ IsFiniteSet(R) /\ Cardinality(R) <= WarmLimit
  <2>1. IsFiniteSet(R) /\ Cardinality(R) = Cardinality(warming) - 1
        BY <1>1, <1>2, FS_RemoveElement
  <2>2. Cardinality(warming) \in Nat /\ WarmLimit \in Nat
        BY <1>2, FS_CardinalityType, WarmAssumption
  <2> QED BY <2>1, <2>2, <1>1, <1>2
<1>5. Q \cap (R \cup ToSet(warmed')) = {}
      BY <1>1, <1>2
<1>6. drainWarms(warmQueue, R)
      BY <1>1, Zenon
<1>7. /\ warming' \subseteq Keys /\ IsFiniteSet(warming') /\ Cardinality(warming') <= WarmLimit
      /\ Lists(warmQueue', ToSet(warmQueue')) /\ InOrder(warmQueue')
      /\ warmQueue' # <<>> => Cardinality(warming') = WarmLimit
      /\ Q \cup R = ToSet(warmQueue') \cup warming'
      /\ ToSet(warmQueue') \subseteq Q /\ ToSet(warmQueue') \cap warming' = {}
      /\ warming' \subseteq Q \cup R
      BY <1>2, <1>3, <1>4, <1>5, <1>6, WarmsDrain
<1> QED BY <1>1, <1>2, <1>5, <1>7

\* A request that ends well is remembered, and the oldest is forgotten if there are
\* too many; one that ends badly will be tried again.
LEMMA warmEndsStep == ASSUME WarmInv, NEW k \in Keys, warmEnds(k) PROVE WarmInv'
<1>1. /\ Lists(warmed, ToSet(warmed)) /\ ToSet(warmed) \subseteq Keys /\ Len(warmed) <= Remembered
      /\ desired(windows) \subseteq ToSet(warmQueue) \cup warming \cup ToSet(warmed) \cup tried
      /\ windows \in [Owners -> SUBSET Keys] /\ Remembered \in Nat \ {0}
      BY WarmAssumption DEF WarmInv
<1>2. k \in warming /\ windows' = windows
      BY DEF warmEnds
<1>3. ASSUME drainWarms(warmQueue, warming \ {k}),
             ToSet(warmed') \subseteq ToSet(warmed) \cup {k},
             Lists(warmed', ToSet(warmed')), Len(warmed') <= Remembered,
             ToSet(warmed) \cup tried \cup {k} \subseteq ToSet(warmed') \cup tried'
      PROVE  WarmInv'
  <2>1. /\ warming' \subseteq Keys /\ IsFiniteSet(warming') /\ Cardinality(warming') <= WarmLimit
        /\ Lists(warmQueue', ToSet(warmQueue')) /\ InOrder(warmQueue')
        /\ warmQueue' # <<>> => Cardinality(warming') = WarmLimit
        /\ ToSet(warmQueue) \cup (warming \ {k}) = ToSet(warmQueue') \cup warming'
        /\ ToSet(warmQueue') \subseteq desired(windows)
        /\ ToSet(warmQueue') \cap (warming' \cup ToSet(warmed')) = {}
        BY <1>2, <1>3, QueueAfterEnd
  <2>2. desired(windows') = desired(windows) /\ windows' \in [Owners -> SUBSET Keys]
        BY <1>1, <1>2
  <2>3. desired(windows) \subseteq ToSet(warmQueue') \cup warming' \cup ToSet(warmed') \cup tried'
    <3>1. PICK Q, W, M, T : /\ Q = ToSet(warmQueue') /\ W = warming' /\ M = ToSet(warmed') /\ T = tried'
          OBVIOUS
    <3>2. /\ ToSet(warmQueue) \cup (warming \ {k}) = Q \cup W
          /\ ToSet(warmed) \cup tried \cup {k} \subseteq M \cup T
          BY <3>1, <2>1, <1>3
    <3>3. desired(windows) \subseteq Q \cup W \cup M \cup T
          BY <3>2, <1>1
    <3> QED BY <3>1, <3>3
  <2>4. ToSet(warmed') \subseteq Keys
        BY <1>1, <1>3
  <2>5. ToSet(warmQueue') \subseteq desired(windows')
        BY <2>1, <2>2
  <2>6. desired(windows') \subseteq ToSet(warmQueue') \cup warming' \cup ToSet(warmed') \cup tried'
        BY <2>2, <2>3
  <2>7. Lists(warmed', ToSet(warmed')) /\ Len(warmed') <= Remembered
        BY <1>3
  <2> QED BY <2>1, <2>2, <2>4, <2>5, <2>6, <2>7, Zenon DEF WarmInv
<1>4. CASE /\ LET all == Append(Kept(warmed, Keys \ {k}), k)
              IN /\ warmed' = IF Len(all) > Remembered THEN Tail(all) ELSE all
                 /\ tried' = tried \cup (ToSet(all) \ ToSet(warmed'))
           /\ drainWarms(warmQueue, warming \ {k})
  <2>1. PICK M, kept, all : M = ToSet(warmed) /\ kept = Kept(warmed, Keys \ {k}) /\ all = Append(kept, k)
        OBVIOUS
  <2>2. /\ warmed' = IF Len(all) > Remembered THEN Tail(all) ELSE all
        /\ tried' = tried \cup (ToSet(all) \ ToSet(warmed'))
        BY <2>1, <1>4, Zenon
  <2>3. Lists(kept, M \cap (Keys \ {k})) /\ Lists(warmed, M)
    <3>1. Lists(Kept(warmed, Keys \ {k}), M \cap (Keys \ {k}))
          BY <1>1, <2>1, ListsKept
    <3> QED BY <3>1, <1>1, <2>1, Zenon
  <2>4. M \cap (Keys \ {k}) = M \ {k} /\ (M \ {k}) \cup {k} = M \cup {k}
        BY <1>1, <2>1
  <2>5. Lists(all, M \cup {k})
    <3>1. Lists(kept, M \ {k})
          BY <2>3, <2>4, Zenon
    <3>2. Lists(Append(kept, k), (M \ {k}) \cup {k})
          BY <3>1, ListsAppend
    <3> QED BY <3>2, <2>1, <2>4, Zenon
  <2>6. Len(all) \in Nat /\ Len(all) > 0 /\ Len(all) <= Remembered + 1
    <3>1. /\ Len(kept) \in Nat /\ Len(warmed) \in Nat /\ Len(kept) = Cardinality(M \cap (Keys \ {k}))
          /\ Len(warmed) = Cardinality(M) /\ IsFiniteSet(M)
          BY <2>3, ListsCount
    <3>2. Cardinality(M \cap (Keys \ {k})) <= Cardinality(M)
          BY <3>1, FS_Subset
    <3>3. Len(all) = Len(kept) + 1
      <4>1. kept \in Seq(M \cap (Keys \ {k}))
            BY <2>3 DEF Lists
      <4>2. kept \in Seq(Keys) /\ k \in Keys
        <5>1. \A i \in 1..Len(kept) : kept[i] \in Keys
              BY <2>3, ListsCount
        <5> QED BY <4>1, <5>1, SeqNarrows
      <4> QED BY <4>2, <2>1, AppendProperties
    <3> QED BY <3>1, <3>2, <3>3, <1>1
  <2>7. PICK next : next = warmed'
        OBVIOUS
  <2>8. PICK N : Lists(next, N) /\ N \subseteq M \cup {k} /\ Len(next) <= Remembered
    <3>1. CASE Len(all) > Remembered
      <4>1. next = Tail(all)
            BY <2>2, <2>7, <3>1
      <4>2. all \in Seq(M \cup {k}) /\ all # <<>>
        <5>1. Lists(all, M \cup {k}) => (all # <<>> <=> Len(all) > 0)
              BY ListsSome
        <5> QED BY <5>1, <2>5, <2>6 DEF Lists
      <4>3. Tail(all) = Behind(all, 1)
            BY <4>2, TailIsSubSeq DEF Behind
      <4>4. 1 \in 0..Len(all)
            BY <2>6
      <4>5. Lists(Behind(all, 1), (M \cup {k}) \ Firsts(all, 1)) /\ Len(Behind(all, 1)) = Len(all) - 1
            BY <2>5, <4>4, ListsFirst
      <4>6. Lists(next, (M \cup {k}) \ Firsts(all, 1)) /\ Len(next) = Len(all) - 1
            BY <4>1, <4>3, <4>5, Zenon
      <4>7. Len(all) - 1 <= Remembered
            BY <2>6, <1>1
      <4>8. (M \cup {k}) \ Firsts(all, 1) \subseteq M \cup {k}
            OBVIOUS
      <4>9. Len(next) <= Remembered
            BY <4>6, <4>7
      <4> QED BY <4>6, <4>8, <4>9, Zenon
    <3>2. CASE ~(Len(all) > Remembered)
      <4>1. next = all
            BY <2>2, <2>7, <3>2
      <4>2. Len(next) <= Remembered
            BY <4>1, <3>2, <2>6, <1>1
      <4> QED BY <4>1, <4>2, <2>5, Zenon
    <3> QED BY <3>1, <3>2
  <2>9. ToSet(next) = N /\ Lists(next, ToSet(next)) /\ ToSet(all) = M \cup {k}
        BY <2>5, <2>8, ListsSome
  <2>10. M \cup tried \cup {k} \subseteq N \cup tried'
    <3>1. tried' = tried \cup ((M \cup {k}) \ N)
          BY <2>2, <2>7, <2>9
    <3> QED BY <3>1
  <2>11. /\ ToSet(warmed') \subseteq ToSet(warmed) \cup {k} /\ Lists(warmed', ToSet(warmed'))
         /\ Len(warmed') <= Remembered
         /\ ToSet(warmed) \cup tried \cup {k} \subseteq ToSet(warmed') \cup tried'
    <3>1. ToSet(warmed') = N
          BY <2>7, <2>9
    <3>2. Lists(warmed', ToSet(warmed')) /\ Len(warmed') <= Remembered
          BY <2>7, <2>8, <2>9, Zenon
    <3> QED BY <3>1, <3>2, <2>1, <2>8, <2>10
  <2> QED BY <2>11, <1>3, <1>4
<1>5. CASE warmed' = warmed /\ tried' = tried \cup {k} /\ drainWarms(warmQueue, warming \ {k})
  <2>1. /\ ToSet(warmed') \subseteq ToSet(warmed) \cup {k} /\ Lists(warmed', ToSet(warmed'))
        /\ Len(warmed') <= Remembered
        /\ ToSet(warmed) \cup tried \cup {k} \subseteq ToSet(warmed') \cup tried'
        BY <1>1, <1>5
  <2> QED BY <2>1, <1>3, <1>5
<1>6. \/ /\ LET all == Append(Kept(warmed, Keys \ {k}), k)
            IN /\ warmed' = IF Len(all) > Remembered THEN Tail(all) ELSE all
               /\ tried' = tried \cup (ToSet(all) \ ToSet(warmed'))
         /\ drainWarms(warmQueue, warming \ {k})
      \/ warmed' = warmed /\ tried' = tried \cup {k} /\ drainWarms(warmQueue, warming \ {k})
      BY Zenon DEF warmEnds
<1> QED BY <1>4, <1>5, <1>6

\* At first nothing is wishes.
LEMMA WarmStarts == ASSUME WarmInit PROVE WarmInv
<1>1. /\ windows = [o \in Owners |-> {}] /\ warmQueue = <<>> /\ warming = {} /\ warmed = <<>> /\ tried = {}
      BY DEF WarmInit
<1>2. Lists(<<>>, ToSet(<<>>)) /\ ToSet(<<>>) = {}
      BY ListsNothing, ListsSome
<1>3. Len(<<>>) = 0 /\ IsFiniteSet({}) /\ Cardinality({}) = 0
      BY EmptySeq, FS_EmptySet
<1>4. desired(windows) = {}
      BY <1>1 DEF desired
<1>5. Lists(warmed, ToSet(warmed)) /\ ToSet(warmed) = {} /\ Len(warmed) = 0
      BY <1>1, <1>2, <1>3, Zenon
<1>6. Lists(warmQueue, ToSet(warmQueue)) /\ ToSet(warmQueue) = {} /\ Len(warmQueue) = 0
      BY <1>1, <1>2, <1>3, Zenon
<1>7. IsFiniteSet(warming) /\ Cardinality(warming) = 0
      BY <1>1, <1>3, Zenon
<1>8. InOrder(warmQueue)
  <2>1. \A i \in 1..Len(warmQueue) : FALSE
        BY <1>6
  <2> QED BY <2>1 DEF InOrder
<1>9. windows \in [Owners -> SUBSET Keys] /\ warming \subseteq Keys
      BY <1>1
<1>10. Cardinality(warming) <= WarmLimit /\ Len(warmed) <= Remembered
       BY <1>5, <1>7, WarmAssumption
<1>11. /\ ToSet(warmed) \subseteq Keys /\ ToSet(warmQueue) \subseteq desired(windows)
       /\ ToSet(warmQueue) \cap (warming \cup ToSet(warmed)) = {}
       /\ desired(windows) \subseteq ToSet(warmQueue) \cup warming \cup ToSet(warmed) \cup tried
       BY <1>4, <1>5, <1>6
<1> QED BY <1>1, <1>5, <1>6, <1>7, <1>8, <1>9, <1>10, <1>11, Zenon DEF WarmInv

\* Every step keeps the invariant.
LEMMA WarmKeeps == ASSUME WarmInv, [WarmNext]_warmVars PROVE WarmInv'
<1>1. CASE UNCHANGED warmVars
      BY <1>1 DEF WarmInv, warmVars
<1>2. CASE WarmNext
  <2>1. ASSUME NEW o \in Owners, clearWindow(o) PROVE WarmInv'
        BY <2>1, clearWindowStep
  <2>2. ASSUME NEW o \in Owners, NEW t \in WarmWindows, setWarmWindow(o, t) PROVE WarmInv'
        BY <2>2, setWarmWindowStep
  <2>3. ASSUME NEW k \in Keys, warmEnds(k) PROVE WarmInv'
        BY <2>3, warmEndsStep
  <2> QED BY <1>2, <2>1, <2>2, <2>3, Zenon DEF WarmNext
<1> QED BY <1>1, <1>2

\* The invariant says what WarmQueueIsExact says, and that the memory holds a key once.
LEMMA WarmIsExact == ASSUME WarmInv PROVE WarmQueueIsExact
<1>1. DOMAIN warmQueue = 1..Len(warmQueue) /\ Lists(warmQueue, ToSet(warmQueue)) /\ InOrder(warmQueue)
      BY ListsCount DEF WarmInv
<1>2. \A i, j \in DOMAIN warmQueue :
        i < j => warmQueue[i] # warmQueue[j] /\ priority(warmQueue[i]) <= priority(warmQueue[j])
      BY <1>1 DEF Lists, InOrder
<1> QED BY <1>2, Zenon DEF WarmInv, WarmQueueIsExact

\* The preload queue holds, once each and the playing video's chunks first, what
\* some window wants and nobody is fetching, no slot idles while it has something,
\* and nothing wishes is lost, for any owners, keys, limits and windows.
THEOREM WarmQueueIsAlwaysExact == WarmSpec => []WarmQueueIsExact
<1>1. WarmInit => WarmInv
      BY WarmStarts
<1>2. WarmInv /\ [WarmNext]_warmVars => WarmInv'
      BY WarmKeeps
<1>3. WarmInv => WarmQueueIsExact
      BY WarmIsExact
<1> QED BY <1>1, <1>2, <1>3, PTL DEF WarmSpec

-------------------------------------------------------------------------------
(* FilePreviews.                                                              *)

Files == Texts \cup Images \cup Videos \cup Others
Windows == [file : Files \cup {Nothing}, chunk : Nat, ahead : Nat]

TextStates == [content : Files \cup {Nothing, ""}, loading : BOOLEAN, error : BOOLEAN]
RequestStates == [file : Files \cup {Nothing}, heard : BOOLEAN]
PictureStates == [loading : BOOLEAN, error : BOOLEAN, element : {"loading", "loaded", "failed", Nothing}]
VideoStates == [currentChunk : Int, known : BOOLEAN, at : Nat, window : Windows, left : Windows]

PreviewsTypeOK ==
  /\ shown \in Files /\ effectsDue \in BOOLEAN /\ ahead \in Aheads /\ early \in BOOLEAN
  /\ text \in TextStates
  /\ request \in [Requests -> RequestStates]
  /\ picture \in PictureStates
  /\ video \in VideoStates

\* One request is heard at most, and none for a file without a text to fetch.
TextInv ==
  /\ shown \notin Texts => ~text.loading
  /\ ~effectsDue => /\ TextIsTrue
                    /\ \A q, r \in Heard : q = r
                    /\ shown \notin Texts \ Empties => Heard = {}
\* The effects find a picture that was not yet done, unless it was early.
ImageInv ==
  /\ shown \notin Images => picture.element = Nothing
  /\ effectsDue /\ ~early /\ shown \in Images => picture.element \in {"loading", Nothing}
  /\ ~effectsDue => ImageIsTrue /\ (picture.error => picture.element = Nothing)
\* The chunk the window was made for is the one that plays.
WindowInv ==
  ~effectsDue => /\ WindowIsCurrent
                 /\ shown \in Videos => IF video.known /\ ChunksOf[shown] > 0 THEN video.currentChunk = video.at
                                        ELSE video.currentChunk = -1
PreviewsInv == PreviewsTypeOK /\ TextInv /\ ImageInv /\ WindowInv
-----------------------------------------------------------------------------
LEMMA PreviewsInvInit == PreviewsInit => PreviewsInv
<1> SUFFICES ASSUME PreviewsInit PROVE PreviewsInv
  OBVIOUS
<1>1. shown \notin Texts /\ shown \notin Images /\ shown \notin Videos /\ shown \in Files /\ effectsDue = FALSE
  BY PreviewsAssumption DEF PreviewsInit, Files
<1>2. NoWindow \in Windows /\ NoRequest \in RequestStates /\ ~NoRequest.heard
  BY DEF NoWindow, Windows, NoRequest, RequestStates
<1>3. text \in TextStates /\ ~text.loading
  <2>1. (shown \in Texts \ Empties) = FALSE
    BY <1>1
  <2> QED BY <2>1 DEF PreviewsInit, NewText, TextStates
<1>4. picture = [loading |-> TRUE, error |-> FALSE, element |-> Nothing]
  BY <1>1 DEF PreviewsInit, NewImage
<1>5. video = [currentChunk |-> -1, known |-> FALSE, at |-> 0, window |-> NoWindow, left |-> NoWindow]
  BY DEF PreviewsInit, NewVideo
<1>6. PreviewsTypeOK
  <2>1. request \in [Requests -> RequestStates]
    BY <1>2 DEF PreviewsInit
  <2>2. picture \in PictureStates
    BY <1>4 DEF PictureStates
  <2>3. video \in VideoStates
    BY <1>2, <1>5 DEF VideoStates
  <2> QED BY <1>1, <1>3, <2>1, <2>2, <2>3 DEF PreviewsInit, PreviewsTypeOK
<1>7. Heard = {}
  BY <1>2 DEF PreviewsInit, Heard
<1> QED BY <1>1, <1>3, <1>4, <1>5, <1>6, <1>7
        DEF PreviewsInv, TextInv, ImageInv, WindowInv, TextIsTrue, ImageIsTrue, WindowIsCurrent

(* What each action leaves alone and brings about, part by part.              *)
LEMMA VideoSet ==
  ASSUME NEW v \in VideoStates, NEW c \in Int, NEW w \in Windows
  PROVE  LET u == [v EXCEPT !.currentChunk = c, !.window = w]
         IN u \in VideoStates /\ u.currentChunk = c /\ u.window = w /\ u.left = v.left /\ (u.known <=> v.known) /\ u.at = v.at
  BY DEF VideoStates

LEMMA VideoCleared ==
  ASSUME NEW v \in VideoStates, NEW w \in Windows
  PROVE  LET u == [v EXCEPT !.currentChunk = -1, !.window = w, !.left = w]
         IN u \in VideoStates /\ u.currentChunk = -1 /\ u.window = w /\ u.left = w /\ (u.known <=> v.known) /\ u.at = v.at
<1>0. PICK c \in Int : c = -1
  OBVIOUS
<1> DEFINE x == [v EXCEPT !.currentChunk = c, !.window = w]
           u == [v EXCEPT !.currentChunk = c, !.window = w, !.left = w]
<1>1. x \in VideoStates /\ x.currentChunk = c /\ x.window = w /\ (x.known <=> v.known) /\ x.at = v.at
  BY DEF VideoStates
<1>2. u = [x EXCEPT !.left = w]
  OBVIOUS
<1> HIDE DEF x, u
<1>3. u \in VideoStates /\ u.currentChunk = x.currentChunk /\ u.window = x.window /\ u.left = w
      /\ (u.known <=> x.known) /\ u.at = x.at
  BY <1>1, <1>2 DEF VideoStates
<1> QED BY <1>0, <1>1, <1>3 DEF u

LEMMA SyncedFacts ==
  ASSUME PreviewsTypeOK, shown \in Videos, NEW v,
         v \in VideoStates
  PROVE  /\ Synced(v) \in VideoStates
         /\ Synced(v).left = v.left /\ (Synced(v).known <=> v.known) /\ Synced(v).at = v.at
         /\ ChunksOf[shown] = 0 => Synced(v).window = NoWindow /\ Synced(v).currentChunk = v.currentChunk
         /\ ChunksOf[shown] # 0 /\ v.at = v.currentChunk => Synced(v) = v
         /\ ChunksOf[shown] # 0 /\ v.at # v.currentChunk =>
              Synced(v).window = [file |-> shown, chunk |-> v.at, ahead |-> ahead] /\ Synced(v).currentChunk = v.at
<1>1. NoWindow \in Windows /\ [file |-> shown, chunk |-> v.at, ahead |-> ahead] \in Windows
  BY PreviewsAssumption DEF NoWindow, Windows, PreviewsTypeOK, VideoStates
<1>a. v.currentChunk \in Int /\ v.at \in Int
  BY DEF VideoStates
<1>2. CASE ChunksOf[shown] = 0
  <2>1. Synced(v) = [v EXCEPT !.window = NoWindow]
    BY <1>2 DEF Synced
  <2> QED BY <1>1, <1>2, <2>1 DEF VideoStates
<1>3. CASE ChunksOf[shown] # 0 /\ v.at = v.currentChunk
  BY <1>3 DEF Synced
<1>4. CASE ChunksOf[shown] # 0 /\ v.at # v.currentChunk
  <2> DEFINE w == [file |-> shown, chunk |-> v.at, ahead |-> ahead]
  <2>1. Synced(v) = [v EXCEPT !.currentChunk = v.at, !.window = w] /\ w \in Windows
    BY <1>1, <1>4 DEF Synced
  <2> HIDE DEF w
  <2>2. LET u == [v EXCEPT !.currentChunk = v.at, !.window = w]
        IN u \in VideoStates /\ u.currentChunk = v.at /\ u.window = w /\ u.left = v.left /\ (u.known <=> v.known) /\ u.at = v.at
    BY <2>1, <1>a, VideoSet
  <2> QED BY <1>4, <2>1, <2>2 DEF w
<1> QED BY <1>2, <1>3, <1>4

LEMMA textEffectKeeps ==
  ASSUME PreviewsTypeOK, TextInv, effectsDue, effectsDue' = FALSE, shown' = shown, textEffect
  PROVE  TextInv'
         /\ text' \in TextStates
         /\ request' \in [Requests -> RequestStates]
<1>1. /\ Aborted \in [Requests -> RequestStates]
      /\ \A q \in Requests : ~Aborted[q].heard
  BY DEF Aborted, PreviewsTypeOK, RequestStates
<1>2. CASE shown \in Texts \ Empties
  <2>1. PICK q \in Free : /\ request' = [Aborted EXCEPT ![q] = [file |-> shown, heard |-> TRUE]]
                          /\ text' = [text EXCEPT !.loading = TRUE, !.error = FALSE]
    BY <1>2 DEF textEffect
  <2>2. q \in Requests
    BY DEF Free
  <2>3. request' \in [Requests -> RequestStates]
        /\ request'[q].file = shown /\ request'[q].heard
        /\ \A r \in Requests : r # q => ~request'[r].heard
    BY <1>1, <2>1, <2>2 DEF PreviewsTypeOK, RequestStates
  <2>4. Heard' = {q}
    BY <2>2, <2>3 DEF Heard
  <2>5. text' \in TextStates /\ text'.loading
    BY <2>1 DEF PreviewsTypeOK, TextStates
  <2> QED BY <1>2, <2>3, <2>4, <2>5 DEF TextInv, TextIsTrue
<1>3. CASE shown \notin Texts \ Empties
  <2>1. request' = Aborted /\ text' = IF shown \in Texts THEN [content |-> "", loading |-> FALSE, error |-> FALSE] ELSE text
    BY <1>3 DEF textEffect
  <2>2. Heard' = {}
    BY <2>1, <1>1 DEF Heard
  <2>3. text' \in TextStates
        /\ ~text'.loading /\ (shown \in Texts => text'.content = "")
    BY <2>1 DEF PreviewsTypeOK, TextInv, TextStates
  <2> QED BY <1>1, <1>3, <2>1, <2>2, <2>3 DEF TextInv, TextIsTrue
<1> QED BY <1>2, <1>3

LEMMA imageEffectKeeps ==
  ASSUME PreviewsTypeOK, ImageInv, effectsDue, effectsDue' = FALSE, shown' = shown, early' = early, imageEffect
  PROVE  ImageInv'
         /\ picture' \in PictureStates
<1>1. CASE shown \in Images
  <2>1. picture' = [loading |-> TRUE, error |-> FALSE,
                    element |-> IF picture.element = Nothing THEN "loading" ELSE picture.element]
    BY <1>1 DEF imageEffect
  <2>2. picture.element \in {"loading", "loaded", "failed", Nothing}
    BY DEF PreviewsTypeOK, PictureStates
  <2>3. picture'.loading /\ ~picture'.error /\ picture'.element \in {"loading", "loaded", "failed"}
        /\ (~early => picture'.element = "loading")
    BY <1>1, <2>1, <2>2 DEF ImageInv, Nothing
  <2> QED BY <1>1, <2>1, <2>2, <2>3 DEF ImageInv, ImageIsTrue, Nothing, PictureStates
<1>2. CASE shown \notin Images
  <2>1. picture' = picture
    BY <1>2 DEF imageEffect
  <2> QED BY <1>2, <2>1 DEF ImageInv, ImageIsTrue, PreviewsTypeOK
<1> QED BY <1>1, <1>2

LEMMA videoEffectKeeps ==
  ASSUME PreviewsTypeOK, effectsDue' = FALSE, shown' = shown, ahead' = ahead, videoEffect
  PROVE  WindowInv'
         /\ video' \in VideoStates
<1> DEFINE cleared == [video EXCEPT !.currentChunk = -1, !.window = NoWindow, !.left = NoWindow]
<1>1. /\ cleared \in VideoStates
      /\ cleared.currentChunk = -1 /\ cleared.window = NoWindow /\ cleared.left = NoWindow
      /\ (cleared.known <=> video.known) /\ cleared.at \in Nat
  <2>1. NoWindow \in Windows /\ video \in VideoStates
    BY DEF PreviewsTypeOK, NoWindow, Windows
  <2>2. video.at \in Nat
    BY <2>1 DEF VideoStates
  <2> QED BY <2>1, <2>2, VideoCleared
<1>2. video' = IF shown \in Videos /\ video.known THEN Synced(cleared) ELSE cleared
  BY DEF videoEffect
<1> HIDE DEF cleared
<1>3. shown \in Videos => ChunksOf[shown] \in Nat
  BY PreviewsAssumption
<1>4. CASE shown \in Videos /\ video.known
  <2>1. cleared.at # cleared.currentChunk
    BY <1>1
  <2>2. video' = Synced(cleared)
    BY <1>2, <1>4
  <2>3. /\ video' \in VideoStates
        /\ video'.left = NoWindow /\ video'.known /\ video'.at = cleared.at
        /\ ChunksOf[shown] = 0 => video'.window = NoWindow /\ video'.currentChunk = -1
        /\ ChunksOf[shown] # 0 => video'.window = [file |-> shown, chunk |-> cleared.at, ahead |-> ahead]
                                  /\ video'.currentChunk = cleared.at
    BY <1>1, <1>4, <2>1, <2>2, SyncedFacts
  <2> QED BY <1>3, <1>4, <2>3 DEF WindowInv, WindowIsCurrent
<1>5. CASE ~(shown \in Videos /\ video.known)
  BY <1>1, <1>2, <1>5 DEF WindowInv, WindowIsCurrent
<1> QED BY <1>4, <1>5

LEMMA effectsKeepPreviews ==
  ASSUME PreviewsInv, effects
  PROVE  PreviewsInv'
<1>0. PreviewsTypeOK /\ TextInv /\ ImageInv /\ effectsDue /\ effectsDue' = FALSE
      /\ shown' = shown /\ ahead' = ahead /\ early' = early /\ textEffect /\ imageEffect /\ videoEffect
  BY DEF PreviewsInv, effects
<1>1. TextInv' /\ text' \in TextStates
      /\ request' \in [Requests -> RequestStates]
  BY <1>0, textEffectKeeps
<1>2. ImageInv' /\ picture' \in PictureStates
  BY <1>0, imageEffectKeeps
<1>3. WindowInv' /\ video' \in VideoStates
  BY <1>0, videoEffectKeeps
<1>4. PreviewsTypeOK'
  BY <1>0, <1>1, <1>2, <1>3 DEF PreviewsTypeOK
<1> QED BY <1>1, <1>2, <1>3, <1>4 DEF PreviewsInv

-----------------------------------------------------------------------------
\* The effects are still to come, and read what is there then.
LEMMA showFileKeepsPreviews ==
  ASSUME PreviewsInv, NEW f \in Files, ~effectsDue, showFile(f)
  PROVE  PreviewsInv'
<1>0. PreviewsTypeOK /\ TextInv /\ ImageInv /\ shown' = f /\ effectsDue' = TRUE /\ early' = FALSE /\ ahead' = ahead
  BY DEF PreviewsInv, showFile
<1>1. NoWindow \in Windows
  BY DEF NoWindow, Windows
<1>2. CASE showAnew(f)
  <2>1. text' = [content |-> Nothing, loading |-> f \in Texts \ Empties, error |-> FALSE]
        /\ picture' = [loading |-> TRUE, error |-> FALSE, element |-> IF f \in Images THEN "loading" ELSE Nothing]
        /\ video' = [currentChunk |-> -1, known |-> FALSE, at |-> 0, window |-> NoWindow, left |-> video.window]
        /\ request' = [q \in Requests |-> [request[q] EXCEPT !.heard = FALSE]]
    BY <1>2 DEF showAnew, NewText, NewImage, NewVideo
  <2>2. text' \in TextStates /\ (text'.loading <=> f \in Texts \ Empties)
    <3>1. CASE f \in Texts \ Empties
      <4>1. (f \in Texts \ Empties) = TRUE
        BY <3>1
      <4>2. text' = [content |-> Nothing, loading |-> TRUE, error |-> FALSE]
        BY <2>1, <4>1
      <4> QED BY <3>1, <4>2 DEF TextStates
    <3>2. CASE f \notin Texts \ Empties
      <4>1. (f \in Texts \ Empties) = FALSE
        BY <3>2
      <4>2. text' = [content |-> Nothing, loading |-> FALSE, error |-> FALSE]
        BY <2>1, <4>1
      <4> QED BY <3>2, <4>2 DEF TextStates
    <3> QED BY <3>1, <3>2
  <2>3. picture' \in PictureStates /\ picture'.element = IF f \in Images THEN "loading" ELSE Nothing
    BY <2>1 DEF PictureStates
  <2>4. video' \in VideoStates
    BY <1>0, <1>1, <2>1 DEF PreviewsTypeOK, VideoStates
  <2>5. request' \in [Requests -> RequestStates]
    BY <1>0, <2>1 DEF PreviewsTypeOK, RequestStates
  <2>6. PreviewsTypeOK'
    BY <1>0, <2>2, <2>3, <2>4, <2>5 DEF PreviewsTypeOK
  <2> QED BY <1>0, <2>2, <2>3, <2>6 DEF PreviewsInv, TextInv, ImageInv, WindowInv
<1>3. CASE showInPlace(f)
  <2>1. picture' = [picture EXCEPT !.element = IF f \in Images /\ ~picture.error THEN "loading" ELSE Nothing]
        /\ video' = [video EXCEPT !.known = FALSE, !.at = 0]
        /\ UNCHANGED <<text, request>>
    BY <1>3 DEF showInPlace
  <2>2. PreviewsTypeOK'
    <3>1. picture' \in PictureStates
      <4>1. PICK e \in PictureStates' : e \in PictureStates /\ picture = e
        BY <1>0 DEF PreviewsTypeOK, PictureStates
      <4> QED BY <2>1, <1>0 DEF PreviewsTypeOK, PictureStates
    <3>2. video' \in VideoStates
      BY <1>0, <2>1 DEF PreviewsTypeOK, VideoStates
    <3> QED BY <1>0, <2>1, <3>1, <3>2 DEF PreviewsTypeOK
  <2>3. f \notin Texts => shown \notin Texts
    BY <1>3, PreviewsAssumption DEF showInPlace, Kind
  <2>4. picture'.element = IF f \in Images /\ ~picture.error THEN "loading" ELSE Nothing
    BY <1>0, <2>1 DEF PreviewsTypeOK
  <2> QED BY <1>0, <2>1, <2>2, <2>3, <2>4 DEF PreviewsInv, TextInv, ImageInv, WindowInv
<1> QED BY <1>2, <1>3 DEF showFile

LEMMA renderingKeepsPreviews ==
  ASSUME PreviewsInv, ~effectsDue, tryAgain \/ renderAgain \/ \E n \in Aheads : setPreloadNext(n)
  PROVE  PreviewsInv'
<1>0. PreviewsTypeOK /\ TextInv /\ ImageInv /\ WindowInv /\ UNCHANGED <<shown, text, request, picture, video>>
  BY DEF PreviewsInv, tryAgain, renderAgain, setPreloadNext
<1>1. CASE tryAgain
  <2>1. effectsDue' = TRUE /\ early' = FALSE /\ ahead' = ahead
        /\ (shown \in Images => picture.element = Nothing)
    BY <1>0, <1>1, PreviewsAssumption DEF tryAgain, ImageInv
  <2> QED BY <1>0, <2>1 DEF PreviewsInv, PreviewsTypeOK, TextInv, ImageInv, WindowInv
<1>2. CASE renderAgain
  <2>1. effectsDue' = TRUE /\ early' = early /\ ahead' = ahead /\ shown \notin Images
    BY <1>0, <1>2, PreviewsAssumption DEF renderAgain
  <2> QED BY <1>0, <2>1 DEF PreviewsInv, PreviewsTypeOK, TextInv, ImageInv, WindowInv
<1>3. CASE \E n \in Aheads : setPreloadNext(n)
  <2>1. effectsDue' = (shown \in Videos) /\ early' = early /\ ahead' \in Aheads
    BY <1>3 DEF setPreloadNext
  <2>2. Heard' = Heard
    BY <1>0 DEF Heard
  <2>3. PreviewsTypeOK'
    BY <1>0, <2>1 DEF PreviewsTypeOK
  <2>4. TextInv'
    BY <1>0, <2>2 DEF TextInv, TextIsTrue
  <2>5. ImageInv'
    BY <1>0, <2>1, PreviewsAssumption DEF ImageInv, ImageIsTrue
  <2>6. WindowInv'
    BY <1>0, <2>1 DEF WindowInv, WindowIsCurrent
  <2> QED BY <2>3, <2>4, <2>5, <2>6 DEF PreviewsInv
<1> QED BY <1>1, <1>2, <1>3

LEMMA textKeepsPreviews ==
  ASSUME PreviewsInv, NEW q \in Requests, textArrives(q) \/ textFails(q)
  PROVE  PreviewsInv'
<1>0. PreviewsTypeOK /\ TextInv /\ ImageInv /\ WindowInv /\ UNCHANGED <<shown, effectsDue, ahead, picture, early, video>>
      /\ request' = [request EXCEPT ![q] = NoRequest]
  BY DEF PreviewsInv, textArrives, textFails
<1>1. /\ NoRequest \in RequestStates /\ ~NoRequest.heard
      /\ request'[q] = NoRequest /\ \A r \in Requests : r # q => request'[r] = request[r]
  BY <1>0 DEF NoRequest, PreviewsTypeOK, RequestStates
<1>2. Heard' = Heard \ {q} /\ (q \in Heard <=> request[q].heard)
  BY <1>1 DEF Heard
<1>3. CASE ~request[q].heard
  <2>1. text' = text /\ Heard' = Heard /\ \A r \in Heard : request'[r] = request[r]
    BY <1>1, <1>2, <1>3 DEF textArrives, textFails, Heard
  <2>2. PreviewsTypeOK'
    BY <1>0, <1>1, <2>1 DEF PreviewsTypeOK
  <2>3. TextInv'
    BY <1>0, <2>1 DEF TextInv, TextIsTrue
  <2> QED BY <1>0, <2>2, <2>3 DEF PreviewsInv, ImageInv, ImageIsTrue, WindowInv, WindowIsCurrent
<1>4. CASE request[q].heard
  <2>1. /\ text' \in TextStates /\ ~text'.loading
        /\ text'.error \/ text'.content = request[q].file
    <3>1. CASE textArrives(q)
      BY <1>0, <1>4, <3>1 DEF textArrives, PreviewsTypeOK, TextStates,RequestStates
    <3>2. CASE textFails(q)
      BY <1>0, <1>4, <3>2 DEF textFails, PreviewsTypeOK, TextStates,RequestStates
    <3> QED BY <3>1, <3>2
  <2>2. PreviewsTypeOK'
    BY <1>0, <1>1, <2>1 DEF PreviewsTypeOK
  <2>3. ~effectsDue => Heard' = {} /\ request[q].file = shown /\ shown \in Texts \ Empties
    <3> SUFFICES ASSUME ~effectsDue PROVE Heard' = {} /\ request[q].file = shown /\ shown \in Texts \ Empties
      OBVIOUS
    <3>1. q \in Heard /\ \A r \in Heard : r = q
      BY <1>0, <1>2, <1>4 DEF TextInv
    <3>2. \A r \in Heard : request[r].file = shown
      BY <1>0 DEF TextInv, TextIsTrue
    <3>3. shown \in Texts \ Empties
      BY <1>0, <3>1 DEF TextInv
    <3> QED BY <1>2, <3>1, <3>2, <3>3
  <2>4. TextInv'
    <3>1. text'.error \in BOOLEAN /\ text'.loading = FALSE
      BY <2>1 DEF TextStates
    <3>2. ~effectsDue => TextIsTrue'
      BY <1>0, <2>1, <2>3, <3>1 DEF TextIsTrue
    <3> QED BY <1>0, <2>1, <2>3, <3>2 DEF TextInv
  <2> QED BY <1>0, <2>2, <2>4 DEF PreviewsInv, ImageInv, ImageIsTrue, WindowInv, WindowIsCurrent
<1> QED BY <1>3, <1>4

LEMMA imageKeepsPreviews ==
  ASSUME PreviewsInv, imageLoads \/ imageFails
  PROVE  PreviewsInv'
<1>0. PreviewsTypeOK /\ TextInv /\ ImageInv /\ WindowInv /\ UNCHANGED <<shown, effectsDue, ahead, text, request, video>>
      /\ picture.element = "loading" /\ early' = effectsDue
  BY DEF PreviewsInv, imageLoads, imageFails
<1>1. shown \in Images /\ (~effectsDue => ~picture.error)
  BY <1>0 DEF ImageInv, Nothing
<1>2. /\ picture' \in PictureStates
      /\ ~picture'.loading /\ picture'.element # "loading"
      /\ ~effectsDue => (picture'.error <=> picture'.element = Nothing)
  <2>1. CASE imageLoads
    BY <1>0, <1>1, <2>1 DEF imageLoads, PreviewsTypeOK, Nothing, PictureStates
  <2>2. CASE imageFails
    BY <1>0, <2>2 DEF imageFails, PreviewsTypeOK, Nothing, PictureStates
  <2> QED BY <2>1, <2>2
<1>3. PreviewsTypeOK'
  BY <1>0, <1>2 DEF PreviewsTypeOK
<1>4. TextInv'
  <2>1. Heard' = Heard
    BY <1>0 DEF Heard
  <2> QED BY <1>0, <2>1 DEF TextInv, TextIsTrue
<1>5. ImageInv'
  BY <1>0, <1>1, <1>2 DEF ImageInv, ImageIsTrue
<1> QED BY <1>0, <1>3, <1>4, <1>5 DEF PreviewsInv, WindowInv, WindowIsCurrent

LEMMA videoKeepsPreviews ==
  ASSUME PreviewsInv, videoMoves
  PROVE  PreviewsInv'
<1>0. PreviewsTypeOK /\ TextInv /\ ImageInv /\ WindowInv
      /\ UNCHANGED <<shown, effectsDue, ahead, text, request, picture, early>> /\ shown \in Videos
  BY DEF PreviewsInv, videoMoves
<1>1. PICK chunk \in Nat : video' = Synced([video EXCEPT !.known = TRUE, !.at = chunk])
  <2>1. PICK chunk \in 0..ChunksOf[shown] : video' = Synced([video EXCEPT !.known = TRUE, !.at = chunk])
    BY DEF videoMoves
  <2>2. chunk \in Nat
    BY <1>0, PreviewsAssumption
  <2> QED BY <2>1, <2>2
<1> DEFINE v == [video EXCEPT !.known = TRUE, !.at = chunk]
<1>2. /\ v \in VideoStates
      /\ v.known /\ v.at = chunk /\ v.currentChunk = video.currentChunk
      /\ v.window = video.window /\ v.left = video.left
  BY <1>0 DEF PreviewsTypeOK, VideoStates
<1>a. video' = Synced(v)
  BY <1>1
<1> HIDE DEF v
<1>3. /\ video' \in VideoStates
      /\ video'.left = video.left /\ video'.known /\ video'.at = chunk
      /\ ChunksOf[shown] = 0 => video'.window = NoWindow /\ video'.currentChunk = video.currentChunk
      /\ ChunksOf[shown] # 0 /\ chunk = video.currentChunk =>
           video'.window = video.window /\ video'.currentChunk = chunk
      /\ ChunksOf[shown] # 0 /\ chunk # video.currentChunk =>
           video'.window = [file |-> shown, chunk |-> chunk, ahead |-> ahead] /\ video'.currentChunk = chunk
  BY <1>0, <1>2, <1>a, SyncedFacts
<1>4. ChunksOf[shown] \in Nat
  BY <1>0, PreviewsAssumption
<1>5. PreviewsTypeOK'
  BY <1>0, <1>3 DEF PreviewsTypeOK
<1>6. TextInv'
  <2>1. Heard' = Heard
    BY <1>0 DEF Heard
  <2> QED BY <1>0, <2>1 DEF TextInv, TextIsTrue
<1>7. ImageInv'
  BY <1>0 DEF ImageInv, ImageIsTrue
<1>8. WindowInv'
  <2> SUFFICES ASSUME ~effectsDue PROVE WindowIsCurrent' /\ (IF ChunksOf[shown] > 0 THEN video'.currentChunk = video'.at
                                                            ELSE video'.currentChunk = -1)
    BY <1>0, <1>3 DEF WindowInv
  <2>1. video.left = NoWindow
    BY <1>0 DEF WindowInv, WindowIsCurrent
  <2>2. CASE ChunksOf[shown] = 0
    <3>1. video.currentChunk = -1
      BY <1>0, <1>4, <2>2 DEF WindowInv
    <3> QED BY <1>0, <1>3, <2>1, <2>2, <3>1 DEF WindowIsCurrent
  <2>3. CASE ChunksOf[shown] # 0 /\ chunk # video.currentChunk
    BY <1>0, <1>3, <1>4, <2>1, <2>3 DEF WindowIsCurrent
  <2>4. CASE ChunksOf[shown] # 0 /\ chunk = video.currentChunk
    <3>1. video.known /\ video.at = chunk
      BY <1>0, <1>4, <2>4 DEF WindowInv
    <3>2. video.window = [file |-> shown, chunk |-> chunk, ahead |-> ahead]
      BY <1>0, <1>4, <2>4, <3>1 DEF WindowInv, WindowIsCurrent
    <3> QED BY <1>0, <1>3, <1>4, <2>1, <2>4, <3>2 DEF WindowIsCurrent
  <2> QED BY <2>2, <2>3, <2>4
<1> QED BY <1>5, <1>6, <1>7, <1>8 DEF PreviewsInv

-----------------------------------------------------------------------------
LEMMA PreviewsInvNext == PreviewsInv /\ [PreviewsNext]_previewVars => PreviewsInv'
<1> SUFFICES ASSUME PreviewsInv, [PreviewsNext]_previewVars PROVE PreviewsInv'
  OBVIOUS
<1>1. CASE PreviewsNext
  BY <1>1, effectsKeepPreviews, imageKeepsPreviews, videoKeepsPreviews, textKeepsPreviews, renderingKeepsPreviews,
     showFileKeepsPreviews DEF PreviewsNext, Files
<1>2. CASE UNCHANGED previewVars
  <2>1. UNCHANGED <<shown, effectsDue, ahead, text, request, picture, early, video>>
    BY <1>2 DEF previewVars
  <2>2. Heard' = Heard
    BY <2>1 DEF Heard
  <2>3. PreviewsTypeOK'
    BY <2>1 DEF PreviewsInv, PreviewsTypeOK
  <2>4. TextInv'
    BY <2>1, <2>2 DEF PreviewsInv, TextInv, TextIsTrue
  <2>5. ImageInv' /\ WindowInv'
    BY <2>1 DEF PreviewsInv, ImageInv, WindowInv, ImageIsTrue, WindowIsCurrent
  <2> QED BY <2>3, <2>4, <2>5 DEF PreviewsInv
<1> QED BY <1>1, <1>2

(* Whatever files are stepped through, of any kind and number, and in whatever *)
(* order pictures load, videos move and texts are answered, failed or aborted: *)
(* once the effects have run the preview is that of the file shown             *)
(* (file-preview.tsx of both applications).                                    *)
THEOREM PreviewsAreAlwaysTrue == PreviewsSpec => []PreviewsAreTrue
<1>1. PreviewsInit => PreviewsInv
  BY PreviewsInvInit
<1>2. PreviewsInv /\ [PreviewsNext]_previewVars => PreviewsInv'
  BY PreviewsInvNext
<1>3. PreviewsInv => PreviewsAreTrue
  BY DEF PreviewsInv, TextInv, ImageInv, WindowInv, PreviewsAreTrue
<1> QED BY <1>1, <1>2, <1>3, PTL DEF PreviewsSpec

-------------------------------------------------------------------------------
(* SearchPages.                                                               *)

Kinds == {"all", "file", "folder"}
Params(q, k, i, x, f, t, s, o) ==
  [q |-> q, kind |-> k, min |-> i, max |-> x, from |-> f, to |-> t, sort |-> s, order |-> o]
IsParams(u) == u = Params(u.q, u.kind, u.min, u.max, u.from, u.to, u.sort, u.order)

\* The options a page can have: no empty range, and no relevance without a query.
IsOptions(o) ==
  /\ IsParams(o)
  /\ o.kind \in Kinds /\ o.min \in Bounds \cup {Absent} /\ o.max \in Bounds \cup {Absent}
  /\ o.sort \in Sorts /\ o.order \in Orders
  /\ o.q = "" => o.sort # "relevance"
  /\ ~IsBefore(o.max, o.min) /\ ~IsBefore(o.to, o.from)

\* What a filter, a sort or the box changes.
IsPatch(p) ==
  /\ "kind" \in DOMAIN p => p.kind \in Kinds
  /\ "min" \in DOMAIN p => p.min \in Bounds \cup {Absent}
  /\ "max" \in DOMAIN p => p.max \in Bounds \cup {Absent}
  /\ "sort" \in DOMAIN p => p.sort \in Sorts
  /\ "order" \in DOMAIN p => p.order \in Orders

LEMMA NothingIsBefore == \A x : ~IsBefore(Absent, x) /\ ~IsBefore(x, Absent)
  BY DEF IsBefore

LEMMA AbsentIsNoBound == Absent \notin Bounds
<1>1. -1 \notin Nat
  OBVIOUS
<1> QED BY <1>1, SearchAssumption DEF Absent

LEMMA Defaults == \A q, s : defaultSearchSort(q) \in Sorts /\ defaultSearchOrder(s) \in Orders
  BY DEF defaultSearchSort, defaultSearchOrder, Sorts, Orders

LEMMA ParamsAre ==
  ASSUME NEW r, NEW q, NEW k, NEW i, NEW x, NEW f, NEW t, NEW s, NEW o, r = Params(q, k, i, x, f, t, s, o)
  PROVE  /\ r.q = q /\ r.kind = k /\ r.min = i /\ r.max = x /\ r.from = f /\ r.to = t
         /\ r.sort = s /\ r.order = o
         /\ IsParams(r)
         /\ DOMAIN r = {"q", "kind", "min", "max", "from", "to", "sort", "order"}
         /\ r # NoUrl
  BY DEF Params, IsParams, NoUrl

LEMMA NormalizedParams ==
  ASSUME NEW q, NEW k, NEW i, NEW x, NEW f, NEW t, NEW s, NEW o
  PROVE  normalizeSearchRanges(Params(q, k, i, x, f, t, s, o)) =
           Params(q, k, i, IF IsBefore(x, i) THEN Absent ELSE x, f, IF IsBefore(t, f) THEN Absent ELSE t, s, o)
<1> DEFINE r == Params(q, k, i, x, f, t, s, o)
           high == IF IsBefore(x, i) THEN Absent ELSE x
           till == IF IsBefore(t, f) THEN Absent ELSE t
<1>1. r.min = i /\ r.max = x /\ r.from = f /\ r.to = t
  BY ParamsAre
<1>2. normalizeSearchRanges(r) =
        [r EXCEPT !.max = IF IsBefore(r.max, r.min) THEN Absent ELSE r.max,
                  !.to = IF IsBefore(r.to, r.from) THEN Absent ELSE r.to]
  BY DEF normalizeSearchRanges
<1>3. normalizeSearchRanges(r) = [r EXCEPT !.max = high, !.to = till]
  BY <1>1, <1>2, Zenon
<1> HIDE DEF high, till
<1>4. [r EXCEPT !.max = high, !.to = till] = [[r EXCEPT !.max = high] EXCEPT !.to = till]
  OBVIOUS
<1>5. [[r EXCEPT !.max = high] EXCEPT !.to = till] = Params(q, k, i, high, f, till, s, o)
  <2>1. [r EXCEPT !.max = high] = Params(q, k, i, high, f, t, s, o)
    BY DEF Params
  <2>2. [Params(q, k, i, high, f, t, s, o) EXCEPT !.to = till] = Params(q, k, i, high, f, till, s, o)
    BY DEF Params
  <2> QED BY <2>1, <2>2
<1> QED BY <1>3, <1>4, <1>5, Zenon DEF high, till

\* Whatever a URL says, what is parsed from it are options of a page.
LEMMA ParsedAreOptions ==
  ASSUME NEW u, IsParams(u)
  PROVE  IsOptions(parseSearchOptions(u)) /\ parseSearchOptions(u).q = u.q
<1> DEFINE raw == parseEnum(u.sort, Sorts, defaultSearchSort(u.q))
           sort == IF u.q = "" /\ raw = "relevance" THEN "updated" ELSE raw
           kind == parseEnum(u.kind, {"file", "folder"}, "all")
           min == parseSize(u.min)
           max == parseSize(u.max)
           order == parseEnum(u.order, Orders, defaultSearchOrder(sort))
           read == Params(u.q, kind, min, max, u.from, u.to, sort, order)
<1>1. parseSearchOptions(u) = normalizeSearchRanges(read)
  BY Zenon DEF parseSearchOptions, Params
<1>2. kind \in Kinds
  BY DEF parseEnum, Kinds
<1>3. min \in Bounds \cup {Absent} /\ max \in Bounds \cup {Absent}
  BY DEF parseEnum, parseSize
<1>4. raw \in Sorts
  BY Defaults DEF parseEnum
<1>5. sort \in Sorts /\ (u.q = "" => sort # "relevance")
  BY <1>4 DEF Sorts
<1>6. order \in Orders
  BY Defaults DEF parseEnum
<1> HIDE DEF kind, min, max, raw, sort, order
<1> DEFINE high == IF IsBefore(max, min) THEN Absent ELSE max
           till == IF IsBefore(u.to, u.from) THEN Absent ELSE u.to
<1>7. ~IsBefore(high, min) /\ ~IsBefore(till, u.from)
  BY NothingIsBefore
<1>8. high \in Bounds \cup {Absent}
  BY <1>3
<1>9. parseSearchOptions(u) = Params(u.q, kind, min, high, u.from, till, sort, order)
  <2>1. normalizeSearchRanges(read) = Params(u.q, kind, min, high, u.from, till, sort, order)
    BY NormalizedParams
  <2> QED BY <1>1, <2>1
<1> HIDE DEF high, till
<1> DEFINE o == Params(u.q, kind, min, high, u.from, till, sort, order)
<1>10. /\ o.q = u.q /\ o.kind = kind /\ o.min = min /\ o.max = high /\ o.from = u.from /\ o.to = till
       /\ o.sort = sort /\ o.order = order /\ IsParams(o)
  BY ParamsAre
<1> HIDE DEF o
<1>11. IsOptions(o)
  BY <1>2, <1>3, <1>5, <1>6, <1>7, <1>8, <1>10 DEF IsOptions
<1> QED BY <1>9, <1>10, <1>11 DEF o

LEMMA FormattedAreParams ==
  ASSUME NEW o, IsParams(o)
  PROVE  searchParamsForOptions(o) =
           Params(o.q, IF o.kind = "all" THEN "" ELSE o.kind, o.min, o.max, o.from, o.to,
                  IF o.sort = defaultSearchSort(o.q) THEN "" ELSE o.sort,
                  IF o.order = defaultSearchOrder(o.sort) THEN "" ELSE o.order)
<1> DEFINE kind == IF o.kind = "all" THEN "" ELSE o.kind
           sort == IF o.sort = defaultSearchSort(o.q) THEN "" ELSE o.sort
           order == IF o.order = defaultSearchOrder(o.sort) THEN "" ELSE o.order
<1>1. searchParamsForOptions(o) = [o EXCEPT !.kind = kind, !.sort = sort, !.order = order]
  BY DEF searchParamsForOptions
<1> HIDE DEF kind, sort, order
<1>2. [o EXCEPT !.kind = kind, !.sort = sort, !.order = order] =
        [[[o EXCEPT !.kind = kind] EXCEPT !.sort = sort] EXCEPT !.order = order]
  OBVIOUS
<1>3. [o EXCEPT !.kind = kind] = Params(o.q, kind, o.min, o.max, o.from, o.to, o.sort, o.order)
  BY DEF Params, IsParams
<1>4. [Params(o.q, kind, o.min, o.max, o.from, o.to, o.sort, o.order) EXCEPT !.sort = sort] =
        Params(o.q, kind, o.min, o.max, o.from, o.to, sort, o.order)
  BY DEF Params
<1>5. [Params(o.q, kind, o.min, o.max, o.from, o.to, sort, o.order) EXCEPT !.order = order] =
        Params(o.q, kind, o.min, o.max, o.from, o.to, sort, order)
  BY DEF Params
<1>6. searchParamsForOptions(o) = Params(o.q, kind, o.min, o.max, o.from, o.to, sort, order)
  BY <1>1, <1>2, <1>3, <1>4, <1>5
<1> QED BY <1>6 DEF kind, sort, order

\* What is formatted is parsed back as it was: no default changes its meaning.
LEMMA RoundTrip ==
  ASSUME NEW o, IsOptions(o)
  PROVE  /\ IsParams(searchParamsForOptions(o)) /\ searchParamsForOptions(o) # NoUrl
         /\ parseSearchOptions(searchParamsForOptions(o)) = o
<1> DEFINE u == searchParamsForOptions(o)
<1>0. IsParams(o)
  BY DEF IsOptions
<1>1. /\ u.q = o.q /\ u.min = o.min /\ u.max = o.max /\ u.from = o.from /\ u.to = o.to
      /\ u.kind = IF o.kind = "all" THEN "" ELSE o.kind
      /\ u.sort = IF o.sort = defaultSearchSort(o.q) THEN "" ELSE o.sort
      /\ u.order = IF o.order = defaultSearchOrder(o.sort) THEN "" ELSE o.order
      /\ IsParams(u) /\ u # NoUrl
  <2> DEFINE kind == IF o.kind = "all" THEN "" ELSE o.kind
             sort == IF o.sort = defaultSearchSort(o.q) THEN "" ELSE o.sort
             order == IF o.order = defaultSearchOrder(o.sort) THEN "" ELSE o.order
  <2>1. u = Params(o.q, kind, o.min, o.max, o.from, o.to, sort, order)
    BY <1>0, FormattedAreParams
  <2> HIDE DEF u, kind, sort, order
  <2>2. /\ u.q = o.q /\ u.min = o.min /\ u.max = o.max /\ u.from = o.from /\ u.to = o.to
        /\ u.kind = kind /\ u.sort = sort /\ u.order = order /\ IsParams(u) /\ u # NoUrl
    BY <2>1, ParamsAre
  <2> QED BY <2>2 DEF kind, sort, order
<1> HIDE DEF u
<1>2. parseEnum(u.kind, {"file", "folder"}, "all") = o.kind
  BY <1>1 DEF parseEnum, IsOptions, Kinds
<1>3. parseSize(u.min) = o.min /\ parseSize(u.max) = o.max
  BY <1>1, AbsentIsNoBound DEF parseSize, parseEnum, IsOptions
<1>4. parseEnum(u.sort, Sorts, defaultSearchSort(u.q)) = o.sort
  BY <1>1 DEF parseEnum, IsOptions, Sorts
<1>5. (IF u.q = "" /\ o.sort = "relevance" THEN "updated" ELSE o.sort) = o.sort
  BY <1>1 DEF IsOptions
<1>6. parseEnum(u.order, Orders, defaultSearchOrder(o.sort)) = o.order
  BY <1>1 DEF parseEnum, IsOptions, Orders
<1>7. parseSearchOptions(u) =
        normalizeSearchRanges(Params(u.q, o.kind, o.min, o.max, u.from, u.to, o.sort, o.order))
  BY <1>2, <1>3, <1>4, <1>5, <1>6, Zenon DEF parseSearchOptions, Params
<1>8. parseSearchOptions(u) = Params(o.q, o.kind, o.min, o.max, o.from, o.to, o.sort, o.order)
  <2>1. normalizeSearchRanges(Params(o.q, o.kind, o.min, o.max, o.from, o.to, o.sort, o.order)) =
          Params(o.q, o.kind, o.min, IF IsBefore(o.max, o.min) THEN Absent ELSE o.max,
                 o.from, IF IsBefore(o.to, o.from) THEN Absent ELSE o.to, o.sort, o.order)
    BY NormalizedParams
  <2>2. ~IsBefore(o.max, o.min) /\ ~IsBefore(o.to, o.from)
    BY DEF IsOptions
  <2>3. normalizeSearchRanges(Params(o.q, o.kind, o.min, o.max, o.from, o.to, o.sort, o.order)) =
          Params(o.q, o.kind, o.min, o.max, o.from, o.to, o.sort, o.order)
    BY <2>1, <2>2
  <2> QED BY <1>1, <1>7, <2>3
<1> QED BY <1>0, <1>1, <1>8 DEF u, IsParams

\* A change of options of a page makes options of a page.
LEMMA PatchedAreOptions ==
  ASSUME NEW o, NEW p, IsOptions(o), IsPatch(p)
  PROVE  /\ IsOptions(patchSearchOptions(o, p))
         /\ patchSearchOptions(o, p).q = IF "q" \in DOMAIN p THEN p.q ELSE o.q
<1> DEFINE next == [f \in DOMAIN o |-> IF f \in DOMAIN p THEN p[f] ELSE o[f]]
           Sets(f) == f \in DOMAIN p
           High(low, high) == IF Sets(low) /\ IsBefore(next[high], next[low]) THEN Absent ELSE next[high]
           Low(low, high) == IF Sets(high) /\ IsBefore(High(low, high), next[low]) THEN Absent ELSE next[low]
           sort == IF Sets("q") /\ ~Sets("sort") /\ o.sort = defaultSearchSort(o.q)
                   THEN defaultSearchSort(next.q) ELSE next.sort
           min == Low("min", "max")
           max == High("min", "max")
           from == Low("from", "to")
           to == High("from", "to")
           kept == IF next.q = "" /\ sort = "relevance" THEN "updated" ELSE sort
           order == IF (Sets("q") \/ Sets("sort")) /\ ~Sets("order") /\ o.order = defaultSearchOrder(o.sort)
                    THEN defaultSearchOrder(sort) ELSE next.order
<1>1. patchSearchOptions(o, p) =
        [next EXCEPT !.min = min, !.max = max, !.from = from, !.to = to, !.sort = kept, !.order = order]
  BY Zenon DEF patchSearchOptions
<1>2. IsParams(o) /\ DOMAIN o = {"q", "kind", "min", "max", "from", "to", "sort", "order"}
  <2>1. IsParams(o)
    BY DEF IsOptions
  <2> QED BY <2>1, ParamsAre DEF IsParams
<1>3. /\ next.q = IF "q" \in DOMAIN p THEN p.q ELSE o.q
      /\ next.kind \in Kinds
      /\ next.min \in Bounds \cup {Absent} /\ next.max \in Bounds \cup {Absent}
      /\ next.sort \in Sorts /\ next.order \in Orders
      /\ ~Sets("sort") => next.sort = o.sort
      /\ ~Sets("min") => next.min = o.min
      /\ ~Sets("max") => next.max = o.max
      /\ ~Sets("from") => next.from = o.from
      /\ ~Sets("to") => next.to = o.to
  BY <1>2 DEF IsOptions, IsPatch
<1>4. next = Params(next.q, next.kind, next.min, next.max, next.from, next.to, next.sort, next.order)
  BY <1>2 DEF Params
<1> HIDE DEF next
<1>5. ~IsBefore(o.max, o.min) /\ ~IsBefore(o.to, o.from)
  BY DEF IsOptions
<1>6. ~IsBefore(max, min)
  BY <1>3, <1>5, NothingIsBefore
<1>7. ~IsBefore(to, from)
  BY <1>3, <1>5, NothingIsBefore
<1>8. min \in Bounds \cup {Absent} /\ max \in Bounds \cup {Absent}
  BY <1>3
<1>9. sort \in Sorts
  BY <1>3, Defaults
<1>10. kept \in Sorts /\ (next.q = "" => kept # "relevance")
  BY <1>9 DEF Sorts
<1>11. order \in Orders
  BY <1>3, Defaults
<1> HIDE DEF min, max, from, to, kept, order
<1>12. [next EXCEPT !.min = min, !.max = max, !.from = from, !.to = to, !.sort = kept, !.order = order] =
         Params(next.q, next.kind, min, max, from, to, kept, order)
  <2>1. [next EXCEPT !.min = min, !.max = max, !.from = from, !.to = to, !.sort = kept, !.order = order] =
          [[[[[[next EXCEPT !.min = min] EXCEPT !.max = max] EXCEPT !.from = from] EXCEPT !.to = to]
            EXCEPT !.sort = kept] EXCEPT !.order = order]
    OBVIOUS
  <2> DEFINE n1 == [next EXCEPT !.min = min]
             n2 == [n1 EXCEPT !.max = max]
             n3 == [n2 EXCEPT !.from = from]
             n4 == [n3 EXCEPT !.to = to]
             n5 == [n4 EXCEPT !.sort = kept]
             n6 == [n5 EXCEPT !.order = order]
  <2>2. n1 = Params(next.q, next.kind, min, next.max, next.from, next.to, next.sort, next.order)
    BY <1>4 DEF Params
  <2> HIDE DEF n1
  <2>3. n2 = Params(next.q, next.kind, min, max, next.from, next.to, next.sort, next.order)
    BY <2>2 DEF Params
  <2> HIDE DEF n2
  <2>4. n3 = Params(next.q, next.kind, min, max, from, next.to, next.sort, next.order)
    BY <2>3 DEF Params
  <2> HIDE DEF n3
  <2>5. n4 = Params(next.q, next.kind, min, max, from, to, next.sort, next.order)
    BY <2>4 DEF Params
  <2> HIDE DEF n4
  <2>6. n5 = Params(next.q, next.kind, min, max, from, to, kept, next.order)
    BY <2>5 DEF Params
  <2> HIDE DEF n5
  <2>7. n6 = Params(next.q, next.kind, min, max, from, to, kept, order)
    BY <2>6 DEF Params
  <2> HIDE DEF n6
  <2> QED BY <2>1, <2>7 DEF n1, n2, n3, n4, n5, n6
<1> DEFINE n == patchSearchOptions(o, p)
<1>13. n = Params(next.q, next.kind, min, max, from, to, kept, order)
  BY <1>1, <1>12
<1> HIDE DEF n
<1>14. /\ n.q = next.q /\ n.kind = next.kind /\ n.min = min /\ n.max = max /\ n.from = from /\ n.to = to
       /\ n.sort = kept /\ n.order = order /\ IsParams(n)
  BY <1>13, ParamsAre
<1>15. IsOptions(n)
  BY <1>3, <1>6, <1>7, <1>8, <1>10, <1>11, <1>14 DEF IsOptions
<1> QED BY <1>3, <1>14, <1>15 DEF n

LEMMA PatchesAre ==
  /\ \A p \in FilterPatches \cup activeFilters \cup QuickFilterPatches \cup SortPatches :
       IsPatch(p) /\ "q" \notin DOMAIN p
  /\ \A w : IsPatch([q |-> w]) /\ "q" \in DOMAIN [q |-> w] /\ [q |-> w].q = w
<1> USE DEF IsPatch, Kinds, Sorts, Orders
<1>1. ASSUME NEW p \in FilterPatches PROVE IsPatch(p) /\ "q" \notin DOMAIN p
  BY <1>1 DEF FilterPatches
<1>2. ASSUME NEW p \in activeFilters PROVE IsPatch(p) /\ "q" \notin DOMAIN p
  BY <1>2 DEF activeFilters
<1>3. ASSUME NEW p \in QuickFilterPatches PROVE IsPatch(p) /\ "q" \notin DOMAIN p
  BY <1>3 DEF QuickFilterPatches
<1>4. ASSUME NEW p \in SortPatches PROVE IsPatch(p) /\ "q" \notin DOMAIN p
  <2>1. PICK s \in sortsOffered, o \in Orders : p = [sort |-> s, order |-> o]
    BY <1>4 DEF SortPatches
  <2> QED BY <2>1 DEF sortsOffered
<1> QED BY <1>1, <1>2, <1>3, <1>4

-----------------------------------------------------------------------------
\* What is on its way is what was asked for, unless it was asked for on the way,
\* and the box holds what was typed last.
SearchInv ==
  /\ IsParams(url) /\ IsOptions(wanted)
  /\ going = NoUrl \/ IsParams(going)
  /\ going = NoUrl => options = wanted
  /\ going # NoUrl /\ "change" \notin excused => parseSearchOptions(going) = wanted
  /\ typed = value
  /\ going # NoUrl /\ "typing" \notin excused /\ parseSearchOptions(going).q # options.q =>
       value = parseSearchOptions(going).q
  /\ going = NoUrl /\ ~timer /\ "input" \notin excused => value = options.q

LEMMA ChangedAreParams ==
  ASSUME NEW r, IsParams(r), NEW v
  PROVE  /\ IsParams([r EXCEPT !.q = v])
         /\ IsParams([r EXCEPT !.kind = v])
         /\ IsParams([r EXCEPT !.min = v])
         /\ IsParams([r EXCEPT !.max = v])
         /\ IsParams([r EXCEPT !.from = v])
         /\ IsParams([r EXCEPT !.to = v])
         /\ IsParams([r EXCEPT !.sort = v])
         /\ IsParams([r EXCEPT !.order = v])
<1>1. IsParams([r EXCEPT !.q = v])
  <2>1. [r EXCEPT !.q = v] = Params(v, r.kind, r.min, r.max, r.from, r.to, r.sort, r.order)
    BY DEF Params, IsParams
  <2> QED BY <2>1, ParamsAre
<1>2. IsParams([r EXCEPT !.kind = v])
  <2>1. [r EXCEPT !.kind = v] = Params(r.q, v, r.min, r.max, r.from, r.to, r.sort, r.order)
    BY DEF Params, IsParams
  <2> QED BY <2>1, ParamsAre
<1>3. IsParams([r EXCEPT !.min = v])
  <2>1. [r EXCEPT !.min = v] = Params(r.q, r.kind, v, r.max, r.from, r.to, r.sort, r.order)
    BY DEF Params, IsParams
  <2> QED BY <2>1, ParamsAre
<1>4. IsParams([r EXCEPT !.max = v])
  <2>1. [r EXCEPT !.max = v] = Params(r.q, r.kind, r.min, v, r.from, r.to, r.sort, r.order)
    BY DEF Params, IsParams
  <2> QED BY <2>1, ParamsAre
<1>5. IsParams([r EXCEPT !.from = v])
  <2>1. [r EXCEPT !.from = v] = Params(r.q, r.kind, r.min, r.max, v, r.to, r.sort, r.order)
    BY DEF Params, IsParams
  <2> QED BY <2>1, ParamsAre
<1>6. IsParams([r EXCEPT !.to = v])
  <2>1. [r EXCEPT !.to = v] = Params(r.q, r.kind, r.min, r.max, r.from, v, r.sort, r.order)
    BY DEF Params, IsParams
  <2> QED BY <2>1, ParamsAre
<1>7. IsParams([r EXCEPT !.sort = v])
  <2>1. [r EXCEPT !.sort = v] = Params(r.q, r.kind, r.min, r.max, r.from, r.to, v, r.order)
    BY DEF Params, IsParams
  <2> QED BY <2>1, ParamsAre
<1>8. IsParams([r EXCEPT !.order = v])
  <2>1. [r EXCEPT !.order = v] = Params(r.q, r.kind, r.min, r.max, r.from, r.to, r.sort, v)
    BY DEF Params, IsParams
  <2> QED BY <2>1, ParamsAre
<1> QED BY <1>1, <1>2, <1>3, <1>4, <1>5, <1>6, <1>7, <1>8

LEMMA UrlsAreParams == \A u \in Urls : IsParams(u) /\ u # NoUrl
<1> DEFINE w == CHOOSE v \in Words : TRUE
<1>1. IsParams(NoParams)
  BY DEF NoParams, IsParams, Params
<1>2. IsParams([NoParams EXCEPT !.q = w, !.kind = "nonsense", !.order = "asc"])
  <2> DEFINE u1 == [NoParams EXCEPT !.q = w]
             u2 == [u1 EXCEPT !.kind = "nonsense"]
             u3 == [u2 EXCEPT !.order = "asc"]
  <2>1. [NoParams EXCEPT !.q = w, !.kind = "nonsense", !.order = "asc"] = u3
    OBVIOUS
  <2>2. IsParams(u1)
    BY <1>1, ChangedAreParams, Zenon
  <2>3. IsParams(u2)
    BY <2>2, ChangedAreParams, Zenon
  <2>4. IsParams(u3)
    BY <2>3, ChangedAreParams, Zenon
  <2> QED BY <2>1, <2>4, Zenon
<1>3. IsParams([NoParams EXCEPT !.min = 2, !.max = 1, !.sort = "relevance"])
  <2> DEFINE u1 == [NoParams EXCEPT !.min = 2]
             u2 == [u1 EXCEPT !.max = 1]
             u3 == [u2 EXCEPT !.sort = "relevance"]
  <2>1. [NoParams EXCEPT !.min = 2, !.max = 1, !.sort = "relevance"] = u3
    OBVIOUS
  <2>2. IsParams(u1)
    BY <1>1, ChangedAreParams, Zenon
  <2>3. IsParams(u2)
    BY <2>2, ChangedAreParams, Zenon
  <2>4. IsParams(u3)
    BY <2>3, ChangedAreParams, Zenon
  <2> QED BY <2>1, <2>4, Zenon
<1>4. IsParams([NoParams EXCEPT !.min = 3, !.kind = "file", !.sort = "name", !.order = "desc"])
  <2> DEFINE u1 == [NoParams EXCEPT !.min = 3]
             u2 == [u1 EXCEPT !.kind = "file"]
             u3 == [u2 EXCEPT !.sort = "name"]
             u4 == [u3 EXCEPT !.order = "desc"]
  <2>1. [NoParams EXCEPT !.min = 3, !.kind = "file", !.sort = "name", !.order = "desc"] = u4
    OBVIOUS
  <2>2. IsParams(u1)
    BY <1>1, ChangedAreParams, Zenon
  <2>3. IsParams(u2)
    BY <2>2, ChangedAreParams, Zenon
  <2>4. IsParams(u3)
    BY <2>3, ChangedAreParams, Zenon
  <2>5. IsParams(u4)
    BY <2>4, ChangedAreParams, Zenon
  <2> QED BY <2>1, <2>5, Zenon
<1>5. IsParams([NoParams EXCEPT !.from = 2, !.to = 1, !.sort = "nonsense"])
  <2> DEFINE u1 == [NoParams EXCEPT !.from = 2]
             u2 == [u1 EXCEPT !.to = 1]
             u3 == [u2 EXCEPT !.sort = "nonsense"]
  <2>1. [NoParams EXCEPT !.from = 2, !.to = 1, !.sort = "nonsense"] = u3
    OBVIOUS
  <2>2. IsParams(u1)
    BY <1>1, ChangedAreParams, Zenon
  <2>3. IsParams(u2)
    BY <2>2, ChangedAreParams, Zenon
  <2>4. IsParams(u3)
    BY <2>3, ChangedAreParams, Zenon
  <2> QED BY <2>1, <2>4, Zenon
<1>6. \A u \in Urls : IsParams(u)
  BY <1>1, <1>2, <1>3, <1>4, <1>5, Zenon DEF Urls
<1>7. \A u : IsParams(u) => u # NoUrl
  BY ParamsAre DEF IsParams
<1> QED BY <1>6, <1>7

LEMMA SearchInvInit == SearchInit => SearchInv
<1> SUFFICES ASSUME SearchInit PROVE SearchInv
  OBVIOUS
<1>1. IsParams(url) /\ going = NoUrl /\ value = options.q /\ typed = options.q /\ wanted = options
  BY UrlsAreParams DEF SearchInit
<1>2. IsOptions(options)
  BY <1>1, ParsedAreOptions DEF options
<1> QED BY <1>1, <1>2 DEF SearchInv

\* A change is on its way, to what was asked for or on top of what was not there.
LEMMA ReplacedKeepsInv ==
  ASSUME SearchInv, NEW p, IsPatch(p), replaceOptions(p), UNCHANGED <<value, typed>>,
         "q" \in DOMAIN p => p.q = value
  PROVE  SearchInv'
<1> DEFINE o == patchSearchOptions(options, p)
<1>1. IsOptions(options)
  BY ParsedAreOptions DEF SearchInv, options
<1>2. IsOptions(o) /\ o.q = IF "q" \in DOMAIN p THEN p.q ELSE options.q
  BY <1>1, PatchedAreOptions
<1>3. going' = searchParamsForOptions(o) /\ wanted' = patchSearchOptions(wanted, p) /\ UNCHANGED url
      /\ excused' = IF going = NoUrl THEN excused ELSE excused \cup {"change"}
  BY DEF replaceOptions
<1>4. IsParams(going') /\ going' # NoUrl /\ parseSearchOptions(going') = o
  BY <1>2, <1>3, RoundTrip
<1>5. IsOptions(wanted')
  BY <1>3, PatchedAreOptions DEF SearchInv
<1>6. options' = options
  BY <1>3 DEF options
<1> HIDE DEF o
<1>7. "change" \notin excused' => o = wanted'
  BY <1>3 DEF SearchInv, o
<1>8. o.q # options.q => value = o.q
  BY <1>2
<1> QED BY <1>3, <1>4, <1>5, <1>6, <1>7, <1>8 DEF SearchInv

\* Another page is on its way, whatever was typed.
LEMMA LeavingKeepsInv ==
  ASSUME SearchInv, NEW u, IsParams(u), u # NoUrl, going' = u, wanted' = parseSearchOptions(u),
         "typing" \in excused', UNCHANGED <<url, value, typed>>
  PROVE  SearchInv'
<1>1. IsOptions(wanted')
  BY ParsedAreOptions
<1>2. options' = options
  BY DEF options
<1> QED BY <1>1, <1>2 DEF SearchInv

LEMMA SearchInvNext == SearchInv /\ [SearchNext]_searchVars => SearchInv'
<1> SUFFICES ASSUME SearchInv, [SearchNext]_searchVars PROVE SearchInv'
  OBVIOUS
<1>1. ASSUME NEW p \in FilterPatches \cup activeFilters \cup QuickFilterPatches \cup SortPatches, change(p)
      PROVE  SearchInv'
  BY <1>1, PatchesAre, ReplacedKeepsInv DEF change
<1>2. CASE timeout
  BY <1>2, PatchesAre, ReplacedKeepsInv DEF timeout
<1>3. CASE reset
  <2> DEFINE u == searchParamsForOptions(parseSearchOptions(NoParams))
  <2>1. IsOptions(parseSearchOptions(NoParams))
    BY UrlsAreParams, ParsedAreOptions DEF Urls
  <2>2. IsParams(u) /\ u # NoUrl /\ parseSearchOptions(u) = parseSearchOptions(NoParams)
    BY <2>1, RoundTrip
  <2>3. /\ going' = u /\ wanted' = parseSearchOptions(NoParams) /\ "typing" \in excused'
        /\ UNCHANGED <<url, value, typed>>
    BY <1>3 DEF reset
  <2> HIDE DEF u
  <2> QED BY <2>2, <2>3, LeavingKeepsInv
<1>4. ASSUME NEW u \in Urls, visit(u) PROVE SearchInv'
  BY <1>4, UrlsAreParams, LeavingKeepsInv DEF visit
<1>5. ASSUME NEW t \in Words \cup {""}, type(t) PROVE SearchInv'
  <2>1. /\ value' = t /\ typed' = t /\ UNCHANGED <<url, going, wanted>> /\ (timer' <=> t # options.q)
        /\ excused' = IF going = NoUrl THEN excused \ {"input"} ELSE (excused \ {"input"}) \cup {"typing"}
    BY <1>5 DEF type
  <2>2. options' = options
    BY <2>1 DEF options
  <2> QED BY <2>1, <2>2 DEF SearchInv
<1>6. CASE arrives
  <2> DEFINE next == parseSearchOptions(going)
  <2>1. /\ going # NoUrl /\ url' = going /\ going' = NoUrl
        /\ next.q # options.q => value' = next.q
        /\ next.q = options.q => value' = value
        /\ wanted' = IF "change" \in excused THEN next ELSE wanted
        /\ typed' = IF "typing" \in excused THEN value' ELSE typed
        /\ excused' = IF value' # next.q /\ ~timer' THEN {"input"} ELSE {}
    BY <1>6 DEF arrives
  <2>2. options' = next /\ IsOptions(next) /\ IsParams(url')
    BY <2>1, ParsedAreOptions DEF SearchInv, options
  <2> HIDE DEF next
  <2>3. wanted' = next
    BY <2>1 DEF SearchInv, next
  <2>4. typed' = value'
    BY <2>1 DEF SearchInv, next
  <2> QED BY <2>1, <2>2, <2>3, <2>4 DEF SearchInv
<1>7. CASE UNCHANGED searchVars
  <2>1. options' = options
    BY <1>7 DEF searchVars, options
  <2> QED BY <1>7, <2>1 DEF searchVars, SearchInv
<1> QED BY <1>1, <1>2, <1>3, <1>4, <1>5, <1>6, <1>7 DEF SearchNext

LEMMA SearchInvIsWanted == SearchInv => SearchIsWanted
  BY DEF SearchInv, SearchIsWanted, IsOptions

\* Whatever is typed, filtered, sorted and visited, with any bounds of the ranges: the
\* search the page runs once the router is still is the one that was asked for, with
\* no empty range and no relevance without a query (search-page, search-filters.tsx).
THEOREM SearchIsAlwaysWanted == SearchSpec => []SearchIsWanted
<1>1. SearchInit => SearchInv
  BY SearchInvInit
<1>2. SearchInv /\ [SearchNext]_searchVars => SearchInv'
  BY SearchInvNext
<1>3. SearchInv => SearchIsWanted
  BY SearchInvIsWanted
<1> QED BY <1>1, <1>2, <1>3, PTL DEF SearchSpec

-------------------------------------------------------------------------------
(* DropTargets.                                                               *)

TargetRecords ==
  [folder : Folders \cup {"none"}, editable : BOOLEAN, events : {"none", "asked", "live"},
   disposed : BOOLEAN, busy : BOOLEAN]
Numbered(n) == Gifts = 1..n

DropsTypeOK ==
  /\ app \in {"web", "desktop"} /\ targets \in [1..MaxMounts -> TargetRecords]
  /\ overlay \in BOOLEAN /\ ready \in BOOLEAN /\ slipped \in BOOLEAN
  /\ \E n \in Nat : Numbered(n)

\* The browser has one target, and the desktop reads no drop before it adds it.
AppsDiffer ==
  /\ Web => target = 1
  /\ Desktop => held = NoHold /\ ~ready

\* Only targets that can be written to ask for events.
OnlyEditableHear == \A t \in 1..MaxMounts : targets[t].events # "none" => targets[t].editable

\* What is read is of the folder it was dropped on, and not added yet.
HeldIsTrue ==
  held # NoHold =>
    /\ held.gift \in Gifts /\ held.folder = gifts[held.gift]
    /\ \A u \in uploads : u.gift # held.gift

UploadsAreTrue ==
  /\ \A u \in uploads : u.gift \in Gifts /\ (u.folder = gifts[u.gift] \/ u.stray)
  /\ \A u, v \in uploads : u.gift = v.gift => u = v \/ u.stray \/ v.stray

OverlayIsTrue ==
  /\ overlay => target \in 1..MaxMounts /\ Here.editable /\ (drag # "out" \/ held # NoHold \/ slipped)
  /\ ready => overlay

DropsInv == DropsTypeOK /\ AppsDiffer /\ OnlyEditableHear /\ HeldIsTrue /\ UploadsAreTrue /\ OverlayIsTrue
-----------------------------------------------------------------------------
\* What is added says where it came from.
LEMMA AddedIs ==
  ASSUME NEW g, NEW t, NEW f
  PROVE  /\ Added(g, t, f).gift = g /\ Added(g, t, f).folder = f
         /\ Added(g, t, f).stray <=> t # target
<1>1. PICK b \in BOOLEAN : b <=> t # target
  OBVIOUS
<1>2. b = (t # target)
  BY <1>1
<1>3. Added(g, t, f) = [gift |-> g, folder |-> f, stray |-> b]
  BY <1>2 DEF Added
<1> QED BY <1>1, <1>3

\* A place for a target.
LEMMA UnmountedIs == Unmounted \in TargetRecords /\ Unmounted.events = "none"
BY DEF Unmounted, TargetRecords

\* A target that is mounted asks for events if it can be written to.
LEMMA MountedIs ==
  ASSUME NEW f \in Folders, NEW e \in BOOLEAN
  PROVE  /\ Mounted(f, e) \in TargetRecords /\ Mounted(f, e).folder = f /\ Mounted(f, e).editable = e
         /\ Mounted(f, e).events # "none" => e
<1>1. PICK s \in {"none", "asked", "live"} : s = (IF e THEN "asked" ELSE "none") /\ (s # "none" => e)
  <2>1. CASE e
    BY <2>1
  <2>2. CASE ~e
    BY <2>2
  <2> QED BY <2>1, <2>2
<1>2. PICK n \in BOOLEAN : n = FALSE
  OBVIOUS
<1>3. Unmounted = [folder |-> "none", editable |-> n, events |-> "none", disposed |-> n, busy |-> n]
  BY <1>2 DEF Unmounted
<1>4. PICK x : x = [Unmounted EXCEPT !.folder = f]
  OBVIOUS
<1>5. x = [folder |-> f, editable |-> n, events |-> "none", disposed |-> n, busy |-> n]
  BY <1>3, <1>4
<1>6. PICK y : y = [x EXCEPT !.editable = e]
  OBVIOUS
<1>7. y = [folder |-> f, editable |-> e, events |-> "none", disposed |-> n, busy |-> n]
  BY <1>5, <1>6
<1>8. PICK z : z = [y EXCEPT !.events = s]
  OBVIOUS
<1>9. z = [folder |-> f, editable |-> e, events |-> s, disposed |-> n, busy |-> n]
  BY <1>7, <1>8
<1>10. Mounted(f, e) = z
  BY <1>1, <1>4, <1>6, <1>8, Zenon DEF Mounted
<1>11. z \in TargetRecords /\ z.folder = f /\ z.editable = e /\ z.events = s
  BY <1>9 DEF TargetRecords
<1> QED BY <1>1, <1>10, <1>11

\* A target that is busy or not.
LEMMA BusyIs ==
  ASSUME NEW x \in TargetRecords, NEW b \in BOOLEAN
  PROVE  /\ [x EXCEPT !.busy = b] \in TargetRecords
         /\ [x EXCEPT !.busy = b].editable = x.editable
         /\ [x EXCEPT !.busy = b].events = x.events
BY DEF TargetRecords

\* A target that is disposed of.
LEMMA DisposedIs ==
  ASSUME NEW x \in TargetRecords, NEW b \in BOOLEAN
  PROVE  /\ [x EXCEPT !.disposed = b] \in TargetRecords
         /\ [x EXCEPT !.disposed = b].editable = x.editable
         /\ [x EXCEPT !.disposed = b].events = x.events
BY DEF TargetRecords

\* A target that is subscribed, or is not.
LEMMA EventsAre ==
  ASSUME NEW x \in TargetRecords, NEW s \in {"none", "asked", "live"}
  PROVE  /\ [x EXCEPT !.events = s] \in TargetRecords
         /\ [x EXCEPT !.events = s].editable = x.editable
         /\ [x EXCEPT !.events = s].events = s
BY DEF TargetRecords

\* A gift has the next number, and the earlier ones stay.
LEMMA GiftIs ==
  ASSUME DropsTypeOK, More, NEW f, Gave(f)
  PROVE  /\ NextGift \notin Gifts /\ NextGift # 0 /\ NextGift \in Gifts'
         /\ gifts'[NextGift] = f
         /\ \A g \in Gifts : g \in Gifts' /\ gifts'[g] = gifts[g]
         /\ \E n \in Nat : Numbered(n)'
<1>1. PICK n \in Nat : Gifts = 1..n
  BY DEF DropsTypeOK, Numbered
<1>2. PICK m \in 1..MaxGifts : m \notin Gifts
  BY DEF More
<1>3. MaxGifts \in Nat
  BY TargetsAssumption
<1>4. n + 1 \in 1..MaxGifts /\ n + 1 \notin Gifts /\ (n + 1) - 1 \in Gifts \cup {0}
  BY <1>1, <1>2, <1>3
<1>5. PICK k : k = NextGift
  OBVIOUS
<1>6. k \in 1..MaxGifts /\ k \notin Gifts /\ k - 1 \in Gifts \cup {0}
  BY <1>4, <1>5, Zenon DEF NextGift
<1>7. k = n + 1 /\ k # 0
  BY <1>1, <1>3, <1>6
<1>8. gifts' = [g \in Gifts \cup {k} |-> IF g = k THEN f ELSE gifts[g]]
  BY <1>5 DEF Gave
<1>9. DOMAIN gifts' = Gifts \cup {k} /\ gifts'[k] = f /\ \A g \in Gifts : gifts'[g] = gifts[g]
  BY <1>6, <1>8
<1>10. Gifts' = Gifts \cup {k}
  BY <1>9 DEF Gifts
<1>11. Gifts' = 1..(n + 1)
  BY <1>1, <1>7, <1>10
<1> QED BY <1>5, <1>6, <1>7, <1>9, <1>10, <1>11 DEF Numbered

\* What is added of a gift is added to the folder it was made in.
LEMMA GiftKeepsUploads ==
  ASSUME DropsTypeOK, UploadsAreTrue, HeldIsTrue, More, NEW f, Gave(f), NEW new, uploads' = uploads \cup new, held' = held,
         \A u \in new : u.gift = NextGift /\ (u.folder = f \/ u.stray),
         \A u, v \in new : u = v \/ u.stray \/ v.stray
  PROVE  UploadsAreTrue' /\ HeldIsTrue' /\ \E n \in Nat : Numbered(n)'
<1>1. /\ NextGift \notin Gifts /\ NextGift \in Gifts' /\ gifts'[NextGift] = f
      /\ \A g \in Gifts : g \in Gifts' /\ gifts'[g] = gifts[g]
      /\ \E n \in Nat : Numbered(n)'
  BY GiftIs
<1>2. UploadsAreTrue'
  <2>1. ASSUME NEW u \in uploads' PROVE u.gift \in Gifts' /\ (u.folder = gifts'[u.gift] \/ u.stray)
    BY <1>1, <2>1 DEF UploadsAreTrue
  <2>2. ASSUME NEW u \in uploads', NEW v \in uploads', u.gift = v.gift PROVE u = v \/ u.stray \/ v.stray
    BY <1>1, <2>2 DEF UploadsAreTrue
  <2> QED BY <2>1, <2>2 DEF UploadsAreTrue
<1>3. HeldIsTrue'
  <2>1. held # NoHold => held.gift \in Gifts /\ held.gift # NextGift
    BY <1>1 DEF HeldIsTrue
  <2> QED BY <1>1, <2>1 DEF HeldIsTrue
<1> QED BY <1>1, <1>2, <1>3

\* A change of the targets that leaves alone whether they can be written to.
Stay == \A t \in 1..MaxMounts :
  /\ targets'[t].editable = targets[t].editable
  /\ targets'[t].events # "none" => targets[t].events # "none"
\* What hears is not taken away from it.
LEMMA KeptListens ==
  ASSUME OnlyEditableHear, Stay
  PROVE  OnlyEditableHear'
BY DEF OnlyEditableHear, Stay

\* No gift is made and none is added.
LEMMA NothingAdded ==
  ASSUME DropsInv, gifts' = gifts, uploads' = uploads, held' = held
  PROVE  HeldIsTrue' /\ UploadsAreTrue' /\ \E n \in Nat : Numbered(n)'
BY DEF DropsInv, HeldIsTrue, UploadsAreTrue, DropsTypeOK, Numbered, Gifts

\* A drag over the page, or a file dialog, changes no target.
LEMMA DragKeepsInv ==
  ASSUME DropsInv, handleDragEnter \/ onDragOver \/ onDragLeave \/ openFiles
  PROVE  DropsInv'
<1> USE DEF DropsInv
<1>1. /\ app' = app /\ target' = target /\ targets' = targets /\ held' = held /\ gifts' = gifts /\ uploads' = uploads
  BY DEF handleDragEnter, onDragOver, onDragLeave, openFiles
<1>2. HeldIsTrue' /\ UploadsAreTrue' /\ \E n \in Nat : Numbered(n)'
  BY <1>1, NothingAdded
<1>3. AppsDiffer' /\ OnlyEditableHear'
  <2>1. Web \/ ready' = ready
    BY DEF handleDragEnter, onDragOver, onDragLeave, openFiles
  <2>2. AppsDiffer'
    BY <1>1, <2>1 DEF AppsDiffer, Web, Desktop
  <2> QED BY <1>1, <2>2 DEF OnlyEditableHear
<1>4. /\ overlay \in BOOLEAN /\ ready \in BOOLEAN /\ slipped \in BOOLEAN
      /\ Web => 1 \in 1..MaxMounts
  BY TargetsAssumption DEF DropsTypeOK
<1>5. CASE handleDragEnter
  <2>1. /\ Web /\ drag' = "page" /\ overlay' = (overlay \/ Here.editable) /\ ready' = ready /\ slipped' = slipped
    BY <1>5 DEF handleDragEnter
  <2>2. target = 1
    BY <2>1 DEF AppsDiffer
  <2>3. OverlayIsTrue'
    BY <1>1, <1>4, <2>1, <2>2 DEF OverlayIsTrue, Here
  <2>4. overlay' \in BOOLEAN
    BY <2>1
  <2>5. DropsTypeOK'
    BY <1>1, <1>2, <2>1, <2>4 DEF DropsTypeOK
  <2> QED BY <1>2, <1>3, <2>3, <2>5
<1>6. CASE onDragOver
  <2>1. /\ overlay /\ drag' \in {"overlay", "panel"} /\ ready' = (drag' = "panel")
        /\ overlay' = overlay /\ slipped' = slipped
    BY <1>6 DEF onDragOver
  <2>2. OverlayIsTrue'
    BY <1>1, <2>1 DEF OverlayIsTrue, Here
  <2>3. ready' \in BOOLEAN
    BY <2>1
  <2>4. DropsTypeOK'
    BY <1>1, <1>2, <2>1, <2>3 DEF DropsTypeOK
  <2> QED BY <1>2, <1>3, <2>2, <2>4
<1>7. CASE onDragLeave
  <2>1. /\ drag' = "out"
        /\ overlay' = (overlay /\ drag = "page") /\ ready' = (ready /\ drag = "page")
        /\ slipped' = IF drag = "page" THEN slipped \/ overlay ELSE FALSE
    BY <1>7 DEF onDragLeave
  <2>2. overlay' \in BOOLEAN /\ ready' \in BOOLEAN /\ slipped' \in BOOLEAN
    BY <1>4, <2>1
  <2>3. /\ overlay' => overlay /\ drag = "page"
        /\ ready' => ready /\ drag = "page"
        /\ ready /\ drag = "page" => ready'
        /\ overlay /\ drag = "page" => overlay' /\ slipped'
    BY <2>1
  <2>4. OverlayIsTrue'
    BY <1>1, <2>3 DEF OverlayIsTrue, Here
  <2>5. DropsTypeOK'
    BY <1>1, <1>2, <2>2 DEF DropsTypeOK
  <2> QED BY <1>2, <1>3, <2>4, <2>5
<1>8. CASE openFiles
  <2>1. drag' = drag /\ overlay' = overlay /\ ready' = ready /\ slipped' = slipped
    BY <1>8 DEF openFiles
  <2>2. OverlayIsTrue'
    BY <1>1, <2>1 DEF OverlayIsTrue, Here
  <2>3. DropsTypeOK'
    BY <1>1, <1>2, <1>4, <2>1 DEF DropsTypeOK
  <2> QED BY <1>2, <1>3, <2>2, <2>3
<1> QED BY <1>5, <1>6, <1>7, <1>8

\* Another folder in the browser.
LEMMA FolderKeepsInv ==
  ASSUME DropsInv, NEW f \in Folders, NEW e \in BOOLEAN, FileUploadTarget(f, e)
  PROVE  DropsInv'
<1> USE DEF DropsInv
<1>1. /\ Web /\ targets' = [targets EXCEPT ![1] = Mounted(f, e)]
      /\ app' = app /\ target' = target /\ held' = held /\ gifts' = gifts /\ uploads' = uploads /\ slipped' = slipped
  BY DEF FileUploadTarget
<1>2. HeldIsTrue' /\ UploadsAreTrue' /\ \E n \in Nat : Numbered(n)'
  BY <1>1, NothingAdded
<1>3. target = 1 /\ app # "desktop" /\ 1 \in 1..MaxMounts
  BY <1>1, TargetsAssumption DEF AppsDiffer, Web
<1>4. /\ targets \in [1..MaxMounts -> TargetRecords]
      /\ overlay \in BOOLEAN /\ ready \in BOOLEAN
  BY DEF DropsTypeOK
<1>5. PICK m \in TargetRecords : m = Mounted(f, e) /\ m.editable = e /\ (m.events # "none" => e)
  BY MountedIs
<1>6. /\ targets' \in [1..MaxMounts -> TargetRecords] /\ targets'[1] = m
      /\ \A t \in 1..MaxMounts : t # 1 => targets'[t] = targets[t]
  BY <1>1, <1>3, <1>4, <1>5
<1>7. OnlyEditableHear'
  BY <1>5, <1>6 DEF OnlyEditableHear
<1>8. AppsDiffer'
  BY <1>1, <1>3 DEF AppsDiffer, Web, Desktop
<1>9. /\ e => drag' = drag /\ overlay' = overlay /\ ready' = ready
      /\ ~e => overlay' = FALSE /\ ready' = FALSE
  BY Zenon DEF FileUploadTarget
<1>10. overlay' \in BOOLEAN /\ ready' \in BOOLEAN
  BY <1>4, <1>9
<1>11. OverlayIsTrue'
  BY <1>1, <1>3, <1>5, <1>6, <1>9 DEF OverlayIsTrue, Here
<1>12. DropsTypeOK'
  BY <1>1, <1>2, <1>6, <1>10 DEF DropsTypeOK
<1> QED BY <1>2, <1>7, <1>8, <1>11, <1>12

\* The browser is given files, and adds them when it has read them.
LEMMA DropKeepsInv ==
  ASSUME DropsInv, drop
  PROVE  DropsInv'
<1> USE DEF DropsInv
<1>1. /\ Web /\ More /\ held = NoHold /\ slipped' = FALSE /\ Gave(Here.folder)
      /\ held' = [gift |-> NextGift, folder |-> Here.folder, inside |-> drag = "panel"]
      /\ app' = app /\ target' = target /\ targets' = targets /\ overlay' = overlay /\ ready' = ready /\ uploads' = uploads
  BY DEF drop
<1>2. PICK k, f, b : k = NextGift /\ f = Here.folder /\ b = (drag = "panel")
  OBVIOUS
<1>3. held' = [gift |-> k, folder |-> f, inside |-> b]
  BY <1>1, <1>2
<1>4. held'.gift = k /\ held'.folder = f
  BY <1>3
<1>5. /\ k \notin Gifts /\ k # 0 /\ k \in Gifts' /\ gifts'[k] = f
      /\ \A g \in Gifts : g \in Gifts' /\ gifts'[g] = gifts[g]
      /\ \E n \in Nat : Numbered(n)'
  BY <1>1, <1>2, GiftIs
<1>6. held' # NoHold
  BY <1>4, <1>5 DEF NoHold
<1>7. UploadsAreTrue'
  BY <1>1, <1>5 DEF UploadsAreTrue
<1>8. HeldIsTrue'
  BY <1>1, <1>4, <1>5 DEF HeldIsTrue, UploadsAreTrue
<1>9. AppsDiffer'
  BY <1>1 DEF AppsDiffer, Web, Desktop
<1>10. OnlyEditableHear'
  BY <1>1 DEF OnlyEditableHear
<1>11. OverlayIsTrue'
  BY <1>1, <1>6 DEF OverlayIsTrue, Here
<1>12. DropsTypeOK'
  BY <1>1, <1>5 DEF DropsTypeOK
<1> QED BY <1>7, <1>8, <1>9, <1>10, <1>11, <1>12

\* What the browser has read is added, if it was dropped on the panel.
LEMMA OnDropKeepsInv ==
  ASSUME DropsInv, onDrop
  PROVE  DropsInv'
<1> USE DEF DropsInv
<1>1. /\ Web /\ held # NoHold /\ held' = NoHold /\ overlay' = FALSE /\ ready' = FALSE
      /\ app' = app /\ target' = target /\ targets' = targets /\ gifts' = gifts /\ slipped' = slipped
      /\ uploads' = IF held.inside /\ overlay
                    THEN uploads \cup {Added(held.gift, 1, held.folder)} ELSE uploads
  BY DEF onDrop
<1>2. PICK a : a = Added(held.gift, 1, held.folder)
  OBVIOUS
<1>3. a.gift = held.gift /\ a.folder = held.folder
  BY <1>2, AddedIs
<1>4. uploads' = uploads \/ uploads' = uploads \cup {a}
  BY <1>1, <1>2
<1>5. /\ held.gift \in Gifts /\ held.folder = gifts[held.gift]
      /\ \A u \in uploads : u.gift # held.gift
  BY <1>1 DEF HeldIsTrue
<1>6. UploadsAreTrue'
  <2>1. ASSUME NEW u \in uploads' PROVE u.gift \in Gifts /\ (u.folder = gifts[u.gift] \/ u.stray)
    <3>1. u \in uploads \/ u = a
      BY <1>4, <2>1
    <3> QED BY <1>3, <1>5, <3>1 DEF UploadsAreTrue
  <2>2. ASSUME NEW u \in uploads', NEW v \in uploads', u.gift = v.gift PROVE u = v \/ u.stray \/ v.stray
    <3>1. (u \in uploads \/ u = a) /\ (v \in uploads \/ v = a)
      BY <1>4
    <3> QED BY <1>3, <1>5, <2>2, <3>1 DEF UploadsAreTrue
  <2>3. Gifts' = Gifts
    BY <1>1 DEF Gifts
  <2> QED BY <1>1, <2>1, <2>2, <2>3 DEF UploadsAreTrue
<1>7. HeldIsTrue'
  BY <1>1 DEF HeldIsTrue
<1>8. AppsDiffer'
  BY <1>1 DEF AppsDiffer, Web, Desktop
<1>9. OnlyEditableHear' /\ OverlayIsTrue'
  BY <1>1 DEF OnlyEditableHear, OverlayIsTrue
<1>10. DropsTypeOK'
  BY <1>1 DEF DropsTypeOK, Numbered, Gifts
<1> QED BY <1>6, <1>7, <1>8, <1>9, <1>10

\* Targets change, but not whether they can be written to, nor does one hear
\* that did not ask; the overlay stays or goes.
LEMMA KeptKeepsInv ==
  ASSUME DropsInv, Stay, targets' \in [1..MaxMounts -> TargetRecords],
         app' = app, ready' = ready, HeldIsTrue', UploadsAreTrue', \E n \in Nat : Numbered(n)',
         held' = held, overlay' \in BOOLEAN, slipped' \in BOOLEAN,
         target' = target \/ (Desktop /\ ~overlay'),
         overlay' => overlay \/ (target \in 1..MaxMounts /\ Here.editable),
         overlay' => drag' # "out" \/ held # NoHold \/ slipped',
         ready => overlay'
  PROVE  DropsInv'
<1> USE DEF DropsInv
<1>1. OnlyEditableHear'
  BY KeptListens
<1>2. AppsDiffer'
  BY DEF AppsDiffer, Web, Desktop
<1>3. OverlayIsTrue'
  <2>1. ASSUME overlay' PROVE target' = target /\ target \in 1..MaxMounts /\ targets'[target].editable
    BY <2>1 DEF OverlayIsTrue, Here, Stay
  <2>2. ready' => overlay'
    OBVIOUS
  <2> QED BY <2>1, <2>2 DEF OverlayIsTrue, Here
<1>4. DropsTypeOK'
  BY DEF DropsTypeOK
<1> QED BY <1>1, <1>2, <1>3, <1>4

\* A desktop target is gone with its folder.
LEMMA UnmountKeepsInv ==
  ASSUME DropsInv, unmount
  PROVE  DropsInv'
<1> USE DEF DropsInv
<1>1. /\ Desktop /\ overlay' = FALSE
      /\ targets' = [targets EXCEPT ![target].disposed = TRUE,
                                    ![target].events = IF @ = "live" THEN "none" ELSE @]
      /\ app' = app /\ held' = held /\ gifts' = gifts /\ uploads' = uploads /\ slipped' = slipped /\ ready' = ready
  BY DEF unmount
<1>2. targets \in [1..MaxMounts -> TargetRecords] /\ slipped \in BOOLEAN
  BY DEF DropsTypeOK
<1>3. Stay /\ targets' \in [1..MaxMounts -> TargetRecords]
  <2>1. CASE target \in 1..MaxMounts
    <3>1. PICK x \in TargetRecords : x = targets[target]
      BY <1>2, <2>1
    <3>2. PICK d \in BOOLEAN : d = TRUE
      OBVIOUS
    <3>3. PICK y : y = [x EXCEPT !.disposed = d]
      OBVIOUS
    <3>4. y \in TargetRecords /\ y.editable = x.editable /\ y.events = x.events
      BY <3>3, DisposedIs
    <3>5. PICK s : s = IF y.events = "live" THEN "none" ELSE y.events
      OBVIOUS
    <3>6. y.events \in {"none", "asked", "live"}
      BY <3>4 DEF TargetRecords
    <3>7. s \in {"none", "asked", "live"} /\ (s # "none" => y.events # "none")
      BY <3>5, <3>6
    <3>8. PICK z : z = [y EXCEPT !.events = s]
      OBVIOUS
    <3>9. z \in TargetRecords /\ z.editable = y.editable /\ z.events = s
      BY <3>4, <3>7, <3>8, EventsAre
    <3>10. targets' = [targets EXCEPT ![target] = z]
      <4>1. targets' = [[targets EXCEPT ![target] = y] EXCEPT ![target] =
                          [y EXCEPT !.events = IF y.events = "live" THEN "none" ELSE y.events]]
        BY <1>1, <1>2, <2>1, <3>1, <3>2, <3>3
      <4> QED BY <1>2, <2>1, <3>5, <3>8, <4>1
    <3>11. /\ targets' \in [1..MaxMounts -> TargetRecords] /\ targets'[target] = z
           /\ \A t \in 1..MaxMounts : t # target => targets'[t] = targets[t]
      BY <1>2, <2>1, <3>9, <3>10
    <3> QED BY <3>1, <3>4, <3>7, <3>9, <3>11 DEF Stay
  <2>2. CASE target \notin 1..MaxMounts
    <3>1. targets' = targets
      BY <1>1, <1>2, <2>2
    <3> QED BY <1>2, <3>1 DEF Stay
  <2> QED BY <2>1, <2>2
<1>4. HeldIsTrue' /\ UploadsAreTrue' /\ \E n \in Nat : Numbered(n)'
  BY <1>1, NothingAdded
<1>5. ~ready
  BY <1>1 DEF AppsDiffer
<1> QED BY <1>1, <1>2, <1>3, <1>4, <1>5, KeptKeepsInv

\* A desktop target is mounted, and there is no overlay yet.
LEMMA MountKeepsInv ==
  ASSUME DropsInv, NEW f \in Folders, NEW e \in BOOLEAN, DesktopFileUploadTarget(f, e)
  PROVE  DropsInv'
<1> USE DEF DropsInv
<1>1. /\ Desktop /\ target = 0 /\ \E t : targets' = [targets EXCEPT ![t] = Mounted(f, e)]
      /\ app' = app /\ held' = held /\ gifts' = gifts /\ uploads' = uploads /\ slipped' = slipped /\ ready' = ready
      /\ overlay' = overlay
  BY DEF DesktopFileUploadTarget
<1>2. PICK t : targets' = [targets EXCEPT ![t] = Mounted(f, e)]
  BY <1>1
<1>3. targets \in [1..MaxMounts -> TargetRecords]
  BY DEF DropsTypeOK
<1>4. PICK m \in TargetRecords : m = Mounted(f, e) /\ m.editable = e /\ (m.events # "none" => e)
  BY MountedIs
<1>5. /\ targets' \in [1..MaxMounts -> TargetRecords]
      /\ \A n \in 1..MaxMounts : targets'[n] = targets[n] \/ targets'[n] = m
  BY <1>2, <1>3, <1>4
<1>6. OnlyEditableHear'
  BY <1>4, <1>5 DEF OnlyEditableHear
<1>7. ~overlay /\ ~ready /\ app # "web"
  BY <1>1 DEF OverlayIsTrue, Desktop
<1>8. OverlayIsTrue'
  BY <1>1, <1>7 DEF OverlayIsTrue
<1>9. AppsDiffer'
  BY <1>1, <1>7 DEF AppsDiffer, Web, Desktop
<1>10. HeldIsTrue' /\ UploadsAreTrue' /\ \E n \in Nat : Numbered(n)'
  BY <1>1, NothingAdded
<1>11. DropsTypeOK'
  BY <1>1, <1>5, <1>10 DEF DropsTypeOK
<1> QED BY <1>6, <1>8, <1>9, <1>10, <1>11

\* A target is subscribed, or has added what it was given.
LEMMA ChangedKeepsInv ==
  ASSUME DropsInv, NEW t \in 1..MaxMounts, subscribed(t) \/ enqueued(t)
  PROVE  DropsInv'
<1> USE DEF DropsInv
<1>1. /\ app' = app /\ target' = target /\ held' = held /\ gifts' = gifts /\ uploads' = uploads /\ slipped' = slipped
      /\ ready' = ready /\ overlay' = overlay /\ drag' = drag
  BY DEF subscribed, enqueued
<1>2. targets \in [1..MaxMounts -> TargetRecords] /\ overlay \in BOOLEAN /\ slipped \in BOOLEAN
  BY DEF DropsTypeOK
<1>3. PICK x \in TargetRecords : x = targets[t]
  BY <1>2
<1>4. \E z \in TargetRecords : /\ targets' = [targets EXCEPT ![t] = z] /\ z.editable = x.editable
                               /\ z.events # "none" => x.events # "none"
  <2>1. CASE enqueued(t)
    <3>1. PICK b \in BOOLEAN : b = FALSE
      OBVIOUS
    <3>2. PICK z : z = [x EXCEPT !.busy = b]
      OBVIOUS
    <3>3. z \in TargetRecords /\ z.editable = x.editable /\ z.events = x.events
      BY <3>2, BusyIs
    <3>4. targets' = [targets EXCEPT ![t] = z]
      BY <1>2, <1>3, <2>1, <3>1, <3>2 DEF enqueued
    <3> QED BY <3>3, <3>4
  <2>2. CASE subscribed(t)
    <3>1. PICK s \in {"none", "asked", "live"} : s = (IF targets[t].disposed THEN "none" ELSE "live")
      OBVIOUS
    <3>2. PICK z : z = [x EXCEPT !.events = s]
      OBVIOUS
    <3>3. z \in TargetRecords /\ z.editable = x.editable /\ z.events = s
      BY <3>2, EventsAre
    <3>4. targets' = [targets EXCEPT ![t] = z]
      BY <1>2, <1>3, <2>2, <3>1, <3>2 DEF subscribed
    <3>5. x.events # "none"
      BY <1>3, <2>2 DEF subscribed
    <3> QED BY <3>3, <3>4, <3>5
  <2> QED BY <2>1, <2>2
<1>5. Stay /\ targets' \in [1..MaxMounts -> TargetRecords]
  <2>1. PICK z \in TargetRecords : /\ targets' = [targets EXCEPT ![t] = z] /\ z.editable = x.editable
                                   /\ z.events # "none" => x.events # "none"
    BY <1>4
  <2>2. /\ targets' \in [1..MaxMounts -> TargetRecords] /\ targets'[t] = z
        /\ \A n \in 1..MaxMounts : n # t => targets'[n] = targets[n]
    BY <1>2, <2>1
  <2> QED BY <1>3, <2>1, <2>2 DEF Stay
<1>6. HeldIsTrue' /\ UploadsAreTrue' /\ \E n \in Nat : Numbered(n)'
  BY <1>1, NothingAdded
<1>7. /\ overlay' => overlay
      /\ overlay' => drag' # "out" \/ held # NoHold \/ slipped'
      /\ ready => overlay'
  BY <1>1 DEF OverlayIsTrue
<1> QED BY <1>1, <1>2, <1>5, <1>6, <1>7, KeptKeepsInv

\* Those that hear can be written to.
LEMMA HearersAreEditable ==
  ASSUME DropsInv, NEW h \in SUBSET (1..MaxMounts), Hears(h)
  PROVE  \A t \in h : t \in 1..MaxMounts /\ targets[t].editable
BY DEF DropsInv, Hears, OnlyEditableHear

\* The webview reports a drag, to those that hear.
LEMMA DragDropKeepsInv ==
  ASSUME DropsInv, NEW h \in SUBSET (1..MaxMounts), onDragDropEvent(h)
  PROVE  DropsInv'
<1> USE DEF DropsInv
<1>1. /\ Desktop /\ Hears(h)
      /\ app' = app /\ target' = target /\ targets' = targets /\ held' = held /\ gifts' = gifts /\ uploads' = uploads
      /\ ready' = ready
  BY DEF onDragDropEvent
<1>2. targets \in [1..MaxMounts -> TargetRecords] /\ overlay \in BOOLEAN /\ slipped \in BOOLEAN
  BY DEF DropsTypeOK
<1>3. Stay
  BY <1>1 DEF Stay
<1>4. HeldIsTrue' /\ UploadsAreTrue' /\ \E n \in Nat : Numbered(n)'
  BY <1>1, NothingAdded
<1>5. ~ready
  BY <1>1 DEF AppsDiffer
<1>6. target \in h => target \in 1..MaxMounts /\ Here.editable
  BY <1>1, HearersAreEditable DEF Here
<1>7. \/ drag' = "page" /\ overlay' = (overlay \/ (target \in h /\ ~Here.busy)) /\ slipped' = slipped
      \/ drag' = "out" /\ overlay' = (overlay /\ target \notin h) /\ slipped' = overlay'
  BY DEF onDragDropEvent
<1>8. /\ overlay' \in BOOLEAN /\ slipped' \in BOOLEAN
      /\ overlay' => overlay \/ target \in h
      /\ overlay' => drag' # "out" \/ slipped'
  <2>1. CASE drag' = "page" /\ overlay' = (overlay \/ (target \in h /\ ~Here.busy)) /\ slipped' = slipped
    BY <1>2, <2>1
  <2>2. CASE drag' = "out" /\ overlay' = (overlay /\ target \notin h) /\ slipped' = overlay'
    BY <1>2, <2>2
  <2> QED BY <1>7, <2>1, <2>2
<1>9. overlay' => overlay \/ (target \in 1..MaxMounts /\ Here.editable)
  BY <1>6, <1>8
<1> QED BY <1>1, <1>2, <1>3, <1>4, <1>5, <1>8, <1>9, KeptKeepsInv

\* Paths are dropped: each of those that hear and are not busy adds them.
LEMMA DropPathsKeepsInv ==
  ASSUME DropsInv, NEW h \in SUBSET (1..MaxMounts), dropPaths(h)
  PROVE  DropsInv'
<1> USE DEF DropsInv
<1>1. PICK takers : takers = {t \in h : ~targets[t].busy}
  OBVIOUS
<1>2. PICK f : f = IF target = 0 THEN "none" ELSE Here.folder
  OBVIOUS
<1>3. /\ Desktop /\ drag' = "out" /\ More
      /\ overlay' = (overlay /\ target \notin h) /\ slipped' = overlay'
      /\ uploads' = uploads \cup {Added(NextGift, t, targets[t].folder) : t \in takers}
      /\ targets' = [t \in 1..MaxMounts |-> IF t \in takers THEN [targets[t] EXCEPT !.busy = TRUE] ELSE targets[t]]
      /\ app' = app /\ target' = target /\ held' = held /\ ready' = ready
  BY <1>1, Zenon DEF dropPaths
<1>4. Gave(f)
  BY <1>2, Zenon DEF dropPaths
<1>5. targets \in [1..MaxMounts -> TargetRecords] /\ overlay \in BOOLEAN
  BY DEF DropsTypeOK
<1>6. PICK new : new = {Added(NextGift, t, targets[t].folder) : t \in takers}
  OBVIOUS
<1>7. 0 \notin takers
  <2>1. \A t \in h : t \in 1..MaxMounts
    OBVIOUS
  <2>2. 0 \notin 1..MaxMounts
    OBVIOUS
  <2> QED BY <1>1, <2>1, <2>2
<1>8. ASSUME NEW u \in new
      PROVE  u.gift = NextGift /\ (u.folder = f \/ u.stray) /\ (u.stray \/ u = Added(NextGift, target, targets[target].folder))
  <2>1. PICK t \in takers : u = Added(NextGift, t, targets[t].folder)
    BY <1>6, <1>8
  <2>2. u.gift = NextGift /\ u.folder = targets[t].folder /\ (t # target => u.stray)
    BY <2>1, AddedIs
  <2>3. t = target => u.folder = f
    BY <1>2, <1>7, <2>2 DEF Here
  <2> QED BY <2>1, <2>2, <2>3
<1>9. \A u, v \in new : u = v \/ u.stray \/ v.stray
  BY <1>8
<1>10. HeldIsTrue' /\ UploadsAreTrue' /\ \E n \in Nat : Numbered(n)'
  <2>1. \A u \in new : u.gift = NextGift /\ (u.folder = f \/ u.stray)
    BY <1>8
  <2> QED BY <1>3, <1>4, <1>6, <1>9, <2>1, GiftKeepsUploads
<1>11. Stay /\ targets' \in [1..MaxMounts -> TargetRecords]
  <2>1. PICK b \in BOOLEAN : b = TRUE
    OBVIOUS
  <2>2. ASSUME NEW t \in 1..MaxMounts
        PROVE  targets'[t] \in TargetRecords /\ targets'[t].editable = targets[t].editable /\ targets'[t].events = targets[t].events
    <3>1. PICK x \in TargetRecords : x = targets[t]
      BY <1>5
    <3>2. targets'[t] = x \/ targets'[t] = [x EXCEPT !.busy = b]
      BY <1>3, <2>1, <3>1
    <3>3. PICK y : y = [x EXCEPT !.busy = b]
      OBVIOUS
    <3>4. y \in TargetRecords /\ y.editable = x.editable /\ y.events = x.events
      BY <3>3, BusyIs
    <3> QED BY <3>1, <3>2, <3>3, <3>4
  <2>3. targets' \in [1..MaxMounts -> TargetRecords]
    BY <1>3, <2>2
  <2> QED BY <2>2, <2>3 DEF Stay
<1>12. ~ready
  BY <1>3 DEF AppsDiffer
<1>13. /\ overlay' \in BOOLEAN /\ slipped' \in BOOLEAN
       /\ overlay' => overlay
       /\ overlay' => slipped'
  BY <1>3, <1>5
<1> QED BY <1>3, <1>10, <1>11, <1>12, <1>13, KeptKeepsInv

\* The user has picked files.
LEMMA PickedKeepsInv ==
  ASSUME DropsInv, picked
  PROVE  DropsInv'
<1> USE DEF DropsInv
<1>1. PICK f : f = targets[picking].folder
  OBVIOUS
<1>2. /\ More /\ Gave(f)
      /\ app' = app /\ target' = target /\ held' = held /\ ready' = ready /\ overlay' = overlay /\ drag' = drag
      /\ slipped' = slipped
      /\ \/ /\ uploads' = uploads \cup {Added(NextGift, picking, f)}
            /\ targets' = targets \/ targets' = [targets EXCEPT ![picking].busy = TRUE]
         \/ uploads' = uploads \cup {} /\ targets' = targets
  BY <1>1 DEF picked
<1>3. PICK new : /\ uploads' = uploads \cup new
                 /\ new = {} \/ new = {Added(NextGift, picking, f)}
  BY <1>2
<1>4. \A u \in new : u.gift = NextGift /\ (u.folder = f \/ u.stray)
  BY <1>3, AddedIs
<1>5. \A u, v \in new : u = v \/ u.stray \/ v.stray
  BY <1>3
<1>6. HeldIsTrue' /\ UploadsAreTrue' /\ \E n \in Nat : Numbered(n)'
  BY <1>2, <1>3, <1>4, <1>5, GiftKeepsUploads
<1>7. targets \in [1..MaxMounts -> TargetRecords] /\ overlay \in BOOLEAN /\ slipped \in BOOLEAN
  BY DEF DropsTypeOK
<1>8. Stay /\ targets' \in [1..MaxMounts -> TargetRecords]
  <2>1. CASE targets' = targets
    BY <1>7, <2>1 DEF Stay
  <2>2. CASE targets' = [targets EXCEPT ![picking].busy = TRUE] /\ picking \in 1..MaxMounts
    <3>1. PICK b \in BOOLEAN : b = TRUE
      OBVIOUS
    <3>2. PICK x \in TargetRecords : x = targets[picking]
      BY <1>7, <2>2
    <3>3. PICK y : y = [x EXCEPT !.busy = b]
      OBVIOUS
    <3>4. y \in TargetRecords /\ y.editable = x.editable /\ y.events = x.events
      BY <3>3, BusyIs
    <3>5. targets' = [targets EXCEPT ![picking] = y]
      BY <1>7, <2>2, <3>1, <3>2, <3>3
    <3>6. /\ targets' \in [1..MaxMounts -> TargetRecords] /\ targets'[picking] = y
          /\ \A n \in 1..MaxMounts : n # picking => targets'[n] = targets[n]
      BY <1>7, <2>2, <3>4, <3>5
    <3> QED BY <3>2, <3>4, <3>6 DEF Stay
  <2>3. CASE targets' = [targets EXCEPT ![picking].busy = TRUE] /\ picking \notin 1..MaxMounts
    <3>1. targets' = targets
      BY <1>7, <2>3
    <3> QED BY <1>7, <3>1 DEF Stay
  <2> QED BY <1>2, <2>1, <2>2, <2>3
<1>9. /\ overlay' => drag' # "out" \/ held # NoHold \/ slipped'
      /\ ready => overlay'
  BY <1>2 DEF OverlayIsTrue
<1> QED BY <1>2, <1>6, <1>7, <1>8, <1>9, KeptKeepsInv

\* Before anything is dragged.
LEMMA TargetsInitInv == TargetsInit => DropsInv
<1> SUFFICES ASSUME TargetsInit PROVE DropsInv
  OBVIOUS
<1>1. PICK f \in Folders, e \in BOOLEAN :
        targets = [t \in 1..MaxMounts |-> IF t = 1 THEN Mounted(f, e) ELSE Unmounted]
  BY DEF TargetsInit
<1>2. /\ app \in {"web", "desktop"} /\ target = 1 /\ overlay = FALSE /\ ready = FALSE /\ held = NoHold
      /\ gifts = [g \in {} |-> "none"] /\ uploads = {} /\ slipped = FALSE
  BY DEF TargetsInit
<1>3. PICK m \in TargetRecords : m = Mounted(f, e) /\ m.editable = e /\ (m.events # "none" => e)
  BY MountedIs
<1>4. \A t \in 1..MaxMounts : targets[t] = m \/ targets[t] = Unmounted
  BY <1>1, <1>3
<1>5. targets \in [1..MaxMounts -> TargetRecords]
  BY <1>1, <1>3, UnmountedIs
<1>6. OnlyEditableHear
  BY <1>3, <1>4, UnmountedIs DEF OnlyEditableHear
<1>7. Numbered(0)
  <2>1. Gifts = {}
    BY <1>2 DEF Gifts
  <2>2. 1..0 = {}
    OBVIOUS
  <2> QED BY <2>1, <2>2 DEF Numbered
<1>8. \E n \in Nat : Numbered(n)
  BY <1>7
<1>9. DropsTypeOK
  BY <1>2, <1>5, <1>8 DEF DropsTypeOK
<1> QED BY <1>2, <1>6, <1>9 DEF DropsInv, AppsDiffer, HeldIsTrue, UploadsAreTrue, OverlayIsTrue

\* For any folders, targets and gifts, in both applications: what was dropped or
\* picked is added once, to the folder that was shown, unless a desktop target
\* that is no longer shown adds it as well; and the overlay is there only over a
\* folder that can be written to, while something is dragged or read.
THEOREM DropsAlwaysReachTheirFolder == TargetsSpec => []DropsReachTheirFolder
<1>1. DropsInv => DropsReachTheirFolder
  <2> SUFFICES ASSUME DropsInv PROVE DropsReachTheirFolder
    OBVIOUS
  <2>1. overlay => target # 0 /\ Here.editable /\ (drag # "out" \/ held # NoHold \/ slipped)
    BY DEF DropsInv, OverlayIsTrue
  <2> QED BY <2>1 DEF DropsInv, UploadsAreTrue, OverlayIsTrue, DropsReachTheirFolder
<1>2. DropsInv /\ [TargetsNext]_targetVars => DropsInv'
  <2> SUFFICES ASSUME DropsInv, [TargetsNext]_targetVars PROVE DropsInv'
    OBVIOUS
  <2>1. ASSUME NEW f \in Folders, NEW e \in BOOLEAN, FileUploadTarget(f, e) \/ DesktopFileUploadTarget(f, e)
        PROVE  DropsInv'
    BY <2>1, FolderKeepsInv, MountKeepsInv
  <2>2. CASE handleDragEnter \/ onDragOver \/ onDragLeave \/ openFiles
    BY <2>2, DragKeepsInv
  <2>3. CASE drop
    BY <2>3, DropKeepsInv
  <2>4. CASE onDrop
    BY <2>4, OnDropKeepsInv
  <2>5. CASE unmount
    BY <2>5, UnmountKeepsInv
  <2>6. ASSUME NEW t \in 1..MaxMounts, subscribed(t) \/ enqueued(t) PROVE DropsInv'
    BY <2>6, ChangedKeepsInv
  <2>7. ASSUME NEW h \in SUBSET (1..MaxMounts), onDragDropEvent(h) \/ dropPaths(h) PROVE DropsInv'
    BY <2>7, DragDropKeepsInv, DropPathsKeepsInv
  <2>8. CASE picked
    BY <2>8, PickedKeepsInv
  <2>9. CASE UNCHANGED targetVars
    BY <2>9 DEF targetVars, DropsInv, DropsTypeOK, Numbered, Gifts, AppsDiffer, Web, Desktop, OnlyEditableHear,
               HeldIsTrue, UploadsAreTrue, OverlayIsTrue, Here
  <2> QED BY <2>1, <2>2, <2>3, <2>4, <2>5, <2>6, <2>7, <2>8, <2>9 DEF TargetsNext
<1> QED BY <1>1, <1>2, TargetsInitInv, PTL DEF TargetsSpec

-------------------------------------------------------------------------------
(* FolderPlans.                                                               *)

Paths == Seq(ToSet(Names))

\* The calls of one plan.
Forests == [parent : Paths, paths : SUBSET Paths]

\* The records of the plans.
Resolutions == {<<>>} \cup UNION {[D -> Paths] : D \in SUBSET Paths}
PlanRecords == [pc : {"none", "unsafe", "sending", "planned", "refused", "failed"},
                dirs : SUBSET Paths, calls : Seq(Forests), resolved : Resolutions, created : Nat]

\* A forest: some of the directories, below one that has its folder; what is not
\* below another of them is directly below that one.
GoodForest(f, all, known) ==
  /\ f.parent = <<>> \/ f.parent \in known
  /\ f.paths \subseteq all
  /\ \A p \in f.paths : Len(f.parent) < Len(p) /\ (Parent(p) \in f.paths \/ Parent(p) = f.parent)

\* What one plan knows is right.
Known(r, fs) ==
  /\ DOMAIN r.resolved \subseteq FolderPaths(r.dirs)
  /\ \A p \in DOMAIN r.resolved : r.resolved[p] = KeyPath(p) /\ KeyPath(p) \in fs

\* What it has not sent is in one of its calls.
Awaited(r) ==
  /\ r.calls # <<>>
  /\ \A i \in 1..Len(r.calls) : GoodForest(r.calls[i], FolderPaths(r.dirs), DOMAIN r.resolved)
  /\ \A p \in FolderPaths(r.dirs) :
       p \in DOMAIN r.resolved \/ \E i \in 1..Len(r.calls) : p \in r.calls[i].paths

\* One plan.
GoodPlan(r, fs) ==
  /\ r.pc \notin {"none", "unsafe"} => IsFiniteSet(r.dirs) /\ Known(r, fs)
  /\ r.pc = "sending" => Awaited(r)
  /\ r.pc = "planned" => DOMAIN r.resolved = FolderPaths(r.dirs)
  /\ r.pc = "refused" => FoldedTogether(r.dirs)

\* made[k] are the folders that plan k counts as its own.
MadeBy(made, pl, fs) ==
  /\ made \in [Plans -> SUBSET fs]
  /\ \A j, k \in Plans : j # k => made[j] \cap made[k] = {}
  /\ \A k \in Plans : pl[k].created = Cardinality(made[k])

\* The inductive invariant of the plans.
PlansInv ==
  /\ IsFiniteSet(folders)
  /\ \A f \in folders : Len(f) > 1 => Parent(f) \in folders
  /\ plan \in [Plans -> PlanRecords]
  /\ \A k \in Plans : GoodPlan(plan[k], folders)
  /\ \E made : MadeBy(made, plan, folders)
-----------------------------------------------------------------------------
(* Directories.                                                               *)

\* A name has one position.
LEMMA PositionIs ==
    \A n \in ToSet(Names) : Position(n) \in 1..Len(Names) /\ Names[Position(n)] = n
  <1>1. DOMAIN Names = 1..Len(Names)
    BY PlansAssumption, LenProperties
  <1>2. \A n \in ToSet(Names) : \E i \in DOMAIN Names : Names[i] = n
    BY Zenon DEF ToSet
  <1> QED BY <1>1, <1>2, Zenon DEF Position

\* A directory has the length of a sequence, and names in it.
LEMMA PathIs ==
    ASSUME NEW p \in Paths
    PROVE  /\ Len(p) \in Nat /\ DOMAIN p = 1..Len(p) /\ \A i \in 1..Len(p) : p[i] \in ToSet(Names)
           /\ p = <<>> <=> Len(p) = 0
  <1>1. p \in Seq(ToSet(Names))
    BY DEF Paths
  <1> QED BY <1>1, LenProperties, ElementOfSeq, EmptySeq

\* Two directories are the same if their names are.
LEMMA SamePath ==
    ASSUME NEW p \in Paths, NEW q \in Paths, Len(p) = Len(q), \A i \in 1..Len(p) : p[i] = q[i]
    PROVE  p = q
  <1>1. p \in Seq(ToSet(Names)) /\ q \in Seq(ToSet(Names))
    BY DEF Paths
  <1> QED BY <1>1, SeqEqual

\* The beginning of a directory.
LEMMA BeginningIs ==
    ASSUME NEW p \in Paths, NEW n \in 0..Len(p)
    PROVE  /\ SubSeq(p, 1, n) \in Paths /\ Len(SubSeq(p, 1, n)) = n
           /\ \A i \in 1..n : SubSeq(p, 1, n)[i] = p[i]
  <1>1. n \in Nat /\ n <= Len(p) /\ Len(p) \in Nat /\ \A i \in 1..n : p[i] \in ToSet(Names)
    BY PathIs
  <1>2. /\ SubSeq(p, 1, n) \in Seq(ToSet(Names))
        /\ Len(SubSeq(p, 1, n)) = IF 1 <= n THEN n - 1 + 1 ELSE 0
        /\ \A i \in 1..n - 1 + 1 : SubSeq(p, 1, n)[i] = p[1 + i - 1]
    BY <1>1, SubSeqProperties
  <1> QED BY <1>1, <1>2 DEF Paths

\* A prefix has the first names of the other.
LEMMA PrefixIs ==
    ASSUME NEW p \in Paths, NEW q \in Paths
    PROVE  IsPrefix(p, q) <=> Len(p) <= Len(q) /\ \A i \in 1..Len(p) : p[i] = q[i]
  <1>1. Len(p) \in Nat /\ Len(q) \in Nat
    BY PathIs
  <1>2. /\ SubSeq(p, 1, Len(p)) \in Paths /\ Len(SubSeq(p, 1, Len(p))) = Len(p)
        /\ \A i \in 1..Len(p) : SubSeq(p, 1, Len(p))[i] = p[i]
    <2>1. Len(p) \in 0..Len(p)
      BY <1>1
    <2> QED BY <2>1, BeginningIs
  <1>3. ASSUME Len(p) <= Len(q)
        PROVE  /\ SubSeq(q, 1, Len(p)) \in Paths /\ Len(SubSeq(q, 1, Len(p))) = Len(p)
               /\ \A i \in 1..Len(p) : SubSeq(q, 1, Len(p))[i] = q[i]
    <2>1. Len(p) \in 0..Len(q)
      BY <1>1, <1>3
    <2> QED BY <2>1, BeginningIs
  <1>4. ASSUME IsPrefix(p, q) PROVE Len(p) <= Len(q) /\ \A i \in 1..Len(p) : p[i] = q[i]
    <2>1. Len(p) <= Len(q) /\ SubSeq(p, 1, Len(p)) = SubSeq(q, 1, Len(p))
      BY <1>4 DEF IsPrefix
    <2> QED BY <2>1, <1>2, <1>3, Zenon
  <1>5. ASSUME Len(p) <= Len(q), \A i \in 1..Len(p) : p[i] = q[i] PROVE IsPrefix(p, q)
    <2>1. \A i \in 1..Len(p) : SubSeq(p, 1, Len(p))[i] = SubSeq(q, 1, Len(p))[i]
      BY <1>2, <1>3, <1>5, Zenon
    <2>2. SubSeq(p, 1, Len(p)) = SubSeq(q, 1, Len(p))
      BY <2>1, <1>2, <1>3, <1>5, SamePath, Zenon
    <2> QED BY <1>5, <2>2 DEF IsPrefix
  <1> QED BY <1>4, <1>5

\* The parent of a directory.
LEMMA ParentIs ==
    ASSUME NEW p \in Paths, Len(p) > 0
    PROVE  /\ Parent(p) \in Paths /\ Len(Parent(p)) = Len(p) - 1
           /\ \A i \in 1..(Len(p) - 1) : Parent(p)[i] = p[i]
           /\ IsPrefix(Parent(p), p) /\ Parent(p) # p
  <1>1. Len(p) \in Nat /\ Len(p) - 1 \in 0..Len(p)
    BY PathIs
  <1>2. /\ Parent(p) \in Paths /\ Len(Parent(p)) = Len(p) - 1
        /\ \A i \in 1..(Len(p) - 1) : Parent(p)[i] = p[i]
    BY <1>1, BeginningIs DEF Parent
  <1>3. IsPrefix(Parent(p), p)
    BY <1>1, <1>2, PrefixIs
  <1>4. Parent(p) # p
    BY <1>1, <1>2
  <1> QED BY <1>2, <1>3, <1>4
-----------------------------------------------------------------------------
(* The order in which directories are visited.                                *)

\* The position of the i-th name; there is none beyond the end, which comes first.
Weight(p, i) == IF i <= Len(p) THEN Position(p[i]) ELSE 0

\* p and q differ at i for the first time, and p comes first.
Differ(p, q, i) ==
  /\ i \in Nat \ {0} /\ \A j \in 1..(i - 1) : Weight(p, j) = Weight(q, j)
  /\ Weight(p, i) < Weight(q, i)

\* Weights tell the names apart, and where a directory ends.
LEMMA WeightIs ==
    ASSUME NEW p \in Paths, NEW q \in Paths, NEW i \in Nat \ {0}
    PROVE  /\ Weight(p, i) \in Nat /\ (Weight(p, i) = 0 <=> i > Len(p))
           /\ i <= Len(p) /\ i <= Len(q) => (Weight(p, i) = Weight(q, i) <=> p[i] = q[i])
  <1>1. Len(p) \in Nat /\ Len(q) \in Nat
    BY PathIs
  <1>2. i <= Len(p) => p[i] \in ToSet(Names)
    BY <1>1, PathIs
  <1>3. i <= Len(q) => q[i] \in ToSet(Names)
    BY <1>1, PathIs
  <1>4. Len(Names) \in Nat
    BY PlansAssumption, LenProperties
  <1>5. i <= Len(p) => Weight(p, i) \in 1..Len(Names) /\ Names[Weight(p, i)] = p[i]
    BY <1>2, PositionIs, Zenon DEF Weight
  <1>6. i <= Len(q) => Weight(q, i) \in 1..Len(Names) /\ Names[Weight(q, i)] = q[i]
    BY <1>3, PositionIs, Zenon DEF Weight
  <1>7. i > Len(p) => Weight(p, i) = 0
    BY <1>1 DEF Weight
  <1>8. i <= Len(p) => Weight(p, i) \in Nat /\ Weight(p, i) # 0
    BY <1>4, <1>5
  <1>9. i > Len(p) <=> ~(i <= Len(p))
    BY <1>1
  <1>10. i <= Len(p) /\ i <= Len(q) /\ p[i] = q[i] => Weight(p, i) = Weight(q, i)
    BY DEF Weight
  <1>11. i <= Len(p) /\ i <= Len(q) /\ Weight(p, i) = Weight(q, i) => p[i] = q[i]
    BY <1>5, <1>6
  <1> QED BY <1>7, <1>8, <1>9, <1>10, <1>11

\* Before compares the weights of the first names that differ.
LEMMA BeforeDiffers ==
    ASSUME NEW p \in Paths, NEW q \in Paths, Before(p, q)
    PROVE  \E i \in Nat \ {0} : Differ(p, q, i)
  <1>1. Len(p) \in Nat /\ Len(q) \in Nat
    BY PathIs
  <1>2. CASE IsStrictPrefix(p, q)
    <2>1. p # q /\ Len(p) <= Len(q) /\ \A i \in 1..Len(p) : p[i] = q[i]
      BY <1>2, PrefixIs DEF IsStrictPrefix
    <2>2. Len(p) # Len(q)
      BY <2>1, SamePath
    <2>3. Len(p) + 1 \in Nat \ {0} /\ Len(p) + 1 > Len(p) /\ ~(Len(p) + 1 > Len(q))
      BY <1>1, <2>1, <2>2
    <2>4. Weight(p, Len(p) + 1) = 0 /\ Weight(q, Len(p) + 1) # 0 /\ Weight(q, Len(p) + 1) \in Nat
      BY <2>3, WeightIs, Zenon
    <2>5. ASSUME NEW j \in 1..(Len(p) + 1 - 1) PROVE Weight(p, j) = Weight(q, j)
      <3>1. j \in Nat \ {0} /\ j \in 1..Len(p) /\ j <= Len(p) /\ j <= Len(q)
        BY <1>1, <2>1
      <3> QED BY <3>1, <2>1, WeightIs, Zenon
    <2>6. Weight(p, Len(p) + 1) < Weight(q, Len(p) + 1)
      BY <2>4
    <2>7. Differ(p, q, Len(p) + 1)
      BY <2>3, <2>5, <2>6 DEF Differ
    <2> QED BY <2>3, <2>7, Zenon
  <1>3. CASE ~IsStrictPrefix(p, q)
    <2>1. PICK i \in 1..(IF Len(p) < Len(q) THEN Len(p) ELSE Len(q)) :
                 SubSeq(p, 1, i - 1) = SubSeq(q, 1, i - 1) /\ Position(p[i]) < Position(q[i])
      BY <1>3, Zenon DEF Before
    <2>2. i \in Nat \ {0} /\ i <= Len(p) /\ i <= Len(q) /\ i - 1 \in 0..Len(p) /\ i - 1 \in 0..Len(q)
      BY <1>1, <2>1
    <2>3. /\ \A j \in 1..(i - 1) : SubSeq(p, 1, i - 1)[j] = p[j]
          /\ \A j \in 1..(i - 1) : SubSeq(q, 1, i - 1)[j] = q[j]
      BY <2>2, BeginningIs
    <2>4. ASSUME NEW j \in 1..(i - 1) PROVE Weight(p, j) = Weight(q, j)
      <3>1. j \in Nat \ {0} /\ j <= Len(p) /\ j <= Len(q)
        BY <1>1, <2>2
      <3>2. p[j] = q[j]
        BY <2>1, <2>3, Zenon
      <3> QED BY <3>1, <3>2, WeightIs, Zenon
    <2>5. Weight(p, i) < Weight(q, i)
      BY <2>1, <2>2, Zenon DEF Weight
    <2> QED BY <2>2, <2>4, <2>5, Zenon DEF Differ
  <1> QED BY <1>2, <1>3

\* And the other way round.
LEMMA DifferBefore ==
    ASSUME NEW p \in Paths, NEW q \in Paths, NEW i \in Nat \ {0}, Differ(p, q, i)
    PROVE  Before(p, q)
  <1>1. Len(p) \in Nat /\ Len(q) \in Nat
    BY PathIs
  <1>2. Weight(p, i) \in Nat /\ Weight(q, i) \in Nat /\ Weight(p, i) < Weight(q, i)
    BY WeightIs, Zenon DEF Differ
  <1>3. i <= Len(q)
    <2>1. Weight(q, i) # 0
      BY <1>2
    <2>2. ~(i > Len(q))
      BY <2>1, WeightIs, Zenon
    <2> QED BY <2>2, <1>1
  <1>4. ASSUME NEW j \in 1..(i - 1) PROVE j <= Len(p) /\ p[j] = q[j]
    <2>1. j \in Nat \ {0} /\ j <= Len(q) /\ ~(j > Len(q))
      BY <1>1, <1>3
    <2>2. Weight(p, j) = Weight(q, j)
      BY Zenon DEF Differ
    <2>3. ~(j > Len(p))
      BY <2>1, <2>2, WeightIs, Zenon
    <2>4. j <= Len(p)
      BY <2>1, <2>3, <1>1
    <2> QED BY <2>1, <2>2, <2>4, WeightIs, Zenon
  <1>5. CASE i <= Len(p)
    <2>1. i \in 1..(IF Len(p) < Len(q) THEN Len(p) ELSE Len(q)) /\ i - 1 \in 0..Len(p) /\ i - 1 \in 0..Len(q)
      BY <1>1, <1>3, <1>5
    <2>2. SubSeq(p, 1, i - 1) = SubSeq(q, 1, i - 1)
      <3>1. /\ SubSeq(p, 1, i - 1) \in Paths /\ Len(SubSeq(p, 1, i - 1)) = i - 1
            /\ \A j \in 1..(i - 1) : SubSeq(p, 1, i - 1)[j] = p[j]
        BY <2>1, BeginningIs
      <3>2. /\ SubSeq(q, 1, i - 1) \in Paths /\ Len(SubSeq(q, 1, i - 1)) = i - 1
            /\ \A j \in 1..(i - 1) : SubSeq(q, 1, i - 1)[j] = q[j]
        BY <2>1, BeginningIs
      <3>3. \A j \in 1..(i - 1) : SubSeq(p, 1, i - 1)[j] = SubSeq(q, 1, i - 1)[j]
        BY <3>1, <3>2, <1>4, Zenon
      <3> QED BY <3>1, <3>2, <3>3, SamePath, Zenon
    <2>3. Position(p[i]) < Position(q[i])
      BY <1>2, <1>3, <1>5, Zenon DEF Weight
    <2> QED BY <2>1, <2>2, <2>3, Zenon DEF Before
  <1>6. CASE ~(i <= Len(p))
    <2>1. i = Len(p) + 1
      <3>1. CASE i = 1
        BY <3>1, <1>1, <1>6
      <3>2. CASE i # 1
        <4>1. i - 1 \in 1..(i - 1)
          BY <3>2
        <4>2. i - 1 <= Len(p)
          BY <4>1, <1>4
        <4> QED BY <4>2, <1>1, <1>6
      <3> QED BY <3>1, <3>2
    <2>2. Len(p) <= Len(q) /\ Len(p) # Len(q) /\ i - 1 = Len(p)
      BY <2>1, <1>1, <1>3
    <2>3. IsPrefix(p, q)
      BY <2>2, <1>4, PrefixIs, Zenon
    <2> QED BY <2>2, <2>3, Zenon DEF Before, IsStrictPrefix
  <1> QED BY <1>5, <1>6

\* Nothing comes before itself.
LEMMA BeforeIsStrict == \A p \in Paths : ~Before(p, p)
  <1> SUFFICES ASSUME NEW p \in Paths, Before(p, p) PROVE FALSE
    OBVIOUS
  <1>1. PICK i \in Nat \ {0} : Differ(p, p, i)
    BY BeforeDiffers, Zenon
  <1>2. Weight(p, i) \in Nat /\ Weight(p, i) < Weight(p, i)
    BY <1>1, WeightIs, Zenon DEF Differ
  <1> QED BY <1>2

\* Before is transitive.
LEMMA BeforeIsTransitive ==
    ASSUME NEW p \in Paths, NEW q \in Paths, NEW r \in Paths, Before(p, q), Before(q, r)
    PROVE  Before(p, r)
  <1>1. PICK i \in Nat \ {0} : Differ(p, q, i)
    BY BeforeDiffers, Zenon
  <1>2. PICK j \in Nat \ {0} : Differ(q, r, j)
    BY BeforeDiffers, Zenon
  <1>3. \A n \in Nat \ {0} : Weight(p, n) \in Nat /\ Weight(q, n) \in Nat /\ Weight(r, n) \in Nat
    BY WeightIs, Zenon
  <1>4. CASE i <= j
    <2>1. \A n \in 1..(i - 1) : n \in 1..(j - 1)
      BY <1>4
    <2>2. \A n \in 1..(i - 1) : Weight(p, n) = Weight(r, n)
      BY <2>1, <1>1, <1>2, Zenon DEF Differ
    <2>3. i = j \/ i \in 1..(j - 1)
      BY <1>4
    <2>4. Weight(p, i) < Weight(q, i) /\ (Weight(q, i) = Weight(r, i) \/ Weight(q, i) < Weight(r, i))
      BY <2>3, <1>1, <1>2, Zenon DEF Differ
    <2>5. Weight(p, i) < Weight(r, i)
      BY <2>4, <1>3
    <2>6. Differ(p, r, i)
      BY <2>2, <2>5, Zenon DEF Differ
    <2> QED BY <2>6, DifferBefore, Zenon
  <1>5. CASE ~(i <= j)
    <2>1. j \in 1..(i - 1) /\ \A n \in 1..(j - 1) : n \in 1..(i - 1)
      BY <1>5
    <2>2. \A n \in 1..(j - 1) : Weight(p, n) = Weight(r, n)
      BY <2>1, <1>1, <1>2, Zenon DEF Differ
    <2>3. Weight(p, j) = Weight(q, j) /\ Weight(q, j) < Weight(r, j)
      BY <2>1, <1>1, <1>2, Zenon DEF Differ
    <2>4. Differ(p, r, j)
      BY <2>2, <2>3, Zenon DEF Differ
    <2> QED BY <2>4, DifferBefore, Zenon
  <1> QED BY <1>4, <1>5

\* Of two directories one comes first.
LEMMA BeforeIsTotal ==
    ASSUME NEW p \in Paths, NEW q \in Paths, p # q
    PROVE  Before(p, q) \/ Before(q, p)
  <1> DEFINE D == {i \in Nat \ {0} : Weight(p, i) # Weight(q, i)}
  <1>0. \A n \in Nat \ {0} : Weight(p, n) \in Nat /\ Weight(q, n) \in Nat
    BY WeightIs, Zenon
  <1>1. D # {}
    <2> SUFFICES ASSUME \A i \in Nat \ {0} : Weight(p, i) = Weight(q, i) PROVE FALSE
      OBVIOUS
    <2>1. Len(p) \in Nat /\ Len(q) \in Nat
      BY PathIs
    <2>2. Len(p) + 1 \in Nat \ {0} /\ Len(q) + 1 \in Nat \ {0} /\ Len(p) + 1 > Len(p) /\ Len(q) + 1 > Len(q)
      BY <2>1
    <2>3. Len(p) + 1 > Len(q) /\ Len(q) + 1 > Len(p)
      BY <2>2, WeightIs, Zenon
    <2>4. Len(p) = Len(q)
      BY <2>1, <2>3
    <2>5. ASSUME NEW i \in 1..Len(p) PROVE p[i] = q[i]
      <3>1. i \in Nat \ {0} /\ i <= Len(p) /\ i <= Len(q)
        BY <2>1, <2>4
      <3> QED BY <3>1, WeightIs, Zenon
    <2> QED BY <2>4, <2>5, SamePath, Zenon
  <1>2. PICK i \in D : \A m \in Nat : m < i => m \notin D
    BY <1>1, LeastOne
  <1>3. ASSUME NEW j \in 1..(i - 1) PROVE Weight(p, j) = Weight(q, j)
    BY <1>2
  <1>4. i \in Nat \ {0} /\ (Weight(p, i) < Weight(q, i) \/ Weight(q, i) < Weight(p, i))
    BY <1>0, <1>2
  <1>5. Differ(p, q, i) \/ Differ(q, p, i)
    BY <1>3, <1>4, Zenon DEF Differ
  <1> QED BY <1>4, <1>5, DifferBefore, Zenon

\* A directory comes before what is below it.
LEMMA PrefixIsBefore ==
    ASSUME NEW p \in Paths, NEW q \in Paths, IsPrefix(p, q), p # q
    PROVE  Before(p, q)
  BY DEF Before, IsStrictPrefix
-----------------------------------------------------------------------------
(* Ranks.                                                                     *)

\* The members of S that come before p.
Earlier(S, p) == {q \in S : Before(q, p)}

\* Who comes later has more before it.
LEMMA LaterHasMore ==
    ASSUME NEW S \in SUBSET Paths, IsFiniteSet(S), NEW p \in S, NEW q \in S, Before(p, q)
    PROVE  /\ Cardinality(Earlier(S, p)) \in Nat /\ Cardinality(Earlier(S, q)) \in Nat
           /\ Cardinality(Earlier(S, p)) < Cardinality(Earlier(S, q))
  <1>1. Earlier(S, p) \in SUBSET Earlier(S, q)
    <2>1. \A x \in S : Before(x, p) => Before(x, q)
      BY BeforeIsTransitive, Zenon
    <2> QED BY <2>1 DEF Earlier
  <1>2. p \in Earlier(S, q) /\ p \notin Earlier(S, p)
    BY BeforeIsStrict DEF Earlier
  <1>3. IsFiniteSet(Earlier(S, q)) /\ IsFiniteSet(Earlier(S, p))
    <2>1. Earlier(S, q) \in SUBSET S /\ Earlier(S, p) \in SUBSET S
      BY DEF Earlier
    <2> QED BY <2>1, FS_Subset
  <1>4. /\ Cardinality(Earlier(S, p)) <= Cardinality(Earlier(S, q))
        /\ Cardinality(Earlier(S, p)) # Cardinality(Earlier(S, q))
    BY <1>1, <1>2, <1>3, FS_Subset
  <1>5. Cardinality(Earlier(S, p)) \in Nat /\ Cardinality(Earlier(S, q)) \in Nat
    BY <1>3, FS_CardinalityType
  <1> QED BY <1>4, <1>5

\* With a directory, all that are above it and in the set are selected.
LEMMA SelectedIsClosed ==
    ASSUME NEW S \in SUBSET Paths, IsFiniteSet(S), NEW p \in Selected(S), NEW q \in S, IsPrefix(q, p)
    PROVE  q \in Selected(S)
  <1>1. p \in S /\ Cardinality(Earlier(S, p)) < BatchLimit
    BY DEF Selected, Earlier
  <1>2. CASE p = q
    BY <1>2
  <1>3. CASE p # q
    <2>1. Before(q, p)
      BY <1>1, <1>3, PrefixIsBefore
    <2>2. /\ Cardinality(Earlier(S, q)) \in Nat /\ Cardinality(Earlier(S, p)) \in Nat
          /\ Cardinality(Earlier(S, q)) < Cardinality(Earlier(S, p))
      BY <1>1, <2>1, LaterHasMore
    <2>3. Cardinality(Earlier(S, q)) < BatchLimit
      BY <1>1, <2>2, PlansAssumption
    <2> QED BY <2>3 DEF Selected, Earlier
  <1> QED BY <1>2, <1>3

\* Every set of directories has an earliest.
LEMMA EarliestIs ==
    ASSUME NEW S \in SUBSET Paths, IsFiniteSet(S), S # {}
    PROVE  Earliest(S) \in S
  <1> DEFINE ranks == {Cardinality(Earlier(S, p)) : p \in S}
  <1>1. \A p \in S : Cardinality(Earlier(S, p)) \in Nat
    <2> TAKE p \in S
    <2>1. Earlier(S, p) \in SUBSET S
      BY DEF Earlier
    <2>2. IsFiniteSet(Earlier(S, p))
      BY <2>1, FS_Subset
    <2> QED BY <2>2, FS_CardinalityType
  <1>2. ranks \subseteq Nat /\ ranks # {}
    BY <1>1
  <1>3. PICK n \in ranks : \A m \in Nat : m < n => m \notin ranks
    BY <1>2, LeastOne
  <1>4. PICK p \in S : Cardinality(Earlier(S, p)) = n
    BY <1>3
  <1>5. ASSUME NEW q \in S \ {p} PROVE Before(p, q)
    <2>1. ASSUME Before(q, p) PROVE FALSE
      <3>1. Cardinality(Earlier(S, q)) < Cardinality(Earlier(S, p))
        BY <2>1, LaterHasMore
      <3>2. Cardinality(Earlier(S, q)) \in Nat /\ Cardinality(Earlier(S, q)) \in ranks
        BY <1>1
      <3> QED BY <3>1, <3>2, <1>3, <1>4
    <2> QED BY <2>1, BeforeIsTotal
  <1>6. \E x \in S : \A q \in S \ {x} : Before(x, q)
    BY <1>5
  <1> QED BY <1>6, Zenon DEF Earliest

\* The members of P whose f comes before that of q.
Ahead(P, f, q) == {o \in P : Before(f[o], f[q])}

\* Different directories give their owners the ranks from 0 on, each once.
LEMMA RanksAre ==
    ASSUME NEW P, IsFiniteSet(P), NEW f \in [P -> Paths], \A o, q \in P : f[o] = f[q] => o = q
    PROVE  /\ Cardinality(P) \in Nat
           /\ \A q \in P : Cardinality(Ahead(P, f, q)) \in 0..(Cardinality(P) - 1)
           /\ \A o, q \in P : Cardinality(Ahead(P, f, o)) = Cardinality(Ahead(P, f, q)) => o = q
           /\ \A n \in 0..(Cardinality(P) - 1) : \E q \in P : Cardinality(Ahead(P, f, q)) = n
  <1>1. Cardinality(P) \in Nat
    BY FS_CardinalityType
  <1>2. \A q \in P : f[q] \in Paths
    OBVIOUS
  <1>3. ASSUME NEW q \in P
        PROVE  IsFiniteSet(Ahead(P, f, q)) /\ Cardinality(Ahead(P, f, q)) \in 0..(Cardinality(P) - 1)
    <2>1. Ahead(P, f, q) \in SUBSET P /\ q \notin Ahead(P, f, q)
      BY <1>2, BeforeIsStrict DEF Ahead
    <2>2. /\ IsFiniteSet(Ahead(P, f, q)) /\ Cardinality(Ahead(P, f, q)) <= Cardinality(P)
          /\ Cardinality(P) = Cardinality(Ahead(P, f, q)) => P = Ahead(P, f, q)
      BY <2>1, FS_Subset
    <2>3. Cardinality(Ahead(P, f, q)) \in Nat
      BY <2>2, FS_CardinalityType
    <2> QED BY <1>1, <2>1, <2>2, <2>3
  <1>4. ASSUME NEW o \in P, NEW q \in P, Before(f[o], f[q])
        PROVE  Cardinality(Ahead(P, f, o)) # Cardinality(Ahead(P, f, q))
    <2>1. Ahead(P, f, o) \in SUBSET Ahead(P, f, q)
      <3>1. \A x \in P : Before(f[x], f[o]) => Before(f[x], f[q])
        BY <1>2, <1>4, BeforeIsTransitive, Zenon
      <3> QED BY <3>1 DEF Ahead
    <2>2. o \in Ahead(P, f, q) /\ o \notin Ahead(P, f, o)
      BY <1>2, <1>4, BeforeIsStrict DEF Ahead
    <2> QED BY <2>1, <2>2, <1>3, FS_Subset
  <1>5. ASSUME NEW o \in P, NEW q \in P, Cardinality(Ahead(P, f, o)) = Cardinality(Ahead(P, f, q))
        PROVE  o = q
    <2>1. ~Before(f[o], f[q]) /\ ~Before(f[q], f[o])
      BY <1>4, <1>5
    <2>2. f[o] = f[q]
      BY <2>1, <1>2, BeforeIsTotal, Zenon
    <2> QED BY <2>2
  <1> DEFINE T == 0..(Cardinality(P) - 1)
             g == [q \in P |-> Cardinality(Ahead(P, f, q))]
  <1>6. IsFiniteSet(T) /\ Cardinality(T) = Cardinality(P)
    <2>1. IsFiniteSet(T) /\ Cardinality(T) = IF 0 > Cardinality(P) - 1 THEN 0 ELSE Cardinality(P) - 1 - 0 + 1
      BY <1>1, FS_Interval
    <2> QED BY <1>1, <2>1
  <1>7. g \in Injection(P, T)
    BY <1>3, <1>5 DEF Injection, IsInjective
  <1>8. g \in Surjection(P, T)
    BY <1>6, <1>7, FS_Injection
  <1>9. \A n \in T : \E q \in P : Cardinality(Ahead(P, f, q)) = n
    BY <1>8 DEF Surjection
  <1> QED BY <1>1, <1>3, <1>5, <1>9
-----------------------------------------------------------------------------
(* The directories of a drop and their folders.                               *)

\* A drop has finitely many directories, each with its parent.
LEMMA FolderPathsAre ==
    ASSUME NEW dirs \in SUBSET Paths, IsFiniteSet(dirs)
    PROVE  /\ FolderPaths(dirs) \in SUBSET Paths /\ IsFiniteSet(FolderPaths(dirs))
           /\ \A p \in FolderPaths(dirs) : Len(p) > 0 /\ (Parent(p) \in FolderPaths(dirs) \/ Parent(p) = <<>>)
  <1>1. ASSUME NEW d \in dirs, NEW n \in 1..Len(d)
        PROVE  /\ SubSeq(d, 1, n) \in Paths /\ Len(SubSeq(d, 1, n)) = n
               /\ n \in Nat /\ n - 1 \in 0..Len(d) /\ Len(d) \in Nat
    <2>1. d \in Paths /\ n \in 0..Len(d) /\ Len(d) \in Nat
      BY PathIs
    <2> QED BY <2>1, BeginningIs
  <1>2. FolderPaths(dirs) \in SUBSET Paths
    <2> SUFFICES ASSUME NEW p \in FolderPaths(dirs) PROVE p \in Paths
      OBVIOUS
    <2>1. PICK d \in dirs : \E n \in 1..Len(d) : p = SubSeq(d, 1, n)
      BY DEF FolderPaths
    <2> QED BY <2>1, <1>1, Zenon
  <1>3. IsFiniteSet(FolderPaths(dirs))
    <2> DEFINE of(d) == {SubSeq(d, 1, n) : n \in 1..Len(d)}
               all == {of(d) : d \in dirs}
    <2>1. ASSUME NEW d \in dirs PROVE IsFiniteSet(of(d))
      <3>1. Len(d) \in Nat
        BY PathIs
      <3>2. IsFiniteSet(1..Len(d))
        BY <3>1, FS_Interval
      <3> DEFINE g == [n \in 1..Len(d) |-> SubSeq(d, 1, n)]
      <3>3. g \in Surjection(1..Len(d), of(d))
        BY DEF Surjection
      <3> HIDE DEF g
      <3> QED BY <3>2, <3>3, FS_Surjection
    <2>2. IsFiniteSet(all)
      <3> DEFINE h == [d \in dirs |-> of(d)]
      <3> HIDE DEF of
      <3>1. h \in Surjection(dirs, all)
        BY DEF Surjection
      <3> HIDE DEF h, all
      <3> QED BY <3>1, FS_Surjection
    <2>3. \A T \in all : IsFiniteSet(T)
      BY <2>1
    <2>4. FolderPaths(dirs) = UNION all
      BY DEF FolderPaths
    <2> HIDE DEF all
    <2> QED BY <2>2, <2>3, <2>4, FS_UNION
  <1>4. ASSUME NEW p \in FolderPaths(dirs)
        PROVE  Len(p) > 0 /\ (Parent(p) \in FolderPaths(dirs) \/ Parent(p) = <<>>)
    <2>0. PICK d \in dirs : \E n \in 1..Len(d) : p = SubSeq(d, 1, n)
      BY DEF FolderPaths
    <2>1. PICK n \in 1..Len(d) : p = SubSeq(d, 1, n)
      BY <2>0
    <2>2. p \in Paths /\ Len(p) = n /\ n \in Nat /\ n > 0 /\ Len(d) \in Nat
      BY <1>1, <2>1
    <2>3. Parent(p) \in Paths /\ Len(Parent(p)) = n - 1 /\ \A i \in 1..(n - 1) : Parent(p)[i] = p[i]
      BY <2>2, ParentIs
    <2>4. CASE n = 1
      <3>1. Len(Parent(p)) = 0
        BY <2>3, <2>4
      <3> QED BY <3>1, <2>2, <2>3, PathIs
    <2>5. CASE n # 1
      <3>1. n - 1 \in 1..Len(d) /\ n \in 0..Len(d) /\ n - 1 \in 0..Len(d) /\ n - 1 \in 0..n
        BY <2>2, <2>5
      <3>2. /\ SubSeq(d, 1, n - 1) \in Paths /\ Len(SubSeq(d, 1, n - 1)) = n - 1
            /\ \A i \in 1..(n - 1) : SubSeq(d, 1, n - 1)[i] = d[i]
        BY <3>1, BeginningIs
      <3>3. \A i \in 1..n : p[i] = d[i]
        BY <3>1, <2>1, BeginningIs
      <3>4. \A i \in 1..(n - 1) : i \in 1..n
        BY <2>2
      <3>5. Parent(p) = SubSeq(d, 1, n - 1)
        BY <3>2, <3>3, <3>4, <2>3, SamePath, Zenon
      <3>6. Parent(p) \in FolderPaths(dirs)
        BY <3>1, <3>5 DEF FolderPaths
      <3> QED BY <3>6, <2>2
    <2> QED BY <2>4, <2>5
  <1> QED BY <1>2, <1>3, <1>4

\* The key path of a directory, name by name.
LEMMA KeyPathIs ==
    ASSUME NEW p \in Paths
    PROVE  /\ KeyPath(p) \in Paths /\ Len(KeyPath(p)) = Len(p)
           /\ \A i \in 1..Len(p) : KeyPath(p)[i] = NameKey[p[i]]
  <1>1. /\ Len(p) \in Nat /\ DOMAIN p = 1..Len(p)
        /\ \A i \in 1..Len(p) : p[i] \in ToSet(Names)
    BY PathIs
  <1>2. \A i \in 1..Len(p) : NameKey[p[i]] \in ToSet(Names)
    BY <1>1, PlansAssumption
  <1>3. KeyPath(p) = [i \in 1..Len(p) |-> NameKey[p[i]]]
    BY <1>1 DEF KeyPath
  <1>4. KeyPath(p) \in Seq(ToSet(Names))
    BY <1>1, <1>2, <1>3, SeqDef
  <1>5. Len(KeyPath(p)) = Len(p)
    BY <1>1, <1>3, <1>4, LenProperties
  <1> QED BY <1>3, <1>4, <1>5 DEF Paths

\* The folder of a directory is below that of its parent, and its parent is that of its parent.
LEMMA KeyPathGrows ==
    ASSUME NEW p \in Paths, Len(p) > 0
    PROVE  /\ KeyPath(Parent(p)) \o <<NameKey[Last(p)]>> = KeyPath(p)
           /\ Parent(KeyPath(p)) = KeyPath(Parent(p))
  <1>1. /\ Parent(p) \in Paths /\ Len(Parent(p)) = Len(p) - 1
        /\ \A i \in 1..(Len(p) - 1) : Parent(p)[i] = p[i]
    BY ParentIs
  <1>2. Len(p) \in Nat /\ \A i \in 1..Len(p) : p[i] \in ToSet(Names)
    BY PathIs
  <1>3. /\ KeyPath(p) \in Paths /\ Len(KeyPath(p)) = Len(p)
        /\ \A i \in 1..Len(p) : KeyPath(p)[i] = NameKey[p[i]]
    BY KeyPathIs
  <1>4. /\ KeyPath(Parent(p)) \in Paths /\ Len(KeyPath(Parent(p))) = Len(Parent(p))
        /\ \A i \in 1..Len(Parent(p)) : KeyPath(Parent(p))[i] = NameKey[Parent(p)[i]]
    BY <1>1, KeyPathIs
  <1>5. Len(p) \in 1..Len(p) /\ \A i \in 1..(Len(p) - 1) : i \in 1..Len(p)
    BY <1>2
  <1>6. PICK k : k = NameKey[Last(p)]
    OBVIOUS
  <1>7. k = NameKey[p[Len(p)]] /\ k \in ToSet(Names)
    BY <1>2, <1>5, <1>6, PlansAssumption DEF Last
  <1>8. <<k>> \in Seq(ToSet(Names)) /\ Len(<<k>>) = 1 /\ <<k>>[1] = k
    BY <1>7
  <1>9. PICK a : a = KeyPath(Parent(p))
    OBVIOUS
  <1>10. a \in Seq(ToSet(Names)) /\ Len(a) = Len(p) - 1 /\ \A i \in 1..(Len(p) - 1) : a[i] = NameKey[p[i]]
    BY <1>1, <1>4, <1>9 DEF Paths
  <1>11. /\ a \o <<k>> \in Paths /\ Len(a \o <<k>>) = Len(p)
         /\ \A i \in 1..Len(p) : (a \o <<k>>)[i] = IF i <= Len(p) - 1 THEN a[i] ELSE <<k>>[i - (Len(p) - 1)]
    <2>1. /\ a \o <<k>> \in Seq(ToSet(Names)) /\ Len(a \o <<k>>) = Len(a) + Len(<<k>>)
          /\ \A i \in 1..Len(a) + Len(<<k>>) : (a \o <<k>>)[i] = IF i <= Len(a) THEN a[i] ELSE <<k>>[i - Len(a)]
      BY <1>8, <1>10, ConcatProperties
    <2>2. Len(a) + Len(<<k>>) = Len(p)
      BY <1>2, <1>8, <1>10
    <2> QED BY <2>1, <2>2, <1>10 DEF Paths
  <1>12. ASSUME NEW i \in 1..Len(p) PROVE (a \o <<k>>)[i] = KeyPath(p)[i]
    <2>1. CASE i <= Len(p) - 1
      <3>1. i \in 1..(Len(p) - 1)
        BY <2>1, <1>2
      <3>2. (a \o <<k>>)[i] = a[i]
        BY <2>1, <1>11
      <3> QED BY <3>1, <3>2, <1>3, <1>10
    <2>2. CASE ~(i <= Len(p) - 1)
      <3>1. i = Len(p) /\ i - (Len(p) - 1) = 1
        BY <2>2, <1>2
      <3>2. (a \o <<k>>)[i] = <<k>>[i - (Len(p) - 1)]
        BY <2>2, <1>11
      <3>3. (a \o <<k>>)[i] = k
        BY <3>1, <3>2, <1>8
      <3> QED BY <3>1, <3>3, <1>3, <1>7
    <2> QED BY <2>1, <2>2
  <1>13. a \o <<k>> = KeyPath(p)
    BY <1>3, <1>11, <1>12, SamePath
  <1>14. Parent(KeyPath(p)) = KeyPath(Parent(p))
    <2>1. /\ Parent(KeyPath(p)) \in Paths /\ Len(Parent(KeyPath(p))) = Len(KeyPath(p)) - 1
          /\ \A i \in 1..(Len(KeyPath(p)) - 1) : Parent(KeyPath(p))[i] = KeyPath(p)[i]
      BY <1>3, ParentIs
    <2>2. Len(Parent(KeyPath(p))) = Len(a)
      BY <2>1, <1>3, <1>10
    <2>3. \A i \in 1..Len(a) : Parent(KeyPath(p))[i] = a[i]
      BY <2>1, <1>3, <1>5, <1>10
    <2> QED BY <2>1, <2>2, <2>3, <1>4, <1>9, SamePath
  <1> QED BY <1>6, <1>9, <1>13, <1>14
-----------------------------------------------------------------------------
(* Where the server puts the folders of a batch.                              *)

\* The recursion of Placed.
Places(f, batch, root) ==
  f = [p \in batch |-> (IF Parent(p) \in batch THEN f[Parent(p)] ELSE root) \o <<NameKey[Last(p)]>>]

\* A batch in which a parent is either there or the one the call hangs below.
Rooted(batch, top) ==
  /\ batch \in SUBSET Paths /\ top \in Paths
  /\ \A p \in batch : Len(p) > 0 /\ (Parent(p) \in batch \/ Parent(p) = top)

\* The key paths are a solution of it.
LEMMA KeyPathsArePlaces ==
    ASSUME NEW batch, NEW top, Rooted(batch, top)
    PROVE  Places([p \in batch |-> KeyPath(p)], batch, KeyPath(top))
  <1> DEFINE g == [p \in batch |-> KeyPath(p)]
  <1>1. ASSUME NEW p \in batch
        PROVE  g[p] = (IF Parent(p) \in batch THEN g[Parent(p)] ELSE KeyPath(top)) \o <<NameKey[Last(p)]>>
    <2>1. KeyPath(Parent(p)) \o <<NameKey[Last(p)]>> = KeyPath(p)
      BY KeyPathGrows DEF Rooted
    <2>2. Parent(p) \in batch \/ Parent(p) = top
      BY DEF Rooted
    <2>3. (IF Parent(p) \in batch THEN g[Parent(p)] ELSE KeyPath(top)) = KeyPath(Parent(p))
      BY <2>2, Zenon
    <2>4. g[p] = KeyPath(p)
      BY Zenon
    <2> QED BY <2>1, <2>3, <2>4, Zenon
  <1>2. [p \in batch |-> g[p]] = [p \in batch |->
          (IF Parent(p) \in batch THEN g[Parent(p)] ELSE KeyPath(top)) \o <<NameKey[Last(p)]>>]
    <2> HIDE DEF g
    <2> QED BY <1>1, Zenon
  <1>3. [p \in batch |-> g[p]] = g
    BY Zenon
  <1> HIDE DEF g
  <1>4. Places(g, batch, KeyPath(top))
    BY <1>2, <1>3, Zenon DEF Places
  <1> QED BY <1>4, Zenon DEF g

\* They are the only one: the shortest directory that is placed elsewhere would
\* have a parent that is.
LEMMA PlacesAreKeyPaths ==
    ASSUME NEW batch, NEW top, Rooted(batch, top), NEW f, Places(f, batch, KeyPath(top))
    PROVE  \A p \in batch : f[p] = KeyPath(p)
  <1> DEFINE Bad == {Len(p) : p \in {q \in batch : f[q] # KeyPath(q)}}
  <1>0. \A p \in batch : p \in Paths /\ Len(p) \in Nat /\ Len(p) > 0
    BY PathIs DEF Rooted
  <1> SUFFICES ASSUME Bad # {} PROVE FALSE
    OBVIOUS
  <1>1. Bad \subseteq Nat
    BY <1>0
  <1>2. PICK n \in Bad : \A m \in Nat : m < n => m \notin Bad
    BY <1>1, LeastOne
  <1>3. PICK p \in batch : f[p] # KeyPath(p) /\ Len(p) = n
    BY <1>2
  <1>4. Len(Parent(p)) = Len(p) - 1
    BY <1>0, ParentIs
  <1>5. f[p] = (IF Parent(p) \in batch THEN f[Parent(p)] ELSE KeyPath(top)) \o <<NameKey[Last(p)]>>
    BY Zenon DEF Places
  <1>6. Parent(p) \in batch => f[Parent(p)] = KeyPath(Parent(p))
    <2> SUFFICES ASSUME Parent(p) \in batch, f[Parent(p)] # KeyPath(Parent(p)) PROVE FALSE
      OBVIOUS
    <2>1. Len(Parent(p)) \in Bad
      OBVIOUS
    <2>2. Len(Parent(p)) \in Nat /\ Len(Parent(p)) < n
      BY <1>0, <1>3, <1>4
    <2> QED BY <2>1, <2>2, <1>2
  <1>7. Parent(p) \in batch \/ Parent(p) = top
    BY DEF Rooted
  <1>8. (IF Parent(p) \in batch THEN f[Parent(p)] ELSE KeyPath(top)) = KeyPath(Parent(p))
    BY <1>6, <1>7, Zenon
  <1>9. KeyPath(Parent(p)) \o <<NameKey[Last(p)]>> = KeyPath(p)
    BY <1>0, KeyPathGrows
  <1> QED BY <1>3, <1>5, <1>8, <1>9, Zenon

\* So a directory is placed at its own path.
LEMMA PlacedIs ==
    ASSUME NEW k \in Plans, NEW forest, NEW batch, Rooted(batch, forest.parent),
           forest.parent = <<>> \/ plan[k].resolved[forest.parent] = KeyPath(forest.parent)
    PROVE  \A p \in batch : Placed(k, forest, batch)[p] = KeyPath(p)
  <1> DEFINE root == IF forest.parent = <<>> THEN <<>> ELSE plan[k].resolved[forest.parent]
  <1>1. root = KeyPath(forest.parent)
    <2>1. CASE forest.parent = <<>>
      <3>1. KeyPath(forest.parent) \in Paths /\ Len(KeyPath(forest.parent)) = Len(forest.parent)
        BY KeyPathIs DEF Rooted
      <3>2. Len(forest.parent) = 0
        BY <2>1, PathIs DEF Rooted
      <3>3. KeyPath(forest.parent) = <<>>
        BY <3>1, <3>2, PathIs
      <3> QED BY <2>1, <3>3
    <2>2. CASE forest.parent # <<>>
      BY <2>2
    <2> QED BY <2>1, <2>2
  <1> DEFINE f == CHOOSE f : Places(f, batch, root)
  <1>2. Places(f, batch, root)
    <2>1. \E g : Places(g, batch, root)
      BY <1>1, KeyPathsArePlaces, Zenon
    <2> QED BY <2>1, Zenon
  <1>3. \A p \in batch : f[p] = KeyPath(p)
    <2> HIDE DEF f, root
    <2>1. PICK g : g = f
      OBVIOUS
    <2>2. PICK top : top = forest.parent
      OBVIOUS
    <2>3. Places(g, batch, KeyPath(top)) /\ Rooted(batch, top)
      BY <1>1, <1>2, <2>1, <2>2, Zenon
    <2>4. \A p \in batch : g[p] = KeyPath(p)
      BY <2>3, PlacesAreKeyPaths
    <2> QED BY <2>1, <2>4, Zenon
  <1>4. Placed(k, forest, batch) = f
    BY DEF Placed, Places
  <1> QED BY <1>3, <1>4, Zenon
-----------------------------------------------------------------------------
(* What a call leaves over.                                                   *)

Left(f) == f.paths \ Selected(f.paths)
Roots(f) == {p \in Left(f) : Parent(p) \notin Left(f)}
Tops(f) == {Parent(p) : p \in Roots(f)}
FirstUnder(f, q) == Earliest({p \in Roots(f) : Parent(p) = q})
Under(f, q) == {p \in Left(f) : \E r \in Roots(f) : Parent(r) = q /\ IsPrefix(r, p)}
NthTop(f, n) ==
  CHOOSE q \in Tops(f) :
    Cardinality({o \in Tops(f) : Before(FirstUnder(f, o), FirstUnder(f, q))}) = n - 1

\* Deferred in these words.
LEMMA DeferredIs ==
    ASSUME NEW f
    PROVE  Deferred(f) = [n \in 1..Cardinality(Tops(f)) |-> Forest(NthTop(f, n), Under(f, NthTop(f, n)))]
  BY Zenon DEF Deferred, Left, Roots, Tops, FirstUnder, Under, NthTop

\* A forest of finitely many directories.
FiniteForest(f, all, known) ==
  /\ f \in Forests /\ all \in SUBSET Paths /\ IsFiniteSet(all)
  /\ \A p \in all : Len(p) > 0
  /\ GoodForest(f, all, known)

\* What is in it.
LEMMA ForestIs ==
    ASSUME NEW f, NEW all, NEW known, FiniteForest(f, all, known)
    PROVE  /\ f.paths \in SUBSET Paths /\ IsFiniteSet(f.paths) /\ f.parent \in Paths
           /\ Left(f) \in SUBSET Paths /\ IsFiniteSet(Left(f))
           /\ Roots(f) \in SUBSET Paths /\ IsFiniteSet(Roots(f))
           /\ Tops(f) \in SUBSET Paths /\ IsFiniteSet(Tops(f))
           /\ \A p \in f.paths : /\ p \in Paths /\ Len(p) > 0 /\ Len(p) \in Nat
                                 /\ Parent(p) \in Paths /\ Len(Parent(p)) = Len(p) - 1
                                 /\ Parent(p) \in f.paths \/ Parent(p) = f.parent
  <1>1. f.paths \in SUBSET Paths /\ f.parent \in Paths /\ f.paths \in SUBSET all
    BY DEF FiniteForest, GoodForest, Forests
  <1>2. IsFiniteSet(f.paths)
    <2>1. IsFiniteSet(all)
      BY DEF FiniteForest
    <2> QED BY <1>1, <2>1, FS_Subset
  <1>3. ASSUME NEW p \in f.paths
        PROVE  /\ p \in Paths /\ Len(p) > 0 /\ Len(p) \in Nat
               /\ Parent(p) \in Paths /\ Len(Parent(p)) = Len(p) - 1
               /\ Parent(p) \in f.paths \/ Parent(p) = f.parent
    <2>1. p \in Paths /\ Len(p) > 0
      BY <1>1 DEF FiniteForest
    <2>2. Parent(p) \in Paths /\ Len(Parent(p)) = Len(p) - 1 /\ Len(p) \in Nat
      BY <2>1, ParentIs, PathIs
    <2>3. Parent(p) \in f.paths \/ Parent(p) = f.parent
      BY DEF FiniteForest, GoodForest
    <2> QED BY <2>1, <2>2, <2>3
  <1>4. Left(f) \in SUBSET f.paths /\ Roots(f) \in SUBSET Left(f)
    BY DEF Left, Roots
  <1>5. IsFiniteSet(Left(f)) /\ IsFiniteSet(Roots(f))
    BY <1>2, <1>4, FS_Subset
  <1>6. Tops(f) \in SUBSET Paths
    BY <1>3, <1>4 DEF Tops
  <1>7. IsFiniteSet(Tops(f))
    <2> DEFINE g == [p \in Roots(f) |-> Parent(p)]
    <2>1. g \in Surjection(Roots(f), Tops(f))
      BY DEF Surjection, Tops
    <2> HIDE DEF g
    <2> QED BY <1>5, <2>1, FS_Surjection
  <1>8. Left(f) \in SUBSET Paths /\ Roots(f) \in SUBSET Paths
    BY <1>1, <1>4
  <1> QED BY <1>1, <1>2, <1>3, <1>5, <1>6, <1>7, <1>8

\* The parents have the numbers from 1 on, each one.
LEMMA TopsAreNumbered ==
    ASSUME NEW f, NEW all, NEW known, FiniteForest(f, all, known)
    PROVE  /\ Cardinality(Tops(f)) \in Nat
           /\ \A n \in 1..Cardinality(Tops(f)) : NthTop(f, n) \in Tops(f)
           /\ \A q \in Tops(f) : \E n \in 1..Cardinality(Tops(f)) : NthTop(f, n) = q
  <1> DEFINE P == Tops(f)
             g == [q \in P |-> FirstUnder(f, q)]
             rank(q) == Cardinality(Ahead(P, g, q))
  <1>1. ASSUME NEW q \in P PROVE g[q] \in Paths /\ Parent(g[q]) = q
    <2> DEFINE S == {p \in Roots(f) : Parent(p) = q}
    <2>1. S # {}
      BY DEF Tops
    <2>2. S \in SUBSET Roots(f) /\ Roots(f) \in SUBSET Paths /\ IsFiniteSet(Roots(f))
      BY ForestIs
    <2>3. S \in SUBSET Paths /\ IsFiniteSet(S)
      BY <2>2, FS_Subset
    <2>4. Earliest(S) \in S
      <3> HIDE DEF S
      <3> QED BY <2>1, <2>3, EarliestIs
    <2>5. g[q] = Earliest(S)
      BY DEF FirstUnder
    <2> QED BY <2>3, <2>4, <2>5
  <1>2. IsFiniteSet(P)
    BY ForestIs
  <1>3. g \in [P -> Paths] /\ \A o, q \in P : g[o] = g[q] => o = q
    BY <1>1
  <1>4. \A n \in Nat : NthTop(f, n) = CHOOSE q \in P : rank(q) = n - 1
    <2>1. \A q \in P : {o \in P : Before(FirstUnder(f, o), FirstUnder(f, q))} = Ahead(P, g, q)
      BY DEF Ahead
    <2> QED BY <2>1 DEF NthTop
  <1> HIDE DEF g
  <1>5. /\ Cardinality(P) \in Nat
        /\ \A q \in P : rank(q) \in 0..(Cardinality(P) - 1)
        /\ \A o, q \in P : rank(o) = rank(q) => o = q
        /\ \A n \in 0..(Cardinality(P) - 1) : \E q \in P : rank(q) = n
    <2> HIDE DEF P
    <2> QED BY <1>2, <1>3, RanksAre
  <1> HIDE DEF rank, P
  <1>6. ASSUME NEW n \in 1..Cardinality(P) PROVE NthTop(f, n) \in P
    <2>1. n - 1 \in 0..(Cardinality(P) - 1) /\ n \in Nat
      BY <1>5
    <2>2. \E q \in P : rank(q) = n - 1
      BY <2>1, <1>5
    <2>3. NthTop(f, n) = CHOOSE q \in P : rank(q) = n - 1
      BY <2>1, <1>4
    <2> QED BY <2>2, <2>3
  <1>7. ASSUME NEW q \in P PROVE \E n \in 1..Cardinality(P) : NthTop(f, n) = q
    <2>1. PICK n : n = rank(q) + 1
      OBVIOUS
    <2>2. n \in 1..Cardinality(P) /\ n \in Nat /\ rank(q) = n - 1
      BY <2>1, <1>5
    <2>3. NthTop(f, n) = CHOOSE o \in P : rank(o) = n - 1
      BY <2>2, <1>4
    <2>4. NthTop(f, n) \in P /\ rank(NthTop(f, n)) = n - 1
      BY <2>2, <2>3
    <2>5. NthTop(f, n) = q
      BY <2>2, <2>4, <1>5
    <2> QED BY <2>2, <2>5
  <1> QED BY <1>5, <1>6, <1>7 DEF P
\* What is left over is below a root of it.
LEMMA RootIs ==
    ASSUME NEW f, NEW all, NEW known, FiniteForest(f, all, known), NEW p \in Left(f)
    PROVE  \E r \in Roots(f) : IsPrefix(r, p)
  <1>0. p \in Paths /\ Len(p) \in Nat /\ Len(p) > 0 /\ p \in f.paths
    BY ForestIs DEF Left
  <1> DEFINE B == {n \in 1..Len(p) : SubSeq(p, 1, n) \in Left(f)}
  <1>1. ASSUME NEW n \in 1..Len(p)
        PROVE  /\ n \in Nat /\ n > 0 /\ n <= Len(p)
               /\ SubSeq(p, 1, n) \in Paths /\ Len(SubSeq(p, 1, n)) = n
               /\ \A i \in 1..n : SubSeq(p, 1, n)[i] = p[i]
    <2>1. n \in 0..Len(p) /\ n \in Nat /\ n > 0 /\ n <= Len(p)
      BY <1>0
    <2> QED BY <1>0, <2>1, BeginningIs
  <1>2. Len(p) \in B
    <2>1. Len(p) \in 1..Len(p)
      BY <1>0
    <2>2. SubSeq(p, 1, Len(p)) = p
      BY <1>0, <1>1, <2>1, SamePath
    <2> QED BY <2>1, <2>2
  <1>3. B \subseteq Nat /\ B # {}
    BY <1>1, <1>2
  <1>4. PICK n \in B : \A m \in Nat : m < n => m \notin B
    BY <1>3, LeastOne
  <1>5. n \in 1..Len(p) /\ SubSeq(p, 1, n) \in Left(f)
    BY <1>4
  <1>6. PICK r : r = SubSeq(p, 1, n)
    OBVIOUS
  <1>7. /\ r \in Left(f) /\ r \in Paths /\ Len(r) = n /\ n \in Nat /\ n > 0 /\ n <= Len(p)
        /\ \A i \in 1..n : r[i] = p[i]
    BY <1>1, <1>5, <1>6
  <1>8. IsPrefix(r, p)
    BY <1>0, <1>7, PrefixIs
  <1>9. Parent(r) \notin Left(f)
    <2> SUFFICES ASSUME Parent(r) \in Left(f) PROVE FALSE
      OBVIOUS
    <2>1. Parent(r) \in Paths /\ Len(Parent(r)) = n - 1 /\ \A i \in 1..(n - 1) : Parent(r)[i] = r[i]
      BY <1>7, ParentIs
    <2>2. Len(Parent(r)) > 0
      <3>1. Parent(r) \in f.paths
        BY DEF Left
      <3> QED BY <3>1, ForestIs
    <2>3. n - 1 \in 1..Len(p) /\ n - 1 < n /\ n - 1 \in Nat /\ \A i \in 1..(n - 1) : i \in 1..n
      BY <1>0, <1>7, <2>1, <2>2
    <2>4. /\ SubSeq(p, 1, n - 1) \in Paths /\ Len(SubSeq(p, 1, n - 1)) = n - 1
          /\ \A i \in 1..(n - 1) : SubSeq(p, 1, n - 1)[i] = p[i]
      BY <1>1, <2>3
    <2>5. \A i \in 1..(n - 1) : Parent(r)[i] = SubSeq(p, 1, n - 1)[i]
      BY <1>7, <2>1, <2>3, <2>4, Zenon
    <2>6. Parent(r) = SubSeq(p, 1, n - 1)
      BY <2>1, <2>4, <2>5, SamePath
    <2>7. n - 1 \in B
      BY <2>3, <2>6
    <2> QED BY <2>3, <2>7, <1>4
  <1>10. r \in Roots(f)
    BY <1>7, <1>9 DEF Roots
  <1> QED BY <1>8, <1>10

\* What is below one parent is a forest: that parent is in this batch, or it is
\* the one this call hangs below.
LEMMA UnderIs ==
    ASSUME NEW f, NEW all, NEW known, FiniteForest(f, all, known), NEW q \in Tops(f),
           NEW after, known \subseteq after, Selected(f.paths) \subseteq after
    PROVE  Forest(q, Under(f, q)) \in Forests /\ GoodForest(Forest(q, Under(f, q)), all, after)
  <1>1. PICK r \in Roots(f) : Parent(r) = q
    BY DEF Tops
  <1>2. r \in Left(f) /\ Parent(r) \notin Left(f) /\ r \in f.paths
    BY DEF Roots, Left
  <1>3. q = <<>> \/ q \in after
    <2>1. Parent(r) \in f.paths \/ Parent(r) = f.parent
      BY <1>2, ForestIs
    <2>2. Parent(r) \in f.paths => Parent(r) \in Selected(f.paths)
      BY <1>2 DEF Left
    <2>3. f.parent = <<>> \/ f.parent \in known
      BY DEF FiniteForest, GoodForest
    <2> QED BY <1>1, <2>1, <2>2, <2>3
  <1>4. Under(f, q) \subseteq all
    <2>1. f.paths \subseteq all
      BY DEF FiniteForest, GoodForest
    <2> QED BY <2>1 DEF Under, Left
  <1>5. ASSUME NEW p \in Under(f, q) PROVE Len(q) < Len(p) /\ (Parent(p) \in Under(f, q) \/ Parent(p) = q)
    <2>1. PICK s \in Roots(f) : Parent(s) = q /\ IsPrefix(s, p)
      BY DEF Under
    <2>2. p \in Left(f) /\ p \in f.paths /\ s \in Left(f) /\ s \in f.paths
      BY DEF Under, Roots, Left
    <2>3. /\ p \in Paths /\ Len(p) \in Nat /\ Len(p) > 0 /\ Parent(p) \in Paths /\ Len(Parent(p)) = Len(p) - 1
          /\ s \in Paths /\ Len(s) \in Nat /\ Len(s) > 0 /\ Len(Parent(s)) = Len(s) - 1
      BY <2>2, ForestIs
    <2>4. Len(s) <= Len(p) /\ \A i \in 1..Len(s) : s[i] = p[i]
      BY <2>1, <2>3, PrefixIs
    <2>5. Len(q) < Len(p)
      BY <2>1, <2>3, <2>4
    <2>6. CASE Len(s) = Len(p)
      <3>1. s = p
        BY <2>3, <2>4, <2>6, SamePath
      <3> QED BY <3>1, <2>1, <2>5
    <2>7. CASE Len(s) # Len(p)
      <3>1. /\ Len(s) <= Len(p) - 1 /\ \A i \in 1..Len(s) : i \in 1..(Len(p) - 1)
        BY <2>3, <2>4, <2>7
      <3>2. \A i \in 1..(Len(p) - 1) : Parent(p)[i] = p[i]
        BY <2>3, ParentIs
      <3>3. IsPrefix(s, Parent(p))
        <4>1. \A i \in 1..Len(s) : s[i] = Parent(p)[i]
          BY <3>1, <3>2, <2>4, Zenon
        <4> QED BY <4>1, <3>1, <2>3, PrefixIs
      <3>4. Parent(p) \in f.paths
        <4>1. Parent(p) \in f.paths \/ Parent(p) = f.parent
          BY <2>2, ForestIs
        <4>2. Len(f.parent) < Len(s)
          BY <2>2 DEF FiniteForest, GoodForest
        <4>3. Len(Parent(p)) >= Len(s)
          BY <3>1, <2>3
        <4>4. Len(f.parent) \in Nat
          BY ForestIs, PathIs
        <4> QED BY <4>1, <4>2, <4>3, <4>4, <2>3
      <3>5. Parent(p) \notin Selected(f.paths)
        <4>1. f.paths \in SUBSET Paths /\ IsFiniteSet(f.paths)
          BY ForestIs
        <4>2. Parent(p) \in Selected(f.paths) => s \in Selected(f.paths)
          BY <4>1, <3>3, <2>2, SelectedIsClosed
        <4> QED BY <4>2, <2>2 DEF Left
      <3>6. Parent(p) \in Under(f, q)
        BY <3>3, <3>4, <3>5, <2>1 DEF Under, Left
      <3> QED BY <3>6, <2>5
    <2> QED BY <2>6, <2>7
  <1>6. q \in Paths /\ Under(f, q) \in SUBSET Paths
    <2>1. Left(f) \in SUBSET Paths /\ Tops(f) \in SUBSET Paths
      BY ForestIs
    <2> QED BY <2>1 DEF Under
  <1>7. PICK g : g = Forest(q, Under(f, q))
    OBVIOUS
  <1>8. g \in Forests /\ g.parent = q /\ g.paths = Under(f, q)
    BY <1>6, <1>7 DEF Forests, Forest
  <1> QED BY <1>3, <1>4, <1>5, <1>7, <1>8 DEF GoodForest

\* The calls for what is left over: good forests that together hold all of it.
LEMMA DeferredAre ==
    ASSUME NEW f, NEW all, NEW known, FiniteForest(f, all, known),
           NEW after, known \subseteq after, Selected(f.paths) \subseteq after
    PROVE  /\ Deferred(f) \in Seq(Forests)
           /\ \A i \in 1..Len(Deferred(f)) : GoodForest(Deferred(f)[i], all, after)
           /\ \A p \in f.paths : p \in Selected(f.paths) \/ \E i \in 1..Len(Deferred(f)) : p \in Deferred(f)[i].paths
  <1> DEFINE N == Cardinality(Tops(f))
             g(n) == Forest(NthTop(f, n), Under(f, NthTop(f, n)))
  <1>1. /\ N \in Nat
        /\ \A n \in 1..N : NthTop(f, n) \in Tops(f)
        /\ \A q \in Tops(f) : \E n \in 1..N : NthTop(f, n) = q
    BY TopsAreNumbered
  <1>2. \A n \in 1..N : g(n) \in Forests /\ GoodForest(g(n), all, after)
    BY <1>1, UnderIs
  <1>3. PICK d : d = Deferred(f)
    OBVIOUS
  <1>4. d = [n \in 1..N |-> g(n)]
    BY <1>3, DeferredIs
  <1>5. d \in Seq(Forests) /\ Len(d) = N /\ \A n \in 1..N : d[n] = g(n)
    <2> HIDE DEF N, g
    <2>1. d \in Seq(Forests)
      BY <1>1, <1>2, <1>4, SeqDef
    <2>2. Len(d) = N
      BY <1>1, <1>4, <2>1, LenProperties
    <2> QED BY <2>1, <2>2, <1>4
  <1>6. ASSUME NEW p \in f.paths, p \notin Selected(f.paths)
        PROVE  \E i \in 1..Len(d) : p \in d[i].paths
    <2>1. p \in Left(f)
      BY <1>6 DEF Left
    <2>2. PICK r \in Roots(f) : IsPrefix(r, p)
      BY <2>1, RootIs
    <2>3. Parent(r) \in Tops(f) /\ p \in Under(f, Parent(r))
      BY <2>1, <2>2 DEF Tops, Under
    <2>4. PICK n \in 1..N : NthTop(f, n) = Parent(r)
      BY <1>1, <2>3
    <2>5. d[n].paths = Under(f, Parent(r))
      BY <1>5, <2>4 DEF Forest
    <2> QED BY <2>3, <2>5, <1>5
  <1> HIDE DEF N, g
  <1>7. \A i \in 1..Len(d) : GoodForest(d[i], all, after)
    BY <1>2, <1>5
  <1> QED BY <1>3, <1>5, <1>6, <1>7
-----------------------------------------------------------------------------
(* Batches and counts.                                                        *)

\* What is selected of a forest can be created: a parent is there, or above all.
LEMMA SelectedIsRooted ==
    ASSUME NEW f, NEW all, NEW known, FiniteForest(f, all, known)
    PROVE  /\ Rooted(Selected(f.paths), f.parent) /\ Selected(f.paths) \in SUBSET f.paths
           /\ Selected(f.paths) \in SUBSET all /\ IsFiniteSet(Selected(f.paths))
           /\ \A p \in f.paths : p \in Selected(f.paths) => Parent(p) \in Selected(f.paths) \/ Parent(p) = f.parent
  <1>1. f.paths \in SUBSET Paths /\ IsFiniteSet(f.paths) /\ f.parent \in Paths
    BY ForestIs
  <1>2. Selected(f.paths) \in SUBSET f.paths
    BY DEF Selected
  <1>3. ASSUME NEW p \in Selected(f.paths)
        PROVE  Len(p) > 0 /\ (Parent(p) \in Selected(f.paths) \/ Parent(p) = f.parent)
    <2>1. p \in Paths /\ Len(p) > 0 /\ (Parent(p) \in f.paths \/ Parent(p) = f.parent)
      BY <1>2, ForestIs
    <2>2. IsPrefix(Parent(p), p)
      BY <2>1, ParentIs
    <2>3. Parent(p) \in f.paths => Parent(p) \in Selected(f.paths)
      BY <1>1, <2>2, SelectedIsClosed
    <2> QED BY <2>1, <2>3
  <1>4. f.paths \in SUBSET all
    BY DEF FiniteForest, GoodForest
  <1>5. IsFiniteSet(Selected(f.paths))
    BY <1>1, <1>2, FS_Subset
  <1>6. Rooted(Selected(f.paths), f.parent)
    BY <1>1, <1>2, <1>3 DEF Rooted
  <1> QED BY <1>2, <1>3, <1>4, <1>5, <1>6

\* Two folders of one name in a batch are two directories of the drop with one path.
LEMMA TwinsFold ==
    ASSUME NEW f, NEW dirs, NEW known, FiniteForest(f, FolderPaths(dirs), known), Twins(Selected(f.paths))
    PROVE  FoldedTogether(dirs)
  <1> DEFINE batch == Selected(f.paths)
  <1>1. PICK p, q \in batch : /\ p # q /\ NameKey[Last(p)] = NameKey[Last(q)]
                              /\ \/ Parent(p) = Parent(q)
                                 \/ Parent(p) \notin batch /\ Parent(q) \notin batch
    BY DEF Twins
  <1>2. batch \in SUBSET FolderPaths(dirs) /\ Rooted(batch, f.parent)
    BY SelectedIsRooted
  <1> HIDE DEF batch
  <1>3. Parent(p) = Parent(q)
    BY <1>1, <1>2 DEF Rooted
  <1>4. /\ KeyPath(Parent(p)) \o <<NameKey[Last(p)]>> = KeyPath(p)
        /\ KeyPath(Parent(q)) \o <<NameKey[Last(q)]>> = KeyPath(q)
    BY <1>2, KeyPathGrows DEF Rooted
  <1>5. KeyPath(p) = KeyPath(q)
    BY <1>1, <1>3, <1>4
  <1> QED BY <1>1, <1>2, <1>5 DEF FoldedTogether

\* The folders that some plans made.
Owned(made, S) == UNION {made[k] : k \in S}

\* The recursion of Counted.
Sums(f, ks) ==
  f = [S \in SUBSET ks |-> IF S = {} THEN 0
                           ELSE LET k == CHOOSE k \in S : TRUE
                                IN plan[k].created + f[S \ {k}]]

\* One plan more.
LEMMA OwnedGrows ==
    ASSUME NEW made, MadeBy(made, plan, folders), IsFiniteSet(folders), NEW S \in SUBSET Plans, NEW k \in S
    PROVE  /\ Cardinality(Owned(made, S)) = plan[k].created + Cardinality(Owned(made, S \ {k}))
           /\ IsFiniteSet(Owned(made, S)) /\ Cardinality(Owned(made, S)) \in Nat
           /\ Cardinality(Owned(made, S)) <= Cardinality(folders)
  <1>1. \A j \in Plans : made[j] \in SUBSET folders
    BY DEF MadeBy
  <1>2. Owned(made, S) \in SUBSET folders /\ Owned(made, S \ {k}) \in SUBSET folders
    BY <1>1 DEF Owned
  <1>3. /\ IsFiniteSet(Owned(made, S)) /\ IsFiniteSet(Owned(made, S \ {k})) /\ IsFiniteSet(made[k])
        /\ Cardinality(Owned(made, S)) <= Cardinality(folders)
    BY <1>1, <1>2, FS_Subset
  <1>4. Owned(made, S) = made[k] \cup Owned(made, S \ {k})
    BY DEF Owned
  <1>5. made[k] \cap Owned(made, S \ {k}) = {}
    BY DEF Owned, MadeBy
  <1>6. plan[k].created = Cardinality(made[k])
    BY DEF MadeBy
  <1>7. /\ Cardinality(Owned(made, S)) \in Nat /\ Cardinality(Owned(made, S \ {k})) \in Nat
        /\ Cardinality(made[k]) \in Nat
    BY <1>3, FS_CardinalityType
  <1>8. Cardinality(made[k] \cup Owned(made, S \ {k}))
          = Cardinality(made[k]) + Cardinality(Owned(made, S \ {k})) - Cardinality({})
    BY <1>3, <1>5, FS_Union
  <1> QED BY <1>3, <1>4, <1>6, <1>7, <1>8, FS_EmptySet

\* Nobody owns nothing.
LEMMA OwnedByNone == ASSUME NEW made PROVE Cardinality(Owned(made, {})) = 0
  <1>1. Owned(made, {}) = {}
    BY DEF Owned
  <1> QED BY <1>1, FS_EmptySet

\* Every solution of the recursion counts what is owned.
LEMMA SumsAreOwned ==
    ASSUME NEW made, MadeBy(made, plan, folders), IsFiniteSet(folders), NEW ks \in SUBSET Plans,
           IsFiniteSet(ks), NEW f, Sums(f, ks)
    PROVE  \A S \in SUBSET ks : f[S] = Cardinality(Owned(made, S))
  <1> DEFINE Bad == {Cardinality(S) : S \in {T \in SUBSET ks : f[T] # Cardinality(Owned(made, T))}}
  <1> SUFFICES ASSUME Bad # {} PROVE FALSE
    OBVIOUS
  <1>1. \A S \in SUBSET ks : IsFiniteSet(S) /\ Cardinality(S) \in Nat
    BY FS_Subset, FS_CardinalityType
  <1>2. Bad \subseteq Nat
    BY <1>1
  <1>3. PICK n \in Bad : \A m \in Nat : m < n => m \notin Bad
    BY <1>2, LeastOne
  <1>4. PICK S \in SUBSET ks : f[S] # Cardinality(Owned(made, S)) /\ Cardinality(S) = n
    BY <1>3
  <1>5. CASE S = {}
    <2>1. f[S] = 0
      BY <1>5, Zenon DEF Sums
    <2> QED BY <2>1, <1>4, <1>5, OwnedByNone
  <1>6. CASE S # {}
    <2>1. PICK k : k = CHOOSE x \in S : TRUE
      OBVIOUS
    <2>2. k \in S
      BY <1>6, <2>1
    <2>3. f[S] = plan[k].created + f[S \ {k}]
      BY <1>6, <2>1, Zenon DEF Sums
    <2>4. S \ {k} \in SUBSET ks /\ Cardinality(S \ {k}) = Cardinality(S) - 1
      BY <1>1, <2>2, FS_RemoveElement
    <2>5. f[S \ {k}] = Cardinality(Owned(made, S \ {k}))
      <3> SUFFICES ASSUME f[S \ {k}] # Cardinality(Owned(made, S \ {k})) PROVE FALSE
        OBVIOUS
      <3>1. Cardinality(S \ {k}) \in Bad
        BY <2>4
      <3>2. Cardinality(S \ {k}) \in Nat /\ Cardinality(S \ {k}) < n
        BY <1>1, <1>4, <2>4
      <3> QED BY <3>1, <3>2, <1>3
    <2>6. Cardinality(Owned(made, S)) = plan[k].created + Cardinality(Owned(made, S \ {k}))
      BY <2>2, OwnedGrows
    <2> QED BY <2>3, <2>5, <2>6, <1>4
  <1> QED BY <1>5, <1>6

\* There is a solution.
LEMMA SumsExist ==
    ASSUME NEW made, MadeBy(made, plan, folders), IsFiniteSet(folders), NEW ks \in SUBSET Plans
    PROVE  \E f : Sums(f, ks)
  <1> DEFINE g == [S \in SUBSET ks |-> Cardinality(Owned(made, S))]
  <1>1. ASSUME NEW S \in SUBSET ks
        PROVE  g[S] = IF S = {} THEN 0
                      ELSE LET k == CHOOSE k \in S : TRUE IN plan[k].created + g[S \ {k}]
    <2>1. g[S] = Cardinality(Owned(made, S))
      OBVIOUS
    <2>2. CASE S = {}
      BY <2>1, <2>2, OwnedByNone
    <2>3. CASE S # {}
      <3>1. PICK k : k = CHOOSE x \in S : TRUE
        OBVIOUS
      <3>2. k \in S /\ S \in SUBSET Plans
        BY <2>3, <3>1
      <3>3. Cardinality(Owned(made, S)) = plan[k].created + Cardinality(Owned(made, S \ {k}))
        BY <3>2, OwnedGrows
      <3>4. g[S \ {k}] = Cardinality(Owned(made, S \ {k}))
        <4>1. S \ {k} \in SUBSET ks
          OBVIOUS
        <4> QED BY <4>1
      <3> HIDE DEF g
      <3> QED BY <2>1, <2>3, <3>1, <3>3, <3>4, Zenon
    <2> QED BY <2>2, <2>3
  <1>2. [S \in SUBSET ks |-> g[S]] = [S \in SUBSET ks |->
          IF S = {} THEN 0 ELSE LET k == CHOOSE k \in S : TRUE IN plan[k].created + g[S \ {k}]]
    <2> HIDE DEF g
    <2> QED BY <1>1, Zenon
  <1>3. [S \in SUBSET ks |-> g[S]] = g
    BY Zenon
  <1> HIDE DEF g
  <1> QED BY <1>2, <1>3, Zenon DEF Sums

\* No folder is counted twice.
LEMMA CountedIs ==
    ASSUME NEW made, MadeBy(made, plan, folders), IsFiniteSet(folders)
    PROVE  Counted <= Cardinality(folders)
  <1> DEFINE ks == {k \in Plans : plan[k].created > 0}
             f == CHOOSE f : Sums(f, ks)
  <1>1. ks \in SUBSET Plans /\ IsFiniteSet(ks)
    <2>1. ks \in SUBSET Plans
      OBVIOUS
    <2> QED BY <2>1, FS_Subset, PlansAssumption
  <1>2. Sums(f, ks)
    <2>1. \E g : Sums(g, ks)
      <3> HIDE DEF ks
      <3> QED BY <1>1, SumsExist
    <2> QED BY <2>1, Zenon
  <1>3. Counted = f[ks]
    BY DEF Counted, Sums
  <1> HIDE DEF f, ks
  <1>4. f[ks] = Cardinality(Owned(made, ks))
    BY <1>1, <1>2, SumsAreOwned
  <1>5. Cardinality(Owned(made, ks)) <= Cardinality(folders)
    <2>1. Cardinality(folders) \in Nat
      BY FS_CardinalityType
    <2>2. CASE ks = {}
      BY <2>1, <2>2, OwnedByNone
    <2>3. CASE ks # {}
      BY <1>1, <2>3, OwnedGrows
    <2> QED BY <2>2, <2>3
  <1> QED BY <1>3, <1>4, <1>5
-----------------------------------------------------------------------------
(* The steps of a plan.                                                       *)

\* What is good stays good while folders are added.
LEMMA GoodStays ==
    ASSUME NEW r, NEW fs, GoodPlan(r, fs), NEW more, fs \subseteq more
    PROVE  GoodPlan(r, more)
  BY DEF GoodPlan, Known

\* One plan changes, and the folders in own, which were not there, are its own.
LEMMA OnePlanMoves ==
    ASSUME PlansInv, NEW k \in Plans, NEW r \in PlanRecords, plan' = [plan EXCEPT ![k] = r],
           IsFiniteSet(folders'), folders \subseteq folders',
           \A f \in folders' : Len(f) > 1 => Parent(f) \in folders',
           GoodPlan(r, folders'),
           NEW own \in SUBSET folders', own \cap folders = {}, r.created = plan[k].created + Cardinality(own)
    PROVE  PlansInv'
  <1>1. PICK made : MadeBy(made, plan, folders)
    BY DEF PlansInv
  <1>2. plan \in [Plans -> PlanRecords] /\ IsFiniteSet(folders)
    BY DEF PlansInv
  <1>3. /\ plan' \in [Plans -> PlanRecords] /\ plan'[k] = r
        /\ \A j \in Plans : j # k => plan'[j] = plan[j]
    BY <1>2
  <1>4. \A j \in Plans : GoodPlan(plan'[j], folders')
    <2>1. \A j \in Plans : GoodPlan(plan[j], folders')
      <3>1. \A j \in Plans : GoodPlan(plan[j], folders)
        BY DEF PlansInv
      <3> QED BY <3>1, GoodStays
    <2> QED BY <1>3, <2>1
  <1>5. PICK more : more = [made EXCEPT ![k] = @ \cup own]
    OBVIOUS
  <1>6. made \in [Plans -> SUBSET folders]
    BY <1>1 DEF MadeBy
  <1>7. /\ more \in [Plans -> SUBSET folders'] /\ more[k] = made[k] \cup own
        /\ \A j \in Plans : j # k => more[j] = made[j]
    BY <1>5, <1>6
  <1>8. \A i, j \in Plans : i # j => more[i] \cap more[j] = {}
    <2>1. \A i, j \in Plans : i # j => made[i] \cap made[j] = {}
      BY <1>1 DEF MadeBy
    <2>2. \A i \in Plans : made[i] \cap own = {}
      BY <1>6
    <2> TAKE i, j \in Plans
    <2>3. CASE i = k
      BY <2>1, <2>2, <2>3, <1>7
    <2>4. CASE i # k /\ j = k
      BY <2>1, <2>2, <2>4, <1>7
    <2>5. CASE i # k /\ j # k
      BY <2>1, <2>5, <1>7
    <2> QED BY <2>3, <2>4, <2>5
  <1>9. Cardinality(more[k]) = r.created
    <2>1. IsFiniteSet(made[k]) /\ IsFiniteSet(own)
      BY <1>2, <1>6, FS_Subset
    <2>2. made[k] \cap own = {}
      BY <1>6
    <2>3. Cardinality(made[k] \cup own) = Cardinality(made[k]) + Cardinality(own) - Cardinality({})
      BY <2>1, <2>2, FS_Union
    <2>4. Cardinality(made[k]) = plan[k].created
      BY <1>1 DEF MadeBy
    <2>5. Cardinality(made[k]) \in Nat /\ Cardinality(own) \in Nat
      BY <2>1, FS_CardinalityType
    <2> QED BY <1>7, <2>3, <2>4, <2>5, FS_EmptySet
  <1>10. \A j \in Plans : plan'[j].created = Cardinality(more[j])
    <2>1. \A j \in Plans : plan[j].created = Cardinality(made[j])
      BY <1>1 DEF MadeBy
    <2> TAKE j \in Plans
    <2>2. CASE j = k
      BY <2>2, <1>3, <1>9
    <2>3. CASE j # k
      BY <2>1, <2>3, <1>3, <1>7
    <2> QED BY <2>2, <2>3
  <1>11. MadeBy(more, plan', folders')
    BY <1>7, <1>8, <1>10, Zenon DEF MadeBy
  <1>12. \E some : MadeBy(some, plan', folders')
    BY <1>11, Zenon
  <1> QED BY <1>3, <1>4, <1>12, Zenon DEF PlansInv

\* A plan that changes when nothing is created.
LEMMA OnePlanRests ==
    ASSUME PlansInv, NEW k \in Plans, NEW r \in PlanRecords, plan' = [plan EXCEPT ![k] = r],
           folders' = folders, GoodPlan(r, folders), r.created = plan[k].created
    PROVE  PlansInv'
  <1>1. IsFiniteSet(folders) /\ \A f \in folders : Len(f) > 1 => Parent(f) \in folders
    BY DEF PlansInv
  <1>2. plan[k].created \in Nat
    BY DEF PlansInv, PlanRecords
  <1>3. r.created = plan[k].created + Cardinality({})
    BY <1>2, FS_EmptySet
  <1>4. {} \in SUBSET folders' /\ {} \cap folders = {}
    OBVIOUS
  <1>5. IsFiniteSet(folders') /\ folders \subseteq folders'
    BY <1>1
  <1>6. \A f \in folders' : Len(f) > 1 => Parent(f) \in folders'
    BY <1>1
  <1>7. GoodPlan(r, folders')
    OBVIOUS
  <1> QED BY <1>3, <1>4, <1>5, <1>6, <1>7, OnePlanMoves

\* The first call holds all that the drop needs.
LEMMA planUploadFilesStep == ASSUME PlansInv, NEW k \in Plans, planUploadFiles(k) PROVE PlansInv'
  <1>1. PICK dirs \in SUBSET Directories :
          /\ IsFiniteSet(dirs)
          /\ plan' = [plan EXCEPT ![k] =
               [@ EXCEPT !.dirs = dirs, !.resolved = [p \in {} |-> <<>>],
                         !.pc = IF dirs = {} THEN "planned" ELSE "sending",
                         !.calls = IF dirs = {} THEN <<>> ELSE <<Forest(<<>>, FolderPaths(dirs))>>]]
    BY Zenon DEF planUploadFiles
  <1>2. folders' = folders
    BY Zenon DEF planUploadFiles
  <1>3. dirs \in SUBSET Paths
    BY PlansAssumption DEF Paths
  <1>4. /\ FolderPaths(dirs) \in SUBSET Paths
        /\ \A p \in FolderPaths(dirs) : Len(p) > 0 /\ (Parent(p) \in FolderPaths(dirs) \/ Parent(p) = <<>>)
    BY <1>1, <1>3, FolderPathsAre
  <1>5. plan \in [Plans -> PlanRecords] /\ plan[k] \in PlanRecords
    BY DEF PlansInv
  <1>6. PICK none : none = [p \in {} |-> <<>>]
    OBVIOUS
  <1>7. none \in [{} -> Paths] /\ DOMAIN none = {}
    BY <1>6
  <1>8. none \in Resolutions
    BY <1>7 DEF Resolutions
  <1>9. PICK calls : calls = IF dirs = {} THEN <<>> ELSE <<Forest(<<>>, FolderPaths(dirs))>>
    OBVIOUS
  <1>10. PICK stage : stage = IF dirs = {} THEN "planned" ELSE "sending"
    OBVIOUS
  <1>11. <<>> \in Paths /\ Len(<<>>) = 0
    BY EmptySeq DEF Paths
  <1>12. PICK f : f = Forest(<<>>, FolderPaths(dirs))
    OBVIOUS
  <1>13. f \in Forests /\ f.parent = <<>> /\ f.paths = FolderPaths(dirs)
    BY <1>4, <1>11, <1>12 DEF Forests, Forest
  <1>14. GoodForest(f, FolderPaths(dirs), {})
    BY <1>4, <1>11, <1>13 DEF GoodForest
  <1>15. <<f>> \in Seq(Forests) /\ Len(<<f>>) = 1 /\ <<f>>[1] = f /\ <<f>> # <<>>
    BY <1>13
  <1>16. calls \in Seq(Forests)
    BY <1>9, <1>12, <1>15, EmptySeq
  <1>17. PICK r : r = [plan[k] EXCEPT !.dirs = dirs, !.resolved = none, !.pc = stage, !.calls = calls]
    OBVIOUS
  <1>18. /\ r \in PlanRecords /\ r.dirs = dirs /\ r.resolved = none /\ r.pc = stage /\ r.calls = calls
         /\ r.created = plan[k].created
    BY <1>3, <1>5, <1>8, <1>10, <1>16, <1>17 DEF PlanRecords
  <1>19. plan' = [plan EXCEPT ![k] = r]
    BY <1>1, <1>6, <1>9, <1>10, <1>17, Zenon
  <1>20. GoodPlan(r, folders)
    <2>1. Known(r, folders)
      BY <1>7, <1>18 DEF Known
    <2>2. CASE dirs = {}
      <3>1. FolderPaths(dirs) = {}
        BY <2>2 DEF FolderPaths
      <3>2. stage = "planned"
        BY <2>2, <1>10
      <3> QED BY <3>1, <3>2, <2>1, <1>1, <1>7, <1>18 DEF GoodPlan
    <2>3. CASE dirs # {}
      <3>1. stage = "sending" /\ calls = <<f>>
        BY <2>3, <1>9, <1>10, <1>12
      <3>2. Awaited(r)
        <4>1. r.calls # <<>> /\ Len(r.calls) = 1 /\ r.calls[1] = f
          BY <3>1, <1>15, <1>18
        <4>2. \A i \in 1..Len(r.calls) : r.calls[i] = f
          BY <4>1
        <4>3. \E i \in 1..Len(r.calls) : r.calls[i] = f
          BY <4>1
        <4>4. \A i \in 1..Len(r.calls) : GoodForest(r.calls[i], FolderPaths(r.dirs), DOMAIN r.resolved)
          BY <4>2, <1>7, <1>14, <1>18
        <4>5. \A p \in FolderPaths(r.dirs) : \E i \in 1..Len(r.calls) : p \in r.calls[i].paths
          BY <4>3, <1>13, <1>18
        <4> QED BY <4>1, <4>4, <4>5 DEF Awaited
      <3> QED BY <3>1, <3>2, <2>1, <1>1, <1>18 DEF GoodPlan
    <2> QED BY <2>2, <2>3
  <1> QED BY <1>2, <1>18, <1>19, <1>20, OnePlanRests

\* Nothing was sent.
LEMMA unsafePathStep == ASSUME PlansInv, NEW k \in Plans, unsafePath(k) PROVE PlansInv'
  <1>1. plan' = [plan EXCEPT ![k].pc = "unsafe"] /\ folders' = folders
    BY Zenon DEF unsafePath
  <1>2. plan[k] \in PlanRecords
    BY DEF PlansInv
  <1>3. PICK r : r = [plan[k] EXCEPT !.pc = "unsafe"]
    OBVIOUS
  <1>4. r \in PlanRecords /\ r.pc = "unsafe" /\ r.created = plan[k].created
    BY <1>2, <1>3 DEF PlanRecords
  <1>5. GoodPlan(r, folders)
    BY <1>4 DEF GoodPlan
  <1>6. plan' = [plan EXCEPT ![k] = r]
    BY <1>1, <1>3, Zenon
  <1> QED BY <1>1, <1>4, <1>5, <1>6, OnePlanRests
\* The folders of some directories.
FoldersOf(batch) == {KeyPath(p) : p \in batch}

\* The directories of a batch are placed at their own paths.
PlacedRight(k, f, batch) ==
  /\ \A p \in batch : Placed(k, f, batch)[p] = KeyPath(p)
  /\ {Placed(k, f, batch)[p] : p \in batch} = FoldersOf(batch)

\* Finitely many folders, each with its parent.
Nested(fs) == IsFiniteSet(fs) /\ \A g \in fs : Len(g) > 1 => Parent(g) \in fs

\* The call a plan sends: its batch goes where its directories are, and with its
\* folders every folder still has its parent.
LEMMA BatchIs ==
    ASSUME PlansInv, NEW k \in Plans, plan[k].pc = "sending",
           NEW f, f = Head(plan[k].calls), NEW batch, batch = Selected(f.paths)
    PROVE  /\ plan[k].calls \in Seq(Forests) /\ plan[k].calls # <<>> /\ f = plan[k].calls[1]
           /\ FiniteForest(f, FolderPaths(plan[k].dirs), DOMAIN plan[k].resolved)
           /\ batch \in SUBSET FolderPaths(plan[k].dirs) /\ batch \in SUBSET Paths /\ IsFiniteSet(batch)
           /\ PlacedRight(k, f, batch) /\ Nested(folders \cup FoldersOf(batch))
  <1>1. plan[k] \in PlanRecords /\ GoodPlan(plan[k], folders)
    BY DEF PlansInv
  <1>2. /\ plan[k].calls \in Seq(Forests) /\ plan[k].dirs \in SUBSET Paths
        /\ plan[k].calls # <<>> /\ IsFiniteSet(plan[k].dirs) /\ Known(plan[k], folders)
        /\ \A i \in 1..Len(plan[k].calls) :
             GoodForest(plan[k].calls[i], FolderPaths(plan[k].dirs), DOMAIN plan[k].resolved)
    BY <1>1 DEF GoodPlan, Awaited, PlanRecords
  <1>3. Len(plan[k].calls) \in Nat \ {0}
    BY <1>2, EmptySeq
  <1>4. 1 \in 1..Len(plan[k].calls)
    BY <1>3
  <1>5. f = plan[k].calls[1]
    BY <1>2, <1>3
  <1>6. f \in Forests /\ GoodForest(f, FolderPaths(plan[k].dirs), DOMAIN plan[k].resolved)
    BY <1>2, <1>4, <1>5, ElementOfSeq
  <1>7. FiniteForest(f, FolderPaths(plan[k].dirs), DOMAIN plan[k].resolved)
    <2>1. /\ FolderPaths(plan[k].dirs) \in SUBSET Paths /\ IsFiniteSet(FolderPaths(plan[k].dirs))
          /\ \A p \in FolderPaths(plan[k].dirs) : Len(p) > 0
      BY <1>2, FolderPathsAre
    <2> QED BY <2>1, <1>6 DEF FiniteForest
  <1>8. /\ Rooted(batch, f.parent) /\ batch \in SUBSET FolderPaths(plan[k].dirs)
        /\ IsFiniteSet(batch)
    BY <1>7, SelectedIsRooted
  <1>9. f.parent = <<>> \/ (/\ plan[k].resolved[f.parent] = KeyPath(f.parent)
                            /\ KeyPath(f.parent) \in folders)
    BY <1>2, <1>6 DEF GoodForest, Known
  <1>10. \A p \in batch : Placed(k, f, batch)[p] = KeyPath(p)
    BY <1>8, <1>9, PlacedIs
  <1>11. {Placed(k, f, batch)[p] : p \in batch} = FoldersOf(batch)
    BY <1>10 DEF FoldersOf
  <1>12. IsFiniteSet(folders \cup FoldersOf(batch))
    <2> DEFINE h == [p \in batch |-> KeyPath(p)]
    <2>1. h \in Surjection(batch, FoldersOf(batch))
      BY DEF Surjection, FoldersOf
    <2> HIDE DEF h
    <2>2. IsFiniteSet(FoldersOf(batch))
      BY <2>1, <1>8, FS_Surjection
    <2>3. IsFiniteSet(folders)
      BY DEF PlansInv
    <2> QED BY <2>2, <2>3, FS_Union
  <1>13. ASSUME NEW g \in folders \cup FoldersOf(batch), Len(g) > 1
         PROVE  Parent(g) \in folders \cup FoldersOf(batch)
    <2>1. CASE g \in folders
      BY <2>1, <1>13 DEF PlansInv
    <2>2. CASE g \in FoldersOf(batch)
      <3>1. PICK p \in batch : g = KeyPath(p)
        BY <2>2 DEF FoldersOf
      <3>2. p \in Paths /\ Len(p) > 0 /\ (Parent(p) \in batch \/ Parent(p) = f.parent)
        BY <1>8 DEF Rooted
      <3>3. Len(g) = Len(p) /\ Parent(g) = KeyPath(Parent(p))
        BY <3>1, <3>2, KeyPathIs, KeyPathGrows
      <3>4. Parent(p) \in Paths /\ Len(Parent(p)) = Len(p) - 1 /\ Len(p) \in Nat
        BY <3>2, ParentIs, PathIs
      <3>5. Parent(p) # <<>>
        <4>1. Len(Parent(p)) # 0
          BY <3>3, <3>4, <1>13
        <4> QED BY <4>1, <3>4, PathIs
      <3>6. CASE Parent(p) \in batch
        BY <3>3, <3>6 DEF FoldersOf
      <3>7. CASE Parent(p) = f.parent
        BY <3>3, <3>5, <3>7, <1>9
      <3> QED BY <3>2, <3>6, <3>7
    <2> QED BY <2>1, <2>2
  <1>14. batch \in SUBSET Paths
    BY <1>8 DEF Rooted
  <1>15. Nested(folders \cup FoldersOf(batch))
    BY <1>12, <1>13 DEF Nested
  <1>16. PlacedRight(k, f, batch)
    BY <1>10, <1>11, Zenon DEF PlacedRight
  <1> QED BY <1>2, <1>5, <1>7, <1>8, <1>14, <1>15, <1>16

\* Where the elements of a concatenation come from.
LEMMA PlacesInConcat ==
    ASSUME NEW m \in Nat, NEW n \in Nat
    PROVE  /\ \A i \in 1..m : i \in 1..m + n /\ i <= m
           /\ \A i \in 1..m + n : ~(i <= m) => i - m \in 1..n
           /\ \A i \in 1..n : m + i \in 1..m + n /\ ~(m + i <= m) /\ m + i - m = i
  OBVIOUS

\* What a plan has to send after a batch: the forests that were left over and
\* the others, which hold all that has no folder yet.
LEMMA RestIs ==
    ASSUME PlansInv, NEW k \in Plans, plan[k].pc = "sending",
           NEW f, f = Head(plan[k].calls), NEW after, after = DOMAIN plan[k].resolved \cup Selected(f.paths),
           NEW rest, rest = Deferred(f) \o Tail(plan[k].calls)
    PROVE  /\ rest \in Seq(Forests)
           /\ \A i \in 1..Len(rest) : GoodForest(rest[i], FolderPaths(plan[k].dirs), after)
           /\ \A p \in FolderPaths(plan[k].dirs) : p \in after \/ \E i \in 1..Len(rest) : p \in rest[i].paths
  <1> DEFINE all == FolderPaths(plan[k].dirs)
             known == DOMAIN plan[k].resolved
  <1>1. PICK calls : calls = plan[k].calls
    OBVIOUS
  <1>2. calls \in Seq(Forests) /\ calls # <<>> /\ f = calls[1] /\ FiniteForest(f, all, known)
    BY <1>1, BatchIs
  <1>3. /\ \A i \in 1..Len(calls) : GoodForest(calls[i], all, known)
        /\ \A p \in all : p \in known \/ \E i \in 1..Len(calls) : p \in calls[i].paths
    BY <1>1 DEF PlansInv, GoodPlan, Awaited
  <1> HIDE DEF all, known
  <1>4. known \subseteq after /\ Selected(f.paths) \subseteq after
    BY DEF known
  <1>5. PICK a : a = Deferred(f)
    OBVIOUS
  <1>6. /\ a \in Seq(Forests) /\ \A i \in 1..Len(a) : GoodForest(a[i], all, after)
        /\ \A p \in f.paths : p \in Selected(f.paths) \/ \E i \in 1..Len(a) : p \in a[i].paths
    BY <1>2, <1>4, <1>5, DeferredAre
  <1>7. PICK b : b = Tail(calls)
    OBVIOUS
  <1>8. /\ b \in Seq(Forests) /\ Len(b) = Len(calls) - 1 /\ \A i \in 1..Len(b) : b[i] = calls[i + 1]
    BY <1>2, <1>7, HeadTailProperties
  <1>9. Len(a) \in Nat /\ Len(b) \in Nat /\ Len(calls) \in Nat
    BY <1>2, <1>6, <1>8, LenProperties
  <1>10. rest = a \o b
    BY <1>1, <1>5, <1>7
  <1>11. /\ rest \in Seq(Forests) /\ Len(rest) = Len(a) + Len(b)
         /\ \A i \in 1..Len(a) + Len(b) : rest[i] = IF i <= Len(a) THEN a[i] ELSE b[i - Len(a)]
    <2>1. /\ a \o b \in Seq(Forests) /\ Len(a \o b) = Len(a) + Len(b)
          /\ \A i \in 1..Len(a) + Len(b) : (a \o b)[i] = IF i <= Len(a) THEN a[i] ELSE b[i - Len(a)]
      BY <1>6, <1>8, ConcatProperties
    <2> QED BY <2>1, <1>10, Zenon
  <1>15. Len(rest) = Len(a) + Len(b) /\ Len(b) = Len(calls) - 1
    BY <1>8, <1>11
  <1>16. /\ \A i \in 1..Len(a) + Len(b) : i <= Len(a) => rest[i] = a[i]
         /\ \A i \in 1..Len(a) + Len(b) : ~(i <= Len(a)) => rest[i] = b[i - Len(a)]
    BY <1>11, Zenon
  <1>12. \A g : GoodForest(g, all, known) => GoodForest(g, all, after)
    BY <1>4 DEF GoodForest
  <1>13. ASSUME NEW i \in 1..Len(rest) PROVE GoodForest(rest[i], all, after)
    <2>1. CASE i <= Len(a)
      <3>1. i \in 1..Len(a) /\ i \in 1..Len(a) + Len(b)
        BY <2>1, <1>9, <1>15
      <3>2. rest[i] = a[i]
        BY <2>1, <3>1, <1>16
      <3> QED BY <3>1, <3>2, <1>6
    <2>2. CASE ~(i <= Len(a))
      <3>0. i \in 1..Len(a) + Len(b)
        BY <1>15, Zenon
      <3>4. i - Len(a) \in 1..Len(b)
        BY <3>0, <2>2, <1>9, PlacesInConcat, Zenon
      <3>5. \A j \in 1..Len(b) : j + 1 \in 1..Len(calls)
        BY <1>9, <1>15
      <3>1. i - Len(a) \in 1..Len(b) /\ i \in 1..Len(a) + Len(b) /\ i - Len(a) + 1 \in 1..Len(calls)
        BY <3>0, <3>4, <3>5, Zenon
      <3>2. rest[i] = b[i - Len(a)]
        BY <2>2, <3>1, <1>16
      <3>3. b[i - Len(a)] = calls[i - Len(a) + 1]
        BY <3>1, <1>8
      <3> QED BY <3>1, <3>2, <3>3, <1>3, <1>12
    <2> QED BY <2>1, <2>2
  <1>14. ASSUME NEW p \in all, p \notin after PROVE \E i \in 1..Len(rest) : p \in rest[i].paths
    <2>1. PICK i \in 1..Len(calls) : p \in calls[i].paths
      BY <1>3, <1>4, <1>14
    <2>2. CASE i = 1
      <3>1. p \in f.paths /\ p \notin Selected(f.paths)
        BY <2>1, <2>2, <1>2, <1>4, <1>14
      <3>2. PICK j \in 1..Len(a) : p \in a[j].paths
        BY <3>1, <1>6
      <3>3. j \in 1..Len(rest) /\ j \in 1..Len(a) + Len(b) /\ j <= Len(a)
        BY <1>9, <1>15, PlacesInConcat, Zenon
      <3>4. rest[j] = a[j]
        BY <3>3, <1>16
      <3> QED BY <3>2, <3>3, <3>4
    <2>3. CASE i # 1
      <3>1. PICK w : w = i - 1
        OBVIOUS
      <3>2. w \in 1..Len(b) /\ w + 1 = i
        BY <3>1, <2>3, <1>9, <1>15
      <3>3. PICK j : j = Len(a) + w
        OBVIOUS
      <3>4. j \in 1..Len(a) + Len(b)
        BY <3>2, <3>3, <1>9, PlacesInConcat, Zenon
      <3>5. ~(j <= Len(a))
        BY <3>2, <3>3, <1>9, PlacesInConcat, Zenon
      <3>6. j - Len(a) = w
        BY <3>2, <3>3, <1>9, PlacesInConcat
      <3>7. rest[j] = b[w]
        BY <3>4, <3>5, <3>6, <1>16, Zenon
      <3>8. b[w] = calls[i]
        BY <3>2, <1>8
      <3>9. j \in 1..Len(rest)
        BY <3>4, <1>15, Zenon
      <3> QED BY <2>1, <3>7, <3>8, <3>9, Zenon
    <2> QED BY <2>2, <2>3
  <1> QED BY <1>11, <1>13, <1>14 DEF all
\* A batch is created.
LEMMA batchCreatedStep == ASSUME PlansInv, NEW k \in Plans, batchCreated(k) PROVE PlansInv'
  <1>1. PICK f : f = Head(plan[k].calls)
    OBVIOUS
  <1>2. PICK batch : batch = Selected(f.paths)
    OBVIOUS
  <1>3. PICK placed : placed = Placed(k, f, batch)
    OBVIOUS
  <1>4. PICK own : own = {placed[p] : p \in batch} \ folders
    OBVIOUS
  <1>5. PICK rest : rest = Deferred(f) \o Tail(plan[k].calls)
    OBVIOUS
  <1>6. PICK known : known = [p \in DOMAIN plan[k].resolved \cup batch |->
                                IF p \in batch THEN placed[p] ELSE plan[k].resolved[p]]
    OBVIOUS
  <1>7. PICK stage : stage = IF rest = <<>> THEN "planned" ELSE "sending"
    OBVIOUS
  <1>8. plan[k].pc = "sending" /\ folders' = folders \cup own
    BY <1>1, <1>2, <1>3, <1>4, Zenon DEF batchCreated
  <1>24. PICK count : count = plan[k].created + Cardinality(own)
    OBVIOUS
  <1>9. PICK r : r = [plan[k] EXCEPT !.pc = stage, !.calls = rest, !.resolved = known, !.created = count]
    OBVIOUS
  <1>10. plan' = [plan EXCEPT ![k] = r]
    BY <1>1, <1>2, <1>3, <1>4, <1>5, <1>6, <1>7, <1>9, <1>24, Zenon DEF batchCreated
  <1>11. plan[k] \in PlanRecords /\ GoodPlan(plan[k], folders)
    BY DEF PlansInv
  <1>12. /\ batch \in SUBSET FolderPaths(plan[k].dirs) /\ batch \in SUBSET Paths
         /\ \A p \in batch : placed[p] = KeyPath(p)
         /\ {placed[p] : p \in batch} = FoldersOf(batch)
         /\ IsFiniteSet(folders \cup FoldersOf(batch))
         /\ \A g \in folders \cup FoldersOf(batch) :
              Len(g) > 1 => Parent(g) \in folders \cup FoldersOf(batch)
    <2>1. PlacedRight(k, f, batch) /\ Nested(folders \cup FoldersOf(batch))
      BY <1>1, <1>2, <1>8, BatchIs
    <2>3. FiniteForest(f, FolderPaths(plan[k].dirs), DOMAIN plan[k].resolved)
      BY <1>1, <1>8, BatchIs
    <2>4. Rooted(batch, f.parent) /\ batch \in SUBSET FolderPaths(plan[k].dirs)
      BY <2>3, <1>2, SelectedIsRooted
    <2>2. batch \in SUBSET FolderPaths(plan[k].dirs) /\ batch \in SUBSET Paths
      BY <2>4 DEF Rooted
    <2> QED BY <2>1, <2>2, <1>3, Zenon DEF PlacedRight, Nested
  <1>13. own = FoldersOf(batch) \ folders /\ folders' = folders \cup FoldersOf(batch)
    BY <1>4, <1>8, <1>12
  <1>14. PICK after : after = DOMAIN plan[k].resolved \cup batch
    OBVIOUS
  <1>15. /\ rest \in Seq(Forests)
         /\ \A i \in 1..Len(rest) : GoodForest(rest[i], FolderPaths(plan[k].dirs), after)
         /\ \A p \in FolderPaths(plan[k].dirs) : p \in after \/ \E i \in 1..Len(rest) : p \in rest[i].paths
    BY <1>1, <1>2, <1>5, <1>8, <1>14, RestIs
  <1>16. Known(plan[k], folders) /\ IsFiniteSet(plan[k].dirs)
    BY <1>8, <1>11 DEF GoodPlan
  <1>17. DOMAIN known = after /\ after \subseteq FolderPaths(plan[k].dirs)
    BY <1>6, <1>12, <1>14, <1>16 DEF Known
  <1>18. ASSUME NEW p \in after PROVE known[p] = KeyPath(p) /\ KeyPath(p) \in folders'
    <2>1. CASE p \in batch
      <3>1. known[p] = placed[p]
        BY <2>1, <1>6, <1>14
      <3> QED BY <2>1, <3>1, <1>12, <1>13 DEF FoldersOf
    <2>2. CASE p \notin batch
      <3>1. known[p] = plan[k].resolved[p] /\ p \in DOMAIN plan[k].resolved
        BY <2>2, <1>6, <1>14
      <3> QED BY <3>1, <1>13, <1>16 DEF Known
    <2> QED BY <2>1, <2>2
  <1>19. known \in Resolutions
    <2>1. FolderPaths(plan[k].dirs) \in SUBSET Paths
      BY <1>11, <1>16, FolderPathsAre DEF PlanRecords
    <2>2. after \in SUBSET Paths
      BY <1>17, <2>1
    <2>3. \A p \in after : known[p] \in Paths
      BY <1>18, <2>2, KeyPathIs
    <2>4. known = [p \in after |-> known[p]]
      BY <1>6, <1>14
    <2>5. known \in [after -> Paths]
      BY <2>3, <2>4
    <2> QED BY <2>2, <2>5 DEF Resolutions
  <1>20. IsFiniteSet(own) /\ Cardinality(own) \in Nat
    <2>1. own \in SUBSET (folders \cup FoldersOf(batch))
      BY <1>13
    <2>2. IsFiniteSet(own)
      BY <2>1, <1>12, FS_Subset
    <2> QED BY <2>2, FS_CardinalityType
  <1>25. count \in Nat
    BY <1>11, <1>20, <1>24 DEF PlanRecords
  <1>26. stage \in {"none", "unsafe", "sending", "planned", "refused", "failed"}
    BY <1>7
  <1>27. rest \in Seq(Forests)
    BY <1>15
  <1>28. /\ r \in PlanRecords /\ r.pc = stage /\ r.calls = rest /\ r.resolved = known
         /\ r.created = count /\ r.dirs = plan[k].dirs
    BY <1>9, <1>11, <1>19, <1>25, <1>26, <1>27 DEF PlanRecords
  <1>21. /\ r \in PlanRecords /\ r.pc = stage /\ r.calls = rest /\ r.resolved = known
         /\ r.created = plan[k].created + Cardinality(own) /\ r.dirs = plan[k].dirs
    BY <1>24, <1>28
  <1>22. GoodPlan(r, folders')
    <2>1. Known(r, folders')
      BY <1>17, <1>18, <1>21, Zenon DEF Known
    <2>2. CASE rest = <<>>
      <3>1. stage = "planned" /\ \A i \in 1..Len(rest) : FALSE
        BY <2>2, <1>7, <1>15, EmptySeq
      <3>2. FolderPaths(r.dirs) = DOMAIN r.resolved
        BY <3>1, <1>15, <1>17, <1>21
      <3> QED BY <2>1, <3>1, <3>2, <1>16, <1>21 DEF GoodPlan
    <2>3. CASE rest # <<>>
      <3>1. stage = "sending"
        BY <2>3, <1>7
      <3>2. Awaited(r)
        BY <2>3, <1>15, <1>17, <1>21, Zenon DEF Awaited
      <3> QED BY <2>1, <3>1, <3>2, <1>16, <1>21 DEF GoodPlan
    <2> QED BY <2>2, <2>3
  <1>23. /\ IsFiniteSet(folders') /\ folders \subseteq folders'
         /\ \A g \in folders' : Len(g) > 1 => Parent(g) \in folders'
         /\ own \in SUBSET folders' /\ own \cap folders = {}
    BY <1>12, <1>13
  <1> QED BY <1>10, <1>21, <1>22, <1>23, OnePlanMoves

\* A drop with two names that are one to the server is refused.
LEMMA batchRefusedStep == ASSUME PlansInv, NEW k \in Plans, batchRefused(k) PROVE PlansInv'
  <1>1. /\ plan[k].pc = "sending" /\ folders' = folders
        /\ Twins(Selected(Head(plan[k].calls).paths))
        /\ plan' = [plan EXCEPT ![k].pc = "refused", ![k].calls = <<>>]
    BY Zenon DEF batchRefused
  <1>2. PICK f : f = Head(plan[k].calls)
    OBVIOUS
  <1>3. FiniteForest(f, FolderPaths(plan[k].dirs), DOMAIN plan[k].resolved)
    BY <1>1, <1>2, BatchIs
  <1>4. FoldedTogether(plan[k].dirs)
    BY <1>1, <1>2, <1>3, TwinsFold
  <1>5. plan[k] \in PlanRecords /\ GoodPlan(plan[k], folders)
    BY DEF PlansInv
  <1>6. PICK r : r = [plan[k] EXCEPT !.pc = "refused", !.calls = <<>>]
    OBVIOUS
  <1>7. /\ r \in PlanRecords /\ r.pc = "refused" /\ r.resolved = plan[k].resolved /\ r.dirs = plan[k].dirs
        /\ r.created = plan[k].created
    BY <1>5, <1>6, EmptySeq DEF PlanRecords
  <1>8. plan' = [plan EXCEPT ![k] = r]
    BY <1>1, <1>6, Zenon
  <1>9. GoodPlan(r, folders)
    BY <1>1, <1>4, <1>5, <1>7 DEF GoodPlan, Known
  <1> QED BY <1>1, <1>7, <1>8, <1>9, OnePlanRests

\* A call that fails may have been carried out.
LEMMA batchFailsStep == ASSUME PlansInv, NEW k \in Plans, batchFails(k) PROVE PlansInv'
  <1>1. PICK f : f = Head(plan[k].calls)
    OBVIOUS
  <1>2. PICK batch : batch = Selected(f.paths)
    OBVIOUS
  <1>3. /\ plan[k].pc = "sending"
        /\ plan' = [plan EXCEPT ![k].pc = "failed", ![k].calls = <<>>]
        /\ folders' \in {folders} \cup
             (IF Twins(batch) THEN {} ELSE {folders \cup {Placed(k, f, batch)[p] : p \in batch}})
    BY <1>1, <1>2, Zenon DEF batchFails
  <1>4. PlacedRight(k, f, batch) /\ Nested(folders \cup FoldersOf(batch))
    BY <1>1, <1>2, <1>3, BatchIs
  <1>5. {Placed(k, f, batch)[p] : p \in batch} = FoldersOf(batch)
    BY <1>4, Zenon DEF PlacedRight
  <1>6. folders' = folders \/ folders' = folders \cup FoldersOf(batch)
    BY <1>3, <1>5
  <1>7. plan[k] \in PlanRecords /\ GoodPlan(plan[k], folders)
    BY DEF PlansInv
  <1>8. PICK r : r = [plan[k] EXCEPT !.pc = "failed", !.calls = <<>>]
    OBVIOUS
  <1>9. /\ r \in PlanRecords /\ r.pc = "failed" /\ r.resolved = plan[k].resolved /\ r.dirs = plan[k].dirs
        /\ r.created = plan[k].created
    BY <1>7, <1>8, EmptySeq DEF PlanRecords
  <1>10. plan' = [plan EXCEPT ![k] = r]
    BY <1>3, <1>8, Zenon
  <1>11. GoodPlan(r, folders)
    BY <1>3, <1>7, <1>9 DEF GoodPlan, Known
  <1>12. CASE folders' = folders
    BY <1>9, <1>10, <1>11, <1>12, OnePlanRests
  <1>13. CASE folders' = folders \cup FoldersOf(batch)
    <2>1. GoodPlan(r, folders')
      BY <1>11, <1>13, GoodStays
    <2>2. plan[k].created + Cardinality({}) = r.created
      BY <1>7, <1>9, FS_EmptySet DEF PlanRecords
    <2>3. {} \in SUBSET folders' /\ {} \cap folders = {} /\ folders \subseteq folders'
      BY <1>13
    <2>4. /\ IsFiniteSet(folders')
          /\ \A g \in folders' : Len(g) > 1 => Parent(g) \in folders'
      BY <1>4, <1>13 DEF Nested
    <2> QED BY <1>9, <1>10, <2>1, <2>2, <2>3, <2>4, OnePlanMoves
  <1> QED BY <1>6, <1>12, <1>13

-----------------------------------------------------------------------------
\* Before anything is dropped.
LEMMA PlansInitially == PlansInit => PlansInv
  <1> SUFFICES ASSUME PlansInit PROVE PlansInv
    OBVIOUS
  <1>1. PICK p : p = <<Names[1]>>
    OBVIOUS
  <1>2. p \in Paths /\ Len(p) = 1
    <2>1. Len(Names) \in Nat \ {0}
      BY PlansAssumption, EmptySeq
    <2>2. 1 \in 1..Len(Names)
      BY <2>1
    <2>3. Names[1] \in ToSet(Names)
      BY <2>2, PlansAssumption, ElementOfSeq
    <2> QED BY <1>1, <2>3 DEF Paths
  <1>3. folders = {} \/ folders = {KeyPath(p)}
    BY <1>1 DEF PlansInit
  <1>4. Len(KeyPath(p)) = 1
    BY <1>2, KeyPathIs
  <1>12. IsFiniteSet(folders)
    BY <1>3, FS_EmptySet, FS_Singleton
  <1>13. \A f \in folders : ~(Len(f) > 1)
    BY <1>3, <1>4
  <1>5. IsFiniteSet(folders) /\ \A f \in folders : Len(f) > 1 => Parent(f) \in folders
    BY <1>12, <1>13
  <1>6. PICK none : none = [pc |-> "none", dirs |-> {}, calls |-> <<>>, resolved |-> <<>>, created |-> 0]
    OBVIOUS
  <1>7. none \in PlanRecords /\ none.pc = "none" /\ none.created = 0
    BY <1>6, EmptySeq DEF PlanRecords, Resolutions
  <1>8. plan = [k \in Plans |-> none]
    BY <1>6, Zenon DEF PlansInit
  <1>9. \A k \in Plans : GoodPlan(plan[k], folders)
    BY <1>7, <1>8 DEF GoodPlan
  <1>10. MadeBy([k \in Plans |-> {}], plan, folders)
    BY <1>7, <1>8, FS_EmptySet DEF MadeBy
  <1>11. plan \in [Plans -> PlanRecords]
    BY <1>7, <1>8
  <1> QED BY <1>5, <1>9, <1>10, <1>11, Zenon DEF PlansInv

\* Every step keeps the invariant.
LEMMA PlansStep == PlansInv /\ [PlansNext]_planVars => PlansInv'
  <1> SUFFICES ASSUME PlansInv, [PlansNext]_planVars PROVE PlansInv'
    OBVIOUS
  <1>1. CASE UNCHANGED planVars
    <2>1. folders' = folders /\ plan' = plan
      BY <1>1 DEF planVars
    <2> QED BY <2>1, Zenon DEF PlansInv
  <1>2. CASE PlansNext
    <2>1. PICK k \in Plans : \/ planUploadFiles(k) \/ unsafePath(k)
                             \/ batchCreated(k) \/ batchRefused(k) \/ batchFails(k)
      BY <1>2, Zenon DEF PlansNext
    <2> QED BY <2>1, planUploadFilesStep, unsafePathStep, batchCreatedStep, batchRefusedStep, batchFailsStep, Zenon
  <1> QED BY <1>1, <1>2

\* The invariant gives the property.
LEMMA PlansAreNested == PlansInv => FoldersNestRightly
  <1> SUFFICES ASSUME PlansInv PROVE FoldersNestRightly
    OBVIOUS
  <1>1. ASSUME NEW k \in Plans
        PROVE  LET known == IF plan[k].pc \in {"none", "unsafe"} THEN {} ELSE DOMAIN plan[k].resolved
               IN /\ \A p \in known : plan[k].resolved[p] = KeyPath(p) /\ KeyPath(p) \in folders
                  /\ plan[k].pc = "planned" => known = FolderPaths(plan[k].dirs)
                  /\ plan[k].pc = "refused" => FoldedTogether(plan[k].dirs)
    BY DEF PlansInv, GoodPlan, Known
  <1>2. \A f \in folders : Len(f) > 1 => Parent(f) \in folders
    BY DEF PlansInv
  <1>3. Counted <= Cardinality(folders)
    BY CountedIs DEF PlansInv
  <1> QED BY <1>1, <1>2, <1>3, Zenon DEF FoldersNestRightly

\* However a drop is cut into batches and whatever other drops create meanwhile,
\* directories get the folders of their own paths, a finished plan has all of
\* them, only folded names are refused, and no folder is counted twice.
THEOREM FoldersAlwaysNestRightly == PlansSpec => []FoldersNestRightly
  <1>1. PlansSpec => []PlansInv
    BY PlansInitially, PlansStep, PTL DEF PlansSpec
  <1> QED BY <1>1, PlansAreNested, PTL

-------------------------------------------------------------------------------
(* The queues together.                                                       *)

\* The queues share no state: a behaviour of all of them is one of the targets and
\* one of the plans.
LEMMA QueuesAreApart == QueuesSpec => TargetsSpec /\ PlansSpec
  <1>1. QueuesInit => TargetsInit /\ PlansInit
    BY Zenon DEF QueuesInit
  <1>2. [QueuesNext]_allVars => [TargetsNext]_targetVars /\ [PlansNext]_planVars
    <2>1. ASSUME UNCHANGED allVars PROVE UNCHANGED targetVars /\ UNCHANGED planVars
      BY <2>1 DEF allVars
    <2>2. ASSUME QueuesNext
          PROVE  (TargetsNext \/ UNCHANGED targetVars) /\ (PlansNext \/ UNCHANGED planVars)
      <3>1. UNCHANGED Pages => UNCHANGED targetVars /\ UNCHANGED planVars
        BY DEF Pages
      <3>2. PlansEnded => UNCHANGED planVars
        BY DEF PlansEnded
      <3> QED BY <2>2, <3>1, <3>2 DEF QueuesNext
    <2> QED BY <2>1, <2>2
  <1> QED BY <1>1, <1>2, PTL DEF QueuesSpec, TargetsSpec, PlansSpec

\* What is dropped goes to the folder that was shown, with every directory made
\* once and in its parent, whatever else runs beside it.
THEOREM DropsAreAlwaysTrue == QueuesSpec => []DropsAreTrue
  <1>1. DropsReachTheirFolder /\ FoldersNestRightly => DropsAreTrue
    BY DEF DropsAreTrue
  <1> QED BY <1>1, QueuesAreApart, DropsAlwaysReachTheirFolder, FoldersAlwaysNestRightly, PTL
===============================================================================
