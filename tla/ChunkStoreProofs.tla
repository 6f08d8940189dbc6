-------------------------- MODULE ChunkStoreProofs --------------------------
(***************************************************************************)
(* Proofs about ChunkStore, for any number of digests, messages, sessions, *)
(* parts, files, calls and faults.                                         *)
(***************************************************************************)
EXTENDS ChunkStore, TLAPS

-----------------------------------------------------------------------------
\* Types.

\* The initial state is well typed.
LEMMA TypeInit == Init => TypeOK
  BY ChunkAssumption DEF Init, TypeOK, Idle, Calls, Searching, Located, Cleaning

\* The fields a call has follow from its control point.
LEMMA CallShape ==
  ASSUME TypeOK, NEW c \in Callers
  PROVE  /\ call[c].pc \in {"lock", "recheck", "find", "post"} => call[c] \in Searching
         /\ call[c].pc \in {"register", "attach"} => call[c] \in Located
         /\ call[c].pc = "clean" => call[c] \in Cleaning
         /\ call[c].pc # "idle" => call[c].d \in Digests
  BY DEF TypeOK, Calls, Searching, Located, Cleaning, Idle

\* So does the sweeper's.
LEMMA SweepShape ==
  ASSUME TypeOK, gc.pc # "idle"
  PROVE  gc \in [pc : {"lock", "check", "delete", "remove"}, m : Messages]
  BY DEF TypeOK, Idle

\* Every step keeps the variables in their ranges.
LEMMA TypeStep == TypeOK /\ [Next]_vars => TypeOK'
<1> SUFFICES ASSUME TypeOK, [Next]_vars PROVE TypeOK'
  OBVIOUS
<1> USE ChunkAssumption DEF TypeOK, Unlocked
<1>1. ASSUME NEW u \in Uploads, CreateSession(u) PROVE TypeOK'
  BY <1>1 DEF CreateSession, rowVars, fileVars
<1>2. ASSUME NEW u \in Uploads, CloseSession(u) PROVE TypeOK'
  BY <1>2 DEF CloseSession, rowVars, fileVars, Open
<1>3. ASSUME NEW u \in Uploads, VerifyHash(u) PROVE TypeOK'
  BY <1>3 DEF VerifyHash, rowVars, fileVars
<1>4. ASSUME NEW u \in Uploads, NEW f \in Files, Finalize(u, f) PROVE TypeOK'
  BY <1>4 DEF Finalize, MarkReady, Complete
<1>5. ASSUME NEW f \in Files, NEW S \in SUBSET Uploads, Purge(f, S) PROVE TypeOK'
  BY <1>5 DEF Purge, Dropped
<1>6. ASSUME NEW m \in Messages, Age(m) PROVE TypeOK'
  BY <1>6 DEF Age, sessVars, fileVars
<1>7. ASSUME NEW c \in Callers, NEW u \in Uploads, NEW i \in Parts, NEW d \in Digests,
             PutPart(c, u, i, d)
      PROVE  TypeOK'
  BY <1>7 DEF PutPart, rowVars, sessVars, fileVars, Calls, Searching, Located, Cleaning
<1>8. ASSUME NEW c \in Callers, LockDigest(c) PROVE TypeOK'
  <2>1. call[c] \in Searching
    BY <1>8, CallShape DEF LockDigest, At
  <2>2. call'[c] \in Searching
    BY <1>8, <2>1 DEF LockDigest, Goto, Searching, Located
  <2> QED
    BY <1>8, <2>1, <2>2 DEF LockDigest, Goto, rowVars, sessVars, fileVars, Calls, Searching, Located
<1>9. ASSUME NEW c \in Callers, Recheck(c) PROVE TypeOK'
  <2>1. call[c] \in Searching
    BY <1>9, CallShape DEF Recheck, At
  <2>2. call'[c] \in Searching \cup {Idle}
    BY <1>9, <2>1 DEF Recheck, Goto, Return, Idle, Searching, Located
  <2> QED
    BY <1>9, <2>1, <2>2
       DEF Recheck, Goto, Return, rowVars, sessVars, fileVars, Calls, Searching, Located
<1>10. ASSUME NEW c \in Callers, Find(c) PROVE TypeOK'
  <2>1. call[c] \in Searching
    BY <1>10, CallShape DEF Find, At
  <2>2. call'[c] \in Searching \cup Located
    BY <1>10, <2>1 DEF Find, Goto, RowsOf, Searching, Located
  <2> QED
    BY <1>10, <2>1, <2>2 DEF Find, Goto, RowsOf, rowVars, sessVars, fileVars, Calls
<1>11. ASSUME NEW c \in Callers, NEW m \in Messages, Post(c, m) PROVE TypeOK'
  <2>1. call[c] \in Searching
    BY <1>11, CallShape DEF Post, Posted, At
  <2>2. call'[c] \in Located
    BY <1>11, <2>1 DEF Post, Searching, Located
  <2> QED
    BY <1>11, <2>1, <2>2 DEF Post, Posted, rowVars, sessVars, fileVars, Calls
<1>12. ASSUME NEW c \in Callers, NEW m \in Messages, PostUnanswered(c, m) PROVE TypeOK'
  BY <1>12 DEF PostUnanswered, Posted, Fault, rowVars, sessVars, fileVars
<1>13. ASSUME NEW c \in Callers, Register(c) PROVE TypeOK'
  <2>1. call[c] \in Located
    BY <1>13, CallShape DEF Register, At
  <2>2. CASE RowsOf(call[c].d) = {}
    <3>1. call'[c] \in Located /\ call' = [call EXCEPT ![c] = call'[c]]
      BY <1>13, <2>1, <2>2 DEF Register, Goto, Located
    <3>2. chunk' \in [Messages -> {"none", "uncommitted", "ready"}]
      BY <1>13, <2>1, <2>2 DEF Register, Located
    <3> QED
      BY <1>13, <3>1, <3>2 DEF Register, sessVars, fileVars, Calls
  <2>3. CASE RowsOf(call[c].d) # {}
    <3>1. call'[c] \in Cleaning /\ call' = [call EXCEPT ![c] = call'[c]]
      BY <1>13, <2>1, <2>3 DEF Register, RowsOf, Located, Cleaning
    <3> QED
      BY <1>13, <2>3, <3>1 DEF Register, sessVars, fileVars, Calls
  <2> QED
    BY <2>2, <2>3
<1>14. ASSUME NEW c \in Callers, Clean(c) PROVE TypeOK'
  <2>1. call[c] \in Cleaning
    BY <1>14, CallShape DEF Clean, At
  <2>2. call'[c] \in Located /\ call' = [call EXCEPT ![c] = call'[c]]
    BY <1>14, <2>1 DEF Clean, Located, Cleaning
  <2> QED
    BY <1>14, <2>1, <2>2 DEF Clean, rowVars, sessVars, fileVars, Calls, Cleaning
<1>15. ASSUME NEW c \in Callers, Attach(c) PROVE TypeOK'
  BY <1>15 DEF Attach, At, Return, rowVars, fileVars, Calls, Searching, Located, Cleaning, Idle,
       Open
<1>16. ASSUME NEW c \in Callers, GiveUp(c) PROVE TypeOK'
  BY <1>16 DEF GiveUp, At, Return, rowVars, sessVars, fileVars, Calls, Searching, Located,
       Cleaning, Idle
<1>17. ASSUME NEW c \in Callers, Abort(c) PROVE TypeOK'
  BY <1>17 DEF Abort, Fault, Return, rowVars, sessVars, fileVars, Calls, Searching, Located,
       Cleaning, Idle
<1>18. ASSUME NEW m \in Messages, List(m) PROVE TypeOK'
  BY <1>18 DEF List, rowVars, sessVars, fileVars
<1>19. CASE SweepLock
  BY <1>19, SweepShape DEF SweepLock, rowVars, sessVars, fileVars, Idle, Messages, DigestOf
<1>20. CASE SweepCheck
  BY <1>20, SweepShape DEF SweepCheck, SweepDone, rowVars, sessVars, fileVars, Idle, Messages,
       DigestOf
<1>21. CASE SweepDelete
  BY <1>21 DEF SweepDelete, rowVars, sessVars, fileVars, Idle
<1>22. CASE SweepDeleteUnanswered
  BY <1>22 DEF SweepDeleteUnanswered, SweepDone, Fault, rowVars, sessVars, fileVars, Idle,
               Messages, DigestOf
<1>23. CASE SweepRemove
  <2>1. gc.m \in Messages /\ DigestOf(gc.m) \in Digests
    BY <1>23, SweepShape DEF SweepRemove, Idle, Messages, DigestOf
  <2>2. part' \in [Uploads -> [Parts -> Messages \cup {NoMessage}]]
    BY <1>23 DEF SweepRemove
  <2>3. /\ chunk' \in [Messages -> {"none", "uncommitted", "ready"}]
        /\ aged' \subseteq Messages
    <3>1. \/ chunk' = [chunk EXCEPT ![gc.m] = "none"] /\ aged' = aged \ {gc.m}
          \/ chunk' = chunk /\ aged' = aged
      BY <1>23, Zenon DEF SweepRemove, rowVars
    <3> QED
      BY <2>1, <3>1
  <2>4. lock' \in [Digests -> Callers \cup {Sweeper, Nobody}] /\ gc' = Idle
    BY <1>23, <2>1 DEF SweepRemove, SweepDone
  <2> QED
    BY <1>23, <2>2, <2>3, <2>4 DEF SweepRemove, fileVars
<1>24. CASE SweepAbort
  BY <1>24 DEF SweepAbort, SweepDone, Fault, rowVars, sessVars, fileVars, Idle, Messages, DigestOf
<1>25. ASSUME NEW d \in Digests, LoseLock(d) PROVE TypeOK'
  BY <1>25 DEF LoseLock, Fault, rowVars, sessVars, fileVars
<1>26. CASE UNCHANGED vars
  BY <1>26 DEF vars, rowVars, sessVars, fileVars
<1> QED
  BY <1>1, <1>2, <1>3, <1>4, <1>5, <1>6, <1>7, <1>8, <1>9, <1>10, <1>11, <1>12, <1>13, <1>14,
     <1>15, <1>16, <1>17, <1>18, <1>19, <1>20, <1>21, <1>22, <1>23, <1>24, <1>25, <1>26
     DEF Next

\* The columns and the control points of every call stay in their ranges.
THEOREM TypeCorrect == Spec => []TypeOK
  BY TypeInit, TypeStep, PTL DEF Spec

-----------------------------------------------------------------------------
\* Locks.

\* Giving up one's own lock leaves the locks of others alone.
LEMMA OthersKeepTheirLocks ==
  ASSUME TypeOK, NEW p, NEW d \in Digests, NEW e \in Digests, lock[e] # p
  PROVE  Unlocked(p, d)[e] = lock[e]
  BY DEF TypeOK, Unlocked

-----------------------------------------------------------------------------
\* The steps of sessions.  A new session has no parts, so it protects nothing yet.
LEMMA CreateSessionStep ==
  ASSUME IInv, TypeOK', NEW u \in Uploads, CreateSession(u)
  PROVE  IInv'
<1>1. FileChunksAreReady' /\ CallsAreGuarded' /\ RowsAreLive'
      /\ NoStrayMessages' /\ ExposedByFaults'
  BY DEF CreateSession, rowVars, fileVars, IInv, FileChunksAreReady, CallsAreGuarded, CallGuarded,
         RowsAreLive, NoStrayMessages, ExposedByFaults, RowsOf, At
<1>2. PartsHaveRows'
  BY DEF CreateSession, rowVars, IInv, TypeOK, PartsHaveRows
<1>3. SweepIsGuarded'
  BY SweepShape, ChunkAssumption DEF CreateSession, rowVars, fileVars, IInv, TypeOK,
       SweepIsGuarded, PartsHaveRows,
     ReferencedByFile, ReferencedByPart, Open
<1> QED
  BY <1>1, <1>2, <1>3 DEF IInv

\* Finalize makes the chunks of the session ready; the foreign key says they are
\* rows, and none of them is in the sweeper's hands.
LEMMA FinalizeStep ==
  ASSUME IInv, TypeOK', NEW u \in Uploads, NEW f \in Files, Finalize(u, f)
  PROVE  IInv'
<1> USE ChunkAssumption DEF IInv, TypeOK, Finalize, MarkReady
<1>1. \A m \in Messages : /\ chunk'[m] = "none" <=> chunk[m] = "none"
                          /\ chunk[m] = "ready" => chunk'[m] = "ready"
  BY DEF IInv, TypeOK
<1>2. FileChunksAreReady'
  <2> SUFFICES ASSUME NEW g \in Files, NEW m \in refs'[g] PROVE chunk'[m] = "ready"
    BY DEF FileChunksAreReady
  <2>1. CASE m \in refs[g]
    BY <1>1, <2>1 DEF FileChunksAreReady
  <2>2. CASE m \notin refs[g]
    <3>1. PICK i \in Parts : m = part[u][i]
      BY <2>2
    <3> QED
      BY <3>1 DEF PartsHaveRows, ReferencedByPart, Complete
  <2> QED
    BY <2>1, <2>2
<1>3. PartsHaveRows'
  BY <1>1 DEF PartsHaveRows
<1>4. CallsAreGuarded'
  BY <1>1 DEF CallsAreGuarded, CallGuarded, RowsOf
<1>5. SweepIsGuarded'
  <2> SUFFICES ASSUME gc.pc \in {"delete", "remove"}, DigestOf(gc.m) \notin exposed
               PROVE  /\ chunk'[gc.m] = "uncommitted"
                      /\ ~ReferencedByFile(gc.m)'
                      /\ ~ReferencedByPart(gc.m, Open)'
    BY DEF SweepIsGuarded
  <2>1. gc.m \in Messages /\ ~ReferencedByPart(gc.m, {u})
    BY SweepShape DEF SweepIsGuarded, ReferencedByPart
  <2>2. ~ReferencedByFile(gc.m)'
    <3>1. \A g \in Files : refs'[g] \subseteq refs[g] \cup {part[u][i] : i \in Parts}
      OBVIOUS
    <3>2. gc.m \notin {part[u][i] : i \in Parts} /\ \A g \in Files : gc.m \notin refs[g]
      BY <2>1 DEF SweepIsGuarded, ReferencedByPart, ReferencedByFile
    <3> QED
      BY <3>1, <3>2 DEF ReferencedByFile
  <2>3. ~ReferencedByPart(gc.m, Open)'
    BY DEF SweepIsGuarded, ReferencedByPart, Open
  <2> QED
    BY <2>1, <2>2, <2>3 DEF SweepIsGuarded
<1>6. RowsAreLive' /\ NoStrayMessages' /\ ExposedByFaults'
  BY <1>1 DEF RowsAreLive, NoStrayMessages, ExposedByFaults, At
<1> QED
  BY <1>2, <1>3, <1>4, <1>5, <1>6

\* Purge drops rows that nothing else refers to; it adds no reference and no row.
LEMMA PurgeStep ==
  ASSUME IInv, TypeOK', NEW f \in Files, NEW S \in SUBSET Uploads, Purge(f, S)
  PROVE  IInv'
<1> USE ChunkAssumption DEF IInv, TypeOK, Purge, Dropped
<1>1. FileChunksAreReady'
  BY DEF FileChunksAreReady
<1>2. PartsHaveRows'
  BY DEF PartsHaveRows, ReferencedByPart
<1>3. CallsAreGuarded'
  BY DEF CallsAreGuarded, CallGuarded, RowsOf
<1>4. SweepIsGuarded'
  BY SweepShape DEF SweepIsGuarded, ReferencedByFile, ReferencedByPart, Open
<1>5. RowsAreLive' /\ NoStrayMessages' /\ ExposedByFaults'
  BY DEF RowsAreLive, NoStrayMessages, ExposedByFaults, At
<1> QED
  BY <1>1, <1>2, <1>3, <1>4, <1>5

\* The steps of a PutPart call.
LEMMA RecheckStep ==
  ASSUME IInv, TypeOK', NEW c \in Callers, Recheck(c)
  PROVE  IInv'
<1> USE DEF Recheck, rowVars, sessVars, fileVars
<1>1. call[c] \in Searching /\ call[c].pc = "recheck"
  BY CallShape DEF IInv, At
<1>2. \/ call' = [call EXCEPT ![c] = [call[c] EXCEPT !.pc = "find"]] /\ lock' = lock
      \/ call' = [call EXCEPT ![c] = Idle] /\ lock' = Unlocked(c, call[c].d)
  BY DEF Goto, Return
<1>3. \A e \in Digests : lock[e] # c => lock'[e] = lock[e]
  BY <1>1, <1>2, OthersKeepTheirLocks DEF IInv, Searching
<1>4. CallsAreGuarded'
  <2>1. CallGuarded(c)'
    BY <1>1, <1>2 DEF IInv, TypeOK, CallsAreGuarded, CallGuarded, RowsOf, Searching, Idle
  <2>2. ASSUME NEW o \in Callers \ {c} PROVE CallGuarded(o)'
    BY <1>2, <1>3, <2>2, CallShape DEF IInv, TypeOK, CallsAreGuarded, CallGuarded, RowsOf
  <2> QED
    BY <2>1, <2>2 DEF CallsAreGuarded
<1>5. SweepIsGuarded'
  BY <1>3, SweepShape, ChunkAssumption DEF IInv, SweepIsGuarded, ReferencedByFile,
       ReferencedByPart, Open, Messages, DigestOf
<1>6. NoStrayMessages'
  BY <1>1, <1>2 DEF IInv, TypeOK, NoStrayMessages, At
<1>7. FileChunksAreReady' /\ PartsHaveRows' /\ RowsAreLive' /\ ExposedByFaults'
  BY DEF IInv, FileChunksAreReady, PartsHaveRows, RowsAreLive, ExposedByFaults
<1> QED
  BY <1>4, <1>5, <1>6, <1>7 DEF IInv

\* A call that finds no row has none until it registers; one that finds a row
\* takes the row of its own digest.
LEMMA FindStep ==
  ASSUME IInv, TypeOK', NEW c \in Callers, Find(c)
  PROVE  IInv'
<1> USE DEF Find, rowVars, sessVars, fileVars
<1>1. call[c] \in Searching /\ call[c].pc = "find"
  BY CallShape DEF IInv, At
<1>2. /\ call'[c].d = call[c].d
      /\ \/ call'[c].pc = "post" /\ RowsOf(call[c].d) = {}
         \/ call'[c].pc = "attach" /\ DigestOf(call'[c].m) = call[c].d
  <2>1. CASE RowsOf(call[c].d) = {}
    BY <1>1, <2>1 DEF IInv, TypeOK, Goto, Searching
  <2>2. CASE RowsOf(call[c].d) # {}
    BY <1>1, <2>2 DEF IInv, TypeOK, RowsOf, Searching
  <2> QED
    BY <2>1, <2>2
<1>3. \A o \in Callers \ {c} : call'[o] = call[o]
  BY DEF IInv, TypeOK, Goto
<1>4. CallsAreGuarded'
  <2>1. CallGuarded(c)'
    BY <1>1, <1>2 DEF IInv, CallsAreGuarded, CallGuarded, RowsOf
  <2>2. ASSUME NEW o \in Callers \ {c} PROVE CallGuarded(o)'
    BY <1>3, <2>2 DEF IInv, CallsAreGuarded, CallGuarded, RowsOf
  <2> QED
    BY <2>1, <2>2 DEF CallsAreGuarded
<1>6. NoStrayMessages'
  BY <1>1, <1>2, <1>3 DEF IInv, NoStrayMessages, At
<1>5. FileChunksAreReady' /\ PartsHaveRows' /\ SweepIsGuarded' /\ RowsAreLive' /\ ExposedByFaults'
  BY DEF IInv, FileChunksAreReady, PartsHaveRows, SweepIsGuarded, RowsAreLive, ExposedByFaults,
         ReferencedByFile, ReferencedByPart, Open
<1> QED
  BY <1>4, <1>5, <1>6 DEF IInv

\* The row a call registers leads to the message it posted under the lock; a row
\* of the same digest can only have turned up if the lock was lost.
LEMMA RegisterStep ==
  ASSUME IInv, TypeOK', NEW c \in Callers, Register(c)
  PROVE  IInv'
<1> USE DEF Register, sessVars, fileVars
<1> DEFINE d == call[c].d
           own == call[c].m
<1>1. call[c] \in Located /\ call[c].pc = "register" /\ DigestOf(own) = d
  BY CallShape DEF IInv, At, CallsAreGuarded, CallGuarded
<1>2. own \in Messages /\ d \in Digests
  BY <1>1 DEF Located
<1>3. CASE RowsOf(d) = {}
  <2>1. /\ chunk' = [chunk EXCEPT ![own] = "uncommitted"]
        /\ call' = [call EXCEPT ![c] = [call[c] EXCEPT !.pc = "attach"]]
    BY <1>3 DEF Goto
  <2>2. chunk[own] = "none"
    BY <1>1, <1>2, <1>3 DEF RowsOf
  <2>3. FileChunksAreReady' /\ PartsHaveRows'
    BY <1>2, <2>1, <2>2 DEF IInv, TypeOK, FileChunksAreReady, PartsHaveRows
  <2>4. CallsAreGuarded'
    <3>1. CallGuarded(c)'
      BY <1>1, <2>1 DEF IInv, TypeOK, CallsAreGuarded, CallGuarded, Located
    <3>2. ASSUME NEW o \in Callers \ {c}, call[o].pc \notin {"idle", "lock"},
                 call[o].d \notin exposed
          PROVE  RowsOf(call[o].d)' = RowsOf(call[o].d)
      <4>1. call[o].d # d
        BY <1>1, <3>2 DEF IInv, CallsAreGuarded, CallGuarded
      <4> QED
        BY <1>1, <1>2, <2>1, <4>1 DEF IInv, TypeOK, RowsOf
    <3>3. ASSUME NEW o \in Callers \ {c} PROVE CallGuarded(o)'
      <4>1. call'[o] = call[o]
        BY <2>1, <3>3 DEF IInv, TypeOK
      <4> QED
        BY <3>2, <3>3, <4>1 DEF IInv, CallsAreGuarded, CallGuarded
    <3> QED
      BY <3>1, <3>3 DEF CallsAreGuarded
  <2>5. SweepIsGuarded'
    BY <1>2, <2>1, <2>2, SweepShape
       DEF IInv, TypeOK, SweepIsGuarded, ReferencedByFile, ReferencedByPart, Open
  <2>6. RowsAreLive'
    BY <1>1, <1>2, <2>1 DEF IInv, TypeOK, RowsAreLive, CallsAreGuarded, CallGuarded
  <2>7. NoStrayMessages' /\ ExposedByFaults'
    BY <1>1, <1>2, <2>1 DEF IInv, TypeOK, NoStrayMessages, ExposedByFaults, At
  <2> QED
    BY <2>3, <2>4, <2>5, <2>6, <2>7 DEF IInv
<1>4. CASE RowsOf(d) # {}
  <2>1. PICK r \in RowsOf(d) :
           call' = [call EXCEPT ![c] = [pc |-> "clean", u |-> call[c].u, i |-> call[c].i,
                                        d |-> d, m |-> r, own |-> own]]
    BY <1>4
  <2>2. chunk' = chunk
    BY <1>4
  <2>3. d \in exposed
    BY <1>1, <1>4 DEF IInv, CallsAreGuarded, CallGuarded
  <2>4. CallsAreGuarded'
    <3>1. CallGuarded(c)'
      BY <1>1, <2>1, <2>3 DEF IInv, TypeOK, CallGuarded, RowsOf
    <3>2. ASSUME NEW o \in Callers \ {c} PROVE CallGuarded(o)'
      BY <2>1, <2>2, <3>2 DEF IInv, TypeOK, CallsAreGuarded, CallGuarded, RowsOf
    <3> QED
      BY <3>1, <3>2 DEF CallsAreGuarded
  <2>5. NoStrayMessages'
    BY <2>3 DEF IInv, NoStrayMessages, ExposedByFaults
  <2>6. FileChunksAreReady' /\ PartsHaveRows' /\ SweepIsGuarded' /\ RowsAreLive' /\ ExposedByFaults'
    BY <2>2 DEF IInv, FileChunksAreReady, PartsHaveRows, SweepIsGuarded, RowsAreLive,
       ExposedByFaults, ReferencedByFile, ReferencedByPart, Open
  <2> QED
    BY <2>4, <2>5, <2>6 DEF IInv
<1> QED
  BY <1>3, <1>4

\* A call cleans up its message only when the lock was lost.
LEMMA CleanStep ==
  ASSUME IInv, TypeOK', NEW c \in Callers, Clean(c)
  PROVE  IInv'
<1> USE DEF Clean, rowVars, sessVars, fileVars
<1>1. /\ call[c] \in Cleaning
      /\ call[c].pc = "clean"
      /\ DigestOf(call[c].m) = call[c].d
      /\ DigestOf(call[c].own) = call[c].d
      /\ call[c].d \in exposed
  BY CallShape DEF IInv, At, CallsAreGuarded, CallGuarded
<1>2. \A m \in Messages : msg'[m] = msg[m] \/ (m = call[c].own /\ msg'[m] = "deleted")
  <2>1. CASE msg' = msg
    BY <2>1
  <2>2. CASE msg' = [msg EXCEPT ![call[c].own] = "deleted"]
    BY <2>2 DEF IInv, TypeOK
  <2> QED
    BY <2>1, <2>2
<1>3. /\ call'[c] = [pc |-> "attach", u |-> call[c].u, i |-> call[c].i, d |-> call[c].d,
                     m |-> call[c].m]
      /\ \A o \in Callers \ {c} : call'[o] = call[o]
  BY DEF IInv, TypeOK
<1>4. CallsAreGuarded'
  <2>1. CallGuarded(c)'
    BY <1>1, <1>3 DEF CallGuarded
  <2>2. ASSUME NEW o \in Callers \ {c} PROVE CallGuarded(o)'
    <3>1. ASSUME call[o].pc = "register", call[o].d \notin exposed PROVE msg'[call[o].m] = "live"
      <4>1. call[o].m \in Messages /\ call[o].m # call[c].own
        BY <1>1, <3>1, CallShape DEF IInv, CallsAreGuarded, CallGuarded, Located
      <4> QED
        BY <1>2, <3>1, <4>1 DEF IInv, CallsAreGuarded, CallGuarded
    <3> QED
      BY <1>3, <3>1 DEF IInv, CallsAreGuarded, CallGuarded, RowsOf
  <2> QED
    BY <2>1, <2>2 DEF CallsAreGuarded
<1>5. SweepIsGuarded'
  BY <1>2, SweepShape DEF IInv, SweepIsGuarded, ReferencedByFile, ReferencedByPart, Open
<1>6. RowsAreLive'
  BY <1>1, <1>2 DEF IInv, RowsAreLive
<1>7. NoStrayMessages'
  BY <1>1 DEF IInv, NoStrayMessages, ExposedByFaults
<1>8. FileChunksAreReady' /\ PartsHaveRows' /\ ExposedByFaults'
  BY DEF IInv, FileChunksAreReady, PartsHaveRows, ExposedByFaults
<1> QED
  BY <1>4, <1>5, <1>6, <1>7, <1>8 DEF IInv

\* A part that is attached is not in the sweeper's hands: the call holds the lock.
LEMMA AttachStep ==
  ASSUME IInv, TypeOK', NEW c \in Callers, Attach(c)
  PROVE  IInv'
<1> USE DEF Attach, rowVars, fileVars
<1> DEFINE u == call[c].u
           i == call[c].i
           m == call[c].m
<1>1. call[c] \in Located /\ call[c].pc = "attach" /\ DigestOf(m) = call[c].d
  BY CallShape DEF IInv, At, CallsAreGuarded, CallGuarded
<1>2. \/ part' = part
      \/ u \in Open /\ chunk[m] # "none" /\ part' = [part EXCEPT ![u][i] = m]
  OBVIOUS
<1>3. \A e \in Digests : lock[e] # c => lock'[e] = lock[e]
  BY <1>1, OthersKeepTheirLocks DEF IInv, Located, Return
<1>4. PartsHaveRows'
  BY <1>1, <1>2 DEF IInv, TypeOK, PartsHaveRows, Open, Located
<1>5. CallsAreGuarded'
  BY <1>3, CallShape DEF IInv, TypeOK, CallsAreGuarded, CallGuarded, RowsOf, Return, Idle
<1>6. SweepIsGuarded'
  <2>1. ASSUME gc.pc \in {"delete", "remove"}, DigestOf(gc.m) \notin exposed
        PROVE  ~ReferencedByPart(gc.m, Open)'
    <3>1. m # gc.m
      BY <1>1, <2>1, ChunkAssumption DEF IInv, CallsAreGuarded, CallGuarded, SweepIsGuarded
    <3> QED
      BY <1>1, <1>2, <2>1, <3>1 DEF IInv, TypeOK, SweepIsGuarded, ReferencedByPart, Open, Located
  <2>2. gc.pc # "idle" => gc.m \in Messages /\ DigestOf(gc.m) \in Digests
    BY SweepShape DEF IInv, Messages, DigestOf
  <2> QED
    BY <1>3, <2>1, <2>2, ChunkAssumption DEF IInv, SweepIsGuarded, ReferencedByFile
<1>7. NoStrayMessages'
  BY <1>1 DEF IInv, TypeOK, NoStrayMessages, At, Return, Idle
<1>8. FileChunksAreReady' /\ RowsAreLive' /\ ExposedByFaults'
  BY DEF IInv, FileChunksAreReady, RowsAreLive, ExposedByFaults
<1> QED
  BY <1>4, <1>5, <1>6, <1>7, <1>8 DEF IInv

\* Closing a session protects less.
LEMMA CloseSessionStep ==
  ASSUME IInv, TypeOK', NEW u \in Uploads, CloseSession(u)
  PROVE  IInv'
<1>1. FileChunksAreReady' /\ CallsAreGuarded' /\ RowsAreLive'
      /\ NoStrayMessages' /\ ExposedByFaults'
  BY DEF CloseSession, rowVars, fileVars, Open, IInv, FileChunksAreReady, CallsAreGuarded,
       RowsAreLive, NoStrayMessages, ExposedByFaults, CallGuarded, RowsOf, At
<1>2. PartsHaveRows'
  BY DEF CloseSession, rowVars, IInv, TypeOK, PartsHaveRows
<1>3. SweepIsGuarded'
  BY DEF CloseSession, rowVars, fileVars, IInv, TypeOK, SweepIsGuarded, ReferencedByFile,
         ReferencedByPart, Open
<1> QED
  BY <1>1, <1>2, <1>3 DEF IInv

\* Reading chunks back changes nothing.
LEMMA VerifyHashStep ==
  ASSUME IInv, TypeOK', NEW u \in Uploads, VerifyHash(u)
  PROVE  IInv'
<1>1. FileChunksAreReady' /\ PartsHaveRows' /\ CallsAreGuarded' /\ SweepIsGuarded' /\ RowsAreLive'
      /\ NoStrayMessages' /\ ExposedByFaults'
  BY DEF VerifyHash, rowVars, fileVars, IInv, FileChunksAreReady, PartsHaveRows, CallsAreGuarded,
       SweepIsGuarded, RowsAreLive, NoStrayMessages, ExposedByFaults, CallGuarded, RowsOf,
            ReferencedByFile, ReferencedByPart, Open, At
<1> QED
  BY <1>1 DEF IInv

\* Ageing makes rows eligible, no more.
LEMMA AgeStep ==
  ASSUME IInv, TypeOK', NEW m \in Messages, Age(m)
  PROVE  IInv'
<1>1. FileChunksAreReady' /\ PartsHaveRows' /\ CallsAreGuarded' /\ SweepIsGuarded' /\ RowsAreLive'
      /\ NoStrayMessages' /\ ExposedByFaults'
  BY DEF Age, sessVars, fileVars, IInv, FileChunksAreReady, PartsHaveRows, CallsAreGuarded,
       SweepIsGuarded, RowsAreLive, NoStrayMessages, ExposedByFaults, CallGuarded, RowsOf,
            ReferencedByFile, ReferencedByPart, Open, At
<1> QED
  BY <1>1 DEF IInv

\* A call starts with nothing in hand.
LEMMA PutPartStep ==
  ASSUME IInv, TypeOK', NEW c \in Callers, NEW u \in Uploads, NEW i \in Parts, NEW d \in Digests,
       PutPart(c, u, i, d)
  PROVE  IInv'
<1>1. FileChunksAreReady' /\ PartsHaveRows' /\ SweepIsGuarded' /\ RowsAreLive' /\ ExposedByFaults'
  BY DEF PutPart, rowVars, sessVars, fileVars, IInv, FileChunksAreReady, PartsHaveRows,
       SweepIsGuarded, RowsAreLive, ExposedByFaults, ReferencedByFile, ReferencedByPart, Open
<1>2. CallsAreGuarded'
  BY DEF PutPart, rowVars, IInv, TypeOK, CallsAreGuarded, CallGuarded, RowsOf
<1>3. NoStrayMessages'
  BY DEF PutPart, rowVars, fileVars, IInv, TypeOK, NoStrayMessages, At, Idle
<1> QED
  BY <1>1, <1>2, <1>3 DEF IInv

\* A digest lock is taken when nobody holds it.
LEMMA LockDigestStep ==
  ASSUME IInv, TypeOK', NEW c \in Callers, LockDigest(c)
  PROVE  IInv'
<1>1. FileChunksAreReady' /\ PartsHaveRows' /\ RowsAreLive' /\ ExposedByFaults'
  BY DEF LockDigest, rowVars, sessVars, fileVars, IInv, FileChunksAreReady, PartsHaveRows,
       RowsAreLive, ExposedByFaults
<1>2. CallsAreGuarded'
  BY CallShape, ChunkAssumption
     DEF LockDigest, At, Goto, rowVars, IInv, TypeOK, CallsAreGuarded, CallGuarded, RowsOf,
          Searching
<1>3. SweepIsGuarded'
  BY SweepShape, ChunkAssumption
     DEF LockDigest, rowVars, sessVars, fileVars, IInv, TypeOK, SweepIsGuarded, ReferencedByFile,
         ReferencedByPart, Open
<1>4. NoStrayMessages'
  BY DEF LockDigest, At, Goto, rowVars, fileVars, IInv, TypeOK, NoStrayMessages
<1> QED
  BY <1>1, <1>2, <1>3, <1>4 DEF IInv

\* A message posted is new, so no row leads to it.
LEMMA PostStep ==
  ASSUME IInv, TypeOK', NEW c \in Callers, NEW m \in Messages, Post(c, m)
  PROVE  IInv'
<1>1. FileChunksAreReady' /\ PartsHaveRows' /\ ExposedByFaults'
  BY DEF Post, rowVars, sessVars, fileVars, Posted, IInv, FileChunksAreReady, PartsHaveRows,
       ExposedByFaults
<1>2. CallsAreGuarded'
  BY CallShape DEF Post, Posted, At, rowVars, IInv, TypeOK, CallsAreGuarded, CallGuarded, RowsOf,
     Searching, Located
<1>3. SweepIsGuarded'
  BY DEF Post, Posted, rowVars, sessVars, fileVars, IInv, TypeOK, SweepIsGuarded, ReferencedByFile,
         ReferencedByPart, Open
<1>4. RowsAreLive'
  BY DEF Post, Posted, rowVars, IInv, TypeOK, RowsAreLive
<1>5. NoStrayMessages'
  <2>1. call[c] \in Searching /\ call[c].pc = "post"
    BY CallShape DEF Post, Posted, At, IInv
  <2>2. /\ call'[c].pc = "register" /\ call'[c].m = m
        /\ \A o \in Callers \ {c} : call'[o] = call[o]
    BY <2>1 DEF Post, IInv, TypeOK, Searching
  <2>3. \A n \in Messages \ {m} : msg'[n] = msg[n]
    BY DEF Post, Posted, IInv, TypeOK
  <2> SUFFICES ASSUME faults = 0, \A f \in Files : file[f] # "purged",
                      NEW n \in Messages, msg'[n] = "live"
               PROVE  \/ chunk'[n] # "none"
                      \/ \E o \in Callers : At(o, "register")' /\ call'[o].m = n
    BY DEF Post, fileVars, NoStrayMessages
  <2>4. CASE n = m
    BY <2>2, <2>4 DEF At
  <2>5. CASE n # m
    <3>1. \/ chunk[n] # "none"
          \/ \E o \in Callers : At(o, "register") /\ call[o].m = n
      BY <2>3, <2>5 DEF IInv, NoStrayMessages
    <3> QED
      BY <2>1, <2>2, <3>1 DEF Post, rowVars, At
  <2> QED
    BY <2>4, <2>5
<1> QED
  BY <1>1, <1>2, <1>3, <1>4, <1>5 DEF IInv

\* A message nobody knows of is a fault.
LEMMA PostUnansweredStep ==
  ASSUME IInv, TypeOK', NEW c \in Callers, NEW m \in Messages, PostUnanswered(c, m)
  PROVE  IInv'
<1>1. FileChunksAreReady' /\ PartsHaveRows'
  BY DEF PostUnanswered, rowVars, sessVars, fileVars, Posted, IInv, FileChunksAreReady,
       PartsHaveRows
<1>2. CallsAreGuarded'
  BY DEF PostUnanswered, Posted, rowVars, IInv, TypeOK, CallsAreGuarded, CallGuarded, RowsOf
<1>3. SweepIsGuarded'
  BY DEF PostUnanswered, Posted, rowVars, sessVars, fileVars, IInv, TypeOK, SweepIsGuarded,
         ReferencedByFile, ReferencedByPart, Open
<1>4. RowsAreLive'
  BY DEF PostUnanswered, Posted, rowVars, IInv, TypeOK, RowsAreLive
<1>5. NoStrayMessages'
  BY DEF PostUnanswered, Fault, IInv, TypeOK, NoStrayMessages
<1>6. ExposedByFaults'
  BY DEF PostUnanswered, Fault, IInv, TypeOK, ExposedByFaults
<1> QED
  BY <1>1, <1>2, <1>3, <1>4, <1>5, <1>6 DEF IInv

\* A call that returns gives up its own lock only.
LEMMA ReturnStep ==
  ASSUME IInv, TypeOK', NEW c \in Callers, Return(c), call[c].pc # "idle",
         UNCHANGED <<msg, rowVars, sessVars, fileVars, gc, exposed>>
  PROVE  CallsAreGuarded' /\ SweepIsGuarded'
<1> USE DEF rowVars, sessVars, fileVars
<1>1. \A e \in Digests : lock[e] # c => lock'[e] = lock[e]
  BY CallShape, OthersKeepTheirLocks DEF IInv, Return
<1>2. CallsAreGuarded'
  BY <1>1, CallShape DEF IInv, TypeOK, CallsAreGuarded, CallGuarded, RowsOf, Return, Idle
<1>3. gc.pc # "idle" => DigestOf(gc.m) \in Digests
  BY SweepShape DEF IInv, Messages, DigestOf
<1>4. SweepIsGuarded'
  BY <1>1, <1>3, ChunkAssumption
     DEF IInv, SweepIsGuarded, ReferencedByFile, ReferencedByPart, Open, Idle
<1> QED
  BY <1>2, <1>4

\* A call that gives up has posted nothing it knows of.
LEMMA GiveUpStep ==
  ASSUME IInv, TypeOK', NEW c \in Callers, GiveUp(c)
  PROVE  IInv'
<1>1. FileChunksAreReady' /\ PartsHaveRows' /\ RowsAreLive' /\ ExposedByFaults'
  BY DEF GiveUp, rowVars, sessVars, fileVars, IInv, FileChunksAreReady, PartsHaveRows,
       SweepIsGuarded, RowsAreLive, ExposedByFaults, ReferencedByFile, ReferencedByPart, Open
<1>2. CallsAreGuarded' /\ SweepIsGuarded'
  BY ReturnStep DEF GiveUp, At
<1>3. NoStrayMessages'
  BY DEF GiveUp, Return, rowVars, fileVars, IInv, TypeOK, NoStrayMessages, At, Idle
<1> QED
  BY <1>1, <1>2, <1>3 DEF IInv

\* A call that is cut off leaves its message behind: a fault.
LEMMA AbortStep ==
  ASSUME IInv, TypeOK', NEW c \in Callers, Abort(c)
  PROVE  IInv'
<1>1. FileChunksAreReady' /\ PartsHaveRows' /\ RowsAreLive'
  BY DEF Abort, rowVars, sessVars, fileVars, IInv, FileChunksAreReady, PartsHaveRows,
       SweepIsGuarded, RowsAreLive, ReferencedByFile, ReferencedByPart, Open
<1>2. CallsAreGuarded' /\ SweepIsGuarded'
  BY ReturnStep DEF Abort, TypeOK, IInv, Calls, Searching, Located, Cleaning, Idle
<1>3. NoStrayMessages'
  BY DEF Abort, Fault, IInv, TypeOK, NoStrayMessages
<1>4. ExposedByFaults'
  BY DEF Abort, Fault, IInv, TypeOK, ExposedByFaults
<1> QED
  BY <1>1, <1>2, <1>3, <1>4 DEF IInv

\* Listing takes no lock and decides nothing.
LEMMA ListStep ==
  ASSUME IInv, TypeOK', NEW m \in Messages, List(m)
  PROVE  IInv'
<1>1. FileChunksAreReady' /\ PartsHaveRows' /\ CallsAreGuarded'
      /\ NoStrayMessages' /\ ExposedByFaults'
  BY DEF List, rowVars, sessVars, fileVars, IInv, FileChunksAreReady, PartsHaveRows,
       CallsAreGuarded, NoStrayMessages, ExposedByFaults, CallGuarded, RowsOf, At
<1>2. SweepIsGuarded'
  BY DEF List, SweepIsGuarded
<1>3. RowsAreLive'
  BY DEF List, rowVars, IInv, RowsAreLive, Idle
<1> QED
  BY <1>1, <1>2, <1>3 DEF IInv

\* The steps of the sweeper.
LEMMA SweepLockStep ==
  ASSUME IInv, TypeOK', SweepLock
  PROVE  IInv'
<1>1. FileChunksAreReady' /\ PartsHaveRows' /\ NoStrayMessages' /\ ExposedByFaults'
  BY DEF SweepLock, rowVars, sessVars, fileVars, IInv, FileChunksAreReady, PartsHaveRows,
       NoStrayMessages, ExposedByFaults, At
<1>2. CallsAreGuarded'
  BY CallShape, ChunkAssumption
     DEF SweepLock, rowVars, IInv, TypeOK, CallsAreGuarded, CallGuarded, RowsOf
<1>3. SweepIsGuarded'
  BY SweepShape DEF SweepLock, rowVars, IInv, TypeOK, SweepIsGuarded, Messages, DigestOf
<1>4. RowsAreLive'
  BY DEF SweepLock, rowVars, IInv, RowsAreLive
<1> QED
  BY <1>1, <1>2, <1>3, <1>4 DEF IInv

\* A sweep that is done with a candidate gives up its own lock only.
LEMMA SweepDoneStep ==
  ASSUME IInv, TypeOK', SweepDone, gc.pc # "idle", UNCHANGED <<call, msg>>,
         exposed \subseteq exposed',
         \A m \in Messages : chunk'[m] # "none" => chunk[m] # "none"
  PROVE  CallsAreGuarded' /\ SweepIsGuarded'
<1>1. \A e \in Digests : lock[e] # Sweeper => lock'[e] = lock[e]
  BY SweepShape, OthersKeepTheirLocks DEF IInv, SweepDone, Messages, DigestOf
<1>2. CallsAreGuarded'
  BY <1>1, CallShape, ChunkAssumption DEF IInv, TypeOK, CallsAreGuarded, CallGuarded, RowsOf
<1>3. SweepIsGuarded'
  BY DEF SweepDone, SweepIsGuarded, Idle
<1> QED
  BY <1>2, <1>3

\* Under the lock the candidate is read again, so it is unprotected from here on.
LEMMA SweepCheckStep ==
  ASSUME IInv, TypeOK', SweepCheck
  PROVE  IInv'
<1> USE DEF SweepCheck, rowVars, sessVars, fileVars
<1>1. FileChunksAreReady' /\ PartsHaveRows' /\ NoStrayMessages' /\ ExposedByFaults'
  BY DEF IInv, FileChunksAreReady, PartsHaveRows, NoStrayMessages, ExposedByFaults, At
<1>2. CASE Eligible(gc.m)
  <2>1. gc.pc = "check" /\ gc' = [gc EXCEPT !.pc = "delete"] /\ lock' = lock
    BY <1>2
  <2>2. gc'.pc = "delete" /\ gc'.m = gc.m
    BY <2>1, SweepShape DEF IInv
  <2>3. CallsAreGuarded'
    BY <2>1 DEF IInv, CallsAreGuarded, CallGuarded, RowsOf
  <2>4. SweepIsGuarded'
    BY <1>2, <2>1, <2>2 DEF IInv, SweepIsGuarded, Eligible, ReferencedByFile, ReferencedByPart, Open
  <2>5. RowsAreLive'
    BY <2>1, <2>2 DEF IInv, RowsAreLive
  <2> QED
    BY <1>1, <2>3, <2>4, <2>5 DEF IInv
<1>3. CASE ~Eligible(gc.m)
  <2>1. gc.pc = "check" /\ SweepDone
    BY <1>3
  <2>2. CallsAreGuarded' /\ SweepIsGuarded'
    BY <2>1, SweepDoneStep
  <2>3. RowsAreLive'
    BY <2>1 DEF IInv, RowsAreLive
  <2> QED
    BY <1>1, <2>2, <2>3 DEF IInv
<1> QED
  BY <1>2, <1>3

\* Deleting under the lock disturbs no call that may rely on the message.
LEMMA SweepDeleteStep ==
  ASSUME IInv, TypeOK', SweepDelete
  PROVE  IInv'
<1> USE DEF SweepDelete, rowVars, sessVars, fileVars
<1>1. gc.m \in Messages /\ gc.pc = "delete" /\ gc'.pc = "remove" /\ gc'.m = gc.m
  BY SweepShape DEF IInv
<1>2. \A m \in Messages : m # gc.m => msg'[m] = msg[m]
  BY DEF IInv, TypeOK
<1>3. msg'[gc.m] = "deleted"
  BY <1>1 DEF IInv, TypeOK
<1>4. CallsAreGuarded'
  <2> SUFFICES ASSUME NEW c \in Callers, call[c].pc = "register", call[c].d \notin exposed
               PROVE  msg'[call[c].m] = "live"
    BY DEF IInv, CallsAreGuarded, CallGuarded, RowsOf
  <2>1. call[c].m \in Messages /\ DigestOf(call[c].m) = call[c].d /\ lock[call[c].d] = c
    BY CallShape DEF IInv, CallsAreGuarded, CallGuarded, Located
  <2>2. call[c].m # gc.m
    BY <1>1, <2>1, ChunkAssumption DEF IInv, SweepIsGuarded
  <2> QED
    BY <1>2, <2>1, <2>2 DEF IInv, CallsAreGuarded, CallGuarded
<1>5. SweepIsGuarded'
  BY <1>1, <1>3 DEF IInv, SweepIsGuarded, ReferencedByFile, ReferencedByPart, Open
<1>6. RowsAreLive' /\ NoStrayMessages'
  BY <1>1, <1>2, <1>3 DEF IInv, RowsAreLive, NoStrayMessages, At
<1>7. FileChunksAreReady' /\ PartsHaveRows' /\ ExposedByFaults'
  BY DEF IInv, FileChunksAreReady, PartsHaveRows, ExposedByFaults
<1> QED
  BY <1>4, <1>5, <1>6, <1>7 DEF IInv

\* A sweep that is cut off after its delete exposes the digest.
LEMMA SweepDeleteUnansweredStep ==
  ASSUME IInv, TypeOK', SweepDeleteUnanswered
  PROVE  IInv'
<1> USE DEF SweepDeleteUnanswered, rowVars, sessVars, fileVars
<1>1. gc.m \in Messages /\ gc.pc = "delete" /\ DigestOf(gc.m) \in exposed'
  BY SweepShape DEF IInv
<1>2. \A m \in Messages : m # gc.m => msg'[m] = msg[m]
  BY DEF IInv, TypeOK
<1>3. \A e \in Digests : lock[e] # Sweeper => lock'[e] = lock[e]
  BY SweepShape, OthersKeepTheirLocks DEF IInv, SweepDone, Messages, DigestOf
<1>4. CallsAreGuarded'
  BY <1>1, <1>2, <1>3, CallShape, ChunkAssumption
     DEF IInv, CallsAreGuarded, CallGuarded, RowsOf, Located
<1>5. SweepIsGuarded'
  BY DEF SweepDone, SweepIsGuarded, Idle
<1>6. RowsAreLive'
  BY <1>1, <1>2 DEF IInv, RowsAreLive
<1>7. NoStrayMessages' /\ ExposedByFaults'
  BY DEF Fault, IInv, TypeOK, NoStrayMessages, ExposedByFaults
<1>8. FileChunksAreReady' /\ PartsHaveRows'
  BY DEF IInv, FileChunksAreReady, PartsHaveRows
<1> QED
  BY <1>4, <1>5, <1>6, <1>7, <1>8 DEF IInv

\* Nothing has come to protect the row while the lock was held.
LEMMA SweepRemoveStep ==
  ASSUME IInv, TypeOK', SweepRemove
  PROVE  IInv'
<1> USE DEF SweepRemove, fileVars
<1>1. gc.m \in Messages /\ gc.pc = "remove" /\ msg[gc.m] = "deleted"
  BY SweepShape DEF IInv, SweepIsGuarded
<1>2. \/ /\ chunk[gc.m] = "uncommitted" /\ ~ReferencedByFile(gc.m) /\ ~ReferencedByPart(gc.m, Open)
         /\ chunk' = [chunk EXCEPT ![gc.m] = "none"]
      \/ chunk' = chunk /\ DigestOf(gc.m) \in exposed
  BY DEF rowVars, IInv, SweepIsGuarded
<1>3. \A m \in Messages : chunk'[m] # "none" => chunk[m] = chunk'[m]
  BY <1>1, <1>2 DEF IInv, TypeOK
<1>4. \A m \in Messages \ {gc.m} : chunk'[m] = chunk[m]
  BY <1>2 DEF IInv, TypeOK
<1>5. CallsAreGuarded' /\ SweepIsGuarded'
  BY <1>1, <1>3, SweepDoneStep
<1>6. FileChunksAreReady'
  BY <1>1, <1>2, <1>4 DEF IInv, TypeOK, FileChunksAreReady, ReferencedByFile
<1>7. PartsHaveRows'
  <2> SUFFICES ASSUME NEW u \in Uploads, NEW i \in Parts, part'[u][i] # NoMessage
               PROVE  chunk'[part'[u][i]] # "none" /\ sess[u] # "none"
    BY DEF PartsHaveRows
  <2>1. part'[u][i] = part[u][i] /\ (part[u][i] = gc.m => u \in Open)
    BY DEF IInv, TypeOK
  <2>2. part[u][i] \in Messages
    BY <2>1 DEF IInv, TypeOK
  <2> QED
    BY <1>2, <1>4, <2>1, <2>2 DEF IInv, PartsHaveRows, ReferencedByPart
<1>8. RowsAreLive'
  BY <1>1, <1>2, <1>3, <1>4 DEF IInv, TypeOK, RowsAreLive
<1>9. NoStrayMessages' /\ ExposedByFaults'
  BY <1>1, <1>4 DEF IInv, NoStrayMessages, ExposedByFaults, At
<1> QED
  BY <1>5, <1>6, <1>7, <1>8, <1>9 DEF IInv

\* So does one that is cut off before it removes the row.
LEMMA SweepAbortStep ==
  ASSUME IInv, TypeOK', SweepAbort
  PROVE  IInv'
<1> USE DEF SweepAbort, rowVars, sessVars, fileVars
<1>1. CallsAreGuarded' /\ SweepIsGuarded'
  BY SweepDoneStep, SweepShape DEF IInv, TypeOK, Idle
<1>2. RowsAreLive'
  BY DEF IInv, RowsAreLive, SweepDone
<1>3. NoStrayMessages' /\ ExposedByFaults'
  BY DEF Fault, IInv, TypeOK, NoStrayMessages, ExposedByFaults
<1>4. FileChunksAreReady' /\ PartsHaveRows'
  BY DEF IInv, FileChunksAreReady, PartsHaveRows
<1> QED
  BY <1>1, <1>2, <1>3, <1>4 DEF IInv

\* Losing a lock exposes its digest.
LEMMA LoseLockStep ==
  ASSUME IInv, TypeOK', NEW d \in Digests, LoseLock(d)
  PROVE  IInv'
<1> USE DEF LoseLock, rowVars, sessVars, fileVars
<1>1. CallsAreGuarded'
  BY CallShape DEF IInv, TypeOK, CallsAreGuarded, CallGuarded, RowsOf
<1>2. SweepIsGuarded'
  BY SweepShape DEF IInv, TypeOK, SweepIsGuarded, ReferencedByFile, ReferencedByPart, Open,
     Messages, DigestOf
<1>3. NoStrayMessages' /\ ExposedByFaults'
  BY DEF Fault, IInv, TypeOK, NoStrayMessages, ExposedByFaults
<1>4. FileChunksAreReady' /\ PartsHaveRows' /\ RowsAreLive'
  BY DEF IInv, FileChunksAreReady, PartsHaveRows, RowsAreLive
<1> QED
  BY <1>1, <1>2, <1>3, <1>4 DEF IInv

\* The initial state satisfies the invariant.
LEMMA IInvInit == Init => IInv
  BY TypeInit DEF Init, IInv, FileChunksAreReady, PartsHaveRows, CallsAreGuarded, CallGuarded,
     SweepIsGuarded, RowsAreLive, NoStrayMessages, ExposedByFaults, Idle

\* Every step preserves the invariant.
LEMMA IInvStep == IInv /\ [Next]_vars => IInv'
<1> SUFFICES ASSUME IInv, [Next]_vars PROVE IInv'
  OBVIOUS
<1>1. TypeOK'
  BY TypeStep DEF IInv
<1>2. CASE UNCHANGED vars
  BY <1>2 DEF vars, rowVars, sessVars, fileVars, IInv, TypeOK, FileChunksAreReady, PartsHaveRows,
     CallsAreGuarded, CallGuarded, SweepIsGuarded, RowsAreLive, NoStrayMessages, ExposedByFaults,
     RowsOf, ReferencedByFile, ReferencedByPart, Open, At
<1>3. CASE Next
  BY <1>1, <1>3, CreateSessionStep, CloseSessionStep, VerifyHashStep, FinalizeStep, PurgeStep,
     AgeStep, PutPartStep, LockDigestStep, RecheckStep, FindStep, PostStep, PostUnansweredStep,
     RegisterStep, CleanStep, AttachStep, GiveUpStep, AbortStep, ListStep, SweepLockStep,
     SweepCheckStep, SweepDeleteStep, SweepDeleteUnansweredStep, SweepRemoveStep, SweepAbortStep,
     LoseLockStep
     DEF Next
<1> QED
  BY <1>2, <1>3

\* The inductive invariant holds for any number of calls, sessions, digests and
\* faults.
THEOREM SafetyCorrect == Spec => []IInv
  BY IInvInit, IInvStep, PTL DEF Spec

\* The chunks of committed files stay ready: finalizing, sharing, sweeping and
\* purging other files never take a row back from a file.
THEOREM FileChunksStayReady == Spec => []FileChunksAreReady
  BY SafetyCorrect, PTL DEF IInv

\* What is referenced has a row, and the sweeper does not have it.
LEMMA GuardedRowsAreLive == IInv => ReferencedBytesAreLive
<1> SUFFICES ASSUME IInv, NEW m \in Messages, DigestOf(m) \notin exposed,
                    ReferencedByFile(m) \/ ReferencedByPart(m, Open)
             PROVE  msg[m] = "live"
  BY DEF ReferencedBytesAreLive
<1>1. chunk[m] # "none"
  BY ChunkAssumption DEF IInv, TypeOK, FileChunksAreReady, PartsHaveRows, ReferencedByFile,
       ReferencedByPart, Open
<1>2. ~(gc.pc = "remove" /\ gc.m = m)
  BY DEF IInv, SweepIsGuarded
<1> QED
  BY <1>1, <1>2 DEF IInv, RowsAreLive

\* The bytes that a committed file or an open upload refers to stay on Discord
\* unless a sweep of their digest was cut short or its lock was lost: the digest
\* lock and the recheck under it (internal/chunks/lock.go, internal/orphangc) are
\* enough however many calls, sessions and digests there are.
THEOREM ReferencedBytesStayLive == Spec => []ReferencedBytesAreLive
  BY SafetyCorrect, GuardedRowsAreLive, PTL

\* Without faults and purges every message on Discord is known to a row or to the
\* call about to register it.
THEOREM NoMessageGoesStray == Spec => []NoStrayMessages
  BY SafetyCorrect, PTL DEF IInv
=============================================================================
