------------------------ MODULE StorageLedgerProofs ------------------------
(***************************************************************************)
(* Proofs about StorageLedger, for any number of nodes, sessions and names *)
(* and any sizes and quotas.                                               *)
(***************************************************************************)
EXTENDS StorageLedger, FiniteSetTheorems, TLAPS

-----------------------------------------------------------------------------
\* Sums.

\* A sum over a finite set is a sum of finitely many bytes.
LEMMA SumIsNat ==
  ASSUME NEW sz, NEW S, IsFiniteSet(S)
  PROVE  IsFiniteSet(ByteSet(sz, S)) /\ SumBytes(sz, S) \in Nat
<1>1. IsFiniteSet(1 .. MaxSize)
  BY LedgerAssumption, FS_Interval
<1>2. IsFiniteSet(S \X (1 .. MaxSize))
  BY <1>1, FS_Product
<1>3. ByteSet(sz, S) \in SUBSET (S \X (1 .. MaxSize))
  BY DEF ByteSet
<1>4. IsFiniteSet(ByteSet(sz, S))
  BY <1>2, <1>3, FS_Subset
<1> QED
  BY <1>4, FS_CardinalityType DEF SumBytes

\* A sum depends on the sizes of its members only.
LEMMA SumOfEqual ==
  ASSUME NEW sz, NEW tz, NEW S, \A x \in S : sz[x] = tz[x]
  PROVE  SumBytes(sz, S) = SumBytes(tz, S)
<1>1. ByteSet(sz, S) = ByteSet(tz, S)
  BY DEF ByteSet
<1> QED
  BY <1>1 DEF SumBytes

\* A sum grows by the size of a member that joins.
LEMMA SumWithMember ==
  ASSUME NEW sz, NEW S, IsFiniteSet(S), NEW x, x \notin S, sz[x] \in Sizes
  PROVE  SumBytes(sz, S \cup {x}) = SumBytes(sz, S) + sz[x]
<1> DEFINE own == {x} \X (1 .. sz[x])
<1>1. ByteSet(sz, S \cup {x}) = ByteSet(sz, S) \cup own
  BY LedgerAssumption DEF ByteSet, Sizes
<1>2. ByteSet(sz, S) \cap own = {}
  BY DEF ByteSet
<1>3. IsFiniteSet(own) /\ Cardinality(own) = sz[x]
  <2>1. sz[x] \in Nat
    BY LedgerAssumption DEF Sizes
  <2>2. IsFiniteSet(1 .. sz[x]) /\ Cardinality(1 .. sz[x]) = sz[x]
    BY <2>1, FS_Interval
  <2>3. IsFiniteSet({x}) /\ Cardinality({x}) = 1
    BY FS_Singleton
  <2>4. IsFiniteSet(own) /\ Cardinality(own) = Cardinality({x}) * Cardinality(1 .. sz[x])
    BY <2>2, <2>3, FS_Product
  <2> QED
    BY <2>1, <2>2, <2>3, <2>4
<1>4. IsFiniteSet(ByteSet(sz, S)) /\ Cardinality(ByteSet(sz, S)) \in Nat
  BY SumIsNat DEF SumBytes
<1>5. Cardinality(ByteSet(sz, S) \cup own)
        = Cardinality(ByteSet(sz, S)) + Cardinality(own) - Cardinality(ByteSet(sz, S) \cap own)
  BY <1>3, <1>4, FS_Union
<1> QED
  <2>1. Cardinality(ByteSet(sz, S) \cap own) = 0
    BY <1>2, FS_EmptySet
  <2>2. sz[x] \in Nat
    BY LedgerAssumption DEF Sizes
  <2>3. Cardinality(ByteSet(sz, S) \cup own) = Cardinality(ByteSet(sz, S)) + sz[x]
    BY <1>3, <1>4, <1>5, <2>1, <2>2
  <2> QED
    BY <1>1, <2>3 DEF SumBytes

\* The sums the transactions compute are naturals.
LEMMA DerivedAreNat ==
  /\ UsedBytes \in Nat
  /\ ReservedBytes \in Nat
  /\ \A n : ActiveSubtreeBytes(n) \in Nat
<1>1. IsFiniteSet(Files)
  BY LedgerAssumption, FS_Difference DEF Files
<1>2. IsFiniteSet(ActiveFiles) /\ \A n : IsFiniteSet(LiveSubtreeFiles(n))
  BY <1>1, FS_Subset DEF ActiveFiles, LiveSubtreeFiles
<1>3. IsFiniteSet(Open)
  BY LedgerAssumption, FS_Subset DEF Open
<1> QED
  BY <1>2, <1>3, SumIsNat DEF UsedBytes, ReservedBytes, ActiveSubtreeBytes

-----------------------------------------------------------------------------
\* Types.

\* The initial state is well typed.
LEMMA TypeInit == Init => TypeOK
<1> SUFFICES ASSUME Init PROVE TypeOK
  OBVIOUS
<1> USE LedgerAssumption DEF Init
<1>1. sess \in [Uploads -> Session]
  BY DEF NoSession, Session, Sizes
<1>2. treeTx \in TreeTx
  BY DEF TreeTx
<1>3. size \in [Files -> Sizes] /\ versions \in [Files -> SUBSET Sizes]
  BY DEF Sizes
<1> QED
  BY <1>1, <1>2, <1>3 DEF TypeOK

LEMMA CommitType ==
  ASSUME TypeOK, NEW u \in Uploads, NEW f \in Files, NEW delta \in Int, Commit(u, f, delta),
         reserved >= sess[u].reserved, used + delta >= 0
  PROVE  /\ size' \in [Files -> Sizes]
         /\ versions' \in [Files -> SUBSET Sizes]
         /\ sess' \in [Uploads -> Session]
         /\ used' \in Nat
         /\ reserved' \in Nat
         /\ UNCHANGED <<due, finalizing, treeTx, restoring, quota, raced>>
<1> USE LedgerAssumption DEF TypeOK, Commit
<1>1. sess[u] \in Session /\ sess[u].size \in Sizes /\ sess[u].reserved \in Nat
  BY DEF Session, Sizes
<1>2. size' \in [Files -> Sizes] /\ versions' \in [Files -> SUBSET Sizes]
  BY <1>1
<1>3. sess' = [sess EXCEPT ![u] = [[sess[u] EXCEPT !.status = "completed"] EXCEPT !.file = f]]
  OBVIOUS
<1>4. sess' \in [Uploads -> Session]
  BY <1>1, <1>3 DEF Session
<1> QED
  BY <1>1, <1>2, <1>4

\* Every step keeps the variables in their ranges.
LEMMA TypeStep == TypeOK /\ [Next]_vars => TypeOK'
<1> SUFFICES ASSUME TypeOK, [Next]_vars PROVE TypeOK'
  OBVIOUS
<1> USE LedgerAssumption DEF TypeOK, Files
<1>1. ASSUME NEW d \in Folders, NEW p \in Folders, NEW nm \in Names, CreateFolder(d, p, nm)
      PROVE  TypeOK'
  BY <1>1 DEF CreateFolder, fileVars, sessVars, userVars
<1>2. ASSUME NEW n \in Nodes, NEW nm \in Names, Rename(n, nm) PROVE TypeOK'
  BY <1>2 DEF Rename, fileVars, sessVars, userVars
<1>3. ASSUME NEW n \in Nodes, NEW p \in Folders, Move(n, p) PROVE TypeOK'
  BY <1>3 DEF Move, fileVars, sessVars, userVars
<1>4. ASSUME NEW n \in Nodes, TrashMeasure(n) PROVE TypeOK'
  BY <1>4, DerivedAreNat DEF TrashMeasure, TreeTx, treeVars, fileVars, sessVars, userVars
<1>5. CASE TrashCommit
  BY <1>5 DEF TrashCommit, TreeTx, NoTx, fileVars, sessVars
<1>6. ASSUME NEW n \in Nodes, NEW p \in Folders, NEW nm \in Names, RestoreMeasure(n, p, nm)
      PROVE  TypeOK'
  BY <1>6, DerivedAreNat DEF RestoreMeasure, TreeTx, treeVars, fileVars, sessVars, userVars
<1>7. CASE RestoreCommit
  BY <1>7 DEF RestoreCommit, TreeTx, NoTx, treeVars, fileVars, sessVars
<1>8. ASSUME NEW S \in SUBSET Nodes, PurgeAll(S) PROVE TypeOK'
  <2>1. sess' \in [Uploads -> Session]
    <3>1. [NoSession EXCEPT !.status = "gone"] \in Session
      BY DEF NoSession, Session, Sizes
    <3>2. ASSUME NEW u \in Uploads PROVE [sess[u] EXCEPT !.target = NoNode] \in Session
      BY DEF Session
    <3> QED
      BY <1>8, <3>1, <3>2 DEF PurgeAll
  <2>2. size' \in [Files -> Sizes] /\ versions' \in [Files -> SUBSET Sizes]
    BY <1>8 DEF PurgeAll, Sizes
  <2> QED
    BY <1>8, <2>1, <2>2 DEF PurgeAll, userVars
<1>9. ASSUME NEW u \in Uploads, NEW p \in Folders, NEW nm \in Names, NEW sz \in Sizes,
             NEW t \in Files \cup {NoNode}, Create(u, p, nm, sz, t)
      PROVE  TypeOK'
  BY <1>9 DEF Create, Reserve, Session, Sizes, treeVars, fileVars
<1>10. ASSUME NEW u \in Uploads, ExpiryPasses(u) PROVE TypeOK'
  BY <1>10 DEF ExpiryPasses, Open, treeVars, fileVars, userVars
<1>11. ASSUME NEW u \in Uploads, Cancel(u) PROVE TypeOK'
  BY <1>11 DEF Cancel, Close, Session, Sizes, treeVars, fileVars
<1>12. ASSUME NEW u \in Uploads, Expire(u) PROVE TypeOK'
  BY <1>12 DEF Expire, Close, Session, Sizes, treeVars, fileVars
<1>13. ASSUME NEW u \in Uploads, BeginFinalize(u) PROVE TypeOK'
  BY <1>13 DEF BeginFinalize, treeVars, fileVars, userVars
<1>14. ASSUME NEW u \in Uploads, NEW f \in Files, FinalizeNew(u, f) PROVE TypeOK'
  <2>1. sess[u].size \in Nat
    BY DEF Session, Sizes
  <2>2. reserved >= sess[u].reserved /\ used + sess[u].size >= 0 /\ Commit(u, f, sess[u].size)
    BY <1>14, <2>1 DEF FinalizeNew, FinalizeReady
  <2> QED
    BY <1>14, <2>1, <2>2, CommitType DEF FinalizeNew, Session
<1>15. ASSUME NEW u \in Uploads, FinalizeVersion(u) PROVE TypeOK'
  <2> DEFINE f == sess[u].target
             delta == sess[u].size - size[f]
  <2>1. f \in Files /\ delta \in Int
    BY <1>15 DEF FinalizeVersion, Session, Sizes
  <2>2. reserved >= sess[u].reserved /\ used + delta >= 0 /\ Commit(u, f, delta)
    BY <1>15 DEF FinalizeVersion, FinalizeReady
  <2> QED
    BY <1>15, <2>1, <2>2, CommitType DEF FinalizeVersion, treeVars
<1>16. ASSUME NEW f \in Files, NEW sz \in Sizes, AuthorizeRestoreVersion(f, sz) PROVE TypeOK'
  BY <1>16 DEF AuthorizeRestoreVersion, treeVars, fileVars, sessVars, userVars
<1>17. ASSUME NEW f \in Files, NEW sz \in Sizes, RestoreVersion(f, sz) PROVE TypeOK'
  <2>1. size' \in [Files -> Sizes] /\ used' \in Nat /\ raced' \in BOOLEAN
    <3>1. CASE UNCHANGED <<size, used, raced>>
      BY <3>1
    <3>2. CASE ~UNCHANGED <<size, used, raced>>
      <4>1. /\ used >= size[f]
            /\ size' = [size EXCEPT ![f] = sz]
            /\ used' = used - size[f] + sz
            /\ raced' \in BOOLEAN
        BY <1>17, <3>2 DEF RestoreVersion
      <4> QED
        BY <4>1 DEF Sizes
    <3> QED
      BY <3>1, <3>2
  <2> QED
    BY <1>17, <2>1 DEF RestoreVersion, treeVars, sessVars
<1>18. CASE Reconcile
  BY <1>18, DerivedAreNat DEF Reconcile, treeVars, fileVars, sessVars
<1>19. ASSUME NEW q \in Quotas \cup {Unlimited}, SetQuota(q) PROVE TypeOK'
  BY <1>19 DEF SetQuota, treeVars, fileVars, sessVars
<1>20. CASE UNCHANGED vars
  BY <1>20 DEF vars, treeVars, fileVars, sessVars, userVars
<1>21. ASSUME NEW n \in Nodes, Purge(n) PROVE TypeOK'
  BY <1>8, <1>21 DEF Purge
<1>22. CASE EmptyTrash
  BY <1>8, <1>22 DEF EmptyTrash, TrashRoots
<1>23. ASSUME NEW D \in SUBSET (Folders \ {Root}), NEW p \in Folders, NEW up \in [D -> Folders],
              NEW nm \in [D -> Names], CreateFolderBatch(D, p, up, nm)
       PROVE  TypeOK'
  BY <1>23 DEF CreateFolderBatch, fileVars, sessVars, userVars
<1> QED
  BY <1>1, <1>2, <1>3, <1>4, <1>5, <1>6, <1>7, <1>9, <1>10, <1>11, <1>12, <1>13, <1>14, <1>15,
     <1>16, <1>17, <1>18, <1>19, <1>20, <1>21, <1>22, <1>23
     DEF Next

\* The columns stay in their ranges; in particular no operation takes a counter
\* of the users row below zero.
THEOREM TypeCorrect == Spec => []TypeOK
  BY TypeInit, TypeStep, PTL DEF Spec

-----------------------------------------------------------------------------
\* Reservations.

\* The reserved counter and its sum, with the types the steps need.
ReservedInv == TypeOK /\ ReservedIsDerived

\* The sum depends on the reservations of the open sessions only.
LEMMA SameOpenSameSum ==
  ASSUME TypeOK, TypeOK', Open' = Open, \A u \in Open : sess'[u].reserved = sess[u].reserved
  PROVE  ReservedBytes' = ReservedBytes
<1>1. \A u \in Open : Reservations'[u] = Reservations[u]
  BY DEF Reservations, Open
<1>2. SumBytes(Reservations', Open) = SumBytes(Reservations, Open)
  BY <1>1, SumOfEqual
<1> QED
  BY <1>2 DEF ReservedBytes

\* Opening a session adds its reservation to the sum.
LEMMA OpeningAdds ==
  ASSUME TypeOK, TypeOK', NEW u \in Uploads, u \notin Open, Open' = Open \cup {u},
         \A v \in Open : sess'[v] = sess[v]
  PROVE  ReservedBytes' = ReservedBytes + sess'[u].reserved
<1>1. IsFiniteSet(Open)
  BY LedgerAssumption, FS_Subset DEF Open
<1>2. Reservations'[u] = sess'[u].reserved /\ Reservations'[u] \in Sizes
  BY DEF Reservations, TypeOK, Session
<1>3. SumBytes(Reservations', Open \cup {u}) = SumBytes(Reservations', Open) + sess'[u].reserved
  BY <1>1, <1>2, SumWithMember
<1>4. \A v \in Open : Reservations'[v] = Reservations[v]
  BY DEF Reservations, Open
<1>5. SumBytes(Reservations', Open) = SumBytes(Reservations, Open)
  BY <1>4, SumOfEqual
<1> QED
  BY <1>3, <1>5 DEF ReservedBytes

\* Closing a session takes its reservation off the sum.
LEMMA ClosingSubtracts ==
  ASSUME TypeOK, TypeOK', NEW u \in Open, Open' = Open \ {u},
         \A v \in Open \ {u} : sess'[v] = sess[v]
  PROVE  ReservedBytes' = ReservedBytes - sess[u].reserved
<1>1. IsFiniteSet(Open \ {u})
  BY LedgerAssumption, FS_Subset, FS_Difference DEF Open
<1>2. Reservations[u] = sess[u].reserved /\ Reservations[u] \in Sizes
  BY DEF Reservations, TypeOK, Session, Open
<1>3. SumBytes(Reservations, (Open \ {u}) \cup {u})
        = SumBytes(Reservations, Open \ {u}) + sess[u].reserved
  BY <1>1, <1>2, SumWithMember
<1>4. (Open \ {u}) \cup {u} = Open
  OBVIOUS
<1>5. \A v \in Open \ {u} : Reservations'[v] = Reservations[v]
  BY DEF Reservations, Open
<1>6. SumBytes(Reservations', Open \ {u}) = SumBytes(Reservations, Open \ {u})
  BY <1>5, SumOfEqual
<1>7. SumBytes(Reservations, Open \ {u}) \in Nat /\ sess[u].reserved \in Nat
  BY <1>1, <1>2, SumIsNat, LedgerAssumption DEF Sizes
<1>8. ReservedBytes = SumBytes(Reservations, Open \ {u}) + sess[u].reserved
  BY <1>3, <1>4 DEF ReservedBytes
<1>9. ReservedBytes' = SumBytes(Reservations, Open \ {u})
  BY <1>6 DEF ReservedBytes
<1> QED
  BY <1>7, <1>8, <1>9

\* The steps that touch neither the counter nor a session leave both in step.
LEMMA ReservedUntouched ==
  ASSUME ReservedInv, TypeOK', UNCHANGED <<sess, reserved>>
  PROVE  ReservedIsDerived'
<1>1. ReservedBytes' = ReservedBytes
  BY SameOpenSameSum DEF ReservedInv, Open
<1> QED
  BY <1>1 DEF ReservedInv, ReservedIsDerived

\* Every step keeps the counter equal to the sum.
LEMMA ReservedStep == ReservedInv /\ [Next]_vars => ReservedInv'
<1> SUFFICES ASSUME ReservedInv, [Next]_vars PROVE ReservedIsDerived'
  BY TypeStep DEF ReservedInv
<1>0. TypeOK /\ TypeOK' /\ reserved = ReservedBytes
  BY TypeStep DEF ReservedInv, ReservedIsDerived
<1> USE DEF ReservedIsDerived
<1>1. ASSUME NEW u \in Uploads, NEW p \in Folders, NEW nm \in Names, NEW sz \in Sizes,
             NEW t \in Files \cup {NoNode}, Create(u, p, nm, sz, t)
      PROVE  ReservedIsDerived'
  <2>1. /\ u \notin Open /\ Open' = Open \cup {u}
        /\ \A v \in Open : sess'[v] = sess[v]
        /\ reserved' = reserved + sess'[u].reserved
    BY <1>0, <1>1 DEF Create, Open, TypeOK
  <2> QED
    BY <1>0, <2>1, OpeningAdds
<1>2. ASSUME NEW u \in Open, sess'[u].status # "open", \A v \in Open \ {u} : sess'[v] = sess[v],
             \A v \in Uploads \ Open : sess'[v] = sess[v], reserved' = reserved - sess[u].reserved
      PROVE  ReservedIsDerived'
  <2>1. Open' = Open \ {u}
    BY <1>2 DEF Open
  <2> QED
    BY <1>0, <1>2, <2>1, ClosingSubtracts
<1>3. ASSUME NEW u \in Uploads, Cancel(u) \/ Expire(u) PROVE ReservedIsDerived'
  BY <1>0, <1>2, <1>3 DEF Cancel, Expire, Close, Open, TypeOK, Session
<1>4. ASSUME NEW u \in Uploads, NEW f \in Files, FinalizeNew(u, f) PROVE ReservedIsDerived'
  BY <1>0, <1>2, <1>4 DEF FinalizeNew, FinalizeReady, Commit, Open, TypeOK, Session
<1>5. ASSUME NEW u \in Uploads, FinalizeVersion(u) PROVE ReservedIsDerived'
  BY <1>0, <1>2, <1>5 DEF FinalizeVersion, FinalizeReady, Commit, Open, TypeOK, Session
<1>6. ASSUME NEW S \in SUBSET Nodes, PurgeAll(S) PROVE ReservedIsDerived'
  <2>1. Open' = Open /\ \A u \in Open : sess'[u].reserved = sess[u].reserved
    BY <1>0, <1>6 DEF PurgeAll, Affected, Open, TypeOK, NoSession, Session
  <2>2. reserved' = reserved
    BY <1>6 DEF PurgeAll, userVars
  <2> QED
    BY <1>0, <2>1, <2>2, SameOpenSameSum
<1>7. CASE Reconcile
  <2>1. ReservedBytes' = ReservedBytes
    BY <1>0, <1>7, SameOpenSameSum DEF Reconcile, sessVars, Open
  <2> QED
    BY <1>7, <2>1 DEF Reconcile
<1>8. CASE UNCHANGED <<sess, reserved>>
  BY <1>0, <1>8, ReservedUntouched
<1>9. ASSUME NEW n \in Nodes, Purge(n) PROVE ReservedIsDerived'
  BY <1>6, <1>9 DEF Purge
<1>10. CASE EmptyTrash
  BY <1>6, <1>10 DEF EmptyTrash, TrashRoots
<1> QED
  BY <1>1, <1>3, <1>4, <1>5, <1>7, <1>8, <1>9, <1>10
     DEF Next, vars, CreateFolder, CreateFolderBatch, Rename, Move, TrashMeasure, TrashCommit,
         RestoreMeasure, RestoreCommit, ExpiryPasses, BeginFinalize, AuthorizeRestoreVersion,
         RestoreVersion, SetQuota, sessVars, userVars

\* No reservation is lost or released twice, whatever order creations,
\* cancellations, expiries, concurrent finalizations and purges commit in.
THEOREM ReservedStaysDerived == Spec => []ReservedIsDerived
<1>1. Init => ReservedInv
  <2> SUFFICES ASSUME Init PROVE ReservedInv
    OBVIOUS
  <2>1. Open = {}
    BY DEF Init, Open, NoSession
  <2>2. ByteSet(Reservations, {}) = {}
    BY DEF ByteSet
  <2> QED
    BY <2>1, <2>2, TypeInit, FS_EmptySet
       DEF ReservedInv, ReservedIsDerived, ReservedBytes, SumBytes, Init
<1>2. ReservedInv => ReservedIsDerived
  BY DEF ReservedInv
<1> QED
  BY <1>1, <1>2, ReservedStep, PTL DEF Spec

-----------------------------------------------------------------------------
\* Quota, closed sessions, folders of open sessions.

\* What a step may do to a session that is no longer open.
SessionStaysClosed(u) ==
    \/ sess'[u].status = "gone"
    \/ sess'[u].status = sess[u].status /\ sess'[u].file = sess[u].file

\* A purge removes a session or clears its target, no more.
LEMMA PurgeKeepsSessions ==
  ASSUME TypeOK, NEW S, PurgeAll(S), NEW u \in Uploads
  PROVE  SessionStaysClosed(u)
  BY DEF PurgeAll, SessionStaysClosed, TypeOK, Session, NoSession

\* A session closes once: no cancellation, expiry or finalization that comes
\* late changes the outcome, however the calls race.
THEOREM SessionsCloseOnceAlways == Spec => SessionsCloseOnce
<1>1. ASSUME TypeOK, [Next]_vars, NEW u \in Uploads, sess[u].status \notin {"none", "open"}
      PROVE  SessionStaysClosed(u)
  <2>1. CASE sess' = sess
    BY <2>1 DEF SessionStaysClosed
  <2>2. ASSUME NEW v \in Uploads, sess[v].status \in {"none", "open"},
               NEW r, sess' = [sess EXCEPT ![v] = r]
        PROVE  SessionStaysClosed(u)
    BY <1>1, <2>2 DEF SessionStaysClosed, TypeOK
  <2>3. ASSUME NEW v \in Uploads, NEW p \in Folders, NEW nm \in Names, NEW sz \in Sizes,
               NEW t \in Files \cup {NoNode}, Create(v, p, nm, sz, t)
        PROVE  SessionStaysClosed(u)
    BY <2>2, <2>3 DEF Create
  <2>4. ASSUME NEW v \in Uploads, Cancel(v) \/ Expire(v) PROVE SessionStaysClosed(u)
    BY <2>2, <2>4 DEF Cancel, Expire, Close, Open
  <2>5. ASSUME NEW v \in Uploads, NEW f \in Files, FinalizeNew(v, f) PROVE SessionStaysClosed(u)
    BY <1>1, <2>5 DEF FinalizeNew, FinalizeReady, Commit, Open, SessionStaysClosed, TypeOK
  <2>6. ASSUME NEW v \in Uploads, FinalizeVersion(v) PROVE SessionStaysClosed(u)
    BY <1>1, <2>6 DEF FinalizeVersion, FinalizeReady, Commit, Open, SessionStaysClosed, TypeOK
  <2>7. ASSUME NEW n \in Nodes, Purge(n) PROVE SessionStaysClosed(u)
    BY <1>1, <2>7, PurgeKeepsSessions DEF Purge
  <2>8. CASE EmptyTrash
    BY <1>1, <2>8, PurgeKeepsSessions DEF EmptyTrash
  <2> QED
    BY <1>1, <2>1, <2>3, <2>4, <2>5, <2>6, <2>7, <2>8
       DEF Next, vars, CreateFolder, CreateFolderBatch, Rename, Move, TrashMeasure, TrashCommit,
           RestoreMeasure, RestoreCommit, ExpiryPasses, BeginFinalize, AuthorizeRestoreVersion,
           RestoreVersion, Reconcile, SetQuota, sessVars
<1>2. TypeOK /\ [Next]_vars =>
        [\A u \in Uploads : sess[u].status \notin {"none", "open"} =>
           \/ sess'[u].status = "gone"
           \/ sess'[u].status = sess[u].status /\ sess'[u].file = sess[u].file]_vars
  BY <1>1 DEF SessionStaysClosed
<1> QED
  BY <1>2, TypeCorrect, PTL DEF Spec, SessionsCloseOnce

\* A step that adds to what an owner uses and reserves ends within the quota.
WithinQuota ==
    \/ used' + reserved' <= used + reserved
    \/ quota' = Unlimited
    \/ used' + reserved' <= quota'
    \/ Reconcile

\* No operation other than reconciliation takes an owner past the quota:
\* finalizing adds no more than was reserved, and creating, restoring and
\* version restores check used and reserved together.
THEOREM GrowthAlwaysWithinQuota == Spec => GrowthStaysWithinQuota
<1>1. ASSUME TypeOK, [Next]_vars PROVE WithinQuota
  <2> USE <1>1, LedgerAssumption DEF TypeOK
  <2>1. ASSUME used' = used, reserved' = reserved PROVE WithinQuota
    BY <2>1 DEF WithinQuota
  <2>2. CASE TrashCommit
    BY <2>2 DEF TrashCommit, TreeTx, NoTx, WithinQuota
  <2>3. CASE RestoreCommit
    <3>1. treeTx.bytes \in Nat
      BY <2>3 DEF RestoreCommit, TreeTx, NoTx
    <3> QED
      BY <2>1, <2>3, <3>1 DEF RestoreCommit, QuotaAllows, WithinQuota
  <2>4. ASSUME NEW u \in Uploads, NEW p \in Folders, NEW nm \in Names, NEW sz \in Sizes,
               NEW t \in Files \cup {NoNode}, Create(u, p, nm, sz, t)
        PROVE  WithinQuota
    <3>1. PICK r \in Nat : /\ reserved' = reserved + r /\ used' = used /\ quota' = quota
                          /\ QuotaAllows(quota, used, reserved, r)
      BY <2>4 DEF Create, Reserve, Sizes
    <3> QED
      BY <3>1 DEF QuotaAllows, WithinQuota
  <2>5. ASSUME NEW u \in Uploads, Cancel(u) \/ Expire(u) PROVE WithinQuota
    BY <2>5 DEF Cancel, Expire, Close, Session, Sizes, WithinQuota
  <2>6. ASSUME NEW u \in Uploads, NEW f \in Files, FinalizeNew(u, f) PROVE WithinQuota
    BY <2>6 DEF FinalizeNew, FinalizeReady, Commit, Session, Sizes, WithinQuota
  <2>7. ASSUME NEW u \in Uploads, FinalizeVersion(u) PROVE WithinQuota
    <3>1. size[sess[u].target] \in Nat
      BY <2>7 DEF FinalizeVersion, Session, Sizes
    <3> QED
      BY <2>7, <3>1 DEF FinalizeVersion, FinalizeReady, Commit, Session, Sizes, WithinQuota
  <2>8. ASSUME NEW f \in Files, NEW sz \in Sizes, RestoreVersion(f, sz) PROVE WithinQuota
    <3>1. CASE UNCHANGED <<size, used, raced>>
      BY <2>1, <2>8, <3>1 DEF RestoreVersion
    <3>2. CASE ~UNCHANGED <<size, used, raced>>
      <4>1. /\ used' = used - size[f] + sz /\ reserved' = reserved /\ quota' = quota
            /\ QuotaAllows(quota, used - size[f] + sz, reserved, 0)
        BY <2>8, <3>2 DEF RestoreVersion
      <4> QED
        BY <4>1 DEF QuotaAllows, WithinQuota
    <3> QED
      BY <3>1, <3>2
  <2>9. CASE Reconcile
    BY <2>9 DEF WithinQuota
  <2>10. ASSUME NEW n \in Nodes, Purge(n) PROVE WithinQuota
    BY <2>1, <2>10 DEF Purge, PurgeAll, userVars
  <2>11. CASE EmptyTrash
    BY <2>1, <2>11 DEF EmptyTrash, PurgeAll, userVars
  <2> QED
    BY <2>1, <2>2, <2>3, <2>4, <2>5, <2>6, <2>7, <2>8, <2>9, <2>10, <2>11
       DEF Next, vars, CreateFolder, CreateFolderBatch, Rename, Move, TrashMeasure,
             RestoreMeasure, ExpiryPasses,
           BeginFinalize, AuthorizeRestoreVersion, SetQuota, userVars
<1>2. TypeOK /\ [Next]_vars =>
        [\/ used' + reserved' <= used + reserved
         \/ quota' = Unlimited
         \/ used' + reserved' <= quota'
         \/ Reconcile]_vars
  BY <1>1 DEF WithinQuota
<1> QED
  BY <1>2, TypeCorrect, PTL DEF Spec, GrowthStaysWithinQuota

\* A node is on its own chain.
LEMMA OnOwnChain ==
  ASSUME NEW up, NEW n \in Nodes
  PROVE  n \in Chain(up, n)
  BY DEF Chain

\* The invariant, and what its steps need of the trash or restore under way: it
\* works on a node that exists.
FolderInv ==
    /\ TypeOK
    /\ OpenSessionKeepsFolder
    /\ ~TreeFree => row[treeTx.node] \in {"active", "trashed"}
    /\ \A u \in Open : sess[u].parent \in Folders

\* Every step keeps the folder of an open session.
LEMMA FolderStep == FolderInv /\ [Next]_vars => FolderInv'
<1> SUFFICES ASSUME FolderInv, [Next]_vars
             PROVE  /\ OpenSessionKeepsFolder'
                    /\ (~TreeFree => row[treeTx.node] \in {"active", "trashed"})'
                    /\ (\A u \in Open : sess[u].parent \in Folders)'
  BY TypeStep DEF FolderInv
<1> DEFINE Kept == /\ OpenSessionKeepsFolder'
                   /\ (~TreeFree => row[treeTx.node] \in {"active", "trashed"})'
                   /\ (\A u \in Open : sess[u].parent \in Folders)'
<1> USE LedgerAssumption DEF FolderInv, OpenSessionKeepsFolder, TypeOK
<1>1. ASSUME \A n \in Nodes : row[n] \in {"active", "trashed"} => row'[n] \in {"active", "trashed"},
             \A u \in Uploads : u \in Open' => u \in Open /\ sess'[u].parent = sess[u].parent,
             treeTx' \in {treeTx, NoTx}
      PROVE  Kept
  BY <1>1 DEF TreeFree, TreeTx, Open, NoTx
<1>2. ASSUME NEW u \in Uploads, NEW p \in Folders, NEW nm \in Names, NEW sz \in Sizes,
             NEW t \in Files \cup {NoNode}, Create(u, p, nm, sz, t)
      PROVE  Kept
  <2>1. row[p] = "active"
    BY <1>2, OnOwnChain DEF Create, Active
  <2>2. \A v \in Open' : v = u \/ (v \in Open /\ sess'[v] = sess[v])
    BY <1>2 DEF Create, Open
  <2>3. sess'[u].parent = p /\ UNCHANGED <<row, treeTx>>
    BY <1>2 DEF Create, treeVars
  <2> QED
    BY <2>1, <2>2, <2>3 DEF TreeFree
<1>3. ASSUME NEW n \in Nodes, TrashMeasure(n) PROVE Kept
  BY <1>3, OnOwnChain DEF TrashMeasure, Active, TreeFree, treeVars, sessVars, Open
<1>4. ASSUME NEW n \in Nodes, NEW p \in Folders, NEW nm \in Names, RestoreMeasure(n, p, nm)
      PROVE  Kept
  BY <1>4 DEF RestoreMeasure, TreeFree, treeVars, sessVars, Open
<1>5. ASSUME NEW S \in SUBSET Nodes, PurgeAll(S) PROVE Kept
  <2> DEFINE gone == UNION {Subtree(parent, n) : n \in S}
  <2>1. \A u \in Open : sess[u].parent \notin gone
    BY <1>5 DEF PurgeAll, Affected, Open
  <2>2. \A u \in Uploads : u \in Open' => u \in Open /\ sess'[u].parent = sess[u].parent
    BY <1>5 DEF PurgeAll, Open, Session, NoSession
  <2>3. \A n \in Nodes \ gone : row'[n] = row[n]
    BY <1>5 DEF PurgeAll
  <2>4. treeTx' = treeTx /\ TreeFree
    BY <1>5 DEF PurgeAll
  <2> QED
    BY <2>1, <2>2, <2>3, <2>4 DEF TreeFree, Open
<1>6. ASSUME NEW u \in Uploads, Cancel(u) \/ Expire(u) PROVE Kept
  BY <1>1, <1>6 DEF Cancel, Expire, Close, Open, Session, treeVars
<1>7. ASSUME NEW u \in Uploads, NEW f \in Files, FinalizeNew(u, f) PROVE Kept
  BY <1>1, <1>7 DEF FinalizeNew, FinalizeReady, Commit, Open
<1>8. ASSUME NEW u \in Uploads, FinalizeVersion(u) PROVE Kept
  BY <1>1, <1>8 DEF FinalizeVersion, FinalizeReady, Commit, Open, treeVars
<1>9. CASE TrashCommit
  BY <1>1, <1>9 DEF TrashCommit, sessVars, Open
<1>10. CASE RestoreCommit
  BY <1>1, <1>10 DEF RestoreCommit, treeVars, sessVars, Open
<1>11. ASSUME NEW d \in Folders, NEW p \in Folders, NEW nm \in Names, CreateFolder(d, p, nm)
       PROVE  Kept
  BY <1>1, <1>11 DEF CreateFolder, sessVars, Open
<1>12. CASE UNCHANGED <<row, sess, treeTx>>
  BY <1>1, <1>12 DEF Open
<1>13. ASSUME NEW n \in Nodes, Purge(n) PROVE Kept
  BY <1>5, <1>13 DEF Purge
<1>14. CASE EmptyTrash
  BY <1>5, <1>14 DEF EmptyTrash, TrashRoots
<1>15. ASSUME NEW D \in SUBSET (Folders \ {Root}), NEW p \in Folders, NEW up \in [D -> Folders],
              NEW nm \in [D -> Names], CreateFolderBatch(D, p, up, nm)
       PROVE  Kept
  BY <1>1, <1>15 DEF CreateFolderBatch, sessVars, Open
<1> QED
  BY <1>2, <1>3, <1>4, <1>6, <1>7, <1>8, <1>9, <1>10, <1>11, <1>12, <1>13, <1>14, <1>15
     DEF Next, vars, Rename, Move, ExpiryPasses, BeginFinalize, AuthorizeRestoreVersion,
         RestoreVersion, Reconcile, SetQuota, treeVars, sessVars

\* An open session always has a folder to commit into: no purge takes it away.
THEOREM OpenSessionAlwaysKeepsFolder == Spec => []OpenSessionKeepsFolder
<1>1. Init => FolderInv
  BY TypeInit DEF Init, FolderInv, OpenSessionKeepsFolder, Open, NoSession, TreeFree
<1>2. FolderInv => OpenSessionKeepsFolder
  BY DEF FolderInv
<1> QED
  BY <1>1, <1>2, FolderStep, PTL DEF Spec

-----------------------------------------------------------------------------
\* Chains.

Forests == [Nodes -> Nodes \cup {NoNode}]

\* A chain is closed under the parent and is the least such set.
LEMMA ChainIsClosed ==
  ASSUME NEW up \in Forests, NEW n \in Nodes
  PROVE  Chain(up, n) \in ClosedUpward(up)
  BY DEF Chain, ClosedUpward, Forests

LEMMA ChainIsLeast ==
  ASSUME NEW up \in Forests, NEW n, NEW S \in ClosedUpward(up), n \in S
  PROVE  Chain(up, n) \subseteq S
  BY DEF Chain

\* The chain of an ancestor is a part of the chain.
LEMMA ChainsNest ==
  ASSUME NEW up \in Forests, NEW n \in Nodes, NEW m \in Chain(up, n)
  PROVE  Chain(up, m) \subseteq Chain(up, n)
  BY ChainIsClosed, ChainIsLeast

\* A chain depends on the parents of its members only.
LEMMA ChainUnaffected ==
  ASSUME NEW up \in Forests, NEW tp \in Forests, NEW n \in Nodes,
         \A m \in Chain(up, n) : tp[m] = up[m]
  PROVE  Chain(tp, n) = Chain(up, n)
<1>1. Chain(up, n) \in ClosedUpward(tp)
  BY ChainIsClosed DEF ClosedUpward
<1>2. Chain(tp, n) \subseteq Chain(up, n)
  BY <1>1, OnOwnChain, ChainIsLeast
<1>3. Chain(tp, n) \in ClosedUpward(up)
  <2>1. Chain(tp, n) \in ClosedUpward(tp)
    BY ChainIsClosed
  <2> QED
    BY <2>1, <1>2 DEF ClosedUpward
<1>4. Chain(up, n) \subseteq Chain(tp, n)
  BY <1>3, OnOwnChain, ChainIsLeast
<1> QED
  BY <1>2, <1>4

\* A chain is its node and the chain of the parent.
LEMMA ChainIsParents ==
  ASSUME NEW up \in Forests, NEW n \in Nodes
  PROVE  /\ up[n] = NoNode => Chain(up, n) = {n}
         /\ up[n] # NoNode => Chain(up, n) = {n} \cup Chain(up, up[n])
<1>1. n \in Chain(up, n)
  BY OnOwnChain
<1>2. ASSUME up[n] = NoNode PROVE Chain(up, n) = {n}
  <2>1. {n} \in ClosedUpward(up)
    BY <1>2 DEF ClosedUpward
  <2> QED
    BY <1>1, <2>1, ChainIsLeast
<1>3. ASSUME up[n] # NoNode PROVE Chain(up, n) = {n} \cup Chain(up, up[n])
  <2>1. up[n] \in Nodes /\ up[n] \in Chain(up, up[n])
    BY <1>3, OnOwnChain DEF Forests
  <2>2. {n} \cup Chain(up, up[n]) \in ClosedUpward(up)
    BY <2>1, ChainIsClosed DEF ClosedUpward
  <2>3. up[n] \in Chain(up, n)
    BY <1>1, <1>3, ChainIsClosed DEF ClosedUpward
  <2> QED
    BY <1>1, <2>2, <2>3, ChainIsLeast, ChainsNest
<1> QED
  BY <1>2, <1>3

\* Above a node of a chain lies the node's own chain.
LEMMA ChainSplits ==
  ASSUME NEW up \in Forests, NEW n \in Nodes, NEW x \in Nodes, n \in Chain(up, x)
  PROVE  Chain(up, x) = Below(up, n, x) \cup Chain(up, n)
<1> DEFINE T == (Chain(up, x) \cap Subtree(up, n)) \cup Chain(up, n)
<1>1. Chain(up, x) \subseteq Nodes /\ Chain(up, n) \subseteq Chain(up, x) /\ n \in Chain(up, n)
  BY ChainsNest, OnOwnChain DEF Chain
<1>2. ASSUME NEW m \in Chain(up, x) \cap Subtree(up, n), m # n, up[m] # NoNode
      PROVE  up[m] \in T
  <2>1. n \in Chain(up, m) /\ m \in Nodes /\ up[m] \in Chain(up, x)
    BY <1>1, <1>2, ChainIsClosed DEF Subtree, ClosedUpward
  <2>2. n \in Chain(up, up[m])
    BY <1>2, <2>1, ChainIsParents
  <2> QED
    BY <1>1, <2>1, <2>2 DEF Subtree
<1>3. \A m \in Chain(up, n) : up[m] \in Chain(up, n) \cup {NoNode}
  BY ChainIsClosed DEF ClosedUpward
<1>4. T \in ClosedUpward(up)
  BY <1>1, <1>2, <1>3 DEF ClosedUpward
<1>5. x \in T
  BY OnOwnChain DEF Subtree
<1>6. Chain(up, x) \subseteq T
  BY <1>4, <1>5, ChainIsLeast
<1> QED
  BY <1>1, <1>6 DEF Below

\* tp differs from up in the parent of n, which is p.
Hangs(up, tp, n, p) == tp[n] = p /\ \A m \in Nodes \ {n} : tp[m] = up[m]

\* Hanging n below p leaves the chains that avoid n as they are, and leads the
\* others through n to p.
LEMMA HangedChains ==
  ASSUME NEW up \in Forests, NEW n \in Nodes, NEW p \in Nodes, n \notin Chain(up, p),
         NEW tp \in Forests, Hangs(up, tp, n, p), NEW x \in Nodes
  PROVE  /\ n \notin Chain(up, x) => Chain(tp, x) = Chain(up, x)
         /\ n \in Chain(up, x) =>
              /\ n \in Chain(tp, x) /\ Chain(up, p) \subseteq Chain(tp, x)
              /\ Chain(tp, x) \subseteq Below(up, n, x) \cup {n} \cup Chain(up, p)
              /\ Chain(up, x) \subseteq Chain(tp, x) \cup Chain(up, n)
<1>1. tp \in Forests /\ tp[n] = p /\ p # NoNode /\ \A m \in Nodes \ {n} : tp[m] = up[m]
  BY NoNodeAssumption DEF Hangs
<1>2. \A y \in Nodes : Chain(up, y) \subseteq Nodes /\ Chain(tp, y) \subseteq Nodes
  BY DEF Chain
<1>3. ASSUME NEW y \in Nodes, n \notin Chain(up, y) PROVE Chain(tp, y) = Chain(up, y)
  <2>1. \A m \in Chain(up, y) : tp[m] = up[m]
    BY <1>1, <1>2, <1>3
  <2> QED
    BY <1>1, <2>1, ChainUnaffected
<1>4. ASSUME n \in Chain(up, x) PROVE n \in Chain(tp, x)
  <2> SUFFICES ASSUME n \notin Chain(tp, x) PROVE FALSE
    OBVIOUS
  <2>1. \A m \in Chain(tp, x) : up[m] = tp[m]
    BY <1>1, <1>2
  <2>2. Chain(up, x) = Chain(tp, x)
    BY <1>1, <2>1, ChainUnaffected
  <2> QED
    BY <1>4, <2>2
<1>5. ASSUME n \in Chain(up, x) PROVE Chain(up, p) \subseteq Chain(tp, x)
  <2>1. p \in Chain(tp, x)
    <3>1. Chain(tp, x) \in ClosedUpward(tp) /\ n \in Chain(tp, x)
      BY <1>1, <1>4, <1>5, ChainIsClosed
    <3> QED
      BY <1>1, <3>1 DEF ClosedUpward
  <2>2. Chain(tp, p) \subseteq Chain(tp, x)
    BY <2>1, <1>1, ChainsNest
  <2> QED
    BY <2>2, <1>3
<1>6. ASSUME n \in Chain(up, x)
      PROVE  Chain(tp, x) \subseteq Below(up, n, x) \cup {n} \cup Chain(up, p)
  <2> DEFINE B == (Chain(up, x) \cap Subtree(up, n)) \cup {n}
             T == B \cup Chain(up, p)
  <2>1. ASSUME NEW m \in Chain(up, x) \cap Subtree(up, n), m # n
        PROVE  tp[m] \in B \cup {NoNode}
    <3>1. m \in Nodes /\ tp[m] = up[m] /\ n \in Chain(up, m) /\ up[m] \in Chain(up, x) \cup {NoNode}
      BY <1>1, <1>2, <2>1, ChainIsClosed DEF Subtree, ClosedUpward
    <3>2. up[m] # NoNode => n \in Chain(up, up[m])
      BY <2>1, <3>1, ChainIsParents
    <3> QED
      BY <3>1, <3>2, <1>2 DEF Subtree
  <2>2. ASSUME NEW m \in Chain(up, p) PROVE tp[m] \in Chain(up, p) \cup {NoNode}
    BY <1>1, <1>2, <2>2, ChainIsClosed DEF ClosedUpward
  <2>3. p \in Chain(up, p)
    BY OnOwnChain
  <2>4. T \in ClosedUpward(tp)
    BY <1>1, <1>2, <2>1, <2>2, <2>3 DEF ClosedUpward
  <2>5. x \in T
    BY <1>6, OnOwnChain DEF Subtree
  <2>6. Chain(tp, x) \subseteq T
    BY <1>1, <2>4, <2>5, ChainIsLeast
  <2> QED
    BY <2>6 DEF Below
<1>7. ASSUME n \in Chain(up, x) PROVE Chain(up, x) \subseteq Chain(tp, x) \cup Chain(up, n)
  <2> DEFINE T == Chain(tp, x) \cup Chain(up, n)
  <2>1. ASSUME NEW m \in Chain(tp, x), m # n PROVE up[m] \in Chain(tp, x) \cup {NoNode}
    BY <1>1, <1>2, <2>1, ChainIsClosed DEF ClosedUpward
  <2>2. ASSUME NEW m \in Chain(up, n) PROVE up[m] \in Chain(up, n) \cup {NoNode}
    BY <2>2, ChainIsClosed DEF ClosedUpward
  <2>3. n \in Chain(up, n) /\ x \in Chain(tp, x)
    BY OnOwnChain
  <2>4. T \in ClosedUpward(up)
    BY <1>2, <2>1, <2>2, <2>3 DEF ClosedUpward
  <2> QED
    BY <2>3, <2>4, ChainIsLeast
<1> QED
  BY <1>3, <1>4, <1>5, <1>6, <1>7

\* Whoever reaches a root is on no cycle.
LEMMA NoCycle ==
  ASSUME NEW up \in Forests, NEW n \in Nodes, NEW m \in Chain(up, n), n \in Chain(up, m),
         NEW r \in Chain(up, n), up[r] = NoNode
  PROVE  m = n
<1> SUFFICES ASSUME m # n PROVE FALSE
  OBVIOUS
<1> DEFINE T == {x \in Chain(up, n) : n \in Chain(up, x)}
<1>1. Chain(up, n) \subseteq Nodes /\ n \in Chain(up, n)
  BY OnOwnChain DEF Chain
<1>2. up[n] \in Nodes /\ m \in Chain(up, up[n])
  BY <1>1, ChainIsParents DEF Forests
<1>3. n \in Chain(up, up[n])
  BY <1>2, ChainsNest
<1>4. ASSUME NEW x \in T PROVE up[x] \in T \cup {NoNode}
  <2>1. x \in Nodes /\ up[x] \in Chain(up, n) \cup {NoNode}
    BY <1>1, <1>4, ChainIsClosed DEF ClosedUpward
  <2>2. x # n /\ up[x] # NoNode => n \in Chain(up, up[x])
    BY <1>4, <2>1, ChainIsParents
  <2> QED
    BY <2>1, <2>2, <1>3
<1>5. T \in ClosedUpward(up)
  BY <1>1, <1>4 DEF ClosedUpward
<1>6. r \in T
  BY <1>1, <1>5, ChainIsLeast
<1>7. r = n
  BY <1>1, <1>6, ChainIsParents
<1> QED
  BY <1>2, <1>7, NoNodeAssumption

-----------------------------------------------------------------------------
\* The tree.

Exists(n) == row[n] \in {"active", "trashed"}

\* The root is the root, whatever exists hangs from it.
TreeShape == EveryNodeReachesRoot /\ parent[Root] = NoNode /\ row[Root] = "active"

LEMMA TreeTypes ==
  ASSUME TypeOK
  PROVE  /\ parent \in Forests /\ Root \in Nodes
         /\ \A n \in Nodes : Chain(parent, n) \subseteq Nodes /\ n \in Chain(parent, n)
         /\ row \in [Nodes -> {"absent", "active", "trashed", "purged"}]
  BY LedgerAssumption, OnOwnChain DEF TypeOK, Forests, Chain

\* What is active exists, with all of its chain.
LEMMA ActiveExists ==
  ASSUME TypeOK, NEW n \in Nodes, Active(n)
  PROVE  row[n] = "active"
  BY TreeTypes DEF Active

\* A node that is made below an active one hangs from the root, and nothing else
\* becomes active or stops being so.
LEMMA AddKeepsTree ==
  ASSUME TypeOK, TypeOK', TreeShape, NEW d \in Nodes, row[d] = "absent",
         NEW p \in Nodes, Active(p),
         row' = [row EXCEPT ![d] = "active"], parent' = [parent EXCEPT ![d] = p]
  PROVE  /\ TreeShape'
         /\ \A x \in Nodes : Active(x)' <=> Active(x) \/ x = d
<1>1. /\ parent \in Forests /\ parent' \in Forests /\ Root \in Nodes
      /\ \A n \in Nodes : Chain(parent, n) \subseteq Nodes /\ n \in Chain(parent, n)
      /\ row'[d] = "active" /\ parent'[d] = p /\ p # NoNode
      /\ \A n \in Nodes \ {d} : row'[n] = row[n] /\ parent'[n] = parent[n]
  BY TreeTypes, NoNodeAssumption DEF TypeOK, Forests
<1>2. ASSUME NEW x \in Nodes, Exists(x)
      PROVE  /\ d \notin Chain(parent, x) /\ Chain(parent', x) = Chain(parent, x)
             /\ \A m \in Chain(parent, x) : row'[m] = row[m]
  <2>1. d \notin Chain(parent, x)
    BY <1>2 DEF TreeShape, EveryNodeReachesRoot, Exists
  <2>2. \A m \in Chain(parent, x) : parent'[m] = parent[m] /\ row'[m] = row[m]
    BY <1>1, <2>1
  <2> QED
    <3>1. \A m \in Chain(parent, x) : parent'[m] = parent[m]
      BY <2>2, Zenon
    <3>2. parent \in Forests /\ parent' \in Forests
      BY <1>1, Zenon
    <3>3. Chain(parent', x) = Chain(parent, x)
      BY <3>1, <3>2, ChainUnaffected, Zenon
    <3> QED
      BY <2>1, <2>2, <3>3, Zenon
<1>3. Exists(p) /\ \A m \in Chain(parent, p) : row[m] = "active"
  BY ActiveExists DEF Exists, Active
<1>4. Chain(parent', d) = {d} \cup Chain(parent, p)
  <2>1. Chain(parent', d) = {d} \cup Chain(parent', p)
    <3>1. parent'[d] # NoNode => Chain(parent', d) = {d} \cup Chain(parent', parent'[d])
      BY <1>1, ChainIsParents, Zenon
    <3> QED
      BY <3>1, <1>1, Zenon
  <2> QED
    BY <2>1, <1>2, <1>3
<1>5. ASSUME NEW x \in Nodes, Exists(x)' PROVE x = d \/ Exists(x)
  BY <1>1, <1>5 DEF Exists
<1>6. EveryNodeReachesRoot'
  <2>1. ASSUME NEW x \in Nodes, Exists(x)
        PROVE Root \in Chain(parent', x) /\ \A m \in Chain(parent', x) : Exists(m)'
    BY <1>2, <2>1 DEF TreeShape, EveryNodeReachesRoot, Exists
  <2>2. Root \in Chain(parent', d) /\ \A m \in Chain(parent', d) : Exists(m)'
    BY <1>1, <1>2, <1>3, <1>4 DEF TreeShape, EveryNodeReachesRoot, Exists
  <2> QED
    BY <1>5, <2>1, <2>2 DEF EveryNodeReachesRoot, Exists
<1>7. parent'[Root] = NoNode /\ row'[Root] = "active"
  BY <1>1 DEF TreeShape
<1>8. ASSUME NEW x \in Nodes, x # d PROVE Active(x)' <=> Active(x)
  <2>1. CASE Exists(x)
    BY <2>1, <1>2 DEF Active
  <2>2. CASE ~Exists(x)
    <3>1. row[x] # "active" /\ row'[x] # "active"
      BY <2>2, <1>1, <1>8 DEF Exists
    <3>2. x \in Chain(parent, x) /\ x \in Chain(parent', x)
      BY OnOwnChain
    <3> QED
      BY <3>1, <3>2 DEF Active
  <2> QED
    BY <2>1, <2>2
<1>9. Active(d)'
  BY <1>1, <1>2, <1>3, <1>4 DEF Active
<1> QED
  BY <1>6, <1>7, <1>8, <1>9 DEF TreeShape

\* The same for the folders of a batch.
LEMMA BatchKeepsTree ==
  ASSUME TypeOK, TypeOK', TreeShape, NEW D \in SUBSET (Folders \ {Root}),
         NEW p \in Folders, NEW up \in [D -> Folders], NEW nm \in [D -> Names],
         CreateFolderBatch(D, p, up, nm)
  PROVE  /\ TreeShape'
         /\ \A x \in Files : Active(x)' <=> Active(x)
<1>1. /\ \A d \in D : /\ row[d] = "absent" /\ p \in Chain(parent', d)
                      /\ \A m \in Chain(parent', d) \ D : row[m] = "active"
      /\ Active(p)
      /\ \A n \in Nodes : /\ row'[n] = IF n \in D THEN "active" ELSE row[n]
                          /\ n \notin D => parent'[n] = parent[n]
  BY Zenon DEF CreateFolderBatch
<1>2. /\ parent \in Forests /\ parent' \in Forests /\ Root \in Nodes /\ p \in Nodes /\ D \subseteq Nodes
      /\ \A n \in Nodes : /\ Chain(parent, n) \subseteq Nodes /\ n \in Chain(parent, n)
                          /\ Chain(parent', n) \subseteq Nodes /\ n \in Chain(parent', n)
  BY TreeTypes, LedgerAssumption, OnOwnChain DEF TypeOK, Forests, Chain
<1>3. ASSUME NEW x \in Nodes, Exists(x)
      PROVE  /\ Chain(parent', x) = Chain(parent, x)
             /\ \A m \in Chain(parent, x) : row'[m] = row[m]
  <2>1. \A m \in Chain(parent, x) : m \notin D
    BY <1>1, <1>3 DEF TreeShape, EveryNodeReachesRoot, Exists
  <2>2. \A m \in Chain(parent, x) : parent'[m] = parent[m] /\ row'[m] = row[m]
    BY <1>1, <1>2, <2>1
  <2> QED
    BY <2>2, <1>2, ChainUnaffected
<1>4. Exists(p)
  BY <1>1, <1>2, ActiveExists DEF Exists
<1>5. ASSUME NEW x \in Nodes, Exists(x)' PROVE x \in D \/ Exists(x)
  BY <1>1, <1>5 DEF Exists
<1>6. EveryNodeReachesRoot'
  <2>1. ASSUME NEW x \in Nodes, Exists(x)
        PROVE Root \in Chain(parent', x) /\ \A m \in Chain(parent', x) : Exists(m)'
    BY <1>3, <2>1 DEF TreeShape, EveryNodeReachesRoot, Exists
  <2>2. ASSUME NEW d \in D
        PROVE Root \in Chain(parent', d) /\ \A m \in Chain(parent', d) : Exists(m)'
    <3>1. Root \in Chain(parent', p)
      BY <1>2, <1>4, <2>1
    <3>2. Root \in Chain(parent', d)
      BY <1>1, <1>2, <3>1, ChainsNest
    <3>3. \A m \in Chain(parent', d) : row'[m] = "active"
      BY <1>1, <1>2
    <3> QED
      BY <3>2, <3>3 DEF Exists
  <2> QED
    BY <1>5, <2>1, <2>2 DEF EveryNodeReachesRoot, Exists
<1>7. parent'[Root] = NoNode /\ row'[Root] = "active"
  BY <1>1, <1>2 DEF TreeShape
<1>8. ASSUME NEW x \in Files PROVE Active(x)' <=> Active(x)
  <2>0. x \in Nodes /\ x \notin D
    BY <1>8 DEF Files
  <2>1. CASE Exists(x)
    BY <2>0, <2>1, <1>3 DEF Active
  <2>2. CASE ~Exists(x)
    <3>1. row[x] # "active" /\ row'[x] # "active"
      BY <2>0, <2>2, <1>1 DEF Exists
    <3> QED
      BY <3>1, <2>0, <1>2 DEF Active
  <2> QED
    BY <2>1, <2>2
<1> QED
  BY <1>6, <1>7, <1>8 DEF TreeShape

LEMMA ParentsHanged ==
  ASSUME parent \in Forests, parent' \in Forests, NEW n \in Nodes, NEW p \in Nodes,
         n \notin Chain(parent, p), Hangs(parent, parent', n, p), NEW x \in Nodes
  PROVE  /\ n \notin Chain(parent, x) => Chain(parent', x) = Chain(parent, x)
         /\ n \in Chain(parent, x) =>
              /\ n \in Chain(parent', x) /\ Chain(parent, p) \subseteq Chain(parent', x)
              /\ Chain(parent', x) \subseteq Below(parent, n, x) \cup {n} \cup Chain(parent, p)
              /\ Chain(parent, x) \subseteq Chain(parent', x) \cup Chain(parent, n)
  BY HangedChains

\* A node that is hung below an active one that is not below it.
LEMMA HangKeepsTree ==
  ASSUME TypeOK, TypeOK', TreeShape, NEW n \in Nodes \ {Root}, Exists(n),
         NEW p \in Nodes, Active(p), n \notin Chain(parent, p),
         row' = [row EXCEPT ![n] = "active"], parent' = [parent EXCEPT ![n] = p]
  PROVE  /\ TreeShape'
         /\ \A x \in Nodes : Active(x)' <=> IF n \in Chain(parent, x)
                                            THEN \A m \in Below(parent, n, x) : row[m] = "active"
                                            ELSE Active(x)
<1>1. /\ parent \in Forests /\ parent' \in Forests /\ Root \in Nodes
      /\ \A x \in Nodes : Chain(parent, x) \subseteq Nodes /\ x \in Chain(parent, x)
      /\ row'[n] = "active" /\ parent'[n] = p
      /\ \A m \in Nodes \ {n} : row'[m] = row[m] /\ parent'[m] = parent[m]
  BY TreeTypes DEF TypeOK, Forests
<1>2. ASSUME NEW x \in Nodes
      PROVE  /\ n \notin Chain(parent, x) => Chain(parent', x) = Chain(parent, x)
             /\ n \in Chain(parent, x) =>
                  /\ n \in Chain(parent', x) /\ Chain(parent, p) \subseteq Chain(parent', x)
                  /\ Chain(parent', x) \subseteq Below(parent, n, x) \cup {n} \cup Chain(parent, p)
                  /\ Chain(parent, x) \subseteq Chain(parent', x) \cup Chain(parent, n)
  <2>1. /\ n \in Nodes /\ parent \in Forests /\ parent' \in Forests
        /\ Hangs(parent, parent', n, p)
    BY <1>1 DEF Hangs
  <2> QED
    BY <2>1, ParentsHanged, Zenon
<1>3. Exists(p) /\ \A m \in Chain(parent, p) : row[m] = "active" /\ row'[m] = "active"
  <2>1. row[p] = "active" /\ \A m \in Chain(parent, p) : row[m] = "active"
    BY ActiveExists DEF Active
  <2> QED
    BY <2>1, <1>1 DEF Exists
<1>4. Root \in Chain(parent, p) /\ Root \in Chain(parent, n)
  BY <1>3 DEF TreeShape, EveryNodeReachesRoot, Exists
<1>5. \A x : Below(parent, n, x) \subseteq Chain(parent, x) /\ n \notin Below(parent, n, x)
  BY DEF Below
<1>6. ASSUME NEW x \in Nodes, Exists(x)'
      PROVE  Root \in Chain(parent', x) /\ \A m \in Chain(parent', x) : Exists(m)'
  <2>1. Exists(x)
    BY <1>1, <1>6 DEF Exists
  <2>2. Root \in Chain(parent, x) /\ \A m \in Chain(parent, x) : Exists(m) /\ Exists(m)'
    BY <1>1, <2>1 DEF TreeShape, EveryNodeReachesRoot, Exists
  <2>3. CASE n \notin Chain(parent, x)
    BY <1>2, <2>2, <2>3, Zenon
  <2>4. CASE n \in Chain(parent, x)
    <3>1. /\ Chain(parent, p) \subseteq Chain(parent', x)
          /\ Chain(parent', x) \subseteq Chain(parent, x) \cup Chain(parent, p)
      BY <1>2, <1>5, <2>4
    <3>2. \A m \in Chain(parent, p) : Exists(m)'
      BY <1>3 DEF Exists
    <3> QED
      BY <3>1, <3>2, <1>4, <2>2
  <2> QED
    BY <2>3, <2>4
<1>7. EveryNodeReachesRoot'
  BY <1>6, Zenon DEF EveryNodeReachesRoot, Exists
<1>8. parent'[Root] = NoNode /\ row'[Root] = "active"
  BY <1>1 DEF TreeShape
<1>9. ASSUME NEW x \in Nodes, n \notin Chain(parent, x) PROVE Active(x)' <=> Active(x)
  <2>1. Chain(parent', x) = Chain(parent, x)
    BY <1>2, <1>9, Zenon
  <2>2. \A m \in Chain(parent, x) : row'[m] = row[m]
    BY <1>1, <1>9
  <2> QED
    BY <2>1, <2>2, Zenon DEF Active
<1>10. ASSUME NEW x \in Nodes, n \in Chain(parent, x)
       PROVE  Active(x)' <=> \A m \in Below(parent, n, x) : row[m] = "active"
  <2>1. ASSUME \A m \in Below(parent, n, x) : row[m] = "active" PROVE Active(x)'
    <3>1. \A m \in Below(parent, n, x) \cup {n} \cup Chain(parent, p) : row'[m] = "active"
      BY <1>1, <1>3, <1>5, <1>10, <2>1
    <3> QED
      BY <3>1, <1>2, <1>10 DEF Active
  <2>2. ASSUME Active(x)', NEW m \in Below(parent, n, x) PROVE row[m] = "active"
    <3>1. m \in Chain(parent, x) /\ n \in Chain(parent, m) /\ m # n /\ m \in Nodes
      BY <1>1, <1>10 DEF Below, Subtree
    <3>2. CASE m \in Chain(parent', x)
      <4>1. row'[m] = "active"
        BY <2>2, <3>2 DEF Active
      <4> QED
        BY <4>1, <3>1, <1>1
    <3>3. CASE m \in Chain(parent, n)
      <4>1. m = n
        BY <3>1, <3>3, <1>1, <1>4, NoCycle DEF TreeShape
      <4> QED
        BY <4>1, <3>1
    <3> QED
      BY <3>1, <3>2, <3>3, <1>2, <1>10
  <2> QED
    BY <2>1, <2>2, Zenon
<1>11. TreeShape'
  BY <1>7, <1>8, Zenon DEF TreeShape
<1> QED
  BY <1>9, <1>10, <1>11, Zenon

\* A node that is trashed takes what is below it with it.
LEMMA TrashKeepsTree ==
  ASSUME TypeOK, TypeOK', TreeShape, NEW n \in Nodes \ {Root}, Exists(n),
         row' = [row EXCEPT ![n] = "trashed"], parent' = parent
  PROVE  /\ TreeShape'
         /\ \A x \in Nodes : Active(x)' <=> Active(x) /\ n \notin Chain(parent, x)
<1>1. /\ Root \in Nodes /\ row'[n] = "trashed" /\ \A m \in Nodes \ {n} : row'[m] = row[m]
      /\ \A x \in Nodes : Chain(parent, x) \subseteq Nodes /\ x \in Chain(parent, x)
  BY TreeTypes DEF TypeOK
<1>2. \A m \in Nodes : Exists(m)' <=> Exists(m)
  BY <1>1 DEF Exists
<1>3. EveryNodeReachesRoot'
  <2>1. ASSUME NEW x \in Nodes, Exists(x)'
        PROVE  Root \in Chain(parent', x) /\ \A m \in Chain(parent', x) : Exists(m)'
    <3>1. Root \in Chain(parent, x) /\ \A m \in Chain(parent, x) : Exists(m)
      BY <1>2, <2>1 DEF TreeShape, EveryNodeReachesRoot, Exists
    <3> QED
      BY <3>1, <1>1, <1>2
  <2> QED
    BY <2>1, Zenon DEF EveryNodeReachesRoot, Exists
<1>4. parent'[Root] = NoNode /\ row'[Root] = "active"
  BY <1>1 DEF TreeShape
<1>5. ASSUME NEW x \in Nodes PROVE Active(x)' <=> Active(x) /\ n \notin Chain(parent, x)
  <2>1. Active(x)' <=> \A m \in Chain(parent, x) : row'[m] = "active"
    BY DEF Active
  <2>2. Active(x) <=> \A m \in Chain(parent, x) : row[m] = "active"
    BY DEF Active
  <2> QED
    BY <2>1, <2>2, <1>1
<1> QED
  BY <1>3, <1>4, <1>5, Zenon DEF TreeShape

\* A purge of trashed nodes takes all that is below them, and nothing active.
LEMMA PurgeKeepsTree ==
  ASSUME TypeOK, TypeOK', TreeShape, NEW S \in SUBSET Nodes, \A n \in S : row[n] = "trashed",
         PurgeAll(S)
  PROVE  /\ TreeShape'
         /\ \A x \in Nodes : Active(x)' <=> Active(x)
         /\ \A f \in Files : Active(f) => size'[f] = size[f]
<1> DEFINE gone == UNION {Subtree(parent, n) : n \in S}
<1>1. /\ \A n \in Nodes : /\ row'[n] = IF n \in gone THEN "purged" ELSE row[n]
                          /\ parent'[n] = IF n \in gone THEN NoNode ELSE parent[n]
      /\ \A f \in Files : size'[f] = IF f \in gone THEN 0 ELSE size[f]
  BY Zenon DEF PurgeAll
<1>2. /\ parent \in Forests /\ parent' \in Forests /\ Root \in Nodes
      /\ \A x \in Nodes : /\ Chain(parent, x) \subseteq Nodes /\ x \in Chain(parent, x)
                          /\ x \in Chain(parent', x)
  <2>1. /\ parent \in Forests /\ Root \in Nodes
        /\ \A x \in Nodes : Chain(parent, x) \subseteq Nodes /\ x \in Chain(parent, x)
    BY TreeTypes
  <2>2. parent' \in Forests
    BY LedgerAssumption DEF TypeOK, Forests
  <2>3. \A x \in Nodes : x \in Chain(parent', x)
    BY OnOwnChain
  <2> QED
    BY <2>1, <2>2, <2>3
<1>3. ASSUME NEW x \in Nodes, x \notin gone
      PROVE  /\ Chain(parent', x) = Chain(parent, x)
             /\ \A m \in Chain(parent, x) : row'[m] = row[m] /\ m \notin gone
  <2>1. ASSUME NEW m \in Chain(parent, x), m \in gone PROVE FALSE
    <3>1. PICK n \in S : m \in Nodes /\ n \in Chain(parent, m)
      BY <2>1 DEF Subtree
    <3>2. n \in Chain(parent, x)
      BY <3>1, <1>2, <2>1, ChainsNest
    <3> QED
      BY <3>2, <1>3 DEF Subtree
  <2>2. \A m \in Chain(parent, x) : parent'[m] = parent[m] /\ row'[m] = row[m]
    BY <1>1, <1>2, <2>1
  <2>3. Chain(parent', x) = Chain(parent, x)
    BY <1>2, <2>2, ChainUnaffected
  <2> QED
    BY <2>1, <2>2, <2>3
<1>4. ASSUME NEW x \in gone PROVE x \in Nodes /\ \E n \in Chain(parent, x) : row[n] = "trashed"
  BY <1>4 DEF Subtree
<1>5. Root \notin gone
  <2>1. Chain(parent, Root) = {Root}
    BY <1>2, ChainIsParents DEF TreeShape
  <2> QED
    BY <2>1, <1>4 DEF TreeShape
<1> HIDE DEF gone
<1>6. EveryNodeReachesRoot'
  <2>1. ASSUME NEW x \in Nodes, Exists(x)'
        PROVE  Root \in Chain(parent', x) /\ \A m \in Chain(parent', x) : Exists(m)'
    <3>1. x \notin gone /\ row[x] = row'[x]
      BY <1>1, <2>1 DEF Exists
    <3>2. Root \in Chain(parent, x) /\ \A m \in Chain(parent, x) : Exists(m)
      BY <3>1, <2>1 DEF TreeShape, EveryNodeReachesRoot, Exists
    <3> QED
      BY <3>1, <3>2, <1>3 DEF Exists
  <2> QED
    BY <2>1, Zenon DEF EveryNodeReachesRoot, Exists
<1>7. parent'[Root] = NoNode /\ row'[Root] = "active"
  BY <1>1, <1>2, <1>5 DEF TreeShape
<1>8. ASSUME NEW x \in Nodes PROVE Active(x)' <=> Active(x)
  <2>1. CASE x \notin gone
    BY <2>1, <1>3 DEF Active
  <2>2. CASE x \in gone
    <3>1. row'[x] = "purged" /\ ~Active(x)
      BY <2>2, <1>1, <1>4 DEF Active
    <3> QED
      BY <3>1, <1>2 DEF Active
  <2> QED
    BY <2>1, <2>2
<1>9. ASSUME NEW f \in Files, Active(f) PROVE size'[f] = size[f]
  <2>1. f \notin gone
    BY <1>4, <1>9 DEF Active
  <2> QED
    BY <2>1, <1>1
<1> QED
  BY <1>6, <1>7, <1>8, <1>9, Zenon DEF TreeShape

\* Above a folder there are folders only, so the check for cycles is enough.
LEMMA NoCycleIsMade ==
  ASSUME TypeOK, NEW n \in Nodes, NEW p \in Folders, ~WouldCycle(n, p)
  PROVE  n \notin Chain(parent, p)
<1>1. Folders \in ClosedUpward(parent)
  BY LedgerAssumption DEF TypeOK, ClosedUpward
<1>2. Chain(parent, p) \subseteq Folders
  BY <1>1, TreeTypes, ChainIsLeast
<1> QED
  BY <1>2 DEF WouldCycle

\* What the first half of a trash or restore leaves to the second.
TxInv ==
  ~TreeFree =>
    /\ treeTx.op \in {"trash", "restore"} /\ treeTx.node \in Nodes \ {Root}
    /\ treeTx.op = "trash" => Active(treeTx.node)
    /\ treeTx.op = "restore" => /\ row[treeTx.node] = "trashed"
                                /\ treeTx.parent \in Folders /\ Active(treeTx.parent)
                                /\ treeTx.node \notin Chain(parent, treeTx.parent)

TreeInv == FolderInv /\ TreeShape /\ TxInv

LEMMA TreeStep == TreeInv /\ [Next]_vars => TreeInv'
<1> SUFFICES ASSUME TreeInv, [Next]_vars PROVE TreeShape' /\ TxInv'
  BY FolderStep DEF TreeInv
<1>0. FolderInv /\ TypeOK /\ TypeOK' /\ TreeShape /\ TxInv
  BY TypeStep DEF TreeInv, FolderInv
<1>1. ASSUME UNCHANGED <<row, parent>> PROVE TreeShape' /\ \A x : Active(x)' <=> Active(x)
  BY <1>0, <1>1 DEF TreeShape, EveryNodeReachesRoot, Active
<1>2. ASSUME UNCHANGED <<row, parent, treeTx>> PROVE TreeShape' /\ TxInv'
  BY <1>0, <1>1, <1>2 DEF TxInv, TreeFree
<1>3. ASSUME treeTx' = NoTx PROVE TxInv'
  BY <1>3 DEF TxInv, TreeFree
<1>4. ASSUME NEW d \in Folders, NEW p \in Folders, NEW nm \in Names, CreateFolder(d, p, nm)
      PROVE  TreeShape' /\ TxInv'
  <2>1. /\ row[d] = "absent" /\ Active(p) /\ treeTx' = NoTx
        /\ row' = [row EXCEPT ![d] = "active"] /\ parent' = [parent EXCEPT ![d] = p]
    BY <1>4 DEF CreateFolder, TreeFree
  <2> QED
    BY <2>1, <1>0, <1>3, AddKeepsTree, LedgerAssumption
<1>5. ASSUME NEW D \in SUBSET (Folders \ {Root}), NEW p \in Folders, NEW up \in [D -> Folders],
             NEW nm \in [D -> Names], CreateFolderBatch(D, p, up, nm)
      PROVE  TreeShape' /\ TxInv'
  <2>1. treeTx' = NoTx
    BY <1>5 DEF CreateFolderBatch, TreeFree
  <2>2. TreeShape'
    BY <1>0, <1>5, BatchKeepsTree, Zenon
  <2> QED
    BY <2>1, <2>2, <1>3
<1>6. ASSUME NEW u \in Uploads, NEW f \in Files, FinalizeNew(u, f)
      PROVE  TreeShape' /\ TxInv'
  <2>1. /\ row[f] = "absent" /\ Active(sess[u].parent) /\ treeTx' = NoTx /\ u \in Open
        /\ row' = [row EXCEPT ![f] = "active"] /\ parent' = [parent EXCEPT ![f] = sess[u].parent]
    BY <1>6 DEF FinalizeNew, FinalizeReady, Commit, TreeFree
  <2>2. f \in Nodes /\ sess[u].parent \in Nodes
    BY <2>1, <1>0, LedgerAssumption DEF Files, FolderInv
  <2> QED
    BY <2>1, <2>2, <1>0, <1>3, AddKeepsTree
<1>7. ASSUME NEW n \in Nodes, NEW p \in Folders, Move(n, p) PROVE TreeShape' /\ TxInv'
  <2>1. n # Root /\ Active(n) /\ Active(p) /\ ~WouldCycle(n, p) /\ treeTx' = NoTx
        /\ row' = row /\ parent' = [parent EXCEPT ![n] = p]
    BY <1>7 DEF Move, TreeFree
  <2>2. row[n] = "active"
    BY <2>1, <1>0, ActiveExists
  <2>3. row' = [row EXCEPT ![n] = "active"]
    BY <2>1, <2>2, <1>0 DEF TypeOK
  <2>4. n \notin Chain(parent, p)
    BY <2>1, <1>0, NoCycleIsMade
  <2>5. n \in Nodes \ {Root} /\ Exists(n) /\ p \in Nodes
    BY <2>1, <2>2, LedgerAssumption DEF Exists
  <2>6. TreeShape'
    BY <2>1, <2>3, <2>4, <2>5, <1>0, HangKeepsTree, Zenon
  <2> QED
    BY <2>1, <2>6, <1>3
<1>8. ASSUME NEW n \in Nodes, TrashMeasure(n) PROVE TreeShape' /\ TxInv'
  <2>1. /\ n # Root /\ Active(n) /\ UNCHANGED <<row, parent>>
        /\ treeTx' = [op |-> "trash", node |-> n, bytes |-> ActiveSubtreeBytes(n)]
    BY <1>8 DEF TrashMeasure, treeVars
  <2>2. TxInv'
    BY <2>1, <1>1 DEF TxInv
  <2> QED
    BY <2>1, <2>2, <1>1
<1>9. ASSUME NEW n \in Nodes, NEW p \in Folders, NEW nm \in Names, RestoreMeasure(n, p, nm)
      PROVE  TreeShape' /\ TxInv'
  <2>1. /\ n # Root /\ row[n] = "trashed" /\ Active(p) /\ ~WouldCycle(n, p)
        /\ UNCHANGED <<row, parent>>
        /\ treeTx' = [op |-> "restore", node |-> n, parent |-> p, name |-> nm,
                      bytes |-> ActiveSubtreeBytes(n)]
    BY <1>9 DEF RestoreMeasure, treeVars
  <2>2. n \notin Chain(parent, p)
    BY <2>1, <1>0, NoCycleIsMade
  <2>3. TxInv'
    BY <2>1, <2>2, <1>1 DEF TxInv
  <2> QED
    BY <2>1, <2>3, <1>1
<1>10. CASE TrashCommit
  <2> DEFINE n == treeTx.node
  <2>1. /\ treeTx.op = "trash" /\ treeTx' = NoTx /\ parent' = parent
        /\ row' = row \/ row' = [row EXCEPT ![n] = "trashed"]
    BY <1>10 DEF TrashCommit
  <2>2. ~TreeFree
    BY <2>1 DEF TreeFree, NoTx
  <2>3. n \in Nodes \ {Root} /\ Exists(n)
    BY <2>1, <2>2, <1>0, ActiveExists DEF TxInv, Exists
  <2> HIDE DEF n
  <2>4. TreeShape'
    BY <2>1, <2>3, <1>0, <1>1, TrashKeepsTree, Zenon
  <2> QED
    BY <2>1, <2>4, <1>3
<1>11. CASE RestoreCommit
  <2> DEFINE n == treeTx.node
             p == treeTx.parent
  <2>1. /\ treeTx.op = "restore" /\ treeTx' = NoTx
        /\ \/ row' = row /\ parent' = parent
           \/ row' = [row EXCEPT ![n] = "active"] /\ parent' = [parent EXCEPT ![n] = p]
    BY <1>11 DEF RestoreCommit, treeVars
  <2>2. ~TreeFree
    BY <2>1 DEF TreeFree, NoTx
  <2>3. /\ n \in Nodes \ {Root} /\ Exists(n) /\ p \in Nodes /\ Active(p)
        /\ n \notin Chain(parent, p)
    BY <2>1, <2>2, <1>0, LedgerAssumption DEF TxInv, Exists
  <2> HIDE DEF n, p
  <2>4. TreeShape'
    BY <2>1, <2>3, <1>0, <1>1, HangKeepsTree, Zenon
  <2> QED
    BY <2>1, <2>4, <1>3
<1>12. ASSUME NEW S \in SUBSET Nodes, \A n \in S : row[n] = "trashed", PurgeAll(S)
       PROVE  TreeShape' /\ TxInv'
  <2>1. treeTx' = NoTx
    BY <1>12 DEF PurgeAll, TreeFree
  <2>2. TreeShape'
    BY <1>0, <1>12, PurgeKeepsTree, Zenon
  <2> QED
    BY <2>1, <2>2, <1>3
<1>13. ASSUME NEW n \in Nodes, Purge(n) PROVE TreeShape' /\ TxInv'
  BY <1>12, <1>13 DEF Purge
<1>14. CASE EmptyTrash
  BY <1>12, <1>14 DEF EmptyTrash, TrashRoots
<1>15. ASSUME NEW n \in Nodes, NEW nm \in Names, Rename(n, nm) PROVE TreeShape' /\ TxInv'
  BY <1>2, <1>15 DEF Rename
<1>16. ASSUME NEW u \in Uploads, NEW p \in Folders, NEW nm \in Names, NEW sz \in Sizes,
              NEW t \in Files \cup {NoNode}, Create(u, p, nm, sz, t)
       PROVE  TreeShape' /\ TxInv'
  BY <1>2, <1>16 DEF Create, treeVars
<1>17. ASSUME NEW u \in Uploads,
              ExpiryPasses(u) \/ Cancel(u) \/ Expire(u) \/ BeginFinalize(u) \/ FinalizeVersion(u)
       PROVE  TreeShape' /\ TxInv'
  BY <1>2, <1>17 DEF ExpiryPasses, Cancel, Expire, Close, BeginFinalize, FinalizeVersion, Commit,
                     treeVars
<1>18. ASSUME NEW f \in Files, NEW sz \in Sizes,
              AuthorizeRestoreVersion(f, sz) \/ RestoreVersion(f, sz)
       PROVE  TreeShape' /\ TxInv'
  BY <1>2, <1>18 DEF AuthorizeRestoreVersion, RestoreVersion, treeVars
<1>19. CASE Reconcile \/ (\E q \in Quotas \cup {Unlimited} : SetQuota(q)) \/ UNCHANGED vars
  BY <1>2, <1>19 DEF Reconcile, SetQuota, vars, treeVars
<1> QED
  BY <1>4, <1>5, <1>6, <1>7, <1>8, <1>9, <1>10, <1>11, <1>13, <1>14, <1>15, <1>16, <1>17,
     <1>18, <1>19 DEF Next

LEMMA TreeInit == Init => TreeInv
<1> SUFFICES ASSUME Init PROVE TreeInv
  OBVIOUS
<1>1. TypeOK /\ FolderInv /\ Root \in Nodes
  BY TypeInit, LedgerAssumption
     DEF Init, FolderInv, OpenSessionKeepsFolder, Open, NoSession, TreeFree
<1>2. parent[Root] = NoNode /\ row[Root] = "active" /\ \A n \in Nodes : Exists(n) => n = Root
  BY <1>1 DEF Init, Exists
<1>3. Chain(parent, Root) = {Root}
  BY <1>1, <1>2, TreeTypes, ChainIsParents
<1>4. TreeShape
  BY <1>2, <1>3 DEF TreeShape, EveryNodeReachesRoot, Exists
<1>5. TxInv
  BY DEF Init, TxInv, TreeFree
<1> QED
  BY <1>1, <1>4, <1>5 DEF TreeInv

LEMMA TreeAlwaysInv == Spec => []TreeInv
  BY TreeInit, TreeStep, PTL DEF Spec

\* Moves, restores and batches close no cycle, and no purge leaves a child
\* behind: the checks folderContains, Active and the closed sets of a purge keep
\* every node that exists on a chain of existing nodes to the root.
THEOREM EveryNodeAlwaysReachesRoot == Spec => []EveryNodeReachesRoot
<1>1. TreeInv => EveryNodeReachesRoot
  BY DEF TreeInv, TreeShape
<1> QED
  BY <1>1, TreeAlwaysInv, PTL

-----------------------------------------------------------------------------
\* Used bytes.

\* The sum over two sets that share no member.
LEMMA SumOfDisjoint ==
  ASSUME NEW sz, NEW A, NEW B, IsFiniteSet(A), IsFiniteSet(B), A \cap B = {}
  PROVE  SumBytes(sz, A \cup B) = SumBytes(sz, A) + SumBytes(sz, B)
<1>1. ByteSet(sz, A \cup B) = ByteSet(sz, A) \cup ByteSet(sz, B)
  BY DEF ByteSet
<1>2. ByteSet(sz, A) \cap ByteSet(sz, B) = {}
  BY DEF ByteSet
<1>3. Cardinality({}) = 0
  BY FS_EmptySet
<1>4. /\ IsFiniteSet(ByteSet(sz, A)) /\ IsFiniteSet(ByteSet(sz, B))
      /\ SumBytes(sz, A) \in Nat /\ SumBytes(sz, B) \in Nat
  BY SumIsNat
<1>5. Cardinality(ByteSet(sz, A) \cup ByteSet(sz, B))
        = Cardinality(ByteSet(sz, A)) + Cardinality(ByteSet(sz, B))
          - Cardinality(ByteSet(sz, A) \cap ByteSet(sz, B))
  BY <1>4, FS_Union, Zenon
<1>6. SumBytes(sz, A \cup B) = SumBytes(sz, A) + SumBytes(sz, B) - 0
  BY <1>1, <1>2, <1>3, <1>5, Zenon DEF SumBytes
<1> QED
  BY <1>4, <1>6

\* The sum when one member gets another size.
LEMMA SumExchanged ==
  ASSUME NEW sz, NEW tz, NEW S, IsFiniteSet(S), NEW x \in S, sz[x] \in Sizes, tz[x] \in Sizes,
         \A y \in S \ {x} : tz[y] = sz[y]
  PROVE  SumBytes(tz, S) = SumBytes(sz, S) - sz[x] + tz[x]
<1> DEFINE R == S \ {x}
<1>1. IsFiniteSet(R) /\ x \notin R /\ R \cup {x} = S
  BY FS_RemoveElement
<1>2. SumBytes(sz, R \cup {x}) = SumBytes(sz, R) + sz[x]
  BY <1>1, SumWithMember
<1>3. SumBytes(tz, R \cup {x}) = SumBytes(tz, R) + tz[x]
  BY <1>1, SumWithMember
<1>4. SumBytes(tz, R) = SumBytes(sz, R)
  BY SumOfEqual
<1>5. SumBytes(sz, R) \in Nat /\ sz[x] \in Nat /\ tz[x] \in Nat
  BY <1>1, SumIsNat, LedgerAssumption DEF Sizes
<1>6. SumBytes(sz, S) = SumBytes(sz, R) + sz[x] /\ SumBytes(tz, S) = SumBytes(sz, R) + tz[x]
  BY <1>1, <1>2, <1>3, <1>4, Zenon
<1> HIDE DEF R
<1> QED
  BY <1>5, <1>6

LEMMA FilesFinite ==
  /\ IsFiniteSet(ActiveFiles)
  /\ \A n : IsFiniteSet(LiveSubtreeFiles(n))
  BY LedgerAssumption, FS_Difference, FS_Subset DEF Files, ActiveFiles, LiveSubtreeFiles

\* What the trash of an active node sums are the active files below it.
LEMMA LiveBelowActive ==
  ASSUME TypeOK, NEW n \in Nodes, Active(n)
  PROVE  LiveSubtreeFiles(n) = {f \in ActiveFiles : n \in Chain(parent, f)}
<1>1. ASSUME NEW f \in Files, n \in Chain(parent, f)
      PROVE  Active(f) <=> \A m \in Below(parent, n, f) : row[m] = "active"
  <2>1. Chain(parent, f) = Below(parent, n, f) \cup Chain(parent, n)
    BY <1>1, TreeTypes, ChainSplits DEF Files
  <2> QED
    BY <2>1 DEF Active
<1> QED
  BY <1>1 DEF LiveSubtreeFiles, ActiveFiles

\* The used counter after a step that leaves the sum as it is.
UsedInv == TreeInv /\ UsedIsDerivedUnlessRaced

LEMMA UsedSame ==
  ASSUME TypeOK, used = UsedBytes, used' = used, ActiveFiles' = ActiveFiles,
         \A f \in ActiveFiles : size'[f] = size[f]
  PROVE  used' = UsedBytes'
<1>1. SumBytes(size', ActiveFiles) = SumBytes(size, ActiveFiles)
  BY SumOfEqual
<1>2. UsedBytes' = SumBytes(size', ActiveFiles')
  BY DEF UsedBytes, SumBytes, ByteSet
<1> QED
  BY <1>1, <1>2 DEF UsedBytes

LEMMA UsedByTrash ==
  ASSUME TreeInv, TreeInv', used = UsedBytes, TrashCommit,
         treeTx.bytes = ActiveSubtreeBytes(treeTx.node)
  PROVE  used' = UsedBytes'
<1> DEFINE n == treeTx.node
           L == LiveSubtreeFiles(n)
<1>0. TypeOK /\ TypeOK' /\ TreeShape
  BY DEF TreeInv, FolderInv
<1>1. treeTx.op = "trash" /\ ~TreeFree /\ parent' = parent /\ size' = size
  BY DEF TrashCommit, TreeFree, NoTx, fileVars
<1>2. n \in Nodes \ {Root} /\ Active(n) /\ Exists(n)
  BY <1>0, <1>1, ActiveExists DEF TreeInv, TxInv, Exists
<1>3. L = {f \in ActiveFiles : n \in Chain(parent, f)}
  BY <1>0, <1>2, LiveBelowActive
<1>4. CASE used < treeTx.bytes
  <2>1. UNCHANGED <<row, used>>
    BY <1>4, Zenon DEF TrashCommit
  <2>2. ActiveFiles' = ActiveFiles
    BY <2>1, <1>1 DEF ActiveFiles, Active
  <2> QED
    BY <2>1, <2>2, <1>0, <1>1, UsedSame
<1>5. CASE ~(used < treeTx.bytes)
  <2>1. used' = used - treeTx.bytes /\ row' = [row EXCEPT ![n] = "trashed"]
    BY <1>5, Zenon DEF TrashCommit
  <2>2. \A x \in Nodes : Active(x)' <=> Active(x) /\ n \notin Chain(parent, x)
    BY <2>1, <1>0, <1>1, <1>2, TrashKeepsTree, Zenon
  <2> HIDE DEF n
  <2>3. ActiveFiles' = ActiveFiles \ L
    BY <2>2, <1>3 DEF ActiveFiles, Files
  <2> HIDE DEF L
  <2>4. ActiveFiles = (ActiveFiles \ L) \cup L /\ (ActiveFiles \ L) \cap L = {}
    BY <1>3
  <2>5. IsFiniteSet(L) /\ IsFiniteSet(ActiveFiles \ L)
    BY <1>3, FilesFinite, FS_Subset, FS_Difference DEF L
  <2>6. SumBytes(size, ActiveFiles) = SumBytes(size, ActiveFiles \ L) + SumBytes(size, L)
    BY <2>4, <2>5, SumOfDisjoint
  <2>7. treeTx.bytes = SumBytes(size, L)
    BY DEF L, n, ActiveSubtreeBytes
  <2>8. UsedBytes' = SumBytes(size, ActiveFiles \ L)
    BY <2>3, <1>1 DEF UsedBytes, SumBytes, ByteSet
  <2>9. SumBytes(size, ActiveFiles \ L) \in Nat /\ SumBytes(size, L) \in Nat
    BY <2>5, SumIsNat
  <2> QED
    BY <2>1, <2>6, <2>7, <2>8, <2>9 DEF UsedBytes
<1> QED
  BY <1>4, <1>5

LEMMA UsedByRestore ==
  ASSUME TreeInv, TreeInv', used = UsedBytes, RestoreCommit,
         treeTx.bytes = ActiveSubtreeBytes(treeTx.node)
  PROVE  used' = UsedBytes'
<1> DEFINE n == treeTx.node
           p == treeTx.parent
           L == LiveSubtreeFiles(n)
<1>0. TypeOK /\ TypeOK' /\ TreeShape
  BY DEF TreeInv, FolderInv
<1>1. treeTx.op = "restore" /\ ~TreeFree /\ size' = size
  BY DEF RestoreCommit, TreeFree, NoTx, fileVars
<1>2. /\ n \in Nodes \ {Root} /\ row[n] = "trashed" /\ p \in Nodes /\ Active(p)
      /\ n \notin Chain(parent, p) /\ Exists(n)
  BY <1>0, <1>1, LedgerAssumption DEF TreeInv, TxInv, Exists
<1>3. \A f \in ActiveFiles : n \notin Chain(parent, f)
  BY <1>2 DEF ActiveFiles, Active
<1>4. \/ UNCHANGED <<used, treeVars>>
      \/ /\ used' = used + treeTx.bytes /\ row' = [row EXCEPT ![n] = "active"]
         /\ parent' = [parent EXCEPT ![n] = p]
  BY Zenon DEF RestoreCommit
<1>5. CASE UNCHANGED <<used, treeVars>>
  <2>1. ActiveFiles' = ActiveFiles
    BY <1>5 DEF ActiveFiles, Active, treeVars
  <2> QED
    BY <2>1, <1>0, <1>1, <1>5, UsedSame
<1>6. CASE /\ used' = used + treeTx.bytes /\ row' = [row EXCEPT ![n] = "active"]
           /\ parent' = [parent EXCEPT ![n] = p]
  <2> HIDE DEF n, p
  <2>1. \A x \in Nodes : Active(x)' <=> IF n \in Chain(parent, x)
                                        THEN \A m \in Below(parent, n, x) : row[m] = "active"
                                        ELSE Active(x)
    BY <1>0, <1>2, <1>6, HangKeepsTree, Zenon
  <2>2. L = {f \in Files : n \in Chain(parent, f) /\ \A m \in Below(parent, n, f) : row[m] = "active"}
    BY DEF LiveSubtreeFiles
  <2>3. Files \subseteq Nodes
    BY DEF Files
  <2>4. ActiveFiles' = {f \in Files : Active(f)'}
    BY DEF ActiveFiles
  <2>5. ActiveFiles' = ActiveFiles \cup L /\ ActiveFiles \cap L = {}
    BY <2>1, <2>2, <2>3, <2>4, <1>3 DEF ActiveFiles
  <2>6. IsFiniteSet(L) /\ IsFiniteSet(ActiveFiles)
    BY FilesFinite
  <2> HIDE DEF L
  <2>7. SumBytes(size, ActiveFiles \cup L) = SumBytes(size, ActiveFiles) + SumBytes(size, L)
    BY <2>5, <2>6, SumOfDisjoint
  <2>8. treeTx.bytes = SumBytes(size, L)
    BY DEF L, n, ActiveSubtreeBytes
  <2>9. UsedBytes' = SumBytes(size, ActiveFiles \cup L)
    BY <2>5, <1>1 DEF UsedBytes, SumBytes, ByteSet
  <2> QED
    BY <1>6, <2>7, <2>8, <2>9 DEF UsedBytes
<1> QED
  BY <1>4, <1>5, <1>6

\* A version that is committed or restored in an active file.
LEMMA UsedByNewSize ==
  ASSUME TypeOK, TypeOK', used = UsedBytes, UNCHANGED <<row, parent>>,
         NEW f \in Files, Active(f), NEW sz \in Sizes,
         size' = [size EXCEPT ![f] = sz], used' = used - size[f] + sz
  PROVE  used' = UsedBytes'
<1>1. f \in ActiveFiles /\ ActiveFiles' = ActiveFiles
  BY DEF ActiveFiles, Active
<1>2. /\ size[f] \in Sizes /\ size'[f] = sz
      /\ \A g \in ActiveFiles \ {f} : size'[g] = size[g]
  BY DEF TypeOK, ActiveFiles
<1>3. SumBytes(size', ActiveFiles) = SumBytes(size, ActiveFiles) - size[f] + size'[f]
  <2> DEFINE A == ActiveFiles
             tz == size'
  <2>1. IsFiniteSet(A) /\ f \in A
    BY <1>1, FilesFinite
  <2>2. size[f] \in Sizes /\ tz[f] \in Sizes
    BY <1>2
  <2>3. \A y \in A \ {f} : tz[y] = size[y]
    BY <1>2
  <2> HIDE DEF A, tz
  <2>4. SumBytes(tz, A) = SumBytes(size, A) - size[f] + tz[f]
    BY ONLY <2>1, <2>2, <2>3, SumExchanged
  <2> QED
    BY <2>4 DEF A, tz
<1>4. UsedBytes' = SumBytes(size', ActiveFiles)
  BY <1>1 DEF UsedBytes, SumBytes, ByteSet
<1> QED
  BY <1>2, <1>3, <1>4 DEF UsedBytes

LEMMA UsedByNewFile ==
  ASSUME TreeInv, TreeInv', used = UsedBytes,
         NEW u \in Uploads, NEW f \in Files, FinalizeNew(u, f)
  PROVE  used' = UsedBytes'
<1>0. FolderInv /\ TypeOK /\ TypeOK' /\ TreeShape
  BY DEF TreeInv, FolderInv
<1>1. /\ row[f] = "absent" /\ Active(sess[u].parent) /\ u \in Open
      /\ row' = [row EXCEPT ![f] = "active"] /\ parent' = [parent EXCEPT ![f] = sess[u].parent]
      /\ size' = [size EXCEPT ![f] = sess[u].size] /\ used' = used + sess[u].size
  BY DEF FinalizeNew, FinalizeReady, Commit
<1>2. f \in Nodes /\ sess[u].parent \in Nodes /\ sess[u].size \in Sizes
  BY <1>0, <1>1, LedgerAssumption DEF Files, FolderInv, TypeOK, Session
<1>3. \A x \in Nodes : Active(x)' <=> Active(x) \/ x = f
  BY <1>0, <1>1, <1>2, AddKeepsTree
<1>4. f \notin ActiveFiles
  BY <1>0, <1>1, <1>2, ActiveExists DEF ActiveFiles
<1>5. ActiveFiles' = ActiveFiles \cup {f}
  <2>1. ActiveFiles' = {g \in Files : Active(g)'} /\ Files \subseteq Nodes
    BY DEF ActiveFiles, Files
  <2> QED
    BY <2>1, <1>3 DEF ActiveFiles
<1>6. size'[f] = sess[u].size /\ \A g \in ActiveFiles : size'[g] = size[g]
  BY <1>0, <1>1, <1>4 DEF TypeOK, ActiveFiles
<1>7. SumBytes(size', ActiveFiles \cup {f}) = SumBytes(size', ActiveFiles) + size'[f]
  BY <1>2, <1>4, <1>6, FilesFinite, SumWithMember
<1>8. SumBytes(size', ActiveFiles) = SumBytes(size, ActiveFiles)
  BY <1>6, SumOfEqual
<1>9. UsedBytes' = SumBytes(size', ActiveFiles \cup {f})
  BY <1>5 DEF UsedBytes, SumBytes, ByteSet
<1> QED
  BY <1>1, <1>6, <1>7, <1>8, <1>9 DEF UsedBytes

\* A trash or restore under way has measured what it will release or charge.
Measured == ~TreeFree => treeTx.bytes = ActiveSubtreeBytes(treeTx.node)

LEMMA UsedStep == UsedInv /\ [Next]_vars => UsedInv'
<1> SUFFICES ASSUME UsedInv, [Next]_vars, ~raced' PROVE used' = UsedBytes' /\ Measured'
  BY TreeStep DEF UsedInv, UsedIsDerivedUnlessRaced, Measured
<1>0. /\ TreeInv /\ TreeInv' /\ FolderInv /\ TypeOK /\ TypeOK' /\ TreeShape
      /\ ~raced => used = UsedBytes /\ Measured
  BY TreeStep DEF UsedInv, TreeInv, FolderInv, UsedIsDerivedUnlessRaced, Measured
<1>1. ASSUME treeTx' = NoTx PROVE Measured'
  BY <1>1 DEF Measured, TreeFree
<1>2. ASSUME UNCHANGED <<row, parent, size, treeTx, used>>, raced' = raced
      PROVE  used' = UsedBytes' /\ Measured'
  <2>1. used = UsedBytes /\ Measured
    BY <1>0, <1>2
  <2>2. UsedBytes' = UsedBytes
    BY <1>2 DEF UsedBytes, ActiveFiles, Active, SumBytes, ByteSet
  <2>3. \A n : ActiveSubtreeBytes(n)' = ActiveSubtreeBytes(n)
    BY <1>2 DEF ActiveSubtreeBytes, LiveSubtreeFiles, SumBytes, ByteSet
  <2> QED
    BY <2>1, <2>2, <2>3, <1>2 DEF Measured, TreeFree
<1>3. ASSUME ~raced, used' = used, size' = size, treeTx' = NoTx,
             \A x \in Files : Active(x)' <=> Active(x)
      PROVE  used' = UsedBytes' /\ Measured'
  <2>1. ActiveFiles' = {f \in Files : Active(f)'}
    BY DEF ActiveFiles
  <2>2. ActiveFiles' = ActiveFiles
    BY <2>1, <1>3 DEF ActiveFiles
  <2> QED
    BY <2>2, <1>0, <1>1, <1>3, UsedSame
<1>4. ASSUME NEW d \in Folders, NEW p \in Folders, NEW nm \in Names, CreateFolder(d, p, nm)
      PROVE  used' = UsedBytes' /\ Measured'
  <2>1. /\ row[d] = "absent" /\ Active(p) /\ treeTx' = NoTx
        /\ row' = [row EXCEPT ![d] = "active"] /\ parent' = [parent EXCEPT ![d] = p]
        /\ ~raced /\ used' = used /\ size' = size
    BY <1>4 DEF CreateFolder, TreeFree, fileVars, userVars
  <2>2. \A x \in Nodes : Active(x)' <=> Active(x) \/ x = d
    BY <2>1, <1>0, AddKeepsTree, LedgerAssumption
  <2>3. \A x \in Files : Active(x)' <=> Active(x)
    BY <2>2 DEF Files
  <2> QED
    BY <2>1, <2>3, <1>3
<1>5. ASSUME NEW D \in SUBSET (Folders \ {Root}), NEW p \in Folders, NEW up \in [D -> Folders],
             NEW nm \in [D -> Names], CreateFolderBatch(D, p, up, nm)
      PROVE  used' = UsedBytes' /\ Measured'
  <2>1. treeTx' = NoTx /\ ~raced /\ used' = used /\ size' = size
    BY <1>5 DEF CreateFolderBatch, TreeFree, fileVars, userVars
  <2>2. \A x \in Files : Active(x)' <=> Active(x)
    BY <1>0, <1>5, BatchKeepsTree, Zenon
  <2> QED
    BY <2>1, <2>2, <1>3
<1>6. ASSUME NEW n \in Nodes, NEW p \in Folders, Move(n, p) PROVE used' = UsedBytes' /\ Measured'
  <2>1. n # Root /\ Active(n) /\ Active(p) /\ ~WouldCycle(n, p) /\ treeTx' = NoTx
        /\ row' = row /\ parent' = [parent EXCEPT ![n] = p]
        /\ ~raced /\ used' = used /\ size' = size
    BY <1>6 DEF Move, TreeFree, fileVars, userVars
  <2>2. row[n] = "active"
    BY <2>1, <1>0, ActiveExists
  <2>3. row' = [row EXCEPT ![n] = "active"]
    BY <2>1, <2>2, <1>0 DEF TypeOK
  <2>4. n \notin Chain(parent, p)
    BY <2>1, <1>0, NoCycleIsMade
  <2>5. n \in Nodes \ {Root} /\ Exists(n) /\ p \in Nodes
    BY <2>1, <2>2, LedgerAssumption DEF Exists
  <2>6. \A x \in Nodes : Active(x)' <=> IF n \in Chain(parent, x)
                                        THEN \A m \in Below(parent, n, x) : row[m] = "active"
                                        ELSE Active(x)
    BY <2>1, <2>3, <2>4, <2>5, <1>0, HangKeepsTree, Zenon
  <2>7. ASSUME NEW x \in Nodes, n \in Chain(parent, x)
        PROVE  Active(x) <=> \A m \in Below(parent, n, x) : row[m] = "active"
    <3>1. Chain(parent, x) = Below(parent, n, x) \cup Chain(parent, n)
      BY <2>7, <1>0, TreeTypes, ChainSplits
    <3> QED
      BY <3>1, <2>1 DEF Active
  <2>8. \A x \in Files : Active(x)' <=> Active(x)
    BY <2>6, <2>7 DEF Files
  <2> QED
    BY <2>1, <2>8, <1>3
<1>7. ASSUME NEW S \in SUBSET Nodes, \A n \in S : row[n] = "trashed", PurgeAll(S)
      PROVE  used' = UsedBytes' /\ Measured'
  <2>1. treeTx' = NoTx /\ ~raced /\ used' = used
    BY <1>7 DEF PurgeAll, TreeFree, userVars
  <2>2. /\ \A x \in Nodes : Active(x)' <=> Active(x)
        /\ \A f \in Files : Active(f) => size'[f] = size[f]
    BY <1>0, <1>7, PurgeKeepsTree, Zenon
  <2>3. ActiveFiles' = {f \in Files : Active(f)'} /\ Files \subseteq Nodes
    BY DEF ActiveFiles, Files
  <2>4. ActiveFiles' = ActiveFiles /\ \A f \in ActiveFiles : size'[f] = size[f]
    BY <2>2, <2>3 DEF ActiveFiles
  <2> QED
    BY <2>1, <2>4, <1>0, <1>1, UsedSame
<1>8. ASSUME NEW n \in Nodes, TrashMeasure(n) PROVE used' = UsedBytes' /\ Measured'
  <2>1. /\ UNCHANGED <<row, parent, size, used, raced>> /\ ~TreeFree'
        /\ treeTx'.node = n /\ treeTx'.bytes = ActiveSubtreeBytes(n)
    BY <1>8 DEF TrashMeasure, treeVars, fileVars, userVars, TreeFree, NoTx
  <2>2. UsedBytes' = UsedBytes
    BY <2>1 DEF UsedBytes, ActiveFiles, Active, SumBytes, ByteSet
  <2>3. \A m : ActiveSubtreeBytes(m)' = ActiveSubtreeBytes(m)
    BY <2>1 DEF ActiveSubtreeBytes, LiveSubtreeFiles, SumBytes, ByteSet
  <2> QED
    BY <2>1, <2>2, <2>3, <1>0 DEF Measured
<1>9. ASSUME NEW n \in Nodes, NEW p \in Folders, NEW nm \in Names, RestoreMeasure(n, p, nm)
      PROVE  used' = UsedBytes' /\ Measured'
  <2>1. /\ UNCHANGED <<row, parent, size, used, raced>> /\ ~TreeFree'
        /\ treeTx'.node = n /\ treeTx'.bytes = ActiveSubtreeBytes(n)
    BY <1>9 DEF RestoreMeasure, treeVars, fileVars, userVars, TreeFree, NoTx
  <2>2. UsedBytes' = UsedBytes
    BY <2>1 DEF UsedBytes, ActiveFiles, Active, SumBytes, ByteSet
  <2>3. \A m : ActiveSubtreeBytes(m)' = ActiveSubtreeBytes(m)
    BY <2>1 DEF ActiveSubtreeBytes, LiveSubtreeFiles, SumBytes, ByteSet
  <2> QED
    BY <2>1, <2>2, <2>3, <1>0 DEF Measured
<1>10. CASE TrashCommit \/ RestoreCommit
  <2>1. treeTx' = NoTx /\ ~TreeFree /\ raced' = raced
    BY <1>10 DEF TrashCommit, RestoreCommit, TreeFree, NoTx
  <2>2. used = UsedBytes /\ treeTx.bytes = ActiveSubtreeBytes(treeTx.node)
    BY <2>1, <1>0 DEF Measured
  <2> QED
    BY <2>1, <2>2, <1>0, <1>1, <1>10, UsedByTrash, UsedByRestore
<1>11. ASSUME NEW u \in Uploads, NEW f \in Files, FinalizeNew(u, f)
       PROVE  used' = UsedBytes' /\ Measured'
  <2>1. treeTx' = NoTx /\ raced' = raced
    BY <1>11 DEF FinalizeNew, FinalizeReady, Commit, TreeFree
  <2> QED
    BY <2>1, <1>0, <1>1, <1>11, UsedByNewFile
<1>12. ASSUME NEW u \in Uploads, FinalizeVersion(u) PROVE used' = UsedBytes' /\ Measured'
  <2> DEFINE f == sess[u].target
  <2>1. /\ treeTx' = NoTx /\ raced' = raced /\ UNCHANGED <<row, parent>>
        /\ f # NoNode /\ row[f] = "active" /\ parent[f] = sess[u].parent
        /\ Active(sess[u].parent) /\ u \in Open
        /\ size' = [size EXCEPT ![f] = sess[u].size] /\ used' = used + (sess[u].size - size[f])
    BY <1>12 DEF FinalizeVersion, FinalizeReady, Commit, TreeFree, treeVars
  <2>2. f \in Files /\ f \in Nodes /\ sess[u].size \in Sizes /\ sess[u].parent \in Nodes
    BY <2>1, <1>0, LedgerAssumption DEF TypeOK, Session, FolderInv, Files
  <2> HIDE DEF f
  <2>3. Chain(parent, f) = {f} \cup Chain(parent, sess[u].parent)
    BY <2>1, <2>2, <1>0, TreeTypes, ChainIsParents, NoNodeAssumption
  <2>4. Active(f)
    BY <2>1, <2>3 DEF Active
  <2>5. used' = used - size[f] + sess[u].size
    BY <2>1, <2>2, <1>0, LedgerAssumption DEF TypeOK, Sizes
  <2> QED
    BY <2>1, <2>2, <2>4, <2>5, <1>0, <1>1, UsedByNewSize
<1>13. ASSUME NEW f \in Files, NEW sz \in Sizes, RestoreVersion(f, sz)
       PROVE  used' = UsedBytes' /\ Measured'
  <2>1. UNCHANGED <<row, parent, treeTx>>
    BY <1>13 DEF RestoreVersion, treeVars
  <2>2. CASE UNCHANGED <<size, used, raced>>
    BY <2>1, <2>2, <1>2
  <2>3. CASE /\ size' = [size EXCEPT ![f] = sz] /\ used' = used - size[f] + sz
             /\ raced' = (raced \/ ~Active(f) \/ (~TreeFree /\ treeTx.node \in Chain(parent, f)))
    <3>1. ~raced /\ Active(f) /\ (TreeFree \/ treeTx.node \notin Chain(parent, f))
      BY <2>3, Zenon
    <3>2. used' = UsedBytes'
      BY <2>1, <2>3, <3>1, <1>0, UsedByNewSize
    <3>3. ASSUME ~TreeFree PROVE treeTx.bytes = ActiveSubtreeBytes(treeTx.node)'
      <4> DEFINE L == LiveSubtreeFiles(treeTx.node)
      <4>1. f \notin L /\ L' = L
        BY <2>1, <3>1, <3>3 DEF LiveSubtreeFiles
      <4>2. \A g \in L : size'[g] = size[g]
        BY <2>3, <4>1, <1>0 DEF TypeOK, LiveSubtreeFiles
      <4>3. SumBytes(size', L) = SumBytes(size, L)
        BY <4>2, SumOfEqual
      <4>4. ActiveSubtreeBytes(treeTx.node)' = SumBytes(size', L')
        BY DEF ActiveSubtreeBytes, SumBytes, ByteSet
      <4>5. treeTx.bytes = SumBytes(size, L)
        BY <3>1, <3>3, <1>0 DEF Measured, ActiveSubtreeBytes
      <4> QED
        BY <4>1, <4>3, <4>4, <4>5
    <3>4. Measured'
      BY <3>3, <2>1 DEF Measured, TreeFree
    <3> QED
      BY <3>2, <3>4
  <2> QED
    BY <1>13, <2>2, <2>3, Zenon DEF RestoreVersion
<1>14. CASE Reconcile
  <2>1. /\ UNCHANGED <<row, parent, size, treeTx>> /\ used' = UsedBytes
        /\ raced' = (raced /\ ~TreeFree)
    BY <1>14 DEF Reconcile, treeVars, fileVars
  <2>2. UsedBytes' = UsedBytes
    BY <2>1 DEF UsedBytes, ActiveFiles, Active, SumBytes, ByteSet
  <2>3. \A n : ActiveSubtreeBytes(n)' = ActiveSubtreeBytes(n)
    BY <2>1 DEF ActiveSubtreeBytes, LiveSubtreeFiles, SumBytes, ByteSet
  <2>4. ~raced \/ TreeFree
    BY <2>1, Zenon
  <2> QED
    BY <2>1, <2>2, <2>3, <2>4, <1>0 DEF Measured, TreeFree
<1>15. ASSUME NEW n \in Nodes, Purge(n) PROVE used' = UsedBytes' /\ Measured'
  BY <1>7, <1>15 DEF Purge
<1>16. CASE EmptyTrash
  BY <1>7, <1>16 DEF EmptyTrash, TrashRoots
<1>17. ASSUME NEW n \in Nodes, NEW nm \in Names, Rename(n, nm)
       PROVE used' = UsedBytes' /\ Measured'
  BY <1>2, <1>17 DEF Rename, fileVars, userVars
<1>18. ASSUME NEW u \in Uploads, NEW p \in Folders, NEW nm \in Names, NEW sz \in Sizes,
              NEW t \in Files \cup {NoNode}, Create(u, p, nm, sz, t)
       PROVE  used' = UsedBytes' /\ Measured'
  BY <1>2, <1>18 DEF Create, treeVars, fileVars
<1>19. ASSUME NEW u \in Uploads, ExpiryPasses(u) \/ Cancel(u) \/ Expire(u) \/ BeginFinalize(u)
       PROVE  used' = UsedBytes' /\ Measured'
  BY <1>2, <1>19 DEF ExpiryPasses, Cancel, Expire, Close, BeginFinalize, treeVars, fileVars, userVars
<1>20. ASSUME NEW f \in Files, NEW sz \in Sizes, AuthorizeRestoreVersion(f, sz)
       PROVE  used' = UsedBytes' /\ Measured'
  BY <1>2, <1>20 DEF AuthorizeRestoreVersion, treeVars, fileVars, userVars
<1>21. CASE (\E q \in Quotas \cup {Unlimited} : SetQuota(q)) \/ UNCHANGED vars
  BY <1>2, <1>21 DEF SetQuota, vars, treeVars, fileVars, userVars
<1> QED
  BY <1>4, <1>5, <1>6, <1>8, <1>9, <1>10, <1>11, <1>12, <1>13, <1>14, <1>15, <1>16, <1>17,
     <1>18, <1>19, <1>20, <1>21 DEF Next

\* Whatever trashes, restores, moves, purges, commits and version restores
\* interleave, the used counter is the size of the owner's reachable files, unless
\* a version restore has met a trash since the last reconciliation.
THEOREM UsedAlwaysDerivedUnlessRaced == Spec => []UsedIsDerivedUnlessRaced
<1>1. Init => UsedIsDerivedUnlessRaced
  <2> SUFFICES ASSUME Init PROVE UsedIsDerivedUnlessRaced
    OBVIOUS
  <2>1. ByteSet(size, ActiveFiles) = {}
    <3>1. \A f \in Files : size[f] = 0
      BY DEF Init
    <3>2. ActiveFiles \subseteq Files
      BY DEF ActiveFiles
    <3> QED
      BY <3>1, <3>2, LedgerAssumption DEF ByteSet
  <2>2. UsedBytes = 0
    BY <2>1, FS_EmptySet DEF UsedBytes, SumBytes
  <2> QED
    BY <2>2 DEF Init, UsedIsDerivedUnlessRaced, TreeFree
<1>2. Init => UsedInv
  BY <1>1, TreeInit DEF UsedInv
<1>3. UsedInv => UsedIsDerivedUnlessRaced
  BY DEF UsedInv
<1> QED
  BY <1>2, <1>3, UsedStep, PTL DEF Spec
=============================================================================
