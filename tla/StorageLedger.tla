---------------------------- MODULE StorageLedger ----------------------------
(***************************************************************************)
(* The quota ledger of one owner: the storage_used_bytes and               *)
(* storage_reserved_bytes counters of a users row, and every operation     *)
(* that has to keep them in step with the owner's node tree and upload     *)
(* sessions (internal/uploads, internal/nodes, internal/files,             *)
(* internal/adminops).                                                     *)
(*                                                                         *)
(* An action is one database transaction.  The transactions that take the  *)
(* owner-tree advisory lock exclude one another; Trash and Restore are cut *)
(* in two at the point where the subtree has been measured and the users   *)
(* row is not locked yet, because RestoreVersion, which takes no tree      *)
(* lock, can commit there.  Finalize and RestoreVersion are cut after the  *)
(* checks they make before their transaction begins.                       *)
(***************************************************************************)
EXTENDS Integers, FiniteSets, NodeForest

CONSTANTS
    Folders,    \* the node identifiers of kind "folder"; the others are files
    Root,       \* the owner's root folder
    Names,      \* name keys
    NoName,     \* the name of a row that does not exist
    Uploads,    \* upload session identifiers
    MaxSize,    \* the largest file size of the instance
    Quotas,     \* the quotas an administrator may set
    Unlimited   \* the NULL quota

ASSUME LedgerAssumption ==
    /\ IsFiniteSet(Nodes) /\ IsFiniteSet(Uploads)
    /\ Folders \subseteq Nodes
    /\ Root \in Folders
    /\ NoName \notin Names
    /\ MaxSize \in Nat
    /\ Quotas \subseteq Nat
    /\ Unlimited \notin Nat

Files == Nodes \ Folders
Sizes == 0 .. MaxSize

VARIABLES
    row,        \* nodes.deleted_at: "absent", "active", "trashed" or "purged"
    parent,     \* nodes.parent_id
    name,       \* nodes.name_key
    size,       \* files.size_bytes
    versions,   \* the sizes of the file_versions rows of a file
    sess,       \* upload_sessions
    due,        \* the sessions whose expires_at has passed
    finalizing, \* the sessions some Finalize call has passed its first checks for
    treeTx,     \* the Trash or Restore that holds the owner-tree lock
    restoring,  \* <<file, size>> of RestoreVersion calls past their access check
    used,       \* users.storage_used_bytes
    reserved,   \* users.storage_reserved_bytes
    quota,      \* users.storage_quota_bytes
    raced       \* history: a RestoreVersion has run against a trash since the
                \* last reconciliation

treeVars == <<row, parent, name>>
fileVars == <<size, versions>>
sessVars == <<sess, due, finalizing>>
userVars == <<used, reserved, quota>>
vars == <<treeVars, fileVars, sessVars, treeTx, restoring, userVars, raced>>

-----------------------------------------------------------------------------
\* What the queries compute.

Active(n) == \A m \in Chain(parent, n) : row[m] = "active"

ActiveFiles == {f \in Files : Active(f)}

\* The sum of size[f] over the files of S: one pair for each byte.
ByteSet(sz, S) == {p \in S \X (1 .. MaxSize) : p[2] <= sz[p[1]]}
SumBytes(sz, S) == Cardinality(ByteSet(sz, S))

UsedBytes == SumBytes(size, ActiveFiles)

Open == {u \in Uploads : sess[u].status = "open"}
Reservations == [u \in Uploads |-> sess[u].reserved]
ReservedBytes == SumBytes(Reservations, Open)

\* The files activeSubtreeBytes sums: those reached from n through rows that
\* are not deleted (n itself may be).
LiveFilesJustBelow(n) ==  \* mutant
    {f \in Files : n \in {f, parent[f]} /\ \A m \in Below(parent, n, f) : row[m] = "active"}
LiveSubtreeFiles(n) ==
    {f \in Files : /\ n \in Chain(parent, f)
                   /\ \A m \in Below(parent, n, f) : row[m] = "active"}
ActiveSubtreeBytes(n) == SumBytes(size, LiveSubtreeFiles(n))

NameTaken(p, nm) ==
    \E m \in Nodes : row[m] = "active" /\ parent[m] = p /\ name[m] = nm

QuotaAllowsIgnoringReserved(q, u, r, requested) ==  \* mutant
    IF q = Unlimited THEN TRUE ELSE u + requested <= q
QuotaAllows(q, u, r, requested) == IF q = Unlimited THEN TRUE ELSE u + r + requested <= q

\* folderContains: n is p or one of its ancestors.
CyclesOnItselfOnly(n, p) == n = p  \* mutant
WouldCycle(n, p) == n \in Folders /\ n \in Chain(parent, p)

\* The sessions whose parent or committed file is about to be purged.
AffectedByFileOnly(gone) == {u \in Uploads : sess[u].file \in gone}  \* mutant
Affected(gone) == {u \in Uploads : sess[u].parent \in gone \/ sess[u].file \in gone}

\* A session for a new file reserves its size; one that names the existing
\* file t it replaces reserves only what t would grow by.
Reserve(sz, t) == IF t = NoNode THEN sz ELSE IF sz > size[t] THEN sz - size[t] ELSE 0

NoTx == [op |-> "none"]
TreeFree == treeTx = NoTx
NoSession == [status |-> "none", parent |-> NoNode, name |-> NoName, size |-> 0,
              reserved |-> 0, target |-> NoNode, file |-> NoNode]

-----------------------------------------------------------------------------
Init ==
    /\ row = [n \in Nodes |-> IF n = Root THEN "active" ELSE "absent"]
    /\ parent = [n \in Nodes |-> NoNode]
    /\ name = [n \in Nodes |-> NoName]
    /\ size = [f \in Files |-> 0]
    /\ versions = [f \in Files |-> {}]
    /\ sess = [u \in Uploads |-> NoSession]
    /\ due = {}
    /\ finalizing = {}
    /\ treeTx = NoTx
    /\ restoring = {}
    /\ used = 0
    /\ reserved = 0
    /\ quota \in Quotas \cup {Unlimited}
    /\ raced = FALSE

-----------------------------------------------------------------------------
\* The tree.

CreateFolder(d, p, nm) ==
    /\ TreeFree
    /\ row[d] = "absent"
    /\ Active(p)
    /\ ~NameTaken(p, nm)
    /\ row' = [row EXCEPT ![d] = "active"]
    /\ parent' = [parent EXCEPT ![d] = p]
    /\ name' = [name EXCEPT ![d] = nm]
    /\ UNCHANGED <<fileVars, sessVars, treeTx, restoring, userVars, raced>>

\* The folders D in one transaction, up and nm giving their parents and names.
\* A folder of the request that exists already is resolved, not created: the
\* parents outside D are p and the active folders below it.
CreateFolderBatch(D, p, up, nm) ==
    LET parentAfter == [n \in Nodes |-> IF n \in D THEN up[n] ELSE parent[n]]
    IN  /\ TreeFree
        /\ \A d \in D :
              /\ row[d] = "absent"
              /\ ~NameTaken(up[d], nm[d])
              /\ \A e \in D \ {d} : <<up[d], nm[d]>> # <<up[e], nm[e]>>
        /\ Active(p)
        /\ \A d \in D :
              /\ p \in Chain(parentAfter, d)
              /\ \A m \in Chain(parentAfter, d) \ D : row[m] = "active"
        /\ row' = [n \in Nodes |-> IF n \in D THEN "active" ELSE row[n]]
        /\ parent' = parentAfter
        /\ name' = [n \in Nodes |-> IF n \in D THEN nm[n] ELSE name[n]]
        /\ UNCHANGED <<fileVars, sessVars, treeTx, restoring, userVars, raced>>

Rename(n, nm) ==
    /\ TreeFree
    /\ n # Root
    /\ Active(n)
    /\ ~\E m \in Nodes \ {n} : row[m] = "active" /\ parent[m] = parent[n] /\ name[m] = nm
    /\ name' = [name EXCEPT ![n] = nm]
    /\ UNCHANGED <<row, parent, fileVars, sessVars, treeTx, restoring, userVars, raced>>

\* Moving to the present parent changes nothing, so only p # parent[n] is a step.
Move(n, p) ==
    /\ TreeFree
    /\ n # Root
    /\ Active(n)
    /\ Active(p)
    /\ p # parent[n]
    /\ ~WouldCycle(n, p)
    /\ ~NameTaken(p, name[n])
    /\ parent' = [parent EXCEPT ![n] = p]
    /\ UNCHANGED <<row, name, fileVars, sessVars, treeTx, restoring, userVars, raced>>

\* Trash up to the point where the subtree has been summed.
TrashMeasure(n) ==
    /\ TreeFree
    /\ n # Root
    /\ Active(n)
    /\ treeTx' = [op |-> "trash", node |-> n, bytes |-> ActiveSubtreeBytes(n)]
    /\ UNCHANGED <<treeVars, fileVars, sessVars, restoring, userVars, raced>>

\* The rest of Trash: lock the users row, release the bytes, mark the node.
TrashCommit ==
    /\ treeTx.op = "trash"
    /\ treeTx' = NoTx
    /\ IF used < treeTx.bytes
         THEN UNCHANGED <<row, used>>
         ELSE /\ used' = used - treeTx.bytes
              /\ row' = [row EXCEPT ![treeTx.node] = "trashed"]
    /\ UNCHANGED <<parent, name, fileVars, sessVars, restoring, reserved, quota, raced>>

\* Restore of n under p with name nm, up to the sum of the subtree.
RestoreMeasure(n, p, nm) ==
    /\ TreeFree
    /\ n # Root
    /\ row[n] = "trashed"
    /\ Active(p)
    /\ ~WouldCycle(n, p)
    /\ ~NameTaken(p, nm)
    /\ treeTx' = [op |-> "restore", node |-> n, parent |-> p, name |-> nm,
                  bytes |-> ActiveSubtreeBytes(n)]
    /\ UNCHANGED <<treeVars, fileVars, sessVars, restoring, userVars, raced>>

RestoreCommit ==
    /\ treeTx.op = "restore"
    /\ treeTx' = NoTx
    /\ IF QuotaAllows(quota, used, reserved, treeTx.bytes)
         THEN /\ used' = used + treeTx.bytes
              /\ row' = [row EXCEPT ![treeTx.node] = "active"]
              /\ parent' = [parent EXCEPT ![treeTx.node] = treeTx.parent]
              /\ name' = [name EXCEPT ![treeTx.node] = treeTx.name]
         ELSE UNCHANGED <<used, treeVars>>
    /\ UNCHANGED <<fileVars, sessVars, restoring, reserved, quota, raced>>

\* Purge of the trashed nodes of S, all in one transaction: the rows, the
\* sessions that point into them, and the target of the sessions that remain.
PurgeAll(S) ==
    LET gone == UNION {Subtree(parent, n) : n \in S}
        affected == Affected(gone)
    IN  /\ TreeFree
        /\ affected \cap Open = {}
        /\ row' = [n \in Nodes |-> IF n \in gone THEN "purged" ELSE row[n]]
        /\ parent' = [n \in Nodes |-> IF n \in gone THEN NoNode ELSE parent[n]]
        /\ name' = [n \in Nodes |-> IF n \in gone THEN NoName ELSE name[n]]
        /\ size' = [f \in Files |-> IF f \in gone THEN 0 ELSE size[f]]
        /\ versions' = [f \in Files |-> IF f \in gone THEN {} ELSE versions[f]]
        /\ sess' = [u \in Uploads |->
                       IF u \in affected THEN [NoSession EXCEPT !.status = "gone"]
                       ELSE IF sess[u].target \in gone
                         THEN [sess[u] EXCEPT !.target = NoNode]
                         ELSE sess[u]]
        /\ due' = due \ affected
        /\ finalizing' = finalizing \ affected
        /\ UNCHANGED <<treeTx, restoring, userVars, raced>>

Purge(n) == n # Root /\ row[n] = "trashed" /\ PurgeAll({n})

\* The trashed nodes with no trashed ancestor.
TrashRoots == {n \in Nodes : /\ row[n] = "trashed"
                             /\ \A m \in Chain(parent, n) \ {n} : row[m] # "trashed"}
EmptyTrash == TrashRoots # {} /\ PurgeAll(TrashRoots)

-----------------------------------------------------------------------------
\* Upload sessions.

Create(u, p, nm, sz, t) ==
    LET reserve == Reserve(sz, t)
    IN  /\ TreeFree
        /\ sess[u].status = "none"
        /\ Active(p)
        /\ IF t = NoNode
             THEN ~NameTaken(p, nm)
             ELSE row[t] = "active" /\ parent[t] = p /\ name[t] = nm
        /\ QuotaAllows(quota, used, reserved, reserve)
        /\ reserved' = reserved + reserve
        /\ sess' = [sess EXCEPT ![u] =
                       [status |-> "open", parent |-> p, name |-> nm, size |-> sz,
                        reserved |-> reserve, target |-> t, file |-> NoNode]]
        /\ UNCHANGED <<treeVars, fileVars, due, finalizing, treeTx, restoring, used, quota, raced>>

\* Time passes the expiry of an open session.
ExpiryPasses(u) ==
    /\ u \in Open \ due
    /\ due' = due \cup {u}
    /\ UNCHANGED <<treeVars, fileVars, sess, finalizing, treeTx, restoring, userVars, raced>>

\* releaseReservation and the change of status that follows it.
CloseKeepingReservation(u, status) ==  \* mutant
    /\ sess' = [sess EXCEPT ![u].status = status]
    /\ UNCHANGED <<treeVars, fileVars, due, finalizing, treeTx, restoring, userVars, raced>>
Close(u, status) ==
    /\ reserved >= sess[u].reserved
    /\ reserved' = reserved - sess[u].reserved
    /\ sess' = [sess EXCEPT ![u].status = status]
    /\ UNCHANGED <<treeVars, fileVars, due, finalizing, treeTx, restoring, used, quota, raced>>

Cancel(u) == u \in Open /\ Close(u, "cancelled")

Expire(u) == u \in Open \cap due /\ Close(u, "expired")

\* Finalize up to the start of its transaction: the session is open, not
\* expired and complete.  Any number of calls may have passed this point.
BeginFinalize(u) ==
    /\ u \in Open \ due
    /\ u \notin finalizing
    /\ finalizing' = finalizing \cup {u}
    /\ UNCHANGED <<treeVars, fileVars, sess, due, treeTx, restoring, userVars, raced>>

\* The checks Finalize makes under the session row and owner-tree locks.
FinalizeReady(u) ==
    /\ TreeFree
    /\ u \in finalizing
    /\ u \in Open
    /\ sess[u].reserved = sess[u].size
    /\ Active(sess[u].parent)
    /\ reserved >= sess[u].reserved

Commit(u, f, delta) ==
    /\ size' = [size EXCEPT ![f] = sess[u].size]
    /\ versions' = [versions EXCEPT ![f] = @ \cup {sess[u].size}]
    /\ reserved' = reserved - sess[u].reserved
    /\ used' = used + delta
    /\ sess' = [sess EXCEPT ![u].status = "completed", ![u].file = f]
    /\ UNCHANGED <<due, finalizing, treeTx, restoring, quota, raced>>

FinalizeNew(u, f) ==
    /\ FinalizeReady(u)
    /\ sess[u].target = NoNode
    /\ row[f] = "absent"
    /\ ~NameTaken(sess[u].parent, sess[u].name)
    /\ row' = [row EXCEPT ![f] = "active"]
    /\ parent' = [parent EXCEPT ![f] = sess[u].parent]
    /\ name' = [name EXCEPT ![f] = sess[u].name]
    /\ Commit(u, f, sess[u].size)

FinalizeVersion(u) ==
    LET f == sess[u].target
        delta == sess[u].size - size[f]
    IN  /\ FinalizeReady(u)
        /\ f # NoNode
        /\ row[f] = "active" /\ parent[f] = sess[u].parent /\ name[f] = sess[u].name
        /\ used + delta >= 0
        /\ Commit(u, f, delta)
        /\ UNCHANGED treeVars

-----------------------------------------------------------------------------
\* Versions, reconciliation, the administrator.

\* RestoreVersion: GetEditable has found the file reachable and permitted.
AuthorizeRestoreVersion(f, sz) ==
    /\ Active(f)
    /\ sz \in versions[f]
    /\ restoring' = restoring \cup {<<f, sz>>}
    /\ UNCHANGED <<treeVars, fileVars, sessVars, treeTx, userVars, raced>>

\* The transaction of RestoreVersion: it locks the files and users rows, takes
\* no tree lock and does not look at deleted_at again.
RestoreVersion(f, sz) ==
    LET next == used - size[f] + sz
    IN  /\ <<f, sz>> \in restoring
        /\ restoring' = restoring \ {<<f, sz>>}
        /\ IF sz \in versions[f] /\ used >= size[f] /\ QuotaAllows(quota, next, reserved, 0)
             THEN /\ size' = [size EXCEPT ![f] = sz]
                  /\ used' = next
                  /\ raced' = \/ raced
                              \/ ~Active(f)
                              \/ ~TreeFree /\ treeTx.node \in Chain(parent, f)
             ELSE UNCHANGED <<size, used, raced>>
        /\ UNCHANGED <<treeVars, versions, sessVars, treeTx, reserved, quota>>

\* ReconcileQuota: recompute both counters under the users row lock.
Reconcile ==
    /\ used' = UsedBytes
    /\ reserved' = ReservedBytes
    /\ raced' = (raced /\ ~TreeFree)
    /\ UNCHANGED <<treeVars, fileVars, sessVars, treeTx, restoring, quota>>

SetQuota(q) ==
    /\ quota' = q
    /\ UNCHANGED <<treeVars, fileVars, sessVars, treeTx, restoring, used, reserved, raced>>

-----------------------------------------------------------------------------
Next ==
    \/ \E d \in Folders, p \in Folders, nm \in Names : CreateFolder(d, p, nm)
    \/ \E D \in SUBSET (Folders \ {Root}), p \in Folders :
          \E up \in [D -> Folders], nm \in [D -> Names] :
             D # {} /\ CreateFolderBatch(D, p, up, nm)
    \/ \E n \in Nodes, nm \in Names : Rename(n, nm)
    \/ \E n \in Nodes, p \in Folders : Move(n, p)
    \/ \E n \in Nodes : TrashMeasure(n)
    \/ TrashCommit
    \/ \E n \in Nodes, p \in Folders, nm \in Names : RestoreMeasure(n, p, nm)
    \/ RestoreCommit
    \/ \E n \in Nodes : Purge(n)
    \/ EmptyTrash
    \/ \E u \in Uploads, p \in Folders, nm \in Names, sz \in Sizes, t \in Files \cup {NoNode} :
          Create(u, p, nm, sz, t)
    \/ \E u \in Uploads : ExpiryPasses(u)
    \/ \E u \in Uploads : Cancel(u)
    \/ \E u \in Uploads : Expire(u)
    \/ \E u \in Uploads : BeginFinalize(u)
    \/ \E u \in Uploads, f \in Files : FinalizeNew(u, f)
    \/ \E u \in Uploads : FinalizeVersion(u)
    \/ \E f \in Files, sz \in Sizes : AuthorizeRestoreVersion(f, sz)
    \/ \E f \in Files, sz \in Sizes : RestoreVersion(f, sz)
    \/ Reconcile
    \/ \E q \in Quotas \cup {Unlimited} : SetQuota(q)

Spec == Init /\ [][Next]_vars
-----------------------------------------------------------------------------
\* Properties.

Session == [status : {"none", "open", "completed", "cancelled", "expired", "gone"},
            parent : Folders \cup {NoNode}, name : Names \cup {NoName},
            size : Sizes, reserved : Sizes,
            target : Files \cup {NoNode}, file : Files \cup {NoNode}]
TreeTx == {NoTx}
          \cup [op : {"trash"}, node : Nodes, bytes : Nat]
          \cup [op : {"restore"}, node : Nodes, parent : Folders, name : Names, bytes : Nat]

\* Every variable stays in the range its column or type allows; the counters
\* never go below zero, as the CHECK constraints of the users table require.
TypeOK ==
    /\ row \in [Nodes -> {"absent", "active", "trashed", "purged"}]
    /\ parent \in [Nodes -> Folders \cup {NoNode}]
    /\ name \in [Nodes -> Names \cup {NoName}]
    /\ size \in [Files -> Sizes]
    /\ versions \in [Files -> SUBSET Sizes]
    /\ sess \in [Uploads -> Session]
    /\ due \subseteq Uploads
    /\ finalizing \subseteq Uploads
    /\ treeTx \in TreeTx
    /\ restoring \subseteq Files \X Sizes
    /\ used \in Nat
    /\ reserved \in Nat
    /\ quota \in Quotas \cup {Unlimited}
    /\ raced \in BOOLEAN

\* The reserved counter is always the sum of the reservations of the open
\* sessions: whatever order creations, cancellations, expiries, concurrent
\* finalizations and purges commit in, no reservation is lost or released twice.
ReservedIsDerived == reserved = ReservedBytes

\* The used counter is the size of the owner's reachable files, and a
\* measurement taken by a trash or restore under way is still right when it is
\* used, as long as no version restore has slipped past the tree lock.
UsedIsDerivedUnlessRaced ==
    ~raced => /\ used = UsedBytes
              /\ ~TreeFree => treeTx.bytes = ActiveSubtreeBytes(treeTx.node)

\* The quota model of the operator's manual, without the proviso.
UsedIsDerived == used = UsedBytes

\* Every node that exists hangs from the root: no move or restore closes a
\* cycle and no purge leaves a child behind.
EveryNodeReachesRoot ==
    \A n \in Nodes : row[n] \in {"active", "trashed"} =>
        /\ Root \in Chain(parent, n)
        /\ \A m \in Chain(parent, n) : row[m] \in {"active", "trashed"}

\* An open session keeps a folder to commit into: it may be in the trash, but a
\* purge never takes it away.
OpenSessionKeepsFolder == \A u \in Open : row[sess[u].parent] \in {"active", "trashed"}

\* No operation other than reconciliation takes an owner past the quota: a step
\* that adds to what is used and reserved ends within the quota of the moment.
GrowthStaysWithinQuota ==
    [][\/ used' + reserved' <= used + reserved
       \/ quota' = Unlimited
       \/ used' + reserved' <= quota'
       \/ Reconcile]_vars

\* A session closes once: completed, cancelled and expired are final, and the
\* file a session was committed to never changes, until a purge removes the row.
SessionsCloseOnce ==
    [][\A u \in Uploads : sess[u].status \notin {"none", "open"} =>
          \/ sess'[u].status = "gone"
          \/ sess'[u].status = sess[u].status /\ sess'[u].file = sess[u].file]_vars

\* "Existing same-name file to replace with a new immutable revision": a
\* session that replaces a file which is still in its place, with nothing in
\* its way, can be finalized.
ReplacementCanFinalize ==
    \A u \in Open \cap finalizing :
        LET f == sess[u].target
        IN  /\ f # NoNode
            /\ TreeFree
            /\ Active(sess[u].parent)
            /\ row[f] = "active" /\ parent[f] = sess[u].parent /\ name[f] = sess[u].name
            => ENABLED FinalizeVersion(u)
=============================================================================
