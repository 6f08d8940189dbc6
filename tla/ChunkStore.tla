----------------------------- MODULE ChunkStore -----------------------------
(***************************************************************************)
(* Where file bytes live: chunk rows in PostgreSQL that locate attachment  *)
(* messages on Discord.  PutPart calls (internal/uploads/parts.go) post    *)
(* and register chunks or share existing ones, Finalize commits them,      *)
(* the orphan sweeper (internal/orphangc) deletes the ones nobody          *)
(* committed, and Purge (internal/nodes/purge.go) drops rows.              *)
(*                                                                         *)
(* The database and Discord are two systems: every action below is one     *)
(* statement, transaction or Discord call, and a PutPart call or the sweep *)
(* may be cut off between any two of them.  What holds them together is    *)
(* the digest advisory lock (internal/chunks/lock.go), a session-level     *)
(* lock held on one connection while the work is done on others.           *)
(*                                                                         *)
(* A chunk row is named by the message it locates: a row keeps its locator *)
(* for life and no two rows share one.                                     *)
(***************************************************************************)
EXTENDS Naturals, FiniteSets

CONSTANTS
    Digests,    \* (sha256, size) identities of parts
    Copies,     \* tells apart the messages posted for one digest; bounds them
    NoMessage,
    Uploads,    \* upload sessions
    Verified,   \* the sessions created with a FileSHA256 to check
    Parts,      \* the part indexes of every session
    Files,      \* files, as named by their node
    NoFile,
    Callers,    \* PutPart calls that may be in flight together
    Sweeper,    \* the orphan sweeper
    Nobody,     \* the holder of a free lock
    MaxFaults,  \* bound on cut-off calls, ambiguous answers and lost locks
    LocksMayBeLost  \* whether the connection that holds a lock may die

\* Discord messages, each posted at most once: <<digest posted, copy>>.
Messages == Digests \X Copies
DigestOf(m) == m[1]

ASSUME ChunkAssumption ==
    /\ NoMessage \notin Messages
    /\ NoFile \notin Files
    /\ Verified \subseteq Uploads
    /\ Sweeper \notin Callers
    /\ Nobody \notin Callers \cup {Sweeper}
    /\ MaxFaults \in Nat
    /\ LocksMayBeLost \in BOOLEAN

VARIABLES
    msg,        \* Discord: "unused", "live" or "deleted"
    chunk,      \* chunks.status of the row for a message, or "none"
    aged,       \* the rows older than the technical grace period
    sess,       \* upload_sessions.status; "closed" is cancelled or expired
    part,       \* upload_parts: the chunk of each part
    hashed,     \* the sessions whose file hash Finalize has verified
    refs,       \* file_chunks and file_version_chunks of a file
    commit,     \* upload_sessions.committed_file_id
    file,       \* nodes: "absent", "present" or "purged"
    lock,       \* the holder of each digest lock
    call,       \* the PutPart calls
    gc,         \* the sweeper
    exposed,    \* history: digests for which a sweep was cut after its Discord
                \* delete, or whose lock was lost
    faults      \* history: the faults so far

rowVars == <<chunk, aged>>
sessVars == <<sess, part, hashed, commit>>
fileVars == <<refs, file>>
vars == <<msg, rowVars, sessVars, fileVars, lock, call, gc, exposed, faults>>

-----------------------------------------------------------------------------
Idle == [pc |-> "idle"]

Open == {u \in Uploads : sess[u] = "open"}

\* FindByDigest: the row of a digest, whatever its status.
RowsOf(d) == {m \in Messages : chunk[m] # "none" /\ DigestOf(m) = d}

ReferencedByFile(m) == \E f \in Files : m \in refs[f]
ReferencedByPart(m, S) == \E u \in S, i \in Parts : part[u][i] = m

\* The eligibility query of the sweeper.
EligibleIgnoringParts(m) ==  \* mutant
    chunk[m] = "uncommitted" /\ m \in aged /\ ~ReferencedByFile(m)
Eligible(m) ==
    /\ chunk[m] = "uncommitted"
    /\ m \in aged
    /\ ~ReferencedByFile(m)
    /\ ~ReferencedByPart(m, Open)

\* A process gives up a lock it may have lost already.
StaysLocked(p, d) == lock  \* mutant
Unlocked(p, d) == IF lock[d] = p THEN [lock EXCEPT ![d] = Nobody] ELSE lock

Fault == faults < MaxFaults /\ faults' = faults + 1

-----------------------------------------------------------------------------
Init ==
    /\ msg = [m \in Messages |-> "unused"]
    /\ chunk = [m \in Messages |-> "none"]
    /\ aged = {}
    /\ sess = [u \in Uploads |-> "none"]
    /\ part = [u \in Uploads |-> [i \in Parts |-> NoMessage]]
    /\ hashed = {}
    /\ refs = [f \in Files |-> {}]
    /\ commit = [u \in Uploads |-> NoFile]
    /\ file = [f \in Files |-> "absent"]
    /\ lock = [d \in Digests |-> Nobody]
    /\ call = [c \in Callers |-> Idle]
    /\ gc = Idle
    /\ exposed = {}
    /\ faults = 0

-----------------------------------------------------------------------------
\* Sessions.

CreateSession(u) ==
    /\ sess[u] = "none"
    /\ sess' = [sess EXCEPT ![u] = "open"]
    /\ UNCHANGED <<msg, rowVars, part, hashed, commit, fileVars, lock, call, gc, exposed, faults>>

\* Cancel, or the expiry worker.
CloseSession(u) ==
    /\ u \in Open
    /\ sess' = [sess EXCEPT ![u] = "closed"]
    /\ UNCHANGED <<msg, rowVars, part, hashed, commit, fileVars, lock, call, gc, exposed, faults>>

Complete(u) == \A i \in Parts : part[u][i] # NoMessage

\* hashFile: Finalize reads every chunk back before its transaction.
VerifyHash(u) ==
    /\ u \in Open \cap Verified
    /\ Complete(u)
    /\ \A i \in Parts : msg[part[u][i]] = "live"
    /\ hashed' = hashed \cup {u}
    /\ UNCHANGED <<msg, rowVars, sess, part, commit, fileVars, lock, call, gc, exposed, faults>>

\* MarkReadyTx.
MarkReadyOneRow(u) ==  \* mutant
    [chunk EXCEPT ![part[u][CHOOSE i \in Parts : TRUE]] = "ready"]
MarkReady(u) ==
    [m \in Messages |->
        IF chunk[m] # "none" /\ ReferencedByPart(m, {u}) THEN "ready" ELSE chunk[m]]

\* The transaction of Finalize: a new file, or a new version of f.
Finalize(u, f) ==
    /\ u \in Open
    /\ Complete(u)
    /\ u \in Verified => u \in hashed
    /\ file[f] # "purged"
    /\ file' = [file EXCEPT ![f] = "present"]
    /\ refs' = [refs EXCEPT ![f] = @ \cup {part[u][i] : i \in Parts}]
    /\ chunk' = MarkReady(u)
    /\ sess' = [sess EXCEPT ![u] = "completed"]
    /\ commit' = [commit EXCEPT ![u] = f]
    /\ UNCHANGED <<msg, aged, part, hashed, lock, call, gc, exposed, faults>>

\* The chunk rows that only the file f and the parts of the sessions S refer to.
DroppedWithFile(f, S) == refs[f]  \* mutant
Dropped(f, S) ==
    {m \in refs[f] : /\ \A g \in Files \ {f} : m \notin refs[g]
                     /\ ~ReferencedByPart(m, Uploads \ S)}

\* purgeTx of a subtree that holds the file f and the parent folders of the
\* sessions S.  It takes no digest lock and deletes nothing on Discord.
Purge(f, S) ==
    LET dropped == Dropped(f, S)
    IN  /\ file[f] = "present"
        /\ {u \in Uploads : commit[u] = f} \subseteq S
        /\ \A u \in S : sess[u] \in {"closed", "completed"}
        /\ file' = [file EXCEPT ![f] = "purged"]
        /\ refs' = [refs EXCEPT ![f] = {}]
        /\ sess' = [u \in Uploads |-> IF u \in S THEN "gone" ELSE sess[u]]
        /\ part' = [u \in Uploads |-> IF u \in S THEN [i \in Parts |-> NoMessage] ELSE part[u]]
        /\ commit' = [u \in Uploads |-> IF u \in S THEN NoFile ELSE commit[u]]
        /\ chunk' = [m \in Messages |-> IF m \in dropped THEN "none" ELSE chunk[m]]
        /\ aged' = aged \ dropped
        /\ UNCHANGED <<msg, hashed, lock, call, gc, exposed, faults>>

\* A chunk row outlives the grace period.
Age(m) ==
    /\ chunk[m] # "none" /\ m \notin aged
    /\ aged' = aged \cup {m}
    /\ UNCHANGED <<msg, chunk, sessVars, fileVars, lock, call, gc, exposed, faults>>

-----------------------------------------------------------------------------
\* A PutPart call: u is the session, i the part, d the digest of its body.

At(c, pc) == call[c].pc = pc
Goto(c, pc) == call' = [call EXCEPT ![c].pc = pc]
Return(c) ==
    /\ lock' = Unlocked(c, call[c].d)
    /\ call' = [call EXCEPT ![c] = Idle]

\* Session open, part not there yet, body spooled and hashed.
PutPart(c, u, i, d) ==
    /\ call[c] = Idle
    /\ u \in Open
    /\ part[u][i] = NoMessage
    /\ call' = [call EXCEPT ![c] = [pc |-> "lock", u |-> u, i |-> i, d |-> d, m |-> NoMessage]]
    /\ UNCHANGED <<msg, rowVars, sessVars, fileVars, lock, gc, exposed, faults>>

LockDigestAnyway(c) ==  \* mutant
    /\ At(c, "lock")
    /\ lock' = [lock EXCEPT ![call[c].d] = c]
    /\ Goto(c, "recheck")
    /\ UNCHANGED <<msg, rowVars, sessVars, fileVars, gc, exposed, faults>>
LockDigest(c) ==
    /\ At(c, "lock")
    /\ lock[call[c].d] = Nobody
    /\ lock' = [lock EXCEPT ![call[c].d] = c]
    /\ Goto(c, "recheck")
    /\ UNCHANGED <<msg, rowVars, sessVars, fileVars, gc, exposed, faults>>

\* Under the lock: the session and the part are read again; a part that has
\* appeared or a session that has closed ends the call.
Recheck(c) ==
    /\ At(c, "recheck")
    /\ IF call[c].u \in Open /\ part[call[c].u][call[c].i] = NoMessage
         THEN Goto(c, "find") /\ UNCHANGED lock
         ELSE Return(c)
    /\ UNCHANGED <<msg, rowVars, sessVars, fileVars, gc, exposed, faults>>

FindNothing(c) ==  \* mutant
    /\ At(c, "find")
    /\ Goto(c, "attach")
    /\ UNCHANGED <<msg, rowVars, sessVars, fileVars, lock, gc, exposed, faults>>
Find(c) ==
    /\ At(c, "find")
    /\ IF RowsOf(call[c].d) = {}
         THEN Goto(c, "post")
         ELSE \E m \in RowsOf(call[c].d) :
                 call' = [call EXCEPT ![c].pc = "attach", ![c].m = m]
    /\ UNCHANGED <<msg, rowVars, sessVars, fileVars, lock, gc, exposed, faults>>

\* PutChunkWithBot.  A post that fails outright changes nothing: the loop goes
\* round with another bot.
Posted(c, m) ==
    /\ At(c, "post")
    /\ msg[m] = "unused"
    /\ DigestOf(m) = call[c].d
    /\ msg' = [msg EXCEPT ![m] = "live"]

Post(c, m) ==
    /\ Posted(c, m)
    /\ call' = [call EXCEPT ![c].pc = "register", ![c].m = m]
    /\ UNCHANGED <<rowVars, sessVars, fileVars, lock, gc, exposed, faults>>

\* The message was posted but the answer was an error that may be retried with
\* another bot.
PostUnanswered(c, m) ==
    /\ Fault
    /\ Posted(c, m)
    /\ UNCHANGED <<rowVars, sessVars, fileVars, lock, call, gc, exposed>>

\* Insert the row, or find the one that is there.
Register(c) ==
    /\ At(c, "register")
    /\ LET m == call[c].m
           rows == RowsOf(call[c].d)
       IN  IF rows = {}
             THEN chunk' = [chunk EXCEPT ![m] = "uncommitted"] /\ Goto(c, "attach")
             ELSE /\ \E r \in rows :
                        call' = [call EXCEPT ![c] = [pc |-> "clean", u |-> @.u, i |-> @.i,
                                                     d |-> @.d, m |-> r, own |-> m]]
                  /\ UNCHANGED chunk
    /\ UNCHANGED <<msg, aged, sessVars, fileVars, lock, gc, exposed, faults>>

\* The message that lost the race is deleted as far as Discord allows.
Clean(c) ==
    /\ At(c, "clean")
    /\ msg' \in {msg, [msg EXCEPT ![call[c].own] = "deleted"]}
    /\ call' = [call EXCEPT ![c] = [pc |-> "attach", u |-> @.u, i |-> @.i, d |-> @.d, m |-> @.m]]
    /\ UNCHANGED <<rowVars, sessVars, fileVars, lock, gc, exposed, faults>>

\* attachPart: the session is still open, nobody has put this part, and the
\* foreign key finds the chunk row; otherwise the call ends with an error or
\* with the part that is there.
Attach(c) ==
    /\ At(c, "attach")
    /\ LET u == call[c].u
           i == call[c].i
           m == call[c].m
       IN  part' = IF u \in Open /\ part[u][i] = NoMessage /\ chunk[m] # "none"
                     THEN [part EXCEPT ![u][i] = m]
                     ELSE part
    /\ Return(c)
    /\ UNCHANGED <<msg, rowVars, sess, hashed, commit, fileVars, gc, exposed, faults>>

\* Five bots have been tried, or an error may not be retried.
GiveUp(c) ==
    /\ At(c, "post")
    /\ Return(c)
    /\ UNCHANGED <<msg, rowVars, sessVars, fileVars, gc, exposed, faults>>

\* The call is cut off: the client went away, a statement failed or the
\* server died.  Its lock goes with its connection.
Abort(c) ==
    /\ call[c] # Idle
    /\ Fault
    /\ Return(c)
    /\ UNCHANGED <<msg, rowVars, sessVars, fileVars, gc, exposed>>

-----------------------------------------------------------------------------
\* The sweeper, one candidate at a time.

\* listCandidates.
List(m) ==
    /\ gc = Idle
    /\ Eligible(m)
    /\ gc' = [pc |-> "lock", m |-> m]
    /\ UNCHANGED <<msg, rowVars, sessVars, fileVars, lock, call, exposed, faults>>

SweepDone == lock' = Unlocked(Sweeper, DigestOf(gc.m)) /\ gc' = Idle

SweepLock ==
    /\ gc.pc = "lock"
    /\ lock[DigestOf(gc.m)] = Nobody
    /\ lock' = [lock EXCEPT ![DigestOf(gc.m)] = Sweeper]
    /\ gc' = [gc EXCEPT !.pc = "check"]
    /\ UNCHANGED <<msg, rowVars, sessVars, fileVars, call, exposed, faults>>

\* loadCandidate: the eligibility is read again under the lock.
SweepUnchecked ==  \* mutant
    /\ gc.pc = "check"
    /\ gc' = [gc EXCEPT !.pc = "delete"]
    /\ UNCHANGED <<msg, rowVars, sessVars, fileVars, lock, call, exposed, faults>>
SweepCheck ==
    /\ gc.pc = "check"
    /\ IF Eligible(gc.m)
         THEN gc' = [gc EXCEPT !.pc = "delete"] /\ UNCHANGED lock
         ELSE SweepDone
    /\ UNCHANGED <<msg, rowVars, sessVars, fileVars, call, exposed, faults>>

\* DeleteChunk: a message that is gone already counts as deleted.
SweepDelete ==
    /\ gc.pc = "delete"
    /\ msg' = [msg EXCEPT ![gc.m] = "deleted"]
    /\ gc' = [gc EXCEPT !.pc = "remove"]
    /\ UNCHANGED <<rowVars, sessVars, fileVars, lock, call, exposed, faults>>

\* Discord deletes the message but no bot gets the answer.
SweepDeleteUnanswered ==
    /\ gc.pc = "delete"
    /\ Fault
    /\ msg' = [msg EXCEPT ![gc.m] = "deleted"]
    /\ exposed' = exposed \cup {DigestOf(gc.m)}
    /\ SweepDone
    /\ UNCHANGED <<rowVars, sessVars, fileVars, call>>

\* removeCandidate: the parts of closed sessions go, then the row unless it has
\* come to be protected.
SweepRemove ==
    /\ gc.pc = "remove"
    /\ part' = [u \in Uploads |-> [i \in Parts |->
                   IF part[u][i] = gc.m /\ u \notin Open THEN NoMessage ELSE part[u][i]]]
    /\ IF chunk[gc.m] = "uncommitted" /\ ~ReferencedByFile(gc.m) /\ ~ReferencedByPart(gc.m, Open)
         THEN /\ chunk' = [chunk EXCEPT ![gc.m] = "none"]
              /\ aged' = aged \ {gc.m}
         ELSE UNCHANGED rowVars
    /\ SweepDone
    /\ UNCHANGED <<msg, sess, hashed, commit, fileVars, call, exposed, faults>>

\* The sweep of this candidate is cut off.
SweepAbort ==
    /\ gc # Idle
    /\ Fault
    /\ exposed' = IF gc.pc = "remove" THEN exposed \cup {DigestOf(gc.m)} ELSE exposed
    /\ SweepDone
    /\ UNCHANGED <<msg, rowVars, sessVars, fileVars, call>>

\* The connection a digest lock is held on dies; its holder goes on.
LoseLock(d) ==
    /\ LocksMayBeLost
    /\ lock[d] # Nobody
    /\ Fault
    /\ lock' = [lock EXCEPT ![d] = Nobody]
    /\ exposed' = exposed \cup {d}
    /\ UNCHANGED <<msg, rowVars, sessVars, fileVars, call, gc>>

-----------------------------------------------------------------------------
Next ==
    \/ \E u \in Uploads : CreateSession(u)
    \/ \E u \in Uploads : CloseSession(u)
    \/ \E u \in Uploads : VerifyHash(u)
    \/ \E u \in Uploads, f \in Files : Finalize(u, f)
    \/ \E f \in Files, S \in SUBSET Uploads : Purge(f, S)
    \/ \E m \in Messages : Age(m)
    \/ \E c \in Callers, u \in Uploads, i \in Parts, d \in Digests : PutPart(c, u, i, d)
    \/ \E c \in Callers : LockDigest(c)
    \/ \E c \in Callers : Recheck(c)
    \/ \E c \in Callers : Find(c)
    \/ \E c \in Callers, m \in Messages : Post(c, m)
    \/ \E c \in Callers, m \in Messages : PostUnanswered(c, m)
    \/ \E c \in Callers : Register(c)
    \/ \E c \in Callers : Clean(c)
    \/ \E c \in Callers : Attach(c)
    \/ \E c \in Callers : GiveUp(c)
    \/ \E c \in Callers : Abort(c)
    \/ \E m \in Messages : List(m)
    \/ SweepLock
    \/ SweepCheck
    \/ SweepDelete
    \/ SweepDeleteUnanswered
    \/ SweepRemove
    \/ SweepAbort
    \/ \E d \in Digests : LoseLock(d)

Spec == Init /\ [][Next]_vars
\* Calls run to their end, requests queue fairly for a digest lock, a sweep
\* comes round every fifteen minutes and tries all its candidates, and Discord
\* answers in the end.
FairSpec ==
    /\ Spec
    /\ \A c \in Callers :
          /\ SF_vars(LockDigest(c))
          /\ WF_vars(Recheck(c) \/ Find(c) \/ Register(c) \/ Clean(c) \/ Attach(c))
          /\ WF_vars(GiveUp(c) \/ \E m \in Messages : Post(c, m))
    /\ \A m \in Messages : SF_vars(List(m))
    /\ SF_vars(SweepLock)
    /\ WF_vars(SweepCheck \/ SweepDelete \/ SweepRemove)

-----------------------------------------------------------------------------
\* Properties.

Searching == [pc : {"lock", "recheck", "find", "post"}, u : Uploads, i : Parts, d : Digests,
              m : {NoMessage}]
Located == [pc : {"register", "attach"}, u : Uploads, i : Parts, d : Digests, m : Messages]
Cleaning == [pc : {"clean"}, u : Uploads, i : Parts, d : Digests, m : Messages, own : Messages]
Calls == {Idle} \cup Searching \cup Located \cup Cleaning

\* Every variable stays in its range.
TypeOK ==
    /\ msg \in [Messages -> {"unused", "live", "deleted"}]
    /\ chunk \in [Messages -> {"none", "uncommitted", "ready"}]
    /\ aged \subseteq Messages
    /\ sess \in [Uploads -> {"none", "open", "closed", "completed", "gone"}]
    /\ part \in [Uploads -> [Parts -> Messages \cup {NoMessage}]]
    /\ hashed \subseteq Uploads
    /\ commit \in [Uploads -> Files \cup {NoFile}]
    /\ refs \in [Files -> SUBSET Messages]
    /\ file \in [Files -> {"absent", "present", "purged"}]
    /\ lock \in [Digests -> Callers \cup {Sweeper, Nobody}]
    /\ call \in [Callers -> Calls]
    /\ gc \in {Idle} \cup [pc : {"lock", "check", "delete", "remove"}, m : Messages]
    /\ exposed \subseteq Digests
    /\ faults \in 0 .. MaxFaults

\* The chunks of a committed file are rows, and ready: neither the sweeper nor
\* the purge of another file that shares them takes them away or back.
FileChunksAreReady == \A f \in Files : \A m \in refs[f] : chunk[m] = "ready"

\* The bytes of a committed file and of an open upload are on Discord, unless
\* a sweep was cut off between deleting a message and deleting its row, or a
\* digest lock was lost with its connection.
ReferencedBytesAreLive ==
    \A m \in Messages :
        /\ DigestOf(m) \notin exposed
        /\ ReferencedByFile(m) \/ ReferencedByPart(m, Open)
        => msg[m] = "live"

\* Without faults and without purges no message is left on Discord that
\* neither a row nor a call in flight knows of: uploads of the same bytes that
\* race each other leave one message.
NoStrayMessages ==
    faults = 0 /\ (\A f \in Files : file[f] # "purged") =>
        \A m \in Messages : msg[m] = "live" =>
            \/ chunk[m] # "none"
            \/ \E c \in Callers : At(c, "register") /\ call[c].m = m

\* Abandoned bytes are swept: a chunk that nobody protects stops being so, by
\* its deletion or by a new reference.
OrphansAreSwept == \A m \in Messages : Eligible(m) ~> ~Eligible(m)

\* "PostgreSQL is canonical for chunk identity and locators": the locator of a
\* committed file's chunk leads to its bytes, whatever was cut off.
CommittedBytesAreLive == \A f \in Files : \A m \in refs[f] : msg[m] = "live"

\* "Purge logic coordinates database references and physical storage cleanup":
\* purging a file does not leave its bytes on Discord with no row to find them by.
PurgeLeavesNoStray ==
    faults = 0 => \A m \in Messages : msg[m] = "live" =>
            \/ chunk[m] # "none"
            \/ \E c \in Callers : At(c, "register") /\ call[c].m = m

-----------------------------------------------------------------------------
\* The strengthening that makes the invariants above inductive.

\* The foreign key from parts to chunks; a session starts with no parts.
PartsHaveRows ==
    \A u \in Uploads, i \in Parts : part[u][i] # NoMessage =>
        /\ chunk[part[u][i]] # "none"
        /\ sess[u] # "none"

\* What a call works on belongs to the digest it has locked; the lock is its
\* own, and no row for its bytes turns up between the search that found none
\* and the registration, unless the lock was lost.
CallGuarded(c) ==
    /\ call[c].pc \in {"register", "clean", "attach"} => DigestOf(call[c].m) = call[c].d
    /\ call[c].pc = "clean" => DigestOf(call[c].own) = call[c].d /\ call[c].d \in exposed
    /\ call[c].pc \notin {"idle", "lock"} /\ call[c].d \notin exposed =>
          /\ lock[call[c].d] = c
          /\ call[c].pc \in {"post", "register"} => RowsOf(call[c].d) = {}
          /\ call[c].pc = "register" => msg[call[c].m] = "live"
CallsAreGuarded == \A c \in Callers : CallGuarded(c)

\* The sweeper deletes under the lock, and what it deletes stays unprotected.
SweepIsGuarded ==
    /\ gc.pc = "remove" => msg[gc.m] = "deleted"
    /\ gc.pc \in {"check", "delete", "remove"} /\ DigestOf(gc.m) \notin exposed =>
          lock[DigestOf(gc.m)] = Sweeper
    /\ gc.pc \in {"delete", "remove"} /\ DigestOf(gc.m) \notin exposed =>
          /\ chunk[gc.m] = "uncommitted"
          /\ ~ReferencedByFile(gc.m)
          /\ ~ReferencedByPart(gc.m, Open)

\* A row leads to its bytes unless the sweeper is about to remove it.
RowsAreLive ==
    \A m \in Messages : chunk[m] # "none" /\ DigestOf(m) \notin exposed =>
        msg[m] = "live" \/ (gc.pc = "remove" /\ gc.m = m)

\* Digests are exposed by faults only.
ExposedByFaults == faults = 0 => exposed = {}

\* Everything the safety of the chunk store rests on, as one invariant: the
\* lock, the foreign key and the two rechecks keep rows and messages in step.
IInv ==
    /\ TypeOK
    /\ FileChunksAreReady
    /\ PartsHaveRows
    /\ CallsAreGuarded
    /\ SweepIsGuarded
    /\ RowsAreLive
    /\ NoStrayMessages
    /\ ExposedByFaults
=============================================================================
