----------------------------- MODULE FolderPlans ------------------------------
(* How the browser prepares the folders of files that were dropped or picked  *)
(* with their directories (web/src/lib/uploads/folder.ts, folder-tree.ts):    *)
(* the directories are cut into batches in which a folder follows its parent, *)
(* each batch is one call of CreateFolderBatch (internal/nodes/batch.go), and *)
(* what the batches left over is created below the folders they returned.     *)
(* Plans of several drops into one folder run at the same time.               *)
EXTENDS Naturals, Sequences, FiniteSets, SequencesExt

CONSTANTS
  Plans,        \* bound: the drops
  Directories,  \* the directories files can be in: sequences of names
  Names,        \* all names, in the order of localeCompare
  NameKey,      \* internal/nodes/name.go: the names that are one name to the server
  BatchLimit,   \* MAX_BATCH_FOLDERS
  MaxDirectories \* bound: directories of one drop
ASSUME PlansAssumption ==
  /\ IsFiniteSet(Plans) /\ BatchLimit \in Nat \ {0} /\ MaxDirectories \in Nat
  /\ Names \in Seq(ToSet(Names)) \ {<<>>} /\ Directories \subseteq Seq(ToSet(Names))
  /\ NameKey \in [ToSet(Names) -> ToSet(Names)]

VARIABLES
  folders,   \* external: the folders below the one dropped on; a folder is its key path
  plan       \* the planUploadFiles calls

planVars == <<folders, plan>>

\* A call of resolveFolderForest: the path its roots hang below, and the paths of
\* the forest, in one batch or left over.
Forest(parent, paths) == [parent |-> parent, paths |-> paths]

Parent(p) == SubSeq(p, 1, Len(p) - 1)
KeyPath(p) == [i \in DOMAIN p |-> NameKey[p[i]]]
Position(n) == CHOOSE i \in DOMAIN Names : Names[i] = n

\* buildFolderUploadTree: all directories of the files, and those above them.
FolderPaths(dirs) == UNION {{SubSeq(d, 1, n) : n \in 1..Len(d)} : d \in dirs}

PlansInit ==
  /\ folders \in {{}, {KeyPath(<<Names[1]>>)}}
  /\ plan = [k \in Plans |-> [pc |-> "none", dirs |-> {}, calls |-> <<>>, resolved |-> <<>>,
                              created |-> 0]]

\* planUploadFiles: a path that cannot be is refused before anything is sent, and
\* files without a directory need no folder.
planUploadFiles(k) ==
  /\ plan[k].pc = "none"
  /\ \E dirs \in SUBSET Directories :
       /\ IsFiniteSet(dirs) /\ Cardinality(dirs) <= MaxDirectories
       /\ plan' = [plan EXCEPT ![k] =
            [@ EXCEPT !.dirs = dirs, !.resolved = [p \in {} |-> <<>>],
                      !.pc = IF dirs = {} THEN "planned" ELSE "sending",
                      !.calls = IF dirs = {} THEN <<>> ELSE <<Forest(<<>>, FolderPaths(dirs))>>]]
  /\ UNCHANGED folders

unsafePath(k) ==
  /\ plan[k].pc = "none" /\ plan' = [plan EXCEPT ![k].pc = "unsafe"]
  /\ UNCHANGED folders

-----------------------------------------------------------------------------
\* p is visited before q: parents before children, siblings by name.
Before(p, q) ==
  \/ IsStrictPrefix(p, q)
  \/ \E i \in 1..(IF Len(p) < Len(q) THEN Len(p) ELSE Len(q)) :
       /\ SubSeq(p, 1, i - 1) = SubSeq(q, 1, i - 1)
       /\ Position(p[i]) < Position(q[i])

\* takeFolderBatch selects the first of the forest and defers the others, below
\* the path of their parent.
Selected(paths) ==
  {p \in paths : Cardinality({q \in paths : Before(q, p)}) < BatchLimit}

Earliest(paths) == CHOOSE p \in paths : \A q \in paths \ {p} : Before(p, q)

\* A bug to be found: what is left over is created below the folder of this call.
DeferredBelowCall(forest) ==
  LET left == forest.paths \ Selected(forest.paths)
  IN IF left = {} THEN <<>> ELSE <<Forest(forest.parent, left)>>

\* One call for each parent whose children were deferred, with all that hangs
\* below them, in the order in which they were met.
Deferred(forest) ==
  LET left == forest.paths \ Selected(forest.paths)
      roots == {p \in left : Parent(p) \notin left}
      parents == {Parent(p) : p \in roots}
      FirstBelow(q) == Earliest({p \in roots : Parent(p) = q})
      Below(q) == {p \in left : \E r \in roots : Parent(r) = q /\ IsPrefix(r, p)}
      Nth(n) == CHOOSE q \in parents :
                  Cardinality({o \in parents : Before(FirstBelow(o), FirstBelow(q))}) = n - 1
  IN [n \in 1..Cardinality(parents) |-> Forest(Nth(n), Below(Nth(n)))]

\* Where the server puts p: below the folder of its parent if that is in the
\* batch, or else below the folder of the call.
Placed(k, forest, batch) ==
  LET root == IF forest.parent = <<>> THEN <<>> ELSE plan[k].resolved[forest.parent]
      placed[p \in batch] ==
        (IF Parent(p) \in batch THEN placed[Parent(p)] ELSE root) \o <<NameKey[Last(p)]>>
  IN placed

\* normalizeFolderBatch refuses two folders of one name below one parent.
Twins(batch) ==
  \E p, q \in batch : /\ p # q /\ NameKey[Last(p)] = NameKey[Last(q)]
                      /\ \/ Parent(p) = Parent(q)
                         \/ Parent(p) \notin batch /\ Parent(q) \notin batch

\* A batch is created, all of it, and the answer arrives.
batchCreated(k) ==
  LET forest == Head(plan[k].calls)
      batch == Selected(forest.paths)
      placed == Placed(k, forest, batch)
      new == {placed[p] : p \in batch} \ folders
      rest == Deferred(forest) \o Tail(plan[k].calls)
  IN /\ plan[k].pc = "sending" /\ ~Twins(batch)
     /\ folders' = folders \cup new
     /\ plan' = [plan EXCEPT ![k] =
          [@ EXCEPT !.pc = IF rest = <<>> THEN "planned" ELSE "sending", !.calls = rest,
                    !.resolved = [p \in DOMAIN plan[k].resolved \cup batch |->
                                    IF p \in batch THEN placed[p] ELSE plan[k].resolved[p]],
                    !.created = plan[k].created + Cardinality(new)]]

\* It is refused whole, and with it the drop; earlier batches stay.
batchRefused(k) ==
  /\ plan[k].pc = "sending" /\ Twins(Selected(Head(plan[k].calls).paths))
  /\ plan' = [plan EXCEPT ![k].pc = "refused", ![k].calls = <<>>]
  /\ UNCHANGED folders

\* The request fails, a file has the name, or the answer is lost.
batchFails(k) ==
  LET forest == Head(plan[k].calls)
      batch == Selected(forest.paths)
      placed == Placed(k, forest, batch)
  IN /\ plan[k].pc = "sending"
     /\ plan' = [plan EXCEPT ![k].pc = "failed", ![k].calls = <<>>]
     /\ folders' \in {folders} \cup
          (IF Twins(batch) THEN {} ELSE {folders \cup {placed[p] : p \in batch}})

PlansNext == \E k \in Plans : \/ planUploadFiles(k) \/ unsafePath(k)
                              \/ batchCreated(k) \/ batchRefused(k) \/ batchFails(k)

PlansSpec == PlansInit /\ [][PlansNext]_planVars

-----------------------------------------------------------------------------
FoldedTogether(dirs) ==
  \E p, q \in FolderPaths(dirs) : p # q /\ KeyPath(p) = KeyPath(q)

Counted == LET ks == {k \in Plans : plan[k].created > 0}
               sum[S \in SUBSET ks] == IF S = {} THEN 0
                                       ELSE LET k == CHOOSE k \in S : TRUE
                                            IN plan[k].created + sum[S \ {k}]
           IN sum[ks]

\* However the directories are cut into batches, and whatever other drops create
\* meanwhile: a directory is resolved to the folder of its own path, a plan that
\* is done has resolved all of them, only a drop with two names that the server
\* takes for one is refused, and no two plans count one folder as their creation.
FoldersNestRightly ==
  /\ \A k \in Plans :
       LET known == IF plan[k].pc \in {"none", "unsafe"} THEN {} ELSE DOMAIN plan[k].resolved
       IN /\ \A p \in known : plan[k].resolved[p] = KeyPath(p) /\ KeyPath(p) \in folders
          /\ plan[k].pc = "planned" => known = FolderPaths(plan[k].dirs)
          /\ plan[k].pc = "refused" => FoldedTogether(plan[k].dirs)
  /\ \A f \in folders : Len(f) > 1 => Parent(f) \in folders
  /\ Counted <= Cardinality(folders)
=============================================================================
