---------------------------- MODULE MCWebQueues -----------------------------
(* The queues of the web client, where files are dropped, the plans of their   *)
(* folders, the previews of files and the search pages side by side.  They     *)
(* share no state: one behaviour exercises one.                                *)
EXTENDS UploadGate, ThumbnailLoads, PreviewWarms, FolderPlans, FilePreviews, SearchPages, DropTargets

NamesOfFolders == <<"a", "A", "b", "c">>
KeyOfName == [n \in ToSet(NamesOfFolders) |-> IF n = "A" THEN "a" ELSE n]
DroppedDirectories ==
  {<<"a">>, <<"A">>, <<"b">>, <<"a", "b">>, <<"A", "b">>, <<"a", "c">>, <<"a", "b", "c">>}

ChunksOfVideos == [v1 |-> 2, v2 |-> 0]

VARIABLE queue
allVars == <<gateVars, thumbVars, warmVars, planVars, previewVars, searchVars, targetVars, queue>>

QueuesInit ==
  /\ queue \in {"parts", "thumbnails", "warms", "plans", "previews", "search", "drops"}
  /\ Init /\ ThumbInit /\ WarmInit /\ PlansInit /\ PreviewsInit /\ SearchInit /\ TargetsInit
  /\ queue # "plans" => folders = {}
  /\ queue # "previews" => ahead = 1
  /\ queue # "search" => url = NoParams
  /\ queue # "drops" => Web /\ targets[1] = Mounted(CHOOSE f \in Folders : TRUE, FALSE)

\* Every drop was planned or refused: nothing is left to do.
PlansEnded ==
  /\ \A k \in Plans : plan[k].pc \in {"unsafe", "planned", "refused", "failed"}
  /\ UNCHANGED planVars

Gates == <<gateVars, thumbVars, warmVars>>
Pages == <<planVars, previewVars, searchVars, targetVars>>

QueuesNext ==
  /\ UNCHANGED queue
  /\ \/ queue = "parts" /\ Next /\ UNCHANGED <<thumbVars, warmVars, Pages>>
     \/ queue = "thumbnails" /\ ThumbNext /\ UNCHANGED <<gateVars, warmVars, Pages>>
     \/ queue = "warms" /\ WarmNext /\ UNCHANGED <<gateVars, thumbVars, Pages>>
     \/ queue = "plans" /\ (PlansNext \/ PlansEnded) /\ UNCHANGED <<Gates, previewVars, searchVars, targetVars>>
     \/ queue = "previews" /\ PreviewsNext /\ UNCHANGED <<Gates, planVars, searchVars, targetVars>>
     \/ queue = "search" /\ SearchNext /\ UNCHANGED <<Gates, planVars, previewVars, targetVars>>
     \/ queue = "drops" /\ TargetsNext /\ UNCHANGED <<Gates, planVars, previewVars, searchVars>>

QueuesSpec == QueuesInit /\ [][QueuesNext]_allVars /\ GateFair

-----------------------------------------------------------------------------
\* What is dropped goes to the folder that was shown (DropTargets), with every
\* directory made once and in its parent (FolderPlans).
DropsAreTrue == DropsReachTheirFolder /\ FoldersNestRightly
=============================================================================
