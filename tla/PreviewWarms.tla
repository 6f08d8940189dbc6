---------------------------- MODULE PreviewWarms ----------------------------
(* The preloading of previews (web/src/lib/files/preview-preload.ts): owners  *)
(* (a carousel, a video player) each keep a window of what they will show     *)
(* next; what no window wants any more leaves the queue, at most WarmLimit    *)
(* requests run, and the keys warmed last are remembered.                     *)
EXTENDS Integers, Sequences, SequencesExt, FiniteSets

CONSTANTS
  Owners,
  Chunks, Assets, \* warm tasks: chunks of the video being played, other previews
  WarmLimit,      \* maxConcurrentPreviewWarms
  Remembered,     \* maxRememberedWarmTasks
  WindowSize      \* bound: tasks in a window
ASSUME WarmAssumption ==
  WarmLimit \in Nat \ {0} /\ Remembered \in Nat \ {0} /\ WindowSize \in Nat

VARIABLES
  windows,    \* preloadWindows
  warmQueue,  \* pendingPreviewWarms
  warming,    \* activePreviewWarms
  warmed,     \* warmedPreviewTasks, oldest first
  tried       \* history: keys whose warm failed or was forgotten since
warmVars == <<windows, warmQueue, warming, warmed, tried>>

Keys == Chunks \cup Assets
priority(k) == IF k \in Chunks THEN 0 ELSE 1

WarmInit ==
  /\ windows = [o \in Owners |-> {}]
  /\ warmQueue = <<>> /\ warming = {} /\ warmed = <<>> /\ tried = {}

desired(ws) == UNION {ws[o] : o \in Owners}

\* drainPreviewWarmQueue: start the first of q while fewer than WarmLimit run.
drainWarms(q, running) ==
  LET room == IF Cardinality(running) < WarmLimit THEN WarmLimit - Cardinality(running) ELSE 0
      New(i) == {q[j] : j \in 1..i} \ (running \cup ToSet(warmed'))
      Stops(i) == i = Len(q) \/ Cardinality(New(i)) >= room
      n == CHOOSE i \in 0..Len(q) : Stops(i) /\ \A j \in 0..(i - 1) : ~Stops(j)
  IN warming' = running \cup New(n) /\ warmQueue' = SubSeq(q, n + 1, Len(q))

\* The elements of s that are in S, in their order.
Kept(s, S) ==
  LET upTo[i \in 0..Len(s)] ==
        IF i = 0 THEN <<>>
        ELSE IF s[i] \in S THEN Append(upTo[i - 1], s[i]) ELSE upTo[i - 1]
  IN upTo[Len(s)]

\* A stable sort by priority.
byPriority(q) == Kept(q, {k \in Keys : priority(k) = 0}) \o Kept(q, {k \in Keys : priority(k) = 1})

\* setWarmWindow, from the carousel's files or the player's next chunks: what is
\* not warm, under way or queued joins the queue.
setWarmWindow(o, tasks) ==
  LET wanted == [windows EXCEPT ![o] = ToSet(tasks)]
      kept == Kept(warmQueue, desired(wanted))
      added == Kept(tasks, Keys \ (ToSet(warmed) \cup warming \cup ToSet(kept)))
  IN /\ windows' = wanted /\ warmed' = warmed
     /\ tried' = tried \ ToSet(added)
     /\ drainWarms(byPriority(kept \o added), warming)

\* A bug to be found: the window goes and its tasks stay queued.
clearWindowOnly(o) ==
  /\ windows' = [windows EXCEPT ![o] = {}]
  /\ UNCHANGED <<warmQueue, warming, warmed, tried>>

\* clearPreviewPreloadWindow: the owner is gone.
clearWindow(o) ==
  /\ windows' = [windows EXCEPT ![o] = {}]
  /\ warmQueue' = Kept(warmQueue, desired(windows'))
  /\ UNCHANGED <<warming, warmed, tried>>

\* A request ends: well (it is remembered, and the oldest forgotten), badly or by
\* its timeout of 8 s.
warmEnds(k) ==
  /\ k \in warming
  /\ \/ /\ LET all == Append(Kept(warmed, Keys \ {k}), k)
           IN /\ warmed' = IF Len(all) > Remembered THEN Tail(all) ELSE all
              /\ tried' = tried \cup (ToSet(all) \ ToSet(warmed'))
        /\ drainWarms(warmQueue, warming \ {k})
     \/ /\ warmed' = warmed /\ tried' = tried \cup {k}
        /\ drainWarms(warmQueue, warming \ {k})
  /\ UNCHANGED windows

WarmWindows == {t \in BoundedSeq(Keys, WindowSize) : \A i, j \in DOMAIN t : t[i] = t[j] => i = j}

WarmNext ==
  \/ \E o \in Owners : clearWindow(o) \/ \E t \in WarmWindows : setWarmWindow(o, t)
  \/ \E k \in Keys : warmEnds(k)

WarmSpec == WarmInit /\ [][WarmNext]_warmVars

-----------------------------------------------------------------------------
\* The queue holds, once each and the playing video's chunks first, what some
\* window wants and nobody is fetching; no slot idles while it has something;
\* and nothing a window wants falls between the queue, the requests and the
\* memory, whatever the other owners did to it.
WarmQueueIsExact ==
  /\ ToSet(warmQueue) \subseteq desired(windows)
  /\ \A i, j \in DOMAIN warmQueue :
       i < j => warmQueue[i] # warmQueue[j] /\ priority(warmQueue[i]) <= priority(warmQueue[j])
  /\ ToSet(warmQueue) \cap (warming \cup ToSet(warmed)) = {}
  /\ Cardinality(warming) <= WarmLimit
  /\ warmQueue # <<>> => Cardinality(warming) = WarmLimit
  /\ Len(warmed) <= Remembered
  /\ desired(windows) \subseteq ToSet(warmQueue) \cup warming \cup ToSet(warmed) \cup tried
=============================================================================
