--------------------------- MODULE ThumbnailLoads ---------------------------
(* The thumbnails of a list (file-node-visual.tsx): every visual loads its    *)
(* image through loadThumbnail (thumbnail-load.ts), which tries four times,   *)
(* each time with a slot of ThumbnailLoadQueue (thumbnail-queue.ts).  A       *)
(* visual that scrolls away or changes its file aborts its load.              *)
EXTENDS Integers, Sequences, SequencesExt, FiniteSets

CONSTANTS
  Visuals,
  Sources,      \* thumbnail URLs
  Calls,        \* bound: calls of loadThumbnail alive at a time
  QueueLimit,   \* maxConcurrentThumbnailLoads
  Attempts      \* maxThumbnailAttempts
ASSUME ThumbnailAssumption ==
  /\ Calls \subseteq Nat \ {0} /\ QueueLimit \in Nat \ {0} /\ Attempts \in Nat \ {0}
  /\ Sources \cap {"none", "loading"} = {}

VARIABLES
  source,     \* the thumbnail each mounted visual is to show, or "none"
  image,      \* what it shows: a source, "loading" or "failed"
  latest,     \* the call whose controller still under way, or 0
  call,       \* the calls
  pending,    \* ThumbnailLoadQueue.pending
  loading     \* ThumbnailLoadQueue.active
thumbVars == <<source, image, latest, call, pending, loading>>

NoCall == [pc |-> "none", visual |-> "none", source |-> "none", attempt |-> 0, aborted |-> FALSE]
Idle == {k \in Calls : call[k].pc = "none"}

ThumbInit ==
  /\ source = [v \in Visuals |-> "none"] /\ image = [v \in Visuals |-> "loading"]
  /\ latest = [v \in Visuals |-> 0]
  /\ call = [k \in Calls |-> NoCall]
  /\ pending = <<>> /\ loading = 0

\* ThumbnailLoadQueue.drain, with n loads active, the waiters q and the calls cs.
\* (A waiter is taken off the queue when it is aborted: start() meets none.)
drainQueue(n, q, cs) ==
  LET free == IF n < QueueLimit THEN QueueLimit - n ELSE 0
      k == IF Len(q) < free THEN Len(q) ELSE free
      started == {q[i] : i \in 1..k}
  IN /\ loading' = n + k
     /\ pending' = SubSeq(q, k + 1, Len(q))
     /\ call' = [c \in Calls |-> IF c \in started THEN [cs[c] EXCEPT !.pc = "admitted"] ELSE cs[c]]

\* acquire: queue and drain.
acquireSlot(k, cs) == drainQueue(loading, Append(pending, k), [cs EXCEPT ![k].pc = "waiting"])

\* The abort signal of the call k, with the calls cs: a waiter or a delayed retry
\* rejects at once, an image stops loading and frees its slot.
abortCall(k) ==
  IF k = 0 THEN UNCHANGED <<pending, loading, call>>
  ELSE LET over == [call EXCEPT ![k] = NoCall]
       IN IF call[k].pc = "waiting"
          THEN \E i \in 1..Len(pending) : pending[i] = k /\ drainQueue(loading, RemoveAt(pending, i), over)
          ELSE IF call[k].pc = "delayed" THEN call' = over /\ UNCHANGED <<pending, loading>>
          ELSE IF call[k].pc = "loading" THEN drainQueue(loading - 1, pending, over)
          ELSE call' = [call EXCEPT ![k].aborted = TRUE] /\ UNCHANGED <<pending, loading>>

\* The effect's cleanup: the visual is unmounted or about to show another file.
leave(v) ==
  /\ source[v] # "none"
  /\ source' = [source EXCEPT ![v] = "none"] /\ latest' = [latest EXCEPT ![v] = 0]
  /\ image' = [image EXCEPT ![v] = "loading"]
  /\ abortCall(latest[v])

\* The effect: a new call of loadThumbnail asks for a slot.
show(v, s) ==
  /\ source[v] = "none"
  /\ source' = [source EXCEPT ![v] = s] /\ image' = [image EXCEPT ![v] = "loading"]
  /\ Idle # {} \* bound
  /\ LET k == CHOOSE n \in Idle : \A m \in Idle : n <= m
     IN /\ latest' = [latest EXCEPT ![v] = k]
        /\ acquireSlot(k, [call EXCEPT ![k] = [NoCall EXCEPT !.visual = v, !.source = s]])

\* loadThumbnail goes on with its slot.
preload(k) ==
  /\ call[k].pc = "admitted"
  /\ IF call[k].aborted THEN drainQueue(loading - 1, pending, [call EXCEPT ![k] = NoCall])
     ELSE call' = [call EXCEPT ![k].pc = "loading"] /\ UNCHANGED <<pending, loading>>
  /\ UNCHANGED <<source, image, latest>>

loaded(k) ==
  /\ call[k].pc = "loading"
  /\ drainQueue(loading - 1, pending, [call EXCEPT ![k].pc = "loaded"])
  /\ UNCHANGED <<source, image, latest>>

\* The image fails or times out: try again after a delay, or give up.
loadFails(k) ==
  /\ call[k].pc = "loading"
  /\ LET again == call[k].attempt + 1 < Attempts
     IN drainQueue(loading - 1, pending,
          [call EXCEPT ![k].pc = IF again THEN "delayed" ELSE "failed",
                       ![k].attempt = IF again THEN @ + 1 ELSE @])
  /\ UNCHANGED <<source, image, latest>>

retryLoad(k) ==
  /\ call[k].pc = "delayed" /\ acquireSlot(k, call)
  /\ UNCHANGED <<source, image, latest>>

\* A bug to be found: a late end is taken for the file that is shown by now.
settleVisualAnyway(k) ==
  LET c == call[k]
  IN /\ c.pc \in {"loaded", "failed"}
     /\ image' = [image EXCEPT ![c.visual] = IF c.pc = "loaded" THEN c.source ELSE "failed"]
     /\ call' = [call EXCEPT ![k] = NoCall]
     /\ latest' = [latest EXCEPT ![c.visual] = IF @ = k THEN 0 ELSE @]
     /\ UNCHANGED <<source, pending, loading>>

\* The visual learns of the end, unless its effect was cleaned up.
settleVisual(k) ==
  LET c == call[k]
  IN /\ c.pc \in {"loaded", "failed"}
     /\ image' = IF c.aborted THEN image
                 ELSE [image EXCEPT ![c.visual] = IF c.pc = "loaded" THEN c.source ELSE "failed"]
     /\ call' = [call EXCEPT ![k] = NoCall]
     /\ latest' = [latest EXCEPT ![c.visual] = IF @ = k THEN 0 ELSE @]
     /\ UNCHANGED <<source, pending, loading>>

loadStep(k) == preload(k) \/ loaded(k) \/ loadFails(k) \/ retryLoad(k) \/ settleVisual(k)

ThumbNext ==
  \/ \E v \in Visuals : leave(v) \/ \E s \in Sources : show(v, s)
  \/ \E k \in Calls : loadStep(k)

ThumbSpec == ThumbInit /\ [][ThumbNext]_thumbVars

\* An image loads, fails or times out after 15 s.
ThumbFair == \A k \in Calls : WF_thumbVars(loadStep(k))

-----------------------------------------------------------------------------
Loading == {k \in Calls : call[k].pc \in {"admitted", "loading"}}

\* A visual never shows the image of another file, no slot is lost to an abort,
\* and a visual waits for an image only while a call brings it.
VisualsShowTheirFile ==
  /\ loading = Cardinality(Loading)
  /\ \A k \in Calls : call[k].pc = "waiting" <=> k \in ToSet(pending)
  /\ \A v \in Visuals :
       /\ image[v] \in {"loading", "failed", source[v]}
       /\ source[v] # "none" /\ image[v] = "loading" =>
            latest[v] # 0 /\ call[latest[v]].visual = v /\ ~call[latest[v]].aborted
=============================================================================
