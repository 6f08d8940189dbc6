---------------------------- MODULE FilePreviews -----------------------------
(* The preview of one file, in the web application                            *)
(* (web/src/components/files/file-preview.tsx) and in the desktop one         *)
(* (packages/app-ui/src/files/ui/file-preview.tsx).  React first shows what   *)
(* the new file makes of the old state; the effects run later, and in between *)
(* a picture may load, a video may move and a request may be answered.        *)
EXTENDS Integers, FiniteSets

CONSTANTS
  Texts, Images, Videos, Others, \* the files, by filePreviewKind
  Empties,                       \* the texts without a byte
  ChunksOf,                      \* the chunks of each video, 0 where the size is not known
  Requests,                      \* bound: text requests at a time
  Aheads                         \* the values of the setting preloadNext
\* filePreviewKind answers with one kind.
ASSUME PreviewsAssumption ==
  /\ Empties \subseteq Texts /\ ChunksOf \in [Videos -> Nat] /\ Aheads \subseteq Nat
  /\ Texts \cap Images = {} /\ Texts \cap Videos = {} /\ Texts \cap Others = {}
  /\ Images \cap Videos = {} /\ Images \cap Others = {} /\ Videos \cap Others = {}

VARIABLES
  shown,      \* the file of the props
  effectsDue, \* rendered, and the effects of this rendering have not run
  ahead,      \* preloadNext
  text,       \* TextPreview's state
  request,    \* the text requests in flight
  picture,    \* ImagePreview's state, and its <img>
  early,      \* history: the picture was loaded or failed before the effects ran
  video       \* VideoPreview's refs, its <video> and its preload windows

previewVars == <<shown, effectsDue, ahead, text, request, picture, early, video>>

Nothing == "none"
Kind(f) == CASE f \in Texts -> "text" [] f \in Images -> "image"
             [] f \in Videos -> "video" [] OTHER -> "other"

\* A request is heard until its component is gone or its signal is aborted.
NoRequest == [file |-> Nothing, heard |-> FALSE]
Free == {q \in Requests : request[q] = NoRequest}
Heard == {q \in Requests : request[q].heard}

\* The state a component starts with.  A video that is replaced leaves its preload
\* window behind until the effects run.
NewText(f) == [content |-> Nothing, loading |-> f \in Texts \ Empties, error |-> FALSE]
NewImage(f) == [loading |-> TRUE, error |-> FALSE, element |-> IF f \in Images THEN "loading" ELSE Nothing]
NoWindow == [file |-> Nothing, chunk |-> 0, ahead |-> 0]
NewVideo(left) == [currentChunk |-> -1, known |-> FALSE, at |-> 0, window |-> NoWindow, left |-> left]

PreviewsInit ==
  /\ shown \in Others /\ effectsDue = FALSE /\ ahead \in Aheads
  /\ text = NewText(shown) /\ request = [q \in Requests |-> NoRequest]
  /\ picture = NewImage(shown) /\ early = FALSE
  /\ video = NewVideo(NoWindow)

-----------------------------------------------------------------------------
\* Another file: a component of its own, or the same one with other props.
showAnew(f) ==
  /\ text' = NewText(f) /\ picture' = NewImage(f) /\ video' = NewVideo(video.window)
  /\ request' = [q \in Requests |-> [request[q] EXCEPT !.heard = FALSE]]

showInPlace(f) ==
  /\ Kind(f) = Kind(shown)
  /\ picture' = [picture EXCEPT !.element = IF f \in Images /\ ~picture.error THEN "loading" ELSE Nothing]
  /\ video' = [video EXCEPT !.known = FALSE, !.at = 0]
  /\ UNCHANGED <<text, request>>

showFile(f) ==
  /\ f # shown /\ shown' = f /\ effectsDue' = TRUE /\ early' = FALSE
  /\ showAnew(f) \/ showInPlace(f)
  /\ UNCHANGED ahead

\* Rendered again with the dependencies of its effects changed: "Try again", the
\* setting preloadNext, or a text of a collection, whose query is a new object
\* in every rendering.
tryAgain ==
  /\ \/ shown \in Texts /\ text.error /\ ~text.loading
     \/ shown \in Images /\ picture.error
  /\ effectsDue' = TRUE /\ early' = FALSE
  /\ UNCHANGED <<shown, ahead, text, request, picture, video>>

renderAgain ==
  /\ shown \in Texts /\ effectsDue' = TRUE
  /\ UNCHANGED <<shown, ahead, text, request, picture, early, video>>

setPreloadNext(n) ==
  /\ n # ahead /\ ahead' = n /\ effectsDue' = (shown \in Videos)
  /\ UNCHANGED <<shown, text, request, picture, early, video>>

-----------------------------------------------------------------------------
(* The effects.                                                               *)

\* A bug to be found: the clean-up does not abort the request.
Unaborted == request

\* The clean-up of TextPreview's effect.
Aborted == [q \in Requests |-> [request[q] EXCEPT !.heard = FALSE]]

textEffect ==
  IF shown \in Texts \ Empties
  THEN \E q \in Free :
         /\ request' = [Aborted EXCEPT ![q] = [file |-> shown, heard |-> TRUE]]
         /\ text' = [text EXCEPT !.loading = TRUE, !.error = FALSE]
  ELSE /\ request' = Aborted
       /\ text' = IF shown \in Texts THEN [content |-> "", loading |-> FALSE, error |-> FALSE] ELSE text

\* The <img> of a failed picture comes back; one that stayed does not load again.
imageEffect ==
  picture' = IF shown \in Images
           THEN [loading |-> TRUE, error |-> FALSE,
                 element |-> IF picture.element = Nothing THEN "loading" ELSE picture.element]
           ELSE picture

\* syncWarmWindow.
Synced(v) ==
  IF ChunksOf[shown] = 0 THEN [v EXCEPT !.window = NoWindow]
  ELSE IF v.at = v.currentChunk THEN v
  ELSE [v EXCEPT !.currentChunk = v.at,
                 !.window = [file |-> shown, chunk |-> v.at, ahead |-> ahead]]

videoEffect ==
  LET cleared == [video EXCEPT !.currentChunk = -1, !.window = NoWindow, !.left = NoWindow]
  IN video' = IF shown \in Videos /\ video.known THEN Synced(cleared) ELSE cleared

effects ==
  /\ effectsDue /\ effectsDue' = FALSE
  /\ textEffect /\ imageEffect /\ videoEffect
  /\ UNCHANGED <<shown, ahead, early>>

-----------------------------------------------------------------------------
(* What the browser tells, before or after the effects.                       *)

\* The text arrives, or the request fails; what nobody hears is dropped.
textArrives(q) ==
  /\ request[q] # NoRequest /\ request' = [request EXCEPT ![q] = NoRequest]
  /\ text' = IF request[q].heard THEN [text EXCEPT !.content = request[q].file, !.loading = FALSE] ELSE text
  /\ UNCHANGED <<shown, effectsDue, ahead, picture, early, video>>

textFails(q) ==
  /\ request[q] # NoRequest /\ request' = [request EXCEPT ![q] = NoRequest]
  /\ text' = IF request[q].heard THEN [text EXCEPT !.error = TRUE, !.loading = FALSE] ELSE text
  /\ UNCHANGED <<shown, effectsDue, ahead, picture, early, video>>

imageLoads ==
  /\ picture.element = "loading"
  /\ picture' = [picture EXCEPT !.element = "loaded", !.loading = FALSE]
  /\ early' = effectsDue
  /\ UNCHANGED <<shown, effectsDue, ahead, text, request, video>>

\* The message takes the place of the <img>, unless the effects come first.
imageFails ==
  /\ picture.element = "loading"
  /\ picture' = [loading |-> FALSE, error |-> TRUE, element |-> IF effectsDue THEN "failed" ELSE Nothing]
  /\ early' = effectsDue
  /\ UNCHANGED <<shown, effectsDue, ahead, text, request, video>>

\* The metadata are there, the video plays or was sought.
videoMoves ==
  /\ shown \in Videos
  /\ \E chunk \in 0..ChunksOf[shown] :
       /\ chunk < ChunksOf[shown] \/ chunk = 0
       /\ ~video.known => chunk = 0
       /\ video' = Synced([video EXCEPT !.known = TRUE, !.at = chunk])
  /\ UNCHANGED <<shown, effectsDue, ahead, text, request, picture, early>>

PreviewsNext ==
  \/ effects \/ imageLoads \/ imageFails \/ videoMoves
  \/ \E q \in Requests : textArrives(q) \/ textFails(q)
  \/ ~effectsDue /\ \/ tryAgain \/ renderAgain
                    \/ \E f \in Texts \cup Images \cup Videos \cup Others : showFile(f)
                    \/ \E n \in Aheads : setPreloadNext(n)

PreviewsSpec == PreviewsInit /\ [][PreviewsNext]_previewVars

-----------------------------------------------------------------------------
\* However files are stepped through, and whatever is answered or aborted late:
\* the text shown is that of the file shown, and the spinner waits for a request
\* that will still be heard.
TextIsTrue ==
  /\ text.loading <=> Heard # {}
  /\ \A q \in Heard : request[q].file = shown
  /\ shown \in Texts /\ ~text.loading /\ ~text.error =>
       text.content = IF shown \in Empties THEN "" ELSE shown

\* A picture is hidden behind the spinner while it loads, and the message is
\* shown if it failed; unless it was done before the effect that resets both:
\* then the spinner stays.
ImageIsTrue ==
  shown \in Images /\ ~early =>
    /\ picture.loading <=> picture.element = "loading"
    /\ picture.error <=> picture.element = Nothing

\* The chunks that are preloaded are those after the one that plays.
WindowIsCurrent ==
  /\ video.left = NoWindow
  /\ video.window = IF shown \in Videos /\ video.known /\ ChunksOf[shown] > 0
                    THEN [file |-> shown, chunk |-> video.at, ahead |-> ahead] ELSE NoWindow

\* Whenever the effects have run.
PreviewsAreTrue == ~effectsDue => TextIsTrue /\ ImageIsTrue /\ WindowIsCurrent
=============================================================================
