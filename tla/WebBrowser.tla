----------------------------- MODULE WebBrowser -----------------------------
(* The list of a folder in the web application (use-file-browser-controller): *)
(* one main load at a time replaces the list, one load at a time extends it,  *)
(* and navigation, a change of options, the back button, an unmount and a     *)
(* finished upload each start or abort loads.  React renders between two      *)
(* callbacks; what a callback reads before an await it keeps.  The server     *)
(* (external) answers a load at a moment of its own.  The view (list or grid) *)
(* and what it does to the URL are left out.                                  *)
EXTENDS Integers, Sequences, SequencesExt, FiniteSets

CONSTANTS
  Folders, Root,  \* Root is the workspace root
  Sorts,          \* the orders of a list
  LastPage,       \* pages of a folder
  Changing,       \* bound: the folders in which something happens
  Loads           \* bound: the requests alive at a time
ASSUME BrowserAssumption == /\ Root \in Folders /\ LastPage \in Nat \ {0}
                            /\ Loads \subseteq Nat \ {0}

VARIABLES
  mounted, folder, sort,
  nodes,        \* the pages the list is made of
  tableLoading, loadingMore,
  main, more,   \* the loads of mainController and moreController, or 0
  timer,        \* the 150 ms timer of a finished upload
  loads,        \* the requests
  url, visited, \* external: the folder the URL names, those in the history
  content,      \* external: what happened to each folder so far
  excused,      \* history: the list may have missed a change
  interrupted   \* history: a step back was not followed to its folder

listVars == <<folder, sort, nodes, tableLoading, loadingMore, main, more, timer, loads>>
outside == <<url, visited, content>>
browserVars == <<mounted, listVars, outside, excused, interrupted>>

Changes == {"uploaded", "trashed"}
Page(f, s, k) == [folder |-> f, sort |-> s, index |-> k, has |-> content[f]]
NoLoad == [mode |-> "none", state |-> "none", folder |-> Root, sort |-> "none", page |-> <<>>]
Free == {n \in Loads : loads[n] = NoLoad}
Fresh == CHOOSE n \in Free : \A k \in Free : n <= k

BrowserInit ==
  /\ mounted = TRUE /\ folder = Root /\ sort \in Sorts
  /\ nodes = <<[folder |-> Root, sort |-> sort, index |-> 1, has |-> {}]>>
  /\ tableLoading = FALSE /\ loadingMore = FALSE /\ main = 0 /\ more = 0 /\ timer = FALSE
  /\ loads = [n \in Loads |-> NoLoad]
  /\ url = Root /\ visited = {Root}
  /\ content = [f \in Folders |-> {}] /\ excused = FALSE /\ interrupted = FALSE

-----------------------------------------------------------------------------
\* AbortController.abort: a request that was not answered rejects later, the
\* answer of one that was is ignored.
abort(ls, ids) == [n \in Loads |-> IF n \in ids
                                   THEN [NoLoad EXCEPT !.mode = ls[n].mode, !.state = "aborted"]
                                   ELSE ls[n]]

Asked(mode, f, s) == [mode |-> mode, state |-> "sent", folder |-> f, sort |-> s, page |-> <<>>]

\* A main load takes the place of the one before; a navigation is lost with it.
sendMain(mode, f, s) ==
  /\ Free # {} \* bound
  /\ loads' = [abort(loads, {main, more}) EXCEPT ![Fresh] = Asked(mode, f, s)]
  /\ main' = Fresh /\ tableLoading' = TRUE
  /\ excused' = FALSE
  /\ interrupted' = (mode # "none" /\ (interrupted \/ (main # 0 /\ loads[main].mode = "none")))
  /\ UNCHANGED <<mounted, folder, nodes, loadingMore, more, visited, content>>

\* reloadChildren, from the reload button, its hotkey or a dialog.
reloadChildren == mounted /\ sendMain("reload", folder, sort) /\ UNCHANGED <<sort, timer, url>>

\* navigateFolder from a click: the URL follows when the answer is there.
navigateFolder(f) == mounted /\ sendMain("push", f, sort) /\ UNCHANGED <<sort, timer, url>>

\* popstate: the browser has changed the URL; the root is always loaded anew.
popstate(f) ==
  /\ mounted /\ f \in visited
  /\ url' = f
  /\ IF f = folder /\ f # Root
     THEN /\ interrupted' = (main # 0 /\ loads[main].mode # "reload")
          /\ UNCHANGED <<mounted, listVars, visited, content, excused>>
     ELSE sendMain("none", f, sort) /\ UNCHANGED <<sort, timer>>

\* updateOptions: another order loads the list anew.  The listener of finished
\* uploads is set up again, which clears its timer.
updateOptions(s) ==
  /\ mounted
  /\ sort' = s /\ timer' = FALSE /\ UNCHANGED url
  /\ IF s # sort THEN sendMain("reload", folder, s)
     ELSE /\ excused' = (excused \/ timer)
          /\ UNCHANGED <<mounted, folder, nodes, tableLoading, loadingMore, main, more, loads,
                         visited, content, interrupted>>

\* loadMore: not while the list loads, extends or is complete.
loadMore ==
  /\ mounted /\ ~tableLoading /\ ~loadingMore /\ Last(nodes).index < LastPage
  /\ Free # {} \* bound
  /\ loads' = [abort(loads, {more}) EXCEPT ![Fresh] = Asked("more", folder, sort)]
  /\ more' = Fresh /\ loadingMore' = TRUE
  /\ UNCHANGED <<mounted, folder, sort, nodes, tableLoading, main, timer, outside, excused,
                 interrupted>>

\* The server answers; a cursor of another sort is refused (ErrInvalidCursor).
serve(n) ==
  LET l == loads[n]
      k == IF l.mode = "more" THEN Last(nodes).index + 1 ELSE 1
      refused == l.mode = "more" /\ Last(nodes).sort # l.sort
  IN /\ l.state = "sent"
     /\ loads' = [loads EXCEPT ![n] =
          IF refused THEN [l EXCEPT !.state = "failed"]
          ELSE [l EXCEPT !.state = "served", !.page = <<Page(l.folder, l.sort, k)>>]]
     /\ UNCHANGED <<mounted, folder, sort, nodes, tableLoading, loadingMore, main, more,
                    timer, outside, excused, interrupted>>

\* A request fails on the way.
lose(n) ==
  /\ loads[n].state = "sent"
  /\ loads' = [loads EXCEPT ![n].state = "failed"]
  /\ UNCHANGED <<mounted, folder, sort, nodes, tableLoading, loadingMore, main, more,
                 timer, outside, excused, interrupted>>

\* The finally of a load: the controller is forgotten unless another took its place.
settle(n) ==
  /\ loads' = [loads EXCEPT ![n] = NoLoad]
  /\ IF main = n THEN main' = 0 /\ tableLoading' = FALSE ELSE UNCHANGED <<main, tableLoading>>
  /\ IF more = n THEN more' = 0 /\ loadingMore' = FALSE ELSE UNCHANGED <<more, loadingMore>>

\* reloadChildren and navigateFolder go on.  Only the answer of a load that was
\* not aborted is shown; in another folder the upload listener is set up anew.
shown(n) ==
  LET l == loads[n]
  IN /\ l.mode # "more" /\ l.state = "served"
     /\ nodes' = l.page
     /\ folder' = IF l.mode = "reload" THEN folder ELSE l.folder
     /\ timer' = (timer /\ folder' = folder)
     /\ url' = IF l.mode = "push" THEN l.folder ELSE url
     /\ visited' = visited \cup {url'}
     /\ interrupted' = (interrupted /\ l.mode # "push")
     /\ settle(n)
     /\ UNCHANGED <<mounted, sort, content, excused>>

\* loadMore goes on.
extended(n) ==
  /\ loads[n].mode = "more" /\ loads[n].state = "served"
  /\ nodes' = nodes \o loads[n].page
  /\ settle(n)
  /\ UNCHANGED <<mounted, folder, sort, timer, outside, excused, interrupted>>

\* A load failed or was aborted: the list stays.
rejected(n) ==
  /\ loads[n].state \in {"failed", "aborted"}
  /\ excused' = (excused \/ main = n)
  /\ interrupted' = (interrupted \/ (main = n /\ loads[n].mode = "none"))
  /\ settle(n)
  /\ UNCHANGED <<mounted, folder, sort, nodes, timer, outside>>

-----------------------------------------------------------------------------
\* A bug to be found: a completed upload is noticed only while the list is still.
completedAtRest(f) ==
  /\ f \in Changing
  /\ content' = [content EXCEPT ![f] = @ \cup {"uploaded"}]
  /\ timer' = (timer \/ (mounted /\ f = folder /\ ~tableLoading))
  /\ excused' = (excused \/ (f # folder /\ main # 0 /\ loads[main].folder = f))
  /\ UNCHANGED <<mounted, folder, sort, nodes, tableLoading, loadingMore, main, more, loads,
                 url, visited, interrupted>>

\* An upload to f is completed on the server, and completed() told of it.
completed(f) ==
  /\ f \in Changing
  /\ content' = [content EXCEPT ![f] = @ \cup {"uploaded"}]
  /\ timer' = (timer \/ (mounted /\ f = folder))
  /\ excused' = (excused \/ (f # folder /\ main # 0 /\ loads[main].folder = f))
  /\ UNCHANGED <<mounted, folder, sort, nodes, tableLoading, loadingMore, main, more, loads,
                 url, visited, interrupted>>

\* The timer of completed().
refresh == timer /\ timer' = FALSE /\ sendMain("reload", folder, sort) /\ UNCHANGED <<sort, url>>

\* removeNodes: a dialog has moved or trashed nodes of the list.
removeNodes ==
  /\ mounted /\ folder \in Changing
  /\ content' = [content EXCEPT ![folder] = @ \cup {"trashed"}]
  /\ nodes' = [i \in DOMAIN nodes |-> [nodes[i] EXCEPT !.has = @ \cup {"trashed"}]]
  /\ excused' = (excused \/ \E n \in Loads : loads[n].state = "served")
  /\ UNCHANGED <<mounted, folder, sort, tableLoading, loadingMore, main, more, timer, loads,
                 url, visited, interrupted>>

unmount ==
  /\ mounted /\ mounted' = FALSE /\ timer' = FALSE
  /\ loads' = abort(loads, {main, more})
  /\ UNCHANGED <<folder, sort, nodes, tableLoading, loadingMore, main, more, outside, excused,
                 interrupted>>

answer(n) == serve(n) \/ shown(n) \/ extended(n) \/ rejected(n)

BrowserNext ==
  \/ reloadChildren \/ loadMore \/ refresh \/ removeNodes \/ unmount
  \/ \E f \in Folders : navigateFolder(f) \/ completed(f) \/ popstate(f)
  \/ \E s \in Sorts : updateOptions(s)
  \/ \E n \in Loads : answer(n) \/ lose(n)

BrowserSpec == BrowserInit /\ [][BrowserNext]_browserVars

\* Requests are answered, fail, or run into their timeout.
BrowserFair == BrowserSpec /\ \A n \in Loads : WF_browserVars(answer(n))

-----------------------------------------------------------------------------
(* Properties.                                                                 *)
Pending == {n \in Loads : loads[n] # NoLoad}

\* The spinners tell the truth, whoever aborted whom.
SpinnersAreTrue ==
  /\ tableLoading <=> main # 0
  /\ loadingMore <=> more # 0
  /\ {main, more} \ {0} \subseteq Pending
  /\ mounted /\ main # 0 => loads[main].state # "aborted"

\* The list is the first pages, in order, of the folder whose name is above it,
\* in one sort: no page of another folder or sort slips in.
PagesFitTogether ==
  /\ SpinnersAreTrue
  /\ \A i \in DOMAIN nodes : nodes[i].index = i /\ nodes[i].folder = folder
                             /\ nodes[i].sort = nodes[1].sort

\* At rest the list has everything that happened in its folder, except where an
\* event was missed: a failed load, an upload that ended while the folder was
\* being opened, a timer cleared by a change of view, an answer older than a
\* removal.  The URL names the folder that is shown, unless a step back in the
\* history was interrupted by another load or failed.
RestIsCurrent ==
  mounted /\ Pending = {} /\ ~timer =>
    /\ ~excused => content[folder] \subseteq nodes[1].has
    /\ ~interrupted => url = folder

\* Both: what is listed belongs together, and at rest it is all there is.
BrowserIsTrue == PagesFitTogether /\ RestIsCurrent
=============================================================================
