---------------------------- MODULE SearchPages ------------------------------
(* The search page of both applications.  The URL holds what is searched for  *)
(* (packages/shared/src/search.ts): the page parses it, a change of a filter  *)
(* patches what was parsed and navigates to the URL it formats, and the box   *)
(* does so 300 ms after the last key.  A navigation takes its time, and the   *)
(* latest wins.                                                               *)
EXTENDS Integers

CONSTANTS
  Words,      \* what can be typed, besides nothing
  Bounds,     \* the sizes and times a range can be bounded with
  MaxChanges  \* bound: of changes
ASSUME SearchAssumption == Bounds \subseteq Nat /\ "" \notin Words /\ MaxChanges \in Nat

VARIABLES
  url,     \* the parameters of the rendered URL
  going,   \* external: the parameters of the URL the router is going to
  value,   \* the box
  timer,   \* the box's timeout is running
  wanted,  \* history: the options the user asked for
  typed,   \* history: the text the user asked for
  excused, \* history: what was asked for before an answer to what came earlier
  changes  \* bound: the changes so far

searchVars == <<url, going, value, timer, wanted, typed, excused, changes>>

Sorts == {"relevance", "name", "updated", "size"} \* created is as updated
Orders == {"asc", "desc"}
Absent == -1
NoUrl == [q |-> "nowhere"]
NoParams == [q |-> "", kind |-> "", min |-> Absent, max |-> Absent, from |-> Absent, to |-> Absent,
             sort |-> "", order |-> ""]

defaultSearchSort(q) == IF q = "" THEN "updated" ELSE "relevance"
defaultSearchOrder(s) == IF s = "name" THEN "asc" ELSE "desc"

-----------------------------------------------------------------------------
(* The options.  Category, MIME type, favorite, shared and state are as kind, *)
(* the times of creation as those of the last change.                         *)
IsBefore(high, low) == high # Absent /\ low # Absent /\ high < low

\* Of a range that nothing is in, the end is left out.
normalizeSearchRanges(o) ==
  [o EXCEPT !.max = IF IsBefore(@, o.min) THEN Absent ELSE @,
            !.to = IF IsBefore(@, o.from) THEN Absent ELSE @]

parseEnum(x, values, fallback) == IF x \in values THEN x ELSE fallback
parseSize(x) == parseEnum(x, Bounds, Absent)

parseSearchOptions(u) ==
  LET raw == parseEnum(u.sort, Sorts, defaultSearchSort(u.q))
      sort == IF u.q = "" /\ raw = "relevance" THEN "updated" ELSE raw
  IN normalizeSearchRanges(
       [q |-> u.q, kind |-> parseEnum(u.kind, {"file", "folder"}, "all"),
        min |-> parseSize(u.min), max |-> parseSize(u.max), from |-> u.from, to |-> u.to,
        sort |-> sort, order |-> parseEnum(u.order, Orders, defaultSearchOrder(sort))])

\* patchSearchOptions: the bound that was set drives the other one out; the sort
\* and the order follow the query as long as they are the defaults.
patchSearchOptions(o, p) ==
  LET next == [f \in DOMAIN o |-> IF f \in DOMAIN p THEN p[f] ELSE o[f]]
      Sets(f) == f \in DOMAIN p
      High(low, high) == IF Sets(low) /\ IsBefore(next[high], next[low]) THEN Absent ELSE next[high]
      Low(low, high) == IF Sets(high) /\ IsBefore(High(low, high), next[low]) THEN Absent ELSE next[low]
      sort == IF Sets("q") /\ ~Sets("sort") /\ o.sort = defaultSearchSort(o.q)
              THEN defaultSearchSort(next.q) ELSE next.sort
  IN [next EXCEPT
        !.min = Low("min", "max"), !.max = High("min", "max"),
        !.from = Low("from", "to"), !.to = High("from", "to"),
        !.sort = IF next.q = "" /\ sort = "relevance" THEN "updated" ELSE sort,
        !.order = IF (Sets("q") \/ Sets("sort")) /\ ~Sets("order") /\ o.order = defaultSearchOrder(o.sort)
                  THEN defaultSearchOrder(sort) ELSE next.order]

\* A bug to be found: the order is left out when it is the usual one.
ParamsInUsualOrder(o) ==
  [o EXCEPT !.kind = IF @ = "all" THEN "" ELSE @,
            !.sort = IF @ = defaultSearchSort(o.q) THEN "" ELSE @,
            !.order = IF @ = "desc" THEN "" ELSE @]

\* searchParamsForOptions: only what is not the default.
searchParamsForOptions(o) ==
  [o EXCEPT !.kind = IF @ = "all" THEN "" ELSE @,
            !.sort = IF @ = defaultSearchSort(o.q) THEN "" ELSE @,
            !.order = IF @ = defaultSearchOrder(o.sort) THEN "" ELSE @]

options == parseSearchOptions(url)

\* URLs that somebody typed or shared.
Urls ==
  {NoParams,
   [NoParams EXCEPT !.q = CHOOSE w \in Words : TRUE, !.kind = "nonsense", !.order = "asc"],
   [NoParams EXCEPT !.min = 2, !.max = 1, !.sort = "relevance"],
   [NoParams EXCEPT !.min = 3, !.kind = "file", !.sort = "name", !.order = "desc"],
   [NoParams EXCEPT !.from = 2, !.to = 1, !.sort = "nonsense"]}

SearchInit ==
  /\ url \in Urls /\ going = NoUrl
  /\ value = options.q /\ timer = FALSE
  /\ wanted = options /\ typed = options.q /\ excused = {} /\ changes = 0

-----------------------------------------------------------------------------
(* What the filters, the quick filters and the sort ask for.                  *)
FilterPatches ==
  {[kind |-> k] : k \in {"all", "file", "folder"}}
    \cup {[min |-> n] : n \in Bounds \cup {Absent}} \cup {[max |-> n] : n \in Bounds \cup {Absent}}
    \cup {[from |-> n] : n \in Bounds \cup {Absent}} \cup {[to |-> n] : n \in Bounds \cup {Absent}}

\* A filter that is on can be taken off.
activeFilters ==
  {p \in {[kind |-> "all"], [min |-> Absent, max |-> Absent], [from |-> Absent, to |-> Absent]} :
     \E f \in DOMAIN p : options[f] # p[f]}

clearVisible == options.q # "" \/ activeFilters # {}

QuickFilterPatches ==
  {[kind |-> "file", min |-> n, sort |-> "size", order |-> "desc"] : n \in Bounds} \* large
    \cup {[kind |-> "file"]} \* images and videos
    \cup {[from |-> n, to |-> Absent, sort |-> "updated", order |-> "desc"] : n \in Bounds} \* recent

sortsOffered == {s \in Sorts : options.q = "" => s # "relevance"}
SortPatches == {[sort |-> s, order |-> o] : s \in sortsOffered, o \in Orders}

\* replaceOptions patches what was rendered, not what the router is going to.
replaceOptions(p) ==
  /\ changes < MaxChanges /\ changes' = changes + 1
  /\ going' = searchParamsForOptions(patchSearchOptions(options, p))
  /\ wanted' = patchSearchOptions(wanted, p)
  /\ excused' = IF going = NoUrl THEN excused ELSE excused \cup {"change"}
  /\ UNCHANGED url

change(p) == replaceOptions(p) /\ UNCHANGED <<value, timer, typed>>

\* "Clear all".
reset ==
  /\ clearVisible
  /\ changes < MaxChanges /\ changes' = changes + 1
  /\ going' = searchParamsForOptions(parseSearchOptions(NoParams))
  /\ wanted' = parseSearchOptions(NoParams)
  /\ excused' = (excused \ {"change"}) \cup {"typing"}
  /\ UNCHANGED <<url, value, timer, typed>>

\* A link, or a step in the history.
visit(u) ==
  /\ changes < MaxChanges /\ changes' = changes + 1
  /\ going' = u /\ wanted' = parseSearchOptions(u)
  /\ excused' = (excused \ {"change"}) \cup {"typing"}
  /\ UNCHANGED <<url, value, timer, typed>>

\* The box: its effect starts the timeout anew.
type(t) ==
  /\ t # value /\ value' = t /\ typed' = t
  /\ timer' = (t # options.q)
  /\ excused' = IF going = NoUrl THEN excused \ {"input"} ELSE (excused \ {"input"}) \cup {"typing"}
  /\ UNCHANGED <<url, going, wanted, changes>>

timeout ==
  /\ timer /\ timer' = FALSE
  /\ replaceOptions([q |-> value])
  /\ UNCHANGED <<value, typed>>

\* The URL is there.  With another query the box starts again with it; otherwise
\* it is rendered with a new callback, which starts its timeout again.  That the
\* page is rendered again for the URL it shows already is not certain.
arrives ==
  /\ going # NoUrl /\ url' = going /\ going' = NoUrl
  /\ LET next == parseSearchOptions(going)
     IN /\ IF next.q # options.q
           THEN value' = next.q /\ timer' = FALSE
           ELSE /\ UNCHANGED value
                /\ timer' \in {value # next.q} \cup (IF going = url THEN {timer} ELSE {})
        /\ wanted' = IF "change" \in excused THEN next ELSE wanted
        /\ typed' = IF "typing" \in excused THEN value' ELSE typed
        /\ excused' = IF value' # next.q /\ ~timer' THEN {"input"} ELSE {}
  /\ UNCHANGED changes

SearchNext ==
  \/ \E p \in FilterPatches \cup activeFilters \cup QuickFilterPatches \cup SortPatches : change(p)
  \/ reset \/ \E u \in Urls : visit(u)
  \/ \E t \in Words \cup {""} : type(t)
  \/ timeout \/ arrives

SearchSpec == SearchInit /\ [][SearchNext]_searchVars

-----------------------------------------------------------------------------
\* Through whatever URL the page was opened, and in whatever order filters, sorts
\* and words follow: the options read back from the URL are those that were asked
\* for, with no empty range and no relevance without a query, and the box shows
\* the query that is searched for, which is what was typed last.  Excused is what
\* was asked for while the router was still going somewhere: a change made then
\* takes back the one that is on its way, a key typed then is lost in the box that
\* starts again, and a page that was not rendered again does not try once more.
SearchIsWanted ==
  going = NoUrl =>
    /\ options = wanted
    /\ ~IsBefore(wanted.max, wanted.min) /\ ~IsBefore(wanted.to, wanted.from)
    /\ ~timer /\ excused = {} => value = options.q /\ typed = value
=============================================================================
