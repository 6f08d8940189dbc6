-------------------------- MODULE PreviewCarousel ---------------------------
(* The carousel of file previews in the web application: a swipe selects a    *)
(* slide and asks the router to show the slide's file, the router answers     *)
(* later, and the latest request wins.                                        *)
EXTENDS Naturals

CONSTANT Slides  \* the number of files with a preview
ASSUME CarouselAssumption == Slides \in Nat \ {0}

VARIABLES
  route,         \* the slide of currentFile
  snap,          \* external: the slide the carousel stands on
  selectedIndex, \* the slide whose name is shown
  navigatingTo,  \* navigatingToRef, 0 for none
  replacing,     \* external: the slide the router is going to, 0 for none
  wanted,        \* history: the slide the user swiped to last
  returned,      \* history: the user swiped back to the file that was shown
  infoVisible,   \* the caption over the slide
  infoTimer,     \* the timer that hides it is running
  hovered,       \* external: the mouse is over the carousel
  focused        \* history: the caption was called up by the focus

slideVars == <<route, snap, selectedIndex, navigatingTo, replacing, wanted, returned>>
infoVars == <<infoVisible, infoTimer, hovered, focused>>
carouselVars == <<slideVars, infoVars>>
Index == 1..Slides

CarouselInit ==
  /\ route \in Index /\ snap = route /\ selectedIndex = route
  /\ navigatingTo = 0 /\ replacing = 0 /\ wanted = route /\ returned = FALSE
  /\ infoVisible = TRUE /\ infoTimer = TRUE /\ hovered = FALSE /\ focused = FALSE

\* showInfo, with and without autoHide, and hideInfo.
showInfo(autoHide) == infoVisible' = TRUE /\ infoTimer' = autoHide
hideInfo == infoVisible' = FALSE /\ infoTimer' = FALSE /\ focused' = FALSE

\* The carousel's select event.
select(i) ==
  /\ i # snap /\ snap' = i /\ selectedIndex' = i /\ wanted' = i
  /\ IF i = route
     THEN /\ navigatingTo' = 0 /\ returned' = (replacing # 0)
          /\ UNCHANGED replacing
     ELSE IF navigatingTo = i THEN UNCHANGED <<navigatingTo, replacing, returned>>
     ELSE navigatingTo' = i /\ replacing' = i /\ returned' = FALSE
  /\ showInfo(TRUE) /\ focused' = FALSE
  /\ UNCHANGED <<route, hovered>>

\* A bug to be found: the arrival leaves the request marked.
arriveStillNavigating ==
  /\ replacing # 0
  /\ route' = replacing /\ replacing' = 0
  /\ selectedIndex' = route' /\ snap' = route'
  /\ showInfo(TRUE) /\ focused' = FALSE
  /\ UNCHANGED <<navigatingTo, wanted, returned, hovered>>

\* The page of another file is there: the effects run, and move the carousel
\* while no callback listens to it.
arrive ==
  /\ replacing # 0
  /\ route' = replacing /\ replacing' = 0
  /\ navigatingTo' = 0 /\ selectedIndex' = route' /\ snap' = route'
  /\ showInfo(TRUE) /\ focused' = FALSE
  /\ UNCHANGED <<wanted, returned, hovered>>

\* The timer has run out.
infoHides == infoTimer /\ hideInfo /\ UNCHANGED <<slideVars, hovered>>

\* The mouse enters, or moves where the caption was hidden under it.
mouseMoves ==
  /\ ~hovered \/ ~infoVisible
  /\ hovered' = TRUE /\ showInfo(FALSE)
  /\ UNCHANGED <<slideVars, focused>>

mouseLeaves == hovered /\ hovered' = FALSE /\ hideInfo /\ UNCHANGED slideVars

\* The focus comes to the carousel or moves in it; that it leaves is not heard.
focusMoves ==
  /\ showInfo(FALSE) /\ focused' = TRUE
  /\ UNCHANGED <<slideVars, hovered>>

CarouselNext == \/ arrive \/ \E i \in Index : select(i)
                \/ infoHides \/ mouseMoves \/ mouseLeaves \/ focusMoves
CarouselSpec == CarouselInit /\ [][CarouselNext]_carouselVars

-----------------------------------------------------------------------------
\* When the router is still, the slide, its caption and the route agree, and show
\* what the user swiped to last; unless the user swiped back to the file that
\* was shown while another was on its way: nothing takes that navigation back.
\* The caption that nothing will hide is there because the mouse is, or because
\* the focus called it up.
CarouselSettles ==
  /\ navigatingTo \in {0, replacing}
  /\ replacing = 0 => /\ route = snap /\ route = selectedIndex
                      /\ ~returned => route = wanted
  /\ infoTimer => infoVisible
  /\ infoVisible /\ ~infoTimer => hovered \/ focused
=============================================================================
