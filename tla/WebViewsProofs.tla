--------------------------- MODULE WebViewsProofs -----------------------------
(* What the web shows: the theorems about PreviewCarousel, FileFavorites,       *)
(* Routes, WebBrowser and UploadPages, for any slides, files, changes, users,   *)
(* folders, loads and uploads.                                                  *)
EXTENDS FileFavorites, PreviewCarousel, Routes, UploadPages, WebBrowser, TLAPS, FiniteSetTheorems, SequenceTheorems, WellFoundedInduction

-------------------------------------------------------------------------------
(* PreviewCarousel.                                                           *)

CarouselTypeOK ==
  /\ route \in Index /\ snap \in Index /\ selectedIndex \in Index /\ wanted \in Index
  /\ navigatingTo \in Index \cup {0} /\ replacing \in Index \cup {0}
  /\ returned \in BOOLEAN
  /\ infoVisible \in BOOLEAN /\ infoTimer \in BOOLEAN /\ hovered \in BOOLEAN /\ focused \in BOOLEAN

\* The router goes where the user swiped to last, unless that is where it is.
NavigationIsWanted ==
  /\ snap = selectedIndex
  /\ navigatingTo \in {0, replacing}
  /\ returned => navigatingTo = 0
  /\ replacing # 0 /\ ~returned => navigatingTo = replacing /\ wanted = replacing
  /\ replacing = 0 => route = snap /\ (~returned => route = wanted)

CaptionIsExplained ==
  /\ infoTimer => infoVisible
  /\ infoVisible /\ ~infoTimer => hovered \/ focused

CarouselInv == CarouselTypeOK /\ NavigationIsWanted /\ CaptionIsExplained

LEMMA CarouselInvInit == CarouselInit => CarouselInv
  BY CarouselAssumption
  DEF CarouselInit, CarouselInv, CarouselTypeOK, NavigationIsWanted, CaptionIsExplained, Index

\* A step of the slides leaves the navigation wanted, one of the caption leaves it
\* alone.
LEMMA SlidesStep ==
  ASSUME CarouselInv, CarouselNext
  PROVE /\ route' \in Index /\ snap' \in Index /\ selectedIndex' \in Index /\ wanted' \in Index
        /\ navigatingTo' \in Index \cup {0} /\ replacing' \in Index \cup {0} /\ returned' \in BOOLEAN
        /\ NavigationIsWanted'
<1> USE CarouselAssumption DEF CarouselInv, CarouselTypeOK, NavigationIsWanted, Index
<1>1. CASE arrive
      BY <1>1 DEF arrive
<1>2. ASSUME NEW i \in Index, select(i)
      PROVE /\ route' \in Index /\ snap' \in Index /\ selectedIndex' \in Index /\ wanted' \in Index
            /\ navigatingTo' \in Index \cup {0} /\ replacing' \in Index \cup {0}
            /\ returned' \in BOOLEAN /\ NavigationIsWanted'
  <2>0. /\ i # snap /\ snap' = i /\ selectedIndex' = i /\ wanted' = i /\ route' = route
        BY <1>2 DEF select
  <2>1. CASE i = route
    <3>1. navigatingTo' = 0 /\ (returned' <=> replacing # 0) /\ replacing' = replacing
                           /\ returned' \in BOOLEAN
          BY <1>2, <2>1, Zenon DEF select
    <3> QED BY <2>0, <2>1, <3>1
  <2>2. CASE i # route /\ navigatingTo = i
    <3>1. navigatingTo' = navigatingTo /\ returned' = returned /\ replacing' = replacing
          BY <1>2, <2>2, Zenon DEF select
    <3> QED BY <2>0, <2>2, <3>1
  <2>3. CASE i # route /\ navigatingTo # i
    <3>1. navigatingTo' = i /\ ~returned' /\ returned' \in BOOLEAN /\ replacing' = i
          BY <1>2, <2>3, Zenon DEF select
    <3> QED BY <2>0, <2>3, <3>1
  <2> QED BY <2>1, <2>2, <2>3
<1>3. CASE UNCHANGED slideVars
      BY <1>3 DEF slideVars
<1> QED BY <1>1, <1>2, <1>3
        DEF CarouselNext, infoHides, mouseMoves, mouseLeaves, focusMoves

\* And the caption stays explained.
LEMMA CaptionStep ==
  ASSUME CarouselInv, CarouselNext
  PROVE /\ infoVisible' \in BOOLEAN /\ infoTimer' \in BOOLEAN /\ hovered' \in BOOLEAN
        /\ focused' \in BOOLEAN /\ CaptionIsExplained'
  BY DEF CarouselInv, CarouselTypeOK, CaptionIsExplained, CarouselNext, arrive, select, infoHides,
         mouseMoves, mouseLeaves, focusMoves, showInfo, hideInfo

LEMMA CarouselInvStep == CarouselInv /\ [CarouselNext]_carouselVars => CarouselInv'
<1>1. CASE CarouselInv /\ CarouselNext
      BY <1>1, SlidesStep, CaptionStep DEF CarouselInv, CarouselTypeOK
<1>2. CASE CarouselInv /\ UNCHANGED carouselVars
      BY <1>2 DEF carouselVars, slideVars, infoVars, CarouselInv, CarouselTypeOK, NavigationIsWanted,
                  CaptionIsExplained, Index
<1> QED BY <1>1, <1>2

\* When the router is still, the slide, its caption and the route agree and show
\* what the user swiped to last, and a caption that nothing will hide is explained
\* (file-preview-carousel.tsx).
THEOREM CarouselIsSettled == CarouselSpec => []CarouselSettles
<1>1. CarouselInv => CarouselSettles
      BY DEF CarouselInv, NavigationIsWanted, CaptionIsExplained, CarouselSettles
<1> QED BY <1>1, CarouselInvInit, CarouselInvStep, PTL DEF CarouselSpec

-------------------------------------------------------------------------------
(* FileFavorites.                                                             *)

ToggleStates == {"none", "sent", "stored", "failed"}

FavoritesTypeOK ==
  /\ listed \in SUBSET Files /\ starred \in SUBSET listed /\ selected \in SUBSET listed
  /\ favorites \in SUBSET Files /\ raced \in BOOLEAN
  /\ toggles \in [Toggles -> [file : Files \cup {"none"}, value : BOOLEAN, before : BOOLEAN,
                              state : ToggleStates]]
  /\ \A t \in Toggles :
       IF toggles[t].state = "none" THEN toggles[t] = NoToggle
       ELSE toggles[t].file \in Files /\ (toggles[t].before <=> ~toggles[t].value)
  /\ bulk \in [open : SUBSET Files, failed : SUBSET Files, targets : SUBSET Files, value : BOOLEAN]
  /\ bulk.open \subseteq bulk.targets /\ bulk.failed \subseteq bulk.targets \ bulk.open
  /\ reload \in [state : {"none", "sent", "served"}, stars : SUBSET Files, files : SUBSET Files]
  /\ reload.state = "none" => reload = NoReload
  /\ reload.stars \subseteq reload.files

\* The star of f has one change under way at most.
Toggling(t, f) == toggles[t].state # "none" /\ toggles[t].file = f

\* What the list and the database say of a star while its change is under way.
StarIsKnown(f) ==
  /\ \A t \in Toggles : Toggling(t, f) =>
       /\ f \in starred <=> toggles[t].value
       /\ f \in favorites <=> (toggles[t].value <=> toggles[t].state = "stored")
  /\ f \in bulk.targets =>
       /\ f \in starred <=> bulk.value
       /\ f \in favorites <=> (bulk.value <=> f \notin bulk.open \cup bulk.failed)
  /\ f \notin bulk.targets /\ (\A t \in Toggles : ~Toggling(t, f)) =>
       (f \in starred <=> f \in favorites)

OneChangeOf(f) ==
  /\ \A t, u \in Toggles : Toggling(t, f) /\ Toggling(u, f) => t = u
  /\ \A t \in Toggles : Toggling(t, f) => f \notin bulk.targets

StarsAreKnown == \A f \in listed : OneChangeOf(f) /\ StarIsKnown(f)

\* A list that is loaded while nothing changes brings what is stored.
ReloadIsCurrent ==
  /\ Still
  /\ reload.state = "served" => reload.stars = favorites \cap reload.files

FavoritesInv ==
  /\ FavoritesTypeOK
  /\ ~raced => IF reload = NoReload THEN StarsAreKnown ELSE ReloadIsCurrent

LEMMA NoToggleType ==
  /\ NoToggle \in [file : Files \cup {"none"}, value : BOOLEAN, before : BOOLEAN, state : ToggleStates]
  /\ NoToggle.state = "none"
  BY DEF NoToggle, ToggleStates

LEMMA FavoritesInvInit == FavoritesInit => FavoritesInv
<1> SUFFICES ASSUME FavoritesInit PROVE FavoritesInv
    OBVIOUS
<1>1. FavoritesTypeOK
  <2>1. NoToggle \in [file : Files \cup {"none"}, value : BOOLEAN, before : BOOLEAN, state : ToggleStates]
    BY DEF NoToggle, ToggleStates
  <2>2. NoToggle.state = "none"
    BY DEF NoToggle
  <2>3. toggles \in [Toggles -> [file : Files \cup {"none"}, value : BOOLEAN, before : BOOLEAN,
                              state : ToggleStates]] /\ \A t \in Toggles : toggles[t] = NoToggle
    BY <2>1 DEF FavoritesInit
  <2>4. raced = FALSE
    BY Zenon DEF FavoritesInit
  <2>5. /\ listed \in SUBSET Files /\ starred \in SUBSET listed /\ selected \in SUBSET listed
        /\ favorites \in SUBSET Files
        /\ bulk \in [open : SUBSET Files, failed : SUBSET Files, targets : SUBSET Files, value : BOOLEAN]
        /\ bulk.open \subseteq bulk.targets /\ bulk.failed \subseteq bulk.targets \ bulk.open
        /\ reload \in [state : {"none", "sent", "served"}, stars : SUBSET Files, files : SUBSET Files]
        /\ reload.state = "none" => reload = NoReload
        /\ reload.stars \subseteq reload.files
    BY DEF FavoritesInit, NoBulk, NoReload
  <2> QED
    BY <2>2, <2>3, <2>4, <2>5 DEF FavoritesTypeOK
<1>2. \A f \in listed : f \notin bulk.targets /\ \A t \in Toggles : ~Toggling(t, f)
  BY DEF FavoritesInit, NoBulk, NoToggle, Toggling
<1>3. reload = NoReload /\ starred = favorites
  BY DEF FavoritesInit
<1> QED
  BY <1>1, <1>2, <1>3 DEF FavoritesInv, StarsAreKnown, OneChangeOf, StarIsKnown

\* What setFavorite and setNodesFavorite do to the stars.
LEMMA Putting ==
  ASSUME NEW stars, NEW fs, NEW value \in BOOLEAN, NEW f
  PROVE  f \in put(stars, fs, value) <=> IF f \in fs THEN value ELSE f \in stars
  BY DEF put

Undisturbed(g) ==
  /\ g \in starred' <=> g \in starred
  /\ g \in favorites' <=> g \in favorites
  /\ \A u \in Toggles : Toggling(u, g)' <=> Toggling(u, g)
  /\ \A u \in Toggles : Toggling(u, g) => toggles'[u] = toggles[u]
  /\ bulk' = bulk

LEMMA StarUndisturbed ==
  ASSUME NEW g, Undisturbed(g), OneChangeOf(g), StarIsKnown(g)
  PROVE  (OneChangeOf(g) /\ StarIsKnown(g))'
<1>1. OneChangeOf(g)'
  BY DEF Undisturbed, OneChangeOf
<1>2. StarIsKnown(g)'
  BY DEF Undisturbed, StarIsKnown
<1> QED BY <1>1, <1>2

LEMMA FavoritesInvStep == FavoritesInv /\ [FavoritesNext]_favoriteVars => FavoritesInv'
<1> SUFFICES ASSUME FavoritesInv, [FavoritesNext]_favoriteVars PROVE FavoritesInv'
    OBVIOUS
<1>1. ASSUME NEW t \in Toggles, NEW f \in Files, setFavorite(t, f) PROVE FavoritesInv'
  <2>1. \E value, before \in BOOLEAN :
          /\ value <=> f \notin starred
          /\ before <=> f \in starred
          /\ toggles' = [toggles EXCEPT ![t] = [file |-> f, value |-> value,
                                               before |-> before, state |-> "sent"]]
          /\ starred' = put(starred, {f}, value)
    <3>1. (f \notin starred) \in BOOLEAN /\ (f \in starred) \in BOOLEAN
      OBVIOUS
    <3> QED BY <1>1, <3>1, Zenon DEF setFavorite
  <2>2. PICK value \in BOOLEAN, before \in BOOLEAN :
          /\ value <=> f \notin starred
          /\ before <=> f \in starred
          /\ toggles' = [toggles EXCEPT ![t] = [file |-> f, value |-> value,
                                               before |-> before, state |-> "sent"]]
          /\ starred' = put(starred, {f}, value)
    BY <2>1, Zenon
  <2>3. /\ f \in listed /\ toggles[t] = NoToggle
        /\ UNCHANGED <<listed, selected, bulk, reload, favorites>>
        /\ raced' = (raced \/ Busy(f) \/ reload # NoReload)
    BY <1>1 DEF setFavorite
  <2>4. raced' \in BOOLEAN /\ (~raced' => ~raced /\ ~Busy(f) /\ reload = NoReload)
    BY <2>3, Zenon
  <2>5. /\ toggles'[t].file = f /\ toggles'[t].state = "sent" /\ toggles'[t].value = value
        /\ \A u \in Toggles \ {t} : toggles'[u] = toggles[u]
    BY <2>2 DEF FavoritesInv, FavoritesTypeOK
  <2>6. \A g : g \in starred' <=> IF g = f THEN value ELSE g \in starred
    BY <2>2 DEF put
  <2>7. FavoritesTypeOK'
    <3>1. /\ toggles' \in [Toggles -> [file : Files \cup {"none"}, value : BOOLEAN, before : BOOLEAN,
                              state : ToggleStates]]
          /\ \A u \in Toggles :
               IF toggles'[u].state = "none" THEN toggles'[u] = NoToggle
               ELSE toggles'[u].file \in Files /\ (toggles'[u].before <=> ~toggles'[u].value)
      BY <2>2 DEF FavoritesInv, FavoritesTypeOK, ToggleStates
    <3>2. starred' \subseteq listed
      BY <2>3, <2>6 DEF FavoritesInv, FavoritesTypeOK
    <3> QED
      BY <3>1, <3>2, <2>3, <2>4 DEF FavoritesInv, FavoritesTypeOK
  <2>8. ASSUME ~raced' PROVE StarsAreKnown'
    <3>1. StarsAreKnown /\ ~Busy(f)
      BY <2>4, <2>8, Zenon DEF FavoritesInv
    <3>2. f \notin bulk.targets /\ \A u \in Toggles : ~Toggling(u, f)
      BY <3>1 DEF Busy, Toggling
    <3>3. f \in favorites <=> f \in starred
      BY <3>1, <3>2, <2>3 DEF StarsAreKnown, StarIsKnown
    <3>4. \A u \in Toggles : Toggling(u, f)' <=> u = t
      BY <3>2, <2>5 DEF Toggling
    <3>5. OneChangeOf(f)' /\ StarIsKnown(f)'
      BY <2>2, <2>3, <2>5, <2>6, <3>2, <3>3, <3>4 DEF OneChangeOf, StarIsKnown
    <3>6. ASSUME NEW g \in listed, g # f PROVE (OneChangeOf(g) /\ StarIsKnown(g))'
      <4>1. Undisturbed(g)
        BY <2>3, <2>5, <2>6, <3>6 DEF Toggling, NoToggle, Undisturbed
      <4> QED BY <4>1, <3>1, StarUndisturbed DEF StarsAreKnown
    <3> QED BY <3>5, <3>6, <2>3 DEF StarsAreKnown
  <2> QED
    BY <2>3, <2>4, <2>7, <2>8 DEF FavoritesInv
<1>2. ASSUME NEW t \in Toggles, stored(t) PROVE FavoritesInv'
  <2>0. PICK to \in {"stored", "failed"} :
          /\ toggles' = [toggles EXCEPT ![t].state = to]
          /\ favorites' = IF to = "stored" THEN put(favorites, {toggles[t].file}, toggles[t].value)
                          ELSE favorites
    BY <1>2 DEF stored
  <2>1. /\ toggles[t].state = "sent" /\ toggles[t].file \in Files
        /\ UNCHANGED <<listed, starred, selected, bulk, reload, raced>>
    BY <1>2 DEF stored, FavoritesInv, FavoritesTypeOK
  <2>f. PICK f \in Files : f = toggles[t].file
    BY <2>1
  <2>2. /\ toggles'[t] = [toggles[t] EXCEPT !.state = to]
        /\ toggles'[t].file = f /\ toggles'[t].state = to /\ toggles'[t].value = toggles[t].value
        /\ toggles'[t].before = toggles[t].before
        /\ \A u \in Toggles \ {t} : toggles'[u] = toggles[u]
    BY <2>0, <2>f DEF FavoritesInv, FavoritesTypeOK
  <2>3. \A g : g \in favorites' <=> IF to = "stored" /\ g = f THEN toggles[t].value ELSE g \in favorites
    BY <2>0, <2>f DEF put
  <2>4. FavoritesTypeOK'
    <3>1. favorites' \subseteq Files
      BY <2>1, <2>3 DEF FavoritesInv, FavoritesTypeOK
    <3>2. toggles' \in [Toggles -> [file : Files \cup {"none"}, value : BOOLEAN, before : BOOLEAN,
                              state : ToggleStates]]
      BY <2>0 DEF FavoritesInv, FavoritesTypeOK, ToggleStates
    <3>3. \A u \in Toggles :
            IF toggles'[u].state = "none" THEN toggles'[u] = NoToggle
            ELSE toggles'[u].file \in Files /\ (toggles'[u].before <=> ~toggles'[u].value)
      BY <2>1, <2>2 DEF FavoritesInv, FavoritesTypeOK
    <3> QED BY <2>1, <3>1, <3>2, <3>3 DEF FavoritesInv, FavoritesTypeOK
  <2>5. ~Still
    BY <2>1 DEF Still, NoToggle
  <2>6. ASSUME StarsAreKnown PROVE StarsAreKnown'
    <3>1. ASSUME f \in listed PROVE (OneChangeOf(f) /\ StarIsKnown(f))'
      <4>1. Toggling(t, f) /\ OneChangeOf(f) /\ StarIsKnown(f)
        BY <2>1, <2>f, <2>6, <3>1 DEF StarsAreKnown, Toggling
      <4>2. \A u \in Toggles : (Toggling(u, f)' <=> u = t) /\ (Toggling(u, f) <=> u = t)
        BY <4>1, <2>2 DEF Toggling, OneChangeOf
      <4> QED
        BY <2>0, <2>1, <2>2, <2>3, <4>1, <4>2 DEF OneChangeOf, StarIsKnown
    <3>2. ASSUME NEW g \in listed, g # f PROVE (OneChangeOf(g) /\ StarIsKnown(g))'
      <4>1. Undisturbed(g)
        BY <2>1, <2>f, <2>2, <2>3, <3>2 DEF Toggling, Undisturbed
      <4> QED BY <4>1, <2>6, StarUndisturbed DEF StarsAreKnown
    <3> QED BY <3>1, <3>2, <2>1 DEF StarsAreKnown
  <2> QED BY <2>1, <2>4, <2>5, <2>6 DEF FavoritesInv, ReloadIsCurrent
<1>3. ASSUME NEW t \in Toggles, answered(t) PROVE FavoritesInv'
  <2>1. /\ toggles[t].state \in {"stored", "failed"} /\ toggles[t].file \in Files
        /\ toggles[t].value \in BOOLEAN /\ (toggles[t].before <=> ~toggles[t].value)
        /\ toggles' = [toggles EXCEPT ![t] = NoToggle]
        /\ UNCHANGED <<listed, selected, bulk, reload, favorites, raced>>
    BY <1>3 DEF answered, FavoritesInv, FavoritesTypeOK
  <2>2. PICK f \in Files : f = toggles[t].file
    BY <2>1
  <2>3. \A g : g \in starred' <=> IF toggles[t].state = "failed" /\ f \in listed /\ g = f
                                 THEN ~toggles[t].value ELSE g \in starred
    BY <1>3, <2>1, <2>2 DEF answered, put
  <2>4. toggles'[t] = NoToggle /\ \A u \in Toggles \ {t} : toggles'[u] = toggles[u]
    BY <2>1 DEF FavoritesInv, FavoritesTypeOK
  <2>5. FavoritesTypeOK'
    <3>1. starred' \subseteq listed
      BY <2>3 DEF FavoritesInv, FavoritesTypeOK
    <3>2. toggles' \in [Toggles -> [file : Files \cup {"none"}, value : BOOLEAN, before : BOOLEAN,
                              state : ToggleStates]]
      BY <2>1, NoToggleType DEF FavoritesInv, FavoritesTypeOK
    <3>3. \A u \in Toggles :
            IF toggles'[u].state = "none" THEN toggles'[u] = NoToggle
            ELSE toggles'[u].file \in Files /\ (toggles'[u].before <=> ~toggles'[u].value)
      BY <2>4, NoToggleType DEF FavoritesInv, FavoritesTypeOK
    <3> QED BY <2>1, <3>1, <3>2, <3>3 DEF FavoritesInv, FavoritesTypeOK
  <2>6. ~Still
    BY <2>1 DEF Still, NoToggle
  <2>7. ASSUME StarsAreKnown PROVE StarsAreKnown'
    <3>1. ASSUME f \in listed PROVE (OneChangeOf(f) /\ StarIsKnown(f))'
      <4>1. Toggling(t, f) /\ OneChangeOf(f) /\ StarIsKnown(f)
        BY <2>1, <2>2, <2>7, <3>1 DEF StarsAreKnown, Toggling
      <4>2. \A u \in Toggles : ~Toggling(u, f)'
        BY <4>1, <2>4, NoToggleType DEF Toggling, OneChangeOf
      <4>3. f \notin bulk'.targets
        BY <2>1, <4>1 DEF OneChangeOf
      <4>4. f \in starred' <=> f \in favorites'
        BY <2>1, <2>3, <3>1, <4>1 DEF StarIsKnown
      <4> QED
        BY <4>2, <4>3, <4>4 DEF OneChangeOf, StarIsKnown
    <3>2. ASSUME NEW g \in listed, g # f PROVE (OneChangeOf(g) /\ StarIsKnown(g))'
      <4>1. Undisturbed(g)
        BY <2>1, <2>2, <2>3, <2>4, <3>2 DEF Toggling, Undisturbed, NoToggle
      <4> QED BY <4>1, <2>7, StarUndisturbed DEF StarsAreKnown
    <3> QED BY <3>1, <3>2, <2>1 DEF StarsAreKnown
  <2> QED BY <2>1, <2>5, <2>6, <2>7 DEF FavoritesInv, ReloadIsCurrent
<1>4. ASSUME NEW value \in BOOLEAN, setNodesFavorite(value) PROVE FavoritesInv'
  <2>1. PICK targets \in SUBSET selected :
          /\ \A f \in targets : f \in starred <=> ~value
          /\ bulk = NoBulk
          /\ bulk' = [open |-> targets, failed |-> {}, targets |-> targets, value |-> value]
          /\ starred' = put(starred, targets, value)
          /\ raced' = (raced \/ (\E f \in targets : Busy(f)) \/ reload # NoReload)
    <3> DEFINE T == {f \in selected : (f \in starred) # value}
    <3>1. T \in SUBSET selected
      OBVIOUS
    <3>2. \A f \in T : f \in starred <=> ~value
      OBVIOUS
    <3>3. /\ bulk = NoBulk
          /\ bulk' = [open |-> T, failed |-> {}, targets |-> T, value |-> value]
          /\ starred' = put(starred, T, value)
          /\ raced' = (raced \/ (\E f \in T : Busy(f)) \/ reload # NoReload)
      BY <1>4, Zenon DEF setNodesFavorite
    <3> QED BY <3>1, <3>2, <3>3, Zenon
  <2>2. UNCHANGED <<listed, selected, toggles, reload, favorites>>
    BY <1>4 DEF setNodesFavorite
  <2>3. raced' \in BOOLEAN /\ (~raced' => ~raced /\ reload = NoReload /\ \A f \in targets : ~Busy(f))
    BY <2>1, Zenon
  <2>4. \A g : g \in starred' <=> IF g \in targets THEN value ELSE g \in starred
    BY <2>1 DEF put
  <2>5. targets \subseteq listed /\ targets \subseteq Files
    BY <2>1 DEF FavoritesInv, FavoritesTypeOK
  <2>6. FavoritesTypeOK'
    <3>1. starred' \subseteq listed
      BY <2>4, <2>5 DEF FavoritesInv, FavoritesTypeOK
    <3>2. bulk' \in [open : SUBSET Files, failed : SUBSET Files, targets : SUBSET Files, value : BOOLEAN]
      BY <2>1, <2>5
    <3> QED BY <2>1, <2>2, <2>3, <3>1, <3>2 DEF FavoritesInv, FavoritesTypeOK
  <2>7. ASSUME ~raced' PROVE StarsAreKnown'
    <3>0. StarsAreKnown
      BY <2>3, <2>7, Zenon DEF FavoritesInv
    <3>1. ASSUME NEW f \in targets PROVE (OneChangeOf(f) /\ StarIsKnown(f))'
      <4>1. OneChangeOf(f) /\ StarIsKnown(f) /\ ~Busy(f)
        BY <2>3, <2>5, <2>7, <3>0 DEF StarsAreKnown
      <4>2. \A u \in Toggles : ~Toggling(u, f) /\ ~Toggling(u, f)'
        BY <4>1, <2>2 DEF Toggling, Busy
      <4>3. f \notin bulk.targets
        BY <4>1 DEF Busy
      <4>4. f \in starred <=> f \in favorites
        BY <4>1, <4>2, <4>3 DEF StarIsKnown
      <4> QED
        BY <4>2, <4>4, <2>1, <2>2, <2>4 DEF OneChangeOf, StarIsKnown
    <3>2. ASSUME NEW g \in listed, g \notin targets PROVE (OneChangeOf(g) /\ StarIsKnown(g))'
      <4>1. /\ g \in starred' <=> g \in starred
            /\ \A u \in Toggles : Toggling(u, g)' <=> Toggling(u, g)
        BY <2>2, <2>4, <3>2 DEF Toggling
      <4>2. g \notin bulk.targets /\ g \notin bulk'.targets
        BY <2>1, <3>2 DEF NoBulk
      <4>3. OneChangeOf(g) /\ StarIsKnown(g)
        BY <3>0 DEF StarsAreKnown
      <4> QED BY <4>1, <4>2, <4>3, <2>2 DEF OneChangeOf, StarIsKnown
    <3> QED BY <3>1, <3>2, <2>2 DEF StarsAreKnown
  <2> QED BY <2>2, <2>3, <2>6, <2>7 DEF FavoritesInv
<1>5. ASSUME bulkSettled PROVE FavoritesInv'
  <2>1. /\ bulk # NoBulk /\ bulk.open = {} /\ bulk' = NoBulk
        /\ starred' = put(starred, bulk.failed \cap listed, ~bulk.value)
        /\ UNCHANGED <<listed, selected, toggles, reload, favorites, raced>>
    BY <1>5 DEF bulkSettled
  <2>2. \A g : g \in starred' <=> IF g \in bulk.failed /\ g \in listed THEN ~bulk.value ELSE g \in starred
    BY <2>1 DEF put
  <2>3. FavoritesTypeOK'
    <3>1. starred' \subseteq listed
      BY <2>2 DEF FavoritesInv, FavoritesTypeOK
    <3>2. bulk' \in [open : SUBSET Files, failed : SUBSET Files, targets : SUBSET Files, value : BOOLEAN]
          /\ bulk'.open = {} /\ bulk'.failed = {}
      BY <2>1 DEF NoBulk
    <3> QED BY <2>1, <3>1, <3>2 DEF FavoritesInv, FavoritesTypeOK
  <2>4. ~Still
    BY <2>1 DEF Still
  <2>5. ASSUME StarsAreKnown PROVE StarsAreKnown'
    <3> SUFFICES ASSUME NEW f \in listed PROVE (OneChangeOf(f) /\ StarIsKnown(f))'
      BY <2>1 DEF StarsAreKnown
    <3>1. OneChangeOf(f) /\ StarIsKnown(f) /\ f \notin bulk'.targets
      BY <2>1, <2>5 DEF StarsAreKnown, NoBulk
    <3>2. \A u \in Toggles : Toggling(u, f)' <=> Toggling(u, f)
      BY <2>1 DEF Toggling
    <3>3. CASE f \in bulk.targets
      <4>1. \A u \in Toggles : ~Toggling(u, f)
        BY <3>1, <3>3 DEF OneChangeOf
      <4>2. f \in starred' <=> f \in favorites'
        BY <2>1, <2>2, <3>1, <3>3 DEF StarIsKnown
      <4> QED BY <3>1, <3>2, <4>1, <4>2 DEF OneChangeOf, StarIsKnown
    <3>4. CASE f \notin bulk.targets
      <4>1. f \in starred' <=> f \in starred
        BY <2>2, <3>4 DEF FavoritesInv, FavoritesTypeOK
      <4> QED BY <2>1, <3>1, <3>2, <3>4, <4>1 DEF OneChangeOf, StarIsKnown
    <3> QED BY <3>3, <3>4
  <2> QED BY <2>1, <2>3, <2>4, <2>5 DEF FavoritesInv, ReloadIsCurrent
<1>6. ASSUME NEW f \in Files, bulkStored(f) PROVE FavoritesInv'
  <2>1. PICK done \in BOOLEAN :
          /\ bulk' = [bulk EXCEPT !.open = @ \ {f}, !.failed = IF done THEN @ ELSE @ \cup {f}]
          /\ favorites' = IF done THEN put(favorites, {f}, bulk.value) ELSE favorites
    <3>1. CASE favorites' = put(favorites, {f}, bulk.value) /\ bulk' = [bulk EXCEPT !.open = @ \ {f}]
      BY <3>1 DEF FavoritesInv, FavoritesTypeOK
    <3>2. CASE UNCHANGED favorites /\ bulk' = [bulk EXCEPT !.open = @ \ {f}, !.failed = @ \cup {f}]
      BY <3>2 DEF FavoritesInv, FavoritesTypeOK
    <3> QED BY <1>6, <3>1, <3>2 DEF bulkStored
  <2>2. /\ f \in bulk.open /\ UNCHANGED <<listed, starred, selected, toggles, reload, raced>>
    BY <1>6 DEF bulkStored
  <2>3. /\ bulk'.targets = bulk.targets /\ bulk'.value = bulk.value /\ bulk'.open = bulk.open \ {f}
        /\ bulk'.failed = IF done THEN bulk.failed ELSE bulk.failed \cup {f}
    BY <2>1 DEF FavoritesInv, FavoritesTypeOK
  <2>4. \A g : g \in favorites' <=> IF done /\ g = f THEN bulk.value ELSE g \in favorites
    BY <2>1 DEF put
  <2>5. FavoritesTypeOK'
    <3>1. favorites' \subseteq Files
      BY <2>4 DEF FavoritesInv, FavoritesTypeOK
    <3>2. bulk' \in [open : SUBSET Files, failed : SUBSET Files, targets : SUBSET Files, value : BOOLEAN]
      BY <2>1 DEF FavoritesInv, FavoritesTypeOK
    <3>3. bulk'.open \subseteq bulk'.targets /\ bulk'.failed \subseteq bulk'.targets \ bulk'.open
      BY <2>2, <2>3 DEF FavoritesInv, FavoritesTypeOK
    <3> QED BY <2>2, <3>1, <3>2, <3>3 DEF FavoritesInv, FavoritesTypeOK
  <2>6. ~Still
    BY <2>2 DEF Still, NoBulk
  <2>7. ASSUME StarsAreKnown PROVE StarsAreKnown'
    <3> SUFFICES ASSUME NEW g \in listed PROVE (OneChangeOf(g) /\ StarIsKnown(g))'
      BY <2>2 DEF StarsAreKnown
    <3>1. OneChangeOf(g) /\ StarIsKnown(g)
      BY <2>7 DEF StarsAreKnown
    <3>2. \A u \in Toggles : Toggling(u, g)' <=> Toggling(u, g)
      BY <2>2 DEF Toggling
    <3>3. OneChangeOf(g)'
      BY <2>3, <3>1, <3>2 DEF OneChangeOf
    <3>4. CASE g = f
      <4>1. g \in bulk.targets /\ \A u \in Toggles : ~Toggling(u, g)
        BY <2>2, <3>1, <3>4 DEF OneChangeOf, FavoritesInv, FavoritesTypeOK
      <4>2. (g \in starred <=> bulk.value) /\ (g \in favorites <=> ~bulk.value)
        BY <2>2, <3>1, <3>4, <4>1 DEF StarIsKnown
      <4>3. g \in bulk'.open \cup bulk'.failed <=> ~done
        BY <2>2, <2>3, <3>4 DEF FavoritesInv, FavoritesTypeOK
      <4>4. g \in favorites' <=> (bulk.value <=> done)
        BY <2>4, <3>4, <4>2
      <4>5. \A u \in Toggles : ~Toggling(u, g)'
        BY <3>2, <4>1
      <4>6. g \in starred' <=> bulk'.value
        BY <2>2, <2>3, <4>2
      <4>7. g \in favorites' <=> (bulk'.value <=> g \notin bulk'.open \cup bulk'.failed)
        BY <2>3, <4>3, <4>4
      <4>8. g \in bulk'.targets
        BY <2>3, <4>1
      <4> QED BY ONLY <3>3, <4>5, <4>6, <4>7, <4>8 DEF StarIsKnown
    <3>5. CASE g # f
      <4>1. (g \in favorites' <=> g \in favorites) /\ (g \in bulk'.open \cup bulk'.failed <=> g \in bulk.open \cup bulk.failed)
        BY <2>3, <2>4, <3>5
      <4>2. bulk'.targets = bulk.targets /\ bulk'.value = bulk.value /\ UNCHANGED <<starred, toggles>>
        BY <2>2, <2>3
      <4> QED BY ONLY <3>1, <3>2, <3>3, <4>1, <4>2 DEF StarIsKnown
    <3> QED BY <3>3, <3>4, <3>5
  <2> QED BY <2>2, <2>5, <2>6, <2>7 DEF FavoritesInv, ReloadIsCurrent
<1>7. ASSUME NEW f \in Files, removeNode(f) PROVE FavoritesInv'
  BY <1>7 DEF removeNode, FavoritesInv, FavoritesTypeOK, StarsAreKnown, OneChangeOf, StarIsKnown, ReloadIsCurrent,
              Toggling, Still, NoToggle, NoBulk, NoReload, put
<1>8. ASSUME reloadSent PROVE FavoritesInv'
  <2>1. /\ reload' = [NoReload EXCEPT !.state = "sent"]
        /\ UNCHANGED <<listed, starred, selected, bulk, toggles, favorites>>
    BY <1>8 DEF reloadSent
  <2>2. raced' \in BOOLEAN /\ (~raced' => Still)
    BY <1>8, Zenon DEF reloadSent
  <2>3. reload' \in [state : {"none", "sent", "served"}, stars : SUBSET Files, files : SUBSET Files]
        /\ reload'.state = "sent"
    BY <2>1 DEF NoReload
  <2> QED BY <2>1, <2>2, <2>3 DEF FavoritesInv, FavoritesTypeOK, ReloadIsCurrent, Still, NoReload
<1>9. ASSUME reloadServed PROVE FavoritesInv'
  BY <1>9 DEF reloadServed, FavoritesInv, FavoritesTypeOK, ReloadIsCurrent, Still, NoReload
<1>10. ASSUME reloadShown PROVE FavoritesInv'
  <2>1. /\ reload.state = "served" /\ listed' = reload.files /\ starred' = reload.stars
        /\ selected' = selected \cap listed' /\ reload' = NoReload /\ UNCHANGED <<bulk, toggles, favorites, raced>>
    BY <1>10 DEF reloadShown
  <2>2. reload # NoReload /\ reload.stars \subseteq reload.files
    BY <2>1 DEF NoReload, FavoritesInv, FavoritesTypeOK
  <2>3. FavoritesTypeOK'
    BY <2>1, <2>2 DEF FavoritesInv, FavoritesTypeOK, NoReload
  <2>4. ASSUME ~raced PROVE StarsAreKnown'
    <3>1. Still /\ starred' = favorites \cap listed'
      BY <2>1, <2>2, <2>4 DEF FavoritesInv, ReloadIsCurrent
    <3>2. bulk'.targets = {} /\ \A u \in Toggles : \A g : ~Toggling(u, g)'
      BY <2>1, <3>1, NoToggleType DEF Still, NoBulk, Toggling
    <3> QED BY <2>1, <3>1, <3>2 DEF StarsAreKnown, OneChangeOf, StarIsKnown
  <2> QED BY <2>1, <2>3, <2>4 DEF FavoritesInv
<1>11. ASSUME reloadFails PROVE FavoritesInv'
  BY <1>11 DEF reloadFails, FavoritesInv, FavoritesTypeOK, NoReload
<1>12. ASSUME choose PROVE FavoritesInv'
  BY <1>12 DEF choose, FavoritesInv, FavoritesTypeOK, StarsAreKnown, OneChangeOf, StarIsKnown, ReloadIsCurrent,
              Toggling, Still
<1>13. ASSUME UNCHANGED favoriteVars PROVE FavoritesInv'
  BY <1>13 DEF favoriteVars, FavoritesInv, FavoritesTypeOK, StarsAreKnown, OneChangeOf, StarIsKnown, ReloadIsCurrent,
              Toggling, Still
<1> QED
  BY <1>1, <1>2, <1>3, <1>4, <1>5, <1>6, <1>7, <1>8, <1>9, <1>10, <1>11, <1>12, <1>13 DEF FavoritesNext

\* Whatever changes of stars, bulk changes, removals and reloads of the list fail or
\* interleave: at rest the stars shown are those in the database, and only what is
\* listed is selected (file-browser.tsx), for any files and number of changes.
THEOREM FavoritesAlwaysAgree == FavoritesSpec => []FavoritesAgree
<1>1. FavoritesInv => FavoritesAgree
  BY DEF FavoritesInv, FavoritesTypeOK, StarsAreKnown, OneChangeOf, StarIsKnown, Toggling, FavoritesAgree, Still, NoToggle, NoBulk
<1> QED BY <1>1, FavoritesInvInit, FavoritesInvStep, PTL DEF FavoritesSpec

-------------------------------------------------------------------------------
(* Routes.                                                                    *)

Owners == Names \union {Unknown, None}

RoutesTypeOK ==
  /\ client \in {"web", "desktop"} /\ status \in {"loading", "disconnected", "connected"}
  /\ setup \in BOOLEAN /\ user \in Names \union {None} /\ must \subseteq Names /\ admins \subseteq Names
  /\ at \in Addresses /\ screen \in {"moving", "page", "failed", "denied", "missing", "refused"}
  /\ tree \in [app : BOOLEAN, owner : Owners] /\ (tree.app => tree.owner # None)
  /\ fresh \in BOOLEAN /\ hops \in Nat /\ linked \in BOOLEAN

\* How many redirects there are still to come, at most, from an address.
webRank(p) ==
  CASE p.page = "features"        -> 0
    [] p.page = "/"               -> IF setup THEN 1 ELSE 0
    [] p.page = "setup"           -> IF setup THEN 0 ELSE 2
    [] p.page = "login"           -> IF setup \/ user # None THEN 1 ELSE 0
    [] p.page = "change-password" -> IF user = None THEN 2 ELSE IF user \in must THEN 0 ELSE 1
    [] OTHER -> IF user = None THEN 2
                ELSE IF p.page \in AdminPages /\ user \notin admins THEN 3
                ELSE IF user \in must /\ ~tree.app THEN 1 ELSE 0
desktopRank(p) ==
  IF p.page = "/" \/ (status = "disconnected" /\ p.page # "connect") THEN 1
  ELSE IF p.page \in ActorPages \union AdminPages /\ p.owner # user /\ user # None
          /\ ~setup /\ user \notin must THEN 2
  ELSE IF p.page = "connect" THEN (IF status = "connected" THEN 1 ELSE 0)
  ELSE IF p.page = "setup" THEN (IF setup THEN 0 ELSE 1)
  ELSE IF setup THEN 1
  ELSE IF p.page = "login" THEN (IF user = None THEN 0 ELSE 1)
  ELSE IF user = None THEN 1
  ELSE IF p.page = "change-password" THEN (IF user \in must THEN 0 ELSE 1)
  ELSE IF user \in must \/ (p.page \in AdminPages /\ user \notin admins) THEN 1 ELSE 0
RedirectsAreFew ==
  moving /\ Ordinary =>
    IF Web THEN hops + webRank(at) <= MaxHops
    ELSE status # "loading" => hops + desktopRank(at) <= MaxHops

\* The layouts of the web application are of this session, and refuse nothing.
LayoutsAreFresh ==
  Web /\ fresh /\ tree.app =>
    /\ user # None /\ user \notin must
    /\ workspaceAccess(tree.owner) # 200 => screen # "page" /\ (moving => at.owner # tree.owner)
LinksArePermitted ==
  linked /\ moving =>
    /\ at.owner # None /\ user # None /\ user \notin must /\ hops = 0
    /\ at.page \in AdminPages => user \in admins
    /\ IF Web THEN tree.app ELSE desktopTarget = at
ScreenIsOfSession ==
  /\ Web /\ screen = "page" /\ at.owner # None => tree.app /\ tree.owner = at.owner
  /\ ~Web => /\ screen \in {"moving", "page"}
             /\ screen = "page" => desktopTarget = at /\ status # "loading"
             /\ status = "loading" => hops = 0
  /\ fresh /\ Web /\ screen = "page" => Permitted(at)
  /\ fresh => screen # "refused"

RoutesInv ==
  RoutesTypeOK /\ RedirectsAreFew /\ LayoutsAreFresh /\ LinksArePermitted /\ ScreenIsOfSession
-----------------------------------------------------------------------------
LEMMA AddressKinds ==
  ASSUME NEW p \in Addresses
  PROVE  \/ \E f \in Fixed \union {"/"} : p = PageAt(f) /\ p.page = f /\ p.owner = None
         \/ /\ p.page \in Pages /\ p.owner \in Names \union {Unknown} /\ p.owner # None
            /\ p.page \notin Fixed /\ p.page # "/" /\ ~(p.page = "files" /\ p.owner \in Fixed)
            /\ p = [page |-> p.page, owner |-> p.owner]
<1>1. CASE \E f \in Fixed \union {"/"} : p = PageAt(f)
  BY <1>1 DEF PageAt
<1>2. CASE \E n \in Names \union {Unknown}, q \in Pages : p = workspacePath(n, q)
  <2>1. PICK n \in Names \union {Unknown}, q \in Pages : p = workspacePath(n, q)
    BY <1>2
  <2>2. CASE q = "files" /\ n \in Fixed
    BY <2>1, <2>2 DEF workspacePath, PageAt
  <2>3. CASE ~(q = "files" /\ n \in Fixed)
    <3>1. p = [page |-> q, owner |-> n]
      BY <2>1, <2>3 DEF workspacePath
    <3>2. q \notin Fixed /\ q # "/"
      BY DEF Fixed, Pages, OpenPages, ActorPages, AdminPages, Web
    <3>3. n # None
      BY RoutesAssumption
    <3> QED BY <3>1, <3>2, <3>3, <2>3
  <2> QED BY <2>2, <2>3
<1> QED BY <1>1, <1>2 DEF Addresses

LEMMA FixedAddress ==
  ASSUME NEW f \in Fixed \union {"/"}
  PROVE  PageAt(f) \in Addresses /\ PageAt(f).page = f /\ PageAt(f).owner = None
  BY DEF Addresses, PageAt

LEMMA WorkspaceAddress ==
  ASSUME NEW n \in Names \union {Unknown}, NEW p \in Pages
  PROVE  /\ workspacePath(n, p) \in Addresses
         /\ ~(p = "files" /\ n \in Fixed) =>
              workspacePath(n, p).page = p /\ workspacePath(n, p).owner = n
         /\ p = "files" /\ n \in Fixed =>
              workspacePath(n, p).page = n /\ workspacePath(n, p).owner = None
<1>1. workspacePath(n, p) \in Addresses
  BY DEF Addresses
<1> QED BY <1>1 DEF workspacePath, PageAt

\* The pages with a name, of either application.
LEMMA NamesOfPages ==
  /\ {"login", "setup", "change-password"} \subseteq Fixed
  /\ "files" \in Pages /\ AdminPages \subseteq Pages /\ ActorPages \subseteq Pages
  /\ Fixed \cap Pages = {} /\ "/" \notin Pages /\ "/" \notin Fixed
  /\ (Web => Fixed = {"login", "setup", "change-password", "features"})
  /\ (~Web => Fixed = {"login", "setup", "change-password", "connect"})
  /\ "files" \notin ActorPages \union AdminPages
  BY DEF Fixed, Pages, OpenPages, ActorPages, AdminPages, Web

LEMMA PageReads ==
  ASSUME NEW p \in Pages, Web
  PROVE  /\ pageOf(p).reads \subseteq {"workspace", "listing", "resource", "own", "admin"}
         /\ "resource" \in pageOf(p).reads => {403, 404} \subseteq pageOf(p).missing
         /\ pageOf(p).admin <=> p \in AdminPages
         /\ "admin" \in pageOf(p).reads => p \in AdminPages
<1> USE DEF Loading, ForAdmins
<1>1. CASE p \in {"files", "folder", "file", "search", "favorites", "collections", "collection",
              "collectionFile", "shared", "activity", "storage", "trash"}
  <2>1. CASE p \in {"folder", "file", "collection", "collectionFile"}
    <3>1. pageOf(p) \in {Loading({"resource"}, {403, 404}), Loading({"resource"}, {403, 404, 409})}
      BY <2>1 DEF pageOf, FolderPage, FilePage, CollectionPage, CollectionFilePage
    <3> QED BY <3>1, <2>1 DEF AdminPages
  <2>2. CASE p \in {"files", "collections", "trash"}
    <3>1. pageOf(p) = Loading({"workspace", "listing"}, {})
      BY <2>2 DEF pageOf, FilesPage, CollectionsPage, TrashPage
    <3> QED BY <3>1, <2>2 DEF AdminPages
  <2>3. CASE p \in {"search", "favorites", "shared", "activity", "storage"}
    <3>1. pageOf(p) \in {Loading({}, {}), Loading({"own"}, {})}
      BY <2>3 DEF pageOf, SearchPage, FavoritesPage, SharedPage, ActivityPage, StoragePage
    <3> QED BY <3>1, <2>3 DEF AdminPages
  <2> QED BY <1>1, <2>1, <2>2, <2>3
<1>2. CASE p \in {"uploads", "settings", "security"}
  BY <1>2 DEF pageOf, UploadsPage, SettingsPage, SecurityPage, AdminPages
<1>3. CASE p \in {"admin", "bots", "diagnostics"}
  BY <1>3 DEF pageOf, AdminPage, AdminBotsPage, AdminDiagnosticsPage, AdminPages
<1> QED BY <1>1, <1>2, <1>3 DEF Pages, OpenPages, ActorPages, AdminPages

-----------------------------------------------------------------------------
\* The answers of the web application.
LEMMA FixedAnswers ==
  ASSUME RoutesTypeOK, Web, at.owner = None, NEW result \in webAnswers
  PROVE  /\ result.shows = None => /\ result.to \in Addresses
                                   /\ Ordinary => webRank(result.to) + 1 <= webRank(at)
                                   /\ result.to.owner # None => workspaceAccess(result.to.owner) = 200
         /\ result.shows # None => result.shows = "page" /\ Permitted(at)
<1>0. at \in Addresses /\ user \in Names \union {None} /\ (user # None => user \in Names)
  BY DEF RoutesTypeOK
<1>1. PICK f \in {"/", "login", "setup", "change-password", "features"} : at = PageAt(f) /\ at.page = f
  BY <1>0, AddressKinds, NamesOfPages
<1>2. \A g \in Fixed \union {"/"} : PageAt(g) \in Addresses /\ PageAt(g).page = g /\ PageAt(g).owner = None
  BY FixedAddress
<1>3. ASSUME user # None
      PROVE  /\ workspacePath(user, "files") \in Addresses
             /\ Ordinary => workspacePath(user, "files").page = "files" /\ workspacePath(user, "files").owner = user
             /\ workspacePath(user, "files").owner \in {None, user} /\ workspaceAccess(user) = 200
  <2>1. user \in Names \union {Unknown} /\ "files" \in Pages
    BY <1>0, <1>3, NamesOfPages
  <2>2. workspaceAccess(user) = 200
    BY <1>0, <1>3 DEF workspaceAccess
  <2> QED BY <2>1, <2>2, WorkspaceAddress DEF Ordinary
<1>4. ASSUME user # None
      PROVE  /\ authenticatedPath(user) \in Addresses
             /\ Ordinary => webRank(authenticatedPath(user)) = 0
             /\ authenticatedPath(user).owner \in {None, user} /\ workspaceAccess(user) = 200
  <2>1. CASE user \in must
    BY <2>1, <1>2, <1>3, <1>4, NamesOfPages DEF authenticatedPath, webRank
  <2>2. CASE user \notin must
    <3>1. authenticatedPath(user) = workspacePath(user, "files")
      BY <2>2 DEF authenticatedPath
    <3>2. "files" \notin AdminPages
      BY NamesOfPages
    <3> QED BY <3>1, <3>2, <2>2, <1>3, <1>4 DEF webRank
  <2> QED BY <2>1, <2>2
<1>a. {"login", "setup", "change-password"} \subseteq Fixed
  BY NamesOfPages
<1>5. CASE f = "/"
  <2>1. result = IF setup THEN Redirect(PageAt("setup")) ELSE Shows("page")
    BY <1>1, <1>5 DEF webAnswers, LandingPage
  <2> QED BY <2>1, <1>1, <1>2, <1>5, <1>a DEF Redirect, Shows, webRank, Permitted, None
<1>6. CASE f = "login"
  <2>1. result = IF setup THEN Redirect(PageAt("setup"))
                 ELSE IF user # None THEN Redirect(authenticatedPath(user)) ELSE Shows("page")
    BY <1>1, <1>6 DEF webAnswers, LoginPage
  <2> QED BY <2>1, <1>1, <1>2, <1>4, <1>6, <1>a DEF Redirect, Shows, webRank, Permitted, None
<1>7. CASE f = "setup"
  <2>1. result = IF setup THEN Shows("page") ELSE Redirect(PageAt("login"))
    BY <1>1, <1>7 DEF webAnswers, SetupPage
  <2> QED BY <2>1, <1>1, <1>2, <1>7, <1>a DEF Redirect, Shows, webRank, Permitted, None
<1>8. CASE f = "change-password"
  <2>1. result = IF user = None THEN Redirect(PageAt("login"))
                 ELSE IF user \in must THEN Shows("page") ELSE Redirect(workspacePath(user, "files"))
    BY <1>1, <1>8 DEF webAnswers, ChangePasswordPage
  <2>2. "files" \notin AdminPages
    BY NamesOfPages
  <2>3. CASE user = None
    BY <2>1, <2>3, <1>1, <1>2, <1>8, <1>a DEF Redirect, Shows, webRank, Permitted, None
  <2>4. CASE user # None /\ user \in must
    BY <2>1, <2>4, <1>1, <1>2, <1>8, <1>a DEF Redirect, Shows, webRank, Permitted, None
  <2>5. CASE user # None /\ user \notin must
    BY <2>1, <2>2, <2>5, <1>1, <1>2, <1>3, <1>8, <1>a DEF Redirect, Shows, webRank, Permitted, None
  <2> QED BY <2>3, <2>4, <2>5
<1>9. CASE f = "features"
  <2>1. result = Shows("page")
    BY <1>1, <1>9 DEF webAnswers
  <2> QED BY <2>1, <1>1, <1>9 DEF Shows, Permitted, None
<1> QED BY <1>1, <1>5, <1>6, <1>7, <1>8, <1>9

LEMMA PageAnswers ==
  ASSUME RoutesTypeOK, Web, at.owner # None, NEW result \in pageAnswers(at)
  PROVE  /\ result.shows = None => /\ user # None /\ user \notin admins /\ at.page \in AdminPages
                                   /\ result.to = workspacePath(at.owner, "files")
         /\ result.shows # None => result.shows \in {"page", "missing", "refused"}
         /\ user # None /\ result.shows = "page" => (at.page \in AdminPages => user \in admins)
         /\ user # None /\ workspaceAccess(at.owner) = 200 => result.shows # "refused"
<1>0. at \in Addresses /\ at.page \in Pages
  BY AddressKinds DEF RoutesTypeOK
<1> DEFINE page == pageOf(at.page)
           refusals == UNION {Answers(r, at.owner) \ {200} : r \in page.reads}
<1>1. /\ page.reads \subseteq {"workspace", "listing", "resource", "own", "admin"}
      /\ "resource" \in page.reads => {403, 404} \subseteq page.missing
      /\ page.admin <=> at.page \in AdminPages
      /\ "admin" \in page.reads => at.page \in AdminPages
  BY <1>0, PageReads
<1>2. \/ page.admin /\ user # None /\ user \notin admins /\ result = Redirect(workspacePath(at.owner, "files"))
      \/ /\ ~(page.admin /\ user # None /\ user \notin admins)
         /\ \/ \E a \in refusals : result = Shows(IF a \in page.missing THEN "missing" ELSE "refused")
            \/ result = Shows("page")
  BY DEF pageAnswers
<1> HIDE DEF page
<1>3. ASSUME user # None, workspaceAccess(at.owner) = 200, ~(page.admin /\ user \notin admins), NEW a \in refusals
      PROVE  a \in page.missing
  <2>1. PICK r \in page.reads : a \in Answers(r, at.owner) /\ a # 200
    BY <1>3
  <2>2. CASE r = "workspace"
    BY <2>1, <2>2, <1>3 DEF Answers
  <2>3. CASE r = "resource"
    BY <2>1, <2>3, <1>1, <1>3 DEF Answers
  <2>4. CASE r = "admin"
    BY <2>1, <2>4, <1>1, <1>3 DEF Answers
  <2>5. CASE r \in {"listing", "own"}
    BY <2>1, <2>5, <1>3 DEF Answers
  <2> QED BY <2>2, <2>3, <2>4, <2>5, <1>1
<1> HIDE DEF refusals
<1> QED BY <1>1, <1>2, <1>3 DEF Redirect, Shows, None

\* The layouts mounted are of this session, or none is.
MountedNow == tree.app => /\ user # None /\ user \notin must
                          /\ workspaceAccess(tree.owner) # 200 => at.owner # tree.owner

LEMMA WorkspaceAnswers ==
  ASSUME RoutesTypeOK, Web, at.owner # None, NEW result \in webAnswers
  PROVE  /\ result.shows = None =>
              /\ result.to \in Addresses
              /\ Ordinary => webRank(result.to) + 1 <= webRank(at)
              /\ MountedNow /\ tree.app /\ workspaceAccess(tree.owner) # 200 => result.to.owner # tree.owner
              /\ tree.app /\ user # None => at.page \in AdminPages /\ user \notin admins
         /\ result.shows # None =>
              /\ result.shows \in {"page", "denied", "missing", "refused"}
              /\ MountedNow => /\ result.shows # "refused" /\ user # None /\ user \notin must
                               /\ result.shows = "page" => Permitted(at) /\ workspaceAccess(at.owner) = 200
<1>0. /\ at \in Addresses /\ user \in Names \union {None} /\ (user # None => user \in Names)
      /\ at.page \in Pages /\ at.owner \in Names \union {Unknown} /\ at.page \notin Fixed /\ at.page # "/"
      /\ tree.app => tree.owner # None
  BY AddressKinds DEF RoutesTypeOK
<1>a. at.page \notin {"/", "login", "setup", "change-password", "features", "connect"}
  BY <1>0 DEF Pages, OpenPages, ActorPages, AdminPages
<1>1. /\ result \in workspaceAnswers
      /\ webRank(at) = IF user = None THEN 2
                       ELSE IF at.page \in AdminPages /\ user \notin admins THEN 3
                       ELSE IF user \in must /\ ~tree.app THEN 1 ELSE 0
      /\ Permitted(at) <=> (user # None /\ user \notin must /\ (at.page \in AdminPages => user \in admins))
  BY <1>a DEF webAnswers, webRank, Permitted
<1>2. /\ PageAt("login") \in Addresses /\ webRank(PageAt("login")) = (IF setup \/ user # None THEN 1 ELSE 0)
      /\ PageAt("change-password") \in Addresses /\ PageAt("login").owner = None /\ PageAt("change-password").owner = None
      /\ webRank(PageAt("change-password")) = IF user = None THEN 2 ELSE IF user \in must THEN 0 ELSE 1
  BY FixedAddress, NamesOfPages DEF webRank
<1>3. workspaceAccess(at.owner) \in {200, 401, 403, 404} /\ (workspaceAccess(at.owner) = 401 <=> user = None)
  BY DEF workspaceAccess
<1>4. CASE ~tree.app /\ user = None
  <2>1. result = Redirect(PageAt("login"))
    BY <1>1, <1>4 DEF workspaceAnswers, AppLayout
  <2> QED BY <2>1, <1>1, <1>2, <1>4 DEF Redirect, MountedNow
<1>5. CASE ~tree.app /\ user # None /\ user \in must
  <2>1. result = Redirect(PageAt("change-password"))
    BY <1>1, <1>5 DEF workspaceAnswers, AppLayout
  <2> QED BY <2>1, <1>1, <1>2, <1>5 DEF Redirect, MountedNow
<1>6. CASE tree.app \/ (user # None /\ user \notin must)
  <2>0. (IF tree.app THEN {} ELSE AppLayout) = {}
    BY <1>6 DEF AppLayout
  <2>1. CASE ~(tree.app /\ tree.owner = at.owner) /\ user = None
    <3>1. result = Redirect(PageAt("login"))
      BY <1>1, <2>0, <2>1 DEF workspaceAnswers, WorkspaceLayout
    <3> QED BY <3>1, <1>0, <1>1, <1>2, <1>6, <2>1 DEF Redirect, MountedNow
  <2>2. CASE ~(tree.app /\ tree.owner = at.owner) /\ user # None /\ workspaceAccess(at.owner) # 200
    <3>1. result \in {Shows("denied"), Shows("missing")}
      BY <1>1, <1>3, <2>0, <2>2 DEF workspaceAnswers, WorkspaceLayout
    <3>2. result.shows \in {"denied", "missing"}
      BY <3>1 DEF Shows
    <3> QED BY <3>2, <1>6, <2>2 DEF MountedNow, None
  <2>3. CASE (tree.app /\ tree.owner = at.owner) \/ (user # None /\ workspaceAccess(at.owner) = 200)
    <3>0. (IF tree.app /\ tree.owner = at.owner THEN {} ELSE WorkspaceLayout(at.owner)) = {}
      BY <2>3 DEF WorkspaceLayout
    <3>1. result \in pageAnswers(at)
      BY <1>1, <2>0, <3>0 DEF workspaceAnswers
    <3>2. /\ result.shows = None => /\ user # None /\ user \notin admins /\ at.page \in AdminPages
                                   /\ result.to = workspacePath(at.owner, "files")
          /\ result.shows # None => result.shows \in {"page", "missing", "refused"}
          /\ user # None /\ result.shows = "page" => (at.page \in AdminPages => user \in admins)
          /\ user # None /\ workspaceAccess(at.owner) = 200 => result.shows # "refused"
      BY <3>1, PageAnswers
    <3>3. MountedNow => user # None /\ user \notin must /\ workspaceAccess(at.owner) = 200
      BY <1>6, <2>3 DEF MountedNow
    <3>4. ASSUME result.shows = None
          PROVE  /\ result.to \in Addresses /\ result.to.owner \in {None, at.owner}
                 /\ webRank(result.to) + 1 <= webRank(at)
      <4>1. webRank(at) = 3 /\ user # None
        BY <3>2, <3>4, <1>1
      <4>2. /\ result.to \in Addresses
            /\ at.owner \notin Fixed => result.to.page = "files" /\ result.to.owner = at.owner
            /\ at.owner \in Fixed => result.to.page = at.owner /\ result.to.owner = None
        BY <3>2, <3>4, <1>0, WorkspaceAddress, NamesOfPages
      <4>3. webRank(result.to) \in {0, 1, 2}
        <5>1. result.to.page \notin AdminPages
          BY <4>2, NamesOfPages
        <5>2. CASE result.to.page = "files"
          BY <5>1, <5>2, <4>1 DEF webRank
        <5>3. CASE result.to.page \in {"login", "setup", "change-password", "features"}
          BY <5>1, <5>3, <4>1 DEF webRank
        <5> QED BY <5>2, <5>3, <4>2, NamesOfPages
      <4> QED BY <4>1, <4>2, <4>3
    <3>5. ASSUME result.shows = None, MountedNow, tree.app, workspaceAccess(tree.owner) # 200
          PROVE  result.to.owner # tree.owner
      BY <3>3, <3>4, <3>5, <1>0
    <3>6. ASSUME result.shows # None
          PROVE  /\ result.shows \in {"page", "denied", "missing", "refused"}
                 /\ MountedNow => /\ result.shows # "refused" /\ user # None /\ user \notin must
                                  /\ result.shows = "page" => Permitted(at) /\ workspaceAccess(at.owner) = 200
      BY <3>2, <3>3, <3>6, <1>1
    <3> QED BY <3>2, <3>4, <3>5, <3>6
  <2> QED BY <2>1, <2>2, <2>3
<1> QED BY <1>4, <1>5, <1>6

\* The guards of the desktop.
LEMMA DesktopRanks ==
  ASSUME RoutesTypeOK, ~Web, status # "loading"
  PROVE  /\ status = "disconnected" => desktopRank(PageAt("connect")) = 0
         /\ status # "disconnected" /\ setup => desktopRank(PageAt("setup")) = 0
         /\ status # "disconnected" /\ ~setup /\ user = None => desktopRank(PageAt("login")) = 0
         /\ status # "disconnected" /\ ~setup /\ user # None /\ user \in must =>
              desktopRank(PageAt("change-password")) = 0
         /\ status # "disconnected" /\ ~setup /\ user # None /\ user \notin must /\ Ordinary =>
              /\ desktopRank(workspacePath(user, "files")) = 0
              /\ \A p \in ActorPages \union AdminPages :
                   desktopRank(workspacePath(user, p)) = IF p \in AdminPages /\ user \notin admins THEN 1 ELSE 0
<1>1. \A f \in Fixed : PageAt(f).page = f /\ f \notin ActorPages \union AdminPages /\ f # "/"
  BY NamesOfPages DEF PageAt
<1>2. {"login", "setup", "change-password", "connect"} \subseteq Fixed
  BY NamesOfPages
<1>3. \A p \in {"files"} \union ActorPages \union AdminPages :
        /\ p \in Pages /\ p \notin Fixed /\ p # "/"
        /\ p \notin {"login", "setup", "change-password", "connect"}
  BY NamesOfPages
<1>4. ASSUME user # None, Ordinary, NEW p \in {"files"} \union ActorPages \union AdminPages
      PROVE  workspacePath(user, p).page = p /\ workspacePath(user, p).owner = user
  BY <1>3, <1>4, WorkspaceAddress DEF Ordinary, RoutesTypeOK
<1>5. "files" \notin ActorPages \union AdminPages
  BY NamesOfPages
<1>6. ASSUME status # "disconnected", ~setup, user # None, user \notin must, Ordinary,
             NEW p \in {"files"} \union ActorPages \union AdminPages
      PROVE  desktopRank(workspacePath(user, p)) = IF p \in AdminPages /\ user \notin admins THEN 1 ELSE 0
  BY <1>3, <1>4, <1>6 DEF desktopRank
<1>7. status \in {"disconnected", "connected"}
  BY DEF RoutesTypeOK
<1> QED BY <1>1, <1>2, <1>5, <1>6, <1>7 DEF desktopRank

LEMMA DesktopTargets ==
  ASSUME RoutesTypeOK, ~Web, status # "loading"
  PROVE  /\ desktopTarget \in Addresses
         /\ Ordinary => /\ desktopTarget # at => desktopRank(desktopTarget) + 1 <= desktopRank(at)
                        /\ desktopRank(at) = 0 => desktopTarget = at
                        /\ desktopTarget = at => Permitted(at)
<1>0. /\ at \in Addresses /\ user \in Names \union {None} /\ (user # None => user \in Names)
      /\ status \in {"disconnected", "connected"} /\ setup \in BOOLEAN
  BY DEF RoutesTypeOK
<1>1. \A f \in Fixed \union {"/"} : PageAt(f) \in Addresses /\ PageAt(f).page = f /\ PageAt(f).owner = None
  BY FixedAddress
<1>2. {"login", "setup", "change-password", "connect"} \subseteq Fixed
  BY NamesOfPages
<1>3. ASSUME user # None, NEW p \in {"files"} \union ActorPages \union AdminPages
      PROVE  /\ workspacePath(user, p) \in Addresses
             /\ Ordinary => workspacePath(user, p).page = p /\ workspacePath(user, p).owner = user
  BY <1>0, <1>3, WorkspaceAddress, NamesOfPages DEF Ordinary
<1>4. /\ connectedRouteTarget \in Addresses
      /\ Ordinary /\ status # "disconnected" => desktopRank(connectedRouteTarget) = 0
  BY <1>0, <1>1, <1>2, <1>3, DesktopRanks DEF connectedRouteTarget, authenticatedPath
<1>5. PageAt("connect") \in Addresses /\ (status = "disconnected" => desktopRank(PageAt("connect")) = 0)
  BY <1>1, <1>2, DesktopRanks
<1>6. CASE \E f \in Fixed \union {"/"} : at = PageAt(f) /\ at.page = f /\ at.owner = None
  <2>1. PICK f \in {"/", "connect", "setup", "login", "change-password"} : at = PageAt(f) /\ at.page = f
    BY <1>6, NamesOfPages
  <2>a. f \notin ActorPages \union AdminPages
    BY DEF ActorPages, AdminPages
  <2>2. CASE f = "/"
    <3>1. desktopTarget = RootRoute /\ desktopRank(at) = 1
      BY <2>1, <2>2 DEF desktopTarget, desktopRank
    <3>2. RootRoute \in Addresses /\ (Ordinary => desktopRank(RootRoute) = 0)
      BY <1>4, <1>5 DEF RootRoute
    <3> QED BY <3>1, <3>2
  <2>3. CASE f = "connect"
    <3>1. desktopTarget = ConnectRoute /\ desktopRank(at) = (IF status = "connected" THEN 1 ELSE 0)
      BY <2>1, <2>3, <2>a DEF desktopTarget, desktopRank
    <3>2. Permitted(at) <=> status = "disconnected"
      BY <2>1, <2>3 DEF Permitted
    <3>3. CASE status = "connected"
      BY <3>1, <3>3, <1>4 DEF ConnectRoute
    <3>4. CASE status = "disconnected"
      BY <3>1, <3>2, <3>4, <1>0 DEF ConnectRoute
    <3> QED BY <3>3, <3>4, <1>0
  <2>4. CASE f = "setup"
    <3>1. /\ desktopTarget = SetupRoute
          /\ desktopRank(at) = (IF status = "disconnected" THEN 1 ELSE IF setup THEN 0 ELSE 1)
      BY <2>1, <2>4, <2>a DEF desktopTarget, desktopRank
    <3>2. Permitted(at) <=> setup
      BY <2>1, <2>4 DEF Permitted
    <3>3. CASE status = "disconnected"
      BY <3>1, <3>3, <1>5 DEF SetupRoute
    <3>4. CASE status # "disconnected" /\ setup
      BY <3>1, <3>2, <3>4, <1>0 DEF SetupRoute
    <3>5. CASE status # "disconnected" /\ ~setup
      BY <3>1, <3>5, <1>4 DEF SetupRoute
    <3> QED BY <3>3, <3>4, <3>5
  <2>5. CASE f = "login"
    <3>1. /\ desktopTarget = LoginRoute
          /\ desktopRank(at) = (IF status = "disconnected" THEN 1 ELSE IF setup THEN 1 ELSE IF user = None THEN 0 ELSE 1)
      BY <2>1, <2>5, <2>a DEF desktopTarget, desktopRank
    <3>2. Permitted(at) <=> ~setup /\ user = None
      BY <2>1, <2>5 DEF Permitted
    <3>3. CASE status = "disconnected"
      BY <3>1, <3>3, <1>5 DEF LoginRoute
    <3>4. CASE status # "disconnected" /\ ~setup /\ user = None
      BY <3>1, <3>2, <3>4, <1>0 DEF LoginRoute
    <3>5. CASE status # "disconnected" /\ (setup \/ user # None)
      <4>1. LoginRoute = connectedRouteTarget
        BY <3>5 DEF LoginRoute, connectedRouteTarget
      <4> QED BY <3>1, <3>5, <4>1, <1>4
    <3> QED BY <3>3, <3>4, <3>5
  <2>6. CASE f = "change-password"
    <3>1. /\ desktopTarget = ChangePasswordRoute
          /\ desktopRank(at) = (IF status = "disconnected" THEN 1 ELSE IF setup THEN 1 ELSE IF user = None THEN 1
                                ELSE IF user \in must THEN 0 ELSE 1)
      BY <2>1, <2>6, <2>a DEF desktopTarget, desktopRank
    <3>2. Permitted(at) <=> user \in must
      BY <2>1, <2>6 DEF Permitted
    <3>3. CASE status = "disconnected"
      BY <3>1, <3>3, <1>5 DEF ChangePasswordRoute
    <3>4. CASE status # "disconnected" /\ ~setup /\ user # None /\ user \in must
      BY <3>1, <3>2, <3>4, <1>0 DEF ChangePasswordRoute
    <3>5. CASE status # "disconnected" /\ (setup \/ user = None \/ user \notin must)
      <4>1. ChangePasswordRoute = connectedRouteTarget
        BY <3>5 DEF ChangePasswordRoute, connectedRouteTarget, authenticatedPath
      <4>2. desktopRank(at) = 1
        BY <3>1, <3>5
      <4>3. Ordinary => desktopRank(connectedRouteTarget) = 0 /\ connectedRouteTarget # at
        BY <4>2, <1>4, <3>5
      <4> QED BY <3>1, <4>1, <4>2, <4>3, <1>4
    <3> QED BY <3>3, <3>4, <3>5
  <2> QED BY <2>2, <2>3, <2>4, <2>5, <2>6
<1>7. CASE at.owner # None
  <2>0. /\ at.page \in Pages /\ at.owner \in Names \union {Unknown} /\ at.page \notin Fixed /\ at.page # "/"
        /\ ~(at.page = "files" /\ at.owner \in Fixed)
        /\ at = [page |-> at.page, owner |-> at.owner]
        /\ at.page \notin {"login", "setup", "change-password", "connect", "features"}
    BY <1>0, <1>2, <1>7, AddressKinds DEF Pages, OpenPages, ActorPages, AdminPages
  <2>1. /\ desktopTarget = AuthenticatedRoute
        /\ Permitted(at) <=> /\ user # None /\ user \notin must
                             /\ at.page \in AdminPages => user \in admins
                             /\ at.page \in ActorPages \union AdminPages => at.owner = user
    BY <2>0 DEF desktopTarget, Permitted
  <2>2. CASE status = "disconnected"
    <3>1. desktopRank(at) = 1
      BY <2>0, <2>2 DEF desktopRank
    <3> QED BY <3>1, <2>1, <2>2, <1>0, <1>5, <1>2, <2>0, <1>1 DEF AuthenticatedRoute
  <2>3. CASE status # "disconnected" /\ (setup \/ user = None \/ user \in must)
    <3>1. desktopRank(at) = 1
      BY <2>0, <2>3 DEF desktopRank
    <3>2. AuthenticatedRoute = connectedRouteTarget
      BY <2>3 DEF AuthenticatedRoute, connectedRouteTarget, authenticatedPath
    <3>3. Ordinary => desktopRank(connectedRouteTarget) = 0
      BY <1>4, <2>3
    <3> QED BY <3>1, <3>2, <3>3, <2>1, <1>4
  <2>4. CASE status # "disconnected" /\ ~setup /\ user # None /\ user \notin must
    <3>1. CASE at.page \in ActorPages \union AdminPages /\ at.owner # user
      <4>1. AuthenticatedRoute = workspacePath(user, at.page) /\ desktopRank(at) = 2
        BY <2>0, <2>4, <3>1 DEF AuthenticatedRoute, ActorRouteGuard, actorRouteRedirect, desktopRank
      <4>2. Ordinary => desktopRank(workspacePath(user, at.page)) \in {0, 1}
        BY <2>4, <3>1, DesktopRanks
      <4>3. workspacePath(user, at.page) \in Addresses
        BY <1>3, <2>4, <3>1
      <4>4. Ordinary => workspacePath(user, at.page) # at
        BY <1>3, <2>4, <3>1
      <4> QED BY <4>1, <4>2, <4>3, <4>4, <2>1
    <3>2. CASE at.page \in AdminPages /\ at.owner = user /\ user \notin admins
      <4>1. AuthenticatedRoute = workspacePath(user, "files") /\ desktopRank(at) = 1
        BY <2>0, <2>4, <3>2 DEF AuthenticatedRoute, ActorRouteGuard, AdminRouteGuard, adminRouteRedirect, desktopRank
      <4>2. Ordinary => desktopRank(workspacePath(user, "files")) = 0
        BY <2>4, DesktopRanks
      <4>3. workspacePath(user, "files") \in Addresses
        BY <1>3, <2>4
      <4> QED BY <4>1, <4>2, <4>3, <2>1
    <3>3. CASE /\ at.page \in ActorPages \union AdminPages => at.owner = user
               /\ at.page \in AdminPages => user \in admins
      <4>1. AuthenticatedRoute = at /\ desktopRank(at) = 0
        BY <2>0, <2>4, <3>3 DEF AuthenticatedRoute, ActorRouteGuard, AdminRouteGuard, desktopRank
      <4> QED BY <4>1, <2>1, <2>4, <3>3, <1>0
    <3> QED BY <3>1, <3>2, <3>3
  <2> QED BY <2>2, <2>3, <2>4
<1> QED BY <1>0, <1>6, <1>7, AddressKinds

-----------------------------------------------------------------------------
\* The session as it is now: every guard and every layout is read anew.
LEMMA RankBounds ==
  ASSUME RoutesTypeOK
  PROVE  webRank(at) \in 0..3 /\ desktopRank(at) \in 0..2
<1>1. webRank(at) \in 0..3
  BY DEF webRank
<1>2. desktopRank(at) \in 0..2
  BY DEF desktopRank
<1> QED BY <1>1, <1>2

LEMMA RoutesInvInit == RoutesInit => RoutesInv
<1> SUFFICES ASSUME RoutesInit PROVE RoutesInv
  OBVIOUS
<1>1. RoutesTypeOK
  <2>1. (CHOOSE n \in Names : TRUE) \in Names
    BY RoutesAssumption
  <2>2. at \in Addresses
    BY FixedAddress DEF RoutesInit
  <2>3. tree = [app |-> FALSE, owner |-> None]
    BY DEF RoutesInit, NoTree
  <2>4. tree \in [app : BOOLEAN, owner : Owners] /\ ~tree.app
    BY <2>3 DEF Owners
  <2>5. must \subseteq Names /\ admins \subseteq Names /\ user \in Names \union {None}
    BY <2>1 DEF RoutesInit
  <2>6. client \in {"web", "desktop"} /\ status \in {"loading", "disconnected", "connected"}
    BY DEF RoutesInit, Web
  <2> QED BY <2>2, <2>4, <2>5, <2>6 DEF RoutesInit, RoutesTypeOK
<1>2. hops = 0 /\ screen = "moving" /\ ~tree.app /\ linked = FALSE
  BY DEF RoutesInit, NoTree
<1>3. RedirectsAreFew
  BY <1>1, <1>2, RankBounds, RoutesAssumption DEF RedirectsAreFew
<1> QED BY <1>1, <1>2, <1>3 DEF RoutesInv, LayoutsAreFresh, LinksArePermitted, ScreenIsOfSession, moving

\* A navigation starts, or the session changes under one on the desktop.
LEMMA StartKeepsRoutes ==
  ASSUME RoutesTypeOK', hops' = 0, screen' = "moving", 
         Web' /\ fresh' /\ tree'.app => user' # None /\ user' \notin must'
           /\ ((workspaceAccess(tree.owner) # 200)' => at'.owner # tree'.owner),
         LinksArePermitted'
  PROVE  RoutesInv'
<1>1. RedirectsAreFew'
  <2>1. webRank(at)' \in 0..3 /\ desktopRank(at)' \in 0..2
    BY DEF webRank, desktopRank
  <2> QED BY <2>1, RoutesAssumption DEF RedirectsAreFew
<1> QED BY <1>1 DEF RoutesInv, LayoutsAreFresh, ScreenIsOfSession, moving

\* What an address and a guard are depends on the application alone, or on the session.
LEMMA AddressesUnchanged ==
  ASSUME UNCHANGED client
  PROVE  Addresses' = Addresses /\ (Web' <=> Web) /\ Fixed' = Fixed /\ ActorPages' = ActorPages
         /\ \A n, p : workspacePath(n, p)' = workspacePath(n, p)
<1>1. Web' <=> Web
  BY DEF Web
<1>2. Fixed' = Fixed /\ ActorPages' = ActorPages
  BY <1>1 DEF Fixed, ActorPages
<1>3. \A n, p : workspacePath(n, p)' = workspacePath(n, p)
  BY <1>2 DEF workspacePath
<1>4. Pages' = Pages
  BY <1>2 DEF Pages
<1> QED BY <1>1, <1>2, <1>3, <1>4 DEF Addresses

LEMMA GuardsUnchanged ==
  ASSUME UNCHANGED <<client, status, setup, user, must, admins, at>>
  PROVE  desktopTarget' = desktopTarget /\ (Permitted(at)' <=> Permitted(at))
<1>1. (Web' <=> Web) /\ Fixed' = Fixed /\ ActorPages' = ActorPages
      /\ \A n, p : workspacePath(n, p)' = workspacePath(n, p)
  BY AddressesUnchanged
<1>2. desktopTarget' = desktopTarget
  BY <1>1 DEF desktopTarget, RootRoute, ConnectRoute, SetupRoute, LoginRoute, ChangePasswordRoute,
       AuthenticatedRoute, ActorRouteGuard, AdminRouteGuard, actorRouteRedirect, adminRouteRedirect,
       connectedRouteTarget, authenticatedPath
<1>3. Permitted(at)' <=> Permitted(at)
  BY <1>1 DEF Permitted
<1> QED BY <1>2, <1>3

LEMMA serverFetchKeepsRoutes ==
  ASSUME RoutesInv, serverFetch
  PROVE  RoutesInv'
<1>0. RoutesTypeOK /\ Web /\ moving /\ UNCHANGED <<client, session, linked>> /\ client = "web"
  BY DEF RoutesInv, serverFetch, Web
<1>1. /\ UNCHANGED <<client, status, setup, user, must, admins, linked>> /\ Web'
      /\ at \in Addresses
      /\ fresh => MountedNow
  BY <1>0 DEF RoutesInv, RoutesTypeOK, session, LayoutsAreFresh, MountedNow, Web
<1>2. ASSUME NEW result \in webAnswers
      PROVE  /\ result.shows = None =>
                  /\ result.to \in Addresses
                  /\ Ordinary => webRank(result.to) + 1 <= webRank(at)
                  /\ MountedNow /\ tree.app /\ workspaceAccess(tree.owner) # 200 => result.to.owner # tree.owner
                  /\ tree.app /\ user # None /\ at.owner # None => at.page \in AdminPages /\ user \notin admins
             /\ result.shows # None =>
                  /\ result.shows \in {"page", "denied", "missing", "refused"}
                  /\ at.owner = None => result.shows = "page" /\ Permitted(at)
                  /\ at.owner # None /\ MountedNow =>
                       /\ result.shows # "refused" /\ user # None /\ user \notin must
                       /\ result.shows = "page" => Permitted(at) /\ workspaceAccess(at.owner) = 200
  <2>1. CASE at.owner = None
    <3>1. tree.app => tree.owner # None
      BY <1>0 DEF RoutesTypeOK
    <3> QED BY <2>1, <3>1, <1>0, FixedAnswers
  <2>2. CASE at.owner # None
    BY <2>2, <1>0, WorkspaceAnswers
  <2> QED BY <2>1, <2>2
<1>3. ASSUME NEW result \in webAnswers, result.shows = None, at' = result.to, hops' = hops + 1,
             UNCHANGED <<screen, tree, fresh>>
      PROVE  RoutesInv'
  <2>1. RoutesTypeOK'
    <3>1. Addresses' = Addresses
      BY <1>1, AddressesUnchanged
    <3>2. at' \in Addresses' /\ hops' \in Nat
      BY <3>1, <1>0, <1>2, <1>3 DEF RoutesTypeOK
    <3> QED BY <3>2, <1>0, <1>1, <1>3 DEF RoutesTypeOK
  <2>2. RedirectsAreFew'
    <3>1. ASSUME Ordinary' PROVE hops' + webRank(at)' <= MaxHops
      <4>1. Ordinary /\ hops + webRank(at) <= MaxHops /\ hops \in Nat
        BY <3>1, <1>0, <1>1 DEF RoutesInv, RoutesTypeOK, RedirectsAreFew, Ordinary, Fixed, Web
      <4>2. webRank(at)' = webRank(result.to)
        BY <1>1, <1>3 DEF webRank
      <4>3. webRank(result.to) + 1 <= webRank(at) /\ webRank(at) \in 0..3 /\ webRank(result.to) \in 0..3
        BY <4>1, <1>2, <1>3, RankBounds, <1>0 DEF webRank
      <4> QED BY <4>1, <4>2, <4>3, <1>3, RoutesAssumption
    <3> QED BY <3>1, <1>1 DEF RedirectsAreFew
  <2>3. LayoutsAreFresh'
    <3>1. workspaceAccess(tree.owner)' = workspaceAccess(tree.owner)
      BY <1>1, <1>3 DEF workspaceAccess
    <3>2. screen' # "page"
      BY <1>0, <1>3 DEF moving
    <3>3. fresh /\ tree.app => user # None /\ user \notin must
      BY <1>0 DEF RoutesInv, LayoutsAreFresh
    <3>4. fresh /\ tree.app /\ workspaceAccess(tree.owner) # 200 => at'.owner # tree.owner
      BY <1>1, <1>2, <1>3
    <3> QED BY <3>1, <3>2, <3>3, <3>4, <1>1, <1>3 DEF LayoutsAreFresh
  <2>4. LinksArePermitted'
    <3>1. ~linked
      BY <1>0, <1>2, <1>3 DEF RoutesInv, LinksArePermitted
    <3> QED BY <3>1, <1>1 DEF LinksArePermitted
  <2>5. ScreenIsOfSession'
    BY <1>0, <1>1, <1>3 DEF ScreenIsOfSession, moving
  <2> QED BY <2>1, <2>2, <2>3, <2>4, <2>5 DEF RoutesInv
<1>4. ASSUME NEW result \in webAnswers, result.shows # None, screen' = result.shows,
             tree' = IF at.owner = None THEN NoTree ELSE [app |-> TRUE, owner |-> at.owner],
             fresh' = (fresh \/ at.owner = None \/ ~tree.app), UNCHANGED <<at, hops>>
      PROVE  RoutesInv'
  <2>a. screen' \in {"page", "denied", "missing", "refused"}
    BY <1>2, <1>4
  <2>b. at.owner \in Owners
    BY <1>1, AddressKinds DEF Owners
  <2>c. tree' \in [app : BOOLEAN, owner : Owners] /\ (tree'.app <=> at.owner # None)
        /\ (at.owner # None => tree'.owner = at.owner)
    BY <1>4, <2>b DEF NoTree, Owners
  <2>1. RoutesTypeOK'
    <3>1. Addresses' = Addresses
      BY <1>1, AddressesUnchanged
    <3>2. fresh' \in BOOLEAN
      BY <1>4
    <3> QED BY <3>1, <3>2, <2>a, <2>c, <1>0, <1>1, <1>4 DEF RoutesTypeOK
  <2>2. RedirectsAreFew' /\ LinksArePermitted'
    BY <2>a DEF RedirectsAreFew, LinksArePermitted, moving
  <2>d. fresh' /\ at.owner # None => MountedNow
    BY <1>1, <1>4 DEF MountedNow
  <2>3. LayoutsAreFresh'
    <3>1. \A o : workspaceAccess(o)' = workspaceAccess(o)
      BY <1>1 DEF workspaceAccess
    <3>2. ASSUME fresh', tree'.app
          PROVE  /\ user # None /\ user \notin must
                 /\ workspaceAccess(at.owner) # 200 => screen' # "page"
      BY <3>2, <2>c, <2>d, <1>2, <1>4
    <3>3. tree'.app => workspaceAccess(tree.owner)' = workspaceAccess(at.owner)
      BY <2>c, <1>1 DEF workspaceAccess
    <3> QED BY <3>2, <3>3, <2>a, <1>1 DEF LayoutsAreFresh, moving
  <2>4. ScreenIsOfSession'
    <3>1. fresh' /\ screen' = "page" => Permitted(at)
      BY <2>d, <1>2, <1>4
    <3>2. Permitted(at)' <=> Permitted(at)
      BY <1>1, <1>4 DEF Permitted, ActorPages, Web
    <3>3. fresh' => screen' # "refused"
      BY <2>d, <1>2, <1>4
    <3> QED BY <3>1, <3>2, <3>3, <2>c, <1>1, <1>4 DEF ScreenIsOfSession
  <2> QED BY <2>1, <2>2, <2>3, <2>4 DEF RoutesInv
<1>5. ASSUME screen' = "failed", UNCHANGED <<at, hops, tree, fresh>>
      PROVE  RoutesInv'
  <2>1. Addresses' = Addresses
    BY <1>1, AddressesUnchanged
  <2>2. RoutesTypeOK'
    BY <2>1, <1>0, <1>1, <1>5 DEF RoutesTypeOK
  <2>3. LayoutsAreFresh'
    BY <1>0, <1>1, <1>5 DEF RoutesInv, LayoutsAreFresh, moving
  <2> QED BY <2>2, <2>3, <1>1, <1>5 DEF RoutesInv, RedirectsAreFew, LinksArePermitted, ScreenIsOfSession, moving
<1> QED BY <1>3, <1>4, <1>5 DEF serverFetch

LEMMA renderKeepsRoutes ==
  ASSUME RoutesInv, render
  PROVE  RoutesInv'
<1>0. RoutesTypeOK /\ ~Web /\ moving /\ status # "loading"
      /\ UNCHANGED <<client, status, setup, user, must, admins, tree, linked>> /\ ~Web'
  BY DEF RoutesInv, render, session, Web
<1>a. Addresses' = Addresses
  BY <1>0, AddressesUnchanged
<1>1. /\ desktopTarget \in Addresses
      /\ Ordinary => /\ desktopTarget # at => desktopRank(desktopTarget) + 1 <= desktopRank(at)
                     /\ desktopRank(at) = 0 => desktopTarget = at
                     /\ desktopTarget = at => Permitted(at)
  BY <1>0, DesktopTargets
<1>2. CASE desktopTarget = at
  <2>1. screen' = "page" /\ fresh' = TRUE /\ UNCHANGED <<at, hops>>
    BY <1>2 DEF render
  <2>2. RoutesTypeOK'
    BY <2>1, <1>0, <1>a DEF RoutesTypeOK
  <2>3. desktopTarget' = desktopTarget
    BY <2>1, <1>0, GuardsUnchanged
  <2>4. ScreenIsOfSession'
    BY <2>1, <2>3, <1>0, <1>2 DEF ScreenIsOfSession
  <2> QED BY <2>1, <2>2, <2>4, <1>0 DEF RoutesInv, RedirectsAreFew, LayoutsAreFresh, LinksArePermitted, moving
<1>3. CASE desktopTarget # at
  <2>1. at' = desktopTarget /\ hops' = hops + 1 /\ UNCHANGED <<screen, fresh>>
    BY <1>3 DEF render
  <2>2. RoutesTypeOK'
    BY <2>1, <1>0, <1>1, <1>a DEF RoutesTypeOK
  <2>3. ~linked
    BY <1>0, <1>3 DEF RoutesInv, LinksArePermitted
  <2>4. RedirectsAreFew'
    <3>1. ASSUME Ordinary' PROVE hops' + desktopRank(at)' <= MaxHops
      <4>1. Ordinary /\ hops + desktopRank(at) <= MaxHops /\ hops \in Nat
        BY <3>1, <1>0 DEF RoutesInv, RoutesTypeOK, RedirectsAreFew, Ordinary, Fixed, Web
      <4>2. desktopRank(at)' = desktopRank(desktopTarget)
        BY <1>0, <2>1 DEF desktopRank, ActorPages, Web
      <4>3. desktopRank(desktopTarget) + 1 <= desktopRank(at)
            /\ desktopRank(at) \in 0..2 /\ desktopRank(desktopTarget) \in 0..2
        BY <4>1, <1>1, <1>3 DEF desktopRank
      <4> QED BY <4>1, <4>2, <4>3, <2>1, RoutesAssumption
    <3> QED BY <3>1, <1>0 DEF RedirectsAreFew
  <2> QED BY <2>1, <2>2, <2>3, <2>4, <1>0
          DEF RoutesInv, LayoutsAreFresh, LinksArePermitted, ScreenIsOfSession, moving
<1> QED BY <1>2, <1>3

-----------------------------------------------------------------------------
(* The navigations.                                                           *)
LEMMA LinkFacts ==
  ASSUME RoutesTypeOK, NEW a \in Names, NEW w \in Names \union {Unknown}, NEW isAdmin \in BOOLEAN,
         NEW p \in Links(a, w, isAdmin), p.owner # None
  PROVE  /\ p.page \in AdminPages => isAdmin
         /\ p.page \in ActorPages \union AdminPages => p.owner = a
<1> DEFINE shared == {"files", "search", "favorites", "collections", "shared", "activity", "storage", "trash"}
           own == {"uploads", "settings", "security", "downloads", "sync"}
<1>1. \/ \E q \in shared : p = workspacePath(w, q)
      \/ \E q \in own : p = workspacePath(a, q)
      \/ isAdmin /\ \E q \in AdminPages : p = workspacePath(a, q)
  <2>1. CASE p \in createAppNavigation(a, w, isAdmin)
    BY <2>1 DEF createAppNavigation
  <2>2. CASE p \in userMenu(a) \union desktopMenu(a) \union transferItems(a)
    BY <2>2 DEF userMenu, desktopMenu, transferItems
  <2>3. CASE p \in paletteLinks(a, w, isAdmin)
    <3>1. "admin" \in AdminPages
      BY DEF AdminPages
    <3> QED BY <2>3, <3>1 DEF paletteLinks
  <2> QED BY <2>1, <2>2, <2>3 DEF Links, desktopPalette
<1>2. \A n, q : workspacePath(n, q).owner # None =>
                workspacePath(n, q).page = q /\ workspacePath(n, q).owner = n
  BY DEF workspacePath, PageAt
<1>3. shared \cap (ActorPages \union AdminPages) = {} /\ own \cap AdminPages = {}
  BY DEF ActorPages, AdminPages
<1> QED BY <1>1, <1>2, <1>3

LEMMA visitKeepsRoutes ==
  ASSUME RoutesInv, NEW p \in Addresses, visit(p)
  PROVE  RoutesInv'
<1>0. RoutesTypeOK /\ UNCHANGED <<client, status, setup, user, must, admins, fresh>>
      /\ at' = p /\ screen' = "moving" /\ hops' = 0 /\ linked' = FALSE
      /\ (Web => tree' = NoTree) /\ (~Web => tree' = tree)
  BY DEF RoutesInv, visit, toward, session
<1>1. Addresses' = Addresses /\ (Web' <=> Web)
  BY <1>0, AddressesUnchanged
<1>2. NoTree \in [app : BOOLEAN, owner : Owners] /\ ~NoTree.app
  BY DEF NoTree, Owners
<1>3. tree' \in [app : BOOLEAN, owner : Owners] /\ (tree'.app => tree'.owner # None) /\ (Web => ~tree'.app)
  BY <1>0, <1>2 DEF RoutesTypeOK
<1>4. RoutesTypeOK'
  BY <1>0, <1>1, <1>3 DEF RoutesTypeOK
<1> QED BY <1>0, <1>1, <1>3, <1>4, StartKeepsRoutes DEF LinksArePermitted

LEMMA followKeepsRoutes ==
  ASSUME RoutesInv, NEW p \in Addresses, follow(p)
  PROVE  RoutesInv'
<1>0. RoutesTypeOK /\ UNCHANGED <<client, status, setup, user, must, admins, tree, fresh>>
      /\ screen = "page" /\ at.owner # None /\ user # None /\ p \in Links(user, at.owner, user \in admins)
      /\ at' = p /\ screen' = "moving" /\ hops' = 0
  BY DEF RoutesInv, follow, toward, session
<1>a. linked' = (fresh /\ p.owner # None)
  BY DEF follow
<1>1. Addresses' = Addresses /\ (Web' <=> Web) /\ ActorPages' = ActorPages
  BY <1>0, AddressesUnchanged
<1>2. RoutesTypeOK'
  <2>1. linked' \in BOOLEAN
    BY <1>a, <1>0 DEF RoutesTypeOK
  <2> QED BY <2>1, <1>0, <1>1 DEF RoutesTypeOK
<1>3. user \in Names /\ at.owner \in Names \union {Unknown} /\ at \in Addresses
      /\ at.page \notin {"/", "connect", "setup", "login", "change-password"}
  BY <1>0, AddressKinds, NamesOfPages DEF RoutesTypeOK, Pages, OpenPages, ActorPages, AdminPages
<1>4. Web => tree.app /\ tree.owner = at.owner
  BY <1>0 DEF RoutesInv, ScreenIsOfSession
<1>5. Web /\ fresh => user \notin must /\ workspaceAccess(tree.owner) = 200
  BY <1>0, <1>4 DEF RoutesInv, LayoutsAreFresh
<1>6. ~Web => status = "connected" /\ ~setup /\ user \notin must
  <2>1. ASSUME ~Web PROVE AuthenticatedRoute = at
    BY <2>1, <1>0, <1>3 DEF RoutesInv, ScreenIsOfSession, desktopTarget
  <2>2. \A f : PageAt(f).owner = None
    BY DEF PageAt
  <2>3. ~Web => status \in {"connected", "disconnected"}
    BY <1>0 DEF RoutesInv, RoutesTypeOK, ScreenIsOfSession
  <2> QED BY <2>1, <2>2, <2>3, <1>0 DEF AuthenticatedRoute
<1>7. p.owner # None => /\ p.page \in AdminPages => user \in admins
                        /\ p.page \in ActorPages \union AdminPages => p.owner = user
  <2>1. (user \in admins) \in BOOLEAN
    OBVIOUS
  <2> QED BY <2>1, <1>0, <1>3, LinkFacts
<1>8. ASSUME linked', ~Web PROVE (desktopTarget = at)'
  <2>1. p.owner # None
    BY <1>8, <1>a
  <2>2. p.page \notin {"/", "connect", "setup", "login", "change-password"}
    BY <2>1, AddressKinds, NamesOfPages DEF Pages, OpenPages, ActorPages, AdminPages
  <2>3. desktopTarget' = AuthenticatedRoute'
    BY <2>2, <1>0 DEF desktopTarget
  <2> QED BY <2>1, <2>3, <1>0, <1>1, <1>6, <1>7, <1>8 DEF AuthenticatedRoute, ActorRouteGuard, AdminRouteGuard
<1>9. LinksArePermitted'
  <2>1. linked' => fresh /\ p.owner # None
    BY <1>a
  <2> QED BY <2>1, <1>0, <1>1, <1>4, <1>5, <1>6, <1>7, <1>8 DEF LinksArePermitted
<1>10. (workspaceAccess(tree.owner))' = workspaceAccess(tree.owner)
  BY <1>0 DEF workspaceAccess
<1> QED BY <1>0, <1>1, <1>2, <1>5, <1>9, <1>10, StartKeepsRoutes

LEMMA goBackKeepsRoutes ==
  ASSUME RoutesInv, goBack
  PROVE  RoutesInv'
<1>0. RoutesTypeOK /\ UNCHANGED <<client, status, setup, user, must, admins, tree, fresh>>
      /\ at' = PageAt("/") /\ screen' = "moving" /\ hops' = 0 /\ linked' = FALSE
  BY DEF RoutesInv, goBack, toward, session
<1>1. Addresses' = Addresses /\ (Web' <=> Web) /\ PageAt("/") \in Addresses /\ PageAt("/").owner = None
  BY <1>0, AddressesUnchanged, FixedAddress
<1>2. RoutesTypeOK'
  BY <1>0, <1>1 DEF RoutesTypeOK
<1>3. Web /\ fresh /\ tree.app => user # None /\ user \notin must
  BY DEF RoutesInv, LayoutsAreFresh
<1>4. tree.app => tree.owner # None
  BY <1>0 DEF RoutesTypeOK
<1> QED BY <1>0, <1>1, <1>2, <1>3, <1>4, StartKeepsRoutes DEF LinksArePermitted

LEMMA goHomeKeepsRoutes ==
  ASSUME RoutesInv, goHome
  PROVE  RoutesInv'
<1>0. RoutesTypeOK /\ UNCHANGED <<client, status, setup, user, must, admins, tree, fresh>> /\ user # None
      /\ at' = workspacePath(user, "files") /\ screen' = "moving" /\ hops' = 0 /\ linked' = FALSE
  BY DEF RoutesInv, goHome, toward, session
<1>1. Addresses' = Addresses /\ (Web' <=> Web)
  BY <1>0, AddressesUnchanged
<1>2. at' \in Addresses /\ at'.owner \in {None, user} /\ user \in Names
  BY <1>0, WorkspaceAddress, NamesOfPages DEF RoutesTypeOK
<1>3. RoutesTypeOK'
  BY <1>0, <1>1, <1>2 DEF RoutesTypeOK
<1>4. Web /\ fresh /\ tree.app => user # None /\ user \notin must
  BY DEF RoutesInv, LayoutsAreFresh
<1>5. tree.app => tree.owner # None
  BY <1>0 DEF RoutesTypeOK
<1>6. (workspaceAccess(tree.owner) # 200)' => tree.owner # user
  BY <1>0, <1>2 DEF workspaceAccess
<1> QED BY <1>0, <1>1, <1>2, <1>3, <1>4, <1>5, <1>6, StartKeepsRoutes DEF LinksArePermitted

-----------------------------------------------------------------------------
(* The session changes: a form answers, or the desktop learns of it.           *)
\* A form goes to an address; a refresh leaves no layout mounted.
LEMMA GoingKeepsRoutes ==
  ASSUME RoutesInv, NEW p \in Addresses, going(p), UNCHANGED client,
         status' \in {"loading", "disconnected", "connected"}, setup' \in BOOLEAN,
         user' \in Names \union {None}, must' \subseteq Names, admins' \subseteq Names
  PROVE  RoutesInv'
<1>0. RoutesTypeOK /\ at' = p /\ screen' = "moving" /\ hops' = 0 /\ linked' = FALSE
  BY DEF RoutesInv, going, replaceAndRefresh, navigateTo, toward
<1>1. Addresses' = Addresses /\ (Web' <=> Web)
  BY AddressesUnchanged
<1>2. NoTree \in [app : BOOLEAN, owner : Owners] /\ ~NoTree.app
  BY DEF NoTree, Owners
<1>3. /\ Web => tree' = NoTree /\ fresh' = TRUE
      /\ ~Web => UNCHANGED <<tree, fresh>>
  BY DEF going, replaceAndRefresh, navigateTo
<1>4. tree' \in [app : BOOLEAN, owner : Owners] /\ (tree'.app => tree'.owner # None)
      /\ (Web => ~tree'.app) /\ fresh' \in BOOLEAN
  BY <1>0, <1>2, <1>3 DEF RoutesTypeOK
<1>5. RoutesTypeOK'
  BY <1>0, <1>1, <1>4 DEF RoutesTypeOK
<1> QED BY <1>0, <1>1, <1>4, <1>5, StartKeepsRoutes DEF LinksArePermitted

LEMMA FormsKeepRoutes ==
  ASSUME RoutesInv, setupCompleted \/ changed \/ logout \/ unauthorized \/ \E n \in Names : authenticated(n)
  PROVE  RoutesInv'
<1>0. RoutesTypeOK
  BY DEF RoutesInv
<1>1. PageAt("login") \in Addresses /\ PageAt("change-password") \in Addresses
  BY FixedAddress, NamesOfPages
<1>2. \A n \in Names : workspacePath(n, "files") \in Addresses
  BY WorkspaceAddress, NamesOfPages
<1>3. CASE setupCompleted
  <2>1. going(PageAt("login")) /\ setup' = FALSE /\ UNCHANGED <<client, status, user, must, admins>>
    BY <1>3 DEF setupCompleted
  <2> QED BY <2>1, <1>0, <1>1, GoingKeepsRoutes DEF RoutesTypeOK
<1>4. CASE changed
  <2>1. going(workspacePath(user, "files")) /\ must' = must \ {user} /\ user # None
        /\ UNCHANGED <<client, status, setup, user, admins>>
    BY <1>4 DEF changed
  <2>2. workspacePath(user, "files") \in Addresses /\ must' \subseteq Names
    BY <2>1, <1>0, <1>2 DEF RoutesTypeOK
  <2> QED BY <2>1, <2>2, <1>0, GoingKeepsRoutes DEF RoutesTypeOK
<1>5. CASE logout
  <2>1. going(PageAt("login")) /\ user' = None /\ UNCHANGED <<client, status, setup, must, admins>>
    BY <1>5 DEF logout
  <2> QED BY <2>1, <1>0, <1>1, GoingKeepsRoutes DEF RoutesTypeOK
<1>6. CASE unauthorized
  <2>1. going(PageAt("login")) /\ UNCHANGED <<client, status, setup, user, must, admins>>
    BY <1>6 DEF unauthorized, going, session
  <2> QED BY <2>1, <1>0, <1>1, GoingKeepsRoutes DEF RoutesTypeOK
<1>7. CASE \E n \in Names : authenticated(n)
  <2>1. PICK n \in Names : authenticated(n)
    BY <1>7
  <2> DEFINE p == IF n \in must' THEN PageAt("change-password") ELSE workspacePath(n, "files")
  <2>2. going(p) /\ user' = n /\ must' \in {must \ {n}, must \union {n}} /\ UNCHANGED <<client, status, setup, admins>>
    BY <2>1 DEF authenticated
  <2>3. p \in Addresses
    BY <1>1, <1>2
  <2>4. must' \subseteq Names
    BY <2>2, <1>0 DEF RoutesTypeOK
  <2> HIDE DEF p
  <2> QED BY <2>2, <2>3, <2>4, <1>0, GoingKeepsRoutes DEF RoutesTypeOK
<1> QED BY <1>3, <1>4, <1>5, <1>6, <1>7

LEMMA DesktopKeepsRoutes ==
  ASSUME RoutesInv, acceptConnection \/ connectionFails \/ changeServer \/ refreshUser
  PROVE  RoutesInv'
<1>0. RoutesTypeOK /\ ~Web
  BY DEF RoutesInv, acceptConnection, connectionFails, changeServer, refreshUser
<1>1. CASE changeServer
  <2>1. PageAt("connect") \in Addresses
    BY <1>0, FixedAddress, NamesOfPages
  <2>2. going(PageAt("connect")) /\ status' = "disconnected" /\ user' = None /\ UNCHANGED <<client, setup, must, admins>>
    BY <1>0, <1>1 DEF changeServer, going
  <2> QED BY <2>1, <2>2, <1>0, GoingKeepsRoutes DEF RoutesTypeOK
<1>2. CASE acceptConnection \/ connectionFails \/ refreshUser
  <2>1. screen' = "moving" /\ hops' = 0 /\ linked' = FALSE /\ UNCHANGED <<client, admins, at, tree, fresh>>
    BY <1>2 DEF acceptConnection, connectionFails, refreshUser
  <2>2. status' \in {"loading", "disconnected", "connected"} /\ setup' \in BOOLEAN
        /\ user' \in Names \union {None} /\ must' \subseteq Names
    <3>1. CASE acceptConnection
      BY <3>1 DEF acceptConnection
    <3>2. CASE connectionFails \/ refreshUser
      BY <3>2, <1>0 DEF RoutesTypeOK, connectionFails, refreshUser
    <3> QED BY <3>1, <3>2, <1>2
  <2>3. Addresses' = Addresses /\ ~Web'
    BY <2>1, <1>0, AddressesUnchanged
  <2>4. RoutesTypeOK'
    BY <2>1, <2>2, <2>3, <1>0 DEF RoutesTypeOK
  <2> QED BY <2>1, <2>3, <2>4, StartKeepsRoutes DEF LinksArePermitted
<1> QED BY <1>1, <1>2

LEMMA elsewhereKeepsRoutes ==
  ASSUME RoutesInv, elsewhere
  PROVE  RoutesInv'
<1>0. RoutesTypeOK /\ Web /\ fresh' = FALSE /\ linked' = FALSE /\ hops' = 0
      /\ UNCHANGED <<client, status, at, screen, tree>>
  BY DEF RoutesInv, elsewhere
<1>1. Addresses' = Addresses /\ Web'
  BY <1>0, AddressesUnchanged
<1>2. setup' \in BOOLEAN /\ user' \in Names \union {None} /\ must' \subseteq Names /\ admins' \subseteq Names
  <2>1. setup \in BOOLEAN /\ user \in Names \union {None} /\ must \subseteq Names /\ admins \subseteq Names
    BY <1>0 DEF RoutesTypeOK
  <2> QED BY <2>1 DEF elsewhere
<1>3. RoutesTypeOK'
  BY <1>0, <1>1, <1>2 DEF RoutesTypeOK
<1>4. RedirectsAreFew'
  <2>1. webRank(at)' \in 0..3
    BY DEF webRank
  <2> QED BY <2>1, <1>0, <1>1, RoutesAssumption DEF RedirectsAreFew
<1>5. ScreenIsOfSession'
  BY <1>0, <1>1 DEF RoutesInv, ScreenIsOfSession
<1> QED BY <1>0, <1>3, <1>4, <1>5 DEF RoutesInv, LayoutsAreFresh, LinksArePermitted

-----------------------------------------------------------------------------
LEMMA RoutesInvNext == RoutesInv /\ [RoutesNext]_routeVars => RoutesInv'
<1> SUFFICES ASSUME RoutesInv, [RoutesNext]_routeVars PROVE RoutesInv'
  OBVIOUS
<1>1. CASE RoutesNext
  BY <1>1, serverFetchKeepsRoutes, renderKeepsRoutes, visitKeepsRoutes, followKeepsRoutes, goBackKeepsRoutes,
     goHomeKeepsRoutes, FormsKeepRoutes, DesktopKeepsRoutes, elsewhereKeepsRoutes DEF RoutesNext
<1>2. CASE UNCHANGED routeVars
  <2>1. UNCHANGED <<client, status, setup, user, must, admins, at, screen, tree, fresh, hops, linked>>
    BY <1>2 DEF routeVars
  <2>2. Addresses' = Addresses /\ (Web' <=> Web) /\ desktopTarget' = desktopTarget /\ (Permitted(at)' <=> Permitted(at))
        /\ Fixed' = Fixed
    BY <2>1, AddressesUnchanged, GuardsUnchanged
  <2>3. webRank(at)' = webRank(at) /\ (ActorPages' = ActorPages)
    BY <2>1, AddressesUnchanged DEF webRank
  <2>4. desktopRank(at)' = desktopRank(at)
    BY <2>1, <2>3 DEF desktopRank
  <2>5. workspaceAccess(tree.owner)' = workspaceAccess(tree.owner)
    BY <2>1 DEF workspaceAccess
  <2>6. RoutesTypeOK'
    BY <2>1, <2>2 DEF RoutesInv, RoutesTypeOK
  <2>7. RedirectsAreFew'
    BY <2>1, <2>2, <2>3, <2>4 DEF RoutesInv, RedirectsAreFew, moving, Ordinary
  <2>8. LayoutsAreFresh'
    BY <2>1, <2>2, <2>5 DEF RoutesInv, LayoutsAreFresh, moving
  <2>9. LinksArePermitted' /\ ScreenIsOfSession'
    BY <2>1, <2>2 DEF RoutesInv, LinksArePermitted, ScreenIsOfSession, moving
  <2> QED BY <2>6, <2>7, <2>8, <2>9 DEF RoutesInv
<1> QED BY <1>1, <1>2

LEMMA RoutesInvFits == RoutesInv => RoutesFitTheSession
<1> SUFFICES ASSUME RoutesInv PROVE RoutesFitTheSession
  OBVIOUS
<1>0. RoutesTypeOK /\ hops \in Nat /\ webRank(at) \in 0..3 /\ desktopRank(at) \in 0..2
  BY RankBounds DEF RoutesInv, RoutesTypeOK
<1>1. RedirectsEnd
  <2> SUFFICES ASSUME Ordinary, moving, hops = MaxHops
               PROVE  IF Web THEN \A result \in webAnswers : result.shows # None ELSE desktopTarget = at
    BY DEF RedirectsEnd
  <2>1. CASE Web
    <3>1. webRank(at) = 0
      BY <1>0, <2>1, RoutesAssumption DEF RoutesInv, RedirectsAreFew
    <3>2. ASSUME NEW result \in webAnswers, result.shows = None PROVE FALSE
      <4>1. result.to \in Addresses /\ webRank(result.to) + 1 <= webRank(at)
        BY <1>0, <2>1, <3>2, FixedAnswers, WorkspaceAnswers
      <4>2. webRank(result.to) \in 0..3
        BY DEF webRank
      <4> QED BY <3>1, <4>1, <4>2
    <3> QED BY <2>1, <3>2
  <2>2. CASE ~Web
    <3>1. status # "loading"
      BY <1>0, <2>2, RoutesAssumption DEF RoutesInv, ScreenIsOfSession
    <3>2. desktopRank(at) = 0
      BY <1>0, <2>2, <3>1, RoutesAssumption DEF RoutesInv, RedirectsAreFew
    <3> QED BY <1>0, <2>2, <3>1, <3>2, DesktopTargets
  <2> QED BY <2>1, <2>2
<1>2. PagesArePermitted
  <2>1. CASE Web
    BY <2>1 DEF RoutesInv, ScreenIsOfSession, PagesArePermitted
  <2>2. CASE ~Web
    BY <2>2, <1>0, DesktopTargets DEF RoutesInv, ScreenIsOfSession, PagesArePermitted
  <2> QED BY <2>1, <2>2
<1>3. RefusalsAreExplained /\ LinksAreDirect
  BY DEF RoutesInv, ScreenIsOfSession, RefusalsAreExplained, LinksArePermitted, LinksAreDirect
<1> QED BY <1>1, <1>2, <1>3 DEF RoutesFitTheSession

(* Every navigation of both applications ends, shows what the session may see *)
(* and refuses nobody unexplained, whoever the users are, however the session *)
(* changes under it (router.tsx; app/(auth)/*, app/(app)/layout.tsx).          *)
THEOREM RoutesAlwaysFitTheSession == RoutesSpec => []RoutesFitTheSession
<1>1. RoutesInit => RoutesInv
  BY RoutesInvInit
<1>2. RoutesInv /\ [RoutesNext]_routeVars => RoutesInv'
  BY RoutesInvNext
<1>3. RoutesInv => RoutesFitTheSession
  BY RoutesInvFits
<1> QED BY <1>1, <1>2, <1>3, PTL DEF RoutesSpec

-------------------------------------------------------------------------------
(* WebBrowser.                                                                *)

\* The fields of a load, of a page, and what is alive.
Modes == {"none", "reload", "push", "more"}
States == {"none", "sent", "served", "failed", "aborted"}
BrowserPages == [folder : Folders, sort : Sorts, index : Nat, has : SUBSET Changes]
IsLoad(l) ==
  /\ l = [mode |-> l.mode, state |-> l.state, folder |-> l.folder, sort |-> l.sort, page |-> l.page]
  /\ l.mode \in Modes /\ l.state \in States /\ l.folder \in Folders
  /\ l.state = "none" <=> l = NoLoad
Live(l) == l.state \in {"sent", "served", "failed"}

BrowserTypeOK ==
  /\ mounted \in BOOLEAN /\ tableLoading \in BOOLEAN /\ loadingMore \in BOOLEAN /\ timer \in BOOLEAN
  /\ excused \in BOOLEAN /\ interrupted \in BOOLEAN
  /\ folder \in Folders /\ url \in Folders /\ sort \in Sorts /\ content \in [Folders -> SUBSET Changes]
  /\ main \in Loads \cup {0} /\ more \in Loads \cup {0}
  /\ loads = [n \in Loads |-> loads[n]] /\ \A n \in Loads : IsLoad(loads[n])

\* The spinners and the timer; what is alive is the main load, or the one that
\* extends the list while there is no main load.
LoadsAreHeld ==
  /\ tableLoading = (main # 0) /\ loadingMore = (more # 0) /\ (timer => mounted)
  /\ main # 0 => loads[main].state # "none" /\ loads[main].mode # "more"
                 /\ (mounted => Live(loads[main]))
  /\ more # 0 => loads[more].state # "none" /\ loads[more].mode = "more"
                 /\ (Live(loads[more]) => main = 0)
  /\ \A n \in Loads : Live(loads[n]) => n = IF loads[n].mode = "more" THEN more ELSE main

\* The list, and the answer that will replace or extend it.
NodesFit ==
  /\ nodes \in Seq(BrowserPages) /\ nodes # <<>>
  /\ \A i \in 1..Len(nodes) : nodes[i].index = i /\ nodes[i].folder = folder
                             /\ nodes[i].sort = nodes[1].sort
AnswerFits(l) ==
  Live(l) =>
    /\ l.sort \in Sorts /\ (l.mode \in {"reload", "more"} => l.folder = folder)
    /\ l.state = "served" =>
         /\ l.page = <<l.page[1]>> /\ l.page[1] \in BrowserPages /\ l.page[1].folder = l.folder
         /\ l.page[1].index = IF l.mode = "more" THEN Len(nodes) + 1 ELSE 1
         /\ l.mode = "more" => l.page[1].sort = nodes[1].sort

\* What the list will have, and where the browser will be.
RestIsKnown ==
  mounted =>
    /\ main = 0 /\ ~timer /\ ~excused => content[folder] \subseteq nodes[1].has
    /\ main # 0 /\ loads[main].state = "served" /\ ~excused
         /\ (timer => loads[main].folder # folder) =>
           content[loads[main].folder] \subseteq loads[main].page[1].has
    /\ ~interrupted =>
         url = IF main # 0 /\ loads[main].mode = "none" THEN loads[main].folder ELSE folder

BrowserInv ==
  /\ BrowserTypeOK /\ LoadsAreHeld /\ NodesFit /\ RestIsKnown
  /\ \A n \in Loads : AnswerFits(loads[n])

-----------------------------------------------------------------------------
\* A free number is taken: the naturals are well-founded.
LEMMA FreshIsFree ==
  ASSUME Free # {}
  PROVE  Fresh \in Loads /\ loads[Fresh] = NoLoad /\ Fresh # 0
<1> DEFINE R == {ss \in Nat \X Nat : ss[1] < ss[2]}
<1>1. OpToRel(<, Nat) = R
  BY DEF OpToRel
<1>2. IsWellFoundedOn(R, Nat)
  BY <1>1, NatLessThanWellFounded, Zenon
<1>3. Free \subseteq Loads /\ Loads \subseteq Nat \ {0}
  BY BrowserAssumption DEF Free
<1> HIDE DEF R
<1>4. PICK x \in Free : \A y \in Free : ~ (<<y, x>> \in R)
  BY <1>2, <1>3, WFMin
<1>5. \A y \in Free : x <= y
  <2> TAKE y \in Free
  <2>1. <<y, x>> \in Nat \X Nat /\ <<y, x>>[1] = y /\ <<y, x>>[2] = x
    BY <1>3
  <2>2. ~(y < x)
    BY <1>4, <2>1 DEF R
  <2> QED BY <2>1, <2>2, <1>3
<1>6. Fresh \in Free
  BY <1>5 DEF Fresh
<1> QED BY <1>6, <1>3 DEF Free

\* A load that was not made: no one waits for it.
LEMMA NoLoadIs == IsLoad(NoLoad) /\ ~Live(NoLoad) /\ NoLoad.state = "none"
  BY BrowserAssumption DEF IsLoad, NoLoad, Live, Modes, States
\* A load that has just been asked for.
LEMMA AskedIs ==
  ASSUME NEW mode \in Modes, NEW f \in Folders, NEW s \in Sorts, NEW x, x = Asked(mode, f, s)
  PROVE  /\ IsLoad(x) /\ Live(x) /\ x.mode = mode /\ x.state = "sent" /\ x.folder = f /\ x.sort = s
  BY DEF IsLoad, NoLoad, Live, Modes, States, Asked
\* An aborted load keeps only what kind of load it was.
LEMMA AbortIs ==
  ASSUME NEW ids, NEW n \in Loads, IsLoad(loads[n]), NEW ls, ls = abort(loads, ids)
  PROVE  /\ n \notin ids => ls[n] = loads[n]
         /\ n \in ids => IsLoad(ls[n]) /\ ls[n].state = "aborted" /\ ls[n].mode = loads[n].mode
<1>1. n \notin ids => ls[n] = loads[n]
  BY DEF abort
<1>2. ASSUME n \in ids
      PROVE  IsLoad(ls[n]) /\ ls[n].state = "aborted" /\ ls[n].mode = loads[n].mode
  <2>1. PICK m : m = loads[n].mode /\ m \in Modes
    BY DEF IsLoad
  <2>2. ls[n] = [[NoLoad EXCEPT !.mode = m] EXCEPT !.state = "aborted"]
    BY <1>2, <2>1 DEF abort
  <2>3. ls[n] = [mode |-> m, state |-> "aborted", folder |-> Root, sort |-> "none", page |-> <<>>]
    BY <2>2 DEF NoLoad
  <2> QED BY <2>1, <2>3, BrowserAssumption DEF IsLoad, NoLoad, States
<1> QED BY <1>1, <1>2
\* A load that goes on to another state keeps what it asked for.
LEMMA StateIs ==
  ASSUME NEW l, IsLoad(l), NEW st \in States \ {"none"}, NEW x, x = [l EXCEPT !.state = st], l.state # "none"
  PROVE  /\ IsLoad(x) /\ x.state = st /\ x.mode = l.mode /\ x.folder = l.folder /\ x.sort = l.sort
         /\ x.page = l.page
<1>1. PICK a, b, c, d, e : l = [mode |-> a, state |-> b, folder |-> c, sort |-> d, page |-> e]
  BY DEF IsLoad
<1>2. x = [mode |-> a, state |-> st, folder |-> c, sort |-> d, page |-> e]
  BY <1>1
<1> QED BY <1>1, <1>2 DEF IsLoad, NoLoad
\* A load that gets its page keeps what it asked for.
LEMMA PageIs ==
  ASSUME NEW l, IsLoad(l), NEW p, NEW x, x = [l EXCEPT !.page = p], l.state # "none"
  PROVE  /\ IsLoad(x) /\ x.state = l.state /\ x.mode = l.mode /\ x.folder = l.folder /\ x.sort = l.sort
         /\ x.page = p
<1>1. PICK a, b, c, d, e : l = [mode |-> a, state |-> b, folder |-> c, sort |-> d, page |-> e]
  BY DEF IsLoad
<1>2. x = [mode |-> a, state |-> b, folder |-> c, sort |-> d, page |-> p]
  BY <1>1
<1> QED BY <1>1, <1>2 DEF IsLoad, NoLoad

-----------------------------------------------------------------------------
\* A main load takes the place of the one before.
LEMMA SendsMain ==
  ASSUME BrowserInv, mounted = TRUE, NEW mode \in {"none", "reload", "push"}, NEW f \in Folders,
         NEW s \in Sorts, sendMain(mode, f, s), mode = "reload" => f = folder,
         sort' \in Sorts, timer' \in BOOLEAN, url' = IF mode = "none" THEN f ELSE url
  PROVE  BrowserInv'
<1>1. /\ Free # {}
      /\ loads' = [abort(loads, {main, more}) EXCEPT ![Fresh] = Asked(mode, f, s)]
      /\ main' = Fresh /\ tableLoading' = TRUE /\ excused' = FALSE
      /\ interrupted' = (mode # "none" /\ (interrupted \/ (main # 0 /\ loads[main].mode = "none")))
      /\ UNCHANGED <<mounted, folder, nodes, loadingMore, more, content>>
  BY Zenon DEF sendMain
<1>2. PICK x \in Loads : x = Fresh /\ x # 0 /\ loads[x] = NoLoad
  BY <1>1, FreshIsFree
<1>3. BrowserTypeOK /\ LoadsAreHeld /\ NodesFit /\ RestIsKnown
  BY DEF BrowserInv
<1>4. PICK ls : ls = abort(loads, {main, more})
  OBVIOUS
<1>5. PICK y : y = Asked(mode, f, s)
  OBVIOUS
<1>6. PICK ls2 : ls2 = [ls EXCEPT ![x] = y]
  OBVIOUS
<1>7. loads' = ls2 /\ main' = x
  BY <1>1, <1>2, <1>4, <1>5, <1>6
<1>8. /\ IsLoad(y) /\ Live(y) /\ y.mode = mode /\ y.state = "sent" /\ y.folder = f /\ y.sort = s
  BY <1>5, AskedIs DEF Modes
<1>9. ls = [n \in Loads |-> ls[n]]
  BY <1>4 DEF abort
<1>10. ls2 = [n \in Loads |-> ls2[n]] /\ ls2[x] = y /\ \A n \in Loads : n # x => ls2[n] = ls[n]
  BY <1>6, <1>9
<1>11. x # main /\ x # more
  BY <1>2, <1>3, NoLoadIs DEF LoadsAreHeld
<1>12. ASSUME NEW n \in Loads, n # x
       PROVE  IsLoad(ls2[n]) /\ ~Live(ls2[n])
              /\ (n = more => ls2[n].state = "aborted" /\ ls2[n].mode = loads[n].mode)
  <2>1. IsLoad(loads[n])
    BY <1>3 DEF BrowserTypeOK
  <2>2. CASE n \in {main, more}
    <3>1. IsLoad(ls[n]) /\ ls[n].state = "aborted" /\ ls[n].mode = loads[n].mode
      BY <2>1, <2>2, <1>4, AbortIs
    <3> QED BY <3>1, <1>10, <1>12 DEF Live
  <2>3. CASE n \notin {main, more}
    <3>1. ls[n] = loads[n]
      BY <2>1, <2>3, <1>4, AbortIs
    <3>2. ~Live(loads[n])
      BY <2>3, <1>3 DEF LoadsAreHeld
    <3> QED BY <2>1, <2>3, <3>1, <3>2, <1>10, <1>12
  <2> QED BY <2>2, <2>3
<1>13. BrowserTypeOK'
  BY <1>1, <1>3, <1>7, <1>8, <1>10, <1>12 DEF BrowserTypeOK
<1>14. LoadsAreHeld'
  <2>1. tableLoading' = (main' # 0) /\ loadingMore' = (more' # 0) /\ (timer' => mounted')
    BY <1>1, <1>2, <1>3, <1>7 DEF LoadsAreHeld
  <2>2. main' # 0 => loads'[main'].state # "none" /\ loads'[main'].mode # "more"
                      /\ (mounted' => Live(loads'[main']))
    BY <1>7, <1>8, <1>10
  <2>3. more' # 0 => loads'[more'].state # "none" /\ loads'[more'].mode = "more"
                      /\ (Live(loads'[more']) => main' = 0)
    <3>1. more # 0 => more \in Loads /\ loads[more].mode = "more"
      BY <1>3 DEF BrowserTypeOK, LoadsAreHeld
    <3>2. more # 0 => ls2[more].state = "aborted" /\ ls2[more].mode = "more" /\ ~Live(ls2[more])
      BY <3>1, <1>11, <1>12
    <3> QED BY <3>2, <1>1, <1>7
  <2>4. \A n \in Loads : Live(loads'[n]) => n = IF loads'[n].mode = "more" THEN more' ELSE main'
    BY <1>7, <1>8, <1>10, <1>12
  <2> QED BY <2>1, <2>2, <2>3, <2>4 DEF LoadsAreHeld, Live
<1>15. NodesFit'
  BY <1>1, <1>3 DEF NodesFit
<1>16. RestIsKnown'
  <2>1. main' # 0 /\ loads'[main'].state # "served" /\ loads'[main'].mode = mode /\ loads'[main'].folder = f
    BY <1>2, <1>7, <1>8, <1>10
  <2>2. ~interrupted' => url' = IF mode = "none" THEN f ELSE folder
    BY <1>1, <1>3 DEF RestIsKnown
  <2> QED BY <2>1, <2>2, <1>1 DEF RestIsKnown
<1>17. ASSUME NEW n \in Loads
       PROVE  AnswerFits(loads[n])'
  BY <1>1, <1>7, <1>8, <1>10, <1>12 DEF AnswerFits, Live
<1> QED BY <1>13, <1>14, <1>15, <1>16, <1>17 DEF BrowserInv

\* Nothing but the timer, the URL and what is excused changes.
LEMMA ListStays ==
  ASSUME BrowserInv, UNCHANGED <<mounted, folder, nodes, tableLoading, loadingMore, main, more, loads>>,
         sort' \in Sorts, timer' \in BOOLEAN, timer' => mounted, url' \in Folders,
         excused' \in BOOLEAN, interrupted' \in BOOLEAN, content' \in [Folders -> SUBSET Changes],
         RestIsKnown'
  PROVE  BrowserInv'
<1>1. BrowserTypeOK /\ LoadsAreHeld /\ NodesFit /\ \A n \in Loads : AnswerFits(loads[n])
  BY DEF BrowserInv
<1>2. BrowserTypeOK'
  BY <1>1 DEF BrowserTypeOK
<1>3. LoadsAreHeld' /\ NodesFit'
  BY <1>1 DEF LoadsAreHeld, NodesFit
<1>4. \A n \in Loads : AnswerFits(loads[n])'
  BY <1>1 DEF AnswerFits
<1> QED BY <1>2, <1>3, <1>4 DEF BrowserInv

\* The reloads and the navigations.
LEMMA MainKeepsInv ==
  ASSUME BrowserInv, \/ reloadChildren \/ refresh \/ \E f \in Folders : navigateFolder(f) \/ popstate(f)
                     \/ \E s \in Sorts : updateOptions(s)
  PROVE  BrowserInv'
<1>0. /\ BrowserTypeOK /\ LoadsAreHeld /\ RestIsKnown
      /\ folder \in Folders /\ sort \in Sorts /\ timer \in BOOLEAN /\ mounted \in BOOLEAN
      /\ url \in Folders /\ excused \in BOOLEAN /\ interrupted \in BOOLEAN
      /\ content \in [Folders -> SUBSET Changes]
  BY DEF BrowserInv, BrowserTypeOK
<1>1. CASE reloadChildren
  <2>1. mounted = TRUE /\ sendMain("reload", folder, sort) /\ UNCHANGED <<sort, timer, url>>
    BY <1>0, <1>1 DEF reloadChildren
  <2> QED BY <2>1, <1>0, SendsMain
<1>2. CASE refresh
  <2>1. timer /\ timer' = FALSE /\ sendMain("reload", folder, sort) /\ UNCHANGED <<sort, url>>
    BY <1>2 DEF refresh
  <2>2. mounted = TRUE
    BY <2>1, <1>0 DEF LoadsAreHeld
  <2> QED BY <2>1, <2>2, <1>0, SendsMain
<1>3. ASSUME NEW f \in Folders, navigateFolder(f)
      PROVE  BrowserInv'
  <2>1. mounted = TRUE /\ sendMain("push", f, sort) /\ UNCHANGED <<sort, timer, url>>
    BY <1>0, <1>3 DEF navigateFolder
  <2> QED BY <2>1, <1>0, SendsMain
<1>4. ASSUME NEW f \in Folders, popstate(f)
      PROVE  BrowserInv'
  <2>1. mounted = TRUE /\ url' = f
    BY <1>0, <1>4 DEF popstate
  <2>2. CASE f = folder /\ f # Root
    <3>1. /\ interrupted' = (main # 0 /\ loads[main].mode # "reload")
          /\ UNCHANGED <<mounted, listVars, visited, content, excused>>
      BY <1>4, <2>2 DEF popstate
    <3>2. UNCHANGED <<mounted, folder, sort, nodes, tableLoading, loadingMore, main, more, timer, loads,
                      content, excused>>
      BY <3>1 DEF listVars
    <3>3. RestIsKnown'
      <4>1. ~interrupted' => main = 0 \/ loads[main].mode = "reload"
        BY <3>1
      <4>2. ~interrupted' => url' = IF main # 0 /\ loads[main].mode = "none" THEN loads[main].folder ELSE folder
        BY <4>1, <2>1, <2>2
      <4>3. mounted = TRUE /\ mounted' = TRUE
        BY <2>1, <3>2
      <4> QED BY <4>2, <4>3, <3>2, <1>0 DEF RestIsKnown
    <3>4. interrupted' \in BOOLEAN /\ url' \in Folders
      BY <3>1, <2>1
    <3>5. sort' \in Sorts /\ timer' \in BOOLEAN /\ excused' \in BOOLEAN /\ (timer' => mounted)
      BY <3>2, <2>1, <1>0
    <3>6. content' \in [Folders -> SUBSET Changes]
      BY <3>2, <1>0
    <3> QED BY <3>2, <3>3, <3>4, <3>5, <3>6, ListStays
  <2>3. CASE ~(f = folder /\ f # Root)
    <3>1. sendMain("none", f, sort) /\ UNCHANGED <<sort, timer>>
      BY <1>4, <2>3 DEF popstate
    <3> QED BY <3>1, <2>1, <1>0, SendsMain
  <2> QED BY <2>2, <2>3
<1>5. ASSUME NEW s \in Sorts, updateOptions(s)
      PROVE  BrowserInv'
  <2>1. mounted = TRUE /\ sort' = s /\ timer' = FALSE /\ UNCHANGED url
    BY <1>0, <1>5 DEF updateOptions
  <2>2. CASE s # sort
    <3>1. sendMain("reload", folder, s)
      BY <1>5, <2>2 DEF updateOptions
    <3> QED BY <3>1, <2>1, <1>0, SendsMain
  <2>3. CASE s = sort
    <3>1. /\ excused' = (excused \/ timer)
          /\ UNCHANGED <<mounted, folder, nodes, tableLoading, loadingMore, main, more, loads,
                         visited, content, interrupted>>
      BY <1>5, <2>3 DEF updateOptions
    <3>2. RestIsKnown'
      BY <3>1, <2>1, <1>0 DEF RestIsKnown
    <3> QED BY <3>1, <3>2, <2>1, <1>0, ListStays
  <2> QED BY <2>2, <2>3
<1> QED BY <1>1, <1>2, <1>3, <1>4, <1>5

\* An upload is completed somewhere.
LEMMA CompletedKeepsInv ==
  ASSUME BrowserInv, NEW f \in Folders, completed(f)
  PROVE  BrowserInv'
<1>0. /\ BrowserTypeOK /\ LoadsAreHeld /\ RestIsKnown
      /\ folder \in Folders /\ sort \in Sorts /\ timer \in BOOLEAN /\ mounted \in BOOLEAN
      /\ url \in Folders /\ excused \in BOOLEAN /\ interrupted \in BOOLEAN
      /\ content \in [Folders -> SUBSET Changes]
  BY DEF BrowserInv, BrowserTypeOK
<1>1. /\ content' = [content EXCEPT ![f] = @ \cup {"uploaded"}]
      /\ timer' = (timer \/ (mounted /\ f = folder))
      /\ excused' = (excused \/ (f # folder /\ main # 0 /\ loads[main].folder = f))
      /\ UNCHANGED <<mounted, folder, sort, nodes, tableLoading, loadingMore, main, more, loads,
                     url, visited, interrupted>>
  BY DEF completed
<1>2. content' \in [Folders -> SUBSET Changes] /\ \A g \in Folders : g # f => content'[g] = content[g]
  BY <1>1, <1>0 DEF Changes
<1>3. RestIsKnown'
  <2>1. main # 0 => loads[main].folder \in Folders
    BY <1>0 DEF BrowserTypeOK, IsLoad
  <2>2. ASSUME mounted, main = 0, ~timer', ~excused'
        PROVE  content'[folder] \subseteq nodes[1].has
    BY <2>2, <1>0, <1>1, <1>2 DEF RestIsKnown
  <2>3. ASSUME mounted, main # 0, loads[main].state = "served", ~excused',
               timer' => loads[main].folder # folder
        PROVE  content'[loads[main].folder] \subseteq loads[main].page[1].has
    <3>1. loads[main].folder # f
      BY <2>3, <1>1
    <3>2. content[loads[main].folder] \subseteq loads[main].page[1].has
      BY <2>3, <1>0, <1>1 DEF RestIsKnown
    <3> QED BY <3>1, <3>2, <2>1, <2>3, <1>2
  <2> QED BY <2>2, <2>3, <1>1, <1>0 DEF RestIsKnown
<1>4. timer' \in BOOLEAN /\ excused' \in BOOLEAN /\ interrupted' \in BOOLEAN
  BY <1>0, <1>1
<1>5. timer' => mounted
  BY <1>0, <1>1 DEF LoadsAreHeld
<1>6. sort' \in Sorts /\ url' \in Folders
  BY <1>0, <1>1
<1> QED BY <1>1, <1>2, <1>3, <1>4, <1>5, <1>6, ListStays

\* What the invariant says of one load, and of the list.
LEMMA LoadSays ==
  ASSUME BrowserInv, NEW n \in Loads
  PROVE  /\ IsLoad(loads[n]) /\ AnswerFits(loads[n]) /\ n # 0
         /\ Live(loads[n]) => /\ loads[n].mode = "more" => n = more /\ main = 0 /\ n # main
                              /\ loads[n].mode # "more" => n = main /\ n # more
                              /\ loads[n].folder \in Folders /\ loads[n].sort \in Sorts
         /\ loads = [k \in Loads |-> loads[k]]
<1>1. IsLoad(loads[n]) /\ AnswerFits(loads[n]) /\ loads = [k \in Loads |-> loads[k]]
  BY DEF BrowserInv, BrowserTypeOK
<1>2. n # 0
  BY BrowserAssumption
<1>3. LoadsAreHeld
  BY DEF BrowserInv
<1> QED BY <1>1, <1>2, <1>3 DEF LoadsAreHeld, AnswerFits, IsLoad
\* The list: at least one page, all of one folder and one order.
LEMMA ListSays ==
  ASSUME BrowserInv
  PROVE  /\ Len(nodes) \in Nat \ {0} /\ nodes \in Seq(BrowserPages) /\ Last(nodes) = nodes[Len(nodes)]
         /\ Last(nodes).index = Len(nodes) /\ Last(nodes).sort = nodes[1].sort /\ nodes[1].sort \in Sorts
         /\ nodes[1] \in BrowserPages /\ DOMAIN nodes = 1..Len(nodes)
<1>1. nodes \in Seq(BrowserPages) /\ nodes # <<>> /\ NodesFit
  BY DEF BrowserInv, NodesFit
<1>2. Len(nodes) \in Nat \ {0} /\ Len(nodes) \in 1..Len(nodes) /\ 1 \in 1..Len(nodes)
  BY <1>1
<1>3. nodes[1] \in BrowserPages /\ DOMAIN nodes = 1..Len(nodes)
  BY <1>1, <1>2
<1> QED BY <1>1, <1>2, <1>3 DEF NodesFit, Last, BrowserPages

\* The list is to be extended.
LEMMA LoadMoreKeepsInv ==
  ASSUME BrowserInv, loadMore
  PROVE  BrowserInv'
<1>1. /\ mounted = TRUE /\ ~tableLoading /\ Free # {}
      /\ loads' = [abort(loads, {more}) EXCEPT ![Fresh] = Asked("more", folder, sort)]
      /\ more' = Fresh /\ loadingMore' = TRUE
      /\ UNCHANGED <<mounted, folder, sort, nodes, tableLoading, main, timer, excused, interrupted>>
      /\ UNCHANGED <<url, content>>
  BY Zenon DEF loadMore, outside, BrowserInv, BrowserTypeOK
<1>2. PICK x \in Loads : x = Fresh /\ x # 0 /\ loads[x] = NoLoad
  BY <1>1, FreshIsFree
<1>3. BrowserTypeOK /\ LoadsAreHeld /\ NodesFit /\ RestIsKnown /\ main = 0
  BY <1>1 DEF BrowserInv, LoadsAreHeld
<1>4. PICK ls : ls = abort(loads, {more})
  OBVIOUS
<1>5. PICK y : y = Asked("more", folder, sort)
  OBVIOUS
<1>6. PICK ls2 : ls2 = [ls EXCEPT ![x] = y]
  OBVIOUS
<1>7. loads' = ls2 /\ more' = x
  BY <1>1, <1>2, <1>4, <1>5, <1>6
<1>8. /\ IsLoad(y) /\ Live(y) /\ y.mode = "more" /\ y.state = "sent" /\ y.folder = folder /\ y.sort = sort
      /\ sort \in Sorts
  BY <1>3, <1>5, AskedIs DEF Modes, BrowserTypeOK
<1>9. ls = [n \in Loads |-> ls[n]]
  BY <1>4 DEF abort
<1>10. ls2 = [n \in Loads |-> ls2[n]] /\ ls2[x] = y /\ \A n \in Loads : n # x => ls2[n] = ls[n]
  BY <1>6, <1>9
<1>11. ASSUME NEW n \in Loads, n # x
       PROVE  IsLoad(ls2[n]) /\ ~Live(ls2[n])
  <2>1. IsLoad(loads[n])
    BY <1>3 DEF BrowserTypeOK
  <2>2. CASE n \in {more}
    <3>1. IsLoad(ls[n]) /\ ls[n].state = "aborted"
      BY <2>1, <2>2, <1>4, AbortIs
    <3> QED BY <3>1, <1>10, <1>11 DEF Live
  <2>3. CASE n \notin {more}
    <3>1. ls[n] = loads[n]
      BY <2>1, <2>3, <1>4, AbortIs
    <3>2. ~Live(loads[n])
      BY <2>3, <1>3, BrowserAssumption DEF LoadsAreHeld
    <3> QED BY <2>1, <3>1, <3>2, <1>10, <1>11
  <2> QED BY <2>2, <2>3
<1>12. BrowserTypeOK'
  BY <1>1, <1>3, <1>7, <1>8, <1>10, <1>11 DEF BrowserTypeOK
<1>13. LoadsAreHeld'
  <2>1. \A n \in Loads : Live(loads'[n]) => n = IF loads'[n].mode = "more" THEN more' ELSE main'
    BY <1>7, <1>8, <1>10, <1>11
  <2>2. more' # 0 => loads'[more'].state # "none" /\ loads'[more'].mode = "more"
                      /\ (Live(loads'[more']) => main' = 0)
    BY <1>1, <1>3, <1>7, <1>8, <1>10
  <2> QED BY <2>1, <2>2, <1>1, <1>2, <1>3, <1>7 DEF LoadsAreHeld, Live
<1>14. NodesFit'
  BY <1>1, <1>3 DEF NodesFit
<1>15. RestIsKnown'
  BY <1>1, <1>3 DEF RestIsKnown
<1>16. ASSUME NEW n \in Loads
       PROVE  AnswerFits(loads[n])'
  BY <1>1, <1>7, <1>8, <1>10, <1>11 DEF AnswerFits, Live
<1> QED BY <1>12, <1>13, <1>14, <1>15, <1>16 DEF BrowserInv

\* One load goes on: it is answered, or fails.
LEMMA AnsweredKeepsInv ==
  ASSUME BrowserInv, NEW n \in Loads, loads[n].state = "sent", NEW x, IsLoad(x),
         x.state \in {"served", "failed"}, x.mode = loads[n].mode, x.folder = loads[n].folder,
         x.sort = loads[n].sort, AnswerFits(x), loads' = [loads EXCEPT ![n] = x],
         x.state = "served" => x.page[1].has = content[x.folder],
         UNCHANGED <<mounted, folder, sort, nodes, tableLoading, loadingMore, main, more,
                     timer, url, content, excused, interrupted>>
  PROVE  BrowserInv'
<1>1. BrowserTypeOK /\ LoadsAreHeld /\ NodesFit /\ RestIsKnown /\ loads = [k \in Loads |-> loads[k]]
  BY LoadSays DEF BrowserInv
<1>2. PICK ls2 : ls2 = [loads EXCEPT ![n] = x]
  OBVIOUS
<1>3. loads' = ls2 /\ ls2 = [k \in Loads |-> ls2[k]] /\ ls2[n] = x /\ \A k \in Loads : k # n => ls2[k] = loads[k]
  BY <1>1, <1>2
<1>4. Live(x) /\ Live(loads[n])
  BY DEF Live
<1>5. BrowserTypeOK'
  BY <1>1, <1>3 DEF BrowserTypeOK
<1>6. LoadsAreHeld'
  <2>1. \A k \in Loads : /\ Live(ls2[k]) <=> Live(loads[k])
                         /\ ls2[k].mode = loads[k].mode
                         /\ ls2[k].state = "none" <=> loads[k].state = "none"
    BY <1>3, <1>4
  <2>2. main \in Loads \cup {0} /\ more \in Loads \cup {0}
    BY <1>1 DEF BrowserTypeOK
  <2> HIDE DEF Live
  <2>3. /\ main # 0 => ls2[main].state # "none" /\ ls2[main].mode # "more" /\ (mounted => Live(ls2[main]))
        /\ more # 0 => ls2[more].state # "none" /\ ls2[more].mode = "more" /\ (Live(ls2[more]) => main = 0)
        /\ \A k \in Loads : Live(ls2[k]) => k = IF ls2[k].mode = "more" THEN more ELSE main
    BY <2>1, <2>2, <1>1 DEF LoadsAreHeld
  <2> QED BY <2>3, <1>1, <1>3 DEF LoadsAreHeld, Live
<1>7. NodesFit'
  BY <1>1 DEF NodesFit
<1>8. RestIsKnown'
  <2>1. main # 0 => ls2[main].mode = loads[main].mode /\ ls2[main].folder = loads[main].folder
    BY <1>1, <1>3 DEF BrowserTypeOK
  <2>2. main # 0 => \/ ls2[main] = loads[main]
                    \/ ls2[main].state = "served" => ls2[main].page[1].has = content[ls2[main].folder]
    BY <1>1, <1>3 DEF BrowserTypeOK
  <2> QED BY <2>1, <2>2, <1>1, <1>3 DEF RestIsKnown
<1>9. ASSUME NEW k \in Loads
      PROVE  AnswerFits(loads[k])'
  <2>1. AnswerFits(ls2[k])
    BY <1>3, LoadSays
  <2> QED BY <2>1, <1>3 DEF AnswerFits
<1> QED BY <1>5, <1>6, <1>7, <1>8, <1>9 DEF BrowserInv
\* The server reads the folder for one load.
LEMMA ServeKeepsInv ==
  ASSUME BrowserInv, NEW n \in Loads, serve(n) \/ lose(n)
  PROVE  BrowserInv'
<1>0. loads[n].state = "sent"
  BY DEF serve, lose
<1>1. PICK l : l = loads[n] /\ IsLoad(l) /\ AnswerFits(l) /\ l.state = "sent" /\ Live(l)
  BY <1>0, LoadSays DEF Live
<1>2. UNCHANGED <<mounted, folder, sort, nodes, tableLoading, loadingMore, main, more,
                  timer, url, content, excused, interrupted>>
  BY DEF serve, lose, outside
<1>3. CASE loads' = [loads EXCEPT ![n] = [l EXCEPT !.state = "failed"]]
  <2>1. PICK x : x = [l EXCEPT !.state = "failed"]
    OBVIOUS
  <2>2. IsLoad(x) /\ x.state = "failed" /\ x.mode = l.mode /\ x.folder = l.folder /\ x.sort = l.sort
    BY <1>1, <2>1, StateIs DEF States
  <2>3. AnswerFits(x)
    BY <1>1, <2>2 DEF AnswerFits, Live
  <2> QED BY <1>0, <1>1, <1>2, <1>3, <2>1, <2>2, <2>3, AnsweredKeepsInv
<1>4. CASE lose(n)
  <2>1. loads' = [loads EXCEPT ![n] = [l EXCEPT !.state = "failed"]]
    BY <1>4, <1>1 DEF lose
  <2> QED BY <2>1, <1>3
<1> DEFINE k == IF l.mode = "more" THEN Last(nodes).index + 1 ELSE 1
           refused == l.mode = "more" /\ Last(nodes).sort # l.sort
<1>5. CASE serve(n) /\ refused
  <2>1. loads' = [loads EXCEPT ![n] = [l EXCEPT !.state = "failed"]]
    BY <1>5, <1>1 DEF serve
  <2> QED BY <2>1, <1>3
<1>6. CASE serve(n) /\ ~refused
  <2>1. PICK p : p = Page(l.folder, l.sort, k)
    OBVIOUS
  <2>2. PICK x1 : x1 = [l EXCEPT !.state = "served"]
    OBVIOUS
  <2>3. PICK x : x = [x1 EXCEPT !.page = <<p>>]
    OBVIOUS
  <2>4. loads' = [loads EXCEPT ![n] = x]
    <3>1. loads' = [loads EXCEPT ![n] = [l EXCEPT !.state = "served", !.page = <<p>>]]
      BY <1>6, <1>1, <2>1 DEF serve
    <3> QED BY <3>1, <2>2, <2>3
  <2>5. IsLoad(x1) /\ x1.state = "served" /\ x1.mode = l.mode /\ x1.folder = l.folder /\ x1.sort = l.sort
    BY <1>1, <2>2, StateIs DEF States
  <2>6. IsLoad(x) /\ x.state = "served" /\ x.mode = l.mode /\ x.folder = l.folder /\ x.sort = l.sort
        /\ x.page = <<p>>
    BY <2>3, <2>5, PageIs
  <2>7. l.folder \in Folders /\ l.sort \in Sorts /\ content \in [Folders -> SUBSET Changes]
    BY <1>1 DEF IsLoad, AnswerFits, BrowserInv, BrowserTypeOK
  <2>8. k \in Nat /\ k = IF l.mode = "more" THEN Len(nodes) + 1 ELSE 1
    BY ListSays
  <2>9. p \in BrowserPages /\ p.folder = l.folder /\ p.sort = l.sort /\ p.index = k /\ p.has = content[l.folder]
    BY <2>1, <2>7, <2>8 DEF Page, BrowserPages
  <2>10. AnswerFits(x)
    BY <1>1, <1>6, <2>6, <2>7, <2>8, <2>9, ListSays DEF AnswerFits, Live
  <2>11. x.page[1].has = content[x.folder]
    BY <2>6, <2>9
  <2>12. x.mode = loads[n].mode /\ x.folder = loads[n].folder /\ x.sort = loads[n].sort
    BY <1>1, <2>6
  <2>13. IsLoad(x) /\ x.state \in {"served", "failed"}
    BY <2>6
  <2> QED BY <1>0, <1>2, <2>4, <2>10, <2>11, <2>12, <2>13, AnsweredKeepsInv
<1> QED BY <1>4, <1>5, <1>6

\* A load is over.
LEMMA Settled ==
  ASSUME BrowserInv, NEW n \in Loads, loads[n].state # "none", settle(n)
  PROVE  /\ loads' = [k \in Loads |-> loads'[k]] /\ loads'[n] = NoLoad
         /\ \A k \in Loads : k # n => loads'[k] = loads[k]
         /\ main' = (IF main = n THEN 0 ELSE main) /\ more' = (IF more = n THEN 0 ELSE more)
         /\ \A k \in Loads : IsLoad(loads'[k]) /\ (Live(loads'[k]) => k # n /\ Live(loads[k]))
         /\ LoadsAreHeld /\ (mounted' = mounted /\ (timer' => timer) => LoadsAreHeld')
<1>1. BrowserTypeOK /\ LoadsAreHeld /\ loads = [k \in Loads |-> loads[k]] /\ n # 0
  BY LoadSays DEF BrowserInv
<1>2. /\ loads' = [loads EXCEPT ![n] = NoLoad]
      /\ IF main = n THEN main' = 0 /\ tableLoading' = FALSE ELSE UNCHANGED <<main, tableLoading>>
      /\ IF more = n THEN more' = 0 /\ loadingMore' = FALSE ELSE UNCHANGED <<more, loadingMore>>
  BY DEF settle
<1>3. /\ loads' = [k \in Loads |-> loads'[k]] /\ loads'[n] = NoLoad
      /\ \A k \in Loads : k # n => loads'[k] = loads[k]
  BY <1>1, <1>2
<1>4. main' = (IF main = n THEN 0 ELSE main) /\ more' = (IF more = n THEN 0 ELSE more)
  BY <1>2
<1>5. \A k \in Loads : IsLoad(loads'[k]) /\ (Live(loads'[k]) => k # n /\ Live(loads[k]))
  BY <1>1, <1>3, NoLoadIs DEF BrowserTypeOK
<1>6. ASSUME mounted' = mounted, timer' => timer
      PROVE  LoadsAreHeld'
  <2>1. tableLoading' = (main' # 0) /\ loadingMore' = (more' # 0) /\ (timer' => mounted')
    BY <1>1, <1>2, <1>6 DEF LoadsAreHeld
  <2>2. main \in Loads \cup {0} /\ more \in Loads \cup {0}
    BY <1>1 DEF BrowserTypeOK
  <2>3. main' # 0 => main' = main /\ loads'[main] = loads[main]
    BY <1>3, <1>4, <2>2
  <2>4. more' # 0 => more' = more /\ loads'[more] = loads[more]
    BY <1>3, <1>4, <2>2
  <2>5. main = 0 => main' = 0
    BY <1>4, <1>1
  <2>6. \A k \in Loads : Live(loads'[k]) => k = IF loads'[k].mode = "more" THEN more' ELSE main'
    BY <1>1, <1>3, <1>4, <1>5 DEF LoadsAreHeld
  <2> QED BY <2>1, <2>3, <2>4, <2>5, <2>6, <1>1, <1>6 DEF LoadsAreHeld, Live
<1> QED BY <1>1, <1>3, <1>4, <1>5, <1>6

\* The answer of the main load is shown.
LEMMA ShownKeepsInv ==
  ASSUME BrowserInv, NEW n \in Loads, shown(n)
  PROVE  BrowserInv'
<1>1. PICK l : l = loads[n]
  OBVIOUS
<1>2. /\ l.mode # "more" /\ l.state = "served" /\ nodes' = l.page
      /\ folder' = IF l.mode = "reload" THEN folder ELSE l.folder
      /\ timer' = (timer /\ folder' = folder)
      /\ url' = IF l.mode = "push" THEN l.folder ELSE url
      /\ interrupted' = (interrupted /\ l.mode # "push")
      /\ settle(n)
      /\ UNCHANGED <<mounted, sort, content, excused>>
  BY <1>1 DEF shown
<1>3. /\ IsLoad(l) /\ AnswerFits(l) /\ Live(l) /\ n = main /\ n # more /\ n # 0
      /\ l.folder \in Folders /\ l.sort \in Sorts
  BY <1>1, <1>2, LoadSays DEF Live
<1>4. /\ loads' = [k \in Loads |-> loads'[k]] /\ loads'[n] = NoLoad
      /\ main' = 0 /\ more' = more
      /\ \A k \in Loads : IsLoad(loads'[k]) /\ ~Live(loads'[k])
      /\ LoadsAreHeld'
  <2>1. \A k \in Loads : Live(loads[k]) => k = n
    BY <1>3, LoadSays
  <2>2. timer' => timer
    BY <1>2
  <2>3. loads[n].state # "none"
    BY <1>1, <1>2
  <2> QED BY <1>2, <1>3, <2>1, <2>2, <2>3, Settled
<1>5. PICK p \in BrowserPages : l.page = <<p>> /\ p = l.page[1] /\ p.folder = l.folder /\ p.index = 1
  BY <1>2, <1>3 DEF AnswerFits
<1>6. folder' = l.folder
  BY <1>2, <1>3 DEF AnswerFits
<1>7. NodesFit'
  <2>1. nodes' = <<p>> /\ Len(nodes') = 1 /\ nodes' \in Seq(BrowserPages) /\ nodes'[1] = p
    BY <1>2, <1>5
  <2> QED BY <2>1, <1>5, <1>6 DEF NodesFit
<1>8. BrowserTypeOK /\ RestIsKnown
  BY DEF BrowserInv
<1>9. BrowserTypeOK'
  <2>1. timer' \in BOOLEAN /\ interrupted' \in BOOLEAN /\ excused' \in BOOLEAN /\ mounted' \in BOOLEAN
    BY <1>2, <1>8 DEF BrowserTypeOK
  <2>2. url' \in Folders /\ folder' \in Folders /\ sort' \in Sorts /\ content' \in [Folders -> SUBSET Changes]
    BY <1>2, <1>3, <1>6, <1>8 DEF BrowserTypeOK
  <2>3. tableLoading' \in BOOLEAN /\ loadingMore' \in BOOLEAN
    BY <1>4 DEF LoadsAreHeld
  <2>4. main' \in Loads \cup {0} /\ more' \in Loads \cup {0}
    BY <1>4, <1>8 DEF BrowserTypeOK
  <2> QED BY <2>1, <2>2, <2>3, <2>4, <1>4 DEF BrowserTypeOK
<1>10. RestIsKnown'
  <2>1. ASSUME mounted, ~timer', ~excused
        PROVE  content[l.folder] \subseteq p.has
    <3>1. timer => l.folder # folder
      BY <2>1, <1>2, <1>6
    <3>2. main # 0 /\ loads[main].state = "served" /\ loads[main].folder = l.folder /\ loads[main].page[1] = p
      BY <1>1, <1>2, <1>3, <1>5
    <3> QED BY <3>1, <3>2, <2>1, <1>8 DEF RestIsKnown
  <2>2. ASSUME mounted, ~interrupted'
        PROVE  url' = l.folder
    <3>1. CASE l.mode = "push"
      BY <3>1, <1>2
    <3>2. CASE l.mode # "push"
      <4>1. ~interrupted /\ url' = url
        BY <3>2, <2>2, <1>2
      <4>2. url = IF l.mode = "none" THEN l.folder ELSE folder
        BY <4>1, <2>2, <1>1, <1>3, <1>8 DEF RestIsKnown
      <4>3. l.mode \in {"none", "reload"}
        BY <3>2, <1>2, <1>3 DEF IsLoad, Modes
      <4> QED BY <4>1, <4>2, <4>3, <1>2, <1>6
    <3> QED BY <3>1, <3>2
  <2>3. nodes'[1] = p
    BY <1>2, <1>5
  <2> QED BY <2>1, <2>2, <2>3, <1>2, <1>4, <1>6 DEF RestIsKnown
<1>11. ASSUME NEW k \in Loads
       PROVE  AnswerFits(loads[k])'
  BY <1>4 DEF AnswerFits, Live
<1> QED BY <1>4, <1>7, <1>9, <1>10, <1>11 DEF BrowserInv

\* The list is extended.
LEMMA ExtendedKeepsInv ==
  ASSUME BrowserInv, NEW n \in Loads, extended(n)
  PROVE  BrowserInv'
<1>1. PICK l : l = loads[n]
  OBVIOUS
<1>2. /\ l.mode = "more" /\ l.state = "served" /\ nodes' = nodes \o l.page /\ settle(n)
      /\ UNCHANGED <<mounted, folder, sort, timer, url, content, excused, interrupted>>
  BY <1>1 DEF extended, outside
<1>3. /\ IsLoad(l) /\ AnswerFits(l) /\ Live(l) /\ n = more /\ main = 0 /\ n # 0
  BY <1>1, <1>2, LoadSays DEF Live
<1>4. /\ loads' = [k \in Loads |-> loads'[k]] /\ loads'[n] = NoLoad
      /\ main' = 0 /\ more' = 0
      /\ \A k \in Loads : IsLoad(loads'[k]) /\ ~Live(loads'[k])
      /\ LoadsAreHeld'
  <2>1. \A k \in Loads : Live(loads[k]) => k = n
    BY <1>3, LoadSays
  <2>2. loads[n].state # "none"
    BY <1>1, <1>2
  <2> QED BY <1>2, <1>3, <2>1, <2>2, Settled
<1>5. PICK p \in BrowserPages : l.page = <<p>> /\ p.folder = folder /\ p.index = Len(nodes) + 1 /\ p.sort = nodes[1].sort
  BY <1>2, <1>3 DEF AnswerFits
<1>6. BrowserTypeOK /\ RestIsKnown /\ NodesFit
  BY DEF BrowserInv
<1>7. /\ nodes' = Append(nodes, p) /\ Len(nodes') = Len(nodes) + 1 /\ nodes' \in Seq(BrowserPages)
      /\ nodes'[Len(nodes) + 1] = p /\ \A i \in 1..Len(nodes) : nodes'[i] = nodes[i]
      /\ nodes'[1] = nodes[1]
  <2>1. nodes' = Append(nodes, p)
    BY <1>2, <1>5, ListSays
  <2> QED BY <2>1, ListSays
<1>8. NodesFit'
  <2>1. \A i \in 1..Len(nodes') : i \in 1..Len(nodes) \/ i = Len(nodes) + 1
    BY <1>7, ListSays
  <2> QED BY <2>1, <1>2, <1>5, <1>6, <1>7, ListSays DEF NodesFit
<1>9. BrowserTypeOK'
  <2>1. tableLoading' \in BOOLEAN /\ loadingMore' \in BOOLEAN
    BY <1>4 DEF LoadsAreHeld
  <2> QED BY <2>1, <1>2, <1>4, <1>6 DEF BrowserTypeOK
<1>10. RestIsKnown'
  BY <1>2, <1>3, <1>4, <1>6, <1>7 DEF RestIsKnown
<1>11. ASSUME NEW k \in Loads
       PROVE  AnswerFits(loads[k])'
  BY <1>4 DEF AnswerFits, Live
<1> QED BY <1>4, <1>8, <1>9, <1>10, <1>11 DEF BrowserInv

\* A load failed or was aborted.
LEMMA RejectedKeepsInv ==
  ASSUME BrowserInv, NEW n \in Loads, rejected(n)
  PROVE  BrowserInv'
<1>1. /\ loads[n].state \in {"failed", "aborted"} /\ settle(n)
      /\ excused' = (excused \/ main = n)
      /\ interrupted' = (interrupted \/ (main = n /\ loads[n].mode = "none"))
      /\ UNCHANGED <<mounted, folder, sort, nodes, timer, url, content>>
  BY DEF rejected, outside
<1>2. BrowserTypeOK /\ RestIsKnown /\ NodesFit /\ n # 0
  BY LoadSays DEF BrowserInv
<1>3. /\ loads' = [k \in Loads |-> loads'[k]] /\ loads'[n] = NoLoad
      /\ \A k \in Loads : k # n => loads'[k] = loads[k]
      /\ main' = (IF main = n THEN 0 ELSE main) /\ more' = (IF more = n THEN 0 ELSE more)
      /\ \A k \in Loads : IsLoad(loads'[k]) /\ (Live(loads'[k]) => k # n)
      /\ LoadsAreHeld'
  BY <1>1, Settled
<1>4. BrowserTypeOK'
  <2>1. tableLoading' \in BOOLEAN /\ loadingMore' \in BOOLEAN
    BY <1>3 DEF LoadsAreHeld
  <2>2. main' \in Loads \cup {0} /\ more' \in Loads \cup {0}
    BY <1>2, <1>3 DEF BrowserTypeOK
  <2>3. excused' \in BOOLEAN /\ interrupted' \in BOOLEAN
    BY <1>1
  <2> QED BY <2>1, <2>2, <2>3, <1>1, <1>2, <1>3 DEF BrowserTypeOK
<1>5. NodesFit'
  BY <1>1, <1>2 DEF NodesFit
<1>6. RestIsKnown'
  <2>1. CASE main = n
    <3>1. main' = 0 /\ excused'
      BY <2>1, <1>1, <1>3
    <3>2. mounted /\ ~interrupted' => url = folder
      BY <2>1, <1>1, <1>2 DEF RestIsKnown
    <3> QED BY <3>1, <3>2, <1>1 DEF RestIsKnown
  <2>2. CASE main # n
    <3>1. main' = main /\ (excused' <=> excused) /\ (interrupted' <=> interrupted)
      BY <2>2, <1>1, <1>3
    <3>2. main # 0 => loads'[main] = loads[main]
      BY <2>2, <1>2, <1>3 DEF BrowserTypeOK
    <3> QED BY <3>1, <3>2, <1>1, <1>2 DEF RestIsKnown
  <2> QED BY <2>1, <2>2
<1>7. ASSUME NEW k \in Loads
      PROVE  AnswerFits(loads[k])'
  <2>1. k = n => ~Live(loads'[k])
    BY <1>3
  <2>2. k # n => loads'[k] = loads[k] /\ AnswerFits(loads[k])
    BY <1>3, LoadSays
  <2> QED BY <2>1, <2>2, <1>1 DEF AnswerFits, Live
<1> QED BY <1>3, <1>4, <1>5, <1>6, <1>7 DEF BrowserInv

\* A dialog has taken nodes from the folder.
LEMMA RemoveNodesKeepsInv ==
  ASSUME BrowserInv, removeNodes
  PROVE  BrowserInv'
<1>1. /\ content' = [content EXCEPT ![folder] = @ \cup {"trashed"}]
      /\ nodes' = [i \in DOMAIN nodes |-> [nodes[i] EXCEPT !.has = @ \cup {"trashed"}]]
      /\ excused' = (excused \/ \E n \in Loads : loads[n].state = "served")
      /\ UNCHANGED <<mounted, folder, sort, tableLoading, loadingMore, main, more, timer, loads,
                     url, visited, interrupted>>
  BY DEF removeNodes
<1>2. BrowserTypeOK /\ RestIsKnown /\ NodesFit /\ LoadsAreHeld
  BY DEF BrowserInv
<1>3. /\ DOMAIN nodes = 1..Len(nodes) /\ Len(nodes) \in Nat \ {0} /\ nodes \in Seq(BrowserPages)
      /\ 1 \in 1..Len(nodes)
  BY ListSays
<1>4. \A i \in 1..Len(nodes) : /\ nodes'[i] \in BrowserPages /\ nodes'[i].folder = nodes[i].folder
                               /\ nodes'[i].sort = nodes[i].sort /\ nodes'[i].index = nodes[i].index
                               /\ nodes'[i].has = nodes[i].has \cup {"trashed"}
  <2> TAKE i \in 1..Len(nodes)
  <2>1. nodes[i] \in BrowserPages /\ nodes'[i] = [nodes[i] EXCEPT !.has = @ \cup {"trashed"}]
    BY <1>1, <1>3
  <2> QED BY <2>1 DEF BrowserPages, Changes
<1>5. nodes' \in Seq(BrowserPages) /\ Len(nodes') = Len(nodes) /\ nodes' # <<>>
  <2>1. nodes' \in [1..Len(nodes) -> BrowserPages]
    BY <1>1, <1>3, <1>4
  <2> QED BY <2>1, <1>3
<1>6. NodesFit'
  <2>1. folder' = folder /\ 1..Len(nodes') = 1..Len(nodes) /\ nodes'[1].sort = nodes[1].sort
    BY <1>1, <1>3, <1>4, <1>5
  <2>2. \A i \in 1..Len(nodes) : nodes[i].index = i /\ nodes[i].folder = folder
                                 /\ nodes[i].sort = nodes[1].sort
    BY <1>2 DEF NodesFit
  <2>3. ASSUME NEW i \in 1..Len(nodes')
        PROVE  nodes'[i].index = i /\ nodes'[i].folder = folder' /\ nodes'[i].sort = nodes'[1].sort
    <3>1. i \in 1..Len(nodes)
      BY <2>1
    <3> QED BY <3>1, <2>1, <2>2, <1>4
  <2> QED BY <2>3, <1>5 DEF NodesFit
<1>7. content' \in [Folders -> SUBSET Changes] /\ content'[folder] = content[folder] \cup {"trashed"}
  BY <1>1, <1>2 DEF BrowserTypeOK, Changes
<1>8. excused' \in BOOLEAN
  BY <1>1
<1>9. BrowserTypeOK'
  BY <1>1, <1>2, <1>7, <1>8 DEF BrowserTypeOK
<1>10. LoadsAreHeld'
  BY <1>1, <1>2 DEF LoadsAreHeld
<1>11. RestIsKnown'
  <2>1. main # 0 /\ loads[main].state = "served" => excused'
    BY <1>1, <1>2 DEF BrowserTypeOK
  <2>2. ~excused' => ~excused
    BY <1>1
  <2>3. nodes'[1].has = nodes[1].has \cup {"trashed"}
    BY <1>3, <1>4
  <2>4. mounted /\ main = 0 /\ ~timer /\ ~excused => content[folder] \subseteq nodes[1].has
    BY <1>2 DEF RestIsKnown
  <2>5. mounted /\ main = 0 /\ ~timer /\ ~excused' => content'[folder] \subseteq nodes'[1].has
    BY <2>2, <2>3, <2>4, <1>7
  <2> QED BY <2>1, <2>5, <1>1, <1>2 DEF RestIsKnown
<1>12. \A n \in Loads : AnswerFits(loads[n])'
  <2> TAKE n \in Loads
  <2>1. AnswerFits(loads[n]) /\ nodes'[1].sort = nodes[1].sort
    BY <1>3, <1>4, LoadSays
  <2> QED BY <2>1, <1>1, <1>5 DEF AnswerFits
<1> QED BY <1>6, <1>9, <1>10, <1>11, <1>12 DEF BrowserInv

\* The browser is left: what is under way is aborted.
LEMMA UnmountKeepsInv ==
  ASSUME BrowserInv, unmount
  PROVE  BrowserInv'
<1>1. /\ mounted' = FALSE /\ timer' = FALSE /\ loads' = abort(loads, {main, more})
      /\ UNCHANGED <<folder, sort, nodes, tableLoading, loadingMore, main, more, url, content, excused,
                     interrupted>>
  BY DEF unmount, outside
<1>2. BrowserTypeOK /\ NodesFit /\ LoadsAreHeld
  BY DEF BrowserInv
<1>3. PICK ls : ls = abort(loads, {main, more})
  OBVIOUS
<1>4. loads' = ls /\ ls = [n \in Loads |-> ls[n]]
  BY <1>1, <1>3 DEF abort
<1>5. ASSUME NEW n \in Loads
      PROVE  /\ IsLoad(ls[n]) /\ ~Live(ls[n])
             /\ n \in {main, more} => ls[n].state = "aborted" /\ ls[n].mode = loads[n].mode
  <2>1. IsLoad(loads[n])
    BY LoadSays
  <2>2. CASE n \in {main, more}
    <3>1. IsLoad(ls[n]) /\ ls[n].state = "aborted" /\ ls[n].mode = loads[n].mode
      BY <2>1, <2>2, <1>3, AbortIs
    <3> QED BY <3>1 DEF Live
  <2>3. CASE n \notin {main, more}
    <3>1. ls[n] = loads[n]
      BY <2>1, <2>3, <1>3, AbortIs
    <3>2. ~Live(loads[n])
      BY <2>3, <1>2 DEF LoadsAreHeld
    <3> QED BY <2>1, <2>3, <3>1, <3>2
  <2> QED BY <2>2, <2>3
<1>6. BrowserTypeOK'
  BY <1>1, <1>2, <1>4, <1>5 DEF BrowserTypeOK
<1>7. LoadsAreHeld'
  <2>1. main # 0 => ls[main].state = "aborted" /\ ls[main].mode = loads[main].mode
    BY <1>2, <1>5 DEF BrowserTypeOK
  <2>2. more # 0 => ls[more].state = "aborted" /\ ls[more].mode = loads[more].mode /\ ~Live(ls[more])
    BY <1>2, <1>5 DEF BrowserTypeOK
  <2> QED BY <2>1, <2>2, <1>1, <1>2, <1>4, <1>5 DEF LoadsAreHeld, Live
<1>8. NodesFit' /\ RestIsKnown'
  BY <1>1, <1>2 DEF NodesFit, RestIsKnown
<1>9. \A n \in Loads : AnswerFits(loads[n])'
  BY <1>4, <1>5 DEF AnswerFits, Live
<1> QED BY <1>6, <1>7, <1>8, <1>9 DEF BrowserInv

\* At first nothing is shown and nothing asked.
LEMMA BrowserInitInv ==
  ASSUME BrowserInit
  PROVE  BrowserInv
<1>1. /\ mounted = TRUE /\ folder = Root /\ sort \in Sorts
      /\ nodes = <<[folder |-> Root, sort |-> sort, index |-> 1, has |-> {}]>>
      /\ tableLoading = FALSE /\ loadingMore = FALSE /\ main = 0 /\ more = 0 /\ timer = FALSE
      /\ loads = [n \in Loads |-> NoLoad] /\ url = Root
      /\ content = [f \in Folders |-> {}] /\ excused = FALSE /\ interrupted = FALSE
  BY DEF BrowserInit
<1>2. \A n \in Loads : IsLoad(loads[n]) /\ ~Live(loads[n])
  BY <1>1, NoLoadIs
<1>3. BrowserTypeOK
  BY <1>1, <1>2, BrowserAssumption DEF BrowserTypeOK
<1>4. LoadsAreHeld /\ \A n \in Loads : AnswerFits(loads[n])
  BY <1>1, <1>2 DEF LoadsAreHeld, AnswerFits, Live
<1>5. PICK p : p = [folder |-> Root, sort |-> sort, index |-> 1, has |-> {}]
  OBVIOUS
<1>6. p \in BrowserPages /\ p.folder = Root /\ p.index = 1 /\ p.sort = sort /\ p.has = {}
  BY <1>1, <1>5, BrowserAssumption DEF BrowserPages
<1>7. nodes = <<p>> /\ nodes[1] = p /\ Len(nodes) = 1 /\ nodes \in Seq(BrowserPages)
  BY <1>1, <1>5, <1>6
<1>8. NodesFit
  BY <1>1, <1>6, <1>7 DEF NodesFit
<1>9. RestIsKnown
  BY <1>1, BrowserAssumption DEF RestIsKnown
<1> QED BY <1>3, <1>4, <1>8, <1>9 DEF BrowserInv
\* Every step of the browser, the server and the others keeps the invariant.
LEMMA BrowserNextKeepsInv ==
  ASSUME BrowserInv, [BrowserNext]_browserVars
  PROVE  BrowserInv'
<1>1. CASE reloadChildren \/ refresh
  BY <1>1, MainKeepsInv
<1>2. ASSUME NEW f \in Folders, navigateFolder(f) \/ popstate(f)
      PROVE  BrowserInv'
  BY <1>2, MainKeepsInv
<1>3. ASSUME NEW s \in Sorts, updateOptions(s)
      PROVE  BrowserInv'
  BY <1>3, MainKeepsInv
<1>4. ASSUME NEW f \in Folders, completed(f)
      PROVE  BrowserInv'
  BY <1>4, CompletedKeepsInv
<1>5. CASE loadMore
  BY <1>5, LoadMoreKeepsInv
<1>6. CASE removeNodes
  BY <1>6, RemoveNodesKeepsInv
<1>7. CASE unmount
  BY <1>7, UnmountKeepsInv
<1>8. ASSUME NEW n \in Loads, answer(n) \/ lose(n)
      PROVE  BrowserInv'
  BY <1>8, ServeKeepsInv, ShownKeepsInv, ExtendedKeepsInv, RejectedKeepsInv DEF answer
<1>9. CASE UNCHANGED browserVars
  <2>1. UNCHANGED <<mounted, folder, sort, nodes, tableLoading, loadingMore, main, more, timer, loads,
                    url, content, excused, interrupted>>
    BY <1>9 DEF browserVars, listVars, outside
  <2>2. BrowserTypeOK /\ RestIsKnown /\ NodesFit /\ LoadsAreHeld /\ \A n \in Loads : AnswerFits(loads[n])
    BY DEF BrowserInv
  <2> QED BY <2>1, <2>2 DEF BrowserInv, BrowserTypeOK, RestIsKnown, NodesFit, LoadsAreHeld, AnswerFits
<1> QED BY <1>1, <1>2, <1>3, <1>4, <1>5, <1>6, <1>7, <1>8, <1>9 DEF BrowserNext

\* However navigations, reloads, pages, aborts, removals and finished uploads
\* interleave, for any folders, orders and number of requests: the list is the
\* first pages of one folder in one order, the spinners tell what is under way,
\* and at rest the list is current and the URL names it, the named events
\* excused (use-file-browser-controller.ts).
THEOREM BrowserIsAlwaysTrue == BrowserSpec => []BrowserIsTrue
<1>1. BrowserInit => BrowserInv
  BY BrowserInitInv
<1>2. BrowserInv /\ [BrowserNext]_browserVars => BrowserInv'
  BY BrowserNextKeepsInv
<1>3. BrowserInv => BrowserIsTrue
  <2> SUFFICES ASSUME BrowserInv
               PROVE  BrowserIsTrue
    OBVIOUS
  <2>1. BrowserTypeOK /\ RestIsKnown /\ NodesFit /\ LoadsAreHeld
    BY DEF BrowserInv
  <2>2. main # 0 => main \in Loads /\ loads[main] # NoLoad
    BY <2>1, NoLoadIs DEF BrowserTypeOK, LoadsAreHeld
  <2>3. more # 0 => more \in Loads /\ loads[more] # NoLoad
    BY <2>1, NoLoadIs DEF BrowserTypeOK, LoadsAreHeld
  <2>4. SpinnersAreTrue
    BY <2>1, <2>2, <2>3 DEF SpinnersAreTrue, LoadsAreHeld, Pending, Live
  <2>5. PagesFitTogether
    BY <2>1, <2>4, ListSays DEF PagesFitTogether, NodesFit
  <2>6. Pending = {} => main = 0
    BY <2>2 DEF Pending
  <2>7. RestIsCurrent
    BY <2>1, <2>6 DEF RestIsCurrent, RestIsKnown
  <2> QED BY <2>5, <2>7 DEF BrowserIsTrue
<1> QED BY <1>1, <1>2, <1>3, PTL DEF BrowserSpec

-------------------------------------------------------------------------------
(* UploadPages.                                                               *)

Statuses == {"none", "queued", "preparing", "uploading", "finalizing", "cancelling",
             "cancelled", "completed", "skipped", "error"}
IsTask(t) == t = [status |-> t.status, session |-> t.session, bytes |-> t.bytes] /\ t.status \in Statuses

\* The sequence s lists the members of S, each once.
Lists(s, S) ==
  /\ s \in Seq(S)
  /\ \A i, j \in 1..Len(s) : s[i] = s[j] => i = j
  /\ \A u \in S : \E i \in 1..Len(s) : s[i] = u

Active == {u \in Uploads : IsActive(tasks[u].status)}

\* The indexes list the tasks of their statuses, and the summary is made of them.
IndexIs ==
  /\ index = [active |-> index.active, uploading |-> index.uploading,
              finalizing |-> index.finalizing, failed |-> index.failed]
  /\ Lists(index.active, Active)
  /\ Lists(index.uploading, WithStatus({"uploading"}))
  /\ Lists(index.finalizing, WithStatus({"finalizing"}))
  /\ Lists(index.failed, WithStatus({"error"}))

StoreInv ==
  /\ DOMAIN tasks = Uploads /\ \A u \in Uploads : IsTask(tasks[u])
  /\ IndexIs
  /\ IF index.failed = <<>> THEN lastFailedId = NoTask ELSE lastFailedId \in WithStatus({"error"})
  /\ summary = Summary(index, lastFailedId, tasks)

\* A completion the dock has not seen was earned, and so is one it shows; its
\* timer runs unless it believes that the pointer is over it.
DockInv ==
  /\ completionVersion \in Nat /\ earned \in BOOLEAN /\ pointer \in BOOLEAN /\ vanished \in BOOLEAN
  /\ dock \in [seen : Nat, visible : BOOLEAN, hovered : BOOLEAN, timer : BOOLEAN]
  /\ completionVersion # dock.seen => earned
  /\ dock.visible => earned \/ NeedsAttention
  /\ dock.visible => (dock.timer <=> ~dock.hovered)
  /\ ~vanished => (dock.hovered <=> pointer)

UploadPagesInv ==
  /\ StoreInv /\ DockInv /\ Lists(order, Listed) /\ chosen \subseteq Listed
-----------------------------------------------------------------------------
(* Lists without repetitions.                                                  *)

\* A member that is new goes to the end.
LEMMA AppendLists ==
  ASSUME NEW S, NEW s, Lists(s, S), NEW u, u \notin S
  PROVE  /\ Lists(Append(s, u), S \cup {u})
         /\ Append(s, u) # <<>>
<1>1. s \in Seq(S) /\ Len(s) \in Nat /\ \A i \in 1..Len(s) : s[i] \in S
  BY DEF Lists
<1>2. s \in Seq(S \cup {u})
  BY <1>1, SeqMonotonic
<1>3. PICK t : t = Append(s, u)
  OBVIOUS
<1>4. /\ t \in Seq(S \cup {u}) /\ Len(t) = Len(s) + 1 /\ t[Len(s) + 1] = u
      /\ \A i \in 1..Len(s) : t[i] = s[i]
  BY <1>2, <1>3, AppendProperties
<1>5. ASSUME NEW i \in 1..Len(t), NEW j \in 1..Len(t), t[i] = t[j] PROVE i = j
  <2>1. CASE i \in 1..Len(s) /\ j \in 1..Len(s)
    BY <2>1, <1>4, <1>5 DEF Lists
  <2>2. CASE i \in 1..Len(s) /\ j = Len(s) + 1
    BY <2>2, <1>1, <1>4, <1>5
  <2>3. CASE i = Len(s) + 1 /\ j \in 1..Len(s)
    BY <2>3, <1>1, <1>4, <1>5
  <2> QED BY <2>1, <2>2, <2>3, <1>1, <1>4
<1>6. ASSUME NEW v \in S \cup {u} PROVE \E i \in 1..Len(t) : t[i] = v
  <2>1. CASE v = u
    BY <2>1, <1>1, <1>4
  <2>2. CASE v \in S
    <3>1. PICK i \in 1..Len(s) : s[i] = v
      BY <2>2 DEF Lists
    <3> QED BY <3>1, <1>1, <1>4
  <2> QED BY <2>1, <2>2
<1>7. t # <<>>
  BY <1>4, <1>1
<1> QED BY <1>3, <1>4, <1>5, <1>6, <1>7 DEF Lists

\* A member that leaves is found at its place.
LEMMA RemoveLists ==
  ASSUME NEW S, NEW s, Lists(s, S), NEW u \in S
  PROVE  Lists(RemoveFirst(s, u), S \ {u}) /\ Len(s) = Len(RemoveFirst(s, u)) + 1
<1>1. s \in Seq(S) /\ Len(s) \in Nat /\ \A i \in 1..Len(s) : s[i] \in S
  BY DEF Lists
<1>2. PICK k \in 1..Len(s) : s[k] = u
  BY DEF Lists
<1>3. \A i \in 1..Len(s) : s[i] = u <=> i = k
  BY <1>2 DEF Lists
<1>4. {i \in 1..Len(s) : s[i] = u} = {k}
  BY <1>2, <1>3
<1>5. Min({k}) = k
  BY <1>2 DEF Min
<1>6. SelectInSeq(s, LAMBDA v : v = u) = k
  BY <1>4, <1>5 DEF SelectInSeq
<1>7. PICK t : t = RemoveFirst(s, u)
  OBVIOUS
<1>8. t = RemoveAt(s, k)
  BY <1>2, <1>6, <1>7 DEF RemoveFirst
<1>9. /\ t \in Seq(S) /\ Len(t) = Len(s) - 1
      /\ \A i \in 1..(Len(s) - 1) : t[i] = IF i < k THEN s[i] ELSE s[i + 1]
  <2>1. PICK a : a = SubSeq(s, 1, k - 1)
    OBVIOUS
  <2>2. PICK b : b = SubSeq(s, k + 1, Len(s))
    OBVIOUS
  <2>3. a \in Seq(S) /\ Len(a) = k - 1 /\ \A i \in 1..(k - 1) : a[i] = s[i]
    BY <1>1, <1>2, <2>1
  <2>4. b \in Seq(S) /\ Len(b) = Len(s) - k /\ \A i \in 1..(Len(s) - k) : b[i] = s[k + i]
    BY <1>1, <1>2, <2>2
  <2>5. t = a \o b
    BY <1>8, <2>1, <2>2 DEF RemoveAt
  <2>6. t \in Seq(S) /\ Len(t) = Len(s) - 1
    <3>1. t \in Seq(S) /\ Len(t) = Len(a) + Len(b)
      BY <2>3, <2>4, <2>5, ConcatProperties
    <3> QED BY <3>1, <2>3, <2>4, <1>1, <1>2
  <2>7. ASSUME NEW i \in 1..(Len(s) - 1) PROVE t[i] = IF i < k THEN s[i] ELSE s[i + 1]
    <3>1. CASE i < k
      <4>1. t[i] = a[i]
        BY <3>1, <2>3, <2>4, <2>5, <1>1, <1>2
      <4> QED BY <4>1, <3>1, <2>3, <1>2
    <3>2. CASE ~(i < k)
      <4>0. i \in 1..(Len(a) + Len(b)) /\ ~(i <= Len(a)) /\ Len(a) = k - 1
        BY <3>2, <2>3, <2>4, <1>1, <1>2
      <4>1. t[i] = b[i - (k - 1)]
        BY <4>0, <2>3, <2>4, <2>5, ConcatProperties
      <4>2. i - (k - 1) \in 1..(Len(s) - k) /\ k + (i - (k - 1)) = i + 1
        BY <3>2, <1>1, <1>2
      <4> QED BY <4>1, <4>2, <3>2, <2>4
    <3> QED BY <3>1, <3>2
  <2> QED BY <2>6, <2>7
<1>10. \A i \in 1..Len(t) : t[i] \in S \ {u}
  BY <1>1, <1>2, <1>3, <1>9
<1>11. t \in Seq(S \ {u})
  BY <1>9, <1>10
<1>12. \A i, j \in 1..Len(t) : t[i] = t[j] => i = j
  <2> SUFFICES ASSUME NEW i \in 1..Len(t), NEW j \in 1..Len(t), t[i] = t[j] PROVE i = j
    OBVIOUS
  <2>1. PICK a \in 1..Len(s) : a = (IF i < k THEN i ELSE i + 1) /\ t[i] = s[a]
    BY <1>1, <1>2, <1>9
  <2>2. PICK b \in 1..Len(s) : b = (IF j < k THEN j ELSE j + 1) /\ t[j] = s[b]
    BY <1>1, <1>2, <1>9
  <2>3. a = b
    BY <2>1, <2>2 DEF Lists
  <2> QED BY <2>1, <2>2, <2>3, <1>1, <1>2, <1>9
<1>13. ASSUME NEW v \in S \ {u} PROVE \E i \in 1..Len(t) : t[i] = v
  <2>1. PICK a \in 1..Len(s) : s[a] = v
    BY DEF Lists
  <2>2. a # k
    BY <2>1, <1>2
  <2>3. CASE a < k
    BY <2>1, <2>3, <1>1, <1>2, <1>9
  <2>4. CASE a > k
    <3>1. a - 1 \in 1..(Len(s) - 1) /\ ~(a - 1 < k) /\ (a - 1) + 1 = a
      BY <2>1, <2>4, <1>1, <1>2
    <3>2. t[a - 1] = s[a] /\ a - 1 \in 1..Len(t)
      BY <3>1, <1>9
    <3> QED BY <3>2, <2>1
  <2> QED BY <2>2, <2>3, <2>4, <1>2
<1> QED BY <1>1, <1>7, <1>9, <1>11, <1>12, <1>13 DEF Lists

\* As many as are listed.
LEMMA ListsCount ==
  ASSUME NEW S, NEW s, Lists(s, S)
  PROVE  /\ Cardinality(S) = Len(s) /\ Len(s) \in Nat
         /\ s = <<>> <=> S = {}
         /\ s = <<>> <=> Len(s) = 0
         /\ s # <<>> => Head(s) \in S /\ Last(s) \in S
         /\ {s[i] : i \in DOMAIN s} = S
<1>1. s \in Seq(S) /\ Len(s) \in Nat /\ DOMAIN s = 1..Len(s) /\ \A i \in 1..Len(s) : s[i] \in S
  BY DEF Lists
<1>2. s \in Bijection(1..Len(s), S)
  <2>1. s \in [1..Len(s) -> S]
    BY <1>1
  <2> QED BY <2>1 DEF Lists, Bijection, Injection, Surjection, IsInjective
<1>3. ExistsBijection(1..Len(s), S)
  BY <1>2 DEF ExistsBijection
<1>4. Cardinality(S) = Len(s)
  BY <1>1, <1>3, FS_CountingElements
<1>5. s = <<>> <=> Len(s) = 0
  BY <1>1, EmptySeq
<1>6. s = <<>> <=> S = {}
  BY <1>1, <1>5 DEF Lists
<1>7. s # <<>> => Head(s) = s[1] /\ Last(s) = s[Len(s)] /\ 1 \in 1..Len(s) /\ Len(s) \in 1..Len(s)
  BY <1>1, <1>5 DEF Last
<1>8. {s[i] : i \in DOMAIN s} = S
  BY <1>1 DEF Lists
<1> QED BY <1>1, <1>4, <1>5, <1>6, <1>7, <1>8

\* updateStatusSet follows one status of one task.
LEMMA ReindexedLists ==
  ASSUME NEW S, NEW s, Lists(s, S), NEW u, NEW has \in BOOLEAN, NEW had \in BOOLEAN, had <=> u \in S,
         NEW T, T = IF has THEN S \cup {u} ELSE S \ {u},
         NEW t, t = Reindexed(s, u, had, has)
  PROVE  /\ Lists(t, T)
         /\ had /\ ~has => Len(s) = Len(t) + 1
         /\ ~had /\ ~has => t = s
<1>1. CASE ~had /\ has
  BY <1>1, AppendLists DEF Reindexed
<1>2. CASE had /\ ~has
  BY <1>2, RemoveLists DEF Reindexed
<1>3. CASE had <=> has
  <2>1. t = s /\ T = S
    BY <1>3 DEF Reindexed
  <2> QED BY <2>1, <1>3
<1> QED BY <1>1, <1>2, <1>3
-----------------------------------------------------------------------------
(* The store.                                                                  *)

\* The tasks that have one of the statuses, after u has become next.
LEMMA WithStatusNext ==
  ASSUME StoreInv, NEW u \in Uploads, NEW next, IsTask(next), Becomes(u, next)
  PROVE  /\ DOMAIN tasks' = Uploads /\ tasks'[u] = next
         /\ \A v \in Uploads \ {u} : tasks'[v] = tasks[v]
         /\ \A v \in Uploads : IsTask(tasks'[v])
         /\ Active' = IF IsActive(next.status) THEN Active \cup {u} ELSE Active \ {u}
         /\ \A st \in Statuses :
              WithStatus({st})' = IF next.status = st THEN WithStatus({st}) \cup {u} ELSE WithStatus({st}) \ {u}
         /\ Listed' = IF next.status = NoTask THEN Listed \ {u} ELSE Listed \cup {u}
<1>1. tasks' = [tasks EXCEPT ![u] = next] /\ DOMAIN tasks = Uploads /\ \A v \in Uploads : IsTask(tasks[v])
  BY DEF Becomes, StoreInv
<1>2. DOMAIN tasks' = Uploads /\ tasks'[u] = next /\ \A v \in Uploads \ {u} : tasks'[v] = tasks[v]
  BY <1>1
<1>3. \A v \in Uploads : IsTask(tasks'[v])
  BY <1>1, <1>2
<1>4. Active' = IF IsActive(next.status) THEN Active \cup {u} ELSE Active \ {u}
  <2>1. \A v : v \in Active' <=> v \in (IF IsActive(next.status) THEN Active \cup {u} ELSE Active \ {u})
    BY <1>2 DEF Active
  <2> QED BY <2>1
<1>5. ASSUME NEW st \in Statuses
      PROVE  WithStatus({st})' = IF next.status = st THEN WithStatus({st}) \cup {u} ELSE WithStatus({st}) \ {u}
  <2>1. \A v : v \in WithStatus({st})' <=>
               v \in (IF next.status = st THEN WithStatus({st}) \cup {u} ELSE WithStatus({st}) \ {u})
    BY <1>2 DEF WithStatus
  <2> QED BY <2>1
<1>6. Listed' = IF next.status = NoTask THEN Listed \ {u} ELSE Listed \cup {u}
  <2>1. \A v : v \in Listed' <=> v \in (IF next.status = NoTask THEN Listed \ {u} ELSE Listed \cup {u})
    BY <1>2 DEF Listed
  <2> QED BY <2>1
<1> QED BY <1>2, <1>3, <1>4, <1>5, <1>6

\* A list as it is reindexed for one status.
Follows(s, u, p, n, st) == Reindexed(s, u, p = st, n = st)

\* It lists the tasks of that status, each once.
LEMMA ReindexedStatus ==
  ASSUME NEW S, NEW s, Lists(s, S), NEW u, NEW p, NEW n, NEW st, p = st <=> u \in S,
         NEW T, T = IF n = st THEN S \cup {u} ELSE S \ {u},
         NEW t, t = Follows(s, u, p, n, st)
  PROVE  Lists(t, T)
<1>1. CASE p # st /\ n = st
  BY <1>1, AppendLists DEF Reindexed, Follows
<1>2. CASE p = st /\ n # st
  BY <1>2, RemoveLists DEF Reindexed, Follows
<1>3. CASE p = st <=> n = st
  <2>1. t = s /\ T = S
    BY <1>3 DEF Reindexed, Follows
  <2> QED BY <2>1, <1>3
<1> QED BY <1>1, <1>2, <1>3

\* The indexes follow a task that has become next.
LEMMA BecomesIndex ==
  ASSUME StoreInv, NEW u \in Uploads, NEW next, IsTask(next), Becomes(u, next)
  PROVE  /\ IndexIs'
         /\ IsActive(tasks[u].status) /\ ~IsActive(next.status) =>
              Len(index.active) = Len(index'.active) + 1
         /\ ~IsActive(tasks[u].status) /\ ~IsActive(next.status) => index'.active = index.active
<1>1. PICK p : p = tasks[u].status
  OBVIOUS
<1>2. PICK n : n = next.status
  OBVIOUS
<1>3. IsActive(p) \in BOOLEAN /\ IsActive(n) \in BOOLEAN
  BY DEF IsActive
<1>4. index' = updateIndexes(u, p, n)
  BY <1>1, <1>2 DEF Becomes
<1>5. /\ index' = [active |-> index'.active, uploading |-> index'.uploading,
                   finalizing |-> index'.finalizing, failed |-> index'.failed]
      /\ index'.active = Reindexed(index.active, u, IsActive(p), IsActive(n))
      /\ index'.uploading = Follows(index.uploading, u, p, n, "uploading")
      /\ index'.finalizing = Follows(index.finalizing, u, p, n, "finalizing")
      /\ index'.failed = Follows(index.failed, u, p, n, "error")
  BY <1>4 DEF updateIndexes, Follows
<1>6. IndexIs
  BY DEF StoreInv
<1>7. /\ Active' = IF IsActive(n) THEN Active \cup {u} ELSE Active \ {u}
      /\ IsActive(p) <=> u \in Active
  BY <1>1, <1>2, WithStatusNext DEF Active
<1>8. ASSUME NEW st \in Statuses
      PROVE  /\ WithStatus({st})' = IF n = st THEN WithStatus({st}) \cup {u} ELSE WithStatus({st}) \ {u}
             /\ p = st <=> u \in WithStatus({st})
  <2>1. WithStatus({st})' = IF n = st THEN WithStatus({st}) \cup {u} ELSE WithStatus({st}) \ {u}
    BY <1>2, WithStatusNext
  <2> QED BY <2>1, <1>1 DEF WithStatus
<1>9. /\ Lists(index'.active, Active')
      /\ IsActive(p) /\ ~IsActive(n) => Len(index.active) = Len(index'.active) + 1
      /\ ~IsActive(p) /\ ~IsActive(n) => index'.active = index.active
  <2>1. Lists(index.active, Active)
    BY <1>6 DEF IndexIs
  <2> QED BY <2>1, <1>3, <1>5, <1>7, ReindexedLists
<1>10. Lists(index'.uploading, WithStatus({"uploading"})')
  <2>1. Lists(index.uploading, WithStatus({"uploading"})) /\ "uploading" \in Statuses
    BY <1>6 DEF IndexIs, Statuses
  <2>2. /\ WithStatus({"uploading"})' = IF n = "uploading" THEN WithStatus({"uploading"}) \cup {u}
                                        ELSE WithStatus({"uploading"}) \ {u}
        /\ p = "uploading" <=> u \in WithStatus({"uploading"})
    BY <1>8, <2>1
  <2> QED BY <2>1, <2>2, <1>5, ReindexedStatus
<1>11. Lists(index'.finalizing, WithStatus({"finalizing"})')
  <2>1. Lists(index.finalizing, WithStatus({"finalizing"})) /\ "finalizing" \in Statuses
    BY <1>6 DEF IndexIs, Statuses
  <2>2. /\ WithStatus({"finalizing"})' = IF n = "finalizing" THEN WithStatus({"finalizing"}) \cup {u}
                                         ELSE WithStatus({"finalizing"}) \ {u}
        /\ p = "finalizing" <=> u \in WithStatus({"finalizing"})
    BY <1>8, <2>1
  <2> QED BY <2>1, <2>2, <1>5, ReindexedStatus
<1>12. Lists(index'.failed, WithStatus({"error"})')
  <2>1. Lists(index.failed, WithStatus({"error"})) /\ "error" \in Statuses
    BY <1>6 DEF IndexIs, Statuses
  <2>2. /\ WithStatus({"error"})' = IF n = "error" THEN WithStatus({"error"}) \cup {u}
                                    ELSE WithStatus({"error"}) \ {u}
        /\ p = "error" <=> u \in WithStatus({"error"})
    BY <1>8, <2>1
  <2> QED BY <2>1, <2>2, <1>5, ReindexedStatus
<1>13. IndexIs'
  BY <1>5, <1>9, <1>10, <1>11, <1>12 DEF IndexIs
<1> QED BY <1>1, <1>2, <1>9, <1>13

\* A task that has become next leaves the store as it has to be.
LEMMA BecomesKeepsStore ==
  ASSUME StoreInv, NEW u \in Uploads, NEW next, IsTask(next), Becomes(u, next)
  PROVE  StoreInv'
<1>1. /\ lastFailedId' = LastFailed(index', u, tasks[u].status, next.status)
      /\ summary' = Summary(index', lastFailedId', tasks')
  BY DEF Becomes
<1>2. IndexIs' /\ IndexIs
  BY BecomesIndex DEF StoreInv
<1>3. /\ index'.failed = <<>> <=> WithStatus({"error"})' = {}
      /\ index'.failed # <<>> => Last(index'.failed) \in WithStatus({"error"})'
  <2>1. Lists(index'.failed, WithStatus({"error"})')
    BY <1>2 DEF IndexIs
  <2> QED BY <2>1, ListsCount
<1>4. index.failed = <<>> <=> WithStatus({"error"}) = {}
  <2>1. Lists(index.failed, WithStatus({"error"}))
    BY <1>2 DEF IndexIs
  <2> QED BY <2>1, ListsCount
<1>5. /\ WithStatus({"error"})' = IF next.status = "error" THEN WithStatus({"error"}) \cup {u}
                                  ELSE WithStatus({"error"}) \ {u}
      /\ u \in WithStatus({"error"}) <=> tasks[u].status = "error"
  <2>1. "error" \in Statuses
    BY DEF Statuses
  <2> QED BY <2>1, WithStatusNext DEF WithStatus
<1>6. IF index'.failed = <<>> THEN lastFailedId' = NoTask ELSE lastFailedId' \in WithStatus({"error"})'
  <2>1. IF index.failed = <<>> THEN lastFailedId = NoTask ELSE lastFailedId \in WithStatus({"error"})
    BY DEF StoreInv
  <2>2. WithStatus({"error"}) \subseteq Uploads /\ NoTask \notin Uploads
    BY UploadPagesAssumption DEF WithStatus, NoTask
  <2>3. CASE tasks[u].status # "error" /\ next.status = "error"
    BY <2>3, <1>1, <1>3, <1>5 DEF LastFailed
  <2>4. CASE tasks[u].status = "error" /\ next.status # "error" /\ lastFailedId = u
    BY <2>4, <1>1, <1>3 DEF LastFailed
  <2>5. CASE tasks[u].status = "error" /\ next.status # "error" /\ lastFailedId # u
    <3>1. lastFailedId' = lastFailedId
      BY <2>5, <1>1 DEF LastFailed
    <3>2. lastFailedId \in WithStatus({"error"})
      BY <2>5, <2>1, <1>4, <1>5
    <3> QED BY <3>1, <3>2, <2>5, <1>3, <1>5
  <2>6. CASE tasks[u].status = "error" <=> next.status = "error"
    <3>1. lastFailedId' = lastFailedId
      BY <2>6, <1>1 DEF LastFailed
    <3>2. WithStatus({"error"})' = WithStatus({"error"})
      BY <2>6, <1>5
    <3> QED BY <3>1, <3>2, <2>1, <1>3, <1>4
  <2> QED BY <2>3, <2>4, <2>5, <2>6
<1>7. DOMAIN tasks' = Uploads /\ \A v \in Uploads : IsTask(tasks'[v])
  BY WithStatusNext
<1> QED BY <1>1, <1>2, <1>6, <1>7 DEF StoreInv
\* The counts, and the one the dock names.
LEMMA SummarySays ==
  ASSUME StoreInv
  PROVE  /\ summary.activeCount = Len(index.active) /\ summary.failedCount = Len(index.failed)
         /\ summary.activeCount = Cardinality(Active) /\ summary.activeCount \in Nat
         /\ summary.failedCount = Cardinality(WithStatus({"error"})) /\ summary.failedCount \in Nat
         /\ summary.activeCount = 0 <=> Active = {}
         /\ summary.failedCount = 0 <=> WithStatus({"error"}) = {}
         /\ summary.activeCount = 0 <=> index.active = <<>>
         /\ summary.failedCount = 0 <=> index.failed = <<>>
<1>1. summary.activeCount = Len(index.active) /\ summary.failedCount = Len(index.failed)
  BY DEF StoreInv, Summary
<1>2. Lists(index.active, Active) /\ Lists(index.failed, WithStatus({"error"}))
  BY DEF StoreInv, IndexIs
<1> QED BY <1>1, <1>2, ListsCount

\* The summary of the dock is the summary of the tasks.
LEMMA SummaryDerived ==
  ASSUME StoreInv, Lists(order, Listed)
  PROVE  SummaryIsDerived
<1>1. /\ summary.activeCount = Cardinality({u \in Uploads : IsActive(tasks[u].status)})
      /\ summary.failedCount = Cardinality(WithStatus({"error"}))
  BY SummarySays DEF Active
<1>2. ToSet(order) = Listed
  BY ListsCount DEF ToSet
<1>3. PICK E : E = WithStatus({"error"})
  OBVIOUS
<1>4. PICK U : U = WithStatus({"uploading"})
  OBVIOUS
<1>5. PICK F : F = WithStatus({"finalizing"})
  OBVIOUS
<1>6. /\ index.active = <<>> <=> Active = {}
      /\ index.active # <<>> => Head(index.active) \in Active
      /\ index.uploading = <<>> <=> U = {}
      /\ index.uploading # <<>> => Head(index.uploading) \in U
      /\ index.finalizing = <<>> <=> F = {}
      /\ index.finalizing # <<>> => Head(index.finalizing) \in F
      /\ index.failed = <<>> <=> E = {}
  BY <1>3, <1>4, <1>5, ListsCount DEF StoreInv, IndexIs
<1>7. PICK id : id = Front1(index.uploading, Front1(index.finalizing, Front1(index.active, lastFailedId)))
  OBVIOUS
<1>8. summary.id = id /\ summary.task = IF id = NoTask THEN Unlisted ELSE tasks[id]
  BY <1>7 DEF StoreInv, Summary
<1>9. IF E = {} THEN lastFailedId = NoTask ELSE lastFailedId \in E
  BY <1>3, <1>6 DEF StoreInv
<1>10. /\ U # {} => id \in U
       /\ U = {} /\ F # {} => id \in F
       /\ U = {} /\ F = {} /\ Active # {} => id \in Active
       /\ U = {} /\ F = {} /\ Active = {} /\ E # {} => id \in E
       /\ U = {} /\ F = {} /\ Active = {} /\ E = {} => id = NoTask
  BY <1>6, <1>7, <1>9 DEF Front1
<1>11. \A u \in Uploads : /\ u \in U <=> tasks[u].status = "uploading"
                          /\ u \in F <=> tasks[u].status = "finalizing"
                          /\ u \in E <=> tasks[u].status = "error"
                          /\ u \in Active <=> IsActive(tasks[u].status)
  BY <1>3, <1>4, <1>5 DEF WithStatus, Active
<1>12. U \subseteq Active /\ F \subseteq Active /\ Active \cap E = {}
       /\ Active \subseteq Uploads /\ E \subseteq Uploads /\ NoTask \notin Uploads
  BY <1>3, <1>4, <1>5, UploadPagesAssumption DEF WithStatus, Active, IsActive, NoTask
<1>13. {u \in Uploads : IsActive(tasks[u].status) \/ tasks[u].status = "error"} = Active \cup E
  <2>1. \A u : u \in {v \in Uploads : IsActive(tasks[v].status) \/ tasks[v].status = "error"} <=> u \in Active \cup E
    BY <1>11, <1>12
  <2> QED BY <2>1
<1>14. /\ \A u \in U : Rank(u) = 1
       /\ \A u \in F : Rank(u) = 2
       /\ \A u \in (Active \ U) \ F : Rank(u) = 3
       /\ \A u \in E : Rank(u) = 4
  BY <1>11, <1>12 DEF Rank, IsActive
<1>15. ASSUME Active \cup E # {}
       PROVE  /\ id \in Active \cup E /\ \A u \in Active \cup E : Rank(id) <= Rank(u)
  <2>1. CASE U # {}
    BY <2>1, <1>10, <1>12, <1>14
  <2>2. CASE U = {} /\ F # {}
    BY <2>2, <1>10, <1>12, <1>14
  <2>3. CASE U = {} /\ F = {} /\ Active # {}
    BY <2>3, <1>10, <1>12, <1>14
  <2>4. CASE U = {} /\ F = {} /\ Active = {}
    BY <2>4, <1>10, <1>12, <1>14, <1>15
  <2> QED BY <2>1, <2>2, <2>3, <2>4
<1>16. Active \cup E = {} => id = NoTask
  BY <1>10, <1>12
<1>17. Active \cup E # {} => summary.task = tasks[summary.id]
  BY <1>8, <1>12, <1>15
<1> QED BY <1>1, <1>2, <1>8, <1>13, <1>15, <1>16, <1>17 DEF SummaryIsDerived

-----------------------------------------------------------------------------
(* The dock.                                                                   *)

\* With what the dock has rendered, it shows what it may.
LEMMA DockShows == DockInv => DockIsHonest
  BY DEF DockInv, DockIsHonest, Rendered, NeedsAttention

\* What is rendered does not change: an event of the page, or of a task.
LEMMA DockStays ==
  ASSUME DockInv, UNCHANGED <<dockVars, completionVersion>>, earned' \in BOOLEAN,
         completionVersion # dock.seen => earned',
         dock.visible => (earned' \/ NeedsAttention')
  PROVE  DockInv'
  BY DEF DockInv, dockVars

\* A patch of a task that is listed.
LEMMA PatchKeepsInv ==
  ASSUME UploadPagesInv, Rendered, NEW u \in Listed, NEW next, IsTask(next), next.status # NoTask,
         patchUploadTask(u, next), UNCHANGED dockVars
  PROVE  StoreInv' /\ DockInv' /\ Lists(order, Listed)' /\ Listed' = Listed
<1>1. StoreInv /\ DockInv /\ Lists(order, Listed) /\ u \in Uploads
  BY DEF UploadPagesInv, Listed
<1>2. Becomes(u, next) /\ order' = order
  BY DEF patchUploadTask
<1>3. StoreInv'
  BY <1>1, <1>2, BecomesKeepsStore
<1>4. Listed' = Listed
  <2>1. Listed' = IF next.status = NoTask THEN Listed \ {u} ELSE Listed \cup {u}
    BY <1>1, <1>2, WithStatusNext
  <2> QED BY <2>1
<1>5. PICK ends \in BOOLEAN :
        ends <=> IsActive(tasks[u].status) /\ summary.activeCount = 1 /\ ~IsActive(next.status)
  OBVIOUS
<1>6. earned' = IF ends THEN next.status = "completed" /\ index'.failed = <<>>
                ELSE earned /\ ~IsActive(next.status) /\ next.status # "error"
  <2>1. earned' = IF IsActive(tasks[u].status) /\ summary.activeCount = 1 /\ ~IsActive(next.status)
                  THEN next.status = "completed" /\ index'.failed = <<>>
                  ELSE earned /\ ~IsActive(next.status) /\ next.status # "error"
    BY Zenon DEF patchUploadTask
  <2> QED BY <2>1, <1>5
<1>7. \/ /\ next.status = "completed" /\ summary.activeCount > 0 /\ index'.active = <<>> /\ index'.failed = <<>>
         /\ completionVersion' = completionVersion + 1
      \/ completionVersion' = completionVersion
  BY DEF patchUploadTask
<1>8. earned' \in BOOLEAN
  BY <1>1, <1>6 DEF DockInv
<1>9. completionVersion = dock.seen /\ (NeedsAttention => ~dock.visible)
  BY DEF Rendered
<1>10. completionVersion' # completionVersion => earned'
  <2> SUFFICES ASSUME next.status = "completed", summary.activeCount > 0, index'.active = <<>>, index'.failed = <<>>
               PROVE  earned'
    BY <1>7
  <2>1. ~IsActive(next.status)
    BY DEF IsActive
  <2>2. summary.activeCount = Len(index.active) /\ (summary.activeCount = 0 <=> index.active = <<>>)
        /\ summary.activeCount \in Nat
    BY <1>1, SummarySays
  <2>3. IsActive(tasks[u].status)
    BY <2>1, <2>2, <1>1, <1>2, BecomesIndex
  <2>4. Len(index.active) = Len(index'.active) + 1
    BY <2>1, <2>3, <1>1, <1>2, BecomesIndex
  <2>5. Len(index'.active) = 0
    OBVIOUS
  <2>6. ends
    BY <2>1, <2>2, <2>3, <2>4, <2>5, <1>5
  <2> QED BY <2>6, <1>6
<1>11. ASSUME dock.visible PROVE earned' \/ NeedsAttention'
  <2>1. ~NeedsAttention /\ earned
    BY <1>11, <1>1, <1>9 DEF DockInv
  <2>2. summary.activeCount = 0
    BY <2>1, <1>1, SummarySays DEF NeedsAttention
  <2>3. earned' \/ IsActive(next.status) \/ next.status = "error"
    <3>1. ~ends
      BY <2>2, <1>5
    <3>2. earned' = (earned /\ ~IsActive(next.status) /\ next.status # "error")
      BY <3>1, <1>6
    <3> QED BY <3>2, <2>1
  <2>4. IsActive(next.status) => u \in Active'
    BY <1>1, <1>2, WithStatusNext
  <2>5. next.status = "error" => u \in WithStatus({"error"})'
    <3>1. "error" \in Statuses
      BY DEF Statuses
    <3>2. WithStatus({"error"})' = IF next.status = "error" THEN WithStatus({"error"}) \cup {u}
                                   ELSE WithStatus({"error"}) \ {u}
      BY <3>1, <1>1, <1>2, WithStatusNext
    <3> QED BY <3>2
  <2>6. /\ summary'.activeCount = 0 <=> Active' = {}
        /\ summary'.failedCount = 0 <=> WithStatus({"error"})' = {}
        /\ summary'.activeCount \in Nat /\ summary'.failedCount \in Nat
    <3>1. summary'.activeCount = Len(index'.active) /\ summary'.failedCount = Len(index'.failed)
      BY <1>3 DEF StoreInv, Summary
    <3>2. Lists(index'.active, Active') /\ Lists(index'.failed, WithStatus({"error"})')
      BY <1>3 DEF StoreInv, IndexIs
    <3> QED BY <3>1, <3>2, ListsCount
  <2> QED BY <2>3, <2>4, <2>5, <2>6 DEF NeedsAttention
<1>12. DockInv'
  BY <1>1, <1>7, <1>8, <1>9, <1>10, <1>11 DEF DockInv, dockVars
<1>13. Lists(order, Listed)'
  BY <1>1, <1>2, <1>4
<1> QED BY <1>3, <1>4, <1>12, <1>13
-----------------------------------------------------------------------------
(* The steps.                                                                  *)

\* The record of a task with another status.
LEMMA StatusIs ==
  ASSUME NEW t, IsTask(t), NEW st \in Statuses, NEW x, x = [t EXCEPT !.status = st]
  PROVE  IsTask(x) /\ x.status = st
<1>1. PICK a, b, c : t = [status |-> a, session |-> b, bytes |-> c]
  BY DEF IsTask
<1>2. x = [status |-> st, session |-> b, bytes |-> c]
  BY <1>1
<1> QED BY <1>2 DEF IsTask

\* A task is added.
LEMMA AddKeepsInv ==
  ASSUME UploadPagesInv, Rendered, NEW u \in Uploads, addUploadTasks(u)
  PROVE  UploadPagesInv'
<1>1. PICK next : next = [Unlisted EXCEPT !.status = "queued"]
  OBVIOUS
<1>2. IsTask(next) /\ next.status = "queued"
  BY <1>1 DEF Unlisted, IsTask, Statuses
<1>3. /\ u \notin Listed /\ Becomes(u, next) /\ order' = Append(order, u) /\ earned' = FALSE
      /\ UNCHANGED <<completionVersion, chosen, dockVars>>
  BY <1>1 DEF addUploadTasks
<1>4. StoreInv /\ DockInv /\ Lists(order, Listed) /\ chosen \subseteq Listed
  BY DEF UploadPagesInv
<1>5. StoreInv'
  BY <1>2, <1>3, <1>4, BecomesKeepsStore
<1>6. Listed' = Listed \cup {u}
  <2>1. Listed' = IF next.status = NoTask THEN Listed \ {u} ELSE Listed \cup {u}
    BY <1>2, <1>3, <1>4, WithStatusNext
  <2> QED BY <2>1, <1>2 DEF NoTask
<1>7. Lists(order, Listed)'
  BY <1>3, <1>4, <1>6, AppendLists
<1>8. NeedsAttention'
  <2>1. summary'.activeCount = Len(index'.active) /\ Lists(index'.active, Active')
    BY <1>5 DEF StoreInv, IndexIs, Summary
  <2>2. Active' = IF IsActive(next.status) THEN Active \cup {u} ELSE Active \ {u}
    BY <1>2, <1>3, <1>4, WithStatusNext
  <2>3. u \in Active'
    BY <2>2, <1>2 DEF IsActive
  <2> QED BY <2>1, <2>3, ListsCount DEF NeedsAttention
<1>9. DockInv'
  BY <1>3, <1>4, <1>8, DockStays DEF Rendered
<1> QED BY <1>3, <1>4, <1>5, <1>6, <1>7, <1>9 DEF UploadPagesInv

\* A task is taken from the list.
LEMMA RemoveKeepsInv ==
  ASSUME UploadPagesInv, Rendered, NEW u \in Uploads, remove(u)
  PROVE  UploadPagesInv'
<1>1. u \in Listed /\ IsTask(Unlisted) /\ Unlisted.status = NoTask
  BY DEF remove, Unlisted, IsTask, Statuses, NoTask
<1>2. /\ Becomes(u, Unlisted) /\ order' = RemoveFirst(order, u) /\ chosen' = chosen \ {u}
      /\ UNCHANGED <<completionVersion, dockVars, earned>>
  BY DEF remove, removeUploadTask
<1>3. StoreInv /\ DockInv /\ Lists(order, Listed) /\ chosen \subseteq Listed
  BY DEF UploadPagesInv
<1>4. StoreInv'
  BY <1>1, <1>2, <1>3, BecomesKeepsStore
<1>5. Listed' = Listed \ {u}
  <2>1. Listed' = IF Unlisted.status = NoTask THEN Listed \ {u} ELSE Listed \cup {u}
    BY <1>1, <1>2, <1>3, WithStatusNext
  <2> QED BY <2>1, <1>1
<1>6. Lists(order, Listed)'
  BY <1>1, <1>2, <1>3, <1>5, RemoveLists
<1>7. dock.visible => earned
  BY <1>3 DEF DockInv, Rendered
<1>8. DockInv'
  BY <1>2, <1>3, <1>7, DockStays DEF DockInv
<1> QED BY <1>2, <1>3, <1>4, <1>5, <1>6, <1>8 DEF UploadPagesInv

\* What the engine makes of a task: another status.
LEMMA RunGoesOnKeepsInv ==
  ASSUME UploadPagesInv, Rendered, NEW u \in Uploads, runGoesOn(u)
  PROVE  UploadPagesInv'
<1>1. PICK st \in Steps[tasks[u].status] :
        patchUploadTask(u, [status |-> st,
                            session |-> tasks[u].session \/ st \in {"uploading", "finalizing", "completed"},
                            bytes |-> IF st = "completed" THEN Size
                                      ELSE IF st = "skipped" THEN 0 ELSE tasks[u].bytes])
  BY DEF runGoesOn
<1>2. u \in Listed /\ UNCHANGED <<chosen, dockVars>>
  BY DEF runGoesOn
<1>3. st \in Statuses /\ st # NoTask
  <2>1. tasks[u].status \in Statuses \ {"none"}
    BY <1>2 DEF Listed, UploadPagesInv, StoreInv, IsTask, NoTask
  <2> QED BY <1>1, <2>1 DEF Steps, Statuses, NoTask
<1>4. PICK a, b : patchUploadTask(u, [status |-> st, session |-> a, bytes |-> b])
  BY <1>1
<1>5. IsTask([status |-> st, session |-> a, bytes |-> b])
  BY <1>3 DEF IsTask
<1>6. StoreInv' /\ DockInv' /\ Lists(order, Listed)' /\ Listed' = Listed
  BY <1>2, <1>3, <1>4, <1>5, PatchKeepsInv
<1> QED BY <1>2, <1>6 DEF UploadPagesInv

\* What the user makes of it: a retry, or a cancel.
LEMMA UserKeepsInv ==
  ASSUME UploadPagesInv, Rendered, NEW u \in Uploads,
         retryOne(u) \/ cancelRow(u) \/ cancelMany(u)
  PROVE  UploadPagesInv'
<1>1. PICK st \in {"queued", "cancelled", "cancelling"} :
        /\ patchUploadTask(u, [tasks[u] EXCEPT !.status = st]) /\ tasks[u].status # NoTask
        /\ UNCHANGED dockVars /\ chosen' \in {chosen, chosen \ {u}}
  <2>1. CASE retryOne(u)
    BY <2>1 DEF retryOne, NoTask
  <2>2. CASE cancelOne(u)
    <3>1. CASE tasks[u].status = "queued"
      BY <2>2, <3>1 DEF cancelOne, NoTask
    <3>2. CASE tasks[u].status # "queued"
      BY <2>2, <3>2 DEF cancelOne, canCancel, NoTask
    <3> QED BY <3>1, <3>2
  <2> QED BY <2>1, <2>2 DEF cancelRow, cancelMany
<1>2. u \in Listed /\ IsTask(tasks[u])
  BY <1>1 DEF Listed, UploadPagesInv, StoreInv
<1>3. PICK next : next = [tasks[u] EXCEPT !.status = st]
  OBVIOUS
<1>4. IsTask(next) /\ next.status = st
  BY <1>2, <1>3, StatusIs DEF Statuses
<1>5. patchUploadTask(u, next) /\ next.status # NoTask
  BY <1>1, <1>3, <1>4 DEF NoTask
<1>6. StoreInv' /\ DockInv' /\ Lists(order, Listed)' /\ Listed' = Listed
  BY <1>1, <1>2, <1>4, <1>5, PatchKeepsInv
<1> QED BY <1>1, <1>6 DEF UploadPagesInv

\* The timer publishes progress: no status changes.
LEMMA ProgressKeepsInv ==
  ASSUME UploadPagesInv, Rendered, updateUploadProgress
  PROVE  UploadPagesInv'
<1>1. /\ tasks' = [u \in Uploads |->
             IF tasks[u].status = "uploading" /\ pendingProgress[u] > tasks[u].bytes
             THEN [tasks[u] EXCEPT !.bytes = pendingProgress[u]] ELSE tasks[u]]
      /\ summary' = IF summary.id = NoTask THEN summary ELSE [summary EXCEPT !.task = tasks'[summary.id]]
      /\ UNCHANGED <<order, index, lastFailedId, completionVersion, chosen, dockVars, earned>>
  BY DEF updateUploadProgress
<1>2. StoreInv /\ DockInv /\ Lists(order, Listed) /\ chosen \subseteq Listed
  BY DEF UploadPagesInv
<1>3. ASSUME NEW u \in Uploads
      PROVE  IsTask(tasks'[u]) /\ tasks'[u].status = tasks[u].status
  <2>1. PICK a, b, c : tasks[u] = [status |-> a, session |-> b, bytes |-> c] /\ a \in Statuses
    BY <1>2 DEF StoreInv, IsTask
  <2>2. PICK d : tasks'[u] = [status |-> a, session |-> b, bytes |-> d]
    <3>1. CASE tasks'[u] = tasks[u]
      BY <3>1, <2>1
    <3>2. CASE tasks'[u] = [tasks[u] EXCEPT !.bytes = pendingProgress[u]]
      <4>1. tasks'[u] = [status |-> a, session |-> b, bytes |-> pendingProgress[u]]
        BY <3>2, <2>1
      <4> QED BY <4>1
    <3> QED BY <3>1, <3>2, <1>1
  <2> QED BY <2>1, <2>2 DEF IsTask
<1>4. DOMAIN tasks' = Uploads
  BY <1>1
<1>5. Active' = Active /\ \A st : WithStatus({st})' = WithStatus({st})
  BY <1>3 DEF Active, WithStatus
<1>6. Listed' = Listed
  BY <1>3 DEF Listed
<1>7. IndexIs'
  BY <1>1, <1>2, <1>5 DEF StoreInv, IndexIs
<1>8. IF index'.failed = <<>> THEN lastFailedId' = NoTask ELSE lastFailedId' \in WithStatus({"error"})'
  BY <1>1, <1>2, <1>5 DEF StoreInv
<1>9. /\ summary' = Summary(index', lastFailedId', tasks')
      /\ summary'.activeCount = summary.activeCount /\ summary'.failedCount = summary.failedCount
  <2>1. PICK id : id = Front1(index.uploading, Front1(index.finalizing, Front1(index.active, lastFailedId)))
    OBVIOUS
  <2>2. summary = [activeCount |-> Len(index.active), failedCount |-> Len(index.failed), id |-> id,
                   task |-> IF id = NoTask THEN Unlisted ELSE tasks[id]]
    BY <2>1, <1>2 DEF StoreInv, Summary
  <2>3. summary' = [activeCount |-> Len(index.active), failedCount |-> Len(index.failed), id |-> id,
                    task |-> IF id = NoTask THEN Unlisted ELSE tasks'[id]]
    <3>1. CASE id = NoTask
      BY <3>1, <2>2, <1>1
    <3>2. CASE id # NoTask
      <4>1. summary' = [summary EXCEPT !.task = tasks'[id]]
        BY <3>2, <2>2, <1>1
      <4> QED BY <4>1, <3>2, <2>2
    <3> QED BY <3>1, <3>2
  <2> QED BY <2>1, <2>2, <2>3, <1>1 DEF Summary
<1>10. StoreInv'
  BY <1>3, <1>4, <1>7, <1>8, <1>9 DEF StoreInv
<1>11. DockInv'
  <2>1. dock.visible => (earned' \/ NeedsAttention')
    BY <1>1, <1>2, <1>9 DEF DockInv, NeedsAttention
  <2> QED BY <2>1, <1>1, <1>2, DockStays DEF DockInv
<1> QED BY <1>1, <1>2, <1>6, <1>10, <1>11 DEF UploadPagesInv

\* The store does not change: the page, the dock and its pointer.
LEMMA PageKeepsInv ==
  ASSUME UploadPagesInv, UNCHANGED <<uploadStoreVars, earned>>, chosen' \subseteq Listed, DockInv'
  PROVE  UploadPagesInv'
<1>1. UNCHANGED <<tasks, order, index, lastFailedId, summary>>
  BY DEF uploadStoreVars
<1>2. Listed' = Listed /\ Active' = Active /\ \A S : WithStatus(S)' = WithStatus(S)
  BY <1>1 DEF Listed, Active, WithStatus
<1>3. IndexIs'
  BY <1>1, <1>2 DEF UploadPagesInv, StoreInv, IndexIs
<1>4. StoreInv'
  BY <1>1, <1>2, <1>3 DEF UploadPagesInv, StoreInv
<1> QED BY <1>1, <1>2, <1>4 DEF UploadPagesInv

\* The dock renders, hides, and follows the pointer.
LEMMA DockKeepsInv ==
  ASSUME DockInv, dockEffects \/ dockVanishes \/ pointerEnters \/ pointerLeaves \/ hideTimer
  PROVE  DockInv' /\ UNCHANGED <<uploadStoreVars, earned, chosen>>
<1> DEFINE is(a, b, c, d) == [seen |-> a, visible |-> b, hovered |-> c, timer |-> d]
<1>1. PICK a \in Nat, b \in BOOLEAN, c \in BOOLEAN, d \in BOOLEAN : dock = is(a, b, c, d)
  BY DEF DockInv
<1>2. CASE dockEffects
  <2>1. PICK v \in BOOLEAN : v <=> ~NeedsAttention /\ (b \/ completionVersion # a)
    OBVIOUS
  <2>2. dock' = [dock EXCEPT !.seen = completionVersion, !.visible = v,
                             !.timer = IF v = dock.visible THEN @ ELSE v /\ ~dock.hovered]
    BY <1>1, <1>2, <2>1, Zenon DEF dockEffects
  <2>3. PICK t : t = IF v = b THEN d ELSE v /\ ~c
    OBVIOUS
  <2>4. t \in BOOLEAN
    BY <2>3
  <2>5. dock' = is(completionVersion, v, c, t)
    BY <2>2, <2>3, <1>1
  <2>6. UNCHANGED <<uploadStoreVars, earned, chosen, pointer, vanished>> /\ UNCHANGED <<summary, completionVersion>>
    BY <1>2 DEF dockEffects, uploadStoreVars
  <2> QED BY <1>1, <2>1, <2>3, <2>4, <2>5, <2>6 DEF DockInv, NeedsAttention
<1>3. CASE dockVanishes
  BY <1>3 DEF dockVanishes, DockInv, NeedsAttention, uploadStoreVars
<1>4. CASE pointerEnters
  <2>1. dock' = is(a, b, TRUE, FALSE) /\ pointer' = TRUE /\ vanished' = FALSE
    BY <1>1, <1>4 DEF pointerEnters
  <2>2. UNCHANGED <<uploadStoreVars, earned, chosen>> /\ UNCHANGED <<summary, completionVersion>>
    BY <1>4 DEF pointerEnters, uploadStoreVars
  <2> QED BY <1>1, <2>1, <2>2 DEF DockInv, NeedsAttention
<1>5. CASE pointerLeaves
  <2>1. dock' = is(a, b, FALSE, b) /\ pointer' = FALSE /\ vanished' = vanished
    BY <1>1, <1>5 DEF pointerLeaves
  <2>2. UNCHANGED <<uploadStoreVars, earned, chosen>> /\ UNCHANGED <<summary, completionVersion>>
    BY <1>5 DEF pointerLeaves, uploadStoreVars
  <2> QED BY <1>1, <2>1, <2>2 DEF DockInv, NeedsAttention
<1>6. CASE hideTimer
  <2>1. dock' = is(a, FALSE, c, FALSE) /\ pointer' = pointer /\ vanished' = vanished
    BY <1>1, <1>6 DEF hideTimer
  <2>2. UNCHANGED <<uploadStoreVars, earned, chosen>> /\ UNCHANGED <<summary, completionVersion>>
    BY <1>6 DEF hideTimer, uploadStoreVars
  <2> QED BY <1>1, <2>1, <2>2 DEF DockInv, NeedsAttention
<1> QED BY <1>2, <1>3, <1>4, <1>5, <1>6

\* At first nothing is listed.
LEMMA UploadPagesInitInv == UploadPagesInit => UploadPagesInv
<1> SUFFICES ASSUME UploadPagesInit PROVE UploadPagesInv
  OBVIOUS
<1>1. Lists(<<>>, {})
  BY DEF Lists
<1>2. \A u \in Uploads : tasks[u] = Unlisted
  BY DEF UploadPagesInit
<1>3. Listed = {} /\ Active = {} /\ WithStatus({"uploading"}) = {} /\ WithStatus({"finalizing"}) = {}
      /\ WithStatus({"error"}) = {}
  BY <1>2 DEF Listed, Active, WithStatus, IsActive, Unlisted, NoTask
<1>4. index = NoIndex /\ order = <<>> /\ lastFailedId = NoTask /\ summary = NoSummary /\ chosen = {}
  BY DEF UploadPagesInit
<1>5. IndexIs
  BY <1>1, <1>3, <1>4 DEF IndexIs, NoIndex
<1>6. Summary(NoIndex, NoTask, tasks) = NoSummary
  BY DEF Summary, NoIndex, NoSummary, Front1
<1>7. DOMAIN tasks = Uploads /\ \A u \in Uploads : IsTask(tasks[u])
  BY <1>2 DEF UploadPagesInit, IsTask, Unlisted, Statuses, NoTask
<1>8. StoreInv
  BY <1>4, <1>5, <1>6, <1>7 DEF StoreInv, NoIndex
<1>9. DockInv
  BY DEF UploadPagesInit, DockInv
<1> QED BY <1>1, <1>3, <1>4, <1>8, <1>9 DEF UploadPagesInv

\* Every step of the engine, the page and the dock keeps the invariant.
LEMMA UploadPagesNextInv == UploadPagesInv /\ [UploadPagesNext]_uploadPageVars => UploadPagesInv'
<1> SUFFICES ASSUME UploadPagesInv, [UploadPagesNext]_uploadPageVars PROVE UploadPagesInv'
  OBVIOUS
<1>1. StoreInv /\ DockInv /\ chosen \subseteq Listed
  BY DEF UploadPagesInv
<1>2. ASSUME dockEffects \/ dockVanishes \/ pointerEnters \/ pointerLeaves \/ hideTimer PROVE UploadPagesInv'
  BY <1>1, <1>2, DockKeepsInv, PageKeepsInv
<1>3. ASSUME UNCHANGED <<uploadStoreVars, dockVars, earned>>, chosen' \subseteq Listed PROVE UploadPagesInv'
  <2>1. DockInv'
    BY <1>1, <1>3 DEF DockInv, NeedsAttention, dockVars, uploadStoreVars
  <2> QED BY <1>3, <2>1, PageKeepsInv
<1>4. ASSUME NEW u \in Uploads, mark(u) \/ \E n \in 1..Size : queueProgress(u, n) PROVE UploadPagesInv'
  BY <1>1, <1>3, <1>4 DEF mark, queueProgress
<1>5. ASSUME cancelManyEnds \/ markAll PROVE UploadPagesInv'
  BY <1>1, <1>3, <1>5 DEF cancelManyEnds, markAll
<1>6. ASSUME UNCHANGED uploadPageVars PROVE UploadPagesInv'
  BY <1>1, <1>3, <1>6 DEF uploadPageVars
<1>7. ASSUME Rendered, NEW u \in Uploads,
             addUploadTasks(u) \/ runGoesOn(u) \/ retryOne(u) \/ cancelRow(u) \/ cancelMany(u) \/ remove(u)
      PROVE  UploadPagesInv'
  BY <1>7, AddKeepsInv, RunGoesOnKeepsInv, UserKeepsInv, RemoveKeepsInv
<1>8. ASSUME Rendered, updateUploadProgress PROVE UploadPagesInv'
  BY <1>8, ProgressKeepsInv
<1>9. CASE UploadPagesNext
  <2>1. CASE ~Rendered \/ (~Shown /\ pointer)
    BY <1>2, <1>9, <2>1 DEF UploadPagesNext
  <2>2. CASE Rendered /\ ~(~Shown /\ pointer)
    BY <1>2, <1>4, <1>5, <1>7, <1>8, <1>9, <2>2 DEF UploadPagesNext
  <2> QED BY <2>1, <2>2
<1> QED BY <1>6, <1>9

\* However the engine patches tasks, progress is published late and the user
\* retries, cancels and dismisses: the counters and the task the dock names are
\* those of the list (upload-store.ts), "Upload complete" is earned and goes away
\* (upload-dock.tsx), and only listed tasks are selected.
THEOREM UploadsAreAlwaysShown == UploadPagesSpec => []UploadsAreShown
<1>1. UploadPagesInit => UploadPagesInv
  BY UploadPagesInitInv
<1>2. UploadPagesInv /\ [UploadPagesNext]_uploadPageVars => UploadPagesInv'
  BY UploadPagesNextInv
<1>3. UploadPagesInv => UploadsAreShown
  BY SummaryDerived, DockShows DEF UploadPagesInv, UploadsAreShown
<1> QED BY <1>1, <1>2, <1>3, PTL DEF UploadPagesSpec
===============================================================================
