----------------------------- MODULE MCWebViews ------------------------------
(* The list of a folder, its favourites, the carousel of previews, the way    *)
(* between the pages and the pages of uploads side by side.  They share no    *)
(* state: one behaviour exercises one of them.                                *)
EXTENDS WebBrowser, FileFavorites, PreviewCarousel, Routes, UploadPages

VARIABLE part
allVars == <<browserVars, favoriteVars, carouselVars, routeVars, uploadPageVars, part>>

ViewsInit ==
  /\ part \in {"browser", "favorites", "carousel", "routes", "uploads"}
  /\ BrowserInit /\ FavoritesInit /\ CarouselInit /\ RoutesInit
  /\ UploadPagesInit
  \* Of the components at rest one initial state is enough.
  /\ part # "browser" => sort = CHOOSE s \in Sorts : TRUE
  /\ part # "favorites" => favorites = {}
  /\ part # "carousel" => route = 1
  /\ part # "routes" => client = "web" /\ setup

BrowserPart == <<browserVars, favoriteVars>>
OtherParts == <<carouselVars, routeVars, uploadPageVars>>

ViewsNext ==
  /\ UNCHANGED part
  /\ \/ part = "browser" /\ BrowserNext /\ UNCHANGED <<favoriteVars, OtherParts>>
     \/ part = "favorites" /\ FavoritesNext /\ UNCHANGED <<browserVars, OtherParts>>
     \/ part = "carousel" /\ CarouselNext /\ UNCHANGED <<BrowserPart, routeVars, uploadPageVars>>
     \/ part = "routes" /\ RoutesNext /\ UNCHANGED <<BrowserPart, carouselVars, uploadPageVars>>
     \/ part = "uploads" /\ UploadPagesNext /\ UNCHANGED <<BrowserPart, carouselVars, routeVars>>

ViewsSpec == ViewsInit /\ [][ViewsNext]_allVars
=============================================================================
