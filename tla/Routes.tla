-------------------------------- MODULE Routes --------------------------------
(* How the two applications move between their pages: the guards of the        *)
(* desktop's router, the layouts and pages the web application renders on its  *)
(* server, and the navigations their forms and menus start.  A session may end, *)
(* lose its role or belong to another user at any step.  The desktop re-reads  *)
(* its guards whenever the session it holds changes.  Next renders the layouts *)
(* the target does not share with the mounted tree, and then the page: layouts *)
(* that stay mounted keep what they were rendered with.                        *)
EXTENDS Naturals, FiniteSets

CONSTANTS Names,      \* user names that exist
          Unknown,    \* a name in an address that nobody has
          MaxHops     \* redirects in a row that are still an answer

None == "none"
\* No name is that of nobody; three redirects in a row are an answer.
ASSUME RoutesAssumption ==
  /\ Names # {} /\ None \notin Names /\ Unknown \notin Names \union {None}
  /\ MaxHops \in Nat /\ MaxHops >= 3

VARIABLES client,     \* which application
          status,     \* of the desktop's connection
          setup,      \* the server still waits for its first administrator
          user,       \* whose session it is, or None
          must,       \* who must change the password first
          admins,     \* who is an administrator
          at,         \* the address
          screen,      \* what is on the screen: "moving" while an answer is awaited
          tree,       \* web: whether the application's layout is mounted, and whose workspace
          fresh,      \* the session has not changed since the mounted layouts were rendered
          hops,       \* redirects since the last navigation or change of session
          linked      \* this navigation followed a link of the sidebar or the palette
routeVars == <<client, status, setup, user, must, admins, at, screen, tree, fresh, hops, linked>>
session == <<status, setup, user, must, admins>>

Web == client = "web"
Fixed == {"login", "setup", "change-password"} \union (IF Web THEN {"features"} ELSE {"connect"})
PageAt(p) == [page |-> p, owner |-> None]
\* A router takes a fixed page before a workspace, whatever the name.
workspacePath(name, p) ==
  IF p = "files" /\ name \in Fixed THEN PageAt(name) ELSE [page |-> p, owner |-> name]

OpenPages == {"files", "folder", "file", "search", "favorites", "collections", "collection",
              "collectionFile", "shared", "activity", "storage", "trash"}
ActorPages == {"uploads", "settings", "security"} \union (IF Web THEN {} ELSE {"downloads", "sync"})
AdminPages == {"admin", "bots", "diagnostics"}
Pages == OpenPages \union ActorPages \union AdminPages
Addresses == {PageAt(p) : p \in Fixed \union {"/"}}
  \union {workspacePath(n, p) : n \in Names \union {Unknown}, p \in Pages}

authenticatedPath(name) ==
  IF name \in must THEN PageAt("change-password") ELSE workspacePath(name, "files")
connectedRouteTarget ==
  IF setup THEN PageAt("setup") ELSE IF user = None THEN PageAt("login") ELSE authenticatedPath(user)
actorRouteRedirect(p) == workspacePath(user, p.page)
adminRouteRedirect == workspacePath(user, "files")

-----------------------------------------------------------------------------
(* The links: of the sidebar, of the palette, of the user's menu.             *)
\* A bug to be found: the uploads of the workspace on the screen, not the user's.
createAppNavigationHere(actor, workspace, isAdmin) ==
  {workspacePath(workspace, p) : p \in {"files", "uploads", "trash"}}
    \union {workspacePath(actor, p) : p \in IF isAdmin THEN AdminPages ELSE {}}
createAppNavigation(actor, workspace, isAdmin) ==
  {workspacePath(workspace, p) : p \in {"files", "search", "favorites", "collections",
                                        "shared", "activity", "storage", "trash"}}
    \union {workspacePath(actor, "uploads")}
    \union {workspacePath(actor, p) : p \in IF isAdmin THEN AdminPages ELSE {}}
transferItems(actor) == {workspacePath(actor, p) : p \in {"downloads", "sync"}}
userMenu(actor) == {workspacePath(actor, p) : p \in {"settings", "security"}}
desktopMenu(actor) == {workspacePath(actor, "settings")}
paletteLinks(actor, workspace, isAdmin) ==
  {workspacePath(workspace, p) : p \in {"files", "favorites", "collections", "shared", "trash", "search"}}
    \union {workspacePath(actor, "settings")}
    \union (IF isAdmin THEN {workspacePath(actor, "admin")} ELSE {})
desktopPalette(actor, workspace, isAdmin) == paletteLinks(actor, workspace, isAdmin)
Links(actor, workspace, isAdmin) ==
  createAppNavigation(actor, workspace, isAdmin)
    \union (IF Web THEN userMenu(actor) \union paletteLinks(actor, workspace, isAdmin)
            ELSE transferItems(actor) \union desktopMenu(actor)
                   \union desktopPalette(actor, workspace, isAdmin))

-----------------------------------------------------------------------------
(* The desktop's guards: each answers with the address it redirects to, or    *)
(* with the address itself when it shows the page.                            *)
RootRoute == IF status = "disconnected" THEN PageAt("connect") ELSE connectedRouteTarget
ConnectRoute == IF status = "connected" THEN connectedRouteTarget ELSE at
SetupRoute == IF status = "disconnected" THEN PageAt("connect")
              ELSE IF setup THEN at ELSE connectedRouteTarget
LoginRoute == IF status = "disconnected" THEN PageAt("connect")
              ELSE IF setup THEN PageAt("setup")
              ELSE IF user = None THEN at ELSE authenticatedPath(user)
ChangePasswordRoute ==
  IF status = "disconnected" THEN PageAt("connect")
  ELSE IF setup THEN PageAt("setup")
  ELSE IF user = None THEN PageAt("login")
  ELSE IF user \in must THEN at ELSE workspacePath(user, "files")
AdminRouteGuard == IF user \in admins THEN at ELSE adminRouteRedirect
ActorRouteGuard ==
  IF at.owner # user THEN actorRouteRedirect(at)
  ELSE IF at.page \in AdminPages THEN AdminRouteGuard ELSE at
AuthenticatedRoute ==
  IF status = "disconnected" THEN PageAt("connect")
  ELSE IF setup THEN PageAt("setup")
  ELSE IF user = None THEN PageAt("login")
  ELSE IF user \in must THEN PageAt("change-password")
  ELSE IF at.page \in ActorPages \union AdminPages THEN ActorRouteGuard ELSE at
desktopTarget ==
  CASE at.page = "/"               -> RootRoute
    [] at.page = "connect"         -> ConnectRoute
    [] at.page = "setup"           -> SetupRoute
    [] at.page = "login"           -> LoginRoute
    [] at.page = "change-password" -> ChangePasswordRoute
    [] OTHER                       -> AuthenticatedRoute

-----------------------------------------------------------------------------
(* The web's pages: what each reads from the API, and which refusals it turns *)
(* into "not found"; any other refusal is thrown to the error page.           *)
Loading(reads, missing) == [reads |-> reads, missing |-> missing, admin |-> FALSE]
ForAdmins(reads) == [reads |-> reads, missing |-> {}, admin |-> TRUE]
FilesPage            == Loading({"workspace", "listing"}, {})
FolderPage           == Loading({"resource"}, {403, 404, 409})
FilePage             == Loading({"resource"}, {403, 404})
SearchPage           == Loading({}, {})
FavoritesPage        == Loading({}, {})
CollectionsPage      == Loading({"workspace", "listing"}, {})
CollectionPage       == Loading({"resource"}, {403, 404})
CollectionFilePage   == Loading({"resource"}, {403, 404})
SharedPage           == Loading({"own"}, {})
ActivityPage         == Loading({}, {})
StoragePage          == Loading({}, {})
TrashPage            == Loading({"workspace", "listing"}, {})
UploadsPage          == Loading({}, {})
SettingsPage         == Loading({}, {})
SecurityPage         == Loading({"own"}, {})
AdminPage            == ForAdmins({"own", "admin"})
AdminBotsPage        == ForAdmins({"own", "admin"})
AdminDiagnosticsPage == ForAdmins({"own", "admin"})
pageOf(p) ==
  CASE p = "files" -> FilesPage             [] p = "file" -> FilePage
    [] p = "folder" -> FolderPage           [] p = "collectionFile" -> CollectionFilePage
    [] p = "search" -> SearchPage           [] p = "favorites" -> FavoritesPage
    [] p = "collections" -> CollectionsPage [] p = "collection" -> CollectionPage
    [] p = "shared" -> SharedPage           [] p = "activity" -> ActivityPage
    [] p = "storage" -> StoragePage         [] p = "trash" -> TrashPage
    [] p = "uploads" -> UploadsPage         [] p = "settings" -> SettingsPage
    [] p = "security" -> SecurityPage       [] p = "admin" -> AdminPage
    [] p = "bots" -> AdminBotsPage          [] OTHER -> AdminDiagnosticsPage

\* What the server may answer a page's read.
workspaceAccess(owner) ==
  IF user = None THEN 401
  ELSE IF user # owner /\ user \notin admins THEN 403
  ELSE IF owner \notin Names THEN 404 ELSE 200
Answers(read, owner) ==
  CASE read = "workspace" -> {workspaceAccess(owner)}
    [] read = "resource"  -> IF user = None THEN {401} ELSE {200, 403, 404}
    [] read = "admin"     -> {IF user = None THEN 401 ELSE IF user \in admins THEN 200 ELSE 403}
    [] OTHER              -> {IF user = None THEN 401 ELSE 200}

\* What a request answers: an address to go on to, or what it shows.
Redirect(p) == [to |-> p, shows |-> None]
Shows(s) == [to |-> at, shows |-> s]

AppLayout == IF user = None THEN {Redirect(PageAt("login"))}
             ELSE IF user \in must THEN {Redirect(PageAt("change-password"))} ELSE {}
WorkspaceLayout(owner) ==
  IF user = None THEN {Redirect(PageAt("login"))}
  ELSE CASE workspaceAccess(owner) = 403 -> {Shows("denied")}
         [] workspaceAccess(owner) = 404 -> {Shows("missing")}
         [] OTHER -> {}
pageAnswers(p) ==
  LET page == pageOf(p.page)
      refusals == UNION {Answers(r, p.owner) \ {200} : r \in page.reads}
  IN IF page.admin /\ user # None /\ user \notin admins
     THEN {Redirect(workspacePath(p.owner, "files"))}
     ELSE {Shows(IF a \in page.missing THEN "missing" ELSE "refused") : a \in refusals}
            \union (IF \A r \in page.reads : 200 \in Answers(r, p.owner) THEN {Shows("page")} ELSE {})
workspaceAnswers ==
  LET app == IF tree.app THEN {} ELSE AppLayout
      shell == IF tree.app /\ tree.owner = at.owner THEN {} ELSE WorkspaceLayout(at.owner)
  IN IF app # {} THEN app ELSE IF shell # {} THEN shell ELSE pageAnswers(at)

LoginPage == IF setup THEN Redirect(PageAt("setup"))
             ELSE IF user # None THEN Redirect(authenticatedPath(user)) ELSE Shows("page")
SetupPage == IF setup THEN Shows("page") ELSE Redirect(PageAt("login"))
ChangePasswordPage ==
  IF user = None THEN Redirect(PageAt("login"))
  ELSE IF user \in must THEN Shows("page") ELSE Redirect(workspacePath(user, "files"))
LandingPage == IF setup THEN Redirect(PageAt("setup")) ELSE Shows("page")
webAnswers ==
  CASE at.page = "/"               -> {LandingPage}
    [] at.page = "login"           -> {LoginPage}
    [] at.page = "setup"           -> {SetupPage}
    [] at.page = "change-password" -> {ChangePasswordPage}
    [] at.page = "features"        -> {Shows("page")}
    [] OTHER                       -> workspaceAnswers

-----------------------------------------------------------------------------
NoTree == [app |-> FALSE, owner |-> None]
RoutesInit ==
  /\ client \in {"web", "desktop"}
  /\ status = IF Web THEN "connected" ELSE "loading"
  /\ setup \in BOOLEAN /\ user = None /\ must = {} /\ admins = {CHOOSE n \in Names : TRUE}
  /\ at = PageAt("/") /\ screen = "moving" /\ tree = NoTree /\ fresh = TRUE
  /\ hops = 0 /\ linked = FALSE

\* Going somewhere: a navigation the user or the program starts.
toward(p) == at' = p /\ screen' = "moving" /\ hops' = 0
moving == screen = "moving"

\* One answer of the web's server; a failing request shows the error page.
serverFetch ==
  /\ Web /\ moving
  /\ \/ \E answer \in webAnswers :
          IF answer.shows = None
          THEN /\ hops < MaxHops /\ at' = answer.to /\ hops' = hops + 1
               /\ UNCHANGED <<screen, tree, fresh>>
          ELSE /\ screen' = answer.shows
               /\ tree' = IF at.owner = None THEN NoTree ELSE [app |-> TRUE, owner |-> at.owner]
               /\ fresh' = (fresh \/ at.owner = None \/ ~tree.app)
               /\ UNCHANGED <<at, hops>>
     \/ screen' = "failed" /\ UNCHANGED <<at, hops, tree, fresh>>
  /\ UNCHANGED <<client, session, linked>>

\* One rendering of the desktop's router.
render ==
  /\ ~Web /\ moving /\ status # "loading"
  /\ IF desktopTarget = at
     THEN screen' = "page" /\ fresh' = TRUE /\ UNCHANGED <<at, hops>>
     ELSE hops < MaxHops /\ at' = desktopTarget /\ hops' = hops + 1 /\ UNCHANGED <<screen, fresh>>
  /\ UNCHANGED <<client, session, tree, linked>>

\* The user opens an address, or follows a link of the workspace on the screen.
visit(p) ==
  /\ ~moving /\ toward(p) /\ linked' = FALSE
  /\ IF Web THEN tree' = NoTree ELSE UNCHANGED tree
  /\ UNCHANGED <<client, session, fresh>>
follow(p) ==
  /\ screen = "page" /\ at.owner # None /\ user # None
  /\ p \in Links(user, at.owner, user \in admins)
  /\ toward(p) /\ linked' = (fresh /\ p.owner # None)
  /\ UNCHANGED <<client, session, tree, fresh>>
\* "Back to workspace" on the error page and on the page for what is missing.
goBack == ~moving /\ screen \in {"refused", "failed", "missing"} /\ toward(PageAt("/"))
          /\ linked' = FALSE /\ UNCHANGED <<client, session, tree, fresh>>
\* "Return to your workspace" where the workspace is denied.
goHome == screen = "denied" /\ user # None /\ toward(workspacePath(user, "files"))
          /\ linked' = FALSE /\ UNCHANGED <<client, session, tree, fresh>>

\* A form of the web answers: replace and refresh, which renders every layout anew.
replaceAndRefresh(p) == toward(p) /\ tree' = NoTree /\ fresh' = TRUE /\ linked' = FALSE
\* On the desktop the session changes, every guard is read again, and the form
\* navigates as well.
navigateTo(p) == toward(p) /\ linked' = FALSE /\ UNCHANGED <<tree, fresh>>
going(p) == IF Web THEN replaceAndRefresh(p) ELSE navigateTo(p)

onPage(p) == screen = "page" /\ at = PageAt(p)
setupCompleted ==
  /\ onPage("setup") /\ setup' = FALSE /\ going(PageAt("login"))
  /\ UNCHANGED <<client, status, user, must, admins>>
authenticated(n) ==
  /\ onPage("login") /\ user' = n /\ must' \in {must \ {n}, must \union {n}}
  /\ going(IF n \in must' THEN PageAt("change-password") ELSE workspacePath(n, "files"))
  /\ UNCHANGED <<client, status, setup, admins>>
changed ==
  /\ onPage("change-password") /\ user # None
  /\ must' = must \ {user} /\ going(workspacePath(user, "files"))
  /\ UNCHANGED <<client, status, setup, user, admins>>
logout ==
  /\ screen = "page" /\ user # None /\ user' = None /\ going(PageAt("login"))
  /\ UNCHANGED <<client, status, setup, must, admins>>
\* A component of the web is refused for want of a session.
unauthorized ==
  /\ Web /\ ~moving /\ at.owner # None /\ user = None /\ replaceAndRefresh(PageAt("login"))
  /\ UNCHANGED <<client, session>>

\* The desktop finds its server, leaves it, or learns that its session is over.
acceptConnection ==
  /\ ~Web /\ status # "connected" /\ status' = "connected"
  /\ setup' \in BOOLEAN /\ user' \in IF setup' THEN {None} ELSE Names \union {None}
  /\ must' \in {{}, Names} /\ screen' = "moving" /\ hops' = 0 /\ linked' = FALSE
  /\ UNCHANGED <<client, admins, at, tree, fresh>>
connectionFails ==
  /\ ~Web /\ status = "loading" /\ status' = "disconnected"
  /\ screen' = "moving" /\ hops' = 0 /\ linked' = FALSE
  /\ UNCHANGED <<client, setup, user, must, admins, at, tree, fresh>>
changeServer ==
  /\ ~Web /\ status = "connected" /\ screen = "page"
  /\ status' = "disconnected" /\ user' = None /\ navigateTo(PageAt("connect"))
  /\ UNCHANGED <<client, setup, must, admins>>
refreshUser ==
  /\ ~Web /\ status = "connected" /\ user # None /\ user' = None
  /\ screen' = "moving" /\ hops' = 0 /\ linked' = FALSE
  /\ UNCHANGED <<client, status, setup, must, admins, at, tree, fresh>>

\* On the web the session changes elsewhere: it ends, another tab signs in, a
\* role is given or taken, the password is reset, the server is set up.
elsewhere ==
  /\ Web
  /\ \/ setup /\ setup' = FALSE /\ UNCHANGED <<user, must, admins>>
     \/ ~setup /\ user' \in (Names \union {None}) \ {user} /\ UNCHANGED <<setup, must, admins>>
     \/ \E n \in Names : admins' \in {admins \union {n}, admins \ {n}} /\ UNCHANGED <<setup, user, must>>
     \/ \E n \in Names : must' = must \union {n} /\ UNCHANGED <<setup, user, admins>>
  /\ fresh' = FALSE /\ linked' = FALSE /\ hops' = 0
  /\ UNCHANGED <<client, status, at, screen, tree>>

RoutesNext ==
  \/ serverFetch \/ render \/ goBack \/ goHome
  \/ \E p \in Addresses : visit(p) \/ follow(p)
  \/ setupCompleted \/ changed \/ logout \/ unauthorized
  \/ \E n \in Names : authenticated(n)
  \/ acceptConnection \/ connectionFails \/ changeServer \/ refreshUser \/ elsewhere

RoutesSpec == RoutesInit /\ [][RoutesNext]_routeVars
-----------------------------------------------------------------------------
\* What the session of this moment may look at.
Permitted(p) ==
  CASE p.page = "/"               -> ~setup
    [] p.page = "features"        -> TRUE
    [] p.page = "connect"         -> status = "disconnected"
    [] p.page = "setup"           -> setup
    [] p.page = "login"           -> ~setup /\ user = None
    [] p.page = "change-password" -> user \in must
    [] OTHER -> /\ user # None /\ user \notin must
                /\ p.page \in AdminPages => user \in admins
                /\ ~Web /\ p.page \in ActorPages \union AdminPages => p.owner = user

(* Every navigation ends: after at most MaxHops redirects, whatever guards    *)
(* answer each other, there is a page, unless the user has the name of a      *)
(* fixed page (router.tsx; app/(auth)/*, app/(app)/layout.tsx).  What it      *)
(* shows is what the session may see, and it refuses nobody for want of a     *)
(* session, unless that changed after the mounted layouts were rendered.  A   *)
(* link of the sidebar or of the palette leads where it says.                 *)
Ordinary == user \notin Fixed
RedirectsEnd ==
  Ordinary /\ moving /\ hops = MaxHops =>
    IF Web THEN \A answer \in webAnswers : answer.shows # None ELSE desktopTarget = at
PagesArePermitted == Ordinary /\ fresh /\ screen = "page" => Permitted(at)
RefusalsAreExplained == fresh => screen # "refused"
LinksAreDirect == linked /\ moving => hops = 0
RoutesFitTheSession ==
  RedirectsEnd /\ PagesArePermitted /\ RefusalsAreExplained /\ LinksAreDirect
=============================================================================
