SPECIFICATION ViewsSpec
CONSTANTS
    Folders = {root, sub}
    Root = root
    Sorts = {name, size}
    LastPage = 2
    Changing = {sub}
    Loads = {1, 2, 3}
    Files = {f1, f2}
    Toggles = {1}
    Slides = 3
    Names = {"ann", "login"}
    Unknown = "ghost"
    MaxHops = 3
    Uploads = {"u1", "u2"}
    Size = 1
    MaxCompletions = 2
INVARIANTS
    BrowserIsTrue
    FavoritesAgree
    CarouselSettles
    RoutesFitTheSession
    UploadsAreShown
CHECK_DEADLOCK FALSE
