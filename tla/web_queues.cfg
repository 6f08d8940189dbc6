SPECIFICATION QueuesSpec
CONSTANTS
    Clients = {c1, c2, c3}
    MaxCeiling = 3
    Visuals = {v1, v2}
    Sources = {"a", "b"}
    Calls = {1, 2, 3}
    QueueLimit = 1
    Attempts = 2
    Owners = {carousel, player}
    Chunks = {x1, x2}
    Assets = {p1, p2}
    WarmLimit = 2
    Remembered = 1
    WindowSize = 2
    Plans = {1, 2}
    Directories <- DroppedDirectories
    Names <- NamesOfFolders
    NameKey <- KeyOfName
    BatchLimit = 2
    MaxDirectories = 2
    Texts = {"t0", "t1", "t2"}
    Empties = {"t0"}
    Images = {"i1", "i2"}
    Videos = {"v1", "v2"}
    Others = {"o"}
    ChunksOf <- ChunksOfVideos
    Requests = {1, 2, 3}
    Aheads = {1, 2}
    Words = {"p", "r"}
    Bounds = {1, 2}
    MaxChanges = 2
    Folders = {"f1", "f2"}
    MaxMounts = 2
    MaxGifts = 2
INVARIANTS
    VisualsShowTheirFile
    WarmQueueIsExact
    DropsAreTrue
    PreviewsAreTrue
    SearchIsWanted
PROPERTIES
    ImplementsSemaphore
    WaitersAreServed
