SPECIFICATION Spec
CONSTANTS
    Digests = {d1}
    Copies = {c1, c2, c3}
    NoMessage = noMessage
    Uploads = {u1, u2}
    Verified = {u1}
    Parts = {1}
    Files = {f1, f2}
    NoFile = noFile
    Callers = {p1, p2}
    Sweeper = sweeper
    Nobody = nobody
    MaxFaults = 2
    LocksMayBeLost = TRUE
SYMMETRY Symmetry
INVARIANTS
    FileChunksAreReady
    ReferencedBytesAreLive
    NoStrayMessages
CHECK_DEADLOCK FALSE
