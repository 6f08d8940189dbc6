SPECIFICATION FairSpec
CONSTANTS
    Digests = {d1, d2}
    Copies = {c1, c2}
    NoMessage = noMessage
    Uploads = {u1}
    Verified = {}
    Parts = {1, 2}
    Files = {f1}
    NoFile = noFile
    Callers = {p1}
    Sweeper = sweeper
    Nobody = nobody
    MaxFaults = 1
    LocksMayBeLost = TRUE
PROPERTIES
    OrphansAreSwept
CHECK_DEADLOCK FALSE
