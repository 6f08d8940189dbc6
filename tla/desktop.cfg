SPECIFICATION DesktopSpec
CONSTANTS
    Transfers = {"t1", "t2"}
    MaxRevision = 3
    Subscriptions = {1, 2}
    Pairs = {p1}
    MaxVersion = 1
    Ops = {1, 2}
    MaxEvents = 1
    Servers = {"local", "remote"}
    Local = "local"
    Calls = {1, 2}
    Channels = {"stable", "beta"}
    MaxAttempts = 2
    MaxLoads = 2
    MaxPolls = 2
    MaxChanges = 2
    MaxOverlap = 2
INVARIANTS
    ProjectionConverges
    
    SessionIsTrue
    
    
    
CHECK_DEADLOCK FALSE
