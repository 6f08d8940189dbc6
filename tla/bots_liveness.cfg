SPECIFICATION FairSpec
CONSTANTS
    MaxBots = 1
    FirstBots = 1
    NumClasses = 2
    Callers = {c1, c2, c3}
    Exclusions <- NoExclusions
    MaxDisturbances = 1
PROPERTY
    EveryCallIsAnswered
