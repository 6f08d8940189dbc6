SPECIFICATION FairSpec
CONSTANTS
    Jobs = {j1, j2}
    Known = {j1}
    Workers = {w1, w2}
    NoWorker = noWorker
    MaxAttempts = 3
PROPERTIES
    
    ImplementsLifecycle
    JobsSettle
