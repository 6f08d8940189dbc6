SPECIFICATION Spec
CONSTANTS
    MaxBots = 2
    FirstBots = 1
    NumClasses = 2
    Callers = {c1, c2, c3}
    Exclusions <- FirstExcluded
    MaxDisturbances = 2
SYMMETRY Symmetry
INVARIANTS
    OneLeasePerBot
    RotationIsFair
    NextWaiterIsAwakeUnlessProbing
