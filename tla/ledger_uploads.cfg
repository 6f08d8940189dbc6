SPECIFICATION Spec
CONSTANTS
    Nodes = {root, f1, f2}
    Folders = {root}
    Root = root
    NoNode = noNode
    Names = {a, b}
    NoName = noName
    Uploads = {u1, u2}
    MaxSize = 2
    Quotas = {2}
    Unlimited = unlimited
SYMMETRY Symmetry
CONSTRAINT BoundedDrift
INVARIANTS
    ReservedIsDerived
PROPERTIES
    GrowthStaysWithinQuota
