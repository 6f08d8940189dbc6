SPECIFICATION Spec
CONSTANTS
    Nodes = {root, d1, d2, f1}
    Folders = {root, d1, d2}
    Root = root
    NoNode = noNode
    Names = {a, b}
    NoName = noName
    Uploads = {u1}
    MaxSize = 1
    Quotas = {}
    Unlimited = unlimited
SYMMETRY Symmetry
CONSTRAINT BoundedDrift
INVARIANTS
    UsedIsDerivedUnlessRaced
    EveryNodeReachesRoot
    OpenSessionKeepsFolder
