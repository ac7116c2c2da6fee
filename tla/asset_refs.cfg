SPECIFICATION Spec
CONSTANTS
    Sums = {c1, c2}
    NoSum = NoSum
    Blogs = {b1}
    Files = {f1, f2}
    Docs = {d1}
    Requests = {r1, r2}
    MaxOps = 5
    MaxFaults = 1
INVARIANTS
    AssetTypeOK
    ReferencedHasAsset
    ReferencedHasObject
PROPERTIES
    CanonicalKeyStays
    LastReferenceCollects
SYMMETRY Symmetry
CHECK_DEADLOCK FALSE
