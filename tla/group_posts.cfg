CONSTANTS
    Blogs = {b1}
    Requests = {r1}
    Editors = {e1}
    MaxOps = 5
    MaxFaults = 1
SPECIFICATION Spec
INVARIANTS PostTypeOK ScopeFollowsGroup
PROPERTIES OnlyAuthorsOpen SavesKeepScope
CHECK_DEADLOCK FALSE
