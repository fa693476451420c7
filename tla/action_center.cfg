SPECIFICATION Spec
CONSTANTS
    Calls = {c1, c2}
    a1 = a1
    a2 = a2
    e1 = e1
    e2 = e2
    d1 = d1
    Ids = {a1, a2}
    Evidence = {e1, e2}
    Drafts = {d1, d2}
    Complete = {d1}
    None = none
    Starts <- FourStarts
    MaxCalls = 5
SYMMETRY Symmetry
INVARIANTS
    TypeOK
    ApprovedWasReviewed
    ApprovalCoversDraft
    RejectionSticks
PROPERTIES
    SuppressionSticks
    FollowsLifecycle
CHECK_DEADLOCK FALSE
