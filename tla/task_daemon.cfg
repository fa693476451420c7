CONSTANTS
    plan = plan
    build = build
    other = other
    Tasks = {plan, build, other}
    Slots = {1, 2}
    Polls = {p1, p2}
    Nobody = Nobody
    Upstream <- AllAfterPlan
    MaxAttempts <- OnlyBuildRetries
    EvidenceOnly = {plan}
    Verifiers = {plan}
    Conflicting = {{build, other}}
    Late = {other}
    Withdrawable = {plan}
    TaskLimit = 2
    MaxCrashes = 1
SPECIFICATION FairSpec
INVARIANTS
    TypeOK
    ClaimsExclude
    OnePollKeepsFilesApart
    DependenciesHold
    DeployedIsComplete
    DeploymentIsRecorded
    ProcessesAreWatched
PROPERTIES
    FollowsLifecycle
    
