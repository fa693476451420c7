CONSTANTS
    probe = probe
    hoophall = hoophall
    w1 = w1
    w2 = w2
    p1 = p1
    p2 = p2
    Lanes = {probe, hoophall}
    Processes = {p1, p2}
    Nobody = Nobody
    Nothing = Nothing
    MaxClock = 2
    MaxAttempts = 2
    Workers = {w1, w2}
    ProcessOf <- OneProcess
    LaneOrder <- ProbeFirst
    Probe = probe
    Outcomes <- AllOutcomes
    StartEnabled = {hoophall}
    Operable = {}
    OneShotLanes = {hoophall}
    Heartbeats = {w1, w2}
    Callers = {}
    Faults = {"crash", "error", "slow_job", "slow_lock"}
    MaxFaults = 1
SPECIFICATION FairSpec
INVARIANTS
    TypeOK
    HeartbeatsExclude
    LeasedIsRecoverable
    AttemptsAreBounded
    SucceededWasCollected
    PassedSlotsSucceeded
PROPERTIES
    EnabledLaneFinishesJobs
