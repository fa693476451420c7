CONSTANTS
    probe = probe
    hoophall = hoophall
    w1 = w1
    w2 = w2
    p1 = p1
    p2 = p2
    Lanes = {probe, hoophall}
    Processes = {p1, p2}
    Nobody = Nobody
    Nothing = Nothing
    MaxClock = 2
    MaxAttempts = 1
    Workers = {w1, w2}
    ProcessOf <- OneProcess
    LaneOrder <- ProbeFirst
    Probe = probe
    Outcomes <- ItemsOnly
    StartEnabled = {probe, hoophall}
    Operable = {hoophall}
    OneShotLanes = {hoophall}
    Heartbeats = {w1}
    Callers = {w2}
    Faults = {"slow_job"}
    MaxFaults = 1
SPECIFICATION Spec
INVARIANTS
    OwnerIsGrantee
    JobInOneHand
    PassedSlotsAreEarned
PROPERTIES
    ReleasedIsFinal
