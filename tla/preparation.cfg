CONSTANTS
    Calls = {h1, h2}
    Requests = {r1}
    NoRequest = NoRequest
    NoKey = "none"
    Bodies <- PreparationBodies
    KeysFor <- PreparationKeys
    StartConfirmed = {}
    MaxActionChanges = 1
    Expirable = {"dry_run", "confirmation"}
    Faults = {"gate"}
SPECIFICATION Spec
SYMMETRY CallSymmetry
INVARIANTS
    ConfirmedHasConfirmation
    ExecutionWasPrepared
    ChangedActionIsNotExecuted
CHECK_DEADLOCK FALSE
