CONSTANTS
    Calls = {h1, h2}
    Requests = {r1}
    NoRequest = NoRequest
    NoKey = "none"
    Bodies <- PartialBody
    KeysFor <- RollbackKeys
    StartConfirmed = {r1}
    MaxActionChanges = 0
    Expirable = {"lock"}
    Faults = {"crash", "error", "gate"}
SPECIFICATION Spec
SYMMETRY CallSymmetry
INVARIANTS
    LockExcludes
    RollbackIsRecorded
PROPERTIES
    AttemptResultIsFinal
    KeepsPromise
