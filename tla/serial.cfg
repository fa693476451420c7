CONSTANTS
    Calls = {h1}
    Requests = {r1}
    NoRequest = NoRequest
    NoKey = "none"
    Bodies <- TableBodies
    KeysFor <- AllKeys
    StartConfirmed = {}
    MaxActionChanges = 0
    Expirable = {"lock", "dry_run", "evidence"}
    Faults = {"crash", "error", "gate"}
SPECIFICATION Spec
PROPERTIES
    FollowsLifecycle
CHECK_DEADLOCK FALSE
