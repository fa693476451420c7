CONSTANTS
    Calls = {h1, h2}
    Requests = {r1}
    NoRequest = NoRequest
    NoKey = "none"
    Bodies <- OneFailingBody
    KeysFor <- CancelKeys
    StartConfirmed = {r1}
    MaxActionChanges = 0
    Expirable = {}
    Faults = {}
SPECIFICATION Spec
PROPERTIES
    FollowsLifecycle
