CONSTANTS
    Calls = {h1, h2}
    Requests = {r1}
    NoRequest = NoRequest
    NoKey = "none"
    Bodies <- OneFailingBody
    KeysFor <- AttemptKeys
    StartConfirmed = {r1}
    MaxActionChanges = 0
    Expirable = {"lock"}
    Faults = {}
SPECIFICATION FairSpec
PROPERTIES
    StartedSettles
