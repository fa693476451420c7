CONSTANTS
    Calls = {h1, h2}
    Requests = {r1, r2}
    NoRequest = NoRequest
    NoKey = "none"
    Bodies <- OneFailingBody
    KeysFor <- SharedKeys
    StartConfirmed = {r1, r2}
    MaxActionChanges = 0
    Expirable = {"lock"}
    Faults = {"error"}
SPECIFICATION Spec
SYMMETRY Symmetry
INVARIANTS
    TypeOK
    AtMostOneExecution
    AnswersAreRecorded
    OutcomeIsRecorded
PROPERTIES
    KeepsPromise
