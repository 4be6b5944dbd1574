SPECIFICATION Spec
CONSTANTS
    d1 = d1
    Docs = {d1}
    Contents = {"text"}
    MaxRetries = 2
    MaxSerial = 3
    Disturbances = {"error", "crash"}
    MaxDisturbances = 2
    NoMessage = NoMessage
INVARIANTS
    EmbeddedIsComplete
CHECK_DEADLOCK FALSE
