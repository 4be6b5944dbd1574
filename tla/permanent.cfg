SPECIFICATION Spec
CONSTANTS
    d1 = d1
    Docs = {d1}
    Contents = {"blank"}
    MaxRetries = 2
    MaxSerial = 3
    Disturbances = {}
    MaxDisturbances = 0
    NoMessage = NoMessage
INVARIANTS
    PermanentIsDeadLettered
CHECK_DEADLOCK FALSE
