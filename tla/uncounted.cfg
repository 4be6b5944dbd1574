SPECIFICATION Spec
CONSTANTS
    d1 = d1
    Docs = {d1}
    Contents = {"text"}
    MaxRetries = 2
    MaxSerial = 3
    Disturbances = {"error"}
    MaxDisturbances = 2
    NoMessage = NoMessage
INVARIANTS
    DeadLetteredInTime
CHECK_DEADLOCK FALSE
