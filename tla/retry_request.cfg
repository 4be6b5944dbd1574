SPECIFICATION Spec
CONSTANTS
    d1 = d1
    Docs = {d1}
    Contents = {"blank"}
    MaxRetries = 2
    MaxSerial = 3
    Disturbances = {"operator"}
    MaxDisturbances = 1
    NoMessage = NoMessage
PROPERTIES
    RetryReenqueues
CHECK_DEADLOCK FALSE
