SPECIFICATION FairSpec
CONSTANTS
    d1 = d1
    d2 = d2
    Docs = {d1, d2}
    Contents = {"text", "blank", "corrupt"}
    MaxRetries = 2
    MaxSerial = 1
    Disturbances = {"error", "handler", "api", "operator"}
    MaxDisturbances = 1
    NoMessage = NoMessage
PROPERTIES
    EveryUploadSettles
CHECK_DEADLOCK FALSE
