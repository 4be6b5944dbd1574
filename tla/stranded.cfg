SPECIFICATION Spec
CONSTANTS
    d1 = d1
    Docs = {d1}
    Contents = {"text"}
    MaxRetries = 2
    MaxSerial = 3
    Disturbances = {"crash"}
    MaxDisturbances = 1
    NoMessage = NoMessage
INVARIANTS
    NoDocumentStranded
CHECK_DEADLOCK FALSE
