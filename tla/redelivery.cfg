SPECIFICATION FairSpec
CONSTANTS
    d1 = d1
    Docs = {d1}
    Contents = {"text", "blank", "corrupt", "empty"}
    MaxRetries = 2
    MaxSerial = 3
    Disturbances = {"crash", "disconnect", "handler"}
    MaxDisturbances = 3
    NoMessage = NoMessage
INVARIANTS
    CompleteUnlessReworked
    AuditGapsArePending
PROPERTIES
    EmbeddedIsFinal
    ImplementsLifecycle
    ImplementsAtLeastOnce
    QueuesDrain
CHECK_DEADLOCK FALSE
