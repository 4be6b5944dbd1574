SPECIFICATION Spec
CONSTANTS
    d1 = d1
    Docs = {d1}
    Contents = {"text", "blank", "corrupt"}
    MaxRetries = 2
    MaxSerial = 3
    Disturbances = {"disconnect", "error", "lost", "api"}
    MaxDisturbances = 3
    NoMessage = NoMessage
INVARIANTS
    TypeOK
    SafetyInv
    DeliveryInv
    NoMessageLost
    ProcessedIsDone
    HandedOverToChunker
    DeadLetteredAfterRetries
    MessageFindsDocument
    StrandedByLostHandoffOnly
    AuditExplainsStatus
    CompleteUnlessReworked
    OrderInv
    CarryInv
    AuditInv
    ProcessedIsAudited
    GapInv
PROPERTIES
    FailedIsFinal
CHECK_DEADLOCK FALSE
