SPECIFICATION Spec
CONSTANTS
    ocr = ocr
    chunker = chunker
    PythonWorkers = {ocr}
    GoWorkers = {chunker}
    Attempts = 2
    MaxOutages = 2
    MaxIncidents = 3
INVARIANTS
    TypeOK
    StoppedIsDeaf
PROPERTIES
    NoDeliveryAfterStop
    NoticedStopEnds
    ComesBack
CHECK_DEADLOCK FALSE
