CONSTANTS
    Clients = {c1, c2}
    Lister = c1
    NoRecord = NoRecord
SPECIFICATION FairSpec
INVARIANTS
    BackgroundTypeOK
    RecordTruthful
PROPERTIES
    FinalUnlessStale
    SignalledWorkerEnds
    JobSettles
CHECK_DEADLOCK FALSE
