CONSTANTS
    qa = qa  qb = qb
    None = None
    WrongType = WrongType
    Strings = {"", "memory", "redis", "job", "nats", "mail"}
    Queues = {qa, qb}
    ConfigMaps <- Maps
    Edited <- EditedFile
    MayHang = {qa}
SPECIFICATION FairSpec
INVARIANTS TypeOK WellConfigured SeededAsTemplate DrainedOnReturn 
PROPERTIES ShutdownStopsAll CloseEnds
CHECK_DEADLOCK FALSE
