\* Two workers, two slots, one path whose file changes, every kind of request; exceptions may lose slots.
CONSTANTS
    Handlers = {h1, h2}
    MaxConcurrency = 2
    ThreadCap = 4
    Channels = {c1, c2}
    NoSlot = NoSlot
    CreateThrowsAt = {"channel"}
    TransferMayThrow = TRUE
    Paths = {p1}
    Sizes = {0, 3}
    MaxFd = 2
    None = None
    Requests <- SomeRequests
SPECIFICATION FairSpec
INVARIANTS SlotOnlyForValidGet HeadPromiseKept OneFdPerPath NothingLeft NothingUsedAfterFree
PROPERTIES EveryRequestAnswered ShutdownCompletes
CHECK_DEADLOCK FALSE
