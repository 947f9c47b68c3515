\* As SlotPool.cfg with four workers: a GET may unwind with its slot.
CONSTANTS
    Handlers = {h1, h2, h3, h4}
    MaxConcurrency = 4
    ThreadCap = 4
    Channels = {c1, c2, c3, c4}
    NoSlot = NoSlot
    CreateThrowsAt = {}
    TransferMayThrow = TRUE
SPECIFICATION Spec
SYMMETRY Symmetry
INVARIANT EverySlotReleased
CHECK_DEADLOCK FALSE
