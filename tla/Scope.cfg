SPECIFICATION Spec
CONSTANTS
    SIZE_MAX = 15
    kAlign = 2
    kMaxReg = 12
    Sizes = 15
    Any = Any
    None = None
    Campaigns <- AllCampaigns
INVARIANTS
    SlotsSound
    PassEarned
    FailHasCause
    HeldWhileUsed
    OutcomeRight
CHECK_DEADLOCK FALSE
