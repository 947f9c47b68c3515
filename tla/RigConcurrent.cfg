\* Two slots, two rounds, every fault.
SPECIFICATION Spec
CONSTANTS
    W = 2
    Iterations = 2
    Faults <- AllFaults
INVARIANTS NoReuseInFlight PassEarned FailIsConcurrent
CHECK_DEADLOCK FALSE
