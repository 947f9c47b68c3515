\* Two callbacks on two threads or three on one, every fault; a child with a
\* deadline of two ticks.
SPECIFICATION ProbeSpec
CONSTANTS
    MaxCalls = 3
    MaxOverlapping = 2
    Threads = {t1, t2}
    Guards = {TRUE, FALSE}
    Faults <- AllFaults
    Deadline = 2
    Grace = 2
INVARIANTS NoUseInFlight PassEarned GuardEmitsOnce WitnessSound ExitPassEarned NoChildLeft ContextCovered
PROPERTIES LatchHolds ProbeEnds
CHECK_DEADLOCK FALSE
