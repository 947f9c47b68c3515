\* One worker, reads of one byte, verbatim tokens, --out.
CONSTANTS
    Sizes <- TwoSizes
    Options <- RangeOptions
    Outcomes = {"ok"}
    MaxIters = 3
SPECIFICATION Spec
INVARIANT DumpIsLastObject
CHECK_DEADLOCK FALSE
