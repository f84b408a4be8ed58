SPECIFICATION Spec
CONSTANTS
    Irqs = {0, 5}
    Squashed = {0, 2, 3, 4, 8, 9}
    SplitClear = TRUE
    NoIrq = NoIrq
INVARIANT NoInterruptLost
