SPECIFICATION Spec
CONSTANTS
    Irqs = {0, 10, 13}
    Squashed = {0, 2, 3, 4, 8, 9}
    SplitClear = FALSE
    NoIrq = NoIrq
INVARIANTS CodeAssertions NoInterruptLost IrqInv
PROPERTIES Delivered Acknowledged
