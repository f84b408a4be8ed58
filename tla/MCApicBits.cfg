SPECIFICATION Spec
CONSTANTS
    disk = disk  vmblock = vmblock  serial = serial  NoIrq = NoIrq
    Lines <- AllLines
    Level <- LevelLines
    Virtual <- VirtualLines
    Vector <- AllVector
    TimerVector = 239
    Ipis = {}
    SplitWrite = FALSE
INVARIANT BitsSummarise
