SPECIFICATION Spec
CONSTANTS
    disk = disk  vmblock = vmblock  serial = serial  NoIrq = NoIrq
    Lines <- TwoLines
    Level <- LevelLines
    Virtual <- VirtualLines
    Vector <- TwoVector
    TimerVector = 239
    Ipis = {251}
    SplitWrite = TRUE
INVARIANT DeviceRemembered
