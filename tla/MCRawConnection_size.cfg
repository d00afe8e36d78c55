CONSTANTS
    BufSize = 8
    SizeBits = 4
    FrameLens = {5, 6, 8}
    MaxFrames = 2
    AnyHeader = TRUE
    MaxErrors = 0
    MaxMonitorFailures = 0
    MaxSignals = 0
    MaxAuomsRestarts = 0
    s1 = s1
    s2 = s2
    Strs = {s1, s2}
    NameChars = {" ", "-", "1"}
    MaxMembers = 3
    MaxPairMembers = 1
SPECIFICATION MonitorSpec
INVARIANT WithinBuffer
CHECK_DEADLOCK FALSE
