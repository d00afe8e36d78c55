CONSTANTS
    BufSize = 8
    SizeBits = 4
    FrameLens = {5, 6, 8}
    MaxFrames = 2
    AnyHeader = FALSE
    MaxErrors = 1
    MaxMonitorFailures = 1
    MaxSignals = 1
    MaxAuomsRestarts = 1
    s1 = s1
    s2 = s2
    Strs = {s1, s2}
    NameChars = {" ", "-", "1"}
    MaxMembers = 3
    MaxPairMembers = 1
SPECIFICATION MonitorSpec
INVARIANT TypeOK
INVARIANT FrameIntegrity
INVARIANT WithinBuffer
INVARIANT AuomsOutputRemoved
INVARIANT WriterLoadIsPerKey
INVARIANT WriterOverridesMatchReference
CHECK_DEADLOCK FALSE
PROPERTY MonitorReturnsAfterClose
