\* The bus disables the device while a CONFIG_WRITE that passed the
\* disabled_ check waits to be dispatched.
CONSTANTS
    CfgOffsets = {64}
    CfgWidths = {4}
    BarCount = 4
    Bars <- MCBars
    MsixBars = {0}
    CapList <- MCCapList
    CapRequests <- MCCapRequests
    MaxCalls = 1
SPECIFICATION Spec
INVARIANT ConfigWritesOnlyWhileEnabled
CHECK_DEADLOCK FALSE
