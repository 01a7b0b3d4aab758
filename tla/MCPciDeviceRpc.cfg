CONSTANTS
    CfgOffsets = {0, 64, 4096}
    CfgWidths = {3, 4}
    BarCount = 4
    Bars <- MCBars
    MsixBars = {0}
    CapList <- MCCapList
    CapRequests <- MCCapRequests
    MaxCalls = 2
SPECIFICATION Spec
INVARIANT ReplyHandlesValid
\* Once the proxy has made MaxCalls calls and all are answered, the device
\* host waits on the channel for good.
CHECK_DEADLOCK FALSE
