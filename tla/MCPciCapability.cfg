\* Standard bases within uint8_t, extended bases past 0xFF; offsets of each
\* range, owned by a capability or not.
CONSTANTS
    Ids = {"msi", "pcie"}
    StdBases = {64, 80, 96}
    ExtBases = {256, 320, 512}
    StdOffsets = {64, 80, 112}
    ExtOffsets = {256, 320, 768}
    MaxCaps = 3
SPECIFICATION Spec
INVARIANT ScanMatchesReference
