SPECIFICATION Spec
CONSTANTS
    Kinds = {"dyn"}
    KeysOf <- MCKeysOf
    PrefillsOf <- MCPrefillsOf
    PtrOf <- MCPtrOf
    Widths <- MCWidths
    Reckless = {"respread"}
    MaxCallsOf <- MCMaxCallsOf
    N = 4
    InlineMax = 1
    KeyLenMax = 2
    LenMax = 100
    FnodeCap = 16
    FnodeNull = 255
CHECK_DEADLOCK FALSE
PROPERTY RefusedWithReason
