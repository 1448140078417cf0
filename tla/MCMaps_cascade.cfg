SPECIFICATION Spec
CONSTANTS
    Kinds = {"str"}
    KeysOf <- MCKeysOf
    PrefillsOf <- MCPrefillsOf
    PtrOf <- MCPtrOf
    Widths <- MCWidths
    Reckless = {"cascade"}
    MaxCallsOf <- MCDeepCallsOf
    N = 4
    InlineMax = 1
    KeyLenMax = 2
    LenMax = 100
    FnodeCap = 16
    FnodeNull = 255
CHECK_DEADLOCK FALSE
INVARIANT GetAgrees
