SPECIFICATION Spec
CONSTANTS
    Kinds = {"nibble", "dyn", "nib", "bit", "fixed", "fixedauto", "int", "str", "poly"}
    KeysOf <- MCKeysOf
    PrefillsOf <- MCPrefillsOf
    PtrOf <- MCPtrOf
    Widths <- MCWidths
    Reckless = {}
    MaxCallsOf <- MCMaxCallsOf
    N = 4
    InlineMax = 1
    KeyLenMax = 2
    LenMax = 100
    FnodeCap = 16
    FnodeNull = 255
CHECK_DEADLOCK FALSE
INVARIANTS GetAgrees ForwardInOrder BackwardInOrder SeekLands RangeExact StructureSound
PROPERTIES RefusedWithReason
