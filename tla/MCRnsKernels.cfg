SPECIFICATION KernelSpec
CONSTANTS
    Api = {a, b}
    Main <- ParameterSets
    Auxiliary <- AuxiliarySets
    Data = {d1, d2, d3, d4, d5, d6}
    Slots = {s1, s2}
    None = None
    Seeds = {0, 2}
    logN = 5
    WordBits = 13
    W = 8192
SYMMETRY Symmetry
INVARIANTS
    KeysOutlived
    AuxiliariesExact
    Canonical
    LiftsExact
    ProductRight
CHECK_DEADLOCK FALSE
