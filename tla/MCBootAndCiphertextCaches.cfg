SPECIFICATION TogetherSpec
CONSTANTS
    cts = cts
    mid = mid
    stc = stc
    ltA = ltA
    ltInvA = ltInvA
    full = full
    sparse = sparse
    NoSlots = NoSlots
    BootBlock <- MCBootBlock
    Slots <- MCSlots
    Stages <- MCStages
    Bytes <- MCBytes
    Unlimited = 100
    BootBudgets = {0, 4, 100}
    a = a
    b = b
    v1 = v1
    v2 = v2
    Handle = {a, b}
    Val = {v1, v2}
    NoVal = NoVal
    SizeMax = 99
    Budgets = {1, 99}
SYMMETRY MCSymmetry
INVARIANTS
    InUseResident
    BudgetSoftByOne
    AccountingExact
    HeldResident
    OriginalsKept
PROPERTIES
    ReusesStages
    ImplementsVramCache
    EvictionExact
CHECK_DEADLOCK FALSE
