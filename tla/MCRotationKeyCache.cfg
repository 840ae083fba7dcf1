CONSTANTS
    a1 = a1
    a2 = a2
    a3 = a3
    setA = setA
    setB = setB
    RotKey <- MCRotKey
    KeyHash <- MCKeyHash
    KeyIdOf <- MCKeyIdOf
    KeyBytes = 2
    SizeMax = 100
    Budgets = {2, 5, 100}
    MaxReAdds = 1
SPECIFICATION Spec
INVARIANTS
    TypeOK
    AccountingExact
    LRUExact
    InUseResident
PROPERTIES
    EvictionSparesPinned
    ShrinksToBudget
    ImplementsVramCache
    CallsReturnWhenOffloadable
CHECK_DEADLOCK FALSE
