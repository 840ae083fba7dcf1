SPECIFICATION TogetherSpec
CONSTANTS
    LogSlots = 4
    MaxBStep = 9
    InitSizes = {1, 2, 4, 8, 16}
    RowSizes = {1, 2, 3, 4, 6, 7}
    BSteps = {1, 2, 3, 4}
    Strides <- MCStrides
    Offsets <- MCOffsets
    GSteps <- MCRows
    TapLists <- MCTaps
    SlotCounts = {8, 16}
    p1 = p1
    p2 = p2
    p3 = p3
    Pt = {p1, p2, p3}
    Bytes <- MCBytes
    SizeMax = 99
    Budgets = {0, 2, 99}
    MaxArgs = 3
    pool = pool
    x = x
    y = y
    z = z
    q0 = q0
    q1 = q1
    q2 = q2
    b1 = b1
    c1 = c1
    c2 = c2
    k1 = k1
    k2 = k2
    Stream = {pool, x, y, z}
    Pool = pool
    Queue = {q0, q1, q2}
    QueueOf <- MCQueueOf
    Slab = {b1}
    Slices <- MCSlices
    NoOne = NoOne
    Op = {k1, k2}
INVARIANTS
    SlotsRight
    TransformsRight
    KeysListed
    RegistryExact
    HeldAlive
    TenantsOrdered
    NoDangling
    ChunksAccounted
PROPERTIES
    Terminates
    EvictionExact
CHECK_DEADLOCK FALSE
