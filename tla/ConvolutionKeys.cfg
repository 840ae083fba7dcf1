SPECIFICATION RotationsSpec
CONSTANTS
    LogSlots = 4
    MaxBStep = 0
    InitSizes = {}
    RowSizes = {1}
    BSteps = {1}
    Strides = {1}
    Offsets = {0}
    GSteps = {2}
    TapLists <- MCTaps
    SlotCounts = {16}
INVARIANT ConvolutionKeysListed
CHECK_DEADLOCK FALSE
