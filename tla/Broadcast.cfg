SPECIFICATION SumsSpec
CONSTANTS
    LogSlots = 4
    MaxBStep = 9
    InitSizes = {1, 2, 4, 8, 16}
INVARIANT BroadcastRight
CHECK_DEADLOCK FALSE
