SPECIFICATION PeerSpec
CONSTANTS
    Ciphertext = {x, y}
    Plaintext = {p}
    Writer = Writer
    dnum = 2
    MaxPending = 2
    GPU = {0, 1}
    Transports = {"NCCL"}
    Stream <- MCStream
SYMMETRY Symmetry
INVARIANTS NoRace PartsCovered
CHECK_DEADLOCK FALSE
