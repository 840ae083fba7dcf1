SPECIFICATION PeerSpec
CONSTANTS
    Ciphertext = {x}
    Plaintext = {p}
    Writer = Writer
    dnum = 2
    MaxPending = 2
    GPU = {0, 1}
    Transports = {"MEMCPY_PEER", "PEER_ACCESS"}
    Stream <- MCStream
INVARIANT NoRace
CHECK_DEADLOCK FALSE
