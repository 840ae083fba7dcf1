SPECIFICATION ConvolutionSpec
CONSTANTS
    Ciphertext = {x}
    Plaintext = {p, q}
    Writer = Writer
    dnum = 1
    MaxPending = 2
    Stream <- MCStream
INVARIANT NoRace
CHECK_DEADLOCK FALSE
