CONSTANTS
    Items <- MCItems
    Policies <- MCPolicies
    Frames <- MCFrames
    AddrSizes = {1, 2}
    Noise = {0, 16, 104}
    Flips = {1, 128}
    ReadSizes = {1, 5, 64}
SPECIFICATION Spec
INVARIANTS TypeOK HandedOnAsSent  NoiseCostsNoFrame
CHECK_DEADLOCK FALSE
