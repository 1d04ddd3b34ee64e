CONSTANTS
    NUM_RX_DESC = 4
    Modulus = 8
    Budget = 2
    ResetFails = FALSE
SPECIFICATION FairSpec
INVARIANTS BufferBehindOwn InStep OnlyFramesRead
PROPERTIES ReadInOrder FramesRead
