CONSTANTS
    NUM_TX_DESC = 5
    MAX_SKB_FRAGS = 2
    Modulus = 10
    NrFrags = {0, 1}
    Padding = TRUE
    Overtake = FALSE
    MaxHeld = 6
SPECIFICATION FairSpec
CONSTRAINT CrowdedBound
INVARIANTS SkbsExact WholePackets InStep AwakeHasRoom
PROPERTIES SentInOrder  QueueRestarts
