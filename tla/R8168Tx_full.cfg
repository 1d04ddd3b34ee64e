CONSTANTS
    NUM_TX_DESC = 5
    MAX_SKB_FRAGS = 2
    Modulus = 10
    NrFrags = {0, 1, 2}
    Padding = TRUE
    Overtake = FALSE
    MaxHeld = 6
SPECIFICATION Spec
INVARIANT AwakeHasRoom
