\* Two calls that may overlap, four VAAs, one fault.
SPECIFICATION FairSpec
CONSTANTS
    Calls = {1, 2}
    Digits = 2
    Vaas <- MCVaas
    MaxFaults = 1
INVARIANT ReturnMeansRedeemed
PROPERTIES ThrowsForAReason RedeemedAtLast
CHECK_DEADLOCK FALSE
