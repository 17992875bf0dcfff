SPECIFICATION Spec
CONSTANTS
    None = None
    Children <- MCChildren
    BuyerConfig <- MCBuyerConfig
    SellerConfigs <- MCSellerConfigs
    Openings <- MCOpenings
    MaxRounds = 3
    Exposure = 20000
    Modifiers <- MCModifiers
    MaxFaults = 1
INVARIANTS WinnerIsBest  BlockedForAReason AdviceBounded CircuitIsFinal
CHECK_DEADLOCK FALSE
