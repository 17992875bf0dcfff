SPECIFICATION FairSpec
CONSTANTS
    Prices <- MCPrices
    MaxRounds = 3
    Floor <- MCFloor
    Ceiling <- MCCeiling
    Exposure <- MCExposure
    NoOffer = NoOffer
    Nobody = Nobody
    Stale = Stale
    MaxTurns = 7
    MayFailLookup = TRUE
    MayExpire = TRUE
PROPERTIES OutcomeSpec EngineStops
CHECK_DEADLOCK FALSE
