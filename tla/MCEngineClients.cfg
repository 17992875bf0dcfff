SPECIFICATION FairSharedSpec
CONSTANTS
    c1 = c1
    c2 = c2
    Clients = {c1, c2}
    Runner = c1
    Free = Free
    Missing = Missing
    NoOffer = NoOffer
    Nobody = Nobody
    Stale = Stale
    MaxRounds = 3
    Prices <- MCPrices
    Floor <- MCFloor
    Ceiling <- MCCeiling
    Exposure <- MCExposure
    Requests <- Sensible
    Keys <- NoKeys
    MaxTurns = 2
    MaxOffers = 3
    MaxFails = 2
    MaxFaults = 0
    MayAbort = FALSE
    MayExpire = TRUE
INVARIANTS EscrowMeansDeal 
PROPERTY EngineReturns
CHECK_DEADLOCK FALSE
