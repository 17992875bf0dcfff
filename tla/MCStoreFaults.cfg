SPECIFICATION FairSpec
CONSTANTS
    c1 = c1
    c2 = c2
    Clients = {c1, c2}
    Free = Free
    Missing = Missing
    NoOffer = NoOffer
    Nobody = Nobody
    MaxRounds = 3
    Prices <- GuardPrices
    Floor <- MCFloor
    Ceiling <- MCCeiling
    Exposure <- MCExposure
    Requests <- CurrentRound
    Keys <- SessionKey
    MaxOffers = 3
    MaxFails = 2
    MaxFaults = 1
    MayAbort = TRUE
    MayExpire = FALSE
INVARIANT DealIsFair
PROPERTY EveryRequestReturns
CHECK_DEADLOCK FALSE
