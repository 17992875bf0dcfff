SPECIFICATION Spec
CONSTANTS
    c1 = c1
    c2 = c2
    Clients = {c1, c2}
    Free = Free
    Missing = Missing
    NoOffer = NoOffer
    Nobody = Nobody
    MaxRounds = 3
    Prices <- FairPrices
    Floor <- MCFloor
    Ceiling <- MCCeiling
    Exposure <- MCExposure
    Requests <- CurrentRound
    Keys <- NoKeys
    MaxOffers = 5
    MaxFails = 2
    MaxFaults = 0
    MayAbort = FALSE
    MayExpire = TRUE
SYMMETRY Symmetric
INVARIANTS LockHeld StoresAgree  DealOnTable
CHECK_DEADLOCK FALSE
