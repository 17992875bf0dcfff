SPECIFICATION Spec
CONSTANTS
    c1 = c1
    Clients = {c1}
    Free = Free
    Missing = Missing
    NoOffer = NoOffer
    Nobody = Nobody
    MaxRounds = 4
    Prices <- SeqPrices
    Floor <- MCFloor
    Ceiling <- MCCeiling
    Exposure <- MCExposure
    Requests <- AnyRequest
    Keys <- NoKeys
    MaxOffers = 5
    MaxFails = 3
    MaxFaults = 0
    MayAbort = FALSE
    MayExpire = TRUE
INVARIANT RebuildFaithful
PROPERTY FsmSpec
CHECK_DEADLOCK FALSE
