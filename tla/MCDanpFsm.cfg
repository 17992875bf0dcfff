SPECIFICATION Spec
CONSTANTS
    Prices <- MCPrices
    MaxRounds = 5
    Floor <- MCFloor
    Ceiling <- MCCeiling
    Exposure <- MCExposure
    NoOffer = NoOffer
    Nobody = Nobody
    MaxFails = 2
    MaxYields = 3
INVARIANTS AgreedPriceIsFair RecordMatchesOffers RoundBudget Alternation TurnsAgree StalledIsThreeSmallMoves ThreeBlocksEnd
PROPERTIES OutcomeSpec
CHECK_DEADLOCK FALSE
