SPECIFICATION ClientSpec
CONSTANTS
    buyer = buyer
    seller = seller
    platform = platform
    Accounts = {buyer, seller, platform}
    Holders = {buyer, seller}
    Creator = platform
    App = App
    NoAccount = NoAccount
    Amounts <- MCAmounts
    Supply = 1
    Agreements <- MCAgreements
    Jobs = {1, 2}
    None = None
INVARIANTS Backed ReturnedIsDone
PROPERTY PromiseSpec
CHECK_DEADLOCK FALSE
