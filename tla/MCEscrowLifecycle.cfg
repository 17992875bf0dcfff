SPECIFICATION Spec
CONSTANTS
    c1 = c1
    c2 = c2
    c3 = c3
    Clients = {c1, c2, c3}
    Creator = Creator
    Funder = Funder
    Seller = Seller
    NoAddress = NoAddress
    MaxFaults = 2
SYMMETRY Symmetric
INVARIANTS RowNeverAhead SettledOnce PaidOnce RowAgrees
CHECK_DEADLOCK FALSE
