\* Two requests at a time, two locations, lots, and an order of two units.
SPECIFICATION InventorySpec
CONSTANTS
    Clerks = {x1, x2}
    Locations = {A, B}
    Receiving = A
    Lots = {l1}
    NoLot = NoLot
    Blank = Blank
    NoTx = NoTx
    Quantities = {1}
    Ordered = 2
    MaxMoves = 4
SYMMETRY Symmetric
INVARIANTS ReceiptsMatchOrder LedgerSumsToBalance ReversedOnce
CHECK_DEADLOCK FALSE
