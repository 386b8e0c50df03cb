SPECIFICATION FairSpec
CONSTANTS
    alice = alice
    bob = bob
    r1 = r1
    r2 = r2
    r3 = r3
    p1 = p1
    p2 = p2
    p3 = p3
    p4 = p4
    e1 = e1
    e2 = e2
    e3 = e3
    e4 = e4
    main = main
    ghost = ghost
    Symbols <- MCSymbols
    Canonical <- MCCanonical
    Owner <- MCOwner
    Opening <- MCOpening
    Opened = 0
    NoRow = NoRow
    NoWrite = NoWrite
    SubTicks = 4
    Requests = {r1, r2}
    Orders <- RefusalOrders
    Edits <- RefusalEdits
    Quotes = {0, 1, 8}
    MaxInt = 7
PROPERTIES
    EveryRequestEnds
    JournalSpec
