SPECIFICATION Spec
CONSTANTS
    alice = alice
    bob = bob
    carol = carol
    r1 = r1
    r2 = r2
    r3 = r3
    s1 = s1
    s2 = s2
    s3 = s3
    s4 = s4
    s5 = s5
    s6 = s6
    s7 = s7
    Users = {alice, bob, carol}
    Symbols = {s1, s2, s3, s4, s5, s6, s7}
    Registered = {alice, bob}
    Pro = {bob}
    MaxHoldings = 5
    FreeTrades = 6
    OpenPortfolios <- MCPortfolios
    OpenTrades <- MCTrades
    NoRow = NoRow
    Requests = {r1, r2}
    Jobs <- CreateOnly
    Connections = 2
    OpenHoldings <- MCHoldings
INVARIANT
    OnePortfolioPerUser
