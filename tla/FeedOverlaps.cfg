SPECIFICATION FairSpec
CONSTANTS
    w1 = w1
    w2 = w2
    Workers = {w1, w2}
    Watchlist <- MCWatchlist
    Trend <- MCTrend
    Nothing = Nothing
    Pending = Pending
    Tasks = {1, 2}
    MaxMoment = 1
    MaxLosses = 1
INVARIANTS
    AnalysisIsOfOneRun
    ListedSymbolsAreStored
PROPERTIES
    EveryUpdateEnds
    AnalysisGoesBackInOverlaps
    DataGoesBackInOverlaps
