SPECIFICATION FairSpec
CONSTANTS
    r1 = r1
    r2 = r2
    r3 = r3
    Requests = {r1, r2, r3}
    Jobs <- MCJobs
    Connections = 2
    Threads = 2
    QuoteTimeout = 1
    PoolTimeout = 2
INVARIANTS
    ReadersAnswerInTime
    RefusalsHaveHolders
    OnlyTheProviderHoldsUp
PROPERTIES
    AbandonedFetchesNeverStart
    EveryRequestEnds
