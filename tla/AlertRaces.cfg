SPECIFICATION Spec
CONSTANTS
    alice = alice
    bob = bob
    r1 = r1
    r2 = r2
    r3 = r3
    a1 = a1
    a2 = a2
    b1 = b1
    Users = {alice, bob}
    Symbols <- MCSymbols
    Canonical <- MCCanonical
    Blank = ""
    MaxAlerts = 3
    Opening <- MCOpening
    Never = Never
    Requests = {r1, r2, r3}
    Jobs <- RaceJobs
    Connections = 2
INVARIANTS
    ActiveAlertsAreBounded
    TriggeredAlertsWereReached
    ReturnedAlertsAreTriggered
    AnnouncementsAreBounded
PROPERTIES
    DeletedAlertsStayDeleted
    AlertsFireOnce
