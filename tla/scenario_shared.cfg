SPECIFICATION Spec
CONSTANTS
    Scenarios <- MCScenarios
    Machine <- MCMachine
    Catalogue <- MCCatalogue
    Seed <- MCSeed
    StoreLimit = 1
    Thread = {"t1", "t2"}
    Calls <- SharedCalls
    Reference = {r1, r2, r3, r4, r5}
    MaxSessions = 1
INVARIANTS TypeOK ReachableOnly SessionsBounded SessionsIsolated FiledUnderOwnId
PROPERTIES OnlyLegalCallsAct
