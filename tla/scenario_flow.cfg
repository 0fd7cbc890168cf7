SPECIFICATION FlowSpec
CONSTANTS
    Scenarios <- MCScenarios
    Machine <- MCMachine
    Catalogue <- MCCatalogue
    Seed <- MCSeed
    StoreLimit = 3
    Thread = {"t1", "t2"}
    Calls <- FlowCalls
    Reference = {r1, r2, r3, r4, r5, r6, r7, r8}
    MaxSessions = 2
PROPERTY ImplementsFlow
