SPECIFICATION Spec
CONSTANTS
    Scenarios <- MCScenarios
    Machine <- MCMachine
    Catalogue <- MCCatalogue
    Seed <- NoSeed
    StoreLimit = 2
    Thread = {"t1", "t2"}
    Calls <- RacingCalls
    Reference = {r1, r2, r3, r4, r5, r6}
    MaxSessions = 2
INVARIANT OneRunPerSession
