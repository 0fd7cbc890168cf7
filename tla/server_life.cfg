SPECIFICATION ModeSpec
CONSTANTS
    Proto = TRUE
    Asyncapi = TRUE
    Request = {"r", "c1", "c2"}
    Conn = {"c1", "c2"}
    Scenario <- MCScenario
    Names <- MCNames
    MaxSessions = 1
    MaxMessages = 2
    Ports = {1, 2, 3}
    Configs <- MCConfigs
INVARIANTS TypeOK Released NoLeak ReadyIsOurs ChildAsConfigured
PROPERTIES OwnSession ShutdownReturns DropReleases StartReturns NothingLeft
CHECK_DEADLOCK FALSE
