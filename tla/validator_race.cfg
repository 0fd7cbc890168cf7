SPECIFICATION Spec
CONSTANTS
    Thread = {"t1", "t2"}
    Schema <- Schemas
    Asks <- RacingAsks
    Broken = {"d"}
    Hash <- DistinctHash
    MaxEntries = 1
INVARIANT LoserReadsWinner
