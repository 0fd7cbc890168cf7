SPECIFICATION FairSpec
CONSTANTS
    Thread = {"t1", "t2", "t3"}
    Schema <- Schemas
    Asks <- MCAsks
    Broken = {"d"}
    Hash <- CollidingHash
    MaxEntries = 1
INVARIANTS TypeOK CacheBounded RightValidator
PROPERTY CallsDrain
