SPECIFICATION Spec
CONSTANTS
    Thread = {t1, t2}
    Namespace = {n1}
    Id = {i1, i2}
    Value = {v1}
    Limit = 2
    WordSize = 8
    Ops = {"create"}
INVARIANT EveryEntryListed
