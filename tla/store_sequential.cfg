SPECIFICATION Spec
CONSTANTS
    Thread = {t1}
    Namespace = {n1, n2}
    Id = {i1, i2}
    Value = {v1, v2}
    Limit = 3
    WordSize = 8
    Ops = {"create", "read", "update", "delete", "list", "clear"}
PROPERTY ImplementsSequentialStore
