SPECIFICATION Spec
CONSTANTS
    Thread = {t1, t2}
    Namespace = {n1}
    Id = {i1, i2, i3}
    Value = {v1, v2}
    Limit = 2
    WordSize = 8
    Ops = {"create", "update", "delete", "list"}
SYMMETRY Symmetry
INVARIANTS
    CountAccounting
    CapacityRespected
PROPERTIES
    Linearizable
