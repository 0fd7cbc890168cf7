SPECIFICATION Spec
CONSTANT Families <- AcceptFamilies
INVARIANT SatisfiableAccepted
