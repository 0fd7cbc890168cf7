SPECIFICATION LoadingSpec
CONSTANTS
    Documents <- MCDocuments
    Tree <- MCTree
    Lookup <- MCLookup
    MaxDepth = 7
    MaxCalls = 2
    Contracts <- MCContracts
    Normalized <- NormalizedSchema
    TextOfSegment <- MCTextOfSegment
INVARIANTS TypeOK VerdictExact DeadExact ResolvedAsWritten LoadedAsDeclared JudgedAsDeclared
PROPERTY Ends
