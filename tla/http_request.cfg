SPECIFICATION RequestsSpec
CONSTANTS
    Families <- MCFamilies
    Services <- MCServices
    Messages <- MCMessages
    DepthLimit = 3
    RpcCalls <- MCCalls
    Texts <- MCTexts
    MessageCases <- MCMessageCases
    FakerLimits <- MCFakerLimits
INVARIANTS TypeOK RouteExact Gated MockFaithful RpcAnswered MessageRouted BodiesUsable
