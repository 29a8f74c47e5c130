SPECIFICATION ExchangeSpec
CONSTANTS
    MaxElements = 5
    MaxTexts = 1
    Malformed = Malformed
    VersionLists <- MCVersionLists
    NamespaceSets <- MCNamespaceSets
    DeviceIds <- MCDeviceIds
    InformContents <- MCInformContents
    ApiCalls <- MCApiCalls
    Headers <- MCHeaders
    GoodResponses <- MCGoodResponses
    BadResponses <- MCBadResponses
INVARIANTS
    ExchangeTypeOK
    TreesMirrorDocument
    StacksFollowPath
    HighestCommonVersion
    AcceptedCallIsSent
    OnlyGoodResponsesSettle
    AcceptedInformIsUsable
    DeviceIdsDistinct
    OwnParserReadsBack
PROPERTIES
    TakenHasStructure
CHECK_DEADLOCK FALSE
