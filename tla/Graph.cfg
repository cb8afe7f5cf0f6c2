\* Both families of requests and records, every external answer.
CONSTANTS
    Requests <- MCRequests
    LocalRecords <- MCLocal
    ExternalRecords <- MCExternal
    ProxyRecords <- MCProxies
    SeriesRecords <- StrategySeries
    Scenarios = {1, 2}
    TopK = 2
    MaxRecall = 3
    NoPlace = NoPlace
SPECIFICATION MCSpec
INVARIANTS
    SelectableIsClean
    ResultIsConsistent
    OriginsStayApart
PROPERTIES
    MissingMassIsAsked
    EveryResolutionEnds
CHECK_DEADLOCK FALSE
