\* Four connectors in order; files, fetchers, resolvers and transports answer anything.
CONSTANTS
    Connectors <- MCConnectors
    Intent <- MCIntent
    Files <- MCFiles
    Answers <- MCAnswers
    Envelopes <- MCEnvelopes
    Listings <- MCListings
    Documents <- MCDocuments
    Resolutions <- MCResolutions
    PublicAddresses <- MCPublicAddresses
    BaseUrl <- MCBaseUrl
    AllowedHosts <- MCAllowedHosts
    Limits <- MCLimits
    Missing = Missing
    Pending = Pending
    NoRef = NoRef
    NoUrl = NoUrl
    NoDigest = NoDigest
    NoId = NoId
    NoRequest = NoRequest
SPECIFICATION FairSpec
INVARIANTS
    RequestsStayOnRoute
    EvidenceIsPinned
    FailuresStayLocal
PROPERTIES
    EveryDiscoveryEnds
CHECK_DEADLOCK FALSE
