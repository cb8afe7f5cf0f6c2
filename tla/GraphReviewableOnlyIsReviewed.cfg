CONSTANTS
    Requests <- AdmissionRequests
    LocalRecords <- AdmissionLocal
    ExternalRecords <- NoRecords
    ProxyRecords <- AdmissionProxies
    SeriesRecords <- NoRecords
    Scenarios = {1}
    TopK = 2
    MaxRecall = 2
    NoPlace = NoPlace
SPECIFICATION Spec
INVARIANTS
    ReviewableOnlyIsReviewed
CHECK_DEADLOCK FALSE
