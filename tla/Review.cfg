\* Four racing calls on one request with two formal candidates, or three calls with every
\* content and approval mode.
CONSTANTS
    c1 = c1
    c2 = c2
    r1 = r1
    v1 = v1
    v2 = v2
    Requests = {r1}
    Candidates = {c1, c2}
    Reviewers = {v1, v2}
    Calls = {1, 2, 3, 4}
    Contents <- MCContents
    NoContent = NoContent
    Operations <- MCOperations
    NoOperation = NoOperation
    MaxAttempts = 2
SPECIFICATION MCSpec
INVARIANTS
    TypeOK
    AtMostOneApproved
    DecisionsMatchTrace
    LockSealsApproval
    CallsEndRightly
    GatesAgree
PROPERTIES
    HistoryIsImmutable
    ImplementsReview
    EveryCallEnds
CHECK_DEADLOCK FALSE
