\* Requests in eight units with seven targets, records in six units, grade anchors,
\* masses per unit and process parameters.
CONSTANTS
    Activity <- MCActivity
    Impact <- MCImpact
    Requests <- MCRequests
    Sources <- MCSources
    Anchors <- MCAnchors
    Flows <- MCFlows
    Parameters <- MCParameters
    NoEvidence = NoEvidence
    NoValue = NoValue
    NoUnit = NoUnit
    NoGrade = NoGrade
    NoSeries = NoSeries
    NoCandidate = NoCandidate
    NoParameters = NoParameters
SPECIFICATION Spec
INVARIANTS
    UnitDefectsStopCandidates
    TotalIsPhysical
    UnitsAreNotConfused
    TotalsAgree
    GradesAreSound
PROPERTIES
    AdjustmentIsTheDifference
CHECK_DEADLOCK FALSE
