SPECIFICATION Spec
CONSTANTS
  Calls = {c1, c2}
  Scopes = {s1, s2}
  Nodes <- MCNodes
  Answers <- MCAnswers
  FailureLatencies = {1}
  MaxRuns = 2
  MaxCacheBytes = 7
  MaxDatasetBytes = 2
  MinCases = 1
  ERROR = ERROR
  Nothing = Nothing
SYMMETRY Symmetry
INVARIANTS
    DatasetIsSafe
    RunsAreHonest
    CacheIsSound
PROPERTIES
    CreatesAreKept
