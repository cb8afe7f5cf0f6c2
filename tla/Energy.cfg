SPECIFICATION Spec
CONSTANTS
  Builders = {b1, b2}
  Readers = {r1}
  MaxBuilds = 2
  NoCell = NoCell
  NoSearch = NoSearch
  Casefold <- MCCasefold
  Inputs <- MCInputs
  Searches <- MCSearches
SYMMETRY BuilderSymmetry
INVARIANTS
    ReadsAreSound
    BuildsRecover
    EvidenceIsCoherent
PROPERTIES
    CommittedIsFinal
