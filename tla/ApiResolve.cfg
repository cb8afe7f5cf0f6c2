\* The administration app: four /resolve submissions of two inputs by two scopes, or three
\* by /resolve and /debug/resolve, cancelled anywhere.  No symmetry: EverySubmissionEnds
\* is temporal.
CONSTANTS
    Scopes = {A, B}
    PublicScope = public
    Ids = {i1}
    Inputs = {x1, x2}
    Calls = {k1, k2, k3, k4}
    Routes = {"resolve", "debug"}
    Interruptible = TRUE
    NoScope = NoScope
    NoInput = NoInput
    NoRun = NoRun
SPECIFICATION AppSpec
INVARIANTS
    SubmissionsAreIdempotent
    OwnershipIsSound
PROPERTIES
    EverySubmissionEnds
CHECK_DEADLOCK FALSE
