\* What a replay answers after a cancelled /resolve and a /debug/resolve.
CONSTANTS
    Scopes = {A, B}
    PublicScope = public
    Ids = {i1}
    Inputs = {x1, x2}
    Calls = {k1, k2, k3}
    Routes = {"resolve", "debug"}
    Interruptible = TRUE
    NoScope = NoScope
    NoInput = NoInput
    NoRun = NoRun
SPECIFICATION Spec
INVARIANTS
    ReplaysOwnInput
CHECK_DEADLOCK FALSE
