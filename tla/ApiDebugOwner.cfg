\* A stored run and its owner when /debug/resolve races /resolve.
CONSTANTS
    Scopes = {A, B}
    PublicScope = public
    Ids = {i1}
    Inputs = {x1, x2}
    Calls = {k1, k2, k3}
    Routes = {"resolve", "debug"}
    Interruptible = FALSE
    NoScope = NoScope
    NoInput = NoInput
    NoRun = NoRun
SPECIFICATION Spec
INVARIANTS
    RunsStayReachable
CHECK_DEADLOCK FALSE
