\* Two requests, a new authorization and a revocation.
SPECIFICATION AuthSpec
CONSTANTS
    r1 = r1
    r2 = r2
    st = st
    co = co
    rv = rv
    s1 = s1
    Call = {r1, r2, st, co, rv}
    Kind <- Kinds
    State = {s1}
    StateOf <- StateOfCall
    NoState = NoState
    Rotates = TRUE
    MaxExpiries = 1
    MaxLosses = 1
INVARIANTS
    AuthTypeOK
    AuthorizationKept
    BackOnlyFromUnderway
SYMMETRY Symmetry
CHECK_DEADLOCK FALSE
