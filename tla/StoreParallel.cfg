\* Two threads, a URI whose responses vary on one field or on another, so that
\* two key lists of equal values can mean different fields.
CONSTANTS
    h1 = h1
    h2 = h2
    v1 = v1
    v2 = v2
    t1 = t1
    t2 = t2
    None = None
    Primary = {p1}
    Header = {h1, h2}
    Value = {v1, v2}
    VaryLists <- VaryTwo
    Tasks = {t1, t2}
    Workers = {t1, t2}
    WorkerOf <- Parallel
    MaxResponses = 2
SPECIFICATION Spec
INVARIANTS
    IInv
    HeldMatches
    RefreshClaims
    RetiredUnlessStraddled

    
SYMMETRY StoreSymmetry
