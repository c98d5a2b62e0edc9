\* One thread: a 304 that arrives after an invalidation, or a response with
\* another Vary list.
CONSTANTS
    h1 = h1
    h2 = h2
    v1 = v1
    v2 = v2
    t1 = t1
    t2 = t2
    None = None
    Primary = {p1}
    Header = {h1}
    Value = {v1, v2}
    VaryLists <- VaryOne
    Tasks = {t1, t2}
    Workers = {t1}
    WorkerOf <- OneThread
    MaxResponses = 3
SPECIFICATION Spec
INVARIANTS
    SupersededLeftAlone
SYMMETRY StoreSymmetry
