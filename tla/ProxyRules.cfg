\* Two requests of every kind and every answer, until all stale windows are past.
CONSTANTS
    None = None
    NoFlight = NoFlight
    NoKey = NoKey
    Keys = {k1}
    Requests = {r1, r2}
    Kinds <- AllKinds
    Heads <- AllHeads
    CacheTtl = 2
    MaxTime = 3
SPECIFICATION Spec
INVARIANTS
    IInv
    NothingPrivateServed
PROPERTIES
    ServedByTheRules
SYMMETRY Alike
CHECK_DEADLOCK FALSE
