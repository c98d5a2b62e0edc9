\* Three requests for one URI: a leader that stores a response or may not, its
\* followers, and those that find the response stale a tick later.
CONSTANTS
    None = None
    NoFlight = NoFlight
    NoKey = NoKey
    Keys = {k1}
    Requests = {r1, r2, r3}
    Kinds <- CoalescingKinds
    Heads <- CoalescingHeads
    CacheTtl = 2
    MaxTime = 1
SPECIFICATION Spec
INVARIANTS
    OutcomeKnown
    LeadsForAReason
    MissesCollapse
    OneRefreshPerKey
PROPERTIES
    OnlyItsClientDelays
CHECK_DEADLOCK FALSE
