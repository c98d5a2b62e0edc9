\* Four requests over two keys: a leader, a follower of it, the leader that
\* takes the key over while the first guard is still dropping, and its follower.
CONSTANTS
    Keys = {k1, k2}
    Requests = {r1, r2, r3, r4}
    NoFlight = NoFlight
    NoKey = NoKey
SPECIFICATION Spec
INVARIANTS
    IInv
    OneLeader
    FinishedNotFound
PROPERTIES
    OnlyOwnFlightEnds
    FollowersReleased
CHECK_DEADLOCK FALSE
