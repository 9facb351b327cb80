\* One request, one crash, one projection that throws, any number of event streams.
CONSTANTS
    Requests = {"r1"}
    MaxCrashes = 1
    MaxFaults = 1
SPECIFICATION Spec
INVARIANTS GraphFollowsOutbox  LiveNodesAreCurrent
\* A request that is over, its proof settled, leaves nothing to do.
CHECK_DEADLOCK FALSE
