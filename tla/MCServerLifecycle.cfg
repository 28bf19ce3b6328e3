SPECIFICATION FairSpec
CONSTANTS
    Clients = {c1, c2}
    MaxFaults = 2
INVARIANTS
    Reachable
PROPERTIES
    LegacyIsHarmless
    StopBreaksNothing
    Recovers
    Stops
