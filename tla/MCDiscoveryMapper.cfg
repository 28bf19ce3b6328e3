SPECIFICATION FairSpec
CONSTANTS
    Callers = {c1, c2}
    Nobody = Nobody
    NoKind = NoKind
    core = core
    custom = custom
    Kinds <- MCKinds
    DiscoverySets <- MCDiscovery
    MaxChanges = 2
    MaxErrors = 1
INVARIANTS
    MissIsTrue
PROPERTIES
    LookupsEnd
