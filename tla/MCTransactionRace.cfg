SPECIFICATION Spec
CONSTANTS
    Requests = {r1, r2}
    Users = {u}
    Names = {n1, n2}
    NoName = NoName
    Malformed = Malformed
    Unversioned = Unversioned
    NoBody = NoBody
    NoNamespace = NoNamespace
    Namespaces = {ns1, ns2}
    configmap = configmap
    event = event
    role = role
    core = core
    events = events
    rbac = rbac
    configmaps = configmaps
    eventsResource = eventsResource
    roles = roles
    u = u
    ns1 = ns1
    ns2 = ns2
    n1 = n1
    n2 = n2
    Kinds <- MCKinds
    Groups <- MCGroups
    Resources <- MCResources
    CoreGroups <- MCCoreGroups
    Mapping <- MCMapping
    Bodies <- CommitBodies
    PermissionSets <- FixedPermissions
    DiscoverySets <- FixedDiscovery
    MaxClock = 1
    MaxCrashes = 1
INVARIANTS
    AckedIsStored
    RefusedNeverStored
    FailedMeansTaken
PROPERTIES
    StoreOnce
    ImplementsLog
CHECK_DEADLOCK FALSE
