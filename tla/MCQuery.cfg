SPECIFICATION FairSpec
CONSTANTS
    Calls = {c1, c2, c3}
    Namespaces = {ns1, ns2}
    Names = {n1, n2}
    NoName = NoName
    NoRequest = NoRequest
    ns1 = ns1
    ns2 = ns2
    n1 = n1
    n2 = n2
    Requests <- MCFewRequests
    PermissionSets <- MCPermissions
    MaxCrashes = 1
INVARIANTS
    AckedIsStored
    StoredIsReviewed
    RefusedNeverStored
    InOrder
PROPERTIES
    Answered
