SPECIFICATION MakerSpec
CONSTANTS
    Calls = {c1, c2}
    Providers = {"mock", "laya"}
    Namespaces = {ns1, ns2}
    NoNamespace = NoNamespace
    NoAsk = NoAsk
    ns1 = ns1
    ns2 = ns2
    Asks <- MCAsks
    PermissionSets <- MCPermissions
INVARIANTS
    AskedIsAccepted
    FailureIsExplained
    WorksOnModel
PROPERTIES
    Stops
