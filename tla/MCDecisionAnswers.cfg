SPECIFICATION FairSpec
CONSTANTS
    Calls = {c1, c2}
    Providers = {"mock", "laya"}
    Namespaces = {ns1, ns2}
    NoNamespace = NoNamespace
    NoAsk = NoAsk
    ns1 = ns1
    ns2 = ns2
    Asks <- MCFewAsks
    PermissionSets <- MCPermissions
PROPERTIES
    Answered
    FailureIsReplaced
