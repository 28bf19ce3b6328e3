SPECIFICATION FairSpec
CONSTANTS
    Calls = {c1, c2}
    NoAsk = NoAsk
    Core = Core
    Versions = {v1}
    NoVersion = NoVersion
    Blank = Blank
    NoValue = NoValue
    Selectors = {small}
    NoNamespace = NoNamespace
    Namespaces = {ns1, ns2}
    events = events
    acme = acme
    corp = corp
    v1 = v1
    Event = Event
    Widget = Widget
    eventsResource = eventsResource
    widgets = widgets
    small = small
    ns1 = ns1
    ns2 = ns2
    n1 = n1
    n2 = n2
    Kinds <- MCKinds
    Groups <- MCGroups
    Resources <- MCResources
    CoreGroups <- MCCoreGroups
    Mapping <- MCMapping
    Asks <- MCAsks
    Selected <- MCSelected
    Objects <- MCObjects
    ObjectSets <- MCObjectSets
    PermissionSets <- MCPermissions
    DiscoverySets <- MCDiscovery
INVARIANTS
    CountsWhatIsMeant
    CountsWhatIsReviewed
PROPERTIES
    Answered
