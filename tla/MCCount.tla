------------------------------- MODULE MCCount -------------------------------
(***************************************************************************)
(* A small instance of Count: events are served by two core groups under   *)
(* one resource; widgets exist in two other groups, once namespaced and    *)
(* once not; both are stored below their group.                            *)
(***************************************************************************)
EXTENDS Count, TLC

CONSTANTS
    events, acme, corp,            \* groups, beside Core
    v1,
    Event, Widget,                 \* kind names
    eventsResource, widgets,       \* resources
    small,                         \* a selector
    ns1, ns2, n1, n2

CoreEvent == [group |-> Core, version |-> v1, name |-> Event]
NewEvent == [group |-> events, version |-> v1, name |-> Event]
AcmeWidget == [group |-> acme, version |-> NoVersion, name |-> Widget]
CorpWidget == [group |-> corp, version |-> v1, name |-> Widget]

MCKinds == {CoreEvent, NewEvent, AcmeWidget, CorpWidget}
MCGroups == {Core, events, acme, corp}
MCResources == {eventsResource, widgets}
MCCoreGroups == {Core, events}

MCMapping ==
    CoreEvent :> [group |-> Core, resource |-> eventsResource, namespaced |-> TRUE] @@
    NewEvent :> [group |-> events, resource |-> eventsResource, namespaced |-> TRUE] @@
    AcmeWidget :> [group |-> acme, resource |-> widgets, namespaced |-> TRUE] @@
    CorpWidget :> [group |-> corp, resource |-> widgets, namespaced |-> FALSE]

O(k, ns, n) == [kind |-> k, ns |-> ns, name |-> n]

MCObjects ==
    {O(CoreEvent, ns1, n1), O(NewEvent, ns1, n2), O(CoreEvent, ns2, n1),
     O(AcmeWidget, ns1, n1), O(AcmeWidget, ns2, n1), O(AcmeWidget, ns2, n2),
     O(CorpWidget, NoNamespace, n1), O(CorpWidget, NoNamespace, n2)}

MCObjectSets == {MCObjects, {o \in MCObjects : o.name = n1}}

MCSelected == small :> {o \in MCObjects : o.name = n2}

APIVersion(parts) == [field |-> "apiVersion", value |-> parts]
KindTerm(k) == [field |-> "kind", value |-> k]
Other(s) == [field |-> "other", value |-> s]

Ask(ns, terms, labels) == [ns |-> ns, terms |-> terms, labels |-> labels]

MCAsks == {
    Ask(ns1, <<APIVersion(<<v1>>), KindTerm(Event)>>, {}),
    Ask(NoNamespace, <<KindTerm(Event), APIVersion(<<events, v1>>), Other(Blank)>>, {small}),
    Ask(ns2, <<KindTerm(Widget), Other(small), APIVersion(<<acme>>)>>, {}),
    Ask(ns1, <<APIVersion(<<acme>>), KindTerm(NoValue), KindTerm(Widget),
               APIVersion(<<corp, v1>>)>>, {}),
    \* refused: no kind, an empty apiVersion
    Ask(ns1, <<APIVersion(<<v1>>), Other(small)>>, {}),
    Ask(ns1, <<APIVersion(<<v1>>), KindTerm(Event), APIVersion(Blank)>>, {}),
    \* no such kind
    Ask(ns1, <<APIVersion(<<corp>>), KindTerm(Event)>>, {})}

All == [group : MCGroups, resource : MCResources, verb : {"list"}, ns : AnyNamespace]
MCPermissions == {All, {a \in All : a.ns = ns1}}

\* Each kind is served at times, and gone at others.
MCDiscovery == SUBSET {CoreEvent, CorpWidget} \cup SUBSET {NewEvent, AcmeWidget}
=============================================================================
