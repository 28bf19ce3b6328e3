---------------------------- MODULE MCTransaction ----------------------------
(***************************************************************************)
(* A small instance of Transaction: three kinds (a core one, another       *)
(* version of it under a second core group, and a cluster-scoped one), two *)
(* namespaces, and requests that meet every branch of the two passes.      *)
(***************************************************************************)
EXTENDS Transaction, TLC

CONSTANTS
    configmap, event, role,             \* kinds
    core, events, rbac,                 \* groups
    configmaps, eventsResource, roles,  \* resources
    u, ns1, ns2, n1, n2

MCKinds == {configmap, event, role}
MCGroups == {core, events, rbac}
MCResources == {configmaps, eventsResource, roles}
MCCoreGroups == {core, events}

MCMapping ==
    configmap :> [group |-> core, resource |-> configmaps, namespaced |-> TRUE] @@
    event :> [group |-> events, resource |-> eventsResource, namespaced |-> TRUE] @@
    role :> [group |-> rbac, resource |-> roles, namespaced |-> FALSE]

E_(k, ns, n) == [kind |-> k, ns |-> ns, name |-> n]

Request(pathNs, metaNs, metaName, create, update, delete) ==
    [user |-> u, pathNs |-> pathNs, metaNs |-> metaNs,
     metaName |-> metaName, pathName |-> NoName,
     create |-> create, update |-> update, delete |-> delete]

\* Two namespaces under one name of the transaction.
TwoNamespaces ==
    Request(ns1, NoNamespace, n1,
        <<E_(configmap, NoNamespace, n1), E_(configmap, ns2, n1)>>, <<>>, <<>>)

\* The same object created twice, updated and deleted.
Duplicates ==
    Request(ns1, ns1, n1,
        <<E_(configmap, NoNamespace, n1), E_(configmap, ns1, n1)>>,
        <<>>, <<E_(configmap, ns1, n1)>>)

\* No name and no namespace: the delete is accepted, its key has no namespace.
Bare ==
    Request(NoNamespace, NoNamespace, NoName,
        <<>>, <<E_(role, ns1, n1)>>, <<E_(configmap, NoNamespace, n1)>>)

\* A nameless create; the name of the transaction comes from the path.
Generated ==
    [Request(NoNamespace, ns1, NoName,
        <<E_(event, NoNamespace, NoName), E_(event, NoNamespace, NoName)>>, <<>>, <<>>)
     EXCEPT !.pathName = n1]

\* What either pass refuses.
Mismatch == Request(ns1, ns2, n1, <<E_(configmap, ns1, n1)>>, <<>>, <<>>)
NoKind == Request(ns1, ns1, n1, <<>>, <<>>, <<E_(Malformed, ns1, n1)>>)
NoVersion == Request(ns1, ns1, n2, <<E_(Unversioned, ns1, n1)>>, <<>>, <<>>)
Empty == Request(ns1, ns1, n1, <<>>, <<>>, <<>>)
NoScope == Request(NoNamespace, NoNamespace, n1, <<E_(configmap, NoNamespace, n1)>>, <<>>, <<>>)
NoObject == Request(ns1, ns1, n1, <<>>, <<E_(configmap, ns1, NoName)>>, <<E_(role, ns1, NoName)>>)

AllBodies == {TwoNamespaces, Duplicates, Bare, Generated, Mismatch, NoKind,
              NoVersion, Empty, NoScope, NoObject}

\* Short requests that meet at the commit: two under one name, one unnamed.
Single == Request(ns1, ns1, n1, <<>>, <<>>, <<E_(role, ns1, n1)>>)
Pair == Request(ns1, NoNamespace, n1, <<E_(role, ns1, n1)>>, <<>>, <<E_(configmap, ns1, n1)>>)
Unnamed == Request(ns1, ns1, NoName, <<>>, <<>>, <<E_(role, ns1, n2)>>)

CommitBodies == {Single, Pair, Unnamed}
CacheBodies == {TwoNamespaces, Pair}

All == [group : MCGroups, resource : MCResources, verb : Operations, ns : AnyNamespace]

Everything == {u} \X All
OnlyFirstNamespace == {<<u, a>> : a \in {a \in All : a.ns # ns2}}

MCPermissions == {Everything, OnlyFirstNamespace}
FixedPermissions == {Everything}

MCDiscovery == {{configmap, event, role}, {configmap}}
FixedDiscovery == {{configmap, role}}

=============================================================================
