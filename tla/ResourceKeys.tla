---------------------------- MODULE ResourceKeys ----------------------------
(***************************************************************************)
(* The storage keys of the API extension server: the key of a Kubernetes   *)
(* object (internal/apiserver/helper.go, etcdKeyForGroupVersionKind, with  *)
(* the name appended by its callers) and the key under which a transaction *)
(* is handed to the backend (transaction.go, transactionStorageKey).       *)
(*                                                                         *)
(* A key is the sequence of its path segments.  The segment "registry"     *)
(* common to all object keys and the prefix "harikube/transaction" common  *)
(* to all transaction keys are left out; a segment contains no slash.      *)
(***************************************************************************)
EXTENDS Sequences, Integers, FiniteSets

CONSTANTS
    Kinds,        \* group-version-kinds a client can name
    Groups,       \* API groups
    Resources,    \* plural resource names
    CoreGroups,   \* the core-groups option: groups stored without a group segment
    Mapping,      \* what discovery answers for a kind: [group, resource, namespaced]
    Namespaces,
    NoNamespace   \* the empty namespace string

\* A group is never spelled like a resource, and the scope of a resource is
\* one: kinds that share group and resource are versions of one another.
ASSUME KeysAssumption ==
    /\ CoreGroups \subseteq Groups
    /\ Groups \cap Resources = {}
    /\ Mapping \in [Kinds -> [group : Groups, resource : Resources, namespaced : BOOLEAN]]
    /\ NoNamespace \notin Namespaces
    /\ \A k, l \in Kinds :
          /\ Mapping[k].resource = Mapping[l].resource
          /\ \/ Mapping[k].group = Mapping[l].group
             \/ {Mapping[k].group, Mapping[l].group} \subseteq CoreGroups
          => Mapping[k].namespaced = Mapping[l].namespaced

AnyNamespace == Namespaces \cup {NoNamespace}

\* A cluster-scoped resource has no namespace, whatever the request says.
ScopedNamespace(k, ns) == IF Mapping[k].namespaced THEN ns ELSE NoNamespace

GroupSegment(k) ==
    IF Mapping[k].group \in CoreGroups THEN <<>> ELSE <<Mapping[k].group>>

NamespaceSegment(k, ns) ==
    IF ScopedNamespace(k, ns) = NoNamespace THEN <<>> ELSE <<ns>>

EtcdKey(k, ns) == GroupSegment(k) \o <<Mapping[k].resource>> \o NamespaceSegment(k, ns)

ObjectKey(k, ns, name) == EtcdKey(k, ns) \o <<name>>

TransactionStorageKey(ns, name) == <<ns, name>>

\* A range read with this prefix covers the key.  The prefix ends in a slash, so
\* it is made of whole segments and the key has one more.
Below(prefix, key) ==
    /\ Len(prefix) < Len(key)
    /\ \A i \in 1..Len(prefix) : key[i] = prefix[i]

\* The two kinds are versions of one resource, or share it through two core groups.
SameResource(k, l) ==
    /\ Mapping[k].resource = Mapping[l].resource
    /\ \/ Mapping[k].group = Mapping[l].group
       \/ {Mapping[k].group, Mapping[l].group} \subseteq CoreGroups
=============================================================================
