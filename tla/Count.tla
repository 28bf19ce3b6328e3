-------------------------------- MODULE Count --------------------------------
(***************************************************************************)
(* The counts endpoint (internal/apiserver/count.go): concurrent           *)
(* ListHandler calls, each of which                                        *)
(*   - reads kind, apiVersion and further selectors from the query,        *)
(*   - maps the kind to its resource through the shared discovery cache,   *)
(*   - has the right to list that resource reviewed, and                   *)
(*   - asks the backend to count the keys below the resource's prefix.     *)
(* Objects, grants and served kinds change meanwhile.  The handler keeps   *)
(* nothing between calls, so a restart of the process is not modelled.     *)
(*                                                                         *)
(* An ask is [ns, terms, labels]; a term of the fieldSelector parameter is *)
(* [field, value] and belongs to the field its text starts with.  A kind   *)
(* is what a client can spell, [group, version, name].  The number the     *)
(* backend answers is represented by the set of objects it counted.        *)
(***************************************************************************)
EXTENDS ResourceKeys

CONSTANTS
    Calls,           \* HTTP calls of the endpoint
    Asks, NoAsk,     \* the queries clients send
    Core,            \* the empty group
    Versions,        \* the apiVersion parts that start with v and a digit
    NoVersion,       \* the empty version: the group's preferred one
    Blank,           \* the empty value
    NoValue,         \* of a term without an equals sign
    Selectors,       \* label and field selectors the backend evaluates
    Selected,        \* the objects a selector selects
    Objects,         \* what can be stored: [kind, ns, name]
    ObjectSets,      \* sets of objects the backend may hold
    PermissionSets,  \* sets of attributes the API server may grant
    DiscoverySets    \* sets of kinds a discovery may find, which may fail

ASSUME CountAssumption ==
    /\ NoAsk \notin Asks
    /\ \A a \in Asks : a.ns \in AnyNamespace
    /\ \A S \in ObjectSets : S \subseteq Objects
    /\ {} \in DiscoverySets /\ \A S \in DiscoverySets : S \subseteq Kinds
    /\ \A o \in Objects :
          /\ o.kind \in Kinds
          /\ o.ns \in AnyNamespace
          /\ Mapping[o.kind].namespaced => o.ns # NoNamespace

VARIABLES
    permitted,    \* what the API server grants
    mapped,       \* the kinds the shared discovery cache knows
    objects,      \* what the backend holds
    pc,           \* where a call is
    ask,          \* what it was asked
    reviewed,     \* history: the attributes reviewed and allowed for the call
    reply,        \* its answer
    counted,      \* the objects the answer counts
    snapshot      \* history: what the backend held when it counted

world == <<permitted, objects>>
vars == <<world, mapped, pc, ask, reviewed, reply, counted, snapshot>>

-----------------------------------------------------------------------------
(* The query and what is derived from it. *)

\* The last term of a field wins, a term without an equals sign says nothing.
ValueOf(terms, field) ==
    LET Says(t) == t.field = field /\ t.value # NoValue
        said == SelectSeq(terms, Says)
    IN  IF said = <<>> THEN Blank ELSE said[Len(said)].value

\* The other terms go to the backend.
FieldSelectors(a) ==
    {a.terms[i].value : i \in {i \in DOMAIN a.terms : a.terms[i].field = "other"}} \ {Blank}

\* One part is a version of the core group, or a group in its preferred version.
GroupVersion(parts) ==
    IF Len(parts) > 1 THEN [group |-> parts[1], version |-> parts[2]]
    ELSE IF parts[1] \in Versions THEN [group |-> Core, version |-> parts[1]]
    ELSE [group |-> parts[1], version |-> NoVersion]

KindOf(a) ==
    LET gv == GroupVersion(ValueOf(a.terms, "apiVersion"))
    IN  [group |-> gv.group, version |-> gv.version, name |-> ValueOf(a.terms, "kind")]

Incomplete(a) == Blank \in {ValueOf(a.terms, "apiVersion"), ValueOf(a.terms, "kind")}

\* The attributes of the review: the namespace is the request's, whatever the scope.
Attributes(a) ==
    LET m == Mapping[KindOf(a)]
    IN  [group |-> m.group, resource |-> m.resource, verb |-> "list", ns |-> a.ns]

\* Mutant: the namespace is forgotten.
PrefixOfAllNamespaces(a) == EtcdKey(KindOf(a), NoNamespace)

Prefix(a) == EtcdKey(KindOf(a), a.ns)

\* Mutant: only the label selector is passed on.
LabelsOnly(a) == a.labels

AllSelectors(a) == a.labels \cup FieldSelectors(a)

\* getResurce: see Transaction.
Views(k) == IF k \in mapped THEN {mapped} ELSE DiscoverySets

-----------------------------------------------------------------------------
Init ==
    /\ permitted \in PermissionSets
    /\ objects \in ObjectSets
    /\ mapped = {}
    /\ pc = [c \in Calls |-> "idle"]
    /\ ask = [c \in Calls |-> NoAsk]
    /\ reviewed = [c \in Calls |-> {}]
    /\ reply = [c \in Calls |-> "none"]
    /\ counted = [c \in Calls |-> {}]
    /\ snapshot = [c \in Calls |-> {}]

Answer(c, answer) ==
    /\ pc' = [pc EXCEPT ![c] = "done"]
    /\ reply' = [reply EXCEPT ![c] = answer]

\* No apiVersion or no kind.
Refuse(c) ==
    /\ pc[c] = "idle"
    /\ \E a \in Asks :
          /\ Incomplete(a)
          /\ ask' = [ask EXCEPT ![c] = a]
    /\ Answer(c, "BadRequest")
    /\ UNCHANGED <<world, mapped, reviewed, counted, snapshot>>

Receive(c) ==
    /\ pc[c] = "idle"
    /\ \E a \in Asks :
          /\ ~ Incomplete(a)
          /\ ask' = [ask EXCEPT ![c] = a]
    /\ pc' = [pc EXCEPT ![c] = "resolve"]
    /\ UNCHANGED <<world, mapped, reviewed, reply, counted, snapshot>>

Resolve(c) ==
    /\ pc[c] = "resolve"
    /\ mapped' \in Views(KindOf(ask[c]))
    /\ KindOf(ask[c]) \in mapped'
    /\ pc' = [pc EXCEPT ![c] = "review"]
    /\ UNCHANGED <<world, ask, reviewed, reply, counted, snapshot>>

\* 500: discovery failed or does not have the kind.
ResolveFails(c) ==
    /\ pc[c] = "resolve"
    /\ mapped' \in Views(KindOf(ask[c]))
    /\ KindOf(ask[c]) \notin mapped'
    /\ Answer(c, "Unmapped")
    /\ UNCHANGED <<world, ask, reviewed, counted, snapshot>>

ReviewAllowed(c) ==
    /\ pc[c] = "review"
    /\ Attributes(ask[c]) \in permitted
    /\ reviewed' = [reviewed EXCEPT ![c] = {Attributes(ask[c])}]
    /\ pc' = [pc EXCEPT ![c] = "count"]
    /\ UNCHANGED <<world, mapped, ask, reply, counted, snapshot>>

ReviewDenied(c) ==
    /\ pc[c] = "review"
    /\ Attributes(ask[c]) \notin permitted
    /\ Answer(c, "Forbidden")
    /\ UNCHANGED <<world, mapped, ask, reviewed, counted, snapshot>>

\* The review fails, or is not answered within ten seconds.
ReviewFails(c) ==
    /\ pc[c] = "review"
    /\ Answer(c, "NotFound")
    /\ UNCHANGED <<world, mapped, ask, reviewed, counted, snapshot>>

\* The backend counts; the rest of the handler only writes the answer.
CountObjects(c) ==
    /\ pc[c] = "count"
    /\ counted' = [counted EXCEPT ![c] =
          {o \in objects : /\ Below(Prefix(ask[c]), ObjectKey(o.kind, o.ns, o.name))
                           /\ \A s \in AllSelectors(ask[c]) : o \in Selected[s]}]
    /\ snapshot' = [snapshot EXCEPT ![c] = objects]
    /\ Answer(c, "OK")
    /\ UNCHANGED <<world, mapped, ask, reviewed>>

\* Mutant: the read is not bound to the context with the ten seconds.
CountNeverFails(c) == FALSE

\* The backend fails, or does not answer within the ten seconds.
CountFails(c) ==
    /\ pc[c] = "count"
    /\ Answer(c, "Failed")
    /\ UNCHANGED <<world, mapped, ask, reviewed, counted, snapshot>>

-----------------------------------------------------------------------------
(* The environment. *)

ChangeObjects ==
    /\ objects' \in ObjectSets \ {objects}
    /\ UNCHANGED <<permitted, mapped, pc, ask, reviewed, reply, counted, snapshot>>

ChangePermissions ==
    /\ permitted' \in PermissionSets \ {permitted}
    /\ UNCHANGED <<objects, mapped, pc, ask, reviewed, reply, counted, snapshot>>

\* A lookup of another endpoint's call resets the shared cache and fills it.
OtherLookup ==
    /\ mapped' \in DiscoverySets
    /\ UNCHANGED <<world, pc, ask, reviewed, reply, counted, snapshot>>

\* What a call does, and what ends when its time is over.
Handle(c) == Resolve(c) \/ ResolveFails(c)
Expire(c) == ReviewFails(c) \/ CountFails(c)

Next ==
    \/ \E c \in Calls :
          \/ Refuse(c) \/ Receive(c) \/ Handle(c) \/ Expire(c)
          \/ ReviewAllowed(c) \/ ReviewDenied(c) \/ CountObjects(c)
    \/ ChangeObjects \/ ChangePermissions \/ OtherLookup

Spec == Init /\ [][Next]_vars

\* The lookup ends (discovery has a time limit of its own), and the review and
\* the read end with their context.  That anything is answered in time is not assumed.
FairSpec == Spec /\ \A c \in Calls : WF_vars(Handle(c)) /\ WF_vars(Expire(c))

-----------------------------------------------------------------------------
(* Properties. *)

\* Every variable holds a value of its kind, and a call past the lookup has a
\* kind with a mapping.
TypeOK ==
    /\ mapped \subseteq Kinds
    /\ permitted \in PermissionSets
    /\ objects \in ObjectSets
    /\ pc \in [Calls -> {"idle", "resolve", "review", "count", "done"}]
    /\ ask \in [Calls -> Asks \cup {NoAsk}]
    /\ reply \in [Calls -> {"none", "BadRequest", "Unmapped", "NotFound", "Forbidden",
                            "Failed", "OK"}]
    /\ DOMAIN reviewed = Calls
    /\ counted \in [Calls -> SUBSET Objects]
    /\ snapshot \in [Calls -> SUBSET Objects]
    /\ \A c \in Calls :
          /\ pc[c] \in {"resolve", "review", "count"} => ask[c] \in Asks
          /\ pc[c] \in {"review", "count"} => KindOf(ask[c]) \in Kinds

\* What a client means by its query: the objects of one resource, whichever
\* version they are spelled in, in the namespace if both have one.
Meant(a, o) ==
    /\ SameResource(KindOf(a), o.kind)
    /\ Mapping[KindOf(a)].namespaced /\ a.ns # NoNamespace => o.ns = a.ns
    /\ \A s \in a.labels \cup FieldSelectors(a) : o \in Selected[s]

\* The prefix of the count handler selects exactly the keys that belong to the
\* resource and namespace asked for, no key of another resource, scope or group
\* (core groups have no segment of their own) slips in or is missed.
CountsWhatIsMeant ==
    \A c \in Calls :
        reply[c] = "OK" => counted[c] = {o \in snapshot[c] : Meant(ask[c], o)}

\* The review is of the object's resource: its name, and its group or another core
\* group, which has the same keys.
OfResource(a, o) ==
    LET m == Mapping[o.kind]
    IN  /\ a.resource = m.resource
        /\ a.group = m.group \/ {a.group, m.group} \subseteq CoreGroups

\* What is counted is of a resource whose listing was reviewed and allowed for the call,
\* and an object with a namespace is in the namespace of that review, if it has one: the
\* two are derived from the request separately.  For an object without a namespace the
\* code does not give more than its resource: the review is made in whatever namespace
\* the request has, which the handler drops only afterwards, so that the right to list
\* a cluster-scoped resource in one namespace is enough to count all of it.
CountsWhatIsReviewed ==
    \A c \in Calls : \A o \in counted[c] :
        \E a \in reviewed[c] :
            /\ OfResource(a, o)
            /\ Mapping[o.kind].namespaced => a.ns \in {NoNamespace, o.ns}

\* A call that arrived is answered, even if API server and backend are silent.
Answered == \A c \in Calls : pc[c] = "resolve" ~> pc[c] = "done"
=============================================================================
