----------------------------- MODULE CountProofs -----------------------------
(***************************************************************************)
(* Proofs about Count and the keys it counts by, for every value of their  *)
(* constants.  Of the keys, for any groups, resources, core groups and     *)
(* namespaces that meet KeysAssumption: two objects share a key only if    *)
(* they are one object, and a prefix covers the keys of exactly one        *)
(* resource.  Of Count: any number of concurrent calls, any queries,       *)
(* objects, grants and discovery answers.                                  *)
(***************************************************************************)
EXTENDS Count, SequenceTheorems, TLAPS

-----------------------------------------------------------------------------
(* Concatenations of short sequences, written out. *)

LEMMA Pair ==
    ASSUME NEW S, NEW a \in S, NEW b \in S
    PROVE  <<a>> \o <<b>> = <<a, b>>
<1>1. <<a>> \in Seq(S) /\ <<b>> \in Seq(S) /\ <<a, b>> \in Seq(S)
    OBVIOUS
<1>2. Len(<<a>> \o <<b>>) = 2 /\ \A i \in 1..2 : (<<a>> \o <<b>>)[i] = <<a, b>>[i]
    BY <1>1
<1> QED
    BY <1>1, <1>2, SeqEqual, ConcatProperties

LEMMA Triple ==
    ASSUME NEW S, NEW a \in S, NEW b \in S, NEW c \in S
    PROVE  <<a, b>> \o <<c>> = <<a, b, c>>
<1>1. <<a, b>> \in Seq(S) /\ <<c>> \in Seq(S) /\ <<a, b, c>> \in Seq(S)
    OBVIOUS
<1>2. /\ Len(<<a, b>> \o <<c>>) = 3
      /\ \A i \in 1..3 : (<<a, b>> \o <<c>>)[i] = <<a, b, c>>[i]
    BY <1>1
<1> QED
    BY <1>1, <1>2, SeqEqual, ConcatProperties

LEMMA Quadruple ==
    ASSUME NEW S, NEW a \in S, NEW b \in S, NEW c \in S, NEW d \in S
    PROVE  <<a, b, c>> \o <<d>> = <<a, b, c, d>>
<1>1. <<a, b, c>> \in Seq(S) /\ <<d>> \in Seq(S) /\ <<a, b, c, d>> \in Seq(S)
    OBVIOUS
<1>2. /\ Len(<<a, b, c>> \o <<d>>) = 4
      /\ \A i \in 1..4 : (<<a, b, c>> \o <<d>>)[i] = <<a, b, c, d>>[i]
    BY <1>1
<1> QED
    BY <1>1, <1>2, SeqEqual, ConcatProperties

LEMMA Neutral ==
    ASSUME NEW S, NEW s \in Seq(S)
    PROVE  s \o <<>> = s /\ <<>> \o s = s
BY ConcatEmptySeq

-----------------------------------------------------------------------------
(* The keys, written out. *)

PrefixSegments(k, ns) ==
    IF Mapping[k].group \in CoreGroups
    THEN IF ScopedNamespace(k, ns) = NoNamespace
         THEN <<Mapping[k].resource>>
         ELSE <<Mapping[k].resource, ns>>
    ELSE IF ScopedNamespace(k, ns) = NoNamespace
         THEN <<Mapping[k].group, Mapping[k].resource>>
         ELSE <<Mapping[k].group, Mapping[k].resource, ns>>

KeySegments(k, ns, name) ==
    IF Mapping[k].group \in CoreGroups
    THEN IF ScopedNamespace(k, ns) = NoNamespace
         THEN <<Mapping[k].resource, name>>
         ELSE <<Mapping[k].resource, ns, name>>
    ELSE IF ScopedNamespace(k, ns) = NoNamespace
         THEN <<Mapping[k].group, Mapping[k].resource, name>>
         ELSE <<Mapping[k].group, Mapping[k].resource, ns, name>>

LEMMA EtcdKeySegments ==
    ASSUME NEW k \in Kinds, NEW ns
    PROVE  EtcdKey(k, ns) = PrefixSegments(k, ns)
<1> DEFINE S == {Mapping[k].group, Mapping[k].resource, ns}
           g == Mapping[k].group
           res == Mapping[k].resource
<1> g \in S /\ res \in S /\ ns \in S
    OBVIOUS
<1> HIDE DEF g, res, S
<1>1. <<res>> \in Seq(S) /\ <<g, res>> \in Seq(S) /\ <<res, ns>> \in Seq(S)
    OBVIOUS
<1>2. /\ <<res>> \o <<ns>> = <<res, ns>>
      /\ <<g>> \o <<res>> = <<g, res>>
      /\ <<g, res>> \o <<ns>> = <<g, res, ns>>
    BY Pair, Triple
<1>3. /\ <<>> \o <<res>> = <<res>>
      /\ <<res>> \o <<>> = <<res>>
      /\ <<g, res>> \o <<>> = <<g, res>>
    BY <1>1, Neutral
<1>4. CASE g \in CoreGroups
    BY <1>1, <1>2, <1>3, <1>4 DEF EtcdKey, GroupSegment, NamespaceSegment, PrefixSegments, g, res
<1>5. CASE g \notin CoreGroups
    BY <1>1, <1>2, <1>3, <1>5 DEF EtcdKey, GroupSegment, NamespaceSegment, PrefixSegments, g, res
<1> QED
    BY <1>4, <1>5

LEMMA ObjectKeySegments ==
    ASSUME NEW k \in Kinds, NEW ns, NEW name
    PROVE  ObjectKey(k, ns, name) = KeySegments(k, ns, name)
<1> DEFINE S == {Mapping[k].group, Mapping[k].resource, ns, name}
           g == Mapping[k].group
           res == Mapping[k].resource
<1> g \in S /\ res \in S /\ ns \in S /\ name \in S
    OBVIOUS
<1> HIDE DEF g, res, S
<1>1. /\ <<res>> \o <<name>> = <<res, name>>
      /\ <<res, ns>> \o <<name>> = <<res, ns, name>>
      /\ <<g, res>> \o <<name>> = <<g, res, name>>
      /\ <<g, res, ns>> \o <<name>> = <<g, res, ns, name>>
    BY Pair, Triple, Quadruple
<1>2. ObjectKey(k, ns, name) = PrefixSegments(k, ns) \o <<name>>
    BY EtcdKeySegments DEF ObjectKey
<1> QED
    BY <1>1, <1>2 DEF PrefixSegments, KeySegments, g, res

-----------------------------------------------------------------------------
\* Two objects with a proper namespace (one if their resource has them) have the
\* same key only if they are the same object: same resource, namespace and name.
THEOREM KeysIdentifyObjects ==
    ASSUME NEW k \in Kinds, NEW l \in Kinds,
           NEW ns \in AnyNamespace, NEW ms \in AnyNamespace,
           NEW name, NEW other,
           Mapping[k].namespaced => ns # NoNamespace,
           Mapping[l].namespaced => ms # NoNamespace,
           ObjectKey(k, ns, name) = ObjectKey(l, ms, other)
    PROVE  /\ SameResource(k, l)
           /\ ScopedNamespace(k, ns) = ScopedNamespace(l, ms)
           /\ name = other
<1>1. KeySegments(k, ns, name) = KeySegments(l, ms, other)
    BY ObjectKeySegments
<1>2. \A j \in Kinds : /\ Mapping[j].group \in Groups
                       /\ Mapping[j].resource \in Resources
                       /\ Mapping[j].namespaced \in BOOLEAN
    BY KeysAssumption
<1> QED
    BY <1>1, <1>2, KeysAssumption
    DEF KeySegments, ScopedNamespace, SameResource, AnyNamespace

\* The prefix of a resource and namespace covers exactly the keys of the objects
\* of that resource, in that namespace if the resource has them and one is given.
THEOREM PrefixCoversResource ==
    ASSUME NEW k \in Kinds, NEW l \in Kinds,
           NEW ns \in AnyNamespace, NEW ms \in AnyNamespace, NEW name,
           Mapping[l].namespaced => ms # NoNamespace
    PROVE  Below(EtcdKey(k, ns), ObjectKey(l, ms, name)) <=>
               /\ SameResource(k, l)
               /\ Mapping[k].namespaced /\ ns # NoNamespace => ms = ns
<1>1. Below(EtcdKey(k, ns), ObjectKey(l, ms, name))
        <=> Below(PrefixSegments(k, ns), KeySegments(l, ms, name))
    BY EtcdKeySegments, ObjectKeySegments
<1>2. \A j \in Kinds : /\ Mapping[j].group \in Groups
                       /\ Mapping[j].resource \in Resources
                       /\ Mapping[j].namespaced \in BOOLEAN
    BY KeysAssumption
<1> QED
    BY <1>1, <1>2, KeysAssumption
    DEF Below, PrefixSegments, KeySegments, ScopedNamespace, SameResource, AnyNamespace

-----------------------------------------------------------------------------
(* The calls. *)

\* What the answer of a call with a count rests on.
Sound(c) ==
    /\ ask[c] \in Asks
    /\ KindOf(ask[c]) \in Kinds
    /\ reviewed[c] = {Attributes(ask[c])}
    /\ snapshot[c] \subseteq Objects
    /\ counted[c] = {o \in snapshot[c] : Meant(ask[c], o)}

CallOK(c) ==
    /\ pc[c] # "done" => reply[c] = "none"
    /\ reply[c] # "OK" => counted[c] = {}
    /\ pc[c] = "count" => reviewed[c] = {Attributes(ask[c])}
    /\ reply[c] = "OK" => Sound(c)

IInv == TypeOK /\ \A c \in Calls : CallOK(c)

\* What a call is made of, unchanged.
Same(c) ==
    /\ pc'[c] = pc[c]
    /\ ask'[c] = ask[c]
    /\ reviewed'[c] = reviewed[c]
    /\ reply'[c] = reply[c]
    /\ counted'[c] = counted[c]
    /\ snapshot'[c] = snapshot[c]

LEMMA Frame ==
    ASSUME NEW c \in Calls, CallOK(c), Same(c)
    PROVE  CallOK(c)'
BY DEF CallOK, Same, Sound

\* The count the backend answers is the one that is meant.
LEMMA CountsExactly ==
    ASSUME NEW a \in Asks, KindOf(a) \in Kinds, NEW S \in SUBSET Objects
    PROVE  {o \in S : /\ Below(Prefix(a), ObjectKey(o.kind, o.ns, o.name))
                      /\ \A s \in AllSelectors(a) : o \in Selected[s]}
             = {o \in S : Meant(a, o)}
<1>1. ASSUME NEW o \in S
      PROVE  Below(Prefix(a), ObjectKey(o.kind, o.ns, o.name)) <=>
                 /\ SameResource(KindOf(a), o.kind)
                 /\ Mapping[KindOf(a)].namespaced /\ a.ns # NoNamespace => o.ns = a.ns
    <2>1. a.ns \in AnyNamespace
        BY CountAssumption
    <2>2. /\ o.kind \in Kinds
          /\ o.ns \in AnyNamespace
          /\ Mapping[o.kind].namespaced => o.ns # NoNamespace
        BY CountAssumption
    <2> QED
        BY <2>1, <2>2, PrefixCoversResource DEF Prefix
<1> QED
    BY <1>1 DEF Meant, AllSelectors

LEMMA Initially == Init => IInv
BY CountAssumption DEF Init, IInv, TypeOK, CallOK

LEMMA Step ==
    ASSUME IInv, [Next]_vars
    PROVE  IInv'
<1> USE DEF IInv, TypeOK
<1>1. ASSUME NEW c \in Calls, Refuse(c)
      PROVE  IInv'
    <2>1. TypeOK' /\ CallOK(c)'
        BY <1>1 DEF Refuse, Answer, world, CallOK
    <2>2. \A d \in Calls \ {c} : Same(d)
        BY <1>1 DEF Refuse, Answer, Same
    <2> QED
        BY <2>1, <2>2, Frame
<1>2. ASSUME NEW c \in Calls, Receive(c)
      PROVE  IInv'
    <2>1. TypeOK' /\ CallOK(c)'
        BY <1>2 DEF Receive, world, CallOK
    <2>2. \A d \in Calls \ {c} : Same(d)
        BY <1>2 DEF Receive, Same
    <2> QED
        BY <2>1, <2>2, Frame
<1>3. ASSUME NEW c \in Calls, Resolve(c)
      PROVE  IInv'
    <2>1. mapped' \subseteq Kinds
        BY <1>3, CountAssumption DEF Resolve, Views
    <2>2. TypeOK' /\ CallOK(c)'
        BY <1>3, <2>1 DEF Resolve, world, CallOK
    <2>3. \A d \in Calls \ {c} : Same(d)
        BY <1>3 DEF Resolve, Same
    <2> QED
        BY <2>2, <2>3, Frame
<1>4. ASSUME NEW c \in Calls, ResolveFails(c)
      PROVE  IInv'
    <2>1. mapped' \subseteq Kinds
        BY <1>4, CountAssumption DEF ResolveFails, Views
    <2>2. TypeOK' /\ CallOK(c)'
        BY <1>4, <2>1 DEF ResolveFails, Answer, world, CallOK
    <2>3. \A d \in Calls \ {c} : Same(d)
        BY <1>4 DEF ResolveFails, Answer, Same
    <2> QED
        BY <2>2, <2>3, Frame
<1>5. ASSUME NEW c \in Calls, ReviewAllowed(c)
      PROVE  IInv'
    <2>1. TypeOK' /\ CallOK(c)'
        BY <1>5 DEF ReviewAllowed, world, CallOK
    <2>2. \A d \in Calls \ {c} : Same(d)
        BY <1>5 DEF ReviewAllowed, Same
    <2> QED
        BY <2>1, <2>2, Frame
<1>6. ASSUME NEW c \in Calls, ReviewDenied(c) \/ ReviewFails(c) \/ CountFails(c)
      PROVE  IInv'
    <2>1. TypeOK' /\ CallOK(c)'
        BY <1>6 DEF ReviewDenied, ReviewFails, CountFails, Answer, world, CallOK
    <2>2. \A d \in Calls \ {c} : Same(d)
        BY <1>6 DEF ReviewDenied, ReviewFails, CountFails, Answer, Same
    <2> QED
        BY <2>1, <2>2, Frame
<1>7. ASSUME NEW c \in Calls, CountObjects(c)
      PROVE  IInv'
    <2>1. ask[c] \in Asks /\ KindOf(ask[c]) \in Kinds /\ objects \in SUBSET Objects
        BY <1>7, CountAssumption DEF CountObjects
    <2>2. counted'[c] = {o \in objects : Meant(ask[c], o)}
        BY <1>7, <2>1, CountsExactly DEF CountObjects
    <2>3. CallOK(c)'
        BY <1>7, <2>1, <2>2 DEF CountObjects, Answer, CallOK, Sound, Meant
    <2>4. TypeOK'
        BY <1>7, <2>1, <2>2 DEF CountObjects, Answer, world
    <2>5. \A d \in Calls \ {c} : Same(d)
        BY <1>7 DEF CountObjects, Answer, Same
    <2> QED
        BY <2>3, <2>4, <2>5, Frame
<1>8. CASE ChangeObjects \/ ChangePermissions \/ OtherLookup
    <2>1. TypeOK'
        BY <1>8, CountAssumption DEF ChangeObjects, ChangePermissions, OtherLookup, world
    <2>2. \A d \in Calls : Same(d)
        BY <1>8 DEF ChangeObjects, ChangePermissions, OtherLookup, world, Same
    <2> QED
        BY <2>1, <2>2, Frame
<1>9. CASE UNCHANGED vars
    BY <1>9, Frame DEF vars, world, Same
<1> QED
    BY <1>1, <1>2, <1>3, <1>4, <1>5, <1>6, <1>7, <1>8, <1>9 DEF Next, Handle, Expire

THEOREM Invariance == Spec => []IInv
<1>1. Init => IInv
    BY Initially
<1>2. IInv /\ [Next]_vars => IInv'
    BY Step
<1> QED
    BY <1>1, <1>2, PTL DEF Spec

\* Type correctness, for any number of calls and any queries.
THEOREM Typing == Spec => []TypeOK
<1>1. IInv => TypeOK
    BY DEF IInv
<1> QED
    BY <1>1, Invariance, PTL

\* A count is the number of the objects that the query means, at the time the
\* backend counted, whatever groups share a resource or leave out their segment.
THEOREM Meaning == Spec => []CountsWhatIsMeant
<1>1. IInv => CountsWhatIsMeant
    BY DEF IInv, CallOK, Sound, CountsWhatIsMeant
<1> QED
    BY <1>1, Invariance, PTL

\* Whatever is counted is of a resource, group included, that was reviewed and allowed for
\* the call, and in the namespace of that review if the resource has namespaces (one
\* without is counted on a review in any namespace).
THEOREM Review == Spec => []CountsWhatIsReviewed
<1>1. IInv => CountsWhatIsReviewed
    <2> SUFFICES ASSUME IInv, NEW c \in Calls, NEW o \in counted[c]
                 PROVE  \E a \in reviewed[c] :
                            /\ OfResource(a, o)
                            /\ Mapping[o.kind].namespaced => a.ns \in {NoNamespace, o.ns}
        BY DEF CountsWhatIsReviewed
    <2>1. Sound(c) /\ o \in Objects /\ Meant(ask[c], o)
        BY DEF IInv, CallOK, Sound
    <2>2. o.kind \in Kinds /\ KindOf(ask[c]) \in Kinds
        BY <2>1, CountAssumption DEF Sound
    <2>3. Mapping[KindOf(ask[c])].namespaced = Mapping[o.kind].namespaced
        BY <2>1, <2>2, KeysAssumption DEF Meant, SameResource
    <2>4. /\ Attributes(ask[c]).group = Mapping[KindOf(ask[c])].group
          /\ Attributes(ask[c]).resource = Mapping[KindOf(ask[c])].resource
          /\ Attributes(ask[c]).ns = ask[c].ns
        BY DEF Attributes
    <2>5. OfResource(Attributes(ask[c]), o)
        BY <2>1, <2>4 DEF Meant, SameResource, OfResource
    <2>6. Mapping[o.kind].namespaced => ask[c].ns \in {NoNamespace, o.ns}
        BY <2>1, <2>3 DEF Meant
    <2> QED
        BY <2>1, <2>4, <2>5, <2>6 DEF Sound
<1> QED
    BY <1>1, Invariance, PTL
=============================================================================
