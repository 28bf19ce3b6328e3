------------------------ MODULE DecisionNormalizeProofs ------------------------
(***************************************************************************)
(* What DecisionNormalize promises, for bodies of any shape: by induction  *)
(* on how deep their values are nested.                                    *)
(***************************************************************************)
EXTENDS DecisionNormalize, FiniteSetTheorems, TLAPS

-----------------------------------------------------------------------------
(* Induction over values. *)

\* Induction over the natural numbers, for a set of them.
LEMMA SetInduction ==
    ASSUME NEW S \in SUBSET Nat, 0 \in S, \A n \in S : n + 1 \in S
    PROVE  S = Nat
<1> SUFFICES ASSUME NEW k \in Nat, k \notin S PROVE FALSE
    OBVIOUS
<1> DEFINE T == {i \in 0..k : i \notin S}
           f == [i \in T |-> i - 1]
<1>1. IsFiniteSet(T) /\ Cardinality(T) \in Nat
    <2>1. IsFiniteSet(0..k)
        BY FS_Interval
    <2>2. T \in SUBSET (0..k)
        OBVIOUS
    <2>3. IsFiniteSet(T)
        <3> HIDE DEF T
        <3> QED BY <2>1, <2>2, FS_Subset
    <2> HIDE DEF T
    <2> QED BY <2>3, FS_CardinalityType
<1>2. IsFiniteSet(T \ {k}) /\ Cardinality(T \ {k}) = Cardinality(T) - 1
    <2>1. k \in T
        OBVIOUS
    <2> HIDE DEF T
    <2> QED BY <1>1, <2>1, FS_RemoveElement
<1>3. f \in Injection(T, T \ {k})
    <2>1. \A i \in T : i - 1 \in T \ {k}
        <3> SUFFICES ASSUME NEW i \in T PROVE i - 1 \in T \ {k}
            OBVIOUS
        <3>1. i \in 0..k /\ i # 0
            OBVIOUS
        <3>2. i - 1 \in 0..k /\ i - 1 # k /\ (i - 1) + 1 = i
            BY <3>1
        <3>3. i - 1 \notin S
            BY <3>2
        <3> QED BY <3>2, <3>3
    <2>2. \A i, j \in T : i - 1 = j - 1 => i = j
        OBVIOUS
    <2>3. f \in [T -> T \ {k}] /\ \A i, j \in T : f[i] = f[j] => i = j
        BY <2>1, <2>2
    <2>4. \A g : g \in [T -> T \ {k}] /\ (\A i, j \in T : g[i] = g[j] => i = j) => g \in Injection(T, T \ {k})
        <3> HIDE DEF T
        <3> QED BY DEF Injection, IsInjective
    <2> HIDE DEF f, T
    <2> QED BY <2>3, <2>4
<1>4. Cardinality(T) <= Cardinality(T \ {k})
    <2> HIDE DEF f, T
    <2> QED BY <1>2, <1>3, FS_Injection
<1> HIDE DEF T
<1> QED BY <1>1, <1>2, <1>4

\* The values nested less than n deep.
Below(n) == UNION {Levels[m] : m \in {m \in 0..MaxDepth : m < n}}

\* None is nested less than 0 deep, all less than MaxDepth + 1, and what a value consists of
\* is nested less deep than it.
LEMMA Depths ==
    /\ Below(0) = {}
    /\ Below(MaxDepth + 1) = Values
    /\ \A n \in Nat : Below(n) \subseteq Values /\ Below(n) \subseteq Below(n + 1)
    /\ \A n \in Nat : \A value \in Below(n + 1) :
          HasParts(value) => \A k \in DOMAIN value.parts : value.parts[k] \in Below(n)
<1>0. MaxDepth \in Nat
    BY ValuesAssumption
<1>1. Below(0) = {}
    BY <1>0 DEF Below
<1>2. Below(MaxDepth + 1) = Values
    BY <1>0 DEF Below, Values
<1>3. \A n \in Nat : Below(n) \subseteq Values /\ Below(n) \subseteq Below(n + 1)
    <2>1. \A n \in Nat : \A m \in 0..MaxDepth : m < n => m < n + 1
        BY <1>0
    <2> QED BY <2>1 DEF Below, Values
<1>4. ASSUME NEW n \in Nat, NEW value \in Below(n + 1), HasParts(value), NEW k \in DOMAIN value.parts
      PROVE  value.parts[k] \in Below(n)
    <2>1. PICK l \in 0..MaxDepth : l < n + 1 /\ value \in Levels[l]
        BY <1>4 DEF Below
    <2>2. PICK m \in 0..MaxDepth : m < l /\ value.parts[k] \in Levels[m]
        BY <1>4, <2>1, ValuesAssumption
    <2>3. m < n
        BY <1>0, <2>1, <2>2
    <2> QED BY <2>2, <2>3 DEF Below
<1> QED BY <1>1, <1>2, <1>3, <1>4

\* Parts of a value are values.
LEMMA PartsAreValues ==
    ASSUME NEW value \in Values, HasParts(value), NEW k \in DOMAIN value.parts
    PROVE  value.parts[k] \in Values
<1>0. MaxDepth \in Nat
    BY ValuesAssumption
<1>1. value \in Below(MaxDepth + 1)
    BY Depths
<1>2. value.parts[k] \in Below(MaxDepth)
    BY <1>0, <1>1, Depths
<1> QED BY <1>0, <1>2, Depths

\* A set with every value whose parts are in it has all values.
LEMMA ValueInduction ==
    ASSUME NEW S,
           \A value \in Values :
              (HasParts(value) => \A k \in DOMAIN value.parts : value.parts[k] \in S) => value \in S
    PROVE  Values \subseteq S
<1> DEFINE T == {n \in Nat : Below(n) \subseteq S}
<1>1. 0 \in T
    BY Depths
<1>2. ASSUME NEW n \in T
      PROVE  n + 1 \in T
    <2>1. n \in Nat /\ n + 1 \in Nat /\ Below(n) \subseteq S
        OBVIOUS
    <2>2. ASSUME NEW value \in Below(n + 1)
          PROVE  value \in S
        <3>1. value \in Values
            BY <2>1, Depths
        <3>2. HasParts(value) => \A k \in DOMAIN value.parts : value.parts[k] \in S
            BY <2>1, Depths
        <3> QED BY <3>1, <3>2
    <2> QED BY <2>1, <2>2
<1>3. T = Nat
    <2>1. T \in SUBSET Nat
        OBVIOUS
    <2> HIDE DEF T
    <2> QED BY <1>1, <1>2, <2>1, SetInduction
<1>4. MaxDepth + 1 \in T
    BY <1>3, ValuesAssumption
<1> QED BY <1>4, Depths

-----------------------------------------------------------------------------
(* The recursive functions are what their definitions say. *)

PartsIn(f, value) == [k \in DOMAIN value.parts |-> f[value.parts[k]]]

Normal(f, value) ==
    CASE IsMap(value)  -> {[kind |-> "object", parts |-> g] : g \in Picks(Entries(value, PartsIn(f, value)))}
      [] IsList(value) -> {[kind |-> "list", parts |-> g] : g \in Picks(PartsIn(f, value))}
      [] OTHER         -> {value}

LEMMA NormalParts ==
    ASSUME NEW f, NEW g, NEW value,
           HasParts(value) => \A k \in DOMAIN value.parts : f[value.parts[k]] = g[value.parts[k]]
    PROVE  Normal(f, value) = Normal(g, value)
<1>1. HasParts(value) => PartsIn(f, value) = PartsIn(g, value)
    BY DEF PartsIn
<1>2. IsMap(value) \/ IsList(value) => HasParts(value)
    BY DEF IsMap, IsList, HasParts
<1> QED BY <1>1, <1>2 DEF Normal

\* What becomes of a value, as its parts become what they do.
LEMMA NormalizeIs ==
    \A value \in Values : normalizeDecisionValue[value] = Normal(normalizeDecisionValue, value)
<1> DEFINE T == {n \in Nat : \E f : f = [value \in Below(n) |-> Normal(f, value)]}
<1>1. 0 \in T
    <2> DEFINE f == [value \in Below(0) |-> Normal(<<>>, value)]
    <2>1. f = [value \in Below(0) |-> Normal(f, value)]
        BY Depths
    <2> QED BY <2>1
<1>2. ASSUME NEW n \in T
      PROVE  n + 1 \in T
    <2>1. n \in Nat /\ n + 1 \in Nat
        OBVIOUS
    <2>2. PICK f : f = [value \in Below(n) |-> Normal(f, value)]
        OBVIOUS
    <2> DEFINE g == [value \in Below(n + 1) |-> Normal(f, value)]
    <2>3. \A value \in Below(n + 1) : g[value] = Normal(f, value)
        OBVIOUS
    <2>4. \A value \in Below(n) : g[value] = f[value]
        <3> HIDE DEF g
        <3>1. \A value \in Below(n) : f[value] = Normal(f, value)
            BY <2>2
        <3> QED BY <2>1, <2>3, <3>1, Depths
    <2>5. ASSUME NEW value \in Below(n + 1)
          PROVE  Normal(f, value) = Normal(g, value)
        <3>1. HasParts(value) => \A k \in DOMAIN value.parts : f[value.parts[k]] = g[value.parts[k]]
            <4> HIDE DEF g
            <4> QED BY <2>1, <2>4, Depths
        <3> HIDE DEF g
        <3> QED BY <3>1, NormalParts
    <2>6. g = [value \in Below(n + 1) |-> Normal(g, value)]
        <3>1. \A value \in Below(n + 1) : Normal(f, value) = Normal(g, value)
            <4> HIDE DEF g
            <4> QED BY <2>5
        <3> QED BY <3>1
    <2> QED BY <2>1, <2>6
<1>3. T = Nat
    <2>1. T \in SUBSET Nat
        OBVIOUS
    <2> HIDE DEF T
    <2> QED BY <1>1, <1>2, <2>1, SetInduction
<1>4. MaxDepth + 1 \in T
    BY <1>3, ValuesAssumption
<1>5. \E f : f = [value \in Values |-> Normal(f, value)]
    BY <1>4, Depths
<1>6. normalizeDecisionValue = CHOOSE f : f = [value \in Values |-> Normal(f, value)]
    BY DEF normalizeDecisionValue, Normal, PartsIn
<1>7. normalizeDecisionValue = [value \in Values |-> Normal(normalizeDecisionValue, value)]
    BY <1>5, <1>6
<1> QED BY <1>7

PlacesIn(f, value) ==
    {[path |-> <<>>, at |-> value]}
        \cup IF HasParts(value)
             THEN UNION {Under(Step(value, k), f[value.parts[k]]) : k \in DOMAIN value.parts}
             ELSE {}

LEMMA PlacesParts ==
    ASSUME NEW f, NEW g, NEW value,
           HasParts(value) => \A k \in DOMAIN value.parts : f[value.parts[k]] = g[value.parts[k]]
    PROVE  PlacesIn(f, value) = PlacesIn(g, value)
BY DEF PlacesIn

\* The places in a value are itself and those in its parts.
LEMMA PlacesAre ==
    \A value \in Values : Places[value] = PlacesIn(Places, value)
<1> DEFINE T == {n \in Nat : \E f : f = [value \in Below(n) |-> PlacesIn(f, value)]}
<1>1. 0 \in T
    <2> DEFINE f == [value \in Below(0) |-> PlacesIn(<<>>, value)]
    <2>1. f = [value \in Below(0) |-> PlacesIn(f, value)]
        BY Depths
    <2> QED BY <2>1
<1>2. ASSUME NEW n \in T
      PROVE  n + 1 \in T
    <2>1. n \in Nat /\ n + 1 \in Nat
        OBVIOUS
    <2>2. PICK f : f = [value \in Below(n) |-> PlacesIn(f, value)]
        OBVIOUS
    <2> DEFINE g == [value \in Below(n + 1) |-> PlacesIn(f, value)]
    <2>3. \A value \in Below(n + 1) : g[value] = PlacesIn(f, value)
        OBVIOUS
    <2>4. \A value \in Below(n) : g[value] = f[value]
        <3> HIDE DEF g
        <3>1. \A value \in Below(n) : f[value] = PlacesIn(f, value)
            BY <2>2
        <3> QED BY <2>1, <2>3, <3>1, Depths
    <2>5. ASSUME NEW value \in Below(n + 1)
          PROVE  PlacesIn(f, value) = PlacesIn(g, value)
        <3>1. HasParts(value) => \A k \in DOMAIN value.parts : f[value.parts[k]] = g[value.parts[k]]
            <4> HIDE DEF g
            <4> QED BY <2>1, <2>4, Depths
        <3> HIDE DEF g
        <3> QED BY <3>1, PlacesParts
    <2>6. g = [value \in Below(n + 1) |-> PlacesIn(g, value)]
        <3>1. \A value \in Below(n + 1) : PlacesIn(f, value) = PlacesIn(g, value)
            <4> HIDE DEF g
            <4> QED BY <2>5
        <3> QED BY <3>1
    <2> QED BY <2>1, <2>6
<1>3. T = Nat
    <2>1. T \in SUBSET Nat
        OBVIOUS
    <2> HIDE DEF T
    <2> QED BY <1>1, <1>2, <2>1, SetInduction
<1>4. MaxDepth + 1 \in T
    BY <1>3, ValuesAssumption
<1>5. \E f : f = [value \in Values |-> PlacesIn(f, value)]
    BY <1>4, Depths
<1>6. Places = CHOOSE f : f = [value \in Values |-> PlacesIn(f, value)]
    BY DEF Places, PlacesIn
<1>7. Places = [value \in Values |-> PlacesIn(Places, value)]
    BY <1>5, <1>6
<1> QED BY <1>7

LEMMA PlaceIs ==
    ASSUME NEW value \in Values, NEW p
    PROVE  p \in Places[value] <=>
              \/ p = [path |-> <<>>, at |-> value]
              \/ /\ HasParts(value)
                 /\ \E k \in DOMAIN value.parts : p \in Under(Step(value, k), Places[value.parts[k]])
BY PlacesAre DEF PlacesIn

\* What becomes of a value: a map or a list of what becomes of its parts, or itself.
LEMMA NormalIs ==
    ASSUME NEW value \in Values, NEW r \in normalizeDecisionValue[value]
    PROVE  /\ r \in Values
           /\ IsMap(value) =>
                 /\ r = [kind |-> "object", parts |-> [key \in Keys(value) |-> r.parts[key]]]
                 /\ \A key \in Keys(value) : \E k \in DOMAIN value.parts :
                       Sprint(k) = key /\ r.parts[key] \in normalizeDecisionValue[value.parts[k]]
           /\ IsList(value) =>
                 /\ r = [kind |-> "list", parts |-> [k \in DOMAIN value.parts |-> r.parts[k]]]
                 /\ \A k \in DOMAIN value.parts : r.parts[k] \in normalizeDecisionValue[value.parts[k]]
           /\ ~ HasParts(value) => r = value
<1>1. r \in Values
    BY ValuesAssumption
<1>2. r \in Normal(normalizeDecisionValue, value)
    BY NormalizeIs
<1> DEFINE results == PartsIn(normalizeDecisionValue, value)
<1>3. DOMAIN results = DOMAIN value.parts
      /\ \A k \in DOMAIN value.parts : results[k] = normalizeDecisionValue[value.parts[k]]
    BY DEF PartsIn
<1> HIDE DEF results
<1>4. ASSUME IsMap(value)
      PROVE  /\ r = [kind |-> "object", parts |-> [key \in Keys(value) |-> r.parts[key]]]
             /\ \A key \in Keys(value) : \E k \in DOMAIN value.parts :
                   Sprint(k) = key /\ r.parts[key] \in normalizeDecisionValue[value.parts[k]]
    <2>0. Normal(normalizeDecisionValue, value) =
             {[kind |-> "object", parts |-> f] : f \in Picks(Entries(value, results))}
        BY <1>4 DEF Normal, IsMap, IsList, results
    <2>1. PICK f \in Picks(Entries(value, results)) : r = [kind |-> "object", parts |-> f]
        BY <1>2, <2>0
    <2>2. r.parts = f
        BY <2>1
    <2>3. DOMAIN Entries(value, results) = Keys(value)
          /\ \A key \in Keys(value) : \A x \in Entries(value, results)[key] :
                \E k \in DOMAIN value.parts : Sprint(k) = key /\ x \in results[k]
        BY DEF Entries
    <2>4. f = [key \in Keys(value) |-> f[key]]
          /\ \A key \in Keys(value) : f[key] \in Entries(value, results)[key]
        BY <2>3 DEF Picks
    <2> QED BY <1>3, <2>1, <2>2, <2>3, <2>4
<1>5. ASSUME IsList(value)
      PROVE  /\ r = [kind |-> "list", parts |-> [k \in DOMAIN value.parts |-> r.parts[k]]]
             /\ \A k \in DOMAIN value.parts : r.parts[k] \in normalizeDecisionValue[value.parts[k]]
    <2>1. ~ IsMap(value)
        BY <1>5 DEF IsMap, IsList
    <2>2. PICK f \in Picks(results) : r = [kind |-> "list", parts |-> f]
        BY <1>2, <1>5, <2>1 DEF Normal, results
    <2>3. r.parts = f
        BY <2>2
    <2>4. f = [k \in DOMAIN value.parts |-> f[k]] /\ \A k \in DOMAIN value.parts : f[k] \in results[k]
        BY <1>3 DEF Picks
    <2> QED BY <1>3, <2>2, <2>3, <2>4
<1>6. ~ HasParts(value) => r = value
    BY <1>2 DEF Normal, HasParts, IsMap, IsList
<1> QED BY <1>1, <1>4, <1>5, <1>6

-----------------------------------------------------------------------------
(* What normalizing does to the places of a value. *)

\* No map with keys of any type is left in it.
LEMMA NormalIsKeyed ==
    \A value \in Values : \A r \in normalizeDecisionValue[value] : \A p \in Places[r] : StringKeyed(p.at)
<1> DEFINE Keyed(value) == \A r \in normalizeDecisionValue[value] : \A p \in Places[r] : StringKeyed(p.at)
           S == {value \in Values : Keyed(value)}
<1>1. ASSUME NEW value \in Values,
             HasParts(value) => \A k \in DOMAIN value.parts : value.parts[k] \in S
      PROVE  Keyed(value)
    <2> SUFFICES ASSUME NEW r \in normalizeDecisionValue[value], NEW p \in Places[r]
                 PROVE  StringKeyed(p.at)
        OBVIOUS
    <2>1. CASE ~ HasParts(value)
        <3>1. r = value /\ r \in Values
            BY <2>1, NormalIs
        <3>2. p = [path |-> <<>>, at |-> r]
            BY <2>1, <3>1, PlaceIs
        <3> QED BY <2>1, <3>1, <3>2 DEF StringKeyed, HasParts
    <2>2. CASE IsMap(value)
        <3>1. /\ r \in Values
              /\ r = [kind |-> "object", parts |-> [key \in Keys(value) |-> r.parts[key]]]
              /\ \A key \in Keys(value) : \E k \in DOMAIN value.parts :
                    Sprint(k) = key /\ r.parts[key] \in normalizeDecisionValue[value.parts[k]]
            BY <2>2, NormalIs
        <3>2. r.kind = "object" /\ DOMAIN r.parts = Keys(value)
            BY <3>1
        <3>3. CASE p = [path |-> <<>>, at |-> r]
            <4>1. \A key \in Keys(value) : key.kind = "string"
                BY DEF Keys, Sprint
            <4> QED BY <3>2, <3>3, <4>1 DEF StringKeyed
        <3>4. ASSUME NEW key \in DOMAIN r.parts, p \in Under(Step(r, key), Places[r.parts[key]])
              PROVE  StringKeyed(p.at)
            <4>1. PICK q \in Places[r.parts[key]] : p.at = q.at
                BY <3>4 DEF Under
            <4>2. PICK k \in DOMAIN value.parts : r.parts[key] \in normalizeDecisionValue[value.parts[k]]
                BY <3>1, <3>2
            <4>3. Keyed(value.parts[k])
                BY <1>1, <2>2 DEF HasParts, IsMap
            <4> QED BY <4>1, <4>2, <4>3
        <3> QED BY <3>1, <3>3, <3>4, PlaceIs
    <2>3. CASE IsList(value)
        <3>1. /\ r \in Values
              /\ r = [kind |-> "list", parts |-> [k \in DOMAIN value.parts |-> r.parts[k]]]
              /\ \A k \in DOMAIN value.parts : r.parts[k] \in normalizeDecisionValue[value.parts[k]]
            BY <2>3, NormalIs
        <3>2. r.kind = "list" /\ DOMAIN r.parts = DOMAIN value.parts
            BY <3>1
        <3>3. CASE p = [path |-> <<>>, at |-> r]
            BY <3>2, <3>3 DEF StringKeyed
        <3>4. ASSUME NEW k \in DOMAIN r.parts, p \in Under(Step(r, k), Places[r.parts[k]])
              PROVE  StringKeyed(p.at)
            <4>1. PICK q \in Places[r.parts[k]] : p.at = q.at
                BY <3>4 DEF Under
            <4>2. Keyed(value.parts[k])
                BY <1>1, <2>3, <3>2 DEF HasParts, IsList
            <4> QED BY <3>1, <3>2, <4>1, <4>2
        <3> QED BY <3>1, <3>3, <3>4, PlaceIs
    <2> QED BY <2>1, <2>2, <2>3 DEF HasParts, IsMap, IsList
<1>2. Values \subseteq S
    <2>1. \A value \in Values :
             (HasParts(value) => \A k \in DOMAIN value.parts : value.parts[k] \in S) => value \in S
        BY <1>1
    <2> HIDE DEF S
    <2> QED BY <2>1, ValueInduction
<1> QED BY <1>2

\* The leaves of a value: itself, when there is nothing in it, and those of its parts.
LEMMA LeafIs ==
    ASSUME NEW value \in Values, NEW x
    PROVE  x \in Leaves(value) <=>
              \/ (HasParts(value) => DOMAIN value.parts = {}) /\ x = [path |-> <<>>, at |-> Shown(value)]
              \/ /\ HasParts(value)
                 /\ \E k \in DOMAIN value.parts : x \in Under(Step(value, k), Leaves(value.parts[k]))
<1> DEFINE Leaf(p) == HasParts(p.at) => DOMAIN p.at.parts = {}
           Shows(p, y) == y = [path |-> p.path, at |-> Shown(p.at)]
<1>1. \A v, y : y \in Leaves(v) <=> \E p \in Places[v] : Leaf(p) /\ Shows(p, y)
    BY DEF Leaves
<1>2. ASSUME NEW k \in DOMAIN value.parts, HasParts(value)
      PROVE  x \in Under(Step(value, k), Leaves(value.parts[k])) <=>
                \E p \in Under(Step(value, k), Places[value.parts[k]]) : Leaf(p) /\ Shows(p, x)
    <2>1. ASSUME NEW y \in Leaves(value.parts[k]), x = [path |-> <<Step(value, k), y.path>>, at |-> y.at]
          PROVE  \E p \in Under(Step(value, k), Places[value.parts[k]]) : Leaf(p) /\ Shows(p, x)
        <3>1. PICK q \in Places[value.parts[k]] : Leaf(q) /\ Shows(q, y)
            BY <1>1
        <3> DEFINE p == [path |-> <<Step(value, k), q.path>>, at |-> q.at]
        <3>2. p \in Under(Step(value, k), Places[value.parts[k]])
            BY DEF Under
        <3>3. Leaf(p) /\ Shows(p, x)
            BY <2>1, <3>1
        <3> QED BY <3>2, <3>3
    <2>2. ASSUME NEW p \in Under(Step(value, k), Places[value.parts[k]]), Leaf(p), Shows(p, x)
          PROVE  x \in Under(Step(value, k), Leaves(value.parts[k]))
        <3>1. PICK q \in Places[value.parts[k]] : p = [path |-> <<Step(value, k), q.path>>, at |-> q.at]
            BY DEF Under
        <3> DEFINE y == [path |-> q.path, at |-> Shown(q.at)]
        <3>2. y \in Leaves(value.parts[k])
            <4>1. Leaf(q) /\ Shows(q, y)
                BY <2>2, <3>1
            <4> HIDE DEF y, Leaf, Shows
            <4> QED BY <1>1, <4>1
        <3>3. x = [path |-> <<Step(value, k), y.path>>, at |-> y.at]
            BY <2>2, <3>1
        <3> QED BY <3>2, <3>3 DEF Under
    <2> QED BY <2>1, <2>2 DEF Under
<1>3. \A p : p = [path |-> <<>>, at |-> value] =>
         ((Leaf(p) /\ Shows(p, x)) <=>
          ((HasParts(value) => DOMAIN value.parts = {}) /\ x = [path |-> <<>>, at |-> Shown(value)]))
    OBVIOUS
<1> HIDE DEF Leaf, Shows
<1>4. ASSUME NEW p \in Places[value], Leaf(p), Shows(p, x)
      PROVE  \/ (HasParts(value) => DOMAIN value.parts = {}) /\ x = [path |-> <<>>, at |-> Shown(value)]
             \/ /\ HasParts(value)
                /\ \E k \in DOMAIN value.parts : x \in Under(Step(value, k), Leaves(value.parts[k]))
    <2>1. CASE p = [path |-> <<>>, at |-> value]
        BY <1>3, <1>4, <2>1
    <2>2. ASSUME HasParts(value), NEW k \in DOMAIN value.parts,
                 p \in Under(Step(value, k), Places[value.parts[k]])
          PROVE  x \in Under(Step(value, k), Leaves(value.parts[k]))
        BY <1>2, <1>4, <2>2
    <2> QED BY <2>1, <2>2, PlaceIs
<1>5. ASSUME (HasParts(value) => DOMAIN value.parts = {}) /\ x = [path |-> <<>>, at |-> Shown(value)]
      PROVE  x \in Leaves(value)
    <2> DEFINE p == [path |-> <<>>, at |-> value]
    <2>1. p \in Places[value]
        BY PlaceIs
    <2>2. Leaf(p) /\ Shows(p, x)
        BY <1>3, <1>5
    <2> HIDE DEF p
    <2> QED BY <1>1, <2>1, <2>2
<1>6. ASSUME HasParts(value), NEW k \in DOMAIN value.parts,
             x \in Under(Step(value, k), Leaves(value.parts[k]))
      PROVE  x \in Leaves(value)
    <2>1. PICK p \in Under(Step(value, k), Places[value.parts[k]]) : Leaf(p) /\ Shows(p, x)
        BY <1>2, <1>6
    <2>2. p \in Places[value]
        BY <1>6, PlaceIs
    <2> QED BY <1>1, <2>1, <2>2
<1> QED BY <1>1, <1>4, <1>5, <1>6

\* The same place in what becomes of a map or a list.
LEMMA SameStep ==
    ASSUME NEW value, NEW r, NEW k, IsMap(value) <=> IsMap(r)
    PROVE  /\ ~ IsMap(value) => Step(value, k) = Step(r, k)
           /\ IsMap(value) => Step(value, k) = Step(r, Sprint(k))
BY DEF Step, Sprint

\* Nothing is added to it and nothing in it is moved.
LEMMA NormalAddsNothing ==
    \A value \in Values : \A r \in normalizeDecisionValue[value] : Leaves(r) \subseteq Leaves(value)
<1> DEFINE Kept(value) == \A r \in normalizeDecisionValue[value] : Leaves(r) \subseteq Leaves(value)
           S == {value \in Values : Kept(value)}
<1>1. ASSUME NEW value \in Values,
             HasParts(value) => \A k \in DOMAIN value.parts : value.parts[k] \in S
      PROVE  Kept(value)
    <2> SUFFICES ASSUME NEW r \in normalizeDecisionValue[value], NEW x \in Leaves(r)
                 PROVE  x \in Leaves(value)
        OBVIOUS
    <2>1. CASE ~ HasParts(value)
        BY <2>1, NormalIs
    <2>2. CASE IsMap(value)
        <3>1. /\ r \in Values
              /\ r = [kind |-> "object", parts |-> [key \in Keys(value) |-> r.parts[key]]]
              /\ \A key \in Keys(value) : \E k \in DOMAIN value.parts :
                    Sprint(k) = key /\ r.parts[key] \in normalizeDecisionValue[value.parts[k]]
            BY <2>2, NormalIs
        <3>2. IsMap(r) /\ HasParts(r) /\ HasParts(value) /\ DOMAIN r.parts = Keys(value)
            <4>1. r.kind = "object" /\ DOMAIN r.parts = Keys(value)
                BY <3>1
            <4> QED BY <2>2, <4>1 DEF IsMap, HasParts
        <3>3. CASE DOMAIN r.parts = {} /\ x = [path |-> <<>>, at |-> Shown(r)]
            <4>1. DOMAIN value.parts = {}
                BY <3>2, <3>3 DEF Keys
            <4>2. Shown(r) = Shown(value)
                BY <2>2, <3>2 DEF Shown, IsMap
            <4> QED BY <3>3, <4>1, <4>2, LeafIs
        <3>4. ASSUME NEW key \in DOMAIN r.parts, x \in Under(Step(r, key), Leaves(r.parts[key]))
              PROVE  x \in Leaves(value)
            <4>1. PICK k \in DOMAIN value.parts :
                     Sprint(k) = key /\ r.parts[key] \in normalizeDecisionValue[value.parts[k]]
                BY <3>1, <3>2
            <4>2. Leaves(r.parts[key]) \subseteq Leaves(value.parts[k])
                BY <1>1, <3>2, <4>1
            <4>3. Step(r, key) = Step(value, k)
                BY <2>2, <3>2, <4>1, SameStep
            <4>4. x \in Under(Step(value, k), Leaves(value.parts[k]))
                BY <3>4, <4>2, <4>3 DEF Under
            <4> QED BY <3>2, <4>4, LeafIs
        <3> QED BY <3>1, <3>2, <3>3, <3>4, LeafIs
    <2>3. CASE IsList(value)
        <3>1. /\ r \in Values
              /\ r = [kind |-> "list", parts |-> [k \in DOMAIN value.parts |-> r.parts[k]]]
              /\ \A k \in DOMAIN value.parts : r.parts[k] \in normalizeDecisionValue[value.parts[k]]
            BY <2>3, NormalIs
        <3>2. /\ ~ IsMap(r) /\ ~ IsMap(value) /\ HasParts(r) /\ HasParts(value)
              /\ DOMAIN r.parts = DOMAIN value.parts /\ Shown(r) = Shown(value)
            <4>1. r.kind = "list" /\ DOMAIN r.parts = DOMAIN value.parts
                BY <3>1
            <4> QED BY <2>3, <4>1 DEF IsMap, IsList, HasParts, Shown
        <3>3. CASE DOMAIN r.parts = {} /\ x = [path |-> <<>>, at |-> Shown(r)]
            BY <3>2, <3>3, LeafIs
        <3>4. ASSUME NEW k \in DOMAIN r.parts, x \in Under(Step(r, k), Leaves(r.parts[k]))
              PROVE  x \in Leaves(value)
            <4>1. Leaves(r.parts[k]) \subseteq Leaves(value.parts[k])
                BY <1>1, <3>1, <3>2
            <4>2. Step(r, k) = Step(value, k)
                BY <3>2, SameStep
            <4>3. x \in Under(Step(value, k), Leaves(value.parts[k]))
                BY <3>4, <4>1, <4>2 DEF Under
            <4> QED BY <3>2, <4>3, LeafIs
        <3> QED BY <3>1, <3>2, <3>3, <3>4, LeafIs
    <2> QED BY <2>1, <2>2, <2>3 DEF HasParts, IsMap, IsList
<1>2. Values \subseteq S
    <2>1. \A value \in Values :
             (HasParts(value) => \A k \in DOMAIN value.parts : value.parts[k] \in S) => value \in S
        BY <1>1
    <2> HIDE DEF S
    <2> QED BY <2>1, ValueInduction
<1> QED BY <1>2

\* Where no keys print alike in a value, none do in its parts.
LEMMA CollidesIn ==
    ASSUME NEW value \in Values, ~ Collides(value)
    PROVE  /\ ~ KeysCollide(value)
           /\ HasParts(value) => \A k \in DOMAIN value.parts : ~ Collides(value.parts[k])
<1>1. ~ KeysCollide(value)
    <2> DEFINE p == [path |-> <<>>, at |-> value]
    <2>1. p \in Places[value] /\ p.at = value
        BY PlaceIs
    <2> HIDE DEF p
    <2> QED BY <2>1 DEF Collides
<1>2. ASSUME HasParts(value), NEW k \in DOMAIN value.parts, NEW q \in Places[value.parts[k]],
             KeysCollide(q.at)
      PROVE  FALSE
    <2> DEFINE p == [path |-> <<Step(value, k), q.path>>, at |-> q.at]
    <2>1. p \in Under(Step(value, k), Places[value.parts[k]]) /\ p.at = q.at
        BY DEF Under
    <2> HIDE DEF p
    <2>2. p \in Places[value]
        BY <1>2, <2>1, PlaceIs
    <2> QED BY <1>2, <2>1, <2>2 DEF Collides
<1> QED BY <1>1, <1>2 DEF Collides

\* Nothing is lost of a value where no keys print alike.
LEMMA NormalLosesNothing ==
    \A value \in Values : ~ Collides(value) =>
        \A r \in normalizeDecisionValue[value] : Leaves(value) \subseteq Leaves(r)
<1> DEFINE Kept(value) ==
              ~ Collides(value) => \A r \in normalizeDecisionValue[value] : Leaves(value) \subseteq Leaves(r)
           S == {value \in Values : Kept(value)}
<1>1. ASSUME NEW value \in Values,
             HasParts(value) => \A k \in DOMAIN value.parts : value.parts[k] \in S
      PROVE  Kept(value)
    <2> SUFFICES ASSUME ~ Collides(value), NEW r \in normalizeDecisionValue[value],
                        NEW x \in Leaves(value)
                 PROVE  x \in Leaves(r)
        OBVIOUS
    <2>1. CASE ~ HasParts(value)
        BY <2>1, NormalIs
    <2>2. CASE IsMap(value)
        <3>1. /\ r \in Values
              /\ r = [kind |-> "object", parts |-> [key \in Keys(value) |-> r.parts[key]]]
              /\ \A key \in Keys(value) : \E k \in DOMAIN value.parts :
                    Sprint(k) = key /\ r.parts[key] \in normalizeDecisionValue[value.parts[k]]
            BY <2>2, NormalIs
        <3>2. IsMap(r) /\ HasParts(r) /\ HasParts(value) /\ DOMAIN r.parts = Keys(value)
            <4>1. r.kind = "object" /\ DOMAIN r.parts = Keys(value)
                BY <3>1
            <4> QED BY <2>2, <4>1 DEF IsMap, HasParts
        <3>3. CASE DOMAIN value.parts = {} /\ x = [path |-> <<>>, at |-> Shown(value)]
            <4>1. DOMAIN r.parts = {}
                BY <3>2, <3>3 DEF Keys
            <4>2. Shown(r) = Shown(value)
                BY <2>2, <3>2 DEF Shown, IsMap
            <4> QED BY <3>1, <3>3, <4>1, <4>2, LeafIs
        <3>4. ASSUME NEW k \in DOMAIN value.parts, x \in Under(Step(value, k), Leaves(value.parts[k]))
              PROVE  x \in Leaves(r)
            <4>1. Sprint(k) \in DOMAIN r.parts
                BY <3>2 DEF Keys
            <4>2. r.parts[Sprint(k)] \in normalizeDecisionValue[value.parts[k]]
                BY <2>2, <3>1, <3>2, <4>1, CollidesIn DEF KeysCollide
            <4>3. ~ Collides(value.parts[k])
                BY <3>2, CollidesIn
            <4>4. Leaves(value.parts[k]) \subseteq Leaves(r.parts[Sprint(k)])
                BY <1>1, <3>2, <4>2, <4>3
            <4>5. Step(value, k) = Step(r, Sprint(k))
                BY <2>2, <3>2, SameStep
            <4>6. x \in Under(Step(r, Sprint(k)), Leaves(r.parts[Sprint(k)]))
                BY <3>4, <4>4, <4>5 DEF Under
            <4> QED BY <3>1, <3>2, <4>1, <4>6, LeafIs
        <3> QED BY <3>2, <3>3, <3>4, LeafIs
    <2>3. CASE IsList(value)
        <3>1. /\ r \in Values
              /\ r = [kind |-> "list", parts |-> [k \in DOMAIN value.parts |-> r.parts[k]]]
              /\ \A k \in DOMAIN value.parts : r.parts[k] \in normalizeDecisionValue[value.parts[k]]
            BY <2>3, NormalIs
        <3>2. /\ ~ IsMap(r) /\ ~ IsMap(value) /\ HasParts(r) /\ HasParts(value)
              /\ DOMAIN r.parts = DOMAIN value.parts /\ Shown(r) = Shown(value)
            <4>1. r.kind = "list" /\ DOMAIN r.parts = DOMAIN value.parts
                BY <3>1
            <4> QED BY <2>3, <4>1 DEF IsMap, IsList, HasParts, Shown
        <3>3. CASE DOMAIN value.parts = {} /\ x = [path |-> <<>>, at |-> Shown(value)]
            BY <3>1, <3>2, <3>3, LeafIs
        <3>4. ASSUME NEW k \in DOMAIN value.parts, x \in Under(Step(value, k), Leaves(value.parts[k]))
              PROVE  x \in Leaves(r)
            <4>1. ~ Collides(value.parts[k])
                BY <3>2, CollidesIn
            <4>2. Leaves(value.parts[k]) \subseteq Leaves(r.parts[k])
                BY <1>1, <3>1, <3>2, <4>1
            <4>3. Step(value, k) = Step(r, k)
                BY <3>2, SameStep
            <4>4. x \in Under(Step(r, k), Leaves(r.parts[k]))
                BY <3>4, <4>2, <4>3 DEF Under
            <4> QED BY <3>1, <3>2, <4>4, LeafIs
        <3> QED BY <3>2, <3>3, <3>4, LeafIs
    <2> QED BY <2>1, <2>2, <2>3 DEF HasParts, IsMap, IsList
<1>2. Values \subseteq S
    <2>1. \A value \in Values :
             (HasParts(value) => \A k \in DOMAIN value.parts : value.parts[k] \in S) => value \in S
        BY <1>1
    <2> HIDE DEF S
    <2> QED BY <2>1, ValueInduction
<1> QED BY <1>2

\* A value where no keys print alike becomes one thing only.
LEMMA NormalIsOne ==
    \A value \in Values : ~ Collides(value) =>
        \A r, s \in normalizeDecisionValue[value] : r = s
<1> DEFINE One(value) == ~ Collides(value) => \A r, s \in normalizeDecisionValue[value] : r = s
           S == {value \in Values : One(value)}
<1>1. ASSUME NEW value \in Values,
             HasParts(value) => \A k \in DOMAIN value.parts : value.parts[k] \in S
      PROVE  One(value)
    <2> SUFFICES ASSUME ~ Collides(value),
                        NEW r \in normalizeDecisionValue[value], NEW s \in normalizeDecisionValue[value]
                 PROVE  r = s
        OBVIOUS
    <2>1. CASE ~ HasParts(value)
        BY <2>1, NormalIs
    <2>2. CASE IsMap(value)
        <3>1. /\ r = [kind |-> "object", parts |-> [key \in Keys(value) |-> r.parts[key]]]
              /\ \A key \in Keys(value) : \E k \in DOMAIN value.parts :
                    Sprint(k) = key /\ r.parts[key] \in normalizeDecisionValue[value.parts[k]]
            BY <2>2, NormalIs
        <3>2. /\ s = [kind |-> "object", parts |-> [key \in Keys(value) |-> s.parts[key]]]
              /\ \A key \in Keys(value) : \E k \in DOMAIN value.parts :
                    Sprint(k) = key /\ s.parts[key] \in normalizeDecisionValue[value.parts[k]]
            BY <2>2, NormalIs
        <3>3. HasParts(value)
            BY <2>2 DEF HasParts, IsMap
        <3>4. ASSUME NEW key \in Keys(value)
              PROVE  r.parts[key] = s.parts[key]
            <4>1. PICK k \in DOMAIN value.parts :
                     Sprint(k) = key /\ r.parts[key] \in normalizeDecisionValue[value.parts[k]]
                BY <3>1
            <4>2. PICK j \in DOMAIN value.parts :
                     Sprint(j) = key /\ s.parts[key] \in normalizeDecisionValue[value.parts[j]]
                BY <3>2
            <4>3. j = k
                BY <2>2, <4>1, <4>2, CollidesIn DEF KeysCollide
            <4> QED BY <1>1, <3>3, <4>1, <4>2, <4>3, CollidesIn
        <3>5. [key \in Keys(value) |-> r.parts[key]] = [key \in Keys(value) |-> s.parts[key]]
            BY <3>4
        <3> QED BY <3>1, <3>2, <3>5
    <2>3. CASE IsList(value)
        <3>1. /\ r = [kind |-> "list", parts |-> [k \in DOMAIN value.parts |-> r.parts[k]]]
              /\ \A k \in DOMAIN value.parts : r.parts[k] \in normalizeDecisionValue[value.parts[k]]
            BY <2>3, NormalIs
        <3>2. /\ s = [kind |-> "list", parts |-> [k \in DOMAIN value.parts |-> s.parts[k]]]
              /\ \A k \in DOMAIN value.parts : s.parts[k] \in normalizeDecisionValue[value.parts[k]]
            BY <2>3, NormalIs
        <3>3. HasParts(value)
            BY <2>3 DEF HasParts, IsList
        <3>4. \A k \in DOMAIN value.parts : r.parts[k] = s.parts[k]
            BY <1>1, <3>1, <3>2, <3>3, CollidesIn
        <3>5. [k \in DOMAIN value.parts |-> r.parts[k]] = [k \in DOMAIN value.parts |-> s.parts[k]]
            BY <3>4
        <3> QED BY <3>1, <3>2, <3>5
    <2> QED BY <2>1, <2>2, <2>3 DEF HasParts, IsMap, IsList
<1>2. Values \subseteq S
    <2>1. \A value \in Values :
             (HasParts(value) => \A k \in DOMAIN value.parts : value.parts[k] \in S) => value \in S
        BY <1>1
    <2> HIDE DEF S
    <2> QED BY <2>1, ValueInduction
<1> QED BY <1>2

-----------------------------------------------------------------------------
(* What a question becomes. *)

\* Whether it may be refused does not depend on the order of its maps, and there is one
\* form for it at most, when no keys in its criteria print alike.
LEMMA QuestionIsOne ==
    ASSUME NEW question, question.criteria \in Values, ~ Collides(question.criteria)
    PROVE  \A q, s \in normalizeDecisionQuestion(question) : q = s
<1> DEFINE type == ToLower(TrimSpace(question.type)).word
           instructions == TrimSpace(question.instructions)
           N == normalizeDecisionValue[question.criteria]
           Fits(c) == \/ type = "choice" /\ IsChoice(c)
                      \/ type = "score" /\ IsScore(c)
                      \/ type = "noul"
           forms == IF IsBlank(instructions) THEN {} ELSE {c \in N : Fits(c)}
           Form(t) == [type |-> type, instructions |-> instructions, criteria |-> t]
<1>1. \A c, d \in N : c = d
    BY NormalIsOne
<1>2. forms \subseteq N
    OBVIOUS
<1>3. normalizeDecisionQuestion(question) =
         {Form(t) : t \in UNION {Strings(type, c) : c \in forms}}
            \cup (IF N \subseteq forms THEN {} ELSE {Refused})
    BY DEF normalizeDecisionQuestion
<1>4. \A c : \A t, u \in Strings(type, c) : t = u
    BY DEF Strings
<1> HIDE DEF forms, N, Form
<1>5. CASE forms = {}
    BY <1>3, <1>5
<1>6. CASE forms # {}
    <2>1. PICK c : forms = {c}
        BY <1>1, <1>2, <1>6
    <2>2. N \subseteq forms
        BY <1>1, <1>2, <1>6
    <2> QED BY <1>3, <1>4, <2>1, <2>2
<1> QED BY <1>5, <1>6

\* A question that is not refused has options, or labels, when its type asks for them.
LEMMA QuestionHasCriteria ==
    ASSUME NEW question, question.criteria \in Values,
           NEW q \in normalizeDecisionQuestion(question), q # Refused
    PROVE  /\ q.type = "choice" => DOMAIN q.criteria # {}
           /\ q.type = "score" => Len(q.criteria) \in Nat /\ Len(q.criteria) > 0
<1> DEFINE type == ToLower(TrimSpace(question.type)).word
           instructions == TrimSpace(question.instructions)
<1>1. PICK c \in normalizeDecisionValue[question.criteria] : \E t \in Strings(type, c) :
         /\ q = [type |-> type, instructions |-> instructions, criteria |-> t]
         /\ type = "choice" => IsChoice(c)
         /\ type = "score" => IsScore(c)
    BY DEF normalizeDecisionQuestion
<1>2. PICK t \in Strings(type, c) : q.type = type /\ q.criteria = t
    BY <1>1
<1>3. c \in Values
    BY NormalIs
<1> HIDE DEF type, instructions
<1>4. CASE type = "choice"
    <2>1. DOMAIN t = DOMAIN c.parts
        BY <1>4 DEF Strings
    <2> QED BY <1>1, <1>2, <1>4, <2>1 DEF IsChoice
<1>5. CASE type = "score"
    <2>1. t = [i \in DOMAIN c.parts |-> TrimSpace(c.parts[i].text)]
        BY <1>5 DEF Strings
    <2>2. c.parts \in Seq(Values) /\ c.parts # <<>>
        BY <1>1, <1>3, <1>5, ValuesAssumption DEF IsScore
    <2>3. Len(c.parts) \in Nat /\ Len(c.parts) > 0 /\ DOMAIN c.parts = 1..Len(c.parts)
        BY <2>2
    <2>4. Len(t) = Len(c.parts)
        BY <2>1, <2>3
    <2> QED BY <1>2, <1>5, <2>3, <2>4
<1> QED BY <1>2, <1>4, <1>5

-----------------------------------------------------------------------------
(* The invariant: how far the decoding is, and what the first one gave. *)

Questions(name) == normalizeDecisionQuestion(body.questions[name])

\* The state and the questions in S are decoded.
Decoded(r, S) ==
    /\ r = [state |-> r.state, questions |-> r.questions]
    /\ r.state \in normalizeDecisionValue[body.state]
    /\ r.questions = [name \in S |-> r.questions[name]]
    /\ \A name \in S : ~ IsBlank(name) /\ r.questions[name] \in Questions(name) \ {Refused}

IsAccepted(r) == DOMAIN body.questions # {} /\ Decoded(r, DOMAIN body.questions)
IsRefused(r) ==
    /\ r = Empty
    /\ \/ DOMAIN body.questions = {}
       \/ \E name \in DOMAIN body.questions : IsBlank(name) \/ Refused \in Questions(name)

IInv ==
    /\ body \in Bodies
    /\ turn \in {1, 2}
    /\ pc \in {"decoding", "questions", "accepted", "refused", "answered"}
    /\ pc = "decoding" => request = Empty
    /\ pc = "questions" =>
          /\ DOMAIN body.questions # {}
          /\ todo \subseteq DOMAIN body.questions
          /\ Decoded(request, DOMAIN body.questions \ todo)
    /\ pc \in {"accepted", "answered"} => IsAccepted(request)
    /\ pc = "refused" => IsRefused(request)
    /\ turn = 2 =>
          /\ first = [pc |-> first.pc, request |-> first.request]
          /\ \/ first.pc = "accepted" /\ IsAccepted(first.request)
             \/ first.pc = "refused" /\ IsRefused(first.request)
    /\ pc # "answered" => answers = <<>>
    /\ pc = "answered" =>
          answers \in Picks([name \in DOMAIN request.questions |-> MockAnswers(request.questions[name])])

\* The values in a body.
LEMMA BodyValues ==
    ASSUME body \in Bodies
    PROVE  /\ body.state \in Values
           /\ \A name \in DOMAIN body.questions : body.questions[name].criteria \in Values
BY ValuesAssumption

LEMMA InitIInv == Init => IInv
BY DEF Init, IInv

\* Every step keeps it.
LEMMA NextIInv == IInv /\ [Next]_vars => IInv'
<1> SUFFICES ASSUME IInv, [Next]_vars
             PROVE  IInv'
    OBVIOUS
<1>0. CASE UNCHANGED vars
    BY <1>0 DEF vars, IInv, Decoded, IsAccepted, IsRefused, Questions
<1>1. CASE NormalizeState
    <2>1. PICK state \in normalizeDecisionValue[body.state] :
             request' = [state |-> state, questions |-> <<>>]
        BY <1>1 DEF NormalizeState
    <2>2. Decoded(request, DOMAIN body.questions \ todo)'
        BY <1>1, <2>1 DEF NormalizeState, Decoded
    <2> QED BY <1>1, <2>2 DEF NormalizeState, IInv, IsAccepted, IsRefused, Decoded, Questions
<1>2. CASE NoQuestions
    BY <1>2 DEF NoQuestions, IInv, IsAccepted, IsRefused, Decoded, Questions
<1>3. CASE Accept
    BY <1>3 DEF Accept, IInv, IsAccepted, IsRefused, Decoded, Questions
<1>4. CASE Again
    BY <1>4 DEF Again, IInv, IsAccepted, IsRefused, Decoded, Questions
<1>5. CASE MockSystemOne
    BY <1>5 DEF MockSystemOne, IInv, IsAccepted, IsRefused, Decoded, Questions
<1>6. ASSUME NEW name \in todo, NormalizeQuestion(name)
      PROVE  IInv'
    <2>1. PICK q \in Questions(name) \ {Refused} :
             request' = [request EXCEPT
                            !.questions = [n \in DOMAIN @ \cup {name} |-> IF n = name THEN q ELSE @[n]]]
        BY <1>6 DEF NormalizeQuestion, Questions
    <2> DEFINE S == DOMAIN body.questions \ todo
               R == DOMAIN body.questions \ (todo \ {name})
               asked == [n \in DOMAIN request.questions \cup {name} |->
                            IF n = name THEN q ELSE request.questions[n]]
    <2>a. Decoded(request, S) /\ todo \subseteq DOMAIN body.questions
        BY <1>6 DEF NormalizeQuestion, IInv
    <2>b. DOMAIN request.questions = S /\ R = S \cup {name}
        BY <2>a DEF Decoded
    <2>c. /\ request' = [state |-> request.state, questions |-> asked]
          /\ ~ IsBlank(name) /\ body' = body /\ todo' = todo \ {name}
        BY <1>6, <2>1, <2>a DEF NormalizeQuestion, Decoded
    <2>d. /\ asked = [n \in R |-> asked[n]]
          /\ \A n \in R : ~ IsBlank(n) /\ asked[n] \in Questions(n) \ {Refused}
        BY <2>1, <2>a, <2>b, <2>c DEF Decoded
    <2>2. Decoded(request, DOMAIN body.questions \ todo)'
        <3>1. request'.state = request.state /\ request'.questions = asked
            BY <2>c
        <3>2. request.state \in normalizeDecisionValue[body.state]
            BY <2>a DEF Decoded
        <3> HIDE DEF asked, S
        <3> QED BY <2>c, <2>d, <3>1, <3>2 DEF Decoded, Questions
    <2> QED BY <1>6, <2>2 DEF NormalizeQuestion, IInv, IsAccepted, IsRefused, Decoded, Questions
<1>7. ASSUME NEW name \in todo, RefuseQuestion(name)
      PROVE  IInv'
    BY <1>7 DEF RefuseQuestion, IInv, IsAccepted, IsRefused, Decoded, Questions
<1> QED BY <1>0, <1>1, <1>2, <1>3, <1>4, <1>5, <1>6, <1>7 DEF Next

THEOREM Invariance == Spec => []IInv
<1>1. Init => IInv
    BY InitIInv
<1>2. IInv /\ [Next]_vars => IInv'
    BY NextIInv
<1> QED BY <1>1, <1>2, PTL DEF Spec

-----------------------------------------------------------------------------
(* The properties. *)

\* Whatever maps a body nests in maps and lists, the state that is accepted can be written
\* as JSON (decodeDecisionRequest, then json.Marshal in invokeDecisionMakerHTTP).
THEOREM AcceptedIsEncodable == Spec => []Encodable
<1>1. IInv => Encodable
    <2> SUFFICES ASSUME IInv, pc = "accepted"
                 PROVE  \A p \in Places[request.state] : StringKeyed(p.at)
        BY DEF Encodable
    <2>1. body.state \in Values /\ request.state \in normalizeDecisionValue[body.state]
        BY BodyValues DEF IInv, IsAccepted, Decoded
    <2> QED BY <2>1, NormalIsKeyed
<1> QED BY <1>1, Invariance, PTL

\* The decision maker gets every scalar and every empty map and list of the state at its
\* place, and no others, but for keys that print alike (normalizeDecisionValue).
THEOREM AcceptedIsSent == Spec => []StateIsSent
<1>1. IInv => StateIsSent
    <2> SUFFICES ASSUME IInv, pc = "accepted"
                 PROVE  /\ Leaves(request.state) \subseteq Leaves(body.state)
                        /\ Collides(body.state) \/ Leaves(body.state) \subseteq Leaves(request.state)
        BY DEF StateIsSent
    <2>1. body.state \in Values /\ request.state \in normalizeDecisionValue[body.state]
        BY BodyValues DEF IInv, IsAccepted, Decoded
    <2> QED BY <2>1, NormalAddsNothing, NormalLosesNothing
<1> QED BY <1>1, Invariance, PTL

\* A body in which no keys print alike has one outcome and one decoded form, in whatever
\* order Go goes through its maps and its questions (decodeDecisionRequest).
THEOREM DecodingIsRepeatable == Spec => []Repeatable
<1>1. IInv => Repeatable
    <2> SUFFICES ASSUME IInv, turn = 2, pc \in {"accepted", "refused"}, ~ Ambiguous
                 PROVE  first = [pc |-> pc, request |-> request]
        BY DEF Repeatable
    <2>1. /\ body.state \in Values
          /\ \A name \in DOMAIN body.questions : body.questions[name].criteria \in Values
        BY BodyValues DEF IInv
    <2>2. \A r, s \in normalizeDecisionValue[body.state] : r = s
        BY <2>1, NormalIsOne DEF Ambiguous
    <2>3. ASSUME NEW name \in DOMAIN body.questions
          PROVE  \A q, s \in Questions(name) : q = s
        BY <2>1, QuestionIsOne DEF Ambiguous, Questions
    <2>4. ASSUME NEW r, NEW s, IsAccepted(r), IsAccepted(s)
          PROVE  r = s
        <3>1. r.state = s.state
            BY <2>2, <2>4 DEF IsAccepted, Decoded
        <3>2. \A name \in DOMAIN body.questions : r.questions[name] = s.questions[name]
            BY <2>3, <2>4 DEF IsAccepted, Decoded
        <3>3. r.questions = s.questions
            <4>1. [name \in DOMAIN body.questions |-> r.questions[name]]
                     = [name \in DOMAIN body.questions |-> s.questions[name]]
                BY <3>2
            <4> QED BY <2>4, <4>1 DEF IsAccepted, Decoded
        <3> QED BY <2>4, <3>1, <3>3 DEF IsAccepted, Decoded
    <2>5. ASSUME NEW r, NEW s, IsAccepted(r), IsRefused(s)
          PROVE  FALSE
        BY <2>3, <2>5 DEF IsAccepted, IsRefused, Decoded
    <2>6. \A r, s : IsRefused(r) /\ IsRefused(s) => r = s
        BY DEF IsRefused
    <2>7. /\ first = [pc |-> first.pc, request |-> first.request]
          /\ \/ first.pc = "accepted" /\ IsAccepted(first.request)
             \/ first.pc = "refused" /\ IsRefused(first.request)
          /\ \/ pc = "accepted" /\ IsAccepted(request)
             \/ pc = "refused" /\ IsRefused(request)
        BY DEF IInv
    <2> QED BY <2>4, <2>5, <2>6, <2>7
<1> QED BY <1>1, Invariance, PTL

\* The mock never answers with an option or a position that the question does not have:
\* what normalizeDecisionQuestion lets pass has some.
THEOREM AnswersAreOptions == Spec => []AnswersFit
<1>1. IInv => AnswersFit
    <2> SUFFICES ASSUME IInv, NEW name \in DOMAIN answers
                 PROVE  /\ request.questions[name].type = "choice" => answers[name].choice \in answers[name].options
                        /\ request.questions[name].type = "score" => answers[name].score < answers[name].labels
        BY DEF AnswersFit
    <2>1. pc = "answered"
        <3>1. DOMAIN <<>> = {}
            OBVIOUS
        <3> QED BY <3>1 DEF IInv
    <2>2. /\ IsAccepted(request)
          /\ answers \in Picks([n \in DOMAIN request.questions |-> MockAnswers(request.questions[n])])
        BY <2>1 DEF IInv
    <2>3. name \in DOMAIN request.questions /\ answers[name] \in MockAnswers(request.questions[name])
        BY <2>2 DEF Picks
    <2> DEFINE q == request.questions[name]
    <2>4. name \in DOMAIN body.questions /\ q \in Questions(name) \ {Refused}
        BY <2>2, <2>3 DEF IsAccepted, Decoded
    <2>5. /\ q.type = "choice" => DOMAIN q.criteria # {}
          /\ q.type = "score" => Len(q.criteria) \in Nat /\ Len(q.criteria) > 0
        BY <2>4, BodyValues, QuestionHasCriteria DEF IInv, Questions
    <2> HIDE DEF q
    <2>6. ASSUME q.type = "choice"
          PROVE  answers[name].choice \in answers[name].options
        <3>1. PICK k \in DOMAIN q.criteria :
                 answers[name] = [choice |-> k.text.word, options |-> {x.text.word : x \in DOMAIN q.criteria}]
            BY <2>3, <2>5, <2>6 DEF MockAnswers, q
        <3> QED BY <3>1
    <2>7. ASSUME q.type = "score"
          PROVE  answers[name].score < answers[name].labels
        <3>1. PICK n \in {0} \cup 0..(Len(q.criteria) - 1) :
                 answers[name] = [score |-> n, labels |-> Len(q.criteria)]
            BY <2>3, <2>7 DEF MockAnswers, q
        <3>2. n < Len(q.criteria)
            BY <2>5, <2>7
        <3> QED BY <3>1, <3>2
    <2> QED BY <2>6, <2>7 DEF q
<1> QED BY <1>1, Invariance, PTL
=============================================================================
