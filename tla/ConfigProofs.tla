---------------------------- MODULE ConfigProofs ----------------------------
(***************************************************************************)
(* Proofs about Config: what the splitting of a list gives, for any text,  *)
(* and the safety properties.                                              *)
(***************************************************************************)
EXTENDS Config, FunctionTheorems, FiniteSetTheorems, SequenceTheorems, TLAPS

-----------------------------------------------------------------------------
(* Sets of naturals. *)

\* Induction, for a set of naturals.
THEOREM SetInduction ==
    ASSUME NEW S \in SUBSET Nat, 0 \in S, \A n \in S : n + 1 \in S
    PROVE  S = Nat
<1> SUFFICES ASSUME NEW k \in Nat, k \notin S PROVE FALSE
    OBVIOUS
<1> DEFINE T == {i \in 0..k : i \notin S}
           f == [i \in T |-> i - 1]
<1>1. IsFiniteSet(T) /\ Cardinality(T) \in Nat
    <2>1. IsFiniteSet(0..k)
        BY FS_Interval
    <2>2. T \in SUBSET (0..k)
        OBVIOUS
    <2>3. IsFiniteSet(T)
        <3> HIDE DEF T
        <3> QED BY <2>1, <2>2, FS_Subset
    <2> HIDE DEF T
    <2> QED BY <2>3, FS_CardinalityType
<1>2. IsFiniteSet(T \ {k}) /\ Cardinality(T \ {k}) = Cardinality(T) - 1
    <2>1. k \in T
        OBVIOUS
    <2> HIDE DEF T
    <2> QED BY <1>1, <2>1, FS_RemoveElement
<1>3. f \in Injection(T, T \ {k})
    <2>1. \A i \in T : i - 1 \in T \ {k}
        <3> SUFFICES ASSUME NEW i \in T PROVE i - 1 \in T \ {k}
            OBVIOUS
        <3>1. i \in 0..k /\ i # 0
            OBVIOUS
        <3>2. i - 1 \in 0..k /\ i - 1 # k /\ (i - 1) + 1 = i
            BY <3>1
        <3>3. i - 1 \notin S
            BY <3>2
        <3> QED BY <3>2, <3>3
    <2>2. \A i, j \in T : i - 1 = j - 1 => i = j
        OBVIOUS
    <2>3. f \in [T -> T \ {k}] /\ \A i, j \in T : f[i] = f[j] => i = j
        BY <2>1, <2>2
    <2>4. \A g : g \in [T -> T \ {k}] /\ (\A i, j \in T : g[i] = g[j] => i = j) => g \in Injection(T, T \ {k})
        <3> HIDE DEF T
        <3> QED BY DEF Injection, IsInjective
    <2> HIDE DEF f, T
    <2> QED BY <2>3, <2>4
<1>4. Cardinality(T) <= Cardinality(T \ {k})
    <2> HIDE DEF f, T
    <2> QED BY <1>2, <1>3, FS_Injection
<1> HIDE DEF T
<1> QED BY <1>1, <1>2, <1>4

\* A finite set of naturals that is not empty has a least and a greatest element.
LEMMA Bounds ==
    ASSUME NEW n \in Nat
    PROVE  \A T \in SUBSET (0..n) : T # {} =>
              /\ \E x \in T : \A y \in T : x <= y
              /\ \E x \in T : \A y \in T : x >= y
<1> DEFINE Bounded(k) == \A T \in SUBSET (0..k) : T # {} =>
              /\ \E x \in T : \A y \in T : x <= y
              /\ \E x \in T : \A y \in T : x >= y
           S == {k \in Nat : Bounded(k)}
<1>1. 0 \in S
    <2>1. ASSUME NEW T \in SUBSET (0..0), T # {} PROVE T = {0}
        <3>1. \A y \in T : y = 0
            OBVIOUS
        <3> QED BY <2>1, <3>1
    <2> QED BY <2>1
<1>2. ASSUME NEW k \in S PROVE k + 1 \in S
    <2> SUFFICES ASSUME NEW T \in SUBSET (0..k+1), T # {}
                 PROVE  /\ \E x \in T : \A y \in T : x <= y
                        /\ \E x \in T : \A y \in T : x >= y
        OBVIOUS
    <2> DEFINE U == T \ {k + 1}
    <2>0. k \in Nat
        OBVIOUS
    <2>1. U \in SUBSET (0..k)
        BY <2>0
    <2>2. CASE U = {}
        <3>1. \A y \in T : y = k + 1
            BY <2>2
        <3>2. k + 1 \in T
            BY <3>1
        <3> QED BY <3>1, <3>2, <2>0
    <2>3. CASE U # {}
        <3>1. PICK lo \in U : \A y \in U : lo <= y
            BY <2>1, <2>3
        <3>2. PICK hi \in U : \A y \in U : hi >= y
            BY <2>1, <2>3
        <3>3. \A y \in T : lo <= y
            BY <3>1, <2>1, <2>0
        <3>4. CASE k + 1 \in T
            <4>1. \A y \in T : k + 1 >= y
                BY <2>0
            <4> QED BY <3>3, <3>4, <4>1
        <3>5. CASE k + 1 \notin T
            <4>1. U = T
                BY <3>5
            <4> QED BY <3>3, <3>2, <4>1
        <3> QED BY <3>4, <3>5
    <2> QED BY <2>2, <2>3
<1>3. S = Nat
    <2> HIDE DEF Bounded
    <2>1. S \in SUBSET Nat /\ \A k \in S : k + 1 \in S
        BY <1>2
    <2> HIDE DEF S
    <2> QED BY <1>1, <2>1, SetInduction
<1> QED BY <1>3

-----------------------------------------------------------------------------
(* Sets in order. *)

UpTo(S, x) == {y \in S : y <= x}
Rank(S, x) == Cardinality(UpTo(S, x))

\* The ranks of the elements of a set of n numbers are the numbers up to n, in the order
\* of the elements.
LEMMA Ranks ==
    ASSUME NEW S \in SUBSET Nat, IsFiniteSet(S)
    PROVE  /\ Cardinality(S) \in Nat
           /\ \A x \in S : Rank(S, x) \in 1..Cardinality(S)
           /\ \A x, y \in S : x < y => Rank(S, x) < Rank(S, y)
           /\ \A j \in 1..Cardinality(S) : \E x \in S : Rank(S, x) = j
<1>1. Cardinality(S) \in Nat
    BY FS_CardinalityType
<1>2. \A x \in S : IsFiniteSet(UpTo(S, x)) /\ Rank(S, x) \in 0..Cardinality(S)
    <2> SUFFICES ASSUME NEW x \in S
                 PROVE  IsFiniteSet(UpTo(S, x)) /\ Rank(S, x) \in 0..Cardinality(S)
        OBVIOUS
    <2>1. UpTo(S, x) \in SUBSET S
        BY DEF UpTo
    <2>2. IsFiniteSet(UpTo(S, x)) /\ Cardinality(UpTo(S, x)) <= Cardinality(S)
        BY <2>1, FS_Subset
    <2>3. Cardinality(UpTo(S, x)) \in Nat
        BY <2>2, FS_CardinalityType
    <2> QED BY <1>1, <2>2, <2>3 DEF Rank
<1>3. \A x \in S : Rank(S, x) # 0
    <2> SUFFICES ASSUME NEW x \in S PROVE Rank(S, x) # 0
        OBVIOUS
    <2>1. x \in UpTo(S, x)
        BY DEF UpTo
    <2> QED BY <1>2, <2>1, FS_EmptySet DEF Rank
<1>4. \A x, y \in S : x < y => Rank(S, x) < Rank(S, y)
    <2> SUFFICES ASSUME NEW x \in S, NEW y \in S, x < y PROVE Rank(S, x) < Rank(S, y)
        OBVIOUS
    <2>0. x \in Nat /\ y \in Nat /\ \A z \in S : z <= x => z <= y
        OBVIOUS
    <2>1. UpTo(S, x) \in SUBSET UpTo(S, y)
        BY <2>0 DEF UpTo
    <2>2. y \in UpTo(S, y) /\ y \notin UpTo(S, x)
        BY <2>0 DEF UpTo
    <2>3. Rank(S, x) <= Rank(S, y) /\ Rank(S, x) # Rank(S, y)
        BY <1>2, <2>1, <2>2, FS_Subset DEF Rank
    <2> QED BY <1>1, <1>2, <2>3
<1>5. \A x \in S : Rank(S, x) \in 1..Cardinality(S)
    BY <1>1, <1>2, <1>3
<1>6. \A j \in 1..Cardinality(S) : \E x \in S : Rank(S, x) = j
    <2> DEFINE rank == [x \in S |-> Rank(S, x)]
    <2>1. rank \in [S -> 1..Cardinality(S)]
        BY <1>5
    <2>2. \A x, y \in S : rank[x] = rank[y] => x = y
        <3> SUFFICES ASSUME NEW x \in S, NEW y \in S, x # y PROVE Rank(S, x) # Rank(S, y)
            OBVIOUS
        <3>1. x < y \/ y < x
            OBVIOUS
        <3> QED BY <1>4, <1>5, <1>1, <3>1
    <2>3. IsFiniteSet(1..Cardinality(S)) /\ Cardinality(1..Cardinality(S)) = Cardinality(S)
        BY <1>1, FS_Interval
    <2>4. \A x \in S : rank[x] = Rank(S, x)
        OBVIOUS
    <2> HIDE DEF rank
    <2>5. rank \in Injection(S, 1..Cardinality(S))
        BY <2>1, <2>2, Fun_IsInj
    <2>6. rank \in Surjection(S, 1..Cardinality(S))
        BY <2>3, <2>5, FS_Injection
    <2> QED BY <2>4, <2>6 DEF Surjection
<1> QED BY <1>1, <1>4, <1>5, <1>6

\* InOrder[S] has every element of S at its rank.
LEMMA InOrderRanks ==
    ASSUME NEW S \in SUBSET Nat, IsFiniteSet(S)
    PROVE  /\ DOMAIN InOrder[S] = 1..Cardinality(S)
           /\ \A j \in 1..Cardinality(S) : InOrder[S][j] \in S /\ Rank(S, InOrder[S][j]) = j
           /\ \A x \in S : InOrder[S][Rank(S, x)] = x
           /\ InOrder[S] \in [1..Cardinality(S) -> S]
<1>0. InOrder[S] = [j \in 1..Cardinality(S) |-> CHOOSE x \in S : Rank(S, x) = j]
    BY DEF InOrder, Rank, UpTo
<1>1. DOMAIN InOrder[S] = 1..Cardinality(S)
    BY <1>0
<1>2. ASSUME NEW j \in 1..Cardinality(S)
      PROVE  InOrder[S][j] \in S /\ Rank(S, InOrder[S][j]) = j
    <2>1. InOrder[S][j] = CHOOSE x \in S : Rank(S, x) = j
        BY <1>0
    <2>2. \E x \in S : Rank(S, x) = j
        BY Ranks
    <2> QED BY <2>1, <2>2
<1>3. ASSUME NEW x \in S PROVE InOrder[S][Rank(S, x)] = x
    <2> DEFINE y == InOrder[S][Rank(S, x)]
    <2>1. Rank(S, x) \in 1..Cardinality(S)
        BY Ranks
    <2>2. y \in S /\ Rank(S, y) = Rank(S, x)
        BY <1>2, <2>1
    <2> HIDE DEF y
    <2>3. ~ (x < y) /\ ~ (y < x)
        BY <2>1, <2>2, Ranks
    <2>4. x = y
        BY <2>2, <2>3
    <2> QED BY <2>4 DEF y
<1>4. InOrder[S] \in [1..Cardinality(S) -> S]
    BY <1>0, <1>2
<1> QED BY <1>1, <1>2, <1>3, <1>4

\* An increasing map of one set onto another takes the order of the one to the order of
\* the other.
LEMMA SameOrder ==
    ASSUME NEW S \in SUBSET Nat, IsFiniteSet(S), NEW T \in SUBSET Nat,
           NEW g \in [S -> T],
           \A x, y \in S : x < y => g[x] < g[y],
           \A t \in T : \E x \in S : g[x] = t
    PROVE  /\ IsFiniteSet(T) /\ Cardinality(T) = Cardinality(S)
           /\ \A j \in 1..Cardinality(S) : InOrder[T][j] = g[InOrder[S][j]]
<1>0. \A x \in S : x \in Nat /\ g[x] \in T /\ g[x] \in Nat
    OBVIOUS
<1>1. \A x, y \in S : g[x] = g[y] => x = y
    <2> SUFFICES ASSUME NEW x \in S, NEW y \in S, x # y PROVE g[x] # g[y]
        OBVIOUS
    <2>1. x < y \/ y < x
        BY <1>0
    <2>2. g[x] < g[y] \/ g[y] < g[x]
        BY <2>1
    <2> QED BY <1>0, <2>2
<1>2. IsFiniteSet(T) /\ Cardinality(T) = Cardinality(S)
    <2>1. g \in Surjection(S, T) /\ g \in Injection(S, T)
        BY <1>1, Fun_IsInj, Fun_IsSurj
    <2> QED BY <2>1, FS_Surjection
<1>3. \A x \in S : Rank(T, g[x]) = Rank(S, x)
    <2> SUFFICES ASSUME NEW x \in S PROVE Rank(T, g[x]) = Rank(S, x)
        OBVIOUS
    <2> DEFINE h == [y \in UpTo(S, x) |-> g[y]]
               A == UpTo(S, x)
               B == UpTo(T, g[x])
    <2>1. h \in [A -> B]
        <3> SUFFICES ASSUME NEW y \in S, y <= x PROVE g[y] \in T /\ g[y] <= g[x]
            BY DEF UpTo
        <3>1. y < x \/ y = x
            BY <1>0
        <3>2. g[y] < g[x] \/ g[y] = g[x]
            BY <3>1
        <3> QED BY <1>0, <3>2
    <2>2. \A y, z \in A : h[y] = h[z] => y = z
        BY <1>1 DEF UpTo
    <2>3. \A t \in B : \E y \in A : h[y] = t
        <3> SUFFICES ASSUME NEW t \in T, t <= g[x] PROVE \E y \in A : h[y] = t
            BY DEF UpTo
        <3>1. PICK y \in S : g[y] = t
            OBVIOUS
        <3>2. ~ (x < y)
            BY <1>0, <3>1
        <3>3. y \in A
            BY <1>0, <3>2 DEF UpTo
        <3> QED BY <3>1, <3>3
    <2>4. IsFiniteSet(A)
        BY FS_Subset DEF UpTo
    <2>5. Cardinality(A) = Cardinality(B)
        <3> HIDE DEF A, B, h
        <3>1. h \in Surjection(A, B) /\ h \in Injection(A, B)
            BY <2>1, <2>2, <2>3, Fun_IsInj, Fun_IsSurj
        <3> QED BY <2>4, <3>1, FS_Surjection
    <2> QED BY <2>5 DEF Rank
<1>4. ASSUME NEW j \in 1..Cardinality(S) PROVE InOrder[T][j] = g[InOrder[S][j]]
    <2> DEFINE x == InOrder[S][j]
    <2>1. x \in S /\ Rank(S, x) = j
        BY InOrderRanks
    <2> HIDE DEF x
    <2>2. g[x] \in T /\ Rank(T, g[x]) = j
        BY <1>3, <2>1
    <2>3. \A t \in T : InOrder[T][Rank(T, t)] = t
        BY <1>2, InOrderRanks
    <2>4. InOrder[T][j] = g[x]
        BY <2>2, <2>3
    <2> QED BY <2>4 DEF x
<1> QED BY <1>2, <1>4

-----------------------------------------------------------------------------
(* Texts. *)

Ink(text) == {i \in DOMAIN text : text[i] # " "}
Trim(text) == IF Ink(text) = {} THEN <<>> ELSE SubSeq(text, Min(Ink(text)), Max(Ink(text)))

\* The trimmed text is empty exactly if the text is blank, and goes from its first to its
\* last character that is no space otherwise.
LEMMA Trimmed ==
    ASSUME NEW X, NEW text \in Seq(X)
    PROVE  /\ Trim(text) \in Seq(X)
           /\ Trim(text) = <<>> <=> Ink(text) = {}
           /\ Ink(text) # {} =>
                 /\ Min(Ink(text)) \in Ink(text)
                 /\ \A i \in Ink(text) : Min(Ink(text)) <= i
                 /\ Len(Trim(text)) >= 1
                 /\ Trim(text)[1] = text[Min(Ink(text))]
                 /\ Last(Trim(text)) # " "
<1>1. Len(text) \in Nat /\ DOMAIN text = 1..Len(text)
    OBVIOUS
<1>2. CASE Ink(text) = {}
    <2>1. Trim(text) = <<>>
        BY <1>2 DEF Trim, Ink
    <2> QED BY <1>2, <2>1
<1>3. CASE Ink(text) # {}
    <2> DEFINE ink == Ink(text)
               lo == Min(ink)
               hi == Max(ink)
    <2>1. ink \in SUBSET (0..Len(text))
        <3>1. \A i \in 1..Len(text) : i \in 0..Len(text)
            BY <1>1
        <3> QED BY <1>1, <3>1 DEF Ink
    <2>2. /\ \E x \in ink : \A y \in ink : x <= y
          /\ \E x \in ink : \A y \in ink : x >= y
        BY <1>1, <1>3, <2>1, Bounds
    <2>3. lo \in ink /\ \A y \in ink : lo <= y
        BY <2>2 DEF Min
    <2>4. hi \in ink /\ \A y \in ink : hi >= y
        BY <2>2 DEF Max
    <2>5. lo \in 1..Len(text) /\ hi \in 1..Len(text)
        BY <1>1, <2>3, <2>4 DEF Ink
    <2>6. text[hi] # " "
        BY <2>4 DEF Ink
    <2>7. lo <= hi
        BY <2>3, <2>4
    <2>8. Trim(text) = SubSeq(text, lo, hi)
        BY <1>3 DEF Trim
    <2> HIDE DEF lo, hi
    <2>9. /\ SubSeq(text, lo, hi) \in Seq(X)
          /\ Len(SubSeq(text, lo, hi)) = hi - lo + 1
          /\ \A i \in 1..(hi - lo + 1) : SubSeq(text, lo, hi)[i] = text[lo + i - 1]
        <3>1. \A i \in lo..hi : i \in 1..Len(text)
            BY <1>1, <2>5
        <3>2. \A i \in lo..hi : text[i] \in X
            BY <3>1, ElementOfSeq
        <3>3. lo \in Int /\ hi \in Int
            BY <1>1, <2>5
        <3> QED BY <2>7, <3>2, <3>3, SubSeqProperties
    <2>10. Trim(text)[1] = text[lo] /\ Last(Trim(text)) = text[hi]
        <3>1. 1 \in 1..(hi - lo + 1) /\ hi - lo + 1 \in 1..(hi - lo + 1)
            BY <1>1, <2>5, <2>7
        <3>2. lo + 1 - 1 = lo /\ lo + (hi - lo + 1) - 1 = hi
            BY <1>1, <2>5
        <3> QED BY <2>8, <2>9, <3>1, <3>2 DEF Last
    <2>11. Len(Trim(text)) >= 1 /\ Trim(text) # <<>>
        <3>1. hi - lo + 1 >= 1
            BY <1>1, <2>5, <2>7
        <3>2. Len(Trim(text)) >= 1
            BY <2>8, <2>9, <3>1
        <3> QED BY <3>2, EmptySeq
    <2> QED BY <1>3, <2>3, <2>5, <2>6, <2>8, <2>9, <2>10, <2>11 DEF lo
<1> QED BY <1>2, <1>3

Comma(text, i) == text[i] = ","
Space(text, i) == text[i] = " "

\* The separator before the one at e, 0 if there is none.
Before(text, e) == Max({0} \cup (Ends(text) \cap 1..(e - 1)))

LEMMA EndsAre ==
    ASSUME NEW X, NEW text \in Seq(X)
    PROVE  /\ Len(text) \in Nat
           /\ \A e \in Ends(text) : e \in 1..(Len(text) + 1)
           /\ Len(text) + 1 \in Ends(text)
           /\ \A e \in 1..Len(text) : e \in Ends(text) <=> Comma(text, e)
<1>1. Len(text) \in Nat
    BY LenProperties
<1>2. Ends(text) = {e \in 1..(Len(text) + 1) : e = Len(text) + 1 \/ Comma(text, e)}
    BY DEF Ends, Comma
<1> QED BY <1>1, <1>2

\* The part that ends at e begins after the separator before e.
LEMMA PartOf ==
    ASSUME NEW X, NEW text \in Seq(X), NEW e \in Ends(text)
    PROVE  /\ Before(text, e) \in 0..(e - 1)
           /\ Before(text, e) = 0 \/ Comma(text, Before(text, e))
           /\ \A k \in (Before(text, e) + 1)..(e - 1) : ~ Comma(text, k)
           /\ Part(text, e) \in Seq(X)
           /\ DOMAIN Part(text, e) = 1..(e - 1 - Before(text, e))
           /\ \A k \in 1..(e - 1 - Before(text, e)) : Part(text, e)[k] = text[Before(text, e) + k]
<1>1. Len(text) \in Nat /\ e \in 1..(Len(text) + 1)
    BY EndsAre
<1> DEFINE cuts == {0} \cup (Ends(text) \cap 1..(e - 1))
           b == Before(text, e)
<1>2. b \in cuts /\ \A c \in cuts : b >= c
    <2>1. cuts \in SUBSET (0..(e - 1)) /\ cuts # {} /\ e - 1 \in Nat
        BY <1>1
    <2>2. \E x \in cuts : \A y \in cuts : x >= y
        <3> HIDE DEF cuts
        <3> QED BY <2>1, Bounds
    <2>3. b = CHOOSE x \in cuts : \A y \in cuts : x >= y
        BY DEF Before, Max
    <2> HIDE DEF b, cuts
    <2> QED BY <2>2, <2>3
<1>3. b \in 0..(e - 1)
    BY <1>1, <1>2
<1>4. b = 0 \/ Comma(text, b)
    BY <1>1, <1>2, EndsAre
<1>5. \A k \in (b + 1)..(e - 1) : ~ Comma(text, k)
    <2> SUFFICES ASSUME NEW k \in (b + 1)..(e - 1), Comma(text, k) PROVE FALSE
        OBVIOUS
    <2> HIDE DEF b
    <2>1. k \in 1..Len(text) /\ k \in 1..(e - 1) /\ k > b
        BY <1>1, <1>3
    <2>2. k \in Ends(text)
        BY <2>1, EndsAre
    <2>3. b >= k
        BY <1>2, <2>1, <2>2
    <2> QED BY <1>1, <1>3, <2>1, <2>3
<1>6. /\ Part(text, e) \in Seq(X)
      /\ Len(Part(text, e)) = e - 1 - b
      /\ \A k \in 1..(e - 1 - b) : Part(text, e)[k] = text[b + k]
    <2>1. Part(text, e) = SubSeq(text, b + 1, e - 1)
        BY DEF Part, Before
    <2> HIDE DEF b
    <2>2. \A i \in (b + 1)..(e - 1) : i \in 1..Len(text)
        BY <1>1, <1>3
    <2>3. \A i \in (b + 1)..(e - 1) : text[i] \in X
        BY <2>2, ElementOfSeq
    <2>4. /\ SubSeq(text, b + 1, e - 1) \in Seq(X)
          /\ Len(SubSeq(text, b + 1, e - 1)) = IF b + 1 <= e - 1 THEN (e - 1) - (b + 1) + 1 ELSE 0
          /\ \A i \in 1..((e - 1) - (b + 1) + 1) :
                SubSeq(text, b + 1, e - 1)[i] = text[(b + 1) + i - 1]
        BY <1>1, <1>3, <2>3, SubSeqProperties
    <2>5. e - 1 - b = (e - 1) - (b + 1) + 1
        BY <1>1, <1>3
    <2>6. \A i \in 1..(e - 1 - b) : (b + 1) + i - 1 = b + i
        BY <1>1, <1>3
    <2>7. Len(SubSeq(text, b + 1, e - 1)) = e - 1 - b
        BY <1>1, <1>3, <2>4
    <2> QED BY <2>1, <2>4, <2>5, <2>6, <2>7
<1>7. DOMAIN Part(text, e) = 1..(e - 1 - b)
    <2> HIDE DEF b
    <2> QED BY <1>6, LenProperties
<1> QED BY <1>3, <1>4, <1>5, <1>6, <1>7

\* What is between two neighbouring separators is a part.
LEMMA PartBetween ==
    ASSUME NEW X, NEW text \in Seq(X), NEW e \in Ends(text), NEW b \in 0..(e - 1),
           b = 0 \/ Comma(text, b),
           \A k \in (b + 1)..(e - 1) : ~ Comma(text, k)
    PROVE  Before(text, e) = b
<1> DEFINE c == Before(text, e)
<1>0. Len(text) \in Nat /\ e \in 1..(Len(text) + 1)
    BY EndsAre
<1>1. /\ e \in Nat
      /\ c \in 0..(e - 1)
      /\ c = 0 \/ Comma(text, c)
      /\ \A k \in (c + 1)..(e - 1) : ~ Comma(text, k)
    BY <1>0, PartOf
<1> HIDE DEF c
<1>2. ~ (b < c)
    <2> SUFFICES ASSUME b < c PROVE FALSE
        OBVIOUS
    <2>1. c \in (b + 1)..(e - 1) /\ c # 0
        BY <1>1
    <2> QED BY <1>1, <2>1
<1>3. ~ (c < b)
    <2> SUFFICES ASSUME c < b PROVE FALSE
        OBVIOUS
    <2>1. b \in (c + 1)..(e - 1) /\ b # 0
        BY <1>1
    <2> QED BY <1>1, <2>1
<1>4. b = c
    BY <1>1, <1>2, <1>3
<1> QED BY <1>4 DEF c

-----------------------------------------------------------------------------
(* Elements. *)

LEMMA NotBoth == \A text, k : Space(text, k) => ~ Comma(text, k)
BY DEF Space, Comma

\* Where the word at the beginning of the element that ends at e is.
WordOf(text, e) == Before(text, e) + Min(Ink(Part(text, e)))

\* An element is empty exactly if there are only spaces between its separators, and
\* begins with the first word after them otherwise.
LEMMA ElementOf ==
    ASSUME NEW text \in Seq(STRING), NEW e \in Ends(text)
    PROVE  /\ Element(text, e) \in Seq(STRING)
           /\ Element(text, e) = <<>> <=>
                 \A k \in (Before(text, e) + 1)..(e - 1) : Space(text, k)
           /\ Element(text, e) # <<>> =>
                 /\ WordOf(text, e) \in (Before(text, e) + 1)..(e - 1)
                 /\ ~ Space(text, WordOf(text, e))
                 /\ \A k \in (Before(text, e) + 1)..(WordOf(text, e) - 1) : Space(text, k)
                 /\ Len(Element(text, e)) >= 1
                 /\ Element(text, e)[1] = text[WordOf(text, e)]
                 /\ Last(Element(text, e)) # " "
<1> DEFINE part == Part(text, e)
           b == Before(text, e)
           lo == Min(Ink(part))
<1>1. e \in Nat
    BY EndsAre
<1>2. /\ b \in 0..(e - 1)
      /\ part \in Seq(STRING)
      /\ DOMAIN part = 1..(e - 1 - b)
      /\ \A k \in 1..(e - 1 - b) : part[k] = text[b + k]
    BY PartOf
<1>3. Element(text, e) = Trim(part)
    <2>1. Element(text, e) = TrimSpace[part]
        BY DEF Element
    <2> HIDE DEF part
    <2> QED BY <1>2, <2>1 DEF TrimSpace, Trim, Ink
<1>4. Ink(part) = {k \in 1..(e - 1 - b) : ~ Space(text, b + k)}
    <2> HIDE DEF part, b
    <2> QED BY <1>2 DEF Ink, Space
<1>5. /\ Trim(part) \in Seq(STRING)
      /\ Trim(part) = <<>> <=> Ink(part) = {}
      /\ Ink(part) # {} =>
            /\ lo \in Ink(part)
            /\ \A i \in Ink(part) : lo <= i
            /\ Len(Trim(part)) >= 1
            /\ Trim(part)[1] = part[lo]
            /\ Last(Trim(part)) # " "
    <2> HIDE DEF part
    <2> QED BY <1>2, Trimmed
<1>6. WordOf(text, e) = b + lo
    BY DEF WordOf
<1> HIDE DEF part, b, lo
<1>7. Ink(part) = {} <=> \A k \in (b + 1)..(e - 1) : Space(text, k)
    <2>1. ASSUME Ink(part) = {}, NEW k \in (b + 1)..(e - 1) PROVE Space(text, k)
        <3>1. k - b \in 1..(e - 1 - b) /\ b + (k - b) = k
            BY <1>1, <1>2
        <3> QED BY <1>4, <2>1, <3>1
    <2>2. ASSUME \A k \in (b + 1)..(e - 1) : Space(text, k) PROVE Ink(part) = {}
        <3>1. \A k \in 1..(e - 1 - b) : b + k \in (b + 1)..(e - 1)
            BY <1>1, <1>2
        <3> QED BY <1>4, <2>2, <3>1
    <2> QED BY <2>1, <2>2
<1>8. ASSUME Ink(part) # {}
      PROVE  /\ b + lo \in (b + 1)..(e - 1)
             /\ ~ Space(text, b + lo)
             /\ \A k \in (b + 1)..(b + lo - 1) : Space(text, k)
             /\ part[lo] = text[b + lo]
    <2>1. lo \in 1..(e - 1 - b) /\ ~ Space(text, b + lo)
        BY <1>4, <1>5, <1>8
    <2>2. b + lo \in (b + 1)..(e - 1)
        BY <1>1, <1>2, <2>1
    <2>3. ASSUME NEW k \in (b + 1)..(b + lo - 1) PROVE Space(text, k)
        <3>1. k - b \in 1..(e - 1 - b) /\ b + (k - b) = k /\ ~ (lo <= k - b)
            BY <1>1, <1>2, <2>1
        <3> QED BY <1>4, <1>5, <1>8, <3>1
    <2> QED BY <1>2, <2>1, <2>2, <2>3
<1>9. Element(text, e) = <<>> <=> \A k \in (b + 1)..(e - 1) : Space(text, k)
    BY <1>3, <1>5, <1>7
<1>10. ASSUME Element(text, e) # <<>>
       PROVE  /\ WordOf(text, e) \in (b + 1)..(e - 1)
              /\ ~ Space(text, WordOf(text, e))
              /\ \A k \in (b + 1)..(WordOf(text, e) - 1) : Space(text, k)
              /\ Len(Element(text, e)) >= 1
              /\ Element(text, e)[1] = text[WordOf(text, e)]
              /\ Last(Element(text, e)) # " "
    <2>1. Ink(part) # {}
        BY <1>3, <1>5, <1>10
    <2>2. WordOf(text, e) \in (b + 1)..(e - 1) /\ ~ Space(text, WordOf(text, e))
        BY <1>6, <1>8, <2>1
    <2>3. \A k \in (b + 1)..(WordOf(text, e) - 1) : Space(text, k)
        <3>1. \A k \in (b + 1)..(b + lo - 1) : Space(text, k)
            BY <1>8, <2>1
        <3>2. lo \in 1..(e - 1 - b)
            BY <1>4, <1>5, <2>1
        <3>3. WordOf(text, e) - 1 = b + lo - 1
            BY <1>1, <1>2, <1>6, <3>2
        <3> QED BY <3>1, <3>3
    <2>4. Element(text, e)[1] = text[WordOf(text, e)]
        BY <1>3, <1>5, <1>6, <1>8, <2>1
    <2>5. Len(Element(text, e)) >= 1 /\ Last(Element(text, e)) # " "
        BY <1>3, <1>5, <2>1
    <2> QED BY <2>2, <2>3, <2>4, <2>5
<1>11. Element(text, e) \in Seq(STRING)
    BY <1>3, <1>5
<1> QED BY <1>9, <1>10, <1>11 DEF b

Kept(text, preserveEmpty) == {e \in Ends(text) : preserveEmpty \/ Element(text, e) # <<>>}

\* A list has at most one element more than its text has characters, and its elements
\* are those kept, in order.
LEMMA SplitIs ==
    ASSUME NEW text \in Seq(STRING), NEW preserveEmpty \in BOOLEAN
    PROVE  \E S, list :
               /\ S = Kept(text, preserveEmpty)
               /\ list = splitCommaSeparated(text, preserveEmpty)
               /\ S \in SUBSET Nat /\ IsFiniteSet(S)
               /\ Len(list) \in Nat /\ Len(list) <= Len(text) + 1
               /\ DOMAIN list = 1..Len(list) /\ list \in Seq(Seq(STRING))
               /\ Blank(text) => list = <<>>
               /\ ~ Blank(text) =>
                     /\ Len(list) = Cardinality(S)
                     /\ \A j \in 1..Cardinality(S) : list[j] = Element(text, InOrder[S][j])
<1> DEFINE S == Kept(text, preserveEmpty)
           list == splitCommaSeparated(text, preserveEmpty)
           n == Cardinality(S)
<1> SUFFICES /\ S \in SUBSET Nat /\ IsFiniteSet(S)
             /\ Len(list) \in Nat /\ Len(list) <= Len(text) + 1
             /\ DOMAIN list = 1..Len(list) /\ list \in Seq(Seq(STRING))
             /\ Blank(text) => list = <<>>
             /\ ~ Blank(text) =>
                   /\ Len(list) = n
                   /\ \A j \in 1..n : list[j] = Element(text, InOrder[S][j])
    <2> HIDE DEF S, list
    <2> QED BY DEF S, list
<1>1. Len(text) \in Nat
    BY LenProperties
<1>2. S \in SUBSET (1..(Len(text) + 1)) /\ S \in SUBSET Nat
    <2>1. S \in SUBSET (1..(Len(text) + 1))
        BY EndsAre DEF Kept
    <2> QED BY <1>1, <2>1
<1>3. IsFiniteSet(S) /\ n \in Nat /\ n <= Len(text) + 1
    <2>1. /\ IsFiniteSet(1..(Len(text) + 1))
          /\ Cardinality(1..(Len(text) + 1)) = Len(text) + 1
        BY <1>1, FS_Interval
    <2> HIDE DEF S
    <2>2. IsFiniteSet(S) /\ n <= Len(text) + 1
        BY <1>2, <2>1, FS_Subset
    <2> QED BY <2>2, FS_CardinalityType
<1>4. CASE Blank(text)
    <2>1. list = <<>>
        BY <1>4 DEF splitCommaSeparated
    <2>2. Len(list) = 0 /\ DOMAIN list = 1..0 /\ list \in Seq(Seq(STRING))
        BY <2>1
    <2> HIDE DEF list, S
    <2> QED BY <1>1, <1>2, <1>3, <1>4, <2>1, <2>2
<1>5. CASE ~ Blank(text)
    <2>1. list = [j \in DOMAIN InOrder[S] |-> Element(text, InOrder[S][j])]
        BY <1>5 DEF splitCommaSeparated, Kept
    <2>2. DOMAIN InOrder[S] = 1..n /\ \A j \in 1..n : InOrder[S][j] \in S
        <3> HIDE DEF S
        <3> QED BY <1>2, <1>3, InOrderRanks
    <2>3. list = [j \in 1..n |-> Element(text, InOrder[S][j])]
        BY <2>1, <2>2
    <2>4. \A j \in 1..n : Element(text, InOrder[S][j]) \in Seq(STRING)
        BY <2>2, ElementOf DEF Kept
    <2> HIDE DEF S
    <2>5. list \in [1..n -> Seq(STRING)]
        <3> HIDE DEF list
        <3> QED BY <2>3, <2>4
    <2>6. \A j \in 1..n : list[j] = Element(text, InOrder[S][j])
        BY <2>3
    <2> HIDE DEF list, n
    <2>7. Len(list) = n /\ DOMAIN list = 1..n /\ list \in Seq(Seq(STRING))
        BY <1>3, <2>5
    <2> QED BY <1>1, <1>2, <1>3, <1>5, <2>6, <2>7 DEF n
<1> QED BY <1>4, <1>5

-----------------------------------------------------------------------------
(* The lists. *)

Bound(text, i) == i \in {0, Len(text) + 1} \/ Comma(text, i)

BlankBetween(text, i, j) == \A k \in (i + 1)..(j - 1) : Space(text, k)

\* A list with its empty elements has one exactly if its text has more than spaces and two
\* neighbouring separators with nothing but spaces between them.
LEMMA EmptyElement ==
    ASSUME NEW text \in Seq(STRING)
    PROVE  Contains(splitCommaSeparated(text, TRUE), <<>>) <=>
              /\ ~ Blank(text)
              /\ \E i, j \in 0..(Len(text) + 1) :
                    i < j /\ Bound(text, i) /\ Bound(text, j) /\ BlankBetween(text, i, j)
<1>1. PICK S, list :
        /\ S = Kept(text, TRUE)
        /\ list = splitCommaSeparated(text, TRUE)
        /\ S \in SUBSET Nat /\ IsFiniteSet(S)
        /\ Len(list) \in Nat /\ Len(list) <= Len(text) + 1
        /\ DOMAIN list = 1..Len(list) /\ list \in Seq(Seq(STRING))
        /\ Blank(text) => list = <<>>
        /\ ~ Blank(text) =>
              /\ Len(list) = Cardinality(S)
              /\ \A j \in 1..Cardinality(S) : list[j] = Element(text, InOrder[S][j])
    BY SplitIs
<1>2. S = Ends(text) /\ Len(text) \in Nat
    BY <1>1, EndsAre DEF Kept
<1>3. ASSUME Contains(list, <<>>)
      PROVE  /\ ~ Blank(text)
             /\ \E i, j \in 0..(Len(text) + 1) :
                   i < j /\ Bound(text, i) /\ Bound(text, j) /\ BlankBetween(text, i, j)
    <2>1. PICK n \in 1..Len(list) : list[n] = <<>>
        BY <1>3 DEF Contains
    <2>2. ~ Blank(text)
        <3>1. SUFFICES ASSUME list = <<>> PROVE FALSE
            BY <1>1
        <3>2. Len(list) = 0
            BY <3>1
        <3> QED BY <2>1, <3>2
    <2> DEFINE e == InOrder[S][n]
               b == Before(text, e)
    <2>3. e \in Ends(text)
        BY <1>1, <1>2, <2>1, <2>2, InOrderRanks
    <2>4. Element(text, e) = <<>>
        BY <1>1, <2>1, <2>2
    <2> HIDE DEF e
    <2>5. e \in 1..(Len(text) + 1) /\ Bound(text, e)
        BY <1>2, <2>3, EndsAre DEF Bound
    <2>6. b \in 0..(e - 1) /\ Bound(text, b) /\ BlankBetween(text, b, e)
        BY <2>3, <2>4, PartOf, ElementOf DEF Bound, BlankBetween
    <2> HIDE DEF b
    <2>7. b \in 0..(Len(text) + 1) /\ e \in 0..(Len(text) + 1) /\ b < e
        BY <1>2, <2>5, <2>6
    <2> QED BY <2>2, <2>5, <2>6, <2>7
<1>4. ASSUME ~ Blank(text),
             NEW i \in 0..(Len(text) + 1), NEW j \in 0..(Len(text) + 1),
             i < j, Bound(text, i), Bound(text, j), BlankBetween(text, i, j)
      PROVE  Contains(list, <<>>)
    <2>1. j \in 1..(Len(text) + 1) /\ i \in 0..(j - 1) /\ i # Len(text) + 1 /\ j # 0
        BY <1>2, <1>4
    <2>2. j \in Ends(text)
        <3>1. j = Len(text) + 1 \/ (j \in 1..Len(text) /\ Comma(text, j))
            BY <1>2, <1>4, <2>1 DEF Bound
        <3> QED BY <3>1, EndsAre
    <2>3. i = 0 \/ Comma(text, i)
        BY <1>4, <2>1 DEF Bound
    <2>4. \A k \in (i + 1)..(j - 1) : ~ Comma(text, k)
        BY <1>4, NotBoth DEF BlankBetween
    <2>5. Before(text, j) = i
        BY <2>1, <2>2, <2>3, <2>4, PartBetween
    <2>6. Element(text, j) = <<>>
        BY <1>4, <2>2, <2>5, ElementOf DEF BlankBetween
    <2>7. PICK n \in 1..Cardinality(S) : InOrder[S][n] = j
        BY <1>1, <1>2, <2>2, InOrderRanks, Ranks
    <2>8. n \in 1..Len(list) /\ list[n] = <<>>
        BY <1>1, <1>4, <2>6, <2>7
    <2> QED BY <2>8 DEF Contains
<1> QED BY <1>1, <1>3, <1>4

StartSet(text) == {i \in DOMAIN text : Begins(text, i)}

LEMMA BeginsIs ==
    ASSUME NEW text \in Seq(STRING), NEW i
    PROVE  i \in StartSet(text) <=>
              /\ i \in 1..Len(text)
              /\ ~ Comma(text, i) /\ ~ Space(text, i)
              /\ \E b \in 0..(i - 1) :
                    /\ b = 0 \/ Comma(text, b)
                    /\ BlankBetween(text, b, i)
<1>1. DOMAIN text = 1..Len(text)
    OBVIOUS
<1> QED BY <1>1 DEF StartSet, Begins, Comma, Space, BlankBetween

\* The words that begin an element are in the order of the elements they begin.
LEMMA WordsInOrder ==
    ASSUME NEW text \in Seq(STRING)
    PROVE  /\ StartSet(text) \in SUBSET Nat
           /\ IsFiniteSet(StartSet(text))
           /\ Cardinality(StartSet(text)) = Cardinality(Kept(text, FALSE))
           /\ \A j \in 1..Cardinality(Kept(text, FALSE)) :
                 InOrder[StartSet(text)][j] = WordOf(text, InOrder[Kept(text, FALSE)][j])
<1> DEFINE S == Kept(text, FALSE)
           T == StartSet(text)
           g == [e \in S |-> WordOf(text, e)]
<1>1. S \in SUBSET Nat /\ IsFiniteSet(S)
    BY SplitIs
<1>2. Len(text) \in Nat /\ \A e \in S : e \in Ends(text) /\ e \in 1..(Len(text) + 1)
    BY EndsAre DEF Kept
<1>3. \A e \in S :
        /\ Before(text, e) \in 0..(e - 1)
        /\ Before(text, e) = 0 \/ Comma(text, Before(text, e))
        /\ WordOf(text, e) \in (Before(text, e) + 1)..(e - 1)
        /\ ~ Space(text, WordOf(text, e))
        /\ BlankBetween(text, Before(text, e), WordOf(text, e))
        /\ ~ Comma(text, WordOf(text, e))
    <2> SUFFICES ASSUME NEW e \in S
                 PROVE  /\ Before(text, e) \in 0..(e - 1)
                        /\ Before(text, e) = 0 \/ Comma(text, Before(text, e))
                        /\ WordOf(text, e) \in (Before(text, e) + 1)..(e - 1)
                        /\ ~ Space(text, WordOf(text, e))
                        /\ BlankBetween(text, Before(text, e), WordOf(text, e))
                        /\ ~ Comma(text, WordOf(text, e))
        OBVIOUS
    <2>1. Element(text, e) # <<>>
        BY DEF Kept
    <2>2. /\ Before(text, e) \in 0..(e - 1)
          /\ Before(text, e) = 0 \/ Comma(text, Before(text, e))
          /\ \A k \in (Before(text, e) + 1)..(e - 1) : ~ Comma(text, k)
        BY <1>2, PartOf
    <2>3. /\ WordOf(text, e) \in (Before(text, e) + 1)..(e - 1)
          /\ ~ Space(text, WordOf(text, e))
          /\ BlankBetween(text, Before(text, e), WordOf(text, e))
        BY <1>2, <2>1, ElementOf DEF BlankBetween
    <2> QED BY <2>2, <2>3
<1>4. \A e \in S : /\ Before(text, e) \in 0..(e - 1)
                     /\ WordOf(text, e) \in (Before(text, e) + 1)..(e - 1)
                     /\ e \in 1..(Len(text) + 1)
    BY <1>2, <1>3
<1>5. \A e \in Ends(text) : Element(text, e) # <<>> => e \in S
    BY DEF Kept
<1> HIDE DEF S
<1>6. g \in [S -> T]
    <2> SUFFICES ASSUME NEW e \in S PROVE WordOf(text, e) \in T
        OBVIOUS
    <2>1. /\ WordOf(text, e) \in 1..Len(text)
          /\ Before(text, e) \in 0..(WordOf(text, e) - 1)
        BY <1>2, <1>4
    <2> QED BY <1>3, <2>1, BeginsIs
<1>7. \A x, y \in S : x < y => g[x] < g[y]
    <2> SUFFICES ASSUME NEW x \in S, NEW y \in S, x < y PROVE WordOf(text, x) < WordOf(text, y)
        OBVIOUS
    <2>1. Before(text, y) >= x
        <3> SUFFICES ASSUME ~ (Before(text, y) >= x) PROVE FALSE
            OBVIOUS
        <3>1. x \in (Before(text, y) + 1)..(y - 1) /\ x \in 1..Len(text)
            BY <1>2, <1>4
        <3>2. Comma(text, x)
            BY <1>2, <3>1, EndsAre
        <3> QED BY <1>2, <3>1, <3>2, PartOf
    <2> QED BY <1>2, <1>4, <2>1
<1>8. \A t \in T : \E e \in S : g[e] = t
    <2> SUFFICES ASSUME NEW t \in T PROVE \E e \in S : WordOf(text, e) = t
        OBVIOUS
    <2>1. t \in 1..Len(text) /\ ~ Comma(text, t) /\ ~ Space(text, t)
        BY BeginsIs
    <2>2. PICK b \in 0..(t - 1) : (b = 0 \/ Comma(text, b)) /\ BlankBetween(text, b, t)
        BY BeginsIs
    <2> DEFINE U == {e \in Ends(text) : e > t}
    <2>3. PICK e \in U : \A f \in U : e <= f
        <3>1. U \in SUBSET (0..(Len(text) + 1))
            BY <1>2, EndsAre
        <3>2. Len(text) + 1 \in U
            BY <1>2, <2>1, EndsAre
        <3>3. Len(text) + 1 \in Nat /\ U # {}
            BY <1>2, <3>2
        <3> HIDE DEF U
        <3> QED BY <3>1, <3>3, Bounds
    <2>4. e \in Ends(text) /\ e \in 1..(Len(text) + 1) /\ e > t
        BY EndsAre
    <2>5. b \in 0..(e - 1)
        BY <1>2, <2>1, <2>4
    <2>6. \A k \in (b + 1)..(e - 1) : ~ Comma(text, k)
        <3> SUFFICES ASSUME NEW k \in (b + 1)..(e - 1), Comma(text, k) PROVE FALSE
            OBVIOUS
        <3>1. k \in 1..Len(text) /\ k < e
            BY <1>2, <2>1, <2>4
        <3>2. k \in Ends(text)
            BY <3>1, EndsAre
        <3>3. ~ (k > t)
            BY <2>3, <2>4, <3>1, <3>2
        <3>4. k = t \/ k \in (b + 1)..(t - 1)
            BY <2>1, <3>1, <3>3
        <3> QED BY <2>1, <2>2, <3>4, NotBoth DEF BlankBetween
    <2>7. Before(text, e) = b
        BY <2>2, <2>4, <2>5, <2>6, PartBetween
    <2>8. Element(text, e) # <<>>
        <3>1. t \in (b + 1)..(e - 1)
            BY <2>1, <2>4
        <3> QED BY <2>1, <2>4, <2>7, <3>1, ElementOf
    <2>9. e \in S
        BY <1>5, <2>4, <2>8
    <2>10. ~ (WordOf(text, e) < t)
        <3> SUFFICES ASSUME WordOf(text, e) < t PROVE FALSE
            OBVIOUS
        <3>1. WordOf(text, e) \in (b + 1)..(t - 1)
            BY <1>2, <1>4, <2>1, <2>4, <2>7, <2>9
        <3> QED BY <1>3, <2>2, <2>9, <3>1 DEF BlankBetween
    <2>11. ~ (t < WordOf(text, e))
        <3> SUFFICES ASSUME t < WordOf(text, e) PROVE FALSE
            OBVIOUS
        <3>1. WordOf(text, e) \in (b + 1)..(e - 1)
            BY <1>4, <2>7, <2>9
        <3>2. t \in (b + 1)..(WordOf(text, e) - 1)
            BY <2>1, <3>1
        <3> QED BY <1>3, <2>1, <2>7, <2>9, <3>2 DEF BlankBetween
    <2>12. WordOf(text, e) = t
        BY <1>2, <1>4, <2>1, <2>4, <2>7, <2>9, <2>10, <2>11
    <2> QED BY <2>9, <2>12
<1>9. T \in SUBSET Nat
    BY <1>2, BeginsIs
<1>10. /\ IsFiniteSet(T) /\ Cardinality(T) = Cardinality(S)
      /\ \A j \in 1..Cardinality(S) : InOrder[T][j] = g[InOrder[S][j]]
    <2> HIDE DEF S, T, g
    <2> QED BY <1>1, <1>6, <1>7, <1>8, <1>9, SameOrder
<1>11. \A j \in 1..Cardinality(S) : InOrder[S][j] \in S
    <2> HIDE DEF S
    <2> QED BY <1>1, InOrderRanks
<1>12. \A j \in 1..Cardinality(S) : InOrder[T][j] = WordOf(text, InOrder[S][j])
    <2> HIDE DEF T
    <2> QED BY <1>10, <1>11
<1> HIDE DEF T
<1>13. /\ T \in SUBSET Nat /\ IsFiniteSet(T) /\ Cardinality(T) = Cardinality(S)
       /\ \A j \in 1..Cardinality(S) : InOrder[T][j] = WordOf(text, InOrder[S][j])
    BY <1>9, <1>10, <1>12
<1> QED BY <1>13 DEF S, T

-----------------------------------------------------------------------------
(* The process. *)

LEMMA OptionsAre ==
    /\ DOMAIN Options = 1..3 /\ Len(Options) = 3
    /\ AllOptions = {"cert", "key", "ca"}
    /\ \A k \in 1..3 : Options[k] \in AllOptions
    /\ \A j, k \in 1..3 : Options[j] = Options[k] => j = k
    /\ \A o \in AllOptions : \E k \in 1..3 : Options[k] = o
<1>1. DOMAIN Options = 1..3 /\ Len(Options) = 3
    BY DEF Options
<1>2. Options[1] = "cert" /\ Options[2] = "key" /\ Options[3] = "ca"
    BY DEF Options
<1>3. \A k \in 1..3 : k = 1 \/ k = 2 \/ k = 3
    OBVIOUS
<1>4. AllOptions = {Options[k] : k \in 1..3}
    BY <1>1 DEF AllOptions, Range
<1> QED BY <1>1, <1>2, <1>3, <1>4

\* What is seen of an option that is used, and of one that is not; one that main has not
\* come to is used if it is given.
SeenOK ==
    /\ seen \in [AllOptions -> {"none", "missing", "empty", "bad", "good"}]
    /\ pc # "exited" => \A k \in 1..(at - 1) : Options[k] \in used => seen[Options[k]] \in {"bad", "good"}
    /\ \A o \in given \ used : seen[o] = "empty"
    /\ pc = "checking" => \A k \in at..3 : Options[k] \in given => Options[k] \in used

\* Why connections are in the clear, by what the manager found when it started the server.
PlainOK ==
    /\ urls # <<>>
    /\ \/ used # AllOptions /\ ~ HasHttps
       \/ used = AllOptions /\ urls[1][1] \in PlainWords

\* The lists are those of the texts once they are split.
ListOK ==
    /\ Split => at = 4
    /\ \/ core = splitCommaSeparated(coreText, TRUE) /\ urls = splitCommaSeparated(urlText, FALSE)
       \/ ~ Split /\ core = <<>> /\ urls = <<>>
    /\ pc = "plain" => PlainOK

\* The types without what follows from the rest.
Typed ==
    /\ given \subseteq AllOptions
    /\ [core |-> coreText, urls |-> urlText] \in Lists
    /\ file \in Mounts
    /\ pc \in {"checking", "added", "plain", "tls", "exited"}
    /\ at \in 1..4
    /\ used \subseteq given
    /\ changes \in 0..MaxChanges
    /\ faults \in 0..MaxFaults

IInv == Typed /\ SeenOK /\ ListOK

\* A start of the server by the manager, whatever comes of it.
Starting ==
    \/ Started("exited") \/ Started("tls")
    \/ Started("plain") /\ PlainOK

\* The etcd client has connections in the clear for a first URL of http, or without a
\* configuration.
LEMMA DialledIs ==
    ASSUME NEW configured \in BOOLEAN, NEW outcome \in Dialled(configured)
    PROVE  /\ outcome \in {"plain", "tls"}
           /\ outcome = "plain" => ~ configured \/ urls[1][1] \in PlainWords
BY DEF Dialled

LEMMA Steps ==
    Next => SkipFile \/ (\E o \in AllOptions : CheckFile(o)) \/ New \/ Starting \/ Die \/ Restart \/ Remount
<1>1. ConnectWithoutConfig => Starting
    <2> SUFFICES ASSUME ConnectWithoutConfig PROVE Starting
        OBVIOUS
    <2>1. PICK outcome \in Dialled(FALSE) : Started(outcome)
        BY DEF ConnectWithoutConfig
    <2>2. outcome \in {"plain", "tls"}
        BY DialledIs
    <2> QED BY <2>1, <2>2 DEF ConnectWithoutConfig, Starting, PlainOK
<1>2. ConnectWithConfig => Starting
    <2> SUFFICES ASSUME ConnectWithConfig PROVE Starting
        OBVIOUS
    <2>1. PICK outcome \in Dialled(TRUE) : Started(outcome)
        BY DEF ConnectWithConfig
    <2>2. outcome \in {"plain", "tls"} /\ (outcome = "plain" => urls[1][1] \in PlainWords)
        BY DialledIs
    <2> QED BY <2>1, <2>2 DEF ConnectWithConfig, Starting, PlainOK
<1> QED BY <1>1, <1>2 DEF Next, Process, Starting, MissingTLSConfig, LoadFails, NoEndpoint

LEMMA InitIInv == Init => IInv
<1> SUFFICES ASSUME Init PROVE IInv
    OBVIOUS
<1>1. Typed
    <2>1. PICK l \in Lists : coreText = l.core /\ urlText = l.urls
        BY DEF Init
    <2>2. l = [core |-> coreText, urls |-> urlText]
        BY <2>1, ConfigAssumption
    <2> QED BY <2>1, <2>2, ConfigAssumption DEF Init, Typed
<1>2. SeenOK
    BY DEF Init, SeenOK
<1>3. ListOK
    BY DEF Init, ListOK, Split
<1> QED BY <1>1, <1>2, <1>3 DEF IInv

\* Typed is preserved: only main moves on in the options, and only until the end.
LEMMA TypedStep == IInv /\ [Next]_vars => Typed'
<1> SUFFICES ASSUME Typed, ListOK, [Next]_vars PROVE Typed'
    BY DEF IInv
<1> USE ConfigAssumption, OptionsAre DEF Typed
<1>1. CASE SkipFile
    BY <1>1 DEF SkipFile, line
<1>2. ASSUME NEW o \in AllOptions, CheckFile(o) PROVE Typed'
    <2>1. UNCHANGED <<given, coreText, urlText, file, changes, faults>>
        BY <1>2 DEF CheckFile, LookAt, line
    <2>2. at' \in 1..4
        BY <1>2 DEF CheckFile, LookAt
    <2>3. pc' \in {"checking", "exited"} /\ used' \subseteq used
        BY <1>2 DEF CheckFile, LookAt
    <2> QED BY <2>1, <2>2, <2>3
<1>3. CASE New
    BY <1>3 DEF New, line
<1>4. CASE Starting
    BY <1>4 DEF Starting, Started, line
<1>5. CASE Die
    BY <1>5 DEF Die, line
<1>6. CASE Restart
    BY <1>6 DEF Restart, line
<1>7. CASE Remount
    BY <1>7 DEF Remount, line
<1>8. CASE UNCHANGED vars
    BY <1>8 DEF vars, line
<1> QED BY <1>1, <1>2, <1>3, <1>4, <1>5, <1>6, <1>7, <1>8, Steps

\* SeenOK is preserved: an option is looked at before main goes on to the next one.
LEMMA SeenStep == IInv /\ [Next]_vars => SeenOK'
<1> SUFFICES ASSUME Typed, SeenOK, [Next]_vars PROVE SeenOK'
    BY DEF IInv
<1>0. at \in Nat /\ \A k : k \in 1..(at + 1 - 1) => k = at \/ k \in 1..(at - 1)
    BY DEF Typed
<1>1. CASE SkipFile
    <2>1. /\ pc = "checking" /\ pc' = pc /\ at' = at + 1 /\ Options[at] \notin used
          /\ UNCHANGED <<given, used, seen>>
        BY <1>1 DEF SkipFile, line, Typed
    <2>2. \A k \in at'..3 : k \in at..3
        BY <1>0, <2>1
    <2> QED BY <1>0, <2>1, <2>2 DEF SeenOK
<1>2. ASSUME NEW o \in AllOptions, CheckFile(o) PROVE SeenOK'
    <2>1. /\ pc = "checking" /\ at \in DOMAIN Options /\ o = Options[at] /\ o \in given
          /\ at' = at + 1 /\ seen' = [seen EXCEPT ![o] = file[o]]
          /\ pc' = IF file[o] = "missing" THEN "exited" ELSE pc
          /\ used' = IF file[o] = "empty" THEN used \ {o} ELSE used
          /\ given' = given
        BY <1>2 DEF CheckFile, LookAt, line
    <2>2. file[o] \in {"missing", "empty", "bad", "good"}
        BY ConfigAssumption DEF Typed
    <2>3. seen' \in [AllOptions -> {"none", "missing", "empty", "bad", "good"}]
        BY <2>1, <2>2 DEF SeenOK
    <2>4. ASSUME pc' # "exited", NEW k \in 1..(at' - 1), Options[k] \in used'
          PROVE  seen'[Options[k]] \in {"bad", "good"}
        <3>1. file[o] # "missing" /\ Options[k] \in used
            BY <2>1, <2>4
        <3>2. CASE Options[k] = o
            <4>1. file[o] # "empty"
                BY <2>1, <2>4, <3>2
            <4>2. seen'[o] = file[o]
                BY <2>1 DEF SeenOK
            <4> QED BY <2>2, <3>1, <3>2, <4>1, <4>2
        <3>3. CASE Options[k] # o
            <4>1. k \in 1..(at - 1)
                BY <1>0, <2>1, <2>4, <3>3
            <4>2. seen[Options[k]] \in {"bad", "good"}
                BY <2>1, <3>1, <4>1 DEF SeenOK
            <4> QED BY <2>1, <3>3, <4>2 DEF SeenOK
        <3> QED BY <3>2, <3>3
    <2>5. ASSUME NEW x \in given' \ used' PROVE seen'[x] = "empty"
        <3>1. x \in AllOptions
            BY <2>1 DEF Typed
        <3>2. CASE x = o /\ file[o] = "empty"
            BY <2>1, <3>1, <3>2 DEF SeenOK
        <3>3. CASE x \in given \ used
            <4>1. CASE x # o
                BY <2>1, <3>1, <3>3, <4>1 DEF SeenOK
            <4>2. x # o
                BY <1>0, <2>1, <3>3, OptionsAre DEF SeenOK
            <4> QED BY <4>1, <4>2
        <3> QED BY <2>1, <2>5, <3>2, <3>3
    <2>6. ASSUME pc' = "checking", NEW k \in at'..3, Options[k] \in given'
          PROVE  Options[k] \in used'
        <3>1. k \in 1..3 /\ k \in at..3 /\ k # at /\ at \in 1..3
            BY <1>0, <2>1, <2>6, OptionsAre DEF Typed
        <3>2. Options[k] # o /\ Options[k] \in used
            BY <2>1, <2>6, <3>1, OptionsAre DEF SeenOK
        <3> QED BY <2>1, <3>2
    <2> QED BY <2>3, <2>4, <2>5, <2>6 DEF SeenOK
<1>3. CASE New
    BY <1>3 DEF New, line, SeenOK
<1>4. CASE Starting
    BY <1>4 DEF Starting, Started, line, SeenOK
<1>5. CASE Die
    BY <1>5 DEF Die, line, SeenOK
<1>6. CASE Restart
    BY <1>6 DEF Restart, line, SeenOK
<1>7. CASE Remount
    BY <1>7 DEF Remount, line, SeenOK
<1>8. CASE UNCHANGED vars
    BY <1>8 DEF vars, line, SeenOK
<1> QED BY <1>1, <1>2, <1>3, <1>4, <1>5, <1>6, <1>7, <1>8, Steps

\* ListOK is preserved: the texts are split once, after the last option.
LEMMA ListStep == IInv /\ [Next]_vars => ListOK'
<1> SUFFICES ASSUME Typed, ListOK, [Next]_vars PROVE ListOK'
    BY DEF IInv
<1>1. CASE SkipFile
    BY <1>1 DEF SkipFile, line, ListOK, Split
<1>2. ASSUME NEW o \in AllOptions, CheckFile(o) PROVE ListOK'
    <2>1. pc' \in {"checking", "exited"} /\ ~ Split /\ ~ Split' /\ pc' # "plain"
        BY <1>2 DEF CheckFile, LookAt, Split
    <2> QED BY <1>2, <2>1 DEF CheckFile, LookAt, line, ListOK
<1>3. CASE New
    <2>1. at' = 4
        BY <1>3, OptionsAre DEF New, Typed
    <2>2. pc' = "added" /\ core' = splitCommaSeparated(coreText', TRUE)
          /\ urls' = splitCommaSeparated(urlText', FALSE)
        BY <1>3 DEF New, line
    <2> QED BY <2>1, <2>2 DEF ListOK
<1>4. CASE Starting
    <2>1. Split /\ UNCHANGED <<coreText, urlText, at, used, core, urls>>
        BY <1>4 DEF Starting, Started, line, Split
    <2>2. PlainOK' <=> PlainOK
        BY <2>1 DEF PlainOK, HasHttps
    <2>3. pc' = "plain" => PlainOK
        BY <1>4 DEF Starting, Started
    <2> QED BY <2>1, <2>2, <2>3 DEF ListOK
<1>5. CASE Die
    BY <1>5 DEF Die, line, ListOK, Split
<1>6. CASE Restart
    BY <1>6 DEF Restart, line, ListOK, Split
<1>7. CASE Remount
    BY <1>7 DEF Remount, line, ListOK, Split, HasHttps, PlainOK
<1>8. CASE UNCHANGED vars
    BY <1>8 DEF vars, line, ListOK, Split, HasHttps, PlainOK
<1> QED BY <1>1, <1>2, <1>3, <1>4, <1>5, <1>6, <1>7, <1>8, Steps

THEOREM Invariance == Spec => []IInv
<1>1. IInv /\ [Next]_vars => IInv'
    BY TypedStep, SeenStep, ListStep DEF IInv
<1> QED BY <1>1, InitIInv, PTL DEF Spec

-----------------------------------------------------------------------------
(* The properties. *)

LEMMA TextsAre == Typed => coreText \in Seq(STRING) /\ urlText \in Seq(STRING)
<1> SUFFICES ASSUME Typed PROVE coreText \in Seq(STRING) /\ urlText \in Seq(STRING)
    OBVIOUS
<1>1. [core |-> coreText, urls |-> urlText] \in [core : Seq(STRING), urls : Seq(STRING)]
    BY ConfigAssumption DEF Typed
<1> QED BY <1>1

\* An option that a started server uses was looked at and not empty.
LEMMA UsedIsSeen ==
    ASSUME IInv, Split, NEW o \in used
    PROVE  o \in given /\ seen[o] \in {"bad", "good"}
<1>1. at = 4 /\ pc # "exited" /\ o \in AllOptions /\ o \in given
    BY DEF IInv, ListOK, Split, Typed
<1>2. PICK k \in 1..3 : Options[k] = o
    BY <1>1, OptionsAre
<1> QED BY <1>1, <1>2 DEF IInv, SeenOK

\* Every variable holds a value of its kind, the lists are no longer than their texts allow,
\* and an option that a started server uses was looked at and not empty.
THEOREM Typing == Spec => []TypeOK
<1>1. IInv => TypeOK
    <2> SUFFICES ASSUME IInv PROVE TypeOK
        OBVIOUS
    <2>1. Typed /\ SeenOK /\ ListOK
        BY DEF IInv
    <2>2. Split => \A o \in used : seen[o] \in {"bad", "good"}
        BY UsedIsSeen
    <2>3. \A list \in {core, urls} : Len(list) <= Len(coreText) + Len(urlText) + 1
        <3>1. coreText \in Seq(STRING) /\ urlText \in Seq(STRING)
            BY <2>1, TextsAre
        <3>2. Len(coreText) \in Nat /\ Len(urlText) \in Nat
            BY <3>1, LenProperties
        <3>3. Len(splitCommaSeparated(coreText, TRUE)) \in Nat
              /\ Len(splitCommaSeparated(coreText, TRUE)) <= Len(coreText) + 1
            BY <3>1, SplitIs
        <3>4. Len(splitCommaSeparated(urlText, FALSE)) \in Nat
              /\ Len(splitCommaSeparated(urlText, FALSE)) <= Len(urlText) + 1
            BY <3>1, SplitIs
        <3>5. CASE core = <<>> /\ urls = <<>>
            <4>1. Len(core) = 0 /\ Len(urls) = 0
                BY <3>5
            <4> QED BY <3>2, <4>1
        <3>6. CASE core = splitCommaSeparated(coreText, TRUE) /\ urls = splitCommaSeparated(urlText, FALSE)
            <4>1. Len(core) <= Len(coreText) + 1 /\ Len(core) \in Nat
                BY <3>3, <3>6
            <4>2. Len(urls) <= Len(urlText) + 1 /\ Len(urls) \in Nat
                BY <3>4, <3>6
            <4> QED BY <3>2, <4>1, <4>2
        <3> QED BY <2>1, <3>5, <3>6 DEF ListOK
    <2>4. at \in 1..(Len(Options) + 1) /\ DOMAIN seen = AllOptions
        BY <2>1, OptionsAre DEF Typed, SeenOK
    <2> QED BY <2>1, <2>2, <2>3, <2>4 DEF TypeOK, Typed
<1> QED BY <1>1, Invariance, PTL

\* What a list of the elements that are not empty is.
ListsWords(list, text, starts) ==
    /\ Len(list) \in Nat /\ DOMAIN list = 1..Len(list) /\ Len(list) = Len(starts)
    /\ \A j \in 1..Len(list) :
          list[j] # <<>> /\ list[j][1] = text[starts[j]] /\ Last(list[j]) # " "
    /\ \A i \in StartSet(text) : \E j \in 1..Len(list) : starts[j] = i

LEMMA ListOfWords ==
    ASSUME NEW text \in Seq(STRING)
    PROVE  ListsWords(splitCommaSeparated(text, FALSE), text, Starts(text))
<1> DEFINE list == splitCommaSeparated(text, FALSE)
           S == Kept(text, FALSE)
           T == StartSet(text)
           n == Cardinality(S)
<1>1. /\ S \in SUBSET Nat /\ IsFiniteSet(S)
      /\ Len(list) \in Nat /\ DOMAIN list = 1..Len(list)
      /\ Blank(text) => list = <<>>
      /\ ~ Blank(text) =>
            /\ Len(list) = n
            /\ \A j \in 1..n : list[j] = Element(text, InOrder[S][j])
    BY SplitIs
<1>2. /\ T \in SUBSET Nat /\ IsFiniteSet(T) /\ Cardinality(T) = n
      /\ \A j \in 1..n : InOrder[T][j] = WordOf(text, InOrder[S][j])
    BY WordsInOrder
<1>3. Starts(text) = InOrder[T]
    BY DEF Starts, StartSet
<1>4. n \in Nat /\ Len(InOrder[T]) = n
    <2> HIDE DEF S, T
    <2>1. n \in Nat
        BY <1>1, FS_CardinalityType
    <2>2. InOrder[T] \in [1..n -> T]
        BY <1>2, InOrderRanks
    <2> HIDE DEF n
    <2> QED BY <2>1, <2>2
<1>5. \A j \in 1..n : InOrder[S][j] \in S
    <2> HIDE DEF S
    <2> QED BY <1>1, InOrderRanks
<1>6. \A i \in T : \E j \in 1..n : InOrder[T][j] = i
    <2> HIDE DEF S, T
    <2> QED BY <1>2, InOrderRanks, Ranks
<1>7. Blank(text) => n = 0
    <2> SUFFICES ASSUME Blank(text) PROVE n = 0
        OBVIOUS
    <2>1. \A i \in 1..Len(text) : Space(text, i)
        BY LenProperties DEF Blank, Space
    <2>2. T = {}
        BY <2>1, BeginsIs
    <2> QED BY <1>2, <2>2, FS_EmptySet
<1> HIDE DEF list
<1>8. Len(list) = n
    <2>1. CASE Blank(text)
        <3>1. list = <<>>
            BY <1>1, <2>1
        <3>2. Len(list) = 0
            BY <3>1
        <3> QED BY <1>7, <2>1, <3>2
    <2> QED BY <1>1, <2>1
<1>9. ASSUME NEW j \in 1..n
      PROVE  list[j] # <<>> /\ list[j][1] = text[InOrder[T][j]] /\ Last(list[j]) # " "
    <2> DEFINE e == InOrder[S][j]
    <2>1. ~ Blank(text)
        <3> SUFFICES ASSUME Blank(text) PROVE FALSE
            OBVIOUS
        <3>1. n = 0
            BY <1>7
        <3> HIDE DEF n
        <3> QED BY <1>9, <3>1
    <2>2. list[j] = Element(text, e) /\ InOrder[T][j] = WordOf(text, e)
        BY <1>1, <1>2, <2>1
    <2>3. e \in Ends(text) /\ Element(text, e) # <<>>
        BY <1>5 DEF Kept
    <2> HIDE DEF e, list, T
    <2>4. Element(text, e)[1] = text[WordOf(text, e)] /\ Last(Element(text, e)) # " "
        BY <2>3, ElementOf
    <2> QED BY <2>2, <2>3, <2>4
<1> DEFINE starts == Starts(text)
<1>10. starts = InOrder[T]
    BY <1>3
<1> HIDE DEF S, T, starts
<1>11. ListsWords(list, text, starts)
    BY <1>1, <1>4, <1>6, <1>9, <1>10, <1>8 DEF ListsWords, T
<1> QED BY <1>11 DEF list, starts

\* A first URL of http is the first word of its text.
LEMMA FirstWord ==
    ASSUME IInv, Split, urls # <<>>, urls[1][1] \in PlainWords
    PROVE  HttpIsFirst
<1>1. urlText \in Seq(STRING)
    BY TextsAre DEF IInv
<1>2. urls = splitCommaSeparated(urlText, FALSE)
    BY DEF IInv, ListOK
<1>3. ListsWords(urls, urlText, Starts(urlText))
    BY <1>1, <1>2, ListOfWords
<1>4. 1 \in 1..Len(urls)
    <2>1. urls \in Seq(Seq(STRING))
        BY <1>1, <1>2, SplitIs
    <2> QED BY <2>1, EmptySeq, LenProperties
<1>5. urls[1][1] = urlText[Starts(urlText)[1]]
    BY <1>3, <1>4 DEF ListsWords
<1>6. Starts(urlText) # <<>>
    <2>1. Len(urls) = Len(Starts(urlText)) /\ Len(urls) \in Nat
        <3>1. \A list, text, starts :
                  ListsWords(list, text, starts) => Len(list) = Len(starts) /\ Len(list) \in Nat
            BY DEF ListsWords
        <3> QED BY <1>3, <3>1
    <2>2. Len(urls) # 0
        BY <1>4, <2>1
    <2>3. Len(<<>>) = 0
        OBVIOUS
    <2> QED BY <2>1, <2>2, <2>3
<1> QED BY <1>5, <1>6 DEF HttpIsFirst

\* Connections are in the clear only if an option was left out, or its file was empty when
\* main looked at it, or the first URL is an http one.
THEOREM PlainIsMeant == Spec => []PlainIsWanted
<1>1. IInv => PlainIsWanted
    <2> SUFFICES ASSUME IInv, pc = "plain", ~ HttpIsFirst
                 PROVE  \E o \in AllOptions : o \notin given \/ seen[o] = "empty"
        BY DEF PlainIsWanted
    <2>1. Typed /\ SeenOK /\ PlainOK /\ Split
        BY DEF IInv, ListOK, Split
    <2>2. used # AllOptions
        BY <2>1, FirstWord DEF PlainOK
    <2>3. PICK o \in AllOptions : o \notin used
        BY <2>1, <2>2 DEF Typed
    <2> QED BY <2>1, <2>3 DEF SeenOK
<1> QED BY <1>1, Invariance, PTL

\* Connections are in the clear beside an https URL only if an http one is first and the
\* three files were there.
THEOREM HttpsIsSecured == Spec => []HttpsNeedsTLS
<1>1. IInv => HttpsNeedsTLS
    <2> SUFFICES ASSUME IInv, pc = "plain", NEW i \in DOMAIN urlText,
                        Begins(urlText, i), urlText[i] \in HttpsWords
                 PROVE  HttpIsFirst /\ \A o \in AllOptions : o \in given /\ seen[o] \in {"bad", "good"}
        BY DEF HttpsNeedsTLS
    <2>1. urlText \in Seq(STRING)
        BY TextsAre DEF IInv
    <2>2. Split /\ PlainOK /\ urls = splitCommaSeparated(urlText, FALSE)
        BY DEF IInv, ListOK, Split
    <2>3. ListsWords(urls, urlText, Starts(urlText)) /\ i \in StartSet(urlText)
        BY <2>1, <2>2, ListOfWords DEF StartSet
    <2>4. PICK j \in 1..Len(urls) : Starts(urlText)[j] = i
        BY <2>3 DEF ListsWords
    <2>5. j \in DOMAIN urls /\ urls[j] # <<>> /\ urls[j][1] = urlText[i]
        BY <2>3, <2>4 DEF ListsWords
    <2>6. HasHttps
        BY <2>5 DEF HasHttps
    <2>7. used = AllOptions /\ urls # <<>> /\ urls[1][1] \in PlainWords
        BY <2>2, <2>6 DEF PlainOK
    <2> QED BY <2>2, <2>7, FirstWord, UsedIsSeen
<1> QED BY <1>1, Invariance, PTL

\* The core group is in its list exactly if the list has an empty place, and the endpoints
\* are the elements with words, in order and without their padding.
THEOREM ListsAreRight == Spec => []ListsAreRead
<1>1. IInv => CoreGroupKept
    <2> SUFFICES ASSUME IInv, Split PROVE CoreGroupKept
        BY DEF CoreGroupKept
    <2>1. coreText \in Seq(STRING) /\ core = splitCommaSeparated(coreText, TRUE)
        BY TextsAre DEF IInv, ListOK
    <2>2. Contains(core, <<>>) <=>
            /\ ~ Blank(coreText)
            /\ \E i, j \in 0..(Len(coreText) + 1) :
                  i < j /\ Bound(coreText, i) /\ Bound(coreText, j) /\ BlankBetween(coreText, i, j)
        BY <2>1, EmptyElement
    <2> QED BY <2>2 DEF CoreGroupKept, Bound, BlankBetween, Comma, Space
<1>2. IInv => UrlsAreListed
    <2> SUFFICES ASSUME IInv, Split PROVE UrlsAreListed
        BY DEF UrlsAreListed
    <2>1. urlText \in Seq(STRING) /\ urls = splitCommaSeparated(urlText, FALSE)
        BY TextsAre DEF IInv, ListOK
    <2>2. ListsWords(urls, urlText, Starts(urlText))
        BY <2>1, ListOfWords
    <2> QED BY <2>2 DEF UrlsAreListed, ListsWords
<1> QED BY <1>1, <1>2, Invariance, PTL DEF ListsAreRead

=============================================================================
