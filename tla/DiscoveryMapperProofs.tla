------------------------ MODULE DiscoveryMapperProofs ------------------------
(***************************************************************************)
(* Proofs about DiscoveryMapper, for any number of concurrent lookups, any *)
(* kinds and any changes and failures of discovery.                        *)
(***************************************************************************)
EXTENDS DiscoveryMapper, TLAPS

\* The lock is held for a discovery, by the lookup that makes it, and only while
\* there is no delegate.
LockOK ==
    /\ \A c \in Callers : pc[c] = "fetch" <=> lock = c
    /\ lock # Nobody => delegate = NoView

\* What a lookup has made sure of.  In its second round, after its reset, all that the
\* shared view, the view it took and the discovery under way lack is excused.
CallerOK(c) ==
    /\ pc[c] \notin {"idle"} => want[c] \in Kinds
    /\ pc[c] = "retry" => round[c] = 1
    /\ pc[c] \notin {"idle", "done"} /\ ~ excused[c] => want[c] \in registered
    /\ pc[c] \notin {"idle", "done"} => answer[c] = "none"
    /\ answer[c] = "missing" => excused[c]
    /\ pc[c] \notin {"idle", "done"} /\ round[c] = 2 /\ ~ excused[c] =>
          /\ delegate # NoView => want[c] \in delegate
          /\ pc[c] = "search" => want[c] \in view[c]
          /\ lock # Nobody => want[c] \notin lacked

IInv == TypeOK /\ LockOK /\ \A c \in Callers : CallerOK(c)

LEMMA Initially == Init => IInv
<1> SUFFICES ASSUME Init PROVE IInv
    OBVIOUS
<1>1. TypeOK
    <2>1. /\ registered \in DiscoverySets
          /\ changes \in 0..MaxChanges
          /\ errors \in 0..MaxErrors
        BY MapperAssumption DEF Init
    <2>2. /\ delegate \in (SUBSET Kinds) \cup {NoView}
          /\ fresh \in BOOLEAN
          /\ lock \in Callers \cup {Nobody}
          /\ had \subseteq Kinds
          /\ lacked \subseteq Kinds
        BY DEF Init
    <2>3. /\ pc \in [Callers -> {"idle", "get", "fetch", "search", "reset", "retry", "done"}]
          /\ round \in [Callers -> {1, 2}]
          /\ want \in [Callers -> Kinds \cup {NoKind}]
          /\ view \in [Callers -> SUBSET Kinds]
          /\ answer \in [Callers -> {"none", "found", "missing"}]
          /\ excused \in [Callers -> BOOLEAN]
        BY DEF Init
    <2> QED
        BY <2>1, <2>2, <2>3 DEF TypeOK
<1>2. LockOK
    BY MapperAssumption DEF Init, LockOK
<1>3. \A c \in Callers : CallerOK(c)
    BY DEF Init, CallerOK
<1> QED
    BY <1>1, <1>2, <1>3 DEF IInv

\* The step of one lookup leaves all others alone.
Same(c) ==
    /\ pc'[c] = pc[c]
    /\ round'[c] = round[c]
    /\ want'[c] = want[c]
    /\ view'[c] = view[c]
    /\ answer'[c] = answer[c]

LEMMA Frame ==
    ASSUME NEW c \in Callers, CallerOK(c), Same(c), excused'[c] = excused[c],
           UNCHANGED <<registered, delegate, lock, lacked>>
    PROVE  CallerOK(c)'
BY DEF CallerOK, Same

LEMMA ErrorType ==
    ASSUME TypeOK, DiscoveryError
    PROVE  errors' \in 0..MaxErrors /\ excused' \in [Callers -> BOOLEAN]
<1>1. errors' \in 0..MaxErrors
    BY MapperAssumption DEF TypeOK, DiscoveryError
<1>2. \A c \in Callers : (excused[c] \/ c \in Active) \in BOOLEAN
    OBVIOUS
<1>3. excused' \in [Callers -> BOOLEAN]
    BY <1>2, Zenon DEF DiscoveryError
<1> QED
    BY <1>1, <1>3

LEMMA TypeNext ==
    ASSUME IInv, [Next]_vars
    PROVE  TypeOK'
<1> USE DEF TypeOK, IInv, Go
<1>1. ASSUME NEW c \in Callers, Ask(c)
      PROVE  TypeOK'
    BY <1>1 DEF Ask, env, shared
<1>2. ASSUME NEW c \in Callers, Take(c) \/ StartFetch(c)
      PROVE  TypeOK'
    BY <1>2, MapperAssumption DEF Take, StartFetch, env, shared
<1>3. ASSUME NEW c \in Callers, EndFetch(c)
      PROVE  TypeOK'
    <2>1. \E found \in SUBSET Kinds : delegate' = found /\ view' = [view EXCEPT ![c] = found]
        BY <1>3 DEF EndFetch
    <2>2. errors' \in 0..MaxErrors /\ excused' \in [Callers -> BOOLEAN]
        BY <1>3, ErrorType DEF EndFetch
    <2>3. delegate' \in (SUBSET Kinds) \cup {NoView} /\ view' \in [Callers -> SUBSET Kinds]
        BY <2>1
    <2>4. fresh' \in BOOLEAN /\ lock' \in Callers \cup {Nobody}
        BY <1>3 DEF EndFetch
    <2>5. pc' \in [Callers -> {"idle", "get", "fetch", "search", "reset", "retry", "done"}]
        BY <1>3 DEF EndFetch
    <2>6. UNCHANGED <<registered, changes, had, lacked, round, want, answer>>
        BY <1>3 DEF EndFetch
    <2> QED
        BY <2>2, <2>3, <2>4, <2>5, <2>6
<1>4. ASSUME NEW c \in Callers, FailFetch(c)
      PROVE  TypeOK'
    <2>1. errors' \in 0..MaxErrors /\ excused' \in [Callers -> BOOLEAN]
        BY <1>4, ErrorType DEF FailFetch
    <2> QED
        BY <1>4, <2>1 DEF FailFetch, Failed
<1>5. ASSUME NEW c \in Callers, Hit(c) \/ Miss(c) \/ MissStale(c)
      PROVE  TypeOK'
    BY <1>5 DEF Hit, Miss, Failed, MissStale, env, shared
<1>6. ASSUME NEW c \in Callers, Reset(c)
      PROVE  TypeOK'
    BY <1>6 DEF Reset, env
<1>7. CASE ChangeDiscovery
    BY <1>7, MapperAssumption DEF ChangeDiscovery, local
<1>8. CASE UNCHANGED vars
    BY <1>8 DEF vars, env, shared, local
<1> QED
    BY <1>1, <1>2, <1>3, <1>4, <1>5, <1>6, <1>7, <1>8 DEF Next, Locking, Working

LEMMA LockNext ==
    ASSUME IInv, [Next]_vars
    PROVE  LockOK'
<1> USE DEF TypeOK, LockOK, IInv, Go
<1>1. ASSUME NEW c \in Callers, Ask(c)
      PROVE  LockOK'
    BY <1>1 DEF Ask, Active, shared
<1>2. ASSUME NEW c \in Callers, Take(c) \/ Hit(c) \/ Miss(c) \/ MissStale(c) \/ Reset(c)
      PROVE  LockOK'
    BY <1>2 DEF Take, Hit, Miss, Failed, MissStale, Reset, shared
<1>3. ASSUME NEW c \in Callers, StartFetch(c) \/ EndFetch(c) \/ FailFetch(c)
      PROVE  LockOK'
    BY <1>3, MapperAssumption DEF StartFetch, EndFetch, FailFetch, Failed
<1>4. CASE ChangeDiscovery \/ UNCHANGED vars
    BY <1>4 DEF ChangeDiscovery, vars, shared, local
<1> QED
    BY <1>1, <1>2, <1>3, <1>4 DEF Next, Locking, Working

LEMMA CallerNext ==
    ASSUME IInv, [Next]_vars, NEW d \in Callers
    PROVE  CallerOK(d)'
<1> USE DEF TypeOK, IInv, Go
<1>0. LockOK /\ CallerOK(d)
    OBVIOUS
<1>1. ASSUME NEW c \in Callers, Ask(c)
      PROVE  CallerOK(d)'
    <2>1. CASE c = d
        <3>1. PICK k \in Kinds : /\ want' = [want EXCEPT ![c] = k]
                                 /\ excused' = [excused EXCEPT ![c] = k \notin registered]
            BY <1>1 DEF Ask
        <3>2. want'[d] = k /\ (excused'[d] <=> k \notin registered)
            BY <2>1, <3>1
        <3>3. pc'[d] = "get" /\ round'[d] = 1 /\ answer'[d] = "none" /\ registered' = registered
            BY <1>1, <2>1 DEF Ask, env
        <3> QED
            BY <3>2, <3>3 DEF CallerOK
    <2>2. CASE c # d
        BY <1>0, <1>1, <2>2, Frame DEF Ask, Same, env, shared
    <2> QED
        BY <2>1, <2>2
<1>2. ASSUME NEW c \in Callers, Take(c)
      PROVE  CallerOK(d)'
    <2>1. CASE c = d
        BY <1>0, <1>2, <2>1 DEF Take, CallerOK, env, shared
    <2>2. CASE c # d
        BY <1>0, <1>2, <2>2, Frame DEF Take, Same, env, shared
    <2> QED
        BY <2>1, <2>2
<1>3. ASSUME NEW c \in Callers, StartFetch(c)
      PROVE  CallerOK(d)'
    <2>1. pc[d] \notin {"idle", "done"} /\ ~ excused[d] => want[d] \notin lacked'
        BY <1>0, <1>3 DEF StartFetch, CallerOK
    <2>2. \/ pc'[d] = pc[d]
          \/ pc[d] = "get" /\ pc'[d] = "fetch"
        BY <1>3 DEF StartFetch
    <2>3. /\ UNCHANGED <<registered, delegate, round, want, view, answer, excused>>
          /\ delegate = NoView
        BY <1>3 DEF StartFetch, env
    <2> QED
        BY <1>0, <2>1, <2>2, <2>3 DEF CallerOK
<1>4. ASSUME NEW c \in Callers, EndFetch(c)
      PROVE  CallerOK(d)'
    <2>1. lock = c /\ lock # Nobody
        BY <1>0, <1>4, MapperAssumption DEF EndFetch, LockOK
    <2>2. PICK found \in SUBSET had :
             /\ \/ Kinds \ lacked \subseteq found /\ UNCHANGED <<errors, excused>>
                \/ ~ (Kinds \ lacked \subseteq found) /\ DiscoveryError
             /\ delegate' = found
             /\ view' = [view EXCEPT ![c] = found]
        BY <1>4 DEF EndFetch
    <2>3. CASE UNCHANGED excused /\ Kinds \ lacked \subseteq found
        <3>1. pc[d] \notin {"idle", "done"} /\ round[d] = 2 /\ ~ excused[d] => want[d] \in found
            BY <1>0, <2>1, <2>3 DEF CallerOK
        <3> QED
            BY <1>0, <1>4, <2>1, <2>2, <2>3, <3>1 DEF EndFetch, CallerOK
    <2>4. CASE DiscoveryError
        BY <1>0, <1>4, <2>2, <2>4 DEF EndFetch, DiscoveryError, Active, CallerOK
    <2> QED
        BY <2>2, <2>3, <2>4
<1>5. ASSUME NEW c \in Callers, FailFetch(c)
      PROVE  CallerOK(d)'
    BY <1>0, <1>5 DEF FailFetch, Failed, DiscoveryError, Active, CallerOK
<1>6. ASSUME NEW c \in Callers, Hit(c)
      PROVE  CallerOK(d)'
    <2>1. CASE c = d
        BY <1>0, <1>6, <2>1 DEF Hit, CallerOK, env, shared
    <2>2. CASE c # d
        BY <1>0, <1>6, <2>2, Frame DEF Hit, Same, env, shared
    <2> QED
        BY <2>1, <2>2
<1>7. ASSUME NEW c \in Callers, Miss(c)
      PROVE  CallerOK(d)'
    <2>1. CASE c = d
        BY <1>0, <1>7, <2>1 DEF Miss, Failed, CallerOK, env, shared
    <2>2. CASE c # d
        BY <1>0, <1>7, <2>2, Frame DEF Miss, Failed, Same, env, shared
    <2> QED
        BY <2>1, <2>2
<1>8. ASSUME NEW c \in Callers, MissStale(c)
      PROVE  CallerOK(d)'
    <2>1. CASE c = d
        BY <1>0, <1>8, <2>1 DEF MissStale, CallerOK, env, shared
    <2>2. CASE c # d
        BY <1>0, <1>8, <2>2, Frame DEF MissStale, Same, env, shared
    <2> QED
        BY <2>1, <2>2
<1>9. ASSUME NEW c \in Callers, Reset(c)
      PROVE  CallerOK(d)'
    BY <1>0, <1>9 DEF Reset, CallerOK, env
<1>10. CASE ChangeDiscovery
    BY <1>0, <1>10 DEF ChangeDiscovery, Active, CallerOK, local
<1>11. CASE UNCHANGED vars
    BY <1>0, <1>11, Frame DEF vars, env, shared, local, Same
<1> QED
    BY <1>1, <1>2, <1>3, <1>4, <1>5, <1>6, <1>7, <1>8, <1>9, <1>10, <1>11
    DEF Next, Locking, Working

\* The inductive invariant: after its own reset, whatever a lookup can come to
\* search was discovered during the lookup.
THEOREM Invariance == Spec => []IInv
<1>1. Init => IInv
    BY Initially
<1>2. IInv /\ [Next]_vars => IInv'
    BY TypeNext, LockNext, CallerNext DEF IInv
<1> QED
    BY <1>1, <1>2, PTL DEF Spec

\* Type correctness, for any callers and kinds.
THEOREM Typing == Spec => []TypeOK
<1>1. IInv => TypeOK
    BY DEF IInv
<1> QED
    BY <1>1, Invariance, PTL

\* getResurce never reports a kind as missing that was served, and discovered without
\* errors, throughout the call.
THEOREM Missing == Spec => []MissIsTrue
<1>1. IInv => MissIsTrue
    BY DEF IInv, CallerOK, MissIsTrue
<1> QED
    BY <1>1, Invariance, PTL
=============================================================================
