-------------------------- MODULE TransactionProofs --------------------------
(***************************************************************************)
(* Proofs about Transaction, for every value of its constants: any number  *)
(* of concurrent calls, any requests, grants and discovery answers, any    *)
(* number of crashes.                                                      *)
(***************************************************************************)
EXTENDS Transaction, SequenceTheorems, TLAPS

-----------------------------------------------------------------------------
(* The operators the specification is built from. *)

TaggedEntry == [op : Operations, kind : AnyKind, ns : AnyNamespace, name : AnyName]

LEMMA TaggedType ==
    ASSUME NEW seq \in Seq(Entry), NEW op \in Operations
    PROVE  Tagged(seq, op) \in Seq(TaggedEntry)
<1>1. Len(seq) \in Nat
    BY LenProperties
<1>2. \A i \in 1..Len(seq) : seq[i] \in Entry
    BY ElementOfSeq
<1>3. Tagged(seq, op) \in [1..Len(seq) -> TaggedEntry]
    BY <1>2 DEF Tagged, TaggedEntry, Entry
<1> QED
    BY <1>1, <1>3, SeqDef

LEMMA EntriesType ==
    ASSUME NEW b \in Bodies
    PROVE  /\ Entries(b) \in Seq(TaggedEntry)
           /\ Len(Entries(b)) \in Nat
           /\ \A i \in 1..Len(Entries(b)) : Entries(b)[i] \in TaggedEntry
<1>1. b \in Body
    BY TransactionAssumption
<1>2. /\ b.create \in Seq(Entry)
      /\ b.update \in Seq(Entry)
      /\ b.delete \in Seq(Entry)
    BY <1>1 DEF Body
<1>3. /\ Tagged(b.create, "create") \in Seq(TaggedEntry)
      /\ Tagged(b.update, "update") \in Seq(TaggedEntry)
      /\ Tagged(b.delete, "delete") \in Seq(TaggedEntry)
    BY <1>2, TaggedType DEF Operations
<1>4. Entries(b) \in Seq(TaggedEntry)
    BY <1>3, ConcatProperties DEF Entries
<1> QED
    BY <1>4, LenProperties, ElementOfSeq

LEMMA RequestNamespaceType ==
    ASSUME NEW b \in Bodies
    PROVE  RequestNamespace(b) \in AnyNamespace
BY TransactionAssumption DEF Body, RequestNamespace, AnyNamespace

LEMMA AttributesType ==
    ASSUME NEW b \in Bodies, NEW e \in TaggedEntry, e.kind \in Kinds
    PROVE  Attributes(b, e) \in Attribute
<1>1. EntryNamespace(b, e) \in AnyNamespace
    BY RequestNamespaceType DEF TaggedEntry, EntryNamespace, ScopedNamespace, AnyNamespace
<1>2. Mapping[e.kind].group \in Groups /\ Mapping[e.kind].resource \in Resources
    BY KeysAssumption
<1>3. e.op \in Operations
    BY DEF TaggedEntry
<1> QED
    BY <1>1, <1>2, <1>3 DEF Attributes, Attribute

LEMMA CacheKeyIsAttributes ==
    ASSUME NEW a \in Attribute
    PROVE  CacheKey(a) = a
BY DEF CacheKey, Attribute

LEMMA TransactionKeyType ==
    ASSUME NEW b \in Bodies, NEW now \in 0..MaxClock
    PROVE  TransactionStorageKey(RequestNamespace(b), TransactionName(b, now)) \in TransactionKeys
<1>1. b.metaName \in AnyName /\ b.pathName \in AnyName
    BY TransactionAssumption DEF Body
<1>2. TransactionName(b, now) \in TransactionNames
    BY <1>1 DEF TransactionName, TransactionNames, AnyName
<1> QED
    BY <1>2, RequestNamespaceType DEF TransactionKeys

-----------------------------------------------------------------------------
(* Type correctness. *)

\* A call that is under way has a request, and is at an entry of it or behind
\* the last one.
CallOK ==
    \A r \in Requests :
        /\ pc[r] \in {"authorize", "build", "commit"} => body[r] \in Bodies
        /\ pc[r] \in {"authorize", "build"} => at[r] # 0

\* Where a call is, what became of its transaction, and what it answered.
PhaseOK ==
    \A r \in Requests :
        /\ rpc[r] # "none" => pc[r] \in {"commit", "done", "lost"}
        /\ pc[r] = "commit" => rpc[r] # "none"
        /\ rpc[r] = "none" <=> txnKey[r] = <<>>
        /\ reply[r] # "none" => pc[r] = "done"
        /\ reply[r] \in {"BadRequest", "Forbidden"} => rpc[r] = "none"
        /\ reply[r] = "Created" => rpc[r] = "succeeded"
        /\ reply[r] = "TransactionFailed" => rpc[r] = "conflict"

LEMMA CurrentType ==
    ASSUME TypeOK, CallOK,
           NEW r \in Requests, NEW phase \in {"authorize", "build"}, AtEntry(r, phase)
    PROVE  /\ body[r] \in Bodies
           /\ at[r] \in 1..Len(EntriesOf(r))
           /\ Current(r) \in TaggedEntry
<1>1. body[r] \in Bodies
    BY DEF CallOK, AtEntry
<1>2. at[r] \in 1..Len(EntriesOf(r))
    BY <1>1, EntriesType DEF TypeOK, CallOK, AtEntry, EntriesOf
<1> QED
    BY <1>1, <1>2, EntriesType DEF EntriesOf, Current

LEMMA ServableKinds == Servable \subseteq Kinds
BY TransactionAssumption DEF Servable

LEMMA MappedType ==
    ASSUME TypeOK, NEW r \in Requests, Mapped(r)
    PROVE  Current(r).kind \in Kinds /\ mapped' \subseteq Kinds
BY ServableKinds DEF TypeOK, Mapped, Views

LEMMA TypingNext ==
    ASSUME TypeOK, CallOK, PhaseOK, [Next]_vars
    PROVE  TypeOK' /\ CallOK'
<1> USE DEF TypeOK, CallOK, Stored, Author
<1>1. ASSUME NEW r \in Requests, Arrive(r)
      PROVE  TypeOK' /\ CallOK'
    <2>1. CASE RefuseBody(r)
        BY <2>1 DEF RefuseBody, Answer, world, call
    <2>3. CASE RefuseNamespace(r)
        BY <2>3 DEF RefuseNamespace, Answer, world
    <2>2. CASE Receive(r)
        BY <2>2 DEF Receive, world
    <2> QED
        BY <1>1, <2>1, <2>2, <2>3 DEF Arrive
<1>2. ASSUME NEW r \in Requests, AuthorizeMalformed(r)
      PROVE  TypeOK' /\ CallOK'
    BY <1>2 DEF AuthorizeMalformed, Answer, world, call
<1>3. ASSUME NEW r \in Requests, AuthorizeSkip(r)
      PROVE  TypeOK' /\ CallOK'
    BY <1>3, ServableKinds DEF AuthorizeSkip, AtEntry, Views, NextEntry, world, call
<1>4. ASSUME NEW r \in Requests, AuthorizeCached(r)
      PROVE  TypeOK' /\ CallOK'
    BY <1>4, MappedType DEF AuthorizeCached, AtEntry, NextEntry, world, call
<1>5. ASSUME NEW r \in Requests, AuthorizeAllowed(r)
      PROVE  TypeOK' /\ CallOK'
    <2> DEFINE a == Attributes(body[r], Current(r))
    <2>1. a \in Attribute /\ CacheKey(a) = a
        BY <1>5, CurrentType, MappedType, AttributesType, CacheKeyIsAttributes
        DEF AuthorizeAllowed
    <2>2. /\ cache' = [cache EXCEPT ![r] = @ \cup {a}]
          /\ reviewed' = [reviewed EXCEPT ![r] = @ \cup {a}]
        BY <1>5, <2>1 DEF AuthorizeAllowed
    <2> QED
        BY <1>5, <2>1, <2>2, MappedType DEF AuthorizeAllowed, AtEntry, NextEntry, world, call
<1>6. ASSUME NEW r \in Requests, AuthorizeDenied(r)
      PROVE  TypeOK' /\ CallOK'
    BY <1>6, MappedType DEF AuthorizeDenied, Answer, world, call
<1>7. ASSUME NEW r \in Requests, BeginBuild(r)
      PROVE  TypeOK' /\ CallOK'
    BY <1>7 DEF BeginBuild, world, call
<1>8. ASSUME NEW r \in Requests, BuildAccept(r)
      PROVE  TypeOK' /\ CallOK'
    BY <1>8, MappedType DEF BuildAccept, AtEntry, NextEntry, world, call
<1>9. ASSUME NEW r \in Requests, BuildReject(r)
      PROVE  TypeOK' /\ CallOK'
    BY <1>9, ServableKinds DEF BuildReject, Views, Answer, world, call
<1>10. ASSUME NEW r \in Requests, RefuseEmpty(r)
       PROVE  TypeOK' /\ CallOK'
    BY <1>10 DEF RefuseEmpty, Answer, world, call
<1>11. ASSUME NEW r \in Requests, Commit(r)
       PROVE  TypeOK' /\ CallOK'
    BY <1>11, TransactionKeyType DEF Commit, Built, world, call
<1>12. ASSUME NEW r \in Requests, ReplyCreated(r) \/ ReplyFailed(r) \/ ReplyError(r)
       PROVE  TypeOK' /\ CallOK'
    BY <1>12 DEF ReplyCreated, ReplyFailed, ReplyError, Reply, Answer, world, call
<1>13. ASSUME NEW r \in Requests, Etcd(r)
       PROVE  TypeOK' /\ CallOK'
    <2>1. CASE EtcdPut(r)
        <3>1. /\ DOMAIN store' = DOMAIN store \cup {txnKey[r]}
              /\ \A k \in DOMAIN store' : store'[k] = store[k] \/ store'[k].by = r
              /\ \A k \in DOMAIN store' : k \notin DOMAIN store => store'[k].by = r
            BY <2>1 DEF EtcdPut, Record
        <3>2. txnKey[r] \in TransactionKeys
            BY <2>1 DEF EtcdPut, PhaseOK
        <3> QED
            BY <2>1, <3>1, <3>2 DEF EtcdPut, world, call
    <2>2. CASE EtcdConflict(r) \/ EtcdFail(r)
        BY <2>2 DEF EtcdConflict, EtcdFail, world, call
    <2> QED
        BY <1>13, <2>1, <2>2 DEF Etcd
<1>14. CASE World
    BY <1>14, TransactionAssumption, ServableKinds
    DEF World, Tick, ChangePermissions, ChangeDiscovery, OtherLookup, Crash, world, call
<1>15. CASE UNCHANGED vars
    BY <1>15 DEF vars, world, call
<1> QED
    BY <1>1, <1>2, <1>3, <1>4, <1>5, <1>6, <1>7, <1>8, <1>9, <1>10, <1>11,
       <1>12, <1>13, <1>14, <1>15
    DEF Next, Handle

-----------------------------------------------------------------------------
(* The phases of a call. *)

LEMMA PhaseNext ==
    ASSUME TypeOK, CallOK, PhaseOK, [Next]_vars
    PROVE  PhaseOK'
<1> USE DEF TypeOK, PhaseOK
<1>1. ASSUME NEW r \in Requests, Arrive(r)
      PROVE  PhaseOK'
    <2>1. CASE RefuseBody(r)
        BY <2>1 DEF RefuseBody, Answer, world, call
    <2>2. CASE RefuseNamespace(r)
        BY <2>2 DEF RefuseNamespace, Answer, world
    <2>3. CASE Receive(r)
        BY <2>3 DEF Receive, world
    <2> QED
        BY <1>1, <2>1, <2>2, <2>3 DEF Arrive
<1>2. ASSUME NEW r \in Requests,
             \/ AuthorizeMalformed(r) \/ AuthorizeDenied(r)
             \/ BuildReject(r) \/ RefuseEmpty(r)
      PROVE  PhaseOK'
    BY <1>2 DEF AuthorizeMalformed, AuthorizeDenied, BuildReject, RefuseEmpty,
                AtEntry, Built, Answer, world, call
<1>3. ASSUME NEW r \in Requests,
             \/ AuthorizeSkip(r) \/ AuthorizeCached(r) \/ AuthorizeAllowed(r)
             \/ BeginBuild(r) \/ BuildAccept(r)
      PROVE  PhaseOK'
    BY <1>3 DEF AuthorizeSkip, AuthorizeCached, AuthorizeAllowed, BeginBuild, BuildAccept,
                AtEntry, world, call
<1>4. ASSUME NEW r \in Requests, Commit(r)
      PROVE  PhaseOK'
    <2>1. txnKey'[r] # <<>>
        BY <1>4 DEF Commit, TransactionStorageKey
    <2> QED
        BY <1>4, <2>1 DEF Commit, Built, world
<1>5. ASSUME NEW r \in Requests, ReplyCreated(r) \/ ReplyFailed(r) \/ ReplyError(r)
      PROVE  PhaseOK'
    BY <1>5 DEF ReplyCreated, ReplyFailed, ReplyError, Reply, Answer, world, call
<1>6. ASSUME NEW r \in Requests, Etcd(r)
      PROVE  PhaseOK'
    BY <1>6 DEF Etcd, EtcdPut, EtcdConflict, EtcdFail, world, call
<1>7. CASE World
    BY <1>7 DEF World, Tick, ChangePermissions, ChangeDiscovery, OtherLookup, Crash, world, call
<1>8. CASE UNCHANGED vars
    BY <1>8 DEF vars, world, call
<1> QED
    BY <1>1, <1>2, <1>3, <1>4, <1>5, <1>6, <1>7, <1>8 DEF Next, Handle

-----------------------------------------------------------------------------
(* What etcd holds agrees with what became of the transactions. *)

StoreOK ==
    /\ \A r \in Requests :
          /\ rpc[r] = "succeeded" => Stored(txnKey[r]) /\ Author(txnKey[r]) = r
          /\ rpc[r] = "conflict" => Stored(txnKey[r]) /\ Author(txnKey[r]) # r
    /\ \A k \in DOMAIN store :
          /\ rpc[Author(k)] = "succeeded"
          /\ txnKey[Author(k)] = k
          /\ store[k].payload = resources[Author(k)]

\* A step that adds nothing to etcd and lets the calls with a transaction be.
LEMMA StoreFrame ==
    ASSUME TypeOK, StoreOK, UNCHANGED store,
           \A r \in Requests :
               /\ rpc[r] \in {"succeeded", "conflict"} =>
                      /\ rpc'[r] = rpc[r]
                      /\ txnKey'[r] = txnKey[r]
                      /\ resources'[r] = resources[r]
               /\ rpc[r] \notin {"succeeded", "conflict"} =>
                      rpc'[r] \notin {"succeeded", "conflict"}
    PROVE  StoreOK'
<1>1. ASSUME NEW r \in Requests
      PROVE  /\ rpc'[r] = "succeeded" => Stored(txnKey[r])' /\ Author(txnKey[r])' = r
             /\ rpc'[r] = "conflict" => Stored(txnKey[r])' /\ Author(txnKey[r])' # r
    BY DEF StoreOK, Stored, Author
<1>2. ASSUME NEW k \in DOMAIN store
      PROVE  /\ rpc'[Author(k)] = "succeeded"
             /\ txnKey'[Author(k)] = k
             /\ store[k].payload = resources'[Author(k)]
    BY DEF TypeOK, StoreOK
<1> QED
    BY <1>1, <1>2 DEF StoreOK, Author

LEMMA StoreNext ==
    ASSUME TypeOK, CallOK, PhaseOK, StoreOK, [Next]_vars
    PROVE  StoreOK'
<1> USE DEF TypeOK
<1>1. ASSUME NEW r \in Requests, Arrive(r)
      PROVE  StoreOK'
    BY <1>1, StoreFrame DEF Arrive, RefuseBody, RefuseNamespace, Receive, world, call
<1>2. ASSUME NEW r \in Requests,
             \/ AuthorizeMalformed(r) \/ AuthorizeDenied(r) \/ AuthorizeSkip(r)
             \/ AuthorizeCached(r) \/ AuthorizeAllowed(r) \/ BeginBuild(r)
             \/ BuildReject(r) \/ RefuseEmpty(r)
             \/ ReplyCreated(r) \/ ReplyFailed(r) \/ ReplyError(r)
      PROVE  StoreOK'
    BY <1>2, StoreFrame
    DEF AuthorizeMalformed, AuthorizeDenied, AuthorizeSkip, AuthorizeCached, AuthorizeAllowed,
        BeginBuild, BuildReject, RefuseEmpty, ReplyCreated, ReplyFailed, ReplyError, Reply, world, call
<1>3. ASSUME NEW r \in Requests, BuildAccept(r)
      PROVE  StoreOK'
    <2>1. rpc[r] = "none"
        BY <1>3 DEF BuildAccept, AtEntry, PhaseOK
    <2>2. \A q \in Requests : q # r => resources'[q] = resources[q]
        BY <1>3 DEF BuildAccept
    <2> QED
        BY <1>3, <2>1, <2>2, StoreFrame DEF BuildAccept, world
<1>4. ASSUME NEW r \in Requests, Commit(r)
      PROVE  StoreOK'
    <2>1. rpc[r] = "none"
        BY <1>4 DEF Commit, Built, PhaseOK
    <2> QED
        BY <1>4, <2>1, StoreFrame DEF Commit, world
<1>5. ASSUME NEW r \in Requests, EtcdPut(r)
      PROVE  StoreOK'
    <2>1. /\ DOMAIN store' = DOMAIN store \cup {txnKey[r]}
          /\ txnKey[r] \notin DOMAIN store
          /\ store'[txnKey[r]] = [by |-> r, payload |-> resources[r]]
          /\ \A k \in DOMAIN store : store'[k] = store[k]
        BY <1>5 DEF EtcdPut, KeyFree, Record
    <2>2. rpc[r] = "sent" /\ rpc' = [rpc EXCEPT ![r] = "succeeded"]
        BY <1>5 DEF EtcdPut
    <2>3. UNCHANGED <<txnKey, resources>>
        BY <1>5 DEF EtcdPut, call
    <2>4. store'[txnKey[r]].by = r /\ store'[txnKey[r]].payload = resources[r]
        BY <2>1
    <2> QED
        BY <2>1, <2>2, <2>3, <2>4 DEF StoreOK, Stored, Author
<1>6. ASSUME NEW r \in Requests, EtcdConflict(r)
      PROVE  StoreOK'
    <2>1. Stored(txnKey[r])
        BY <1>6 DEF EtcdConflict, KeyFree, Stored
    <2>2. Author(txnKey[r]) # r
        BY <1>6, <2>1 DEF EtcdConflict, StoreOK, Stored
    <2> QED
        BY <1>6, <2>1, <2>2 DEF EtcdConflict, StoreOK, Stored, Author, call
<1>7. ASSUME NEW r \in Requests, EtcdFail(r)
      PROVE  StoreOK'
    BY <1>7, StoreFrame DEF EtcdFail, call
<1>8. CASE World
    BY <1>8, StoreFrame DEF World, Tick, ChangePermissions, ChangeDiscovery, OtherLookup, Crash, call
<1>9. CASE UNCHANGED vars
    BY <1>9, StoreFrame DEF vars, call
<1> QED
    BY <1>1, <1>2, <1>3, <1>4, <1>5, <1>6, <1>7, <1>8, <1>9 DEF Next, Handle, Etcd

-----------------------------------------------------------------------------
(* The map a call builds: after n entries it is what n entries are stored   *)
(* as.                                                                      *)

LEMMA LastWritersStep ==
    ASSUME NEW r \in Requests, NEW b \in Bodies, NEW n \in Nat,
           Entries(b)[n + 1].kind \in Kinds
    PROVE  LastWriters(r, b, n + 1) =
               {i \in LastWriters(r, b, n) : Slot(r, b, n + 1) # Slot(r, b, i)} \cup {n + 1}
<1>1. ASSUME NEW i \in 1..n
      PROVE  /\ (i + 1)..(n + 1) = ((i + 1)..n) \cup {n + 1}
             /\ i \in 1..(n + 1)
    OBVIOUS
<1>2. ASSUME NEW i \in 1..n
      PROVE  i \in LastWriters(r, b, n + 1) <=>
                 i \in LastWriters(r, b, n) /\ Slot(r, b, n + 1) # Slot(r, b, i)
    BY <1>1 DEF LastWriters
<1>3. n + 1 \in LastWriters(r, b, n + 1)
    BY DEF LastWriters
<1>4. /\ LastWriters(r, b, n + 1) \subseteq (1..n) \cup {n + 1}
      /\ LastWriters(r, b, n) \subseteq 1..n
    BY DEF LastWriters
<1> QED
    BY <1>2, <1>3, <1>4

LEMMA PayloadStep ==
    ASSUME NEW r \in Requests, NEW b \in Bodies, NEW n \in Nat, NEW m, m = n + 1,
           Entries(b)[m].kind \in Kinds
    PROVE  PayloadUpTo(r, b, m) =
               Put(PayloadUpTo(r, b, n), Content(r, b, m))
<1>1. \A i : Content(r, b, i).slot = Slot(r, b, i)
    BY DEF Content
<1>2. LastWriters(r, b, m) =
          {i \in LastWriters(r, b, n) : Slot(r, b, m) # Slot(r, b, i)} \cup {m}
    BY LastWritersStep
<1> QED
    BY <1>1, <1>2 DEF PayloadUpTo, Put

LEMMA NothingStoredYet ==
    ASSUME NEW r, NEW b
    PROVE  PayloadUpTo(r, b, 0) = {}
BY DEF PayloadUpTo, LastWriters

\* The i-th entry can be stored: it has a resource, and what it creates or
\* updates can be addressed.
EntryFits(b, i) ==
    LET e == Entries(b)[i] IN
    /\ e.kind \in Kinds
    /\ e.op # "delete" => DryRunPath(b, e)

MapOf(r) ==
    /\ pc[r] \in {"idle", "authorize"} => resources[r] = {}
    /\ pc[r] = "build" =>
          /\ at[r] \in 1..(EntryCount(r) + 1)
          /\ resources[r] = PayloadUpTo(r, body[r], at[r] - 1)
          /\ \A i \in 1..(at[r] - 1) : EntryFits(body[r], i)
    /\ rpc[r] # "none" =>
          /\ body[r] \in Bodies
          /\ resources[r] = WholePayload[r][body[r]]
          /\ resources[r] # {}
          /\ \A i \in 1..EntryCount(r) : EntryFits(body[r], i)

MapOK == \A r \in Requests : MapOf(r)

LEMMA MapOfOthers ==
    ASSUME NEW q \in Requests, MapOf(q),
           pc'[q] = pc[q], at'[q] = at[q], body'[q] = body[q],
           rpc'[q] = rpc[q], resources'[q] = resources[q]
    PROVE  MapOf(q)'
BY DEF MapOf, EntryCount, EntriesOf

\* A step that leaves requests, maps and positions in the build alone.
LEMMA MapFrame ==
    ASSUME TypeOK, MapOK, UNCHANGED <<body, resources>>,
           \A r \in Requests :
               /\ pc'[r] \in {"idle", "authorize"} => pc[r] \in {"idle", "authorize"}
               /\ pc'[r] = "build" => pc[r] = "build" /\ at'[r] = at[r]
               /\ rpc'[r] # "none" => rpc[r] # "none"
    PROVE  MapOK'
BY DEF MapOK, MapOf, EntryCount, EntriesOf

LEMMA MapNext ==
    ASSUME TypeOK, CallOK, PhaseOK, MapOK, [Next]_vars
    PROVE  MapOK'
<1> USE DEF TypeOK
<1>1. ASSUME NEW r \in Requests, Arrive(r)
      PROVE  MapOK'
    <2>1. /\ rpc[r] = "none"
          /\ pc[r] = "idle"
          /\ pc'[r] \in {"authorize", "done"}
          /\ UNCHANGED <<resources, rpc>>
          /\ \A q \in Requests : q # r => body'[q] = body[q] /\ at'[q] = at[q] /\ pc'[q] = pc[q]
        <3>1. CASE RefuseBody(r)
            BY <3>1 DEF RefuseBody, Answer, call, PhaseOK
        <3>2. CASE RefuseNamespace(r)
            BY <3>2 DEF RefuseNamespace, Answer, PhaseOK
        <3>3. CASE Receive(r)
            BY <3>3 DEF Receive, PhaseOK
        <3> QED
            BY <1>1, <3>1, <3>2, <3>3 DEF Arrive
    <2>2. ASSUME NEW q \in Requests, q # r
          PROVE  /\ pc'[q] = pc[q] /\ at'[q] = at[q] /\ body'[q] = body[q]
                 /\ rpc'[q] = rpc[q] /\ resources'[q] = resources[q]
        BY <2>1, <2>2
    <2>3. rpc'[r] = "none" /\ resources'[r] = {}
        BY <2>1 DEF MapOK, MapOf
    <2>4. MapOf(r)'
        BY <2>1, <2>3 DEF MapOf
    <2> QED
        BY <2>2, <2>4, MapOfOthers DEF MapOK
<1>2. ASSUME NEW r \in Requests,
             \/ AuthorizeMalformed(r) \/ AuthorizeDenied(r)
             \/ BuildReject(r) \/ RefuseEmpty(r)
             \/ ReplyCreated(r) \/ ReplyFailed(r) \/ ReplyError(r)
      PROVE  MapOK'
    BY <1>2, MapFrame
    DEF AuthorizeMalformed, AuthorizeDenied, BuildReject, RefuseEmpty,
        ReplyCreated, ReplyFailed, ReplyError, Reply, Answer, call
<1>3. ASSUME NEW r \in Requests,
             AuthorizeSkip(r) \/ AuthorizeCached(r) \/ AuthorizeAllowed(r)
      PROVE  MapOK'
    BY <1>3, MapFrame
    DEF AuthorizeSkip, AuthorizeCached, AuthorizeAllowed, AtEntry, NextEntry
<1>4. ASSUME NEW r \in Requests, BeginBuild(r)
      PROVE  MapOK'
    <2>1. body[r] \in Bodies /\ Len(Entries(body[r])) \in Nat
        BY <1>4, EntriesType DEF BeginBuild, CallOK
    <2>2. resources'[r] = PayloadUpTo(r, body[r], 0)
        BY <1>4, NothingStoredYet DEF BeginBuild, MapOK, MapOf
    <2>3. /\ at'[r] \in 1..(EntryCount(r) + 1)
          /\ at'[r] - 1 = 0
          /\ \A i \in 1..(at'[r] - 1) : EntryFits(body[r], i)
        BY <1>4, <2>1 DEF BeginBuild, EntryCount, EntriesOf
    <2> QED
        BY <1>4, <2>2, <2>3 DEF BeginBuild, MapOK, MapOf, PhaseOK, EntryCount, EntriesOf
<1>5. ASSUME NEW r \in Requests, BuildAccept(r)
      PROVE  MapOK'
    <2>1. /\ body[r] \in Bodies
          /\ at[r] \in 1..EntryCount(r)
          /\ Current(r) = Entries(body[r])[at[r]]
          /\ EntryCount(r) \in Nat
        BY <1>5, CurrentType, EntriesType DEF BuildAccept, Current, EntryCount, EntriesOf
    <2>2. PICK n \in Nat : at[r] = n + 1 /\ n = at[r] - 1
        BY <2>1
    <2>3. /\ Current(r).kind \in Kinds
          /\ Current(r).op # "delete" => DryRunPath(body[r], Current(r))
        BY <1>5 DEF BuildAccept, Mapped, DryRun
    <2>4. EntryFits(body[r], at[r])
        BY <2>1, <2>3 DEF EntryFits
    <2>5. resources[r] = PayloadUpTo(r, body[r], n) /\ \A i \in 1..n : EntryFits(body[r], i)
        BY <1>5, <2>2 DEF BuildAccept, AtEntry, MapOK, MapOf
    <2>6. PayloadUpTo(r, body[r], at[r]) = Put(resources[r], Content(r, body[r], at[r]))
        BY <2>1, <2>2, <2>3, <2>5, PayloadStep
    <2>7. /\ at'[r] - 1 = at[r]
          /\ at'[r] \in 1..(EntryCount(r) + 1)
          /\ resources'[r] = PayloadUpTo(r, body[r], at[r])
        <3>1. at' = [at EXCEPT ![r] = at[r] + 1]
            BY <1>5 DEF BuildAccept, NextEntry
        <3>2. at'[r] - 1 = at[r] /\ at'[r] \in 1..(EntryCount(r) + 1)
            BY <2>1, <3>1
        <3>3. resources'[r] = PayloadUpTo(r, body[r], at[r])
            BY <1>5, <2>6 DEF BuildAccept
        <3> QED
            BY <3>2, <3>3
    <2>8. \A i \in 1..at[r] : EntryFits(body[r], i)
        <3>1. 1..at[r] = (1..n) \cup {at[r]}
            BY <2>2
        <3> QED
            BY <2>4, <2>5, <3>1
    <2>9. /\ rpc[r] = "none"
          /\ UNCHANGED <<pc, body, rpc>>
          /\ pc[r] = "build"
          /\ \A q \in Requests : q # r => at'[q] = at[q] /\ resources'[q] = resources[q]
        BY <1>5 DEF BuildAccept, AtEntry, NextEntry, PhaseOK
    <2> QED
        BY <2>7, <2>8, <2>9 DEF MapOK, MapOf, EntryCount, EntriesOf
<1>6. ASSUME NEW r \in Requests, Commit(r)
      PROVE  MapOK'
    <2>1. body[r] \in Bodies /\ EntryCount(r) \in Nat
        BY <1>6, EntriesType DEF Commit, Built, CallOK, EntryCount, EntriesOf
    <2>2. at[r] - 1 = EntryCount(r)
        BY <1>6, <2>1 DEF Commit, Built, MapOK, MapOf, EntryCount
    <2>3. /\ resources[r] = PayloadUpTo(r, body[r], EntryCount(r))
          /\ \A i \in 1..EntryCount(r) : EntryFits(body[r], i)
        BY <1>6, <2>2 DEF Commit, Built, MapOK, MapOf
    <2>4. resources[r] = WholePayload[r][body[r]] /\ resources[r] # {}
        BY <1>6, <2>1, <2>3 DEF Commit, WholePayload, EntryCount, EntriesOf
    <2>5. /\ UNCHANGED <<body, resources, at>>
          /\ pc'[r] = "commit"
          /\ \A q \in Requests : q # r => rpc'[q] = rpc[q] /\ pc'[q] = pc[q]
        BY <1>6 DEF Commit
    <2> QED
        BY <2>1, <2>3, <2>4, <2>5 DEF MapOK, MapOf, EntryCount, EntriesOf
<1>7. ASSUME NEW r \in Requests, Etcd(r)
      PROVE  MapOK'
    BY <1>7, MapFrame DEF Etcd, EtcdPut, EtcdConflict, EtcdFail, call
<1>8. CASE World
    BY <1>8, MapFrame DEF World, Tick, ChangePermissions, ChangeDiscovery, OtherLookup, Crash, call
<1>9. CASE UNCHANGED vars
    BY <1>9, MapFrame DEF vars, call
<1> QED
    BY <1>1, <1>2, <1>3, <1>4, <1>5, <1>6, <1>7, <1>8, <1>9 DEF Next, Handle

-----------------------------------------------------------------------------
(* What was reviewed when the second pass begins is what the second pass    *)
(* stores.                                                                  *)

ReviewedUpTo(r, n) ==
    \A i \in (1..n) \ skipped[r] : Attributes(body[r], EntriesOf(r)[i]) \in reviewed[r]

ReviewOf(r) ==
    /\ cache[r] = reviewed[r]
    /\ pc[r] = "authorize" => ReviewedUpTo(r, at[r] - 1)
    /\ pc[r] = "build" \/ rpc[r] # "none" => ReviewedUpTo(r, EntryCount(r))

ReviewOK == \A r \in Requests : ReviewOf(r)

\* A step that leaves what was reviewed, and does not begin a build or a commit.
LEMMA ReviewFrame ==
    ASSUME ReviewOK, NEW q \in Requests,
           body'[q] = body[q], cache'[q] = cache[q],
           reviewed'[q] = reviewed[q], skipped'[q] = skipped[q],
           pc'[q] = "authorize" => pc[q] = "authorize" /\ at'[q] = at[q],
           pc'[q] = "build" \/ rpc'[q] # "none" => pc[q] = "build" \/ rpc[q] # "none"
    PROVE  ReviewOf(q)'
BY DEF ReviewOK, ReviewOf, ReviewedUpTo, EntryCount, EntriesOf

\* The first pass moves on to the next entry when the current one is reviewed
\* or skipped.
LEMMA ReviewStep ==
    ASSUME TypeOK, CallOK, PhaseOK, ReviewOK,
           NEW r \in Requests, AtEntry(r, "authorize"), NextEntry(r),
           UNCHANGED <<pc, body, rpc>>,
           \A q \in Requests : q # r =>
               /\ cache'[q] = cache[q]
               /\ reviewed'[q] = reviewed[q]
               /\ skipped'[q] = skipped[q],
           reviewed[r] \subseteq reviewed'[r], skipped[r] \subseteq skipped'[r],
           cache'[r] = reviewed'[r],
           at[r] \in skipped'[r] \/ Attributes(body[r], Current(r)) \in reviewed'[r]
    PROVE  ReviewOK'
<1>1. ASSUME NEW q \in Requests, q # r
      PROVE  ReviewOf(q)'
    BY <1>1, ReviewFrame DEF NextEntry, TypeOK
<1>2. ReviewOf(r)'
    <2>1. at[r] \in Nat /\ at[r] # 0 /\ at'[r] = at[r] + 1
        BY DEF AtEntry, NextEntry, TypeOK, CallOK
    <2>2. 1..(at'[r] - 1) = (1..(at[r] - 1)) \cup {at[r]}
        BY <2>1
    <2>3. pc[r] = "authorize" /\ rpc[r] = "none"
        BY DEF AtEntry, PhaseOK
    <2>4. ReviewedUpTo(r, at[r] - 1)
        BY <2>3 DEF ReviewOK, ReviewOf
    <2>5. \A i \in (1..(at[r] - 1)) \ skipped'[r] :
              Attributes(body[r], EntriesOf(r)[i]) \in reviewed'[r]
        BY <2>4 DEF ReviewedUpTo
    <2>6. \A i \in (1..(at'[r] - 1)) \ skipped'[r] :
              Attributes(body[r], EntriesOf(r)[i]) \in reviewed'[r]
        BY <2>2, <2>5 DEF Current
    <2>7. \A i \in (1..(at'[r] - 1)) \ skipped'[r] :
              Attributes(body'[r], Entries(body'[r])[i]) \in reviewed'[r]
        BY <2>6 DEF EntriesOf
    <2> QED
        BY <2>3, <2>7 DEF ReviewOf, ReviewedUpTo, EntriesOf
<1> QED
    BY <1>1, <1>2 DEF ReviewOK

LEMMA ReviewNext ==
    ASSUME TypeOK, CallOK, PhaseOK, ReviewOK, [Next]_vars
    PROVE  ReviewOK'
<1> USE DEF TypeOK
<1>1. ASSUME NEW r \in Requests, RefuseBody(r)
      PROVE  ReviewOK'
    BY <1>1, ReviewFrame DEF RefuseBody, Answer, call, ReviewOK
<1>2. ASSUME NEW r \in Requests, RefuseNamespace(r)
      PROVE  ReviewOK'
    <2>1. ASSUME NEW q \in Requests, q # r
          PROVE  ReviewOf(q)'
        BY <1>2, <2>1, ReviewFrame DEF RefuseNamespace, Answer
    <2>2. ReviewOf(r)'
        BY <1>2 DEF RefuseNamespace, Answer, PhaseOK, ReviewOK, ReviewOf
    <2> QED
        BY <2>1, <2>2 DEF ReviewOK
<1>3. ASSUME NEW r \in Requests, Receive(r)
      PROVE  ReviewOK'
    <2>1. ASSUME NEW q \in Requests, q # r
          PROVE  ReviewOf(q)'
        BY <1>3, <2>1, ReviewFrame DEF Receive
    <2>2. at'[r] = 1 /\ rpc'[r] = "none" /\ pc'[r] = "authorize"
        BY <1>3 DEF Receive, PhaseOK
    <2>3. 1..(at'[r] - 1) = {}
        BY <2>2
    <2>4. cache'[r] = reviewed'[r]
        BY <1>3 DEF Receive, ReviewOK, ReviewOf
    <2> QED
        BY <2>1, <2>2, <2>3, <2>4 DEF ReviewOK, ReviewOf, ReviewedUpTo
<1>4. ASSUME NEW r \in Requests,
             \/ AuthorizeMalformed(r) \/ AuthorizeDenied(r)
             \/ BuildReject(r) \/ RefuseEmpty(r)
             \/ ReplyCreated(r) \/ ReplyFailed(r) \/ ReplyError(r)
      PROVE  ReviewOK'
    BY <1>4, ReviewFrame
    DEF AuthorizeMalformed, AuthorizeDenied, BuildReject, RefuseEmpty,
        ReplyCreated, ReplyFailed, ReplyError, Reply, Answer, call, ReviewOK
<1>5. ASSUME NEW r \in Requests, AuthorizeSkip(r)
      PROVE  ReviewOK'
    BY <1>5, ReviewStep DEF AuthorizeSkip, ReviewOK, ReviewOf
<1>6. ASSUME NEW r \in Requests, AuthorizeCached(r)
      PROVE  ReviewOK'
    <2>1. Attributes(body[r], Current(r)) \in reviewed[r]
        BY <1>6, CurrentType, MappedType, AttributesType, CacheKeyIsAttributes
        DEF AuthorizeCached, ReviewOK, ReviewOf
    <2> QED
        BY <1>6, <2>1, ReviewStep DEF AuthorizeCached, ReviewOK, ReviewOf
<1>7. ASSUME NEW r \in Requests, AuthorizeAllowed(r)
      PROVE  ReviewOK'
    <2> DEFINE a == Attributes(body[r], Current(r))
    <2>1. CacheKey(a) = a
        BY <1>7, CurrentType, MappedType, AttributesType, CacheKeyIsAttributes
        DEF AuthorizeAllowed
    <2>2. /\ cache' = [cache EXCEPT ![r] = cache[r] \cup {a}]
          /\ reviewed' = [reviewed EXCEPT ![r] = reviewed[r] \cup {a}]
        BY <1>7, <2>1 DEF AuthorizeAllowed
    <2>3. cache[r] = reviewed[r]
        BY DEF ReviewOK, ReviewOf
    <2>4. /\ AtEntry(r, "authorize") /\ NextEntry(r)
          /\ UNCHANGED <<pc, body, rpc, skipped>>
        BY <1>7 DEF AuthorizeAllowed
    <2>5. cache'[r] = reviewed'[r] /\ a \in reviewed'[r] /\ reviewed[r] \subseteq reviewed'[r]
        BY <2>2, <2>3
    <2>6. \A q \in Requests : q # r => cache'[q] = cache[q] /\ reviewed'[q] = reviewed[q]
        BY <2>2
    <2> QED
        BY <2>4, <2>5, <2>6, ReviewStep
<1>8. ASSUME NEW r \in Requests, BeginBuild(r)
      PROVE  ReviewOK'
    <2>1. ASSUME NEW q \in Requests, q # r
          PROVE  ReviewOf(q)'
        BY <1>8, <2>1, ReviewFrame DEF BeginBuild
    <2>2. body[r] \in Bodies /\ EntryCount(r) \in Nat
        BY <1>8, EntriesType DEF BeginBuild, CallOK, EntryCount, EntriesOf
    <2>3. (1..EntryCount(r)) \subseteq 1..(at[r] - 1)
        BY <1>8, <2>2 DEF BeginBuild, EntryCount
    <2>4. ReviewedUpTo(r, EntryCount(r))
        BY <1>8, <2>3 DEF BeginBuild, ReviewOK, ReviewOf, ReviewedUpTo
    <2>5. ReviewOf(r)'
        BY <1>8, <2>4 DEF BeginBuild, ReviewOK, ReviewOf, ReviewedUpTo, EntryCount, EntriesOf
    <2> QED
        BY <2>1, <2>5 DEF ReviewOK
<1>9. ASSUME NEW r \in Requests, BuildAccept(r)
      PROVE  ReviewOK'
    BY <1>9, ReviewFrame DEF BuildAccept, AtEntry, NextEntry, ReviewOK
<1>10. ASSUME NEW r \in Requests, Commit(r)
       PROVE  ReviewOK'
    BY <1>10, ReviewFrame DEF Commit, Built, ReviewOK
<1>11. ASSUME NEW r \in Requests, Etcd(r)
       PROVE  ReviewOK'
    BY <1>11, ReviewFrame DEF Etcd, EtcdPut, EtcdConflict, EtcdFail, call, ReviewOK
<1>12. CASE World
    BY <1>12, ReviewFrame
    DEF World, Tick, ChangePermissions, ChangeDiscovery, OtherLookup, Crash, call, ReviewOK
<1>13. CASE UNCHANGED vars
    BY <1>13, ReviewFrame DEF vars, call, ReviewOK
<1> QED
    BY <1>1, <1>2, <1>3, <1>4, <1>5, <1>6, <1>7, <1>8, <1>9, <1>10, <1>11, <1>12, <1>13
    DEF Next, Arrive, Handle

-----------------------------------------------------------------------------
(* The theorems. *)

\* The inductive invariant.
IInv == TypeOK /\ CallOK /\ PhaseOK /\ StoreOK /\ MapOK /\ ReviewOK

LEMMA IInvInit == Init => IInv
<1> SUFFICES ASSUME Init PROVE IInv
    OBVIOUS
<1> USE DEF Init
<1>1. TypeOK
    BY TransactionAssumption DEF TypeOK
<1>2. CallOK /\ PhaseOK
    BY DEF CallOK, PhaseOK
<1>3. StoreOK
    BY DEF StoreOK
<1>4. MapOK
    BY DEF MapOK, MapOf
<1>5. ReviewOK
    BY DEF ReviewOK, ReviewOf
<1> QED
    BY <1>1, <1>2, <1>3, <1>4, <1>5 DEF IInv

\* Every reachable state satisfies the inductive invariant.
THEOREM Invariance == Spec => []IInv
<1>1. IInv /\ [Next]_vars => IInv'
    BY TypingNext, PhaseNext, StoreNext, MapNext, ReviewNext DEF IInv
<1> QED
    BY <1>1, IInvInit, PTL DEF Spec

\* Every variable holds a value of its type.
THEOREM Typing == Spec => []TypeOK
<1>1. IInv => TypeOK
    BY DEF IInv
<1> QED
    BY <1>1, Invariance, PTL

\* A transaction acknowledged with 201 Created is in etcd.
THEOREM Acknowledged == Spec => []AckedIsStored
<1>1. IInv => AckedIsStored
    BY DEF IInv, PhaseOK, StoreOK, AckedIsStored
<1> QED
    BY <1>1, Invariance, PTL

\* "transaction failed" means that another transaction has the name.
THEOREM Failed == Spec => []FailedMeansTaken
<1>1. IInv => FailedMeansTaken
    BY DEF IInv, PhaseOK, StoreOK, FailedMeansTaken
<1> QED
    BY <1>1, Invariance, PTL

\* A refused transaction is not in etcd and cannot get there any more.
THEOREM Refused == Spec => []RefusedNeverStored
<1>1. IInv => RefusedNeverStored
    BY DEF IInv, PhaseOK, StoreOK, RefusedNeverStored, Refusals
<1> QED
    BY <1>1, Invariance, PTL

\* What is stored is the whole request.
THEOREM Whole == Spec => []StoredIsWhole
<1>1. ASSUME IInv, NEW k \in DOMAIN store
      PROVE  /\ Author(k) \in Requests
             /\ rpc[Author(k)] # "none"
             /\ store[k].payload = resources[Author(k)]
    BY <1>1 DEF IInv, TypeOK, StoreOK
<1>2. IInv => StoredIsWhole
    BY <1>1 DEF IInv, MapOK, MapOf, EntryFits, StoredIsWhole, EntriesOf
<1> QED
    BY <1>2, Invariance, PTL

\* Every entry that is stored was reviewed, or could not be when it was its turn.
THEOREM Reviewed == Spec => []StoredReviewed
<1>1. ASSUME IInv, NEW k \in DOMAIN store
      PROVE  Author(k) \in Requests /\ rpc[Author(k)] # "none"
    BY <1>1 DEF IInv, TypeOK, StoreOK
<1>2. IInv => StoredReviewed
    BY <1>1 DEF IInv, ReviewOK, ReviewOf, ReviewedUpTo, StoredReviewed
<1> QED
    BY <1>2, Invariance, PTL

\* What is stored as a create or an update addresses one object.
THEOREM Addressed == Spec => []StoredWritesAddressed
<1>1. ASSUME IInv, NEW k \in DOMAIN store, NEW i \in 1..EntryCount(Author(k))
      PROVE  EntryFits(body[Author(k)], i)
    BY <1>1 DEF IInv, TypeOK, StoreOK, MapOK, MapOf
<1>2. IInv => StoredWritesAddressed
    BY <1>1
    DEF StoredWritesAddressed, EntryFits, DryRunPath, EntryNamespace, ScopedNamespace, EntriesOf
<1> QED
    BY <1>2, Invariance, PTL

\* No step of a call, of etcd or of the world, and no crash, changes what a
\* transaction key holds.
THEOREM WriteOnce == Spec => StoreOnce
<1>1. [Next]_vars => [\A k \in DOMAIN store : k \in DOMAIN store' /\ store'[k] = store[k]]_vars
    <2> SUFFICES ASSUME Next
                 PROVE  \A k \in DOMAIN store : k \in DOMAIN store' /\ store'[k] = store[k]
        OBVIOUS
    <2>1. ASSUME NEW r \in Requests, EtcdPut(r)
          PROVE  \A k \in DOMAIN store : k \in DOMAIN store' /\ store'[k] = store[k]
        BY <2>1 DEF EtcdPut, KeyFree
    <2>2. ASSUME NEW r \in Requests, Arrive(r) \/ Handle(r) \/ EtcdConflict(r) \/ EtcdFail(r)
          PROVE  UNCHANGED store
        BY <2>2
        DEF Arrive, RefuseBody, RefuseNamespace, Receive, Handle, AuthorizeMalformed,
            AuthorizeSkip, AuthorizeCached, AuthorizeAllowed, AuthorizeDenied, BeginBuild,
            BuildAccept, BuildReject, RefuseEmpty, Commit, ReplyCreated, ReplyFailed,
            ReplyError, Reply, EtcdConflict, EtcdFail
    <2>3. CASE World
        BY <2>3 DEF World, Tick, ChangePermissions, ChangeDiscovery, OtherLookup, Crash
    <2> QED
        BY <2>1, <2>2, <2>3 DEF Next, Etcd
<1> QED
    BY <1>1, PTL DEF Spec, StoreOnce

-----------------------------------------------------------------------------
(* The endpoint implements TransactionLog: each step of a call, of etcd or *)
(* of the world is one step of the log or none.  The mapping, call by call.*)

Want(r) == IF body[r] = NoBody THEN {} ELSE {WholePayload[r][body[r]]}

\* A call that did not arrive asks for nothing.
IdleOK == \A r \in Requests : pc[r] = "idle" => body[r] = NoBody

LEMMA IdleNext ==
    ASSUME TypeOK, IdleOK, [Next]_vars
    PROVE  IdleOK'
<1> USE DEF TypeOK, IdleOK
<1>1. ASSUME NEW r \in Requests, Arrive(r)
      PROVE  IdleOK'
    BY <1>1 DEF Arrive, RefuseBody, RefuseNamespace, Receive, Answer, call
<1>2. ASSUME NEW r \in Requests, Handle(r)
      PROVE  UNCHANGED body /\ \A q \in Requests : pc'[q] = "idle" => pc[q] = "idle"
    BY <1>2
    DEF Handle, AuthorizeMalformed, AuthorizeSkip, AuthorizeCached, AuthorizeAllowed,
        AuthorizeDenied, BeginBuild, BuildAccept, BuildReject, RefuseEmpty, Commit,
        ReplyCreated, ReplyFailed, ReplyError, Reply, Answer, call
<1>3. ASSUME NEW r \in Requests, Etcd(r)
      PROVE  UNCHANGED <<body, pc>>
    BY <1>3 DEF Etcd, EtcdPut, EtcdConflict, EtcdFail, call
<1>4. CASE World
    BY <1>4 DEF World, Tick, ChangePermissions, ChangeDiscovery, OtherLookup, Crash, call
<1>5. CASE UNCHANGED vars
    BY <1>5 DEF vars, call
<1> QED
    BY <1>1, <1>2, <1>3, <1>4, <1>5 DEF Next

\* A call that has a request and no answer: what the log knows of it.
LEMMA UnderWay ==
    ASSUME IInv, NEW r \in Requests, pc[r] \in {"authorize", "build", "commit"}
    PROVE  /\ body[r] \in Bodies
           /\ body[r] # NoBody
           /\ Want(r) = {WholePayload[r][body[r]]}
           /\ reply[r] = "none"
           /\ pc[r] # "commit" => rpc[r] = "none"
BY TransactionAssumption DEF IInv, CallOK, PhaseOK, Want

\* A transaction that was sent is still to be decided, and is what its call wants.
LEMMA OnItsWay ==
    ASSUME IInv, NEW r \in Requests, rpc[r] = "sent"
    PROVE  /\ Decision(r) = "open"
           /\ Want(r) = {resources[r]}
           /\ txnKey[r] \in TransactionKeys
<1>1. body[r] \in Bodies /\ resources[r] = WholePayload[r][body[r]]
    BY DEF IInv, MapOK, MapOf
<1>2. body[r] # NoBody
    BY <1>1, TransactionAssumption
<1>3. reply[r] \notin Refusals
    BY DEF IInv, PhaseOK, Refusals
<1>4. txnKey[r] \in TransactionKeys
    BY DEF IInv, TypeOK, PhaseOK
<1> QED
    BY <1>1, <1>2, <1>3, <1>4 DEF Decision, Want

\* The calls a step leaves alone look to the log as they did.
LEMMA Others ==
    ASSUME NEW q \in Requests,
           body'[q] = body[q], rpc'[q] = rpc[q], reply'[q] = reply[q]
    PROVE  /\ Want(q)' = Want(q)
           /\ Decision(q)' = Decision(q)
           /\ LogAnswer(q)' = LogAnswer(q)
BY DEF Want, Decision, LogAnswer

LEMMA LogFrame ==
    ASSUME UNCHANGED store,
           \A q \in Requests :
               /\ Want(q)' = Want(q)
               /\ Decision(q)' = Decision(q)
               /\ LogAnswer(q)' = LogAnswer(q)
    PROVE  UNCHANGED Log!vars
BY DEF Log!vars, Want

-----------------------------------------------------------------------------
(* The steps. *)

\* A call arrives, and may be turned away at once.
LEMMA ArriveImplements ==
    ASSUME IInv, IdleOK, NEW r \in Requests, Arrive(r)
    PROVE  Log!Next
<1>1. /\ pc[r] = "idle" /\ body[r] = NoBody
      /\ rpc[r] = "none" /\ reply[r] = "none"
    BY DEF IInv, PhaseOK, IdleOK, Arrive, RefuseBody, RefuseNamespace, Receive
<1>2. /\ Want(r) = {} /\ Decision(r) = "open" /\ LogAnswer(r) = "none"
    BY <1>1 DEF Want, Decision, LogAnswer, Refusals
<1>3. UNCHANGED <<rpc, store>>
    BY DEF Arrive, RefuseBody, RefuseNamespace, Receive
<1>4. CASE RefuseBody(r)
    <2>1. /\ UNCHANGED body
          /\ reply' = [reply EXCEPT ![r] = "BadRequest"]
        BY <1>4 DEF RefuseBody, Answer, call
    <2>2. /\ Decision(r)' = "refused" /\ LogAnswer(r)' = "Refused" /\ Want(r)' = {}
        BY <1>1, <1>3, <2>1 DEF IInv, TypeOK, Decision, LogAnswer, Refusals, Want
    <2>3. \A q \in Requests : q # r =>
              Want(q)' = Want(q) /\ Decision(q)' = Decision(q) /\ LogAnswer(q)' = LogAnswer(q)
        BY <1>3, <2>1, Others DEF IInv, TypeOK
    <2>4. Log!TurnAway(r)
        BY <1>2, <1>3, <2>2, <2>3 DEF Log!TurnAway, Want
    <2> QED
        BY <2>4 DEF Log!Next
<1>5. CASE RefuseNamespace(r)
    <2>1. PICK b \in Bodies : body' = [body EXCEPT ![r] = b]
        BY <1>5 DEF RefuseNamespace
    <2>2. reply' = [reply EXCEPT ![r] = "BadRequest"]
        BY <1>5 DEF RefuseNamespace, Answer
    <2>3. /\ Decision(r)' = "refused" /\ LogAnswer(r)' = "Refused"
          /\ Want(r)' = {WholePayload[r][b]}
        BY <1>1, <1>3, <2>1, <2>2, TransactionAssumption
        DEF IInv, TypeOK, Decision, LogAnswer, Refusals, Want
    <2>4. \A q \in Requests : q # r =>
              Want(q)' = Want(q) /\ Decision(q)' = Decision(q) /\ LogAnswer(q)' = LogAnswer(q)
        BY <1>3, <2>1, <2>2, Others DEF IInv, TypeOK
    <2>5. WholePayload[r][b] \in Payloads
        BY DEF Payloads
    <2>6. Log!Demand(r, WholePayload[r][b])
        BY <1>2, <2>3, <2>4 DEF Log!Demand, Want
    <2>7. Log!TurnAway(r)
        BY <1>2, <1>3, <2>3, <2>4, <2>5, <2>6 DEF Log!TurnAway, Want
    <2> QED
        BY <2>7 DEF Log!Next
<1>6. CASE Receive(r)
    <2>1. PICK b \in Bodies : body' = [body EXCEPT ![r] = b]
        BY <1>6 DEF Receive
    <2>2. UNCHANGED reply
        BY <1>6 DEF Receive
    <2>3. /\ Decision(r)' = Decision(r) /\ LogAnswer(r)' = LogAnswer(r)
          /\ Want(r)' = {WholePayload[r][b]}
        BY <1>3, <2>1, <2>2, TransactionAssumption
        DEF IInv, TypeOK, Decision, LogAnswer, Want
    <2>4. \A q \in Requests : q # r =>
              Want(q)' = Want(q) /\ Decision(q)' = Decision(q) /\ LogAnswer(q)' = LogAnswer(q)
        BY <1>3, <2>1, <2>2, Others DEF IInv, TypeOK
    <2>5. WholePayload[r][b] \in Payloads
        BY DEF Payloads
    <2>6. Log!Demand(r, WholePayload[r][b])
        BY <1>2, <2>3, <2>4 DEF Log!Demand, Want
    <2>7. Log!Submit(r)
        BY <1>2, <1>3, <2>3, <2>4, <2>5, <2>6 DEF Log!Submit
    <2> QED
        BY <2>7 DEF Log!Next
<1> QED
    BY <1>4, <1>5, <1>6 DEF Arrive

\* What a handler does before it answers is not seen in the log.
LEMMA WorkStutters ==
    ASSUME IInv, NEW r \in Requests,
           \/ AuthorizeSkip(r) \/ AuthorizeCached(r) \/ AuthorizeAllowed(r)
           \/ BeginBuild(r) \/ BuildAccept(r) \/ Commit(r)
    PROVE  UNCHANGED Log!vars
<1>1. UNCHANGED <<body, reply, store>>
    BY DEF AuthorizeSkip, AuthorizeCached, AuthorizeAllowed, BeginBuild, BuildAccept, Commit
<1>2. CASE ~ Commit(r)
    <2>1. UNCHANGED rpc
        BY <1>2 DEF AuthorizeSkip, AuthorizeCached, AuthorizeAllowed, BeginBuild, BuildAccept
    <2> QED
        BY <1>1, <2>1, Others, LogFrame
<1>3. CASE Commit(r)
    <2>1. rpc' = [rpc EXCEPT ![r] = "sent"] /\ rpc[r] = "none"
        BY <1>3 DEF Commit, Built, IInv, PhaseOK
    <2>2. Want(r)' = Want(r) /\ Decision(r)' = Decision(r) /\ LogAnswer(r)' = LogAnswer(r)
        BY <1>1, <2>1 DEF IInv, TypeOK, Want, Decision, LogAnswer
    <2>3. \A q \in Requests : q # r =>
              Want(q)' = Want(q) /\ Decision(q)' = Decision(q) /\ LogAnswer(q)' = LogAnswer(q)
        BY <1>1, <2>1, Others DEF IInv, TypeOK
    <2> QED
        BY <1>1, <2>2, <2>3, LogFrame
<1> QED
    BY <1>2, <1>3

\* A step that only answers a call.
LEMMA AnswerStep ==
    ASSUME IInv, NEW r \in Requests, NEW answer, Answer(r, answer), UNCHANGED <<call, rpc, store>>
    PROVE  /\ UNCHANGED <<body, rpc, store>>
           /\ reply'[r] = answer
           /\ Want(r)' = Want(r)
           /\ \A q \in Requests : q # r =>
                  Want(q)' = Want(q) /\ Decision(q)' = Decision(q) /\ LogAnswer(q)' = LogAnswer(q)
<1>1. UNCHANGED <<body, rpc, store>> /\ reply' = [reply EXCEPT ![r] = answer]
    BY DEF Answer, call
<1>2. Want(r)' = Want(r)
    BY <1>1 DEF Want
<1> QED
    BY <1>1, <1>2, Others DEF IInv, TypeOK

LEMMA RefusalImplements ==
    ASSUME IInv, NEW r \in Requests,
           \/ AuthorizeMalformed(r) \/ AuthorizeDenied(r)
           \/ BuildReject(r) \/ RefuseEmpty(r) \/ ReplyFailed(r)
    PROVE  Log!Next
<1>1. PICK answer \in Refusals : Answer(r, answer) /\ UNCHANGED <<call, rpc, store>>
    BY DEF AuthorizeMalformed, AuthorizeDenied, BuildReject, RefuseEmpty, ReplyFailed, Reply, Refusals
<1>2. pc[r] \in {"authorize", "build", "commit"} /\ rpc[r] # "succeeded"
    BY DEF AuthorizeMalformed, AuthorizeDenied, BuildReject, RefuseEmpty, ReplyFailed, Reply,
           AtEntry, Built, IInv, PhaseOK
<1>3. Want(r) # {} /\ Decision(r) # "stored" /\ LogAnswer(r) = "none"
    BY <1>2, UnderWay DEF Decision, LogAnswer, Refusals
<1>4. Decision(r)' = "refused" /\ LogAnswer(r)' = "Refused"
    BY <1>1, <1>2, AnswerStep DEF Decision, LogAnswer
<1>5. Log!AnswerRefused(r)
    BY <1>1, <1>3, <1>4, AnswerStep DEF Log!AnswerRefused, Want
<1> QED
    BY <1>5 DEF Log!Next

LEMMA CreatedImplements ==
    ASSUME IInv, NEW r \in Requests, ReplyCreated(r)
    PROVE  Log!Next
<1>1. Answer(r, "Created") /\ UNCHANGED <<call, rpc, store>>
    BY DEF ReplyCreated, Reply
<1>2. pc[r] = "commit" /\ rpc[r] = "succeeded"
    BY DEF ReplyCreated, Reply
<1>3. Decision(r) = "stored" /\ LogAnswer(r) = "none"
    BY <1>2, UnderWay DEF Decision, LogAnswer, Refusals
<1>4. Decision(r)' = Decision(r) /\ LogAnswer(r)' = "Created"
    BY <1>1, <1>2, AnswerStep DEF Decision, LogAnswer, Refusals
<1>5. Log!AnswerCreated(r)
    BY <1>1, <1>3, <1>4, AnswerStep DEF Log!AnswerCreated, Want
<1> QED
    BY <1>5 DEF Log!Next

LEMMA ErrorImplements ==
    ASSUME IInv, NEW r \in Requests, ReplyError(r)
    PROVE  Log!Next
<1>1. Answer(r, "CommitError") /\ UNCHANGED <<call, rpc, store>>
    BY DEF ReplyError, Reply
<1>2. pc[r] = "commit"
    BY DEF ReplyError, Reply
<1>3. Want(r) # {} /\ LogAnswer(r) = "none" /\ reply[r] = "none"
    BY <1>2, UnderWay DEF LogAnswer, Refusals
<1>4. Decision(r)' = Decision(r) /\ LogAnswer(r)' = "Unknown"
    BY <1>1, <1>3, AnswerStep DEF Decision, LogAnswer, Refusals
<1>5. Log!AnswerUnknown(r)
    BY <1>1, <1>3, <1>4, AnswerStep DEF Log!AnswerUnknown, Want
<1> QED
    BY <1>5 DEF Log!Next

\* etcd decides.
LEMMA EtcdImplements ==
    ASSUME IInv, NEW r \in Requests, Etcd(r)
    PROVE  Log!Next
<1>1. /\ rpc[r] = "sent"
      /\ UNCHANGED <<body, reply, txnKey, resources>>
    BY DEF Etcd, EtcdPut, EtcdConflict, EtcdFail, call
<1>2. PICK outcome \in {"succeeded", "conflict", "failed"} : rpc' = [rpc EXCEPT ![r] = outcome]
    BY DEF Etcd, EtcdPut, EtcdConflict, EtcdFail
<1>3. \A q \in Requests : q # r =>
          Want(q)' = Want(q) /\ Decision(q)' = Decision(q) /\ LogAnswer(q)' = LogAnswer(q)
    BY <1>1, <1>2, Others DEF IInv, TypeOK
<1>4. Want(r)' = Want(r) /\ LogAnswer(r)' = LogAnswer(r)
    BY <1>1 DEF Want, LogAnswer
<1>5. /\ Decision(r) = "open"
      /\ Want(r) = {resources[r]}
      /\ txnKey[r] \in TransactionKeys
    BY <1>1, OnItsWay
<1>6. CASE EtcdPut(r)
    <2>1. Decision(r)' = "stored"
        BY <1>6 DEF EtcdPut, Decision, IInv, TypeOK
    <2>2. /\ txnKey[r] \in TransactionKeys \ DOMAIN store
          /\ store' = [k \in DOMAIN store \cup {txnKey[r]} |->
                          IF k = txnKey[r] THEN [by |-> r, payload |-> resources[r]] ELSE store[k]]
        BY <1>5, <1>6 DEF EtcdPut, KeyFree, Record
    <2>3. Log!Store(r)
        BY <1>3, <1>4, <1>5, <2>1, <2>2 DEF Log!Store, Want
    <2> QED
        BY <2>3 DEF Log!Next
<1>7. CASE EtcdConflict(r) \/ EtcdFail(r)
    <2>1. Decision(r)' = "refused" /\ UNCHANGED store
        BY <1>7 DEF EtcdConflict, EtcdFail, Decision, IInv, TypeOK
    <2>2. Log!Refuse(r)
        BY <1>3, <1>4, <1>5, <2>1 DEF Log!Refuse, Want
    <2> QED
        BY <2>2 DEF Log!Next
<1> QED
    BY <1>6, <1>7 DEF Etcd

\* The world, and a crash, is not seen in the log.
LEMMA WorldStutters ==
    ASSUME World \/ UNCHANGED vars
    PROVE  UNCHANGED Log!vars
<1>1. UNCHANGED <<body, rpc, reply, store>>
    BY DEF World, Tick, ChangePermissions, ChangeDiscovery, OtherLookup, Crash, vars, call
<1> QED
    BY <1>1, Others, LogFrame

LEMMA InitImplements ==
    ASSUME Init
    PROVE  Log!Init
<1>1. \A r \in Requests : Want(r) = {} /\ Decision(r) = "open" /\ LogAnswer(r) = "none"
    BY DEF Init, Want, Decision, LogAnswer, Refusals
<1>2. store = <<>>
    BY DEF Init
<1> QED
    BY <1>1, <1>2 DEF Log!Init, Want

LEMMA NextImplements ==
    ASSUME IInv, IdleOK, [Next]_vars
    PROVE  [Log!Next]_(Log!vars)
<1>1. ASSUME NEW r \in Requests, Handle(r)
      PROVE  Log!Next \/ UNCHANGED Log!vars
    BY <1>1, WorkStutters, RefusalImplements, CreatedImplements, ErrorImplements DEF Handle
<1> QED
    BY <1>1, ArriveImplements, EtcdImplements, WorldStutters DEF Next

-----------------------------------------------------------------------------
\* The endpoint implements the write-once log: for any requests, in any order of their
\* steps, with late and lost transactions and crashes, what is stored and what is
\* answered is what the log allows.
THEOREM Refinement == Spec => ImplementsLog
<1>1. Init => IdleOK
    BY DEF Init, IdleOK
<1>2. IInv /\ IdleOK /\ [Next]_vars => IdleOK'
    BY IdleNext DEF IInv
<1>3. Init => Log!Init
    BY InitImplements
<1>4. IInv /\ IdleOK /\ [Next]_vars => [Log!Next]_(Log!vars)
    BY NextImplements
<1> QED
    BY <1>1, <1>2, <1>3, <1>4, Invariance, PTL DEF Spec, ImplementsLog, Log!Spec
=============================================================================
