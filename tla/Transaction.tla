----------------------------- MODULE Transaction -----------------------------
(***************************************************************************)
(* The transactionrequests endpoint (internal/apiserver/transaction.go):   *)
(* concurrent CreateHandler calls in one server process, each of which     *)
(*   - reads the request,                                                  *)
(*   - authorizes every entry with a SubjectAccessReview (first pass),     *)
(*   - maps every entry to a storage key and a value (second pass),        *)
(*   - hands the whole map to etcd in one compare-and-put, and             *)
(*   - answers.                                                            *)
(* Around it: the Kubernetes API server (which kinds are served, who may   *)
(* do what, dry-run validation), the discovery cache the handlers share,   *)
(* etcd, the clock, and crashes of the server process.                     *)
(*                                                                         *)
(* An entry is [kind, ns, name].  The generateName case of a nameless      *)
(* create is a name that only that entry can get.                          *)
(***************************************************************************)
EXTENDS ResourceKeys

CONSTANTS
    Requests,        \* HTTP calls of the endpoint; a client's retry is another call
    Users,
    Names, NoName,   \* names clients give to objects and transactions
    Malformed,       \* the kind of an entry that names no kind
    Unversioned,     \* the kind of an entry that names no apiVersion
    Bodies, NoBody,  \* the requests clients send
    PermissionSets,  \* what the API server may grant: sets of <<user, attributes>>
    DiscoverySets,   \* sets of kinds the API server may serve
    MaxClock,        \* bound: how often the clock advances
    MaxCrashes       \* bound: how often the server process crashes

Operations == {"create", "update", "delete"}

AnyKind == Kinds \cup {Malformed, Unversioned}

AnyName == Names \cup {NoName}

Entry == [kind : AnyKind, ns : AnyNamespace, name : AnyName]

Body == [user : Users, pathNs : AnyNamespace, metaNs : AnyNamespace,
         metaName : AnyName, pathName : AnyName,
         create : Seq(Entry), update : Seq(Entry), delete : Seq(Entry)]

ASSUME TransactionAssumption ==
    /\ {Malformed, Unversioned} \cap Kinds = {}
    /\ NoName \notin Names
    /\ Bodies \subseteq Body
    /\ NoBody \notin Bodies
    /\ \A S \in DiscoverySets : S \subseteq Kinds
    /\ MaxClock \in Nat
    /\ MaxCrashes \in Nat

VARIABLES
    registered,   \* the kinds the API server serves
    permitted,    \* what it grants
    mapped,       \* the kinds the shared discovery cache knows
    clock,        \* nanoseconds, as far as transaction names tell them apart
    crashes,
    pc,           \* where a call is
    body,         \* what it was asked
    at,           \* the entry it is at, in either pass
    cache,        \* the reviews it remembers (all of them allowed)
    reviewed,     \* history: the attributes reviewed and allowed for the call
    skipped,      \* history: the entries the first pass did not review
    resources,    \* the map it builds: a set of [slot, from, form]
    txnKey,       \* the key it commits under
    rpc,          \* its etcd transaction
    reply,        \* its answer
    store         \* what etcd holds: a function on the keys with a ModRevision above 0

world == <<registered, permitted, clock, crashes>>
call == <<body, at, cache, reviewed, skipped, resources, txnKey>>
vars == <<world, mapped, pc, call, rpc, reply, store>>

-----------------------------------------------------------------------------
(* The request and what is derived from it. *)

Tagged(seq, op) ==
    [i \in 1..Len(seq) |->
        [op |-> op, kind |-> seq[i].kind, ns |-> seq[i].ns, name |-> seq[i].name]]

\* Both passes read the entries in this order.
Entries(b) ==
    Tagged(b.create, "create") \o Tagged(b.update, "update") \o Tagged(b.delete, "delete")

NamespacesDisagree(b) ==
    /\ b.metaNs # NoNamespace
    /\ b.pathNs # NoNamespace
    /\ b.metaNs # b.pathNs

RequestNamespace(b) == IF b.pathNs # NoNamespace THEN b.pathNs ELSE b.metaNs

EntryNamespace(b, e) ==
    ScopedNamespace(e.kind, IF e.ns # NoNamespace THEN e.ns ELSE RequestNamespace(b))

\* The attributes a SubjectAccessReview asks about.
Attributes(b, e) ==
    [group |-> Mapping[e.kind].group, resource |-> Mapping[e.kind].resource,
     verb |-> e.op, ns |-> EntryNamespace(b, e)]

\* Mutant: a review is remembered for every namespace.
CacheKeyWithoutNamespace(a) ==
    [group |-> a.group, resource |-> a.resource, verb |-> a.verb]

CacheKey(a) ==
    [group |-> a.group, resource |-> a.resource, verb |-> a.verb, ns |-> a.ns]

\* The name of an entry's object.  The dry-run names a nameless create.
ObjectName(r, b, i) ==
    LET e == Entries(b)[i]
    IN  IF e.name # NoName THEN e.name ELSE [generated |-> <<r, i>>]

\* The key of the map an entry writes: prefix+name+"#"+operation.
Slot(r, b, i) ==
    LET e == Entries(b)[i]
    IN  [key |-> ObjectKey(e.kind, EntryNamespace(b, e), ObjectName(r, b, i)), op |-> e.op]

\* A delete is stored as submitted, the others as the dry-run defaulted them.
Form(op) == IF op = "delete" THEN "submitted" ELSE "defaulted"

Content(r, b, i) ==
    [slot |-> Slot(r, b, i), from |-> i, form |-> Form(Entries(b)[i].op)]

Stamp(t) == [stamp |-> t]

TransactionNames == Names \cup {Stamp(t) : t \in 0..MaxClock}

TransactionKeys == {TransactionStorageKey(ns, n) : ns \in AnyNamespace, n \in TransactionNames}

\* Mutant: a transaction nobody named is stored without a name.
TransactionNameUnstamped(b, now) ==
    IF b.metaName # NoName THEN b.metaName ELSE b.pathName

TransactionName(b, now) ==
    LET given == IF b.metaName # NoName THEN b.metaName ELSE b.pathName
    IN  IF given # NoName THEN given ELSE Stamp(now)

-----------------------------------------------------------------------------
(* What the API server can do for an entry. *)

\* What a discovery may find: it takes time, in which what is served may change and
\* change back.
Servable == UNION DiscoverySets

\* getResurce in one step (DiscoveryMapper has its parts): a kind the shared cache
\* knows is found there; otherwise the cache is reset and filled from discovery,
\* which may answer in part or fail.
Views(k) == IF k \in mapped THEN {mapped} ELSE SUBSET Servable

\* Mutant: the dry-run is sent without a namespace.
DryRunPathWithoutNamespace(b, e) == e.op = "update" => e.name # NoName

\* transactionResourceAPIPath: an update needs a name, a namespaced resource a namespace.
DryRunPath(b, e) ==
    /\ e.op = "update" => e.name # NoName
    /\ Mapping[e.kind].namespaced => EntryNamespace(b, e) # NoNamespace

\* validateAndDefaultTransactionResource: the request can be sent, and the API
\* server has the kind.  Whether it likes the object is up to BuildReject.
DryRun(b, e) == DryRunPath(b, e) /\ e.kind \in registered

-----------------------------------------------------------------------------
Init ==
    /\ registered \in DiscoverySets
    /\ permitted \in PermissionSets
    /\ mapped = {}
    /\ clock = 0
    /\ crashes = 0
    /\ pc = [r \in Requests |-> "idle"]
    /\ body = [r \in Requests |-> NoBody]
    /\ at = [r \in Requests |-> 0]
    /\ cache = [r \in Requests |-> {}]
    /\ reviewed = [r \in Requests |-> {}]
    /\ skipped = [r \in Requests |-> {}]
    /\ resources = [r \in Requests |-> {}]
    /\ txnKey = [r \in Requests |-> <<>>]
    /\ rpc = [r \in Requests |-> "none"]
    /\ reply = [r \in Requests |-> "none"]
    /\ store = <<>>

\* http.Error or the final write, and the handler returns.
Answer(r, answer) ==
    /\ pc' = [pc EXCEPT ![r] = "done"]
    /\ reply' = [reply EXCEPT ![r] = answer]

\* A body that cannot be read, is blank or is not YAML.
RefuseBody(r) ==
    /\ pc[r] = "idle"
    /\ Answer(r, "BadRequest")
    /\ UNCHANGED <<world, mapped, call, rpc, store>>

\* metadata.namespace is not the namespace of the request's path.
RefuseNamespace(r) ==
    /\ pc[r] = "idle"
    /\ \E b \in Bodies :
          /\ NamespacesDisagree(b)
          /\ body' = [body EXCEPT ![r] = b]
    /\ Answer(r, "BadRequest")
    /\ UNCHANGED <<world, mapped, at, cache, reviewed, skipped, resources, txnKey, rpc, store>>

Receive(r) ==
    /\ pc[r] = "idle"
    /\ \E b \in Bodies :
          /\ ~ NamespacesDisagree(b)
          /\ body' = [body EXCEPT ![r] = b]
    /\ pc' = [pc EXCEPT ![r] = "authorize"]
    /\ at' = [at EXCEPT ![r] = 1]
    /\ UNCHANGED <<world, mapped, cache, reviewed, skipped, resources, txnKey, rpc, reply, store>>

-----------------------------------------------------------------------------
(* The first pass, transactionAuthorizeAll.  The mapping lookup and the    *)
(* review of an entry are one step: between the two the handler reads and  *)
(* writes nothing shared.                                                  *)

EntriesOf(r) == Entries(body[r])

AtEntry(r, phase) ==
    /\ pc[r] = phase
    /\ at[r] <= Len(EntriesOf(r))

Current(r) == EntriesOf(r)[at[r]]

NextEntry(r) == at' = [at EXCEPT ![r] = @ + 1]

AuthorizeMalformed(r) ==
    /\ AtEntry(r, "authorize")
    /\ Current(r).kind = Malformed
    /\ Answer(r, "Forbidden")
    /\ UNCHANGED <<world, mapped, call, rpc, store>>

\* An entry that is not mapped to a resource is left to the second pass.
AuthorizeSkip(r) ==
    /\ AtEntry(r, "authorize")
    /\ \/ Current(r).kind = Unversioned /\ UNCHANGED mapped
       \/ /\ Current(r).kind \in Kinds
          /\ \E view \in Views(Current(r).kind) :
                /\ Current(r).kind \notin view
                /\ mapped' = view
    /\ skipped' = [skipped EXCEPT ![r] = @ \cup {at[r]}]
    /\ NextEntry(r)
    /\ UNCHANGED <<world, pc, body, cache, reviewed, resources, txnKey, rpc, reply, store>>

\* The current entry is mapped to its resource.
Mapped(r) ==
    /\ Current(r).kind \in Kinds
    /\ \E view \in Views(Current(r).kind) :
          /\ Current(r).kind \in view
          /\ mapped' = view

AuthorizeCached(r) ==
    /\ AtEntry(r, "authorize")
    /\ Mapped(r)
    /\ CacheKey(Attributes(body[r], Current(r))) \in cache[r]
    /\ NextEntry(r)
    /\ UNCHANGED <<world, pc, body, cache, reviewed, skipped, resources, txnKey, rpc, reply, store>>

AuthorizeAllowed(r) ==
    /\ AtEntry(r, "authorize")
    /\ Mapped(r)
    /\ LET a == Attributes(body[r], Current(r)) IN
          /\ CacheKey(a) \notin cache[r]
          /\ <<body[r].user, a>> \in permitted
          /\ cache' = [cache EXCEPT ![r] = @ \cup {CacheKey(a)}]
          /\ reviewed' = [reviewed EXCEPT ![r] = @ \cup {a}]
    /\ NextEntry(r)
    /\ UNCHANGED <<world, pc, body, skipped, resources, txnKey, rpc, reply, store>>

\* The review denies, fails, or does not come back within the ten seconds.
AuthorizeDenied(r) ==
    /\ AtEntry(r, "authorize")
    /\ Mapped(r)
    /\ CacheKey(Attributes(body[r], Current(r))) \notin cache[r]
    /\ Answer(r, "Forbidden")
    /\ UNCHANGED <<world, call, rpc, store>>

BeginBuild(r) ==
    /\ pc[r] = "authorize"
    /\ at[r] > Len(EntriesOf(r))
    /\ pc' = [pc EXCEPT ![r] = "build"]
    /\ at' = [at EXCEPT ![r] = 1]
    /\ UNCHANGED <<world, mapped, body, cache, reviewed, skipped, resources, txnKey, rpc, reply, store>>

-----------------------------------------------------------------------------
(* The second pass, transactionResourceMap for each entry. *)

\* Mutant: an earlier entry with the same key and operation is kept.
PutFirst(map, content) ==
    map \cup {c \in {content} : \A d \in map : d.slot # c.slot}

\* resources[key] = value: a later entry with the same key and operation wins.
Put(map, content) == {c \in map : c.slot # content.slot} \cup {content}

\* A delete needs a name; the API server must have dry-run the others.
BuildAccept(r) ==
    /\ AtEntry(r, "build")
    /\ Mapped(r)
    /\ \/ /\ Current(r).op = "delete"
          /\ Current(r).name # NoName
       \/ /\ Current(r).op # "delete"
          /\ DryRun(body[r], Current(r))
    /\ resources' = [resources EXCEPT ![r] = Put(@, Content(r, body[r], at[r]))]
    /\ NextEntry(r)
    /\ UNCHANGED <<world, pc, body, cache, reviewed, skipped, txnKey, rpc, reply, store>>

\* The entry has no apiVersion, no mapping, no name, no way to be dry-run, or
\* the dry-run refuses it or does not come back within the ten seconds.
BuildReject(r) ==
    /\ AtEntry(r, "build")
    /\ \/ Current(r).kind = Unversioned /\ UNCHANGED mapped
       \/ /\ Current(r).kind \in Kinds
          /\ \E view \in Views(Current(r).kind) :
                /\ Current(r).kind \in view /\ Current(r).op = "delete" => Current(r).name = NoName
                /\ mapped' = view
    /\ Answer(r, "BadRequest")
    /\ UNCHANGED <<world, call, rpc, store>>

-----------------------------------------------------------------------------
(* The commit and the answer, transactionCommit and the rest of CreateHandler. *)

\* Mutant: the last entry is left out.
BuiltButLast(r) ==
    /\ pc[r] = "build"
    /\ at[r] >= Len(EntriesOf(r))

Built(r) ==
    /\ pc[r] = "build"
    /\ at[r] > Len(EntriesOf(r))

RefuseEmpty(r) ==
    /\ Built(r)
    /\ resources[r] = {}
    /\ Answer(r, "BadRequest")
    /\ UNCHANGED <<world, mapped, call, rpc, store>>

Commit(r) ==
    /\ Built(r)
    /\ resources[r] # {}
    /\ txnKey' = [txnKey EXCEPT ![r] =
           TransactionStorageKey(RequestNamespace(body[r]), TransactionName(body[r], clock))]
    /\ rpc' = [rpc EXCEPT ![r] = "sent"]
    /\ pc' = [pc EXCEPT ![r] = "commit"]
    /\ UNCHANGED <<world, mapped, body, at, cache, reviewed, skipped, resources, reply, store>>

\* Mutant: an unconditional put.
KeyFreeUnchecked(r) == TRUE

\* If(ModRevision(txnKey) = 0)
KeyFree(r) == txnKey[r] \notin DOMAIN store

\* What is stored: the map.  "by" is history.
Record(r) == [by |-> r, payload |-> resources[r]]

\* etcd executes a transaction it was sent, whether or not the handler (or the
\* server) that sent it still waits.
EtcdPut(r) ==
    /\ rpc[r] = "sent"
    /\ KeyFree(r)
    /\ store' = [k \in DOMAIN store \cup {txnKey[r]} |->
                    IF k = txnKey[r] THEN Record(r) ELSE store[k]]
    /\ rpc' = [rpc EXCEPT ![r] = "succeeded"]
    /\ UNCHANGED <<world, mapped, pc, call, reply>>

EtcdConflict(r) ==
    /\ rpc[r] = "sent"
    /\ ~ KeyFree(r)
    /\ rpc' = [rpc EXCEPT ![r] = "conflict"]
    /\ UNCHANGED <<world, mapped, pc, call, reply, store>>

\* The transaction never reaches etcd, or etcd fails it.
EtcdFail(r) ==
    /\ rpc[r] = "sent"
    /\ rpc' = [rpc EXCEPT ![r] = "failed"]
    /\ UNCHANGED <<world, mapped, pc, call, reply, store>>

\* The handler sees one of the outcomes of its transaction, and returns.
Reply(r, outcomes, answer) ==
    /\ pc[r] = "commit"
    /\ rpc[r] \in outcomes
    /\ Answer(r, answer)
    /\ UNCHANGED <<world, mapped, call, rpc, store>>

\* Mutant: the response's Succeeded is not looked at.
ReplyCreatedUnchecked(r) == Reply(r, {"succeeded", "conflict"}, "Created")

ReplyCreated(r) == Reply(r, {"succeeded"}, "Created")

\* Mutants: "transaction failed" is also answered when the ten seconds are over,
\* or when etcd reports an error.
ReplyFailedOnTimeout(r) == Reply(r, {"conflict", "sent"}, "TransactionFailed")
ReplyFailedOnError(r) == Reply(r, {"conflict", "failed"}, "TransactionFailed")

\* 500 "transaction failed": the transaction was not Succeeded.
ReplyFailed(r) == Reply(r, {"conflict"}, "TransactionFailed")

\* Mutant: only an error of etcd ends the wait.
ReplyErrorWithoutTimeout(r) == Reply(r, {"failed"}, "CommitError")

\* 500 with the error of the client.  The ten seconds can end before etcd has
\* executed the transaction, and after it has but before the response is read.
ReplyError(r) == Reply(r, {"sent", "succeeded", "conflict", "failed"}, "CommitError")

-----------------------------------------------------------------------------
(* The environment. *)

Tick ==
    /\ clock < MaxClock
    /\ clock' = clock + 1
    /\ UNCHANGED <<registered, permitted, crashes, mapped, pc, call, rpc, reply, store>>

ChangePermissions ==
    /\ permitted' \in PermissionSets \ {permitted}
    /\ UNCHANGED <<registered, clock, crashes, mapped, pc, call, rpc, reply, store>>

ChangeDiscovery ==
    /\ registered' \in DiscoverySets \ {registered}
    /\ UNCHANGED <<permitted, clock, crashes, mapped, pc, call, rpc, reply, store>>

\* A lookup of another endpoint's call resets the shared cache and fills it.
OtherLookup ==
    /\ mapped' \in SUBSET Servable
    /\ UNCHANGED <<world, pc, call, rpc, reply, store>>

\* The server process ends and starts again: calls in progress are lost, the
\* discovery cache is empty; a transaction already sent stays on its way.
Crash ==
    /\ crashes < MaxCrashes
    /\ crashes' = crashes + 1
    /\ mapped' = {}
    /\ pc' = [r \in Requests |-> IF pc[r] \in {"idle", "done"} THEN pc[r] ELSE "lost"]
    /\ UNCHANGED <<registered, permitted, clock, call, rpc, reply, store>>

Arrive(r) == RefuseBody(r) \/ RefuseNamespace(r) \/ Receive(r)

Handle(r) ==
    \/ AuthorizeMalformed(r) \/ AuthorizeSkip(r) \/ AuthorizeCached(r)
    \/ AuthorizeAllowed(r) \/ AuthorizeDenied(r)
    \/ BeginBuild(r) \/ BuildAccept(r) \/ BuildReject(r)
    \/ RefuseEmpty(r) \/ Commit(r)
    \/ ReplyCreated(r) \/ ReplyFailed(r) \/ ReplyError(r)

Etcd(r) == EtcdPut(r) \/ EtcdConflict(r) \/ EtcdFail(r)

World == Tick \/ ChangePermissions \/ ChangeDiscovery \/ OtherLookup \/ Crash

Next ==
    \/ \E r \in Requests : Arrive(r) \/ Handle(r) \/ Etcd(r)
    \/ World

Spec == Init /\ [][Next]_vars

\* A handler that runs goes on: its waits end with the ten seconds of its
\* context.  Nothing is assumed of clients, etcd or the API server.
FairSpec == Spec /\ \A r \in Requests : WF_vars(Handle(r))

-----------------------------------------------------------------------------
(* What an entry, and a whole request, is stored as. *)

EntryCount(r) == Len(EntriesOf(r))

\* The entries among the first n that no later one of them overwrites.
LastWriters(r, b, n) ==
    {i \in 1..n :
        /\ Entries(b)[i].kind \in Kinds
        /\ \A j \in (i + 1)..n :
              Entries(b)[j].kind \in Kinds => Slot(r, b, j) # Slot(r, b, i)}

PayloadUpTo(r, b, n) == {Content(r, b, i) : i \in LastWriters(r, b, n)}

\* A function, for TLC to tabulate.
WholePayload ==
    [r \in Requests |-> [b \in Bodies |-> PayloadUpTo(r, b, Len(Entries(b)))]]

Payloads == {WholePayload[r][b] : r \in Requests, b \in Bodies}

Attribute == [group : Groups, resource : Resources, verb : Operations, ns : AnyNamespace]

Stored(k) == k \in DOMAIN store

Author(k) == store[k].by

\* The answers that say that the request was not accepted.
Refusals == {"BadRequest", "Forbidden", "TransactionFailed"}

-----------------------------------------------------------------------------
(* Properties. *)

\* Every variable holds a value of its kind.  (What maps and payloads hold is
\* said exactly by StoredIsWhole.)
TypeOK ==
    /\ registered \subseteq Kinds
    /\ mapped \subseteq Kinds
    /\ permitted \in PermissionSets
    /\ clock \in 0..MaxClock
    /\ crashes \in 0..MaxCrashes
    /\ pc \in [Requests -> {"idle", "authorize", "build", "commit", "done", "lost"}]
    /\ body \in [Requests -> Bodies \cup {NoBody}]
    /\ at \in [Requests -> Nat]
    /\ cache \in [Requests -> SUBSET Attribute]
    /\ reviewed \in [Requests -> SUBSET Attribute]
    /\ skipped \in [Requests -> SUBSET Nat]
    /\ DOMAIN resources = Requests
    /\ txnKey \in [Requests -> TransactionKeys \cup {<<>>}]
    /\ rpc \in [Requests -> {"none", "sent", "succeeded", "conflict", "failed"}]
    /\ reply \in [Requests -> {"none", "BadRequest", "Forbidden", "Created",
                               "TransactionFailed", "CommitError"}]
    /\ DOMAIN store \subseteq TransactionKeys
    /\ \A k \in DOMAIN store : Author(k) \in Requests

\* 201 Created means that the transaction is in etcd, under the name the answer
\* gives, and stays there: no concurrent call, crash or retry displaced it.
AckedIsStored ==
    \A r \in Requests :
        reply[r] = "Created" =>
            /\ Stored(txnKey[r])
            /\ Author(txnKey[r]) = r

\* "Executes multiple resource mutations as a single logical unit": a stored
\* transaction holds every entry of its request (the last one where several
\* have one key and operation), creates and updates as the dry-run defaulted
\* them; a request with an entry that cannot be mapped is not stored at all.
StoredIsWhole ==
    \A k \in DOMAIN store :
        LET r == Author(k) IN
        /\ body[r] \in Bodies
        /\ \A i \in 1..EntryCount(r) : EntriesOf(r)[i].kind \in Kinds
        /\ store[k].payload = WholePayload[r][body[r]]
        /\ store[k].payload # {}

\* A call answered with 400, 403 or "transaction failed", and a call lost before
\* its commit, is not in etcd, and nothing on its way can still put it there.
RefusedNeverStored ==
    \A r \in Requests :
        \/ reply[r] \in Refusals
        \/ pc[r] = "lost" /\ txnKey[r] = <<>>
        => /\ rpc[r] \notin {"sent", "succeeded"}
           /\ \A k \in DOMAIN store : Author(k) # r

\* "transaction failed" means that another transaction holds the name.
FailedMeansTaken ==
    \A r \in Requests :
        reply[r] = "TransactionFailed" =>
            /\ Stored(txnKey[r])
            /\ Author(txnKey[r]) # r

\* The two passes agree: an entry of a stored transaction was reviewed and
\* allowed in its own namespace (by a review of its own or a remembered one),
\* unless its kind could not be mapped when the first pass came to it.
StoredReviewed ==
    \A k \in DOMAIN store :
        LET r == Author(k) IN
        \A i \in 1..EntryCount(r) \ skipped[r] :
            Attributes(body[r], EntriesOf(r)[i]) \in reviewed[r]

\* A stored create or update addresses one object: it has a namespace exactly
\* when its resource has one, and an update names its object.  (The key of a
\* delete, which is not dry-run, may lack the namespace.)
StoredWritesAddressed ==
    \A k \in DOMAIN store :
        LET r == Author(k) IN
        \A i \in 1..EntryCount(r) :
            LET e == EntriesOf(r)[i] IN
            e.op # "delete" =>
                /\ Mapping[e.kind].namespaced <=> EntryNamespace(body[r], e) # NoNamespace
                /\ e.op = "update" => e.name # NoName

\* The endpoint never changes or removes what a transaction key holds.
StoreOnce ==
    [][\A k \in DOMAIN store : k \in DOMAIN store' /\ store'[k] = store[k]]_vars

\* A call that arrived is answered, or lost in a crash of the server.
Answered ==
    \A r \in Requests : pc[r] = "authorize" ~> pc[r] \in {"done", "lost"}

(* The refinement of TransactionLog. *)

Decision(r) ==
    IF rpc[r] = "succeeded" THEN "stored"
    ELSE IF rpc[r] \in {"conflict", "failed"} \/ reply[r] \in Refusals THEN "refused"
    ELSE "open"

LogAnswer(r) ==
    IF reply[r] \in Refusals THEN "Refused"
    ELSE IF reply[r] = "CommitError" THEN "Unknown"
    ELSE reply[r]

Log == INSTANCE TransactionLog WITH
    Keys <- TransactionKeys,
    log <- store,
    demand <- [r \in Requests |->
                  IF body[r] = NoBody THEN {} ELSE {WholePayload[r][body[r]]}],
    decision <- [r \in Requests |-> Decision(r)],
    answer <- [r \in Requests |-> LogAnswer(r)]

\* The endpoint implements the write-once log of TransactionLog.
ImplementsLog == Log!Spec
=============================================================================
