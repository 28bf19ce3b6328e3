# API extension server: TLA+ models and proofs

This directory holds TLA+ modules, TLC configurations and TLAPS proofs about the
HariKube API extension server: an aggregated Kubernetes API server that counts
resources, stores transactions and queries in an etcd-compatible backend, and
forwards decision requests to a sidecar. `PROJECT.json` lists the runs, the map
from definitions to source lines, the mutants each property must catch, the
hazards and the theorems.

## 1. The system

| component | source | state it keeps | operations |
|---|---|---|---|
| transaction endpoint | `internal/apiserver/transaction.go` | per call: the request, the remembered reviews, the map being built; in etcd: one record per transaction | `CreateHandler`: parse, `transactionAuthorizeAll`, `transactionResourceMap` per entry (with a dry-run), `transactionCommit`, answer |
| count endpoint | `internal/apiserver/count.go` | none of its own | `ListHandler`: selectors, mapping, review, prefix, counting range read |
| query endpoint | `internal/apiserver/query.go` | in etcd: `queries/<name>` | `CreateHandler`: review, parse, unconditional put |
| decision endpoint | `internal/apiserver/decision.go` | none of its own | `CreateHandler`: review, decode and normalise, call the sidecar, answer |
| helpers | `internal/apiserver/helper.go` | the shared discovery mapper | `getResurce`, `subjectAccessReview`, `etcdKeyForGroupVersionKind`, response negotiation |
| server lifecycle | `internal/apiserver/server.go` | listener, socket file, error channel | `Start`, `clientConfig` |
| process configuration | `cmd/main.go` | flags and environment | list splitting, TLS file checks, manager start |
| decision-maker sidecar | `config/config/decision-maker.yaml` (`server.mjs`) | the promise of the model, ready and error flags | `/healthz`, `/system-one`, load, shutdown |

How they interact: all four endpoints run as concurrent HTTP handlers of one
process and share one authorization client, one etcd client and one
`DeferredDiscoveryRESTMapper`. The mapper is the only mutable state handlers
share in memory: a lookup that misses resets it for everybody
(`helper.go:43`). Everything else meets in etcd (transactions, queries) or in the
Kubernetes API server (reviews, discovery, dry-runs), which change on their own.
The framework that dispatches requests, client-go, etcd and the HariKube backend
that executes stored transactions are outside the repository; they are modelled
only by how this code uses them.

What is hard here: two passes over one request that resolve kinds separately; a
shared cache that is reset by any caller; grants and served kinds that change in
between; partial failure in the middle of a build; a commit whose outcome may be
unknown to the handler (timeout, lost answer, crash) and which may be executed
after the handler gave up; competing or retried calls for one name.

What makes each component correct:

* transaction: all or nothing, exactly the entries of the request; write-once
  names; answers that agree with what is stored; the reviews cover what is
  stored; every call answered.
* count: the prefix selects exactly the objects of the resource in the namespace
  (or everywhere for cluster scope); what is counted is of a resource that was reviewed.
* query: a stored query stays the query that was acknowledged.
* decision: a normalised request is a function of what was sent; the sidecar is asked
  only for what was reviewed; a good call fails only for a reason outside the handler.
* mapper: a kind is reported missing only if discovery lacked it (or failed)
  during the call, whatever other calls reset.
* lifecycle: a running instance can be reached; the process can stop.
* sidecar: never serves before the model is ready; shutdown ends.

## 2. Modules

| module | what it is |
|---|---|
| `ResourceKeys` | the keys of objects and transactions, and what a prefix covers, as sequences of path segments |
| `TransactionLog` | the abstract specification: a write-once log of whole payloads, and answers that agree with it |
| `Transaction` | the endpoint: concurrent calls, the shared discovery cache, the API server, etcd, clock and crashes; its properties; the refinement mapping to `TransactionLog` |
| `MCTransaction` | the small instance TLC checks, with three configurations |
| `TransactionProofs` | the inductive invariant, the theorems, and that the endpoint implements `TransactionLog` |
| `Count`, `MCCount`, `CountProofs` | the count endpoint, on top of `ResourceKeys`; its instance; the theorems of both: keys identify objects, a prefix covers exactly its resource, and what is counted |
| `Query`, `MCQuery`, `QueryProofs` | the query endpoint with its puts on their way to etcd; its instance and theorems |
| `DiscoveryMapper`, `MCDiscoveryMapper`, `DiscoveryMapperProofs` | concurrent lookups on the mapper all endpoints share; its instance and theorems |
| `DecisionMaker` | the sidecar: its process, its model, its requests, and the kubelet |
| `Decision`, `MCDecision`, `DecisionProofs` | the decision endpoint composed with `DecisionMaker`; its instance and theorems |
| `DecisionNormalize`, `MCDecisionNormalize`, `DecisionNormalizeProofs` | what a decision request's body becomes, and the shape of the mock's answers; its instance and theorems |
| `ServerLifecycle`, `MCServerLifecycle`, `ServerLifecycleProofs` | the server as a sidecar on a unix socket: start, serving, shutdown, crash and restart; its instance and theorems |
| `Config`, `MCConfig`, `ConfigProofs` | from the command line to a client of the backend: lists, TLS files, `clientConfig`; its instance and theorems |

Composition: `Transaction` and `Count` extend `ResourceKeys`, `Decision` extends
`DecisionMaker`, `Transaction` instantiates `TransactionLog`. The other modules meet the
rest of the system at one point each: `DiscoveryMapper` justifies what `Views` and
`OtherLookup` assume of a lookup, `DecisionNormalize` what `Decision` assumes of a body and
of the mock, `Config` ends where `ServerLifecycle` begins.

### Transaction and the code

State. `pc`, `at`, `body`, `cache`, `resources`, `txnKey` are the local variables
of one `CreateHandler` call (where it is, the entry of the loop it is at, the
decoded request, the authorization cache, the map under construction, the key).
`mapped` is the shared discovery cache, `registered` and `permitted` are the API
server's truth about served kinds and grants, `store` is what etcd holds, `rpc`
is the fate of the call's etcd transaction and `reply` the HTTP answer
(`BadRequest` 400, `Forbidden` 403, `Created` 201, `TransactionFailed` the 500
of line 269, `CommitError` the 500 of line 263). `reviewed`, `skipped` and the
`by` of a stored record are history, used only to state properties.

Actions. `RefuseBody`, `RefuseNamespace`, `Receive` are
`parseTransactionAndNamespace`. One step of the first pass is one entry:
`AuthorizeMalformed` (the decoder rejects it), `AuthorizeSkip` (no apiVersion or no
mapping: `continue`), `AuthorizeCached`, `AuthorizeAllowed`, `AuthorizeDenied`
(denied, failed or timed out review). The lookup and the review of an entry are
one step because the handler reads and writes nothing shared between them; the
two lookups inside `getResurce` are one step as well, `Views`: a kind in the cache
is found there (even if the API server has stopped serving it), otherwise the cache
is refilled with any of the kinds served at some time (a discovery consists of several
requests, between which that changes), which also covers a discovery that
fails or answers partially. `OtherLookup` is a lookup of another endpoint's call, which
may reset and refill the cache at any moment. One step of the second pass is one entry: `BuildAccept`
or `BuildReject`. Then `RefuseEmpty` or `Commit`; `EtcdPut`, `EtcdConflict`,
`EtcdFail` are etcd's side; `ReplyCreated`, `ReplyFailed`, `ReplyError` the
handler's. `Crash` ends all calls under way and empties the cache, but a
transaction already sent stays on its way. `Tick`, `ChangePermissions` and
`ChangeDiscovery` are the environment.

Abstractions. A kind's mapping (group, resource, scope) is constant; a group is
never spelled like a resource. A name generated by the dry-run of a nameless create
belongs to that entry alone. Values are represented by the entry they come from
and whether they are the submitted or the defaulted object. The clock matters only
through the names it makes. Response layout is left out. Whether a dry-run
rejects an object is nondeterministic.

### Properties

* `StoredIsWhole`: a stored transaction is exactly its request.
* `StoredReviewed`: each stored entry was reviewed and allowed in its own
  namespace, unless its kind had no mapping when the first pass came to it. (Such
  an entry is skipped at line 551 and can still be mapped by the second pass; the
  property states what the two passes guarantee together.)
* `StoredWritesAddressed`: stored creates and updates have a namespace exactly
  when their resource has one. Deletes are not dry-run, so they are exempt.
* `AckedIsStored`, `RefusedNeverStored`, `FailedMeansTaken`: answers agree with
  etcd, for good. `CommitError` promises nothing: it is the ambiguous answer, and a
  client that retries a named transaction after it may get `TransactionFailed` for
  a transaction of its own; a retry of an unnamed one is stored again.
* `StoreOnce`: no step changes what a key holds.
* `ImplementsLog`: the endpoint implements `TransactionLog`.
* `Answered`: every call that arrives is answered, or lost in a crash. (A call arrives
  here with its body: `parseTransactionAndNamespace` reads it before all else, for as long
  as the client takes.)

### Count and the code

`pc`, `ask`, `reply` are one `ListHandler` call; `counted` is its answer, represented
by the set of objects counted instead of their number, so that a wrong selection of
the right size is seen. `snapshot` is what the backend held when it counted and
`reviewed` the attributes allowed for the call, both history. `KindOf`, `ValueOf` and
`GroupVersion` are lines 50-98: the last term with a field's prefix wins, a term
without "=" says nothing, and an apiVersion of one part is a core version or a group
in its preferred version. `Prefix` is lines 132-143, `CountObjects` the read and the
answer. The lookup is the same `Views`, disturbed by the same `OtherLookup`, as in
`Transaction`; nothing else depends on what the API server serves, so that `DiscoverySets`
here is what a discovery may find. Backend errors and an empty response, both only possible after the review, are `CountFails`. Selectors are
sets of objects; how the backend parses their text is left out.

* `CountsWhatIsMeant`: a count is of exactly the objects of the resource, whichever
  version they were asked for in, in the namespace if both resource and request have
  one, that all selectors select. Core groups share keys without a group segment,
  so their equally named resources are counted together (events do exist in two).
* `CountsWhatIsReviewed`: every object counted is of a resource and group whose listing
  was reviewed and allowed for the call (core groups count as one, as in the keys), and is
  in the namespace of that review if the review and the object have one. Review and
  prefix are derived separately, one from the request's namespace (`count.go:117`), the other
  from what the scope leaves of it (`count.go:134-136`). For cluster-scoped objects the
  property therefore says nothing of the namespace: the right to list such a
  resource in one namespace is enough to count all of it, whereas `transaction.go:570`
  drops the namespace before its review. The property states this difference; nothing in the
  repository says which is meant.
* `Answered`: given that the lookup ends, which is `LookupsEnd` of `DiscoveryMapper`.

### Query and the code

One step per wait of `CreateHandler`. The wait for the body comes after the review (pc "read",
`query.go:31`), and only the client ends it: `BodyArrives` or `BodyBreaks`. The put is an operation of its own (`put`): sent
by `Send`, executed or failed by `EtcdPut` and `EtcdFail` at any later time, even after
`ReplyError` or `Crash`. `store` maps keys to the call whose body they hold, and
`overwritten` and `earlier` are history.

* `AckedIsStored`: an acknowledged query is in etcd, unless a put of another call for
  the same key displaced it. There is no stronger promise: the put is unconditional.
* `InOrder`: a query never displaces one whose call arrived after its acknowledgement.
  (A put that was answered with an error may well do so: it is still on its way.)
* `StoredIsReviewed`, `RefusedNeverStored`.
* `Answered`: a call is answered or lost in a crash, unless its client never finishes the body
  and never hangs up. `http.Server{}` has no read timeout and `io.ReadAll` does not look
  at the ten seconds, so such a call keeps its handler for ever.
* `KeyMirrorsTransactionKey` is what the comment at `query.go:96` says. It does not
  hold: the key has no namespace and no name but the path's, so queries of two
  namespaces, or all those created without a name in the path, displace each other.

### Decision, DecisionMaker and the code

`DecisionMaker` is `server.mjs`: `model` is `layaInstancePromise`, `stop` how far the
shutdown handler is, and a step is what the event loop does between two waits. `wire`
is the request of a call: `Decision!Invoke` sends it, the sidecar moves it on, and it
outlives a call that gave up. `RejectUnready` and `Work` are `systemOne`, `Finish` is its
result (the mock always answers what the endpoint accepts). `Shutdown`, `CloseModel`,
`ModelClosed`, `Drained` are the shutdown handler; if the load or the close fails, its
promise is rejected, which ends a node process (`ShutdownThrows`). The kubelet acts by
`ProbeFails`, `Kill` and `Restart`. What a request comes to tells why: "refused" was not
accepted, "killed" lost its process to `Die` or `Kill`, "broken" to a shutdown that threw.

In `Decision`, `Expire` is the end of the context, by the timeout or by a client that hangs
up, at any moment of a call. The review and the call of the sidecar look at it, the wait for
the body (`decision.go:97`, `BodyArrives` and `BodyBreaks`) does not: a body that comes late is still
decoded, and only then `InvokeLate` answers 502 without asking the sidecar. An answer that is
there when the time ends may still become a 201, as either may be seen first.

* `AskedIsAccepted`: the sidecar works only for calls that were reviewed, in the
  namespace their body is for; the body is read after the review.
* `FailureIsExplained`: a good call fails with 502 only if its time was over, its request was not
  accepted, or the sidecar died or was killed over it. So a stop of the sidecar, which every
  rollout brings, fails no call it has accepted: `Drained` waits for them. The laya provider is
  exempt, as its model may reject what it likes and a failing `close` ends the process.
* `WorksOnModel`: a request works only on a model that was loaded. Shutdown may close
  it meanwhile: the handler closes the model before the server stops to accept.
* `FailureIsReplaced`: a failed load, which the process never repeats, is noticed by the
  probes and the process replaced.
* `Stops`: a process told to stop ends by itself, in whatever state its model is.
* `Answered`: a call is answered, unless its client never finishes the body and never hangs
  up, as in `Query`.

### DiscoveryMapper and the code

`pc`, `round`, `want`, `view`, `answer` are one `getResurce` call: `round` is which of its two
`RESTMapping` calls it is in, `view` the delegate it searches, taken under the lock and
searched without it. `delegate`, `fresh` and `lock` are client-go's shared state. `Ask`, `Failed`,
`Hit`, `Miss` and `Reset` are `helper.go:40-49`; the rest is `DeferredDiscoveryRESTMapper` over
its memory cache, modelled external: `MissStale` is the restart of a `RESTMapping` that finds
the cache invalidated, `StartFetch` and `EndFetch` a discovery, which sees what was served
throughout and any of what was served for a time of it (`had`, `lacked`), or goes wrong
(`DiscoveryError`). `excused` is history.

* `MissIsTrue`: a kind is reported missing only if it was not served at some time of the
  call, or a discovery went wrong. A stale view, or a view another call had just dropped or
  filled, is never the reason.
* `LookupsEnd`: a lookup of a kind that is served ends, whatever others do; another one ends
  unless others reset the mapper for ever. The second premise is needed: two lookups of kinds
  that are not served can keep each other in `MissStale`, since each reset makes the
  other's view stale. The code bounds its own resets, not those it provokes.

### DecisionNormalize and the code

A body is decoded twice, question by question in any order (`NormalizeQuestion`,
`RefuseQuestion`), and answered by the mock. `normalizeDecisionValue` is the set of results the
function may have: Go goes through a map in any order, so of keys that print alike any may
be the last. It is a recursive function, so it has a domain, `Values`: the values that are in
bodies or made of them, level by level as they are nested (`Levels`, `MaxDepth`).
`ValuesAssumption` says just that; any bodies meet it, once the values in them and what
these become are collected. Texts are words with a form (plain, padded, upper case), so that
trimming and lowering are what they do. YAML that cannot be parsed, and the name and namespace in
the body, are part of `Decision` only.

* `Encodable`: an accepted state has string keys at every depth, so it can be marshalled
  (up to scalars such as `.nan`, `Decision`'s "unencodable").
* `StateIsSent`: against a reference, the set of places with what is there: nothing is
  added, moved or lost but entries whose keys print alike.
* `Repeatable`: decoding the same body again gives the same request or the same refusal,
  unless keys print alike. That exception is real: with `1` and `"1"` in one map, the
  state sent to the model, or even whether the body is accepted, may differ from one
  delivery to the next.
* `AnswersFit`: the mock can answer every accepted question, with an option or a position
  that exists.

### ServerLifecycle and the code

`pc` is where `Start` is (`removing` and `closing` are its deferred functions), `result` what
it returns, `server` the goroutine, `errChan` its channel, `socket` what the path leads to,
`open` whether the listener is, `conn` what became of each client's connection. `Serve`,
`ServeTooLate` (after `Shutdown`), `ServeFails`, `ServeEnds` and `Report` are the goroutine;
`ReturnServeError` and `Shutdown` the select, which takes either if both are ready.
`Accept`, `Finish`, `CloseListener` are net/http and the kernel. `Die` is a crash, the
manager when it stops waiting for `Start`, or a kill; `Restart` is the kubelet's.

* `Reachable`: an open listener has its path, in spite of a removal at each end.
* `LegacyIsHarmless`: a start fails only for a reason of its own, not for the socket file a
  killed process left behind. (Without the removal of line 149 only the deferred one
  of the failed start would repair it, for the start after.)
* `StopBreaksNothing`: a stop breaks no request that is being handled; the death of the
  process or an error of `Serve` may.
* `Recovers`: after any failure the server is soon reachable again, or told to stop.
* `Stops`: a process told to stop ends, although `Shutdown` has no deadline. The premise is that
  requests end. One whose client never finishes its body does not; the manager then stops
  to wait after its graceful timeout, and the process ends by `Die`, which is no graceful stop.

The model says nothing of what the handlers of this branch answer.

### Config and the code

A text is a sequence of commas, spaces and words. `CheckFile` is `main.go:155-189` for each
option: an empty file unsets the option, a missing or unreadable one ends the process.
`New` splits the lists. The server may be started much later (a runnable without
`NeedLeaderElection` waits for the lease): `MissingTLSConfig`, `ConnectWithoutConfig`,
`ConnectWithConfig`, `LoadFails` and `NoEndpoint` are `clientConfig` and the etcd client, and read
the files as they are then; `Remount` replaces them at any moment. `seen` is history. `Dialled` is what the
etcd client (`server.go:79-81`, external) makes of the configuration: it takes its transport
credentials from the scheme of its first endpoint, so that "http" drops the configuration
it is given and "https" (in any case) has one even if none is; without a scheme, the
configuration decides. `HttpsWords` are the URLs `clientConfig` looks for, `SecureWords` and
`PlainWords` those the client takes for https and http.

* `PlainIsWanted`: connections are in the clear only if an option was left out, its file was
  empty when looked at, or the first URL is an http one; files that are missing, broken
  or emptied later are errors.
* `HttpsNeedsTLS`: with an https URL in the list, however it is padded, they are in the clear
  only if an http URL is first and the three files were there. Without one of the files it is an
  error, as `clientConfig` intends; with them the first URL turns TLS off for all the others,
  which the code neither prevents nor mentions.
* `ListsAreRead`, of two parts. `CoreGroupKept`: the core group is in its list exactly if
  there is an empty place in a text that is not wholly blank. A blank text gives no group at
  all, not the core group.
  `UrlsAreListed`: endpoints are the elements with words, in order, unpadded.
* `Settles`: with all options and good files from some time on, restarts end in a
  connection. It may be one in the clear: a process that found an empty file and has no
  https URL stays as it is when the file is filled.

### Runs

| run | configuration | what it asks |
|---|---|---|
| `transaction_call` | one call, ten kinds of request (every refusal, duplicates, generated names, cluster scope, no namespace), changing grants and discovery, one crash, fairness | what a stored transaction holds; every call is answered |
| `transaction_cache` | two calls sharing the discovery cache while grants and discovery change | the two passes agree |
| `transaction_race` | two calls that compete for a name or are unnamed at one instant, one clock tick, one crash, lost and late transactions | answers against etcd; refinement |
| `count` | two calls, seven queries, core and other groups, both scopes, changing objects, grants and discovery, fairness | a count is what was meant, of what was reviewed; every count is answered |
| `mapper` | concurrent lookups, one kind always served and one that comes and goes, wrong discoveries, fairness | what is reported missing; lookups end |
| `lifecycle` | two connections, two failures or deaths at any moment, stops, restarts, fairness | reachability, graceful stop, recovery |
| `config` | all option sets, files that are good, not there, or but for one good, one replacement, one crash, all texts of up to two tokens and some of three to five, fairness | the lists; TLS or not; restarts settle |
| `normalize` | 552 bodies: states of depth up to two, one or two questions of all kinds | decoding and answering |
| `query` | three calls, names in path or body, two namespaces, one crash, fairness | answers against etcd; the order clients see; every call is answered, but for bodies that never end |
| `query_keys` | two calls | violated: the comment about the key |
| `decision` | two calls, five requests, both providers, any load, stop, kill, restart and timeout, fairness of the sidecar | what reaches the sidecar, why calls fail; it stops by itself |
| `decision_answers` | two calls, a good and a refused request, both providers, fairness of handlers and kubelet | every call is answered, but for bodies that never end; failed loads are replaced |

Bounds. Two calls are enough for every conflict in the model: calls meet only in
`mapped` (a set any one other call can change arbitrarily) and in one key of `store`
(which a second call can take). Requests have up to three entries: two of one list
for overwriting and for two namespaces, one more for another operation. Two
namespaces tell a review of one from a review of the other; three kinds are a core
one, another one and a cluster-scoped one. `MaxClock = 1` lets unnamed calls get equal
and different names; `MaxCrashes = 1` puts a crash between any two steps.
For liveness one transaction is enough: calls wait for nobody, and what others do to the
cache is `OtherLookup`. For the same reason `decision_answers` has two requests: what else a call
may ask is refused by one more local step. In `query` the third call tells a call that displaces an earlier one
from one that displaces it in turn; requests to the sidecar meet only in its process, so two
are enough. `lifecycle` has two failures, so that one may hit the start after the one that a
first caused. In `config` each file in turn is what the others are not, since they are looked
at one by one; one replacement, of all files at once, separates what was looked at from what
is read. The texts put an empty place first, last, between words and behind spaces, and a
padded URL behind another. Values of depth two have a map in a map and in a list. The
theorems below have no such bounds. Deadlock is not checked where everything may be over: in
`transaction_race` when all calls are answered, in `config` and `normalize` when the process
is connected or the body answered.

Fairness. In `Transaction` and `Query`, `FairSpec` assumes weak fairness of each call's
`Handle` steps. The code justifies it: reviews, dry-runs, puts and commits run under a context
with a timeout (`transaction.go:207`, `query.go:68`), so each of these waits ends with a result
or an error; a lookup has the time limit of client-go's discovery, and the other steps wait for
nobody. Not fair are the steps of clients: `Receive`, and in `Query` and `Decision` the two that
end the wait for a body. In `Decision` fair are the passing of time (`Expire`), giving up a review or a request once it is over (`GiveUp`, by the context of `decision.go:179`) and what
the handler does with a body it has (`Local`); a review or an answer may fail to come. In
`Count` only the lookup (client-go's discovery has a time limit) and the two ways the
ten seconds of `count.go:112` end a call are fair, not the answers. Nothing is assumed of
clients, etcd or the API server. In `Decision`, `FairSpec` also assumes the kubelet's
probes, kill and restart (`manager_apiservice_patch.yaml:135-152`, the grace period),
and nothing of the sidecar: a load may take for ever. `MakerSpec`, for `Stops` alone,
assumes instead that loading, closing and answering end, and no kubelet. In `DiscoveryMapper` a
discovery ends (it has a time limit: weak fairness of `Working`), and a mutex lets in who waits
long enough although others take it in between (strong fairness of `Locking`; Go's mutexes
hand over to a waiter after a millisecond). In `ServerLifecycle` and `Config` the process
runs on and the kubelet restarts a container that ended, which it does for a deployment; in
`ServerLifecycle` requests that are handled end (`Finish`), which takes a client that finishes
its body or hangs up: that is a premise, not something the code sees to. In `Config` the process
becomes the leader in the end. Nothing else is assumed of clients, and nothing of stops.

## 3. Proofs

`TransactionProofs` proves, for every value of the constants, all safety properties
the runs check. The argument is one inductive invariant,
`IInv`, the conjunction of

* `TypeOK` and `CallOK` (a call under way has a request and a position),
* `PhaseOK`: how `pc`, `rpc`, `txnKey` and `reply` go together,
* `StoreOK`: etcd holds exactly what the succeeded transactions sent, and a
  conflict leaves somebody else's record behind,
* `MapOK`: in the second pass, after `n` entries the map is what `n` entries are
  stored as (`PayloadUpTo`), and every one of them had a resource and an address;
  after the commit the map is the whole payload,
* `ReviewOK`: in the first pass every entry before the current one is reviewed or
  skipped; later, all of them are.

None of the properties is inductive alone: that a stored record is whole, say,
depends on the map at the commit, which depends on every step of the build. The one
lemma about data is `PayloadStep`: storing one more entry is `Put`. The assumptions
are `KeysAssumption` and `TransactionAssumption`, which TLC evaluates in every run.

It also proves that the endpoint implements `TransactionLog`: calls arrive as
`Submit` or `TurnAway`, the work of a handler stutters, refusals and answers are the log's
answers, and what etcd does to a transaction, even one whose call is answered or lost, is
`Store` or `Refuse`. Each step needs `IInv` (that what is sent is what the call wants, and that
nothing refused is still on its way) and that a call that did not arrive has no request.

`CountProofs` proves, for every mapping and every set of core groups that satisfies
`KeysAssumption`, that the key of an object determines its name, its namespace and its
resource (`KeysIdentifyObjects`), and that a prefix covers a key exactly when the object
is of that resource and namespace (`PrefixCoversResource`). The argument is by the number
of segments: the assumption that no group is spelled like a resource and that a
resource has one scope tells the shapes apart. Without the first, `<<g, r>>` could be a
group and a resource or a resource and a namespace.

It proves `CountsWhatIsMeant` from `PrefixCoversResource` and
`CountsWhatIsReviewed` from an invariant that ties each answer to the review before it: the
attributes reviewed have the resource and group of the prefix, and its namespace if it has one,
and `PrefixCoversResource` says that what the prefix covers has them too.

`QueryProofs` proves all safety properties of `Query`. Its invariant ties `put`, `pc` and
`reply` together, says of every key which call holds it, and of every executed put that
its key holds that call or one that displaced it; `InOrder` needs in addition that
everything acknowledged before a call arrived has been executed already, and a put is
executed once.

`DecisionProofs` proves `AskedIsAccepted`, `FailureIsExplained` and `WorksOnModel`. `CallOK`
must hold of finished calls too, since requests outlive them; `ModelOK` says that a
process that starts or is gone serves nothing, that ready means loaded, and that without laya
there is no model to be unready, to fail or to close: so no request is rejected or broken.

`DiscoveryMapperProofs` proves `MissIsTrue`, for any number of lookups, kinds and changes. Its
invariant says of a lookup in its second round, so after its reset, that all the shared
view, the view it took and the discovery under way lack is excused; per-lookup predicates
with a frame lemma keep it apart from what others do.

`ServerLifecycleProofs` proves the four safety properties of the lifecycle: the listener is
open only between listening and the deferred close, nobody waits at a closed one, and a
server told to shut down has closed the one it serves, so that nothing is handled once
`Shutdown` has returned.

`ConfigProofs` proves all safety properties of `Config`, those of the lists for texts of any
length. The invariant of the process is short: what main has seen of the options it has
come to, and that the lists are what the texts are split into. That connections are in the clear
for the reason given needs in addition that the first endpoint is the first element with a word. The rest is about splitting.
It rests on `SetInduction`, induction for a set of naturals, proved from the cardinality of
finite sets; from it follows that a finite set of numbers has bounds (`Bounds`, for what is
trimmed and for the separator before an element), and from counting that the elements of a
set have ranks (`Ranks`), so that an increasing map takes the order of one set to that of
another (`SameOrder`). `WordsInOrder` then is such a map, from the separators that end the
elements with words to the positions where these words begin; `EmptyElement` finds the
neighbouring separators of an empty element. `Config` takes a set in order by `InOrder`, not
by the library's `SetToSortSeq`, of which the provers can say nothing.

`DecisionNormalizeProofs` proves all properties of `DecisionNormalize`, for bodies nested
to any depth. Three facts about values carry them, each by induction on the nesting
(`ValueInduction`, from `SetInduction` once more): no map with keys of any type is left
(`NormalIsKeyed`), nothing is added or moved and, unless keys print alike, nothing is lost
(`NormalAddsNothing`, `NormalLosesNothing`), and the result is then the only one
(`NormalIsOne`). Before them comes what a recursive function needs: that there is a function
that satisfies its definition. `NormalizeIs` and `PlacesAre` build it level by level, which
works because a level only asks for the ones below it. The invariant of the process says how
far the decoding is and on what grounds a body was refused; `Repeatable` needs the latter,
since an acceptance and a refusal of one body must exclude each other.

Each of the proof modules but `DecisionNormalizeProofs` proves type correctness as well
(`Typing`). Only the `TypeOK` of `Transaction` and of `Config` is an invariant of a run
besides.

Left to TLC: liveness (`Answered`, `FailureIsReplaced`, `Stops`, `LookupsEnd`, `Recovers`,
`Settles`), which needs fairness. Every safety property of a passing run is proved.

## 4. Plan

Done: all endpoints, the sidecar, the mapper, the lifecycle and the configuration, their
safety properties and the refinement of `TransactionLog` proved. Left: `Views` of
`Transaction` and `Count` as what `DiscoveryMapper` implements, instead
of the argument that it covers it: a lookup there finds what the cache has, or refills it
with any part of what is served.

## 5. Not modelled

* API types and generated deep copies: declarations, no behaviour of their own.
* Samples (programs of their own behind `//go:build ignore`), manifests, CI and tests.
* Response negotiation (`responseContent`, `tableResponse`, `writeResponse`): the layout of an
  answer, on which nothing else depends.
* `Start` with a TCP port: the framework's server, outside the repository.
* The metrics and webhook options of `main`, which only pass flags on, and leader election
  itself.
* The numbers the mock computes, on which nothing depends, and everything outside the
  repository.
