-------------------------------- MODULE Query --------------------------------
(***************************************************************************)
(* The queries endpoint (internal/apiserver/query.go): concurrent          *)
(* CreateHandler calls, each of which has the right to create queries in   *)
(* its namespace reviewed, reads the body, puts it under the name in the   *)
(* request's path, and answers.  The put is unconditional, and on its own  *)
(* once sent: etcd may execute it after the ten seconds of the call are    *)
(* over, or after the server process has crashed.                          *)
(*                                                                         *)
(* A request is [ns, pathName, metaName, valid]: a create seldom has a     *)
(* name in its path.  What a call stores is represented by the call.       *)
(***************************************************************************)
EXTENDS Naturals

CONSTANTS
    Calls,                \* HTTP calls of the endpoint; a client's retry is another call
    Namespaces,
    Names, NoName,        \* the names of queries
    Requests, NoRequest,  \* the requests clients send
    PermissionSets,       \* sets of namespaces in which queries may be created
    MaxCrashes            \* bound: how often the server process crashes

ASSUME QueryAssumption ==
    /\ Requests \subseteq [ns : Namespaces, pathName : Names \cup {NoName},
                           metaName : Names \cup {NoName}, valid : BOOLEAN]
    /\ NoRequest \notin Requests
    /\ MaxCrashes \in Nat

VARIABLES
    permitted,   \* what the API server grants
    crashes,
    pc,          \* where a call is
    request,     \* what it was asked
    allowed,     \* history: the namespaces reviewed and allowed for the call
    earlier,     \* history: the calls acknowledged before the call arrived
    put,         \* its put: "none", "sent", "executed" or "failed"
    reply,       \* its answer
    store,       \* what etcd holds: a function from keys to calls
    overwritten  \* history: the calls whose puts displaced the call's query, so far

vars == <<permitted, crashes, pc, request, allowed, earlier, put, reply, store, overwritten>>

\* "queries/"+name, where name is the path's.
Key(q) == <<"queries", q.pathName>>

Init ==
    /\ permitted \in PermissionSets
    /\ crashes = 0
    /\ pc = [c \in Calls |-> "idle"]
    /\ request = [c \in Calls |-> NoRequest]
    /\ allowed = [c \in Calls |-> {}]
    /\ earlier = [c \in Calls |-> {}]
    /\ put = [c \in Calls |-> "none"]
    /\ reply = [c \in Calls |-> "none"]
    /\ store = <<>>
    /\ overwritten = [c \in Calls |-> {}]

Answer(c, answer) ==
    /\ pc' = [pc EXCEPT ![c] = "done"]
    /\ reply' = [reply EXCEPT ![c] = answer]

Receive(c) ==
    /\ pc[c] = "idle"
    /\ \E q \in Requests : request' = [request EXCEPT ![c] = q]
    /\ earlier' = [earlier EXCEPT ![c] = {d \in Calls : reply[d] = "Created"}]
    /\ pc' = [pc EXCEPT ![c] = "review"]
    /\ UNCHANGED <<permitted, crashes, allowed, put, reply, store, overwritten>>

ReviewAllowed(c) ==
    /\ pc[c] = "review"
    /\ request[c].ns \in permitted
    /\ allowed' = [allowed EXCEPT ![c] = @ \cup {request[c].ns}]
    /\ pc' = [pc EXCEPT ![c] = "read"]
    /\ UNCHANGED <<permitted, crashes, request, earlier, put, reply, store, overwritten>>

ReviewDenied(c) ==
    /\ pc[c] = "review"
    /\ request[c].ns \notin permitted
    /\ Answer(c, "Forbidden")
    /\ UNCHANGED <<permitted, crashes, request, allowed, earlier, put, store, overwritten>>

\* The review fails, or is not answered within the ten seconds.
ReviewFails(c) ==
    /\ pc[c] = "review"
    /\ Answer(c, "NotFound")
    /\ UNCHANGED <<permitted, crashes, request, allowed, earlier, put, store, overwritten>>

\* The body is there.  The handler waits for it after its review, and nothing but
\* the client ends the wait: no deadline is on the connection, and the ten seconds
\* are not looked at.
BodyArrives(c) ==
    /\ pc[c] = "read"
    /\ pc' = [pc EXCEPT ![c] = "parse"]
    /\ UNCHANGED <<permitted, crashes, request, allowed, earlier, put, reply, store, overwritten>>

\* The client ends the connection before its body is there.
BodyBreaks(c) ==
    /\ pc[c] = "read"
    /\ Answer(c, "BadRequest")
    /\ UNCHANGED <<permitted, crashes, request, allowed, earlier, put, store, overwritten>>

\* A body that is blank or is not a YAML mapping.
RefuseBody(c) ==
    /\ pc[c] = "parse"
    /\ ~ request[c].valid
    /\ Answer(c, "BadRequest")
    /\ UNCHANGED <<permitted, crashes, request, allowed, earlier, put, store, overwritten>>

\* Mutant: what parseQueryRequestBody found is not looked at.
SendAnything(c) ==
    /\ pc[c] = "parse"
    /\ put' = [put EXCEPT ![c] = "sent"]
    /\ pc' = [pc EXCEPT ![c] = "put"]
    /\ UNCHANGED <<permitted, crashes, request, allowed, earlier, reply, store, overwritten>>

Send(c) ==
    /\ pc[c] = "parse"
    /\ request[c].valid
    /\ put' = [put EXCEPT ![c] = "sent"]
    /\ pc' = [pc EXCEPT ![c] = "put"]
    /\ UNCHANGED <<permitted, crashes, request, allowed, earlier, reply, store, overwritten>>

\* Mutant: a put that was executed is sent again.
EtcdPutAgain(c) ==
    /\ put[c] \in {"sent", "executed"}
    /\ put' = [put EXCEPT ![c] = "executed"]
    /\ LET k == Key(request[c]) IN
          /\ store' = [j \in DOMAIN store \cup {k} |-> IF j = k THEN c ELSE store[j]]
          /\ overwritten' = [d \in Calls |->
                IF d # c /\ put[d] = "executed" /\ Key(request[d]) = k
                THEN overwritten[d] \cup {c} ELSE overwritten[d]]
    /\ UNCHANGED <<permitted, crashes, pc, request, allowed, earlier, reply>>

\* etcd executes a put it was sent, whoever still waits for it.
EtcdPut(c) ==
    /\ put[c] = "sent"
    /\ put' = [put EXCEPT ![c] = "executed"]
    /\ LET k == Key(request[c]) IN
          /\ store' = [j \in DOMAIN store \cup {k} |-> IF j = k THEN c ELSE store[j]]
          /\ overwritten' = [d \in Calls |->
                IF put[d] = "executed" /\ Key(request[d]) = k
                THEN overwritten[d] \cup {c} ELSE overwritten[d]]
    /\ UNCHANGED <<permitted, crashes, pc, request, allowed, earlier, reply>>

\* The put never reaches etcd, or etcd fails it.
EtcdFail(c) ==
    /\ put[c] = "sent"
    /\ put' = [put EXCEPT ![c] = "failed"]
    /\ UNCHANGED <<permitted, crashes, pc, request, allowed, earlier, reply, store, overwritten>>

\* Mutant: the error of the put is not looked at.
ReplyCreatedUnchecked(c) ==
    /\ pc[c] = "put"
    /\ Answer(c, "Created")
    /\ UNCHANGED <<permitted, crashes, request, allowed, earlier, put, store, overwritten>>

ReplyCreated(c) ==
    /\ pc[c] = "put"
    /\ put[c] = "executed"
    /\ Answer(c, "Created")
    /\ UNCHANGED <<permitted, crashes, request, allowed, earlier, put, store, overwritten>>

\* Mutant: the put is not bound to the context with the ten seconds.
ReplyErrorWithoutTimeout(c) ==
    /\ pc[c] = "put"
    /\ put[c] = "failed"
    /\ Answer(c, "PutError")
    /\ UNCHANGED <<permitted, crashes, request, allowed, earlier, put, store, overwritten>>

\* Mutant: a put that fails is blamed on the request.
ReplyErrorAsBadRequest(c) ==
    /\ pc[c] = "put"
    /\ Answer(c, "BadRequest")
    /\ UNCHANGED <<permitted, crashes, request, allowed, earlier, put, store, overwritten>>

\* 500: the put failed, or its response was not there within the ten seconds.
ReplyError(c) ==
    /\ pc[c] = "put"
    /\ Answer(c, "PutError")
    /\ UNCHANGED <<permitted, crashes, request, allowed, earlier, put, store, overwritten>>

-----------------------------------------------------------------------------
(* The environment. *)

ChangePermissions ==
    /\ permitted' \in PermissionSets \ {permitted}
    /\ UNCHANGED <<crashes, pc, request, allowed, earlier, put, reply, store, overwritten>>

\* The server process ends and starts again; a put already sent stays on its way.
Crash ==
    /\ crashes < MaxCrashes
    /\ crashes' = crashes + 1
    /\ pc' = [c \in Calls |-> IF pc[c] \in {"idle", "done"} THEN pc[c] ELSE "lost"]
    /\ UNCHANGED <<permitted, request, allowed, earlier, put, reply, store, overwritten>>

\* What a call waits for from its client, with no limit.
Client(c) == BodyArrives(c) \/ BodyBreaks(c)

Handle(c) ==
    \/ ReviewAllowed(c) \/ ReviewDenied(c) \/ ReviewFails(c)
    \/ RefuseBody(c) \/ Send(c) \/ ReplyCreated(c) \/ ReplyError(c)

Next ==
    \/ \E c \in Calls : Receive(c) \/ Client(c) \/ Handle(c) \/ EtcdPut(c) \/ EtcdFail(c)
    \/ ChangePermissions \/ Crash

Spec == Init /\ [][Next]_vars

\* A handler that runs goes on: its waits for the API server and for etcd end with
\* its ten seconds.  Nothing is assumed of clients, so that a wait for a body may
\* go on for ever.
FairSpec == Spec /\ \A c \in Calls : WF_vars(Handle(c))

-----------------------------------------------------------------------------
(* Properties. *)

\* Every variable holds a value of its kind, and a call under way has a request.
TypeOK ==
    /\ permitted \in PermissionSets
    /\ crashes \in 0..MaxCrashes
    /\ pc \in [Calls -> {"idle", "review", "read", "parse", "put", "done", "lost"}]
    /\ request \in [Calls -> Requests \cup {NoRequest}]
    /\ allowed \in [Calls -> SUBSET Namespaces]
    /\ earlier \in [Calls -> SUBSET Calls]
    /\ put \in [Calls -> {"none", "sent", "executed", "failed"}]
    /\ reply \in [Calls -> {"none", "Forbidden", "NotFound", "BadRequest", "Created", "PutError"}]
    /\ \A k \in DOMAIN store : store[k] \in Calls
    /\ overwritten \in [Calls -> SUBSET Calls]
    /\ \A c \in Calls :
          pc[c] \in {"review", "read", "parse", "put"} \/ put[c] # "none" => request[c] \in Requests

\* 201 Created means that etcd holds the query, unless the put of another call
\* for the key displaced it.
AckedIsStored ==
    \A c \in Calls :
        reply[c] = "Created" =>
            /\ Key(request[c]) \in DOMAIN store
            /\ store[Key(request[c])] \in {c} \cup overwritten[c]

\* Only valid queries that were reviewed and allowed in their namespace are stored.
StoredIsReviewed ==
    \A k \in DOMAIN store :
        LET c == store[k] IN
        /\ k = Key(request[c])
        /\ request[c].valid
        /\ request[c].ns \in allowed[c]

\* The order that clients see is the order of etcd: a query never displaces one
\* whose call arrived after it was acknowledged.
InOrder ==
    \A c \in Calls : overwritten[c] \cap earlier[c] = {}

\* A call answered with 400, 403 or 404 stored nothing, and a call that crashed
\* before its put never will.
RefusedNeverStored ==
    \A c \in Calls :
        reply[c] \in {"Forbidden", "NotFound", "BadRequest"} \/ (pc[c] = "lost" /\ put[c] = "none")
        => /\ put[c] = "none"
           /\ \A k \in DOMAIN store : store[k] # c

\* A call that arrived is answered, or lost in a crash of the server, unless its
\* client never finishes the body and never hangs up: then the handler, which has
\* no deadline for reading, waits for ever.
Answered ==
    \A c \in Calls :
        pc[c] = "review" ~> (pc[c] \in {"done", "lost"} \/ [](pc[c] = "read"))

\* What the comment in the handler says, "key naming mirrors transactionKey": the
\* key of a transaction has its namespace and the name from its metadata, its path
\* or, without either, the clock.  So a query is displaced only by a query of its
\* namespace that is given the same name.
TransactionKey(c) ==
    LET q == request[c]
    IN  <<q.ns, IF q.metaName # NoName THEN q.metaName
                ELSE IF q.pathName # NoName THEN q.pathName
                ELSE c>>

KeyMirrorsTransactionKey ==
    \A c \in Calls : \A d \in overwritten[c] : TransactionKey(d) = TransactionKey(c)
=============================================================================
