------------------------------- MODULE Decision -------------------------------
(***************************************************************************)
(* The decisionrequests endpoint (internal/apiserver/decision.go) together *)
(* with the sidecar it asks: concurrent CreateHandler calls, each of which *)
(* has the right to create decision requests in its namespace reviewed,    *)
(* reads and decodes the body, checks its namespace, posts the questions   *)
(* to the sidecar and answers.  One timeout covers all of it, but only the *)
(* review and the sidecar's call look at it: the wait for a body does not. *)
(*                                                                         *)
(* An ask is [ns, metaNs, content]; the content is "valid", "invalid" (what *)
(* decodeDecisionRequest refuses) or "unencodable" (decoded from YAML, but  *)
(* not expressible as JSON, such as a state of .nan).                       *)
(***************************************************************************)
EXTENDS DecisionMaker

CONSTANTS
    Namespaces, NoNamespace,
    Asks, NoAsk,     \* the requests clients send
    PermissionSets   \* sets of namespaces in which decisions may be requested

ASSUME DecisionAssumption ==
    /\ NoNamespace \notin Namespaces
    /\ Asks \subseteq [ns : Namespaces \cup {NoNamespace}, metaNs : Namespaces \cup {NoNamespace},
                       content : {"valid", "invalid", "unencodable"}]
    /\ NoAsk \notin Asks

VARIABLES
    permitted,  \* what the API server grants
    pc,         \* where a call is
    ask,        \* what it was asked
    expired,    \* whether its context is over: the timeout, or its client gave up
    allowed,    \* history: the namespaces reviewed and allowed for the call
    reply       \* its answer

vars == <<makerVars, wire, permitted, pc, ask, expired, allowed, reply>>

Init ==
    /\ MakerInit
    /\ permitted \in PermissionSets
    /\ pc = [c \in Calls |-> "idle"]
    /\ ask = [c \in Calls |-> NoAsk]
    /\ expired = [c \in Calls |-> FALSE]
    /\ allowed = [c \in Calls |-> {}]
    /\ reply = [c \in Calls |-> "none"]

Disagree(a) == a.ns # NoNamespace /\ a.metaNs # NoNamespace /\ a.ns # a.metaNs

Answer(c, answer) ==
    /\ pc' = [pc EXCEPT ![c] = "done"]
    /\ reply' = [reply EXCEPT ![c] = answer]

Receive(c) ==
    /\ pc[c] = "idle"
    /\ \E a \in Asks : ask' = [ask EXCEPT ![c] = a]
    /\ pc' = [pc EXCEPT ![c] = "review"]
    /\ UNCHANGED <<makerVars, wire, permitted, expired, allowed, reply>>

\* The timeout passes, whatever the call is waiting for, or its client hangs up.
Expire(c) ==
    /\ pc[c] \in {"review", "read", "decode", "invoke"}
    /\ ~ expired[c]
    /\ expired' = [expired EXCEPT ![c] = TRUE]
    /\ UNCHANGED <<makerVars, wire, permitted, pc, ask, allowed, reply>>

ReviewAllowed(c) ==
    /\ pc[c] = "review"
    /\ ask[c].ns \in permitted
    /\ allowed' = [allowed EXCEPT ![c] = @ \cup {ask[c].ns}]
    /\ pc' = [pc EXCEPT ![c] = "read"]
    /\ UNCHANGED <<makerVars, wire, permitted, ask, expired, reply>>

ReviewDenied(c) ==
    /\ pc[c] = "review"
    /\ ask[c].ns \notin permitted
    /\ Answer(c, "Forbidden")
    /\ UNCHANGED <<makerVars, wire, permitted, ask, expired, allowed>>

\* The review fails, or is not answered in time.
ReviewFails(c) ==
    /\ pc[c] = "review"
    /\ Answer(c, "NotFound")
    /\ UNCHANGED <<makerVars, wire, permitted, ask, expired, allowed>>

\* The body is there.  The handler waits for it after its review, and nothing but
\* the client ends the wait: no deadline is on the connection, and the timeout is
\* not looked at.
BodyArrives(c) ==
    /\ pc[c] = "read"
    /\ pc' = [pc EXCEPT ![c] = "decode"]
    /\ UNCHANGED <<makerVars, wire, permitted, ask, expired, allowed, reply>>

\* The client ends the connection before its body is there.
BodyBreaks(c) ==
    /\ pc[c] = "read"
    /\ Answer(c, "BadRequest")
    /\ UNCHANGED <<makerVars, wire, permitted, ask, expired, allowed>>

\* 400: the body cannot be decoded, or names another namespace.
RefuseBody(c) ==
    /\ pc[c] = "decode"
    /\ ask[c].content = "invalid" \/ Disagree(ask[c])
    /\ Answer(c, "BadRequest")
    /\ UNCHANGED <<makerVars, wire, permitted, ask, expired, allowed>>

\* 502: the questions cannot be marshalled, and the sidecar is not asked.
MarshalFails(c) ==
    /\ pc[c] = "decode"
    /\ ask[c].content = "unencodable"
    /\ ~ Disagree(ask[c])
    /\ Answer(c, "BadGateway")
    /\ UNCHANGED <<makerVars, wire, permitted, ask, expired, allowed>>

\* Mutant: the namespace of the body is not compared with the request's.
InvokeAnyNamespace(c) ==
    /\ pc[c] = "decode"
    /\ ask[c].content = "valid"
    /\ ~ expired[c]
    /\ pc' = [pc EXCEPT ![c] = "invoke"]
    /\ wire' = [wire EXCEPT ![c] = "sent"]
    /\ UNCHANGED <<makerVars, permitted, ask, expired, allowed, reply>>

Invoke(c) ==
    /\ pc[c] = "decode"
    /\ ask[c].content = "valid"
    /\ ~ Disagree(ask[c])
    /\ ~ expired[c]
    /\ pc' = [pc EXCEPT ![c] = "invoke"]
    /\ wire' = [wire EXCEPT ![c] = "sent"]
    /\ UNCHANGED <<makerVars, permitted, ask, expired, allowed, reply>>

\* 502: the body took all of the time, and nothing is sent to the sidecar.
InvokeLate(c) ==
    /\ pc[c] = "decode"
    /\ ask[c].content = "valid"
    /\ ~ Disagree(ask[c])
    /\ expired[c]
    /\ Answer(c, "BadGateway")
    /\ UNCHANGED <<makerVars, wire, permitted, ask, expired, allowed>>

\* The sidecar answered with a status of 200 to 299 and at least one answer (even
\* if the time is over by now: the answer was there first).
ReplyCreated(c) ==
    /\ pc[c] = "invoke"
    /\ wire[c] = "answered"
    /\ Answer(c, "Created")
    /\ UNCHANGED <<makerVars, wire, permitted, ask, expired, allowed>>

\* The outcomes of a request that are errors for invokeDecisionMakerHTTP.
Failures == {"empty", "rejected", "refused", "broken", "killed"}

\* Mutant: the request to the sidecar is not bound to the context.
ReplyBadGatewayUntimed(c) ==
    /\ pc[c] = "invoke"
    /\ wire[c] \in Failures
    /\ Answer(c, "BadGateway")
    /\ UNCHANGED <<makerVars, wire, permitted, ask, expired, allowed>>

\* 502: the sidecar cannot be reached, rejects the request or answers nothing, or
\* the time is over (the sidecar may still be at it, or have answered just now).
ReplyBadGateway(c) ==
    /\ pc[c] = "invoke"
    /\ wire[c] \in Failures \/ expired[c]
    /\ Answer(c, "BadGateway")
    /\ UNCHANGED <<makerVars, wire, permitted, ask, expired, allowed>>

ChangePermissions ==
    /\ permitted' \in PermissionSets \ {permitted}
    /\ UNCHANGED <<makerVars, wire, pc, ask, expired, allowed, reply>>

\* What a call waits for from its client, with no limit.
Client(c) == BodyArrives(c) \/ BodyBreaks(c)

\* What the handler does with a body, waiting for nobody.
Local(c) == RefuseBody(c) \/ MarshalFails(c) \/ Invoke(c) \/ InvokeLate(c)

Handle(c) ==
    \/ ReviewAllowed(c) \/ ReviewDenied(c) \/ ReviewFails(c)
    \/ Local(c)
    \/ ReplyCreated(c) \/ ReplyBadGateway(c)

Next ==
    \/ \E c \in Calls : Receive(c) \/ Expire(c) \/ Client(c) \/ Handle(c)
    \/ ChangePermissions
    \/ MakerNext /\ UNCHANGED <<permitted, pc, ask, expired, allowed, reply>>

Spec == Init /\ [][Next]_vars

\* Once its time is over, a call waits no longer for the API server or the sidecar.
GiveUp(c) == expired[c] /\ (ReviewFails(c) \/ ReplyBadGateway(c))

\* Time passes, handlers look at it in their two calls, and work on what they have.
HandlerFairness ==
    \A c \in Calls : WF_vars(Expire(c)) /\ WF_vars(GiveUp(c)) /\ WF_vars(Local(c))

\* Nothing is assumed of clients, of the API server or of the sidecar: sending a body,
\* reviewing, loading, working and closing the model may take for ever.
FairSpec == Spec /\ HandlerFairness /\ KubeletFairness

\* The sidecar goes on, and nobody has to kill it.
MakerSpec == Spec /\ MakerFairness

-----------------------------------------------------------------------------
(* Properties. *)

\* Every variable holds a value of its kind, and a call under way has an ask.
TypeOK ==
    /\ MakerTypeOK
    /\ permitted \in PermissionSets
    /\ pc \in [Calls -> {"idle", "review", "read", "decode", "invoke", "done"}]
    /\ ask \in [Calls -> Asks \cup {NoAsk}]
    /\ expired \in [Calls -> BOOLEAN]
    /\ allowed \in [Calls -> SUBSET (Namespaces \cup {NoNamespace})]
    /\ reply \in [Calls -> {"none", "Forbidden", "NotFound", "BadRequest", "BadGateway", "Created"}]
    /\ \A c \in Calls : pc[c] # "idle" => ask[c] \in Asks

\* The sidecar works only for calls that were reviewed and allowed in the namespace
\* their body is for, and a call refused with 400, 403 or 404 never reaches it.
AskedIsAccepted ==
    \A c \in Calls :
        wire[c] # "none" =>
            /\ ask[c].content = "valid"
            /\ \E ns \in allowed[c] : ask[c].metaNs \in {ns, NoNamespace} \/ ns = NoNamespace
            /\ reply[c] \in {"none", "Created", "BadGateway"}

\* A good call fails with 502 only if its time was over, its request was not accepted,
\* or the sidecar died or was killed over it.  In particular a stop of the sidecar,
\* which is how every rollout of the deployment ends one, fails no call whose request
\* it has accepted.  Nothing is said of the laya provider, whose model may reject a
\* request, answer nothing, or end the process when it cannot be closed.
FailureIsExplained ==
    \A c \in Calls :
        reply[c] = "BadGateway" /\ ask[c].content = "valid" =>
            expired[c] \/ wire[c] \in {"refused", "killed"} \/ provider = "laya"

\* A call that arrived is answered, whatever becomes of the sidecar, unless its
\* client never finishes the body and never hangs up: then the handler, which has
\* no deadline for reading, waits for ever.
Answered ==
    \A c \in Calls : pc[c] = "review" ~> (pc[c] = "done" \/ [](pc[c] = "read"))
=============================================================================
