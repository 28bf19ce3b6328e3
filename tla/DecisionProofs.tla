---------------------------- MODULE DecisionProofs ----------------------------
(***************************************************************************)
(* What Decision guarantees for any number of calls, any requests and any  *)
(* providers.                                                              *)
(*                                                                         *)
(* The invariant has a part for the calls and one for the sidecar.  CallOK *)
(* says how the progress of a call, its review, its request to the sidecar *)
(* and its answer go together; a request outlives its call, so this must   *)
(* hold of calls that are done as well.  ModelOK ties what the sidecar     *)
(* serves to its process and its model, across stops and restarts, and     *)
(* says which outcomes of a request only a model brings about.             *)
(***************************************************************************)
EXTENDS Decision, TLAPS

Accepted(c) ==
    /\ pc[c] \in {"invoke", "done"}
    /\ ask[c].content = "valid"
    /\ ~ Disagree(ask[c])
    /\ ask[c].ns \in allowed[c]
    /\ reply[c] \in {"none", "Created", "BadGateway"}

CallOK(c) ==
    /\ pc[c] \in {"read", "decode"} => ask[c].ns \in allowed[c]
    /\ pc[c] \in {"idle", "review", "read", "decode"} => wire[c] = "none" /\ reply[c] = "none"
    /\ pc[c] = "invoke" => wire[c] # "none" /\ reply[c] = "none"
    /\ wire[c] # "none" => Accepted(c)
    /\ reply[c] = "BadGateway" /\ ask[c].content = "valid" => expired[c] \/ wire[c] \in Failures

ModelOK ==
    /\ process = "starting" => model = "none"
    /\ process \in {"starting", "exited"} => \A c \in Calls : wire[c] \notin Served
    /\ provider = "laya" /\ layaReady => model \in {"loaded", "closed"}
    /\ provider # "laya" => model = "none" /\ stop # "closing"
    /\ \A c \in Calls : wire[c] \in {"empty", "rejected", "broken"} => provider = "laya"

IInv ==
    /\ TypeOK
    /\ \A c \in Calls : CallOK(c)
    /\ ModelOK
    /\ WorksOnModel

\* What a step of the endpoint that does not touch the sidecar leaves alone.
Endpoint == UNCHANGED <<makerVars, wire>>

\* A step of the sidecar.
Sidecar == UNCHANGED <<permitted, pc, ask, expired, allowed, reply>>

LEMMA AskType == ASSUME NEW a \in Asks
                 PROVE  /\ a.ns \in Namespaces \cup {NoNamespace}
                        /\ a.metaNs \in Namespaces \cup {NoNamespace}
                        /\ a \in [ns : Namespaces \cup {NoNamespace},
                                  metaNs : Namespaces \cup {NoNamespace},
                                  content : {"valid", "invalid", "unencodable"}]
BY DecisionAssumption DEF DecisionAssumption

\* The initial states satisfy the invariant.
LEMMA InitInvariant == Init => IInv
<1> SUFFICES ASSUME Init PROVE IInv OBVIOUS
<1> USE DEF Init, MakerInit
<1>1. TypeOK
  BY DEF TypeOK, MakerTypeOK
<1>2. \A c \in Calls : CallOK(c)
  BY DEF CallOK
<1>3. ModelOK /\ WorksOnModel
  BY DEF ModelOK, WorksOnModel, Served
<1> QED BY <1>1, <1>2, <1>3 DEF IInv

\* What is said of the model is not touched by a step of the endpoint.
LEMMA ModelFrame == ModelOK /\ WorksOnModel /\ Endpoint => (ModelOK /\ WorksOnModel)'
BY DEF ModelOK, WorksOnModel, Endpoint, makerVars, Served

\* A request that only moves on within the sidecar stays an accepted one, and one that
\* failed stays failed.
LEMMA CallFrame ==
    ASSUME NEW c \in Calls, CallOK(c), Sidecar,
           wire'[c] # "none" <=> wire[c] # "none",
           wire[c] \in Failures => wire'[c] \in Failures
    PROVE  CallOK(c)'
BY DEF CallOK, Accepted, Sidecar

(***************************************************************************)
(* Steps of the sidecar.                                                   *)
(***************************************************************************)

\* The end of the process breaks what it served, and nothing else.
LEMMA GoneKeepsCalls ==
    ASSUME NEW outcome \in {"broken", "killed"},
           MakerTypeOK, \A c \in Calls : CallOK(c), Sidecar, Gone(outcome)
    PROVE  /\ \A c \in Calls : CallOK(c)'
           /\ \A c \in Calls : wire'[c] \notin Served /\ wire'[c] \in {wire[c], outcome}
           /\ wire' \in [Calls -> {"none", "sent", "reading", "working", "answered", "empty",
                                  "rejected", "refused", "broken", "killed"}]
<1>1. ASSUME NEW c \in Calls
      PROVE  /\ wire'[c] # "none" <=> wire[c] # "none"
             /\ wire[c] \in Failures => wire'[c] \in Failures
             /\ wire'[c] \notin Served /\ wire'[c] \in {wire[c], outcome}
  BY <1>1 DEF Gone, Served, Failures, MakerTypeOK
<1>2. \A c \in Calls : CallOK(c)'
  BY <1>1, CallFrame
<1> QED BY <1>1, <1>2 DEF Gone, Served, MakerTypeOK

\* Every way the process ends keeps the invariant.
LEMMA GoneKeepsInvariant ==
    ASSUME NEW outcome \in {"broken", "killed"}, outcome = "broken" => provider = "laya",
           IInv, Sidecar, Gone(outcome), UNCHANGED <<provider, model, layaReady, layaInitError, stop>>
    PROVE  IInv'
<1>1. /\ \A c \in Calls : CallOK(c)'
      /\ \A c \in Calls : wire'[c] \notin Served /\ wire'[c] \in {wire[c], outcome}
      /\ wire' \in [Calls -> {"none", "sent", "reading", "working", "answered", "empty",
                             "rejected", "refused", "broken", "killed"}]
  BY GoneKeepsCalls DEF IInv, TypeOK
<1>2. process' = "exited"
  BY DEF Gone
<1>3. TypeOK'
  BY <1>1, <1>2 DEF IInv, TypeOK, MakerTypeOK, Sidecar
<1>4. ModelOK'
  BY <1>1, <1>2 DEF IInv, ModelOK
<1>5. WorksOnModel'
  BY <1>1 DEF WorksOnModel, Served
<1> QED BY <1>1, <1>3, <1>4, <1>5 DEF IInv

\* A step that changes the process or its model, but no request.
LEMMA ProcessStep ==
    ASSUME IInv, Sidecar, UNCHANGED wire,
           \/ Listen \/ LoadSucceeds \/ LoadFails \/ Shutdown \/ CloseModel
           \/ ModelClosed \/ Drained \/ Restart
    PROVE  IInv'
<1>1. \A c \in Calls : CallOK(c)'
  BY CallFrame DEF IInv
<1>2. TypeOK'
  BY ProvidersAssumption DEF IInv, TypeOK, MakerTypeOK, Sidecar, Listen, LoadSucceeds, LoadFails,
     Shutdown, CloseModel, ModelClosed, Drained, Restart, Fresh
<1>3. ModelOK' /\ WorksOnModel'
  <2> USE DEF IInv, TypeOK, MakerTypeOK, ModelOK, WorksOnModel, Served
  <2>1. CASE Listen BY <2>1 DEF Listen
  <2>2. CASE LoadSucceeds BY <2>2 DEF LoadSucceeds
  <2>3. CASE LoadFails BY <2>3 DEF LoadFails
  <2>4. CASE Shutdown BY <2>4 DEF Shutdown
  <2>5. CASE CloseModel BY <2>5 DEF CloseModel
  <2>6. CASE ModelClosed BY <2>6 DEF ModelClosed
  <2>7. CASE Drained BY <2>7 DEF Drained
  <2>8. CASE Restart BY <2>8 DEF Restart, Fresh
  <2> QED BY <2>1, <2>2, <2>3, <2>4, <2>5, <2>6, <2>7, <2>8
<1> QED BY <1>1, <1>2, <1>3 DEF IInv

\* A step of one request within the sidecar.
LEMMA RequestStep ==
    ASSUME IInv, Sidecar, NEW c \in Calls,
           Accept(c) \/ RefuseConnection(c) \/ RejectUnready(c) \/ Work(c) \/ Finish(c)
    PROVE  IInv'
<1>1. PICK w \in {"reading", "working", "answered", "empty", "rejected", "refused"} :
          wire' = [wire EXCEPT ![c] = w]
  BY DEF Accept, RefuseConnection, RejectUnready, Work, Finish
<1>2. wire[c] \in {"sent", "reading", "working"} /\ UNCHANGED makerVars
  BY DEF Accept, RefuseConnection, RejectUnready, Work, Finish
<1>3. ASSUME NEW d \in Calls PROVE CallOK(d)'
  <2>1. /\ wire'[d] # "none" <=> wire[d] # "none"
        /\ wire[d] \in Failures => wire'[d] \in Failures
    BY <1>1, <1>2 DEF IInv, TypeOK, MakerTypeOK, Failures
  <2> QED BY <2>1, CallFrame DEF IInv
<1>4. TypeOK'
  BY <1>1, <1>2 DEF IInv, TypeOK, MakerTypeOK, makerVars, Sidecar
<1>5. w \in Served => process \in {"serving", "draining"}
  BY <1>1 DEF IInv, TypeOK, MakerTypeOK, Accept, RefuseConnection, RejectUnready, Work, Finish, Served
<1>6. w = "working" => (provider = "laya" => layaReady)
  BY <1>1 DEF IInv, TypeOK, MakerTypeOK, Accept, RefuseConnection, RejectUnready, Work, Finish
<1>6a. w \in {"empty", "rejected"} => provider = "laya"
  BY <1>1 DEF IInv, TypeOK, MakerTypeOK, Accept, RefuseConnection, RejectUnready, Work, Finish
<1>7. ModelOK'
  BY <1>1, <1>2, <1>5, <1>6a DEF IInv, TypeOK, MakerTypeOK, ModelOK, makerVars
<1>8. WorksOnModel'
  BY <1>1, <1>2, <1>6 DEF IInv, TypeOK, MakerTypeOK, ModelOK, WorksOnModel, makerVars
<1> QED BY <1>3, <1>4, <1>7, <1>8 DEF IInv

LEMMA SidecarStep == ASSUME IInv, MakerNext, Sidecar PROVE IInv'
<1>0. CASE ShutdownThrows
  <2>1. provider = "laya"
    BY <1>0 DEF IInv, ModelOK, ShutdownThrows
  <2> QED BY <1>0, <2>1, GoneKeepsInvariant DEF ShutdownThrows
<1>1. CASE Die \/ Kill
  BY <1>1, GoneKeepsInvariant DEF Die, Kill
<1>2. CASE \/ Listen \/ LoadSucceeds \/ LoadFails \/ Shutdown \/ CloseModel
           \/ ModelClosed \/ Drained \/ Restart
  BY <1>2, ProcessStep DEF Listen, LoadSucceeds, LoadFails, Shutdown, CloseModel, ModelClosed,
     Drained, Restart
<1>3. CASE ServeSome \/ \E c \in Calls : Accept(c) \/ RefuseConnection(c)
  BY <1>3, RequestStep DEF ServeSome
<1> QED BY <1>0, <1>1, <1>2, <1>3 DEF MakerNext

(***************************************************************************)
(* Steps of the endpoint.                                                  *)
(***************************************************************************)

CallNext(c) == Receive(c) \/ Expire(c) \/ Client(c) \/ Handle(c)

\* A step of one call leaves the others alone.
LEMMA OtherCalls ==
    ASSUME IInv, NEW c \in Calls, CallNext(c), NEW d \in Calls \ {c}
    PROVE  CallOK(d)'
<1>1. /\ pc'[d] = pc[d] /\ ask'[d] = ask[d] /\ allowed'[d] = allowed[d]
      /\ reply'[d] = reply[d] /\ wire'[d] = wire[d] /\ expired'[d] = expired[d]
  BY DEF IInv, TypeOK, MakerTypeOK, CallNext, Handle, Client, Local, Receive, Expire, ReviewAllowed,
     ReviewDenied, ReviewFails, BodyArrives, BodyBreaks, RefuseBody, MarshalFails, Invoke,
     InvokeLate, ReplyCreated, ReplyBadGateway, Answer
<1>2. CallOK(d)
  BY DEF IInv
<1> QED BY <1>1, <1>2 DEF CallOK, Accepted

LEMMA CallTypes == ASSUME IInv, NEW c \in Calls, CallNext(c) PROVE TypeOK'
<1> USE DEF IInv, TypeOK, MakerTypeOK
<1>1. CASE Receive(c) BY <1>1 DEF Receive, makerVars
<1>2. CASE ReviewAllowed(c) BY <1>2, AskType DEF ReviewAllowed, makerVars
<1>3. CASE ReviewDenied(c) BY <1>3 DEF ReviewDenied, Answer, makerVars
<1>4. CASE ReviewFails(c) BY <1>4 DEF ReviewFails, Answer, makerVars
<1>5. CASE RefuseBody(c) BY <1>5 DEF RefuseBody, Answer, makerVars
<1>6. CASE MarshalFails(c) BY <1>6 DEF MarshalFails, Answer, makerVars
<1>7. CASE Invoke(c) BY <1>7 DEF Invoke, makerVars
<1>8. CASE ReplyCreated(c) BY <1>8 DEF ReplyCreated, Answer, makerVars
<1>9. CASE ReplyBadGateway(c) BY <1>9 DEF ReplyBadGateway, Answer, makerVars
<1>10. CASE Expire(c) BY <1>10 DEF Expire, makerVars
<1>11. CASE BodyArrives(c) BY <1>11 DEF BodyArrives, makerVars
<1>12. CASE BodyBreaks(c) BY <1>12 DEF BodyBreaks, Answer, makerVars
<1>13. CASE InvokeLate(c) BY <1>13 DEF InvokeLate, Answer, makerVars
<1> QED BY <1>1, <1>2, <1>3, <1>4, <1>5, <1>6, <1>7, <1>8, <1>9, <1>10, <1>11, <1>12, <1>13
    DEF CallNext, Handle, Client, Local

LEMMA OwnCall == ASSUME IInv, NEW c \in Calls, CallNext(c) PROVE CallOK(c)'
<1>0. CallOK(c)
  BY DEF IInv
<1> USE <1>0 DEF IInv, TypeOK, MakerTypeOK, CallOK, Accepted
<1>1. CASE Receive(c) BY <1>1 DEF Receive
<1>2. CASE ReviewAllowed(c) BY <1>2 DEF ReviewAllowed
<1>3. CASE ReviewDenied(c) BY <1>3 DEF ReviewDenied, Answer
<1>4. CASE ReviewFails(c) BY <1>4 DEF ReviewFails, Answer
<1>5. CASE RefuseBody(c) BY <1>5 DEF RefuseBody, Answer
<1>6. CASE MarshalFails(c) BY <1>6 DEF MarshalFails, Answer
<1>7. CASE Invoke(c) BY <1>7 DEF Invoke, Disagree
<1>8. CASE ReplyCreated(c) BY <1>8 DEF ReplyCreated, Answer, Disagree
<1>9. CASE ReplyBadGateway(c) BY <1>9 DEF ReplyBadGateway, Answer, Disagree
<1>10. CASE Expire(c) BY <1>10 DEF Expire, Disagree
<1>11. CASE BodyArrives(c) BY <1>11 DEF BodyArrives
<1>12. CASE BodyBreaks(c) BY <1>12 DEF BodyBreaks, Answer
<1>13. CASE InvokeLate(c) BY <1>13 DEF InvokeLate, Answer
<1> QED BY <1>1, <1>2, <1>3, <1>4, <1>5, <1>6, <1>7, <1>8, <1>9, <1>10, <1>11, <1>12, <1>13
    DEF CallNext, Handle, Client, Local

LEMMA CallStep == ASSUME IInv, NEW c \in Calls, CallNext(c) PROVE IInv'
<1>1. \A d \in Calls : CallOK(d)'
  BY OtherCalls, OwnCall
<1>2. ModelOK' /\ WorksOnModel'
  <2>1. CASE Invoke(c)
    BY <2>1 DEF Invoke, IInv, TypeOK, MakerTypeOK, ModelOK, WorksOnModel, makerVars, Served
  <2>2. CASE Endpoint
    BY <2>2, ModelFrame DEF IInv
  <2> QED BY <2>1, <2>2 DEF CallNext, Handle, Client, Local, Receive, Expire, ReviewAllowed,
      ReviewDenied, ReviewFails, BodyArrives, BodyBreaks, RefuseBody, MarshalFails, InvokeLate,
      ReplyCreated, ReplyBadGateway, Endpoint
<1> QED BY <1>1, <1>2, CallTypes DEF IInv

\* Every step preserves the invariant.
LEMMA NextInvariant == IInv /\ [Next]_vars => IInv'
<1> SUFFICES ASSUME IInv, [Next]_vars PROVE IInv' OBVIOUS
<1>1. CASE \E c \in Calls : CallNext(c)
  BY <1>1, CallStep
<1>2. CASE ChangePermissions
  <2>1. TypeOK'
    BY <1>2 DEF ChangePermissions, IInv, TypeOK, MakerTypeOK, makerVars
  <2>2. \A c \in Calls : CallOK(c)'
    BY <1>2 DEF ChangePermissions, IInv, CallOK, Accepted
  <2> QED BY <1>2, <2>1, <2>2, ModelFrame DEF ChangePermissions, IInv, Endpoint
<1>3. CASE MakerNext /\ UNCHANGED <<permitted, pc, ask, expired, allowed, reply>>
  BY <1>3, SidecarStep DEF Sidecar
<1>4. CASE UNCHANGED vars
  <2>1. TypeOK'
    BY <1>4 DEF vars, IInv, TypeOK, MakerTypeOK, makerVars
  <2>2. \A c \in Calls : CallOK(c)'
    BY <1>4 DEF vars, IInv, CallOK, Accepted
  <2> QED BY <1>4, <2>1, <2>2, ModelFrame DEF vars, IInv, Endpoint
<1> QED BY <1>1, <1>2, <1>3, <1>4 DEF Next, CallNext

\* The invariant holds in every reachable state.
THEOREM Invariance == Spec => []IInv
BY InitInvariant, NextInvariant, PTL DEF Spec

\* Type correctness, for any number of calls.
THEOREM Typing == Spec => []TypeOK
<1>1. IInv => TypeOK
  BY DEF IInv
<1> QED
  BY <1>1, Invariance, PTL

\* The sidecar works only for calls that were reviewed and allowed in the namespace
\* their body is for, and never for one refused with 400, 403 or 404.
THEOREM Accepting == Spec => []AskedIsAccepted
<1>1. IInv => AskedIsAccepted
  <2> SUFFICES ASSUME IInv, NEW c \in Calls, wire[c] # "none"
               PROVE  /\ ask[c].content = "valid"
                      /\ \E ns \in allowed[c] : ask[c].metaNs \in {ns, NoNamespace} \/ ns = NoNamespace
                      /\ reply[c] \in {"none", "Created", "BadGateway"}
    BY DEF AskedIsAccepted
  <2>1. Accepted(c)
    BY DEF IInv, CallOK
  <2> QED BY <2>1 DEF Accepted, Disagree
<1> QED BY <1>1, Invariance, PTL

\* A good call fails with 502 only if its time was over, its request was not accepted,
\* or the sidecar died or was killed over it, unless the provider is laya: no graceful
\* stop, at whatever moment, fails a request that was accepted.
THEOREM Explaining == Spec => []FailureIsExplained
<1>1. IInv => FailureIsExplained
  BY DEF IInv, CallOK, ModelOK, Failures, FailureIsExplained
<1> QED BY <1>1, Invariance, PTL

\* A request works only on a model that was loaded, across stops and restarts.
THEOREM Working == Spec => []WorksOnModel
<1>1. IInv => WorksOnModel
  BY DEF IInv
<1> QED BY <1>1, Invariance, PTL
=============================================================================
