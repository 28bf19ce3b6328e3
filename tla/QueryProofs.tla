----------------------------- MODULE QueryProofs -----------------------------
(***************************************************************************)
(* Proofs about Query, for every value of its constants: any number of     *)
(* concurrent calls and crashes, any requests and grants.                  *)
(***************************************************************************)
EXTENDS Query, TLAPS

\* Where a call is, what became of its put, and what it answered.
PhaseOK ==
    \A c \in Calls :
        /\ pc[c] \in {"idle", "review", "read", "parse"} => put[c] = "none"
        /\ pc[c] = "put" => put[c] # "none"
        /\ reply[c] # "none" => pc[c] = "done"
        /\ reply[c] \in {"Forbidden", "NotFound", "BadRequest"} => put[c] = "none"
        /\ reply[c] = "Created" => put[c] = "executed"
        /\ pc[c] \in {"read", "parse"} => request[c].ns \in allowed[c]
        /\ put[c] # "none" => request[c].valid /\ request[c].ns \in allowed[c]

\* etcd holds the last executed put of each key.
StoreOK ==
    /\ \A k \in DOMAIN store : put[store[k]] = "executed" /\ k = Key(request[store[k]])
    /\ \A c \in Calls :
          put[c] = "executed" =>
              /\ Key(request[c]) \in DOMAIN store
              /\ store[Key(request[c])] \in {c} \cup overwritten[c]

\* A call acknowledged earlier has had its put executed, and displaces nobody any more.
OrderOK ==
    \A c \in Calls :
        /\ \A d \in earlier[c] : put[d] = "executed"
        /\ overwritten[c] \cap earlier[c] = {}
        /\ pc[c] = "idle" => overwritten[c] = {}
        /\ overwritten[c] # {} => put[c] = "executed"

IInv == TypeOK /\ PhaseOK /\ StoreOK /\ OrderOK

LEMMA Initially == Init => IInv
BY QueryAssumption DEF Init, IInv, TypeOK, PhaseOK, StoreOK, OrderOK

LEMMA Step ==
    ASSUME IInv, [Next]_vars
    PROVE  IInv'
<1> USE DEF IInv
<1>0. \A q \in Requests : q.ns \in Namespaces
    BY QueryAssumption
<1>1. ASSUME NEW c \in Calls, Receive(c)
      PROVE  IInv'
    <2>1. TypeOK'
        BY <1>1 DEF Receive, TypeOK
    <2>2. PhaseOK' /\ StoreOK'
        BY <1>1 DEF Receive, TypeOK, PhaseOK, StoreOK
    <2>3. OrderOK'
        BY <1>1 DEF Receive, TypeOK, PhaseOK, OrderOK
    <2> QED
        BY <2>1, <2>2, <2>3
<1>2. ASSUME NEW c \in Calls, ReviewAllowed(c)
      PROVE  IInv'
    <2>1. TypeOK'
        BY <1>0, <1>2 DEF ReviewAllowed, TypeOK
    <2>2. PhaseOK'
        BY <1>2 DEF ReviewAllowed, TypeOK, PhaseOK
    <2>3. StoreOK' /\ OrderOK'
        BY <1>2 DEF ReviewAllowed, TypeOK, StoreOK, OrderOK
    <2> QED
        BY <2>1, <2>2, <2>3
<1>3. ASSUME NEW c \in Calls, ReviewDenied(c) \/ ReviewFails(c) \/ BodyBreaks(c) \/ RefuseBody(c)
      PROVE  IInv'
    <2>1. TypeOK'
        BY <1>3 DEF ReviewDenied, ReviewFails, BodyBreaks, RefuseBody, Answer, TypeOK
    <2>2. PhaseOK'
        BY <1>3 DEF ReviewDenied, ReviewFails, BodyBreaks, RefuseBody, Answer, TypeOK, PhaseOK
    <2>3. StoreOK' /\ OrderOK'
        BY <1>3 DEF ReviewDenied, ReviewFails, BodyBreaks, RefuseBody, Answer, TypeOK, StoreOK, OrderOK
    <2> QED
        BY <2>1, <2>2, <2>3
<1>4. ASSUME NEW c \in Calls, Send(c)
      PROVE  IInv'
    <2>1. TypeOK'
        BY <1>4 DEF Send, TypeOK
    <2>2. PhaseOK'
        BY <1>4 DEF Send, TypeOK, PhaseOK
    <2>3. StoreOK' /\ OrderOK'
        BY <1>4 DEF Send, TypeOK, PhaseOK, StoreOK, OrderOK
    <2> QED
        BY <2>1, <2>2, <2>3
<1>5. ASSUME NEW c \in Calls, EtcdPut(c)
      PROVE  IInv'
    <2>1. TypeOK'
        BY <1>5 DEF EtcdPut, TypeOK
    <2>2. PhaseOK'
        BY <1>5 DEF EtcdPut, TypeOK, PhaseOK
    <2>3. StoreOK'
        BY <1>5 DEF EtcdPut, TypeOK, StoreOK
    <2>4. OrderOK'
        BY <1>5 DEF EtcdPut, TypeOK, PhaseOK, OrderOK
    <2> QED
        BY <2>1, <2>2, <2>3, <2>4
<1>6. ASSUME NEW c \in Calls, EtcdFail(c)
      PROVE  IInv'
    <2>1. TypeOK'
        BY <1>6 DEF EtcdFail, TypeOK
    <2>2. PhaseOK'
        BY <1>6 DEF EtcdFail, TypeOK, PhaseOK
    <2>3. StoreOK' /\ OrderOK'
        BY <1>6 DEF EtcdFail, TypeOK, StoreOK, OrderOK
    <2> QED
        BY <2>1, <2>2, <2>3
<1>7. ASSUME NEW c \in Calls, ReplyCreated(c) \/ ReplyError(c)
      PROVE  IInv'
    <2>1. TypeOK'
        BY <1>7 DEF ReplyCreated, ReplyError, Answer, TypeOK
    <2>2. PhaseOK'
        BY <1>7 DEF ReplyCreated, ReplyError, Answer, TypeOK, PhaseOK
    <2>3. StoreOK' /\ OrderOK'
        BY <1>7 DEF ReplyCreated, ReplyError, Answer, TypeOK, StoreOK, OrderOK
    <2> QED
        BY <2>1, <2>2, <2>3
<1>8. ASSUME NEW c \in Calls, BodyArrives(c)
      PROVE  IInv'
    <2>1. TypeOK'
        BY <1>8 DEF BodyArrives, TypeOK
    <2>2. PhaseOK'
        BY <1>8 DEF BodyArrives, TypeOK, PhaseOK
    <2>3. StoreOK' /\ OrderOK'
        BY <1>8 DEF BodyArrives, TypeOK, StoreOK, OrderOK
    <2> QED
        BY <2>1, <2>2, <2>3
<1>9. CASE ChangePermissions
    BY <1>9 DEF ChangePermissions, TypeOK, PhaseOK, StoreOK, OrderOK
<1>10. CASE Crash
    <2>1. TypeOK'
        BY <1>10, QueryAssumption DEF Crash, TypeOK
    <2>2. PhaseOK'
        BY <1>10 DEF Crash, TypeOK, PhaseOK
    <2>3. StoreOK' /\ OrderOK'
        BY <1>10 DEF Crash, TypeOK, StoreOK, OrderOK
    <2> QED
        BY <2>1, <2>2, <2>3
<1>11. CASE UNCHANGED vars
    BY <1>11 DEF vars, TypeOK, PhaseOK, StoreOK, OrderOK
<1> QED
    BY <1>1, <1>2, <1>3, <1>4, <1>5, <1>6, <1>7, <1>8, <1>9, <1>10, <1>11 DEF Next, Handle, Client

THEOREM Invariance == Spec => []IInv
<1>1. Init => IInv
    BY Initially
<1>2. IInv /\ [Next]_vars => IInv'
    BY Step
<1> QED
    BY <1>1, <1>2, PTL DEF Spec

\* Type correctness, for any number of calls.
THEOREM Typing == Spec => []TypeOK
<1>1. IInv => TypeOK
    BY DEF IInv
<1> QED
    BY <1>1, Invariance, PTL

\* A query answered with 201 is what etcd holds under its key, or the put of
\* another call for the key came after it.
THEOREM Acknowledged == Spec => []AckedIsStored
<1>1. IInv => AckedIsStored
    BY DEF IInv, PhaseOK, StoreOK, AckedIsStored
<1> QED
    BY <1>1, Invariance, PTL

\* Whatever is stored is valid and was reviewed and allowed in its namespace.
THEOREM Reviewed == Spec => []StoredIsReviewed
<1>1. IInv => StoredIsReviewed
    BY DEF IInv, TypeOK, PhaseOK, StoreOK, StoredIsReviewed
<1> QED
    BY <1>1, Invariance, PTL

\* A refused call, or one lost before its put, never stores anything.
THEOREM Refused == Spec => []RefusedNeverStored
<1>1. IInv => RefusedNeverStored
    BY DEF IInv, TypeOK, PhaseOK, StoreOK, RefusedNeverStored
<1> QED
    BY <1>1, Invariance, PTL

\* An acknowledged query never comes back over one that was created after it.
THEOREM Ordered == Spec => []InOrder
<1>1. IInv => InOrder
    BY DEF IInv, OrderOK, InOrder
<1> QED
    BY <1>1, Invariance, PTL
=============================================================================
