--------------------------- MODULE TransactionLog ---------------------------
(***************************************************************************)
(* What the transaction endpoint promises its clients, without saying how: *)
(* a write-once log of transactions.  A request demands a payload; the     *)
(* payload enters the log whole, under one key that was free, or the       *)
(* request never enters it.  The answer to a request agrees with its       *)
(* decision, except that the answer may be "Unknown", and may come before  *)
(* the decision then (a timeout), or never (a crash).                      *)
(***************************************************************************)
CONSTANTS Requests, Keys, Payloads

VARIABLES
    log,        \* what is stored: a function on the keys in use
    demand,     \* what a request asks to be stored: {} or one payload
    decision,   \* "open", "stored" or "refused"
    answer      \* "none", "Created", "Refused" or "Unknown"

vars == <<log, demand, decision, answer>>

Init ==
    /\ log = <<>>
    /\ demand = [r \in Requests |-> {}]
    /\ decision = [r \in Requests |-> "open"]
    /\ answer = [r \in Requests |-> "none"]

Demand(r, p) ==
    /\ demand[r] = {}
    /\ demand' = [demand EXCEPT ![r] = {p}]

Submit(r) ==
    /\ decision[r] = "open"
    /\ \E p \in Payloads : Demand(r, p)
    /\ UNCHANGED <<log, decision, answer>>

\* A request that is refused as it arrives, read or unread.
TurnAway(r) ==
    /\ decision[r] = "open"
    /\ demand[r] = {}
    /\ UNCHANGED demand \/ \E p \in Payloads : Demand(r, p)
    /\ decision' = [decision EXCEPT ![r] = "refused"]
    /\ answer' = [answer EXCEPT ![r] = "Refused"]
    /\ UNCHANGED log

Store(r) ==
    /\ decision[r] = "open"
    /\ \E k \in Keys \ DOMAIN log, p \in demand[r] :
          log' = [j \in DOMAIN log \cup {k} |->
                     IF j = k THEN [by |-> r, payload |-> p] ELSE log[j]]
    /\ decision' = [decision EXCEPT ![r] = "stored"]
    /\ UNCHANGED <<demand, answer>>

Refuse(r) ==
    /\ demand[r] # {}
    /\ decision[r] = "open"
    /\ decision' = [decision EXCEPT ![r] = "refused"]
    /\ UNCHANGED <<log, demand, answer>>

AnswerCreated(r) ==
    /\ answer[r] = "none"
    /\ decision[r] = "stored"
    /\ answer' = [answer EXCEPT ![r] = "Created"]
    /\ UNCHANGED <<log, demand, decision>>

AnswerRefused(r) ==
    /\ answer[r] = "none"
    /\ demand[r] # {}
    /\ decision[r] # "stored"
    /\ decision' = [decision EXCEPT ![r] = "refused"]
    /\ answer' = [answer EXCEPT ![r] = "Refused"]
    /\ UNCHANGED <<log, demand>>

AnswerUnknown(r) ==
    /\ answer[r] = "none"
    /\ demand[r] # {}
    /\ answer' = [answer EXCEPT ![r] = "Unknown"]
    /\ UNCHANGED <<log, demand, decision>>

Next ==
    \E r \in Requests :
        \/ Submit(r) \/ TurnAway(r) \/ Store(r) \/ Refuse(r)
        \/ AnswerCreated(r) \/ AnswerRefused(r) \/ AnswerUnknown(r)

Spec == Init /\ [][Next]_vars
=============================================================================
