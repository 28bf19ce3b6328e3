---------------------------- MODULE DecisionMaker ----------------------------
(***************************************************************************)
(* The decision-maker sidecar (server.mjs in                               *)
(* config/config/decision-maker.yaml) and what the kubelet does with it: a *)
(* single-threaded server that loads the laya model in the background,     *)
(* reports its health, answers requests, and closes the model and drains   *)
(* its connections when it is told to stop.                                *)
(*                                                                         *)
(* A step is what the event loop does between two waits.  With the mock    *)
(* provider there is no model.                                             *)
(***************************************************************************)
CONSTANTS
    Calls,     \* calls of the decision endpoint, each with at most one request here
    Providers  \* configured providers: "mock", "laya"

ASSUME ProvidersAssumption == Providers \subseteq {"mock", "laya"}

VARIABLES
    provider,
    process,        \* "starting", "serving", "draining" or "exited"
    model,          \* layaInstancePromise: "none", "loading", "loaded", "failed";
                    \* "closed" once close() was called
    layaReady,
    layaInitError,
    stop,           \* the shutdown handler: "none", "waiting" for the model, "closing" it
    wire            \* the request of a call, from "sent" to its outcome

makerVars == <<provider, process, model, layaReady, layaInitError, stop>>

Fresh ==
    /\ process' = "starting"
    /\ model' = "none"
    /\ layaReady' = (provider # "laya")
    /\ layaInitError' = FALSE
    /\ stop' = "none"

MakerInit ==
    /\ provider \in Providers
    /\ process = "starting"
    /\ model = "none"
    /\ layaReady = (provider # "laya")
    /\ layaInitError = FALSE
    /\ stop = "none"
    /\ wire = [c \in Calls |-> "none"]

-----------------------------------------------------------------------------
(* The model. *)

\* Mutant: ready is set without waiting for the model.
ListenReady ==
    /\ process = "starting"
    /\ process' = "serving"
    /\ model' = IF provider = "laya" THEN "loading" ELSE model
    /\ layaReady' = TRUE
    /\ UNCHANGED <<provider, layaInitError, stop, wire>>

\* The callback of listen: connections are accepted from here on.
Listen ==
    /\ process = "starting"
    /\ process' = "serving"
    /\ model' = IF provider = "laya" THEN "loading" ELSE model
    /\ UNCHANGED <<provider, layaReady, layaInitError, stop, wire>>

LoadSucceeds ==
    /\ process = "serving"
    /\ model = "loading"
    /\ model' = "loaded"
    /\ layaReady' = TRUE
    /\ UNCHANGED <<provider, process, layaInitError, stop, wire>>

\* The rejected promise is kept: nothing loads the model again.
LoadFails ==
    /\ process = "serving"
    /\ model = "loading"
    /\ model' = "failed"
    /\ layaInitError' = TRUE
    /\ UNCHANGED <<provider, process, layaReady, stop, wire>>

\* Mutant: only a model that is still loading is reported.
HealthyOnceSettled == process = "serving" /\ (provider = "laya" => layaReady \/ layaInitError)

\* GET /healthz is answered with 200.
Healthy == process = "serving" /\ (provider = "laya" => layaReady)

-----------------------------------------------------------------------------
(* POST /system-one. *)

Accept(c) ==
    /\ wire[c] = "sent"
    /\ process = "serving"
    /\ wire' = [wire EXCEPT ![c] = "reading"]
    /\ UNCHANGED makerVars

\* Nobody listens, or the connection kept from an earlier request is closed by the
\* sidecar just as this one is sent on it.
RefuseConnection(c) ==
    /\ wire[c] = "sent"
    /\ wire' = [wire EXCEPT ![c] = "refused"]
    /\ UNCHANGED makerVars

\* The body is there.  400 while the model is loading, and for good if that failed.
RejectUnready(c) ==
    /\ wire[c] = "reading"
    /\ process \in {"serving", "draining"}
    /\ provider = "laya"
    /\ layaInitError \/ ~ layaReady
    /\ wire' = [wire EXCEPT ![c] = "rejected"]
    /\ UNCHANGED makerVars

Work(c) ==
    /\ wire[c] = "reading"
    /\ process \in {"serving", "draining"}
    /\ provider = "laya" => layaReady /\ ~ layaInitError
    /\ wire' = [wire EXCEPT ![c] = "working"]
    /\ UNCHANGED makerVars

\* The mock answers every question the endpoint accepts (one called "__proto__" is
\* left out: its answer is lost); the model may also throw (400) or answer nothing.
Finish(c) ==
    /\ wire[c] = "working"
    /\ process \in {"serving", "draining"}
    /\ \E outcome \in IF provider = "laya" THEN {"answered", "empty", "rejected"}
                                           ELSE {"answered"} :
          wire' = [wire EXCEPT ![c] = outcome]
    /\ UNCHANGED makerVars

Served == {"reading", "working"}

\* The process is gone, by itself ("broken") or by force ("killed"), and with it
\* what it was serving.
Gone(outcome) ==
    /\ process' = "exited"
    /\ wire' = [c \in Calls |-> IF wire[c] \in Served THEN outcome ELSE wire[c]]

-----------------------------------------------------------------------------
(* The end of the process. *)

\* SIGTERM.  Without a promise there is nothing to wait for.
Shutdown ==
    /\ process \in {"starting", "serving"}
    /\ stop = "none"
    /\ stop' = "waiting"
    /\ process' = IF model = "none" THEN "draining" ELSE process
    /\ UNCHANGED <<provider, model, layaReady, layaInitError, wire>>

\* The model is closed before the server stops to accept requests.
CloseModel ==
    /\ process = "serving"
    /\ stop = "waiting"
    /\ model = "loaded"
    /\ model' = "closed"
    /\ stop' = "closing"
    /\ UNCHANGED <<provider, process, layaReady, layaInitError, wire>>

ModelClosed ==
    /\ process = "serving"
    /\ stop = "closing"
    /\ process' = "draining"
    /\ UNCHANGED <<provider, model, layaReady, layaInitError, stop, wire>>

\* Mutant: the handler waits for a model that will never be there.
ThrowsClosing ==
    /\ process = "serving"
    /\ stop = "closing"
    /\ Gone("broken")
    /\ UNCHANGED <<provider, model, layaReady, layaInitError, stop>>

\* A model that failed to load, or to close, rejects the handler's promise; nobody
\* handles that, which ends the process at once.
ShutdownThrows ==
    /\ process = "serving"
    /\ \/ stop = "waiting" /\ model = "failed"
       \/ stop = "closing"
    /\ Gone("broken")
    /\ UNCHANGED <<provider, model, layaReady, layaInitError, stop>>

\* Mutant: the process exits without waiting for server.close.
DrainedAtOnce ==
    /\ process = "draining"
    /\ Gone("broken")
    /\ UNCHANGED <<provider, model, layaReady, layaInitError, stop>>

\* server.close has no connection to wait for any more.
Drained ==
    /\ process = "draining"
    /\ \A c \in Calls : wire[c] \notin Served
    /\ process' = "exited"
    /\ UNCHANGED <<provider, model, layaReady, layaInitError, stop, wire>>

\* The kubelet stops a container that is not healthy, and one it does not need.
ProbeFails == ~ Healthy /\ Shutdown

\* The grace period is over.
Kill ==
    /\ process # "exited"
    /\ stop # "none"
    /\ Gone("killed")
    /\ UNCHANGED <<provider, model, layaReady, layaInitError, stop>>

\* The process dies by itself (out of memory, say).
Die ==
    /\ process # "exited"
    /\ Gone("killed")
    /\ UNCHANGED <<provider, model, layaReady, layaInitError, stop>>

Restart ==
    /\ process = "exited"
    /\ Fresh
    /\ UNCHANGED <<provider, wire>>

ServeSome == \E c \in Calls : RejectUnready(c) \/ Work(c) \/ Finish(c)

MakerNext ==
    \/ Listen \/ LoadSucceeds \/ LoadFails
    \/ Shutdown \/ CloseModel \/ ModelClosed \/ ShutdownThrows \/ Drained
    \/ Die \/ Kill \/ Restart
    \/ \E c \in Calls : Accept(c) \/ RefuseConnection(c)
    \/ ServeSome

\* The kubelet goes on probing, kills what does not stop within its grace period
\* and restarts what ended.
KubeletFairness ==
    /\ WF_<<makerVars, wire>>(ProbeFails)
    /\ WF_<<makerVars, wire>>(Kill)
    /\ WF_<<makerVars, wire>>(Restart)

\* The model settles: it is loaded or not, closed or not, and it answers.
MakerFairness ==
    /\ WF_<<makerVars, wire>>(LoadSucceeds \/ LoadFails)
    /\ WF_<<makerVars, wire>>(CloseModel)
    /\ WF_<<makerVars, wire>>(ModelClosed \/ ShutdownThrows)
    /\ WF_<<makerVars, wire>>(ServeSome)
    /\ WF_<<makerVars, wire>>(Drained)

-----------------------------------------------------------------------------
(* Properties. *)

MakerTypeOK ==
    /\ provider \in Providers
    /\ process \in {"starting", "serving", "draining", "exited"}
    /\ model \in {"none", "loading", "loaded", "failed", "closed"}
    /\ layaReady \in BOOLEAN
    /\ layaInitError \in BOOLEAN
    /\ stop \in {"none", "waiting", "closing"}
    /\ wire \in [Calls -> {"none", "sent", "reading", "working", "answered", "empty",
                           "rejected", "refused", "broken", "killed"}]

\* Nothing is decided by a model that is not there: a request works only on a model
\* that was loaded (which shutdown may have closed meanwhile).
WorksOnModel ==
    provider = "laya" =>
        \A c \in Calls : wire[c] = "working" => model \in {"loaded", "closed"}

\* A model that failed to load is noticed: /healthz reports it until the kubelet
\* has replaced the process.
FailureIsReplaced == layaInitError ~> ~ layaInitError

\* A process that is told to stop does so by itself, whether its model is loading,
\* loaded, failed or closing, and whatever it still has to answer.
Stops == stop # "none" ~> process = "exited"
=============================================================================
