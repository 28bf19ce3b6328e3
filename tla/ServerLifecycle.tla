--------------------------- MODULE ServerLifecycle ---------------------------
(***************************************************************************)
(* The life of the server as a sidecar (internal/apiserver/server.go,      *)
(* Start with the port "-1"): it replaces the socket file, listens, serves *)
(* in a goroutine, and shuts down when the manager's context ends; with    *)
(* net/http, the kernel's sockets and the kubelet, which starts a          *)
(* container again after it ended, on the same /tmp.                       *)
(***************************************************************************)
EXTENDS Naturals

CONSTANTS
    Clients,    \* connections of the application, each made again and again
    MaxFaults   \* bound: how often something fails or the process dies

ASSUME FaultsAssumption == MaxFaults \in Nat

VARIABLES
    pc,       \* where Start is
    result,   \* how it, or the process, ends
    server,   \* the goroutine that serves
    errChan,  \* the error it reports
    socket,   \* what the socket's path leads to: nothing, a listener of this
              \* process, or one of a process that is gone
    open,     \* whether this process has the listener open
    stop,     \* the manager's context has ended
    conn,     \* what became of a connection
    faults

vars == <<pc, result, server, errChan, socket, open, stop, conn, faults>>

Init ==
    /\ pc = "starting"
    /\ result = "none"
    /\ server = "none"
    /\ errChan = "empty"
    /\ socket = "none"
    /\ open = FALSE
    /\ stop = FALSE
    /\ conn = [c \in Clients |-> "none"]
    /\ faults = 0

Fault ==
    /\ faults < MaxFaults
    /\ faults' = faults + 1

\* Closing a unix listener removes its path, whatever that leads to, and resets the
\* connections nobody has accepted.
CloseListener ==
    /\ open' = FALSE
    /\ IF open
       THEN /\ socket' = "none"
            /\ conn' = [c \in Clients |-> IF conn[c] = "queued" THEN "refused" ELSE conn[c]]
       ELSE UNCHANGED <<socket, conn>>

-----------------------------------------------------------------------------
(* Start, up to the goroutine. *)

\* The TLS configuration or a client cannot be made: nothing is deferred yet.
ConfigFails ==
    /\ pc = "starting"
    /\ Fault
    /\ pc' = "returned"
    /\ result' = "error"
    /\ UNCHANGED <<server, errChan, socket, open, stop, conn>>

\* Mutant: the path of a process that is gone is left where it is.
KeepOldSocket ==
    /\ pc = "starting"
    /\ pc' = "removed"
    /\ UNCHANGED <<result, server, errChan, socket, open, stop, conn, faults>>

RemoveOldSocket ==
    /\ pc = "starting"
    /\ pc' = "removed"
    /\ socket' = "none"
    /\ UNCHANGED <<result, server, errChan, open, stop, conn, faults>>

RemoveFails ==
    /\ pc = "starting"
    /\ Fault
    /\ pc' = "removing"
    /\ result' = "error"
    /\ UNCHANGED <<server, errChan, socket, open, stop, conn>>

\* The goroutine is there, and connections are queued; it does not serve yet.
Listen ==
    /\ pc = "removed"
    /\ socket = "none"
    /\ socket' = "mine"
    /\ open' = TRUE
    /\ server' = "spawned"
    /\ pc' = "waiting"
    /\ UNCHANGED <<result, errChan, stop, conn, faults>>

\* The path is in use, or something else is wrong.
ListenFails ==
    /\ pc = "removed"
    /\ \/ socket # "none" /\ UNCHANGED faults
       \/ socket = "none" /\ Fault
    /\ pc' = "removing"
    /\ result' = "error"
    /\ UNCHANGED <<server, errChan, socket, open, stop, conn>>

-----------------------------------------------------------------------------
(* The goroutine: srv.Serve, and the report of its error. *)

ShuttingDown == pc = "stopping" \/ result = "ok"

Serve ==
    /\ server = "spawned"
    /\ ~ ShuttingDown
    /\ server' = "serving"
    /\ UNCHANGED <<pc, result, errChan, socket, open, stop, conn, faults>>

\* Serve comes after Shutdown, returns ErrServerClosed and closes the listener.
ServeTooLate ==
    /\ server = "spawned"
    /\ ShuttingDown
    /\ server' = "done"
    /\ CloseListener
    /\ UNCHANGED <<pc, result, errChan, stop, faults>>

Accept(c) ==
    /\ server = "serving"
    /\ conn[c] = "queued"
    /\ conn' = [conn EXCEPT ![c] = "handled"]
    /\ UNCHANGED <<pc, result, server, errChan, socket, open, stop, faults>>

\* The handler is done, or the client is gone.
Finish(c) ==
    /\ conn[c] = "handled"
    /\ conn' = [conn EXCEPT ![c] = "answered"]
    /\ UNCHANGED <<pc, result, server, errChan, socket, open, stop, faults>>

\* Accept fails: by itself, or because Start has closed the listener.
ServeFails ==
    /\ server = "serving"
    /\ ~ ShuttingDown
    /\ \/ open /\ Fault
       \/ ~ open /\ UNCHANGED faults
    /\ server' = "failed"
    /\ CloseListener
    /\ UNCHANGED <<pc, result, errChan, stop>>

\* Shutdown has closed the listener: ErrServerClosed is not reported.
ServeEnds ==
    /\ server = "serving"
    /\ ShuttingDown
    /\ server' = "done"
    /\ UNCHANGED <<pc, result, errChan, socket, open, stop, conn, faults>>

\* The channel has room for the error, read or not.
Report ==
    /\ server = "failed"
    /\ errChan' = "error"
    /\ server' = "done"
    /\ UNCHANGED <<pc, result, socket, open, stop, conn, faults>>

-----------------------------------------------------------------------------
(* The end of Start.  Of a stop and an error that are both there the select *)
(* takes either.                                                           *)

\* Mutant: only the context is waited for.
IgnoreServeError == FALSE /\ UNCHANGED vars

ReturnServeError ==
    /\ pc = "waiting"
    /\ errChan = "error"
    /\ errChan' = "empty"
    /\ pc' = "closing"
    /\ result' = "error"
    /\ UNCHANGED <<server, socket, open, stop, conn, faults>>

\* Mutants: Start returns at once; the context is not waited for.
StopAtOnce ==
    /\ pc = "waiting"
    /\ stop
    /\ pc' = "closing"
    /\ result' = "ok"
    /\ UNCHANGED <<server, errChan, socket, open, stop, conn, faults>>
IgnoreStop == FALSE /\ UNCHANGED vars

\* Shutdown closes the listener if Serve has it already.
Shutdown ==
    /\ pc = "waiting"
    /\ stop
    /\ pc' = "stopping"
    /\ IF server = "serving" THEN CloseListener ELSE UNCHANGED <<socket, open, conn>>
    /\ UNCHANGED <<result, server, errChan, stop, faults>>

\* It returns once no request is being handled.
ShutdownDone ==
    /\ pc = "stopping"
    /\ \A c \in Clients : conn[c] # "handled"
    /\ pc' = "closing"
    /\ result' = "ok"
    /\ UNCHANGED <<server, errChan, socket, open, stop, conn, faults>>

\* The deferred functions.  Mutant: the path is removed before the listener is closed.
DeferredCloseLast ==
    /\ pc = "closing"
    /\ pc' = "removing"
    /\ socket' = "none"
    /\ UNCHANGED <<result, server, errChan, open, stop, conn, faults>>

DeferredClose ==
    /\ pc = "closing"
    /\ pc' = "removing"
    /\ CloseListener
    /\ UNCHANGED <<result, server, errChan, stop, faults>>

DeferredRemove ==
    /\ pc = "removing"
    /\ pc' = "returned"
    /\ socket' = "none"
    /\ UNCHANGED <<result, server, errChan, open, stop, conn, faults>>

-----------------------------------------------------------------------------
(* The process and its surroundings. *)

\* The process is gone, and its path, if still there, leads nowhere.
Gone ==
    /\ pc' = "exited"
    /\ server' = "none"
    /\ errChan' = "empty"
    /\ open' = FALSE
    /\ socket' = IF socket = "mine" THEN "stale" ELSE socket
    /\ conn' = [c \in Clients |->
                   IF conn[c] = "handled" THEN "broken"
                   ELSE IF conn[c] = "queued" THEN "refused" ELSE conn[c]]

\* Start's return ends the manager, and main.
Exit ==
    /\ pc = "returned"
    /\ Gone
    /\ UNCHANGED <<result, stop, faults>>

\* A crash, the manager when it has waited 30 seconds for Start, or the kubelet's kill.
Die ==
    /\ pc # "exited"
    /\ Fault
    /\ Gone
    /\ result' = "killed"
    /\ UNCHANGED stop

\* SIGTERM ends the manager's context.
Stop ==
    /\ pc # "exited"
    /\ ~ stop
    /\ stop' = TRUE
    /\ UNCHANGED <<pc, result, server, errChan, socket, open, conn, faults>>

Restart ==
    /\ pc = "exited"
    /\ pc' = "starting"
    /\ result' = "none"
    /\ stop' = FALSE
    /\ UNCHANGED <<server, errChan, socket, open, conn, faults>>

Connect(c) ==
    /\ conn[c] \notin {"queued", "handled"}
    /\ conn' = [conn EXCEPT ![c] = IF open /\ socket = "mine" THEN "queued" ELSE "refused"]
    /\ UNCHANGED <<pc, result, server, errChan, socket, open, stop, faults>>

Start ==
    \/ RemoveOldSocket \/ Listen \/ ReturnServeError \/ Shutdown \/ ShutdownDone
    \/ ConfigFails \/ RemoveFails \/ ListenFails
    \/ DeferredClose \/ DeferredRemove \/ Exit

Goroutine == Serve \/ ServeTooLate \/ ServeFails \/ ServeEnds \/ Report

Next ==
    \/ Start \/ Goroutine
    \/ \E c \in Clients : Connect(c) \/ Accept(c) \/ Finish(c)
    \/ Die \/ Stop \/ Restart

Spec == Init /\ [][Next]_vars

\* The process runs on, and the kubelet restarts what ended without being told to.
\* Requests that are handled end: their waits for others do, with their contexts, and
\* the clients are assumed to finish their bodies or to hang up.
FairSpec ==
    /\ Spec
    /\ WF_vars(Start)
    /\ WF_vars(Goroutine)
    /\ \A c \in Clients : WF_vars(Finish(c))
    /\ WF_vars(Restart /\ ~ stop)

-----------------------------------------------------------------------------
(* Properties. *)

\* Every variable holds a value of its kind, and Start does not end without a result.
TypeOK ==
    /\ pc \in {"closing", "removing", "returned", "exited"} => result # "none"
    /\ pc \in {"starting", "removed", "waiting", "stopping", "closing", "removing",
               "returned", "exited"}
    /\ result \in {"none", "ok", "error", "killed"}
    /\ server \in {"none", "spawned", "serving", "failed", "done"}
    /\ errChan \in {"empty", "error"}
    /\ socket \in {"none", "mine", "stale"}
    /\ open \in BOOLEAN
    /\ stop \in BOOLEAN
    /\ conn \in [Clients -> {"none", "queued", "handled", "answered", "refused", "broken"}]
    /\ faults \in 0..MaxFaults

\* A listener that is open can be reached: no clean-up, of this process or of one
\* before it, takes the path away from under it.
Reachable == open => socket = "mine"

\* A start fails to listen only for a reason of its own, never because of the path
\* that a crashed process has left behind.
LegacyIsHarmless ==
    [][pc = "removed" /\ pc' = "removing" => faults' # faults]_vars

\* A request that is being handled is broken only by the death of the process or an
\* error of Start: a stop waits for it, however long it takes, unless Serve fails too.
StopBreaksNothing ==
    [][\A c \in Clients :
          conn[c] = "handled" /\ conn'[c] = "broken" => result' \in {"killed", "error"}]_vars

Serving == server = "serving" /\ open /\ pc = "waiting"

\* Whatever failed, and whatever a dead process has left behind, the server is soon
\* reachable again, or told to stop.
Recovers == ~ Serving ~> (Serving \/ stop)

\* A process that is told to stop does so, without a deadline, once the requests it
\* is handling have ended: idle clients and those still waiting do not keep it.
Stops == stop ~> pc = "exited"
=============================================================================
