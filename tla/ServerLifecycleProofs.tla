----------------------- MODULE ServerLifecycleProofs -----------------------
(***************************************************************************)
(* Theorems about the life of the server, for any number of connections    *)
(* and any number of failures.                                             *)
(***************************************************************************)
EXTENDS ServerLifecycle, TLAPS

\* The listener is open only between listening and the deferred close, and nothing
\* takes its path meanwhile; a path of this process leads to an open listener.
ListenerOK ==
    /\ open => socket = "mine" /\ pc \in {"waiting", "stopping", "closing"}
    /\ socket = "mine" => open
    /\ pc = "removed" => socket = "none"

\* Nobody waits at a closed listener, a server told to shut down has closed the
\* one it serves, and nothing is being handled once Shutdown has returned.
ConnOK ==
    /\ \A c \in Clients : conn[c] = "queued" => open
    /\ ShuttingDown /\ server = "serving" => ~ open
    /\ result = "ok" => \A c \in Clients : conn[c] # "handled"

\* A process that was killed does not go on.
ResultOK == result = "killed" => pc = "exited"

\* The inductive invariant.
IInv == TypeOK /\ ListenerOK /\ ConnOK /\ ResultOK

-----------------------------------------------------------------------------
LEMMA Initially == Init => IInv
<1> SUFFICES ASSUME Init
             PROVE  IInv
  OBVIOUS
<1>1. TypeOK
  <2>1. open \in BOOLEAN /\ stop \in BOOLEAN
    BY Zenon DEF Init
  <2>2. faults \in 0..MaxFaults
    BY FaultsAssumption DEF Init
  <2>3. conn \in [Clients -> {"none", "queued", "handled", "answered", "refused", "broken"}]
    BY DEF Init
  <2> QED
    BY <2>1, <2>2, <2>3 DEF Init, TypeOK
<1>2. ListenerOK
  BY DEF Init, ListenerOK
<1>3. ConnOK /\ ResultOK
  BY DEF Init, ConnOK, ResultOK, ShuttingDown
<1> QED
  BY <1>1, <1>2, <1>3 DEF IInv

\* The steps of Start.
LEMMA StartKeeps ==
  ASSUME IInv, Start
  PROVE  IInv'
<1> USE FaultsAssumption DEF IInv, TypeOK, ListenerOK, ConnOK, ResultOK, ShuttingDown, Fault,
      CloseListener
<1>1. CASE RemoveOldSocket
  BY <1>1 DEF RemoveOldSocket
<1>2. CASE Listen
  BY <1>2 DEF Listen
<1>3. CASE ReturnServeError
  BY <1>3 DEF ReturnServeError
<1>4. CASE Shutdown
  BY <1>4 DEF Shutdown
<1>5. CASE ShutdownDone
  BY <1>5 DEF ShutdownDone
<1>6. CASE ConfigFails
  BY <1>6 DEF ConfigFails
<1>7. CASE RemoveFails
  BY <1>7 DEF RemoveFails
<1>8. CASE ListenFails
  BY <1>8 DEF ListenFails
<1>9. CASE DeferredClose
  BY <1>9 DEF DeferredClose
<1>10. CASE DeferredRemove
  BY <1>10 DEF DeferredRemove
<1>11. CASE Exit
  BY <1>11 DEF Exit, Gone
<1> QED
  BY <1>1, <1>2, <1>3, <1>4, <1>5, <1>6, <1>7, <1>8, <1>9, <1>10, <1>11 DEF Start

\* The steps of the goroutine that serves.
LEMMA GoroutineKeeps ==
  ASSUME IInv, Goroutine
  PROVE  IInv'
<1> USE FaultsAssumption DEF IInv, TypeOK, ListenerOK, ConnOK, ResultOK, ShuttingDown, Fault,
      CloseListener
<1>1. CASE Serve
  BY <1>1 DEF Serve
<1>2. CASE ServeTooLate
  BY <1>2 DEF ServeTooLate
<1>3. CASE ServeFails
  <2>1. faults' \in 0..MaxFaults
    BY <1>3 DEF ServeFails
  <2>2. ConnOK'
    BY <1>3 DEF ServeFails
  <2>3. ListenerOK' /\ ResultOK'
    BY <1>3 DEF ServeFails
  <2>4. conn' \in [Clients -> {"none", "queued", "handled", "answered", "refused", "broken"}]
    BY <1>3 DEF ServeFails
  <2>5. socket' \in {"none", "mine", "stale"} /\ open' \in BOOLEAN
    BY <1>3 DEF ServeFails
  <2>6. TypeOK'
    BY <1>3, <2>1, <2>4, <2>5 DEF ServeFails
  <2> QED
    BY <2>2, <2>3, <2>6
<1>4. CASE ServeEnds
  BY <1>4 DEF ServeEnds
<1>5. CASE Report
  BY <1>5 DEF Report
<1> QED
  BY <1>1, <1>2, <1>3, <1>4, <1>5 DEF Goroutine

\* Clients, handlers and the surroundings.
LEMMA OthersKeep ==
  ASSUME IInv,
         \/ \E c \in Clients : Connect(c) \/ Accept(c) \/ Finish(c)
         \/ Die \/ Stop \/ Restart
  PROVE  IInv'
<1> USE FaultsAssumption DEF IInv, TypeOK, ListenerOK, ConnOK, ResultOK, ShuttingDown, Fault
<1>1. ASSUME NEW c \in Clients, Connect(c) PROVE IInv'
  BY <1>1 DEF Connect
<1>2. ASSUME NEW c \in Clients, Accept(c) PROVE IInv'
  BY <1>2 DEF Accept
<1>3. ASSUME NEW c \in Clients, Finish(c) PROVE IInv'
  BY <1>3 DEF Finish
<1>4. CASE Die
  <2>1. faults' \in 0..MaxFaults
    BY <1>4 DEF Die
  <2>2. ConnOK' /\ ListenerOK' /\ ResultOK'
    BY <1>4 DEF Die, Gone
  <2>3. conn' \in [Clients -> {"none", "queued", "handled", "answered", "refused", "broken"}]
    BY <1>4 DEF Die, Gone
  <2>4. TypeOK'
    BY <1>4, <2>1, <2>3 DEF Die, Gone
  <2> QED
    BY <2>2, <2>4
<1>5. CASE Stop
  BY <1>5 DEF Stop
<1>6. CASE Restart
  BY <1>6 DEF Restart
<1> QED
  BY <1>1, <1>2, <1>3, <1>4, <1>5, <1>6

\* The invariant holds in every reachable state.
THEOREM Invariance == Spec => []IInv
<1>1. IInv /\ [Next]_vars => IInv'
  <2>1. IInv /\ UNCHANGED vars => IInv'
    BY DEF vars, IInv, TypeOK, ListenerOK, ConnOK, ResultOK, ShuttingDown
  <2> QED
    BY <2>1, StartKeeps, GoroutineKeeps, OthersKeep DEF Next
<1> QED
  BY Initially, <1>1, PTL DEF Spec

-----------------------------------------------------------------------------
\* Type correctness.
THEOREM Typing == Spec => []TypeOK
  BY Invariance, PTL DEF IInv

\* An open listener can be reached (the order of the deferred close and removal, and
\* the removal before listening, see to it).
THEOREM AlwaysReachable == Spec => []Reachable
<1>1. IInv => Reachable
  BY DEF IInv, ListenerOK, Reachable
<1> QED
  BY Invariance, <1>1, PTL

\* What a crashed process has left behind does not keep the next one from listening.
THEOREM Legacy == Spec => LegacyIsHarmless
<1>1. IInv /\ [Next]_vars => [pc = "removed" /\ pc' = "removing" => faults' # faults]_vars
  <2> SUFFICES ASSUME IInv, Next, pc = "removed", pc' = "removing"
               PROVE  faults' # faults
    BY DEF vars
  <2>1. CASE ListenFails
    BY <2>1 DEF ListenFails, Fault, IInv, ListenerOK, TypeOK
  <2>2. CASE Start /\ ~ ListenFails
    BY <2>2 DEF Start, RemoveOldSocket, Listen, ReturnServeError, Shutdown, ShutdownDone,
          ConfigFails, RemoveFails, DeferredClose, DeferredRemove, Exit
  <2>3. CASE Goroutine
    BY <2>3 DEF Goroutine, Serve, ServeTooLate, ServeFails, ServeEnds, Report
  <2>4. CASE Die \/ Stop \/ Restart
    BY <2>4 DEF Die, Gone, Stop, Restart
  <2>5. ASSUME NEW c \in Clients, Connect(c) \/ Accept(c) \/ Finish(c) PROVE FALSE
    BY <2>5 DEF Connect, Accept, Finish
  <2> QED
    BY <2>1, <2>2, <2>3, <2>4, <2>5 DEF Next
<1> QED
  BY Invariance, <1>1, PTL DEF Spec, LegacyIsHarmless

\* A stop breaks no request, for any number of requests that are being handled.
THEOREM StopIsGraceful == Spec => StopBreaksNothing
<1> DEFINE Kept == \A c \in Clients :
      conn[c] = "handled" /\ conn'[c] = "broken" => result' \in {"killed", "error"}
<1>1. IInv /\ [Next]_vars => [Kept]_vars
  <2> SUFFICES ASSUME IInv, Next,
                      NEW c \in Clients, conn[c] = "handled", conn'[c] = "broken"
               PROVE  result' \in {"killed", "error"}
    BY DEF vars
  <2>1. CASE Exit
    BY <2>1 DEF Exit, Gone, IInv, TypeOK, ConnOK, ResultOK
  <2>2. CASE Start /\ ~ Exit
    BY <2>2 DEF Start, RemoveOldSocket, Listen, ReturnServeError, Shutdown, ShutdownDone,
          ConfigFails, RemoveFails, ListenFails, DeferredClose, DeferredRemove, CloseListener,
          IInv, TypeOK
  <2>3. CASE Goroutine
    BY <2>3 DEF Goroutine, Serve, ServeTooLate, ServeFails, ServeEnds, Report, CloseListener,
          IInv, TypeOK
  <2>4. CASE Die
    BY <2>4 DEF Die
  <2>5. CASE Stop \/ Restart
    BY <2>5 DEF Stop, Restart
  <2>6. ASSUME NEW d \in Clients, Connect(d) \/ Accept(d) \/ Finish(d) PROVE FALSE
    BY <2>6 DEF Connect, Accept, Finish, IInv, TypeOK
  <2> QED
    BY <2>1, <2>2, <2>3, <2>4, <2>5, <2>6 DEF Next
<1> QED
  BY Invariance, <1>1, PTL DEF Spec, StopBreaksNothing
=============================================================================
