--------------------------- MODULE DiscoveryMapper ---------------------------
(***************************************************************************)
(* The lookup of a kind's resource (getResurce in                          *)
(* internal/apiserver/helper.go) and the mapper that the handlers of all   *)
(* endpoints share, client-go's DeferredDiscoveryRESTMapper over an        *)
(* in-memory discovery cache.                                              *)
(*                                                                         *)
(* The mapper keeps a delegate, the view of the API server one discovery   *)
(* gave, and takes a lock to fill or to drop it.  A lookup searches the    *)
(* delegate without the lock, so that others may have dropped it meanwhile.*)
(* A discovery takes time, in which the API server starts or stops serving *)
(* kinds; it may miss some of them, or fail.                               *)
(***************************************************************************)
EXTENDS Naturals

CONSTANTS
    Callers,        \* handlers that look up one kind at a time
    Nobody,
    Kinds, NoKind,
    DiscoverySets,  \* sets of kinds the API server may serve
    MaxChanges,     \* bound: how often it changes
    MaxErrors       \* bound: how often a discovery is incomplete or fails

ASSUME MapperAssumption ==
    /\ Nobody \notin Callers
    /\ NoKind \notin Kinds
    /\ \A S \in DiscoverySets : S \subseteq Kinds
    /\ MaxChanges \in Nat
    /\ MaxErrors \in Nat

\* No delegate.
NoView == {NoKind}

VARIABLES
    registered,  \* the kinds the API server serves
    changes, errors,
    delegate,    \* the shared view
    fresh,       \* whether the cache below it is valid
    lock,        \* who is filling the delegate (it is dropped in one step)
    had,         \* kinds served at some time of the discovery under way
    lacked,      \* kinds not served at some time of it
    pc,          \* where a lookup is
    round,       \* which of its two RESTMapping calls a lookup is in
    want,        \* its kind
    view,        \* the view it searches
    answer,
    excused      \* history: since the lookup began its kind was not served for
                 \* a time, or a discovery was incomplete or failed

env == <<registered, changes, errors>>
shared == <<delegate, fresh, lock, had, lacked>>
local == <<pc, round, want, view, answer>>
vars == <<env, shared, local, excused>>

Active == {c \in Callers : pc[c] \notin {"idle", "done"}}

Init ==
    /\ registered \in DiscoverySets
    /\ changes = 0
    /\ errors = 0
    /\ delegate = NoView
    /\ fresh = FALSE
    /\ lock = Nobody
    /\ had = {}
    /\ lacked = {}
    /\ pc = [c \in Callers |-> "idle"]
    /\ round = [c \in Callers |-> 1]
    /\ want = [c \in Callers |-> NoKind]
    /\ view = [c \in Callers |-> {}]
    /\ answer = [c \in Callers |-> "none"]
    /\ excused = [c \in Callers |-> FALSE]

Go(c, where) == pc' = [pc EXCEPT ![c] = where]

\* A handler calls getResurce.
Ask(c) ==
    /\ c \notin Active
    /\ \E k \in Kinds :
          /\ want' = [want EXCEPT ![c] = k]
          /\ excused' = [excused EXCEPT ![c] = k \notin registered]
    /\ Go(c, "get")
    /\ round' = [round EXCEPT ![c] = 1]
    /\ answer' = [answer EXCEPT ![c] = "none"]
    /\ UNCHANGED <<env, shared, view>>

-----------------------------------------------------------------------------
(* getDelegate. *)

Take(c) ==
    /\ pc[c] = "get"
    /\ lock = Nobody
    /\ delegate # NoView
    /\ view' = [view EXCEPT ![c] = delegate]
    /\ Go(c, "search")
    /\ UNCHANGED <<env, shared, round, want, answer, excused>>

StartFetch(c) ==
    /\ pc[c] = "get"
    /\ lock = Nobody
    /\ delegate = NoView
    /\ lock' = c
    /\ had' = registered
    /\ lacked' = Kinds \ registered
    /\ Go(c, "fetch")
    /\ UNCHANGED <<env, delegate, fresh, round, want, view, answer, excused>>

\* A discovery went wrong, as all lookups under way may notice.
DiscoveryError ==
    /\ errors < MaxErrors
    /\ errors' = errors + 1
    /\ excused' = [c \in Callers |-> excused[c] \/ c \in Active]

\* What was served throughout is found, unless a part of the discovery failed.
EndFetch(c) ==
    /\ pc[c] = "fetch"
    /\ \E found \in SUBSET had :
          /\ \/ Kinds \ lacked \subseteq found /\ UNCHANGED <<errors, excused>>
             \/ ~ (Kinds \ lacked \subseteq found) /\ DiscoveryError
          /\ delegate' = found
          /\ view' = [view EXCEPT ![c] = found]
    /\ fresh' = TRUE
    /\ lock' = Nobody
    /\ Go(c, "search")
    /\ UNCHANGED <<registered, changes, had, lacked, round, want, answer>>

-----------------------------------------------------------------------------
(* getResurce: the error of the first RESTMapping leads to a reset and a   *)
(* second one, whose error is returned.                                    *)

\* Mutants: the second RESTMapping is not preceded by a reset; the handler tries
\* until it finds something.
FailedWithoutReset(c) ==
    /\ IF round[c] = 1
       THEN Go(c, "get") /\ round' = [round EXCEPT ![c] = 2] /\ UNCHANGED answer
       ELSE /\ Go(c, "done")
            /\ answer' = [answer EXCEPT ![c] = "missing"]
            /\ UNCHANGED round
FailedAgain(c) == Go(c, "retry") /\ UNCHANGED <<round, answer>>

Failed(c) ==
    IF round[c] = 1
    THEN Go(c, "retry") /\ UNCHANGED <<round, answer>>
    ELSE /\ Go(c, "done")
         /\ answer' = [answer EXCEPT ![c] = "missing"]
         /\ UNCHANGED round

\* getDelegate returns the error of the discovery.
FailFetch(c) ==
    /\ pc[c] = "fetch"
    /\ DiscoveryError
    /\ lock' = Nobody
    /\ Failed(c)
    /\ UNCHANGED <<registered, changes, delegate, fresh, had, lacked, want, view>>

Hit(c) ==
    /\ pc[c] = "search"
    /\ want[c] \in view[c]
    /\ answer' = [answer EXCEPT ![c] = "found"]
    /\ Go(c, "done")
    /\ UNCHANGED <<env, shared, round, want, view, excused>>

\* The cache is valid, or was filled a moment ago by the discovery under way.
Miss(c) ==
    /\ pc[c] = "search"
    /\ want[c] \notin view[c]
    /\ fresh \/ lock # Nobody
    /\ Failed(c)
    /\ UNCHANGED <<env, shared, want, view, excused>>

\* Somebody has reset the mapper meanwhile: RESTMapping does so too, and starts over.
MissStale(c) ==
    /\ pc[c] = "search"
    /\ want[c] \notin view[c]
    /\ ~ fresh
    /\ Go(c, "reset")
    /\ UNCHANGED <<env, shared, round, want, view, answer, excused>>

Reset(c) ==
    /\ pc[c] \in {"reset", "retry"}
    /\ lock = Nobody
    /\ delegate' = NoView
    /\ fresh' = FALSE
    /\ Go(c, "get")
    /\ round' = [round EXCEPT ![c] = IF pc[c] = "retry" THEN 2 ELSE @]
    /\ UNCHANGED <<env, lock, had, lacked, want, view, answer, excused>>

-----------------------------------------------------------------------------
\* The API server starts or stops serving kinds.
ChangeDiscovery ==
    /\ changes < MaxChanges
    /\ changes' = changes + 1
    /\ registered' \in DiscoverySets \ {registered}
    /\ had' = had \cup registered'
    /\ lacked' = lacked \cup (Kinds \ registered')
    /\ excused' = [c \in Callers |->
                      excused[c] \/ (c \in Active /\ want[c] \notin registered')]
    /\ UNCHANGED <<errors, delegate, fresh, lock, local>>

Locking(c) == Take(c) \/ StartFetch(c) \/ Reset(c)
Working(c) == EndFetch(c) \/ FailFetch(c) \/ Hit(c) \/ Miss(c) \/ MissStale(c)

Next ==
    \/ \E c \in Callers : Ask(c) \/ Locking(c) \/ Working(c)
    \/ ChangeDiscovery

Spec == Init /\ [][Next]_vars

\* A discovery ends (it has a time limit), and a mutex lets everybody in who waits
\* for it long enough.
FairSpec == Spec /\ \A c \in Callers : SF_vars(Locking(c)) /\ WF_vars(Working(c))

-----------------------------------------------------------------------------
(* Properties. *)

\* Every variable holds a value of its kind.
TypeOK ==
    /\ registered \in DiscoverySets
    /\ changes \in 0..MaxChanges
    /\ errors \in 0..MaxErrors
    /\ delegate \in (SUBSET Kinds) \cup {NoView}
    /\ fresh \in BOOLEAN
    /\ lock \in Callers \cup {Nobody}
    /\ had \subseteq Kinds
    /\ lacked \subseteq Kinds
    /\ pc \in [Callers -> {"idle", "get", "fetch", "search", "reset", "retry", "done"}]
    /\ round \in [Callers -> {1, 2}]
    /\ want \in [Callers -> Kinds \cup {NoKind}]
    /\ view \in [Callers -> SUBSET Kinds]
    /\ answer \in [Callers -> {"none", "found", "missing"}]
    /\ excused \in [Callers -> BOOLEAN]

\* getResurce reports a kind as missing only if it was not served at some time of
\* the call, or a discovery went wrong: neither what the shared view lacked before
\* the call nor what other callers fill and reset meanwhile makes a kind missing.
MissIsTrue == \A c \in Callers : answer[c] = "missing" => excused[c]

\* A lookup of a kind that is served ends, whatever other lookups do.  Any other one
\* ends unless others reset the mapper for ever: by itself getResurce resets it once
\* and then takes no for an answer.
Resetting == {c \in Callers : pc[c] \in {"reset", "retry"}}
LookupsEnd ==
    \A c \in Callers :
        <>[](want[c] \in registered \/ Resetting \subseteq {c})
            => (pc[c] = "get" ~> pc[c] = "done")
=============================================================================
