---------------------------- MODULE ClientProcess ----------------------------
(***************************************************************************)
(* The client process: run of client/src/main.rs from the configuration to *)
(* the end of the process, the accept loops of the two listeners, and the  *)
(* handler tasks they spawn, those of one backend sharing its BackendPool. *)
(*                                                                         *)
(* What a handler says to its client and where it routes to is Ingress;    *)
(* how the channels of the pools are built is EchTransport; what a relay   *)
(* copies is Tunnel.                                                       *)
(***************************************************************************)
EXTENDS BackendPool

CONSTANTS
  CONFIGS,      \* the configurations the client is started with
  POOL          \* id of the backend whose pool is modelled

Listeners == {"socks5", "http"}

Users == [backend : STRING, password : BOOLEAN, password_hash : BOOLEAN]

ASSUME ProcessAssumption ==
  \A f \in CONFIGS : f.users \subseteq Users /\ f.backends \subseteq STRING

VARIABLES
  phase,       \* "starting", "running", "stopped" or, without ever having run, "failed"
  config,      \* users and backends of the Config
  listener,    \* the two listener tasks
  task         \* the handler task of each connection

vars == <<phase, config, listener, task, poolVars>>

TypeOK ==
  /\ phase \in {"starting", "running", "stopped", "failed"}
  /\ config \in CONFIGS
  /\ listener \in [Listeners -> {"spawned", "accepting", "returned"}]
  /\ task \in [Conns -> {"none", "handling", "relay", "no_pool"}]
  /\ PoolTypeOK

Init ==
  /\ phase = "starting"
  /\ config \in CONFIGS
  /\ listener = [l \in Listeners |-> "spawned"]
  /\ task = [c \in Conns |-> "none"]
  /\ PoolInit

-----------------------------------------------------------------------------
(***************************************************************************)
(* The start: AuthStore::from_config, PoolRegistry::connect and, once all  *)
(* the channels are up, validate_users_backends.                           *)
(***************************************************************************)
from_config(f) == f.users # {} /\ \A u \in f.users : u.password \/ u.password_hash

Connectable(f) == f.backends # {}

\* Mutation: the users' backends are not looked up.
NoValidation(f) == TRUE

validate_users_backends(f) == \A u \in f.users : u.backend \in f.backends

Start ==
  /\ phase = "starting"
  /\ from_config(config) /\ Connectable(config) /\ validate_users_backends(config)
  /\ phase' = "running"
  /\ UNCHANGED <<config, listener, task, poolVars>>

\* As above; or the configuration or an address list cannot be read, or one
\* channel of one backend cannot be connected.
StartFails ==
  /\ phase = "starting"
  /\ phase' = "failed"
  /\ UNCHANGED <<config, listener, task, poolVars>>

-----------------------------------------------------------------------------
(***************************************************************************)
(* serve of ingress_socks5.rs and ingress_http.rs.  An error of bind or of *)
(* accept ends the listener task.                                          *)
(***************************************************************************)
Bind(l) ==
  /\ phase = "running" /\ listener[l] = "spawned"
  /\ listener' = [listener EXCEPT ![l] = "accepting"]
  /\ UNCHANGED <<phase, config, task, poolVars>>

Accept(l, c) ==
  /\ phase = "running" /\ listener[l] = "accepting"
  /\ task[c] = "none" /\ conn[c] = "idle"
  /\ task' = [task EXCEPT ![c] = "handling"]
  /\ UNCHANGED <<phase, config, listener, poolVars>>

ListenerFails(l) ==
  /\ phase = "running" /\ listener[l] # "returned"
  /\ listener' = [listener EXCEPT ![l] = "returned"]
  /\ UNCHANGED <<phase, config, task, poolVars>>

(***************************************************************************)
(* A handler task: it ends early or relays directly or over another pool,  *)
(* or it gets the pool of its user and enters relay_grpc.                  *)
(***************************************************************************)
HandlerEnds(c) ==
  /\ phase = "running"
  /\ \/ task[c] \in {"handling", "no_pool"} /\ UNCHANGED poolVars
     \/ task[c] = "relay" /\ Release(c)
  /\ task' = [task EXCEPT ![c] = "none"]
  /\ UNCHANGED <<phase, config, listener>>

Relay(c, u) ==
  /\ phase = "running" /\ task[c] = "handling"
  /\ \/ u.backend = POOL /\ POOL \in config.backends
        /\ Acquire(c) /\ task' = [task EXCEPT ![c] = "relay"]
     \/ u.backend \notin config.backends
        /\ task' = [task EXCEPT ![c] = "no_pool"] /\ UNCHANGED poolVars
  /\ UNCHANGED <<phase, config, listener>>

PoolStep(c) ==
  /\ phase = "running"
  /\ Pick(c) \/ Closed(c)
  /\ UNCHANGED <<phase, config, listener, task>>

-----------------------------------------------------------------------------
\* Mutation: the process waits for both listeners.
SomeReturnedBoth == \A l \in Listeners : listener[l] = "returned"

SomeReturned == \E l \in Listeners : listener[l] = "returned"

\* select!: the first listener to return ends the process, and the runtime drops
\* every other task where it stands.
Stop ==
  /\ phase = "running"
  /\ SomeReturned
  /\ phase' = "stopped"
  /\ UNCHANGED <<config, listener, task, poolVars>>

CtrlC ==
  /\ phase = "running"
  /\ phase' = "stopped"
  /\ UNCHANGED <<config, listener, task, poolVars>>

Next ==
  \/ Start \/ StartFails \/ Stop \/ CtrlC
  \/ \E l \in Listeners : Bind(l) \/ ListenerFails(l) \/ \E c \in Conns : Accept(l, c)
  \/ \E c \in Conns : HandlerEnds(c) \/ PoolStep(c) \/ \E u \in config.users : Relay(c, u)

Spec == Init /\ [][Next]_vars

\* Tasks that can run do, and relays end sooner or later (PermitReleased of
\* Tunnel); nobody has to connect, and no listener has to fail.
FairSpec ==
  /\ Spec
  /\ WF_vars(Stop)
  /\ \A c \in Conns : WF_vars(PoolStep(c)) /\ WF_vars(HandlerEnds(c))

-----------------------------------------------------------------------------
\* However connections come and go, the pool's state is of its type, no permit
\* is lost or invented and no task waits while one is free: a connection holds a
\* permit or queues for one only inside its relay_grpc.
PoolInv ==
  /\ TypeOK
  /\ PermitsConserved
  /\ NoIdlePermit
  /\ \A c \in Conns : conn[c] \in {"waiting", "permitted", "relaying"} <=> task[c] = "relay"

\* Nobody who can log in meets a backend without a pool: the backend of every
\* user was connected before the first accept.
EveryUserHasPool == \A c \in Conns : task[c] # "no_pool"

\* While the client runs every task that asked for a permit gets one, if relays
\* end.
NoStarvation ==
  \A c \in Conns : conn[c] = "waiting" ~> conn[c] = "relaying" \/ phase = "stopped"

\* The client does not go on with one listener: when one could not bind or
\* failed to accept, the process ends.
StopsTogether == (\E l \in Listeners : listener[l] = "returned") ~> phase = "stopped"
=============================================================================
