----------------------------- MODULE BackendPool -----------------------------
(***************************************************************************)
(* One BackendPool of client/src/grpc_pool.rs and the relay_grpc calls     *)
(* that share it: the fair semaphore stream_permits, the round-robin       *)
(* counter and the channels.                                               *)
(*                                                                         *)
(* relay_grpc first waits for a permit and only then picks a channel; the  *)
(* permit is dropped when it returns, its HTTP/2 stream closes a little    *)
(* later, once the request sender of local_to_grpc is dropped too.         *)
(* ClientProcess composes the pool with the tasks that use it.             *)
(***************************************************************************)
EXTENDS Naturals, Sequences, FiniteSets

CONSTANTS
  Conns,                      \* local connections routed to this backend
  pool_size,                  \* BackendConfig.pool_size
  max_streams_per_channel,    \* BackendConfig.max_streams_per_channel
  COUNTER                     \* values of the AtomicUsize `next', 2^64 in the code

ASSUME PoolAssumption ==
  /\ IsFiniteSet(Conns)
  /\ pool_size \in Nat
  /\ max_streams_per_channel \in Nat
  /\ COUNTER \in Nat \ {0}

VARIABLES
  permits,    \* free permits of stream_permits
  waiters,    \* tasks queued in acquire_owned, in order
  next,       \* the round-robin counter
  conn,       \* where the relay_grpc of each connection is
  chan        \* the index of the channel it picked, 0 without one

poolVars == <<permits, waiters, next, conn, chan>>

AtLeastOne(n) == IF n = 0 THEN 1 ELSE n

Channels == 0..AtLeastOne(pool_size) - 1

Capacity == AtLeastOne(pool_size) * AtLeastOne(max_streams_per_channel)

ConnStates == {"idle", "waiting", "permitted", "relaying", "closing"}

Waiting == {c \in Conns : conn[c] = "waiting"}

\* The connections that own an OwnedSemaphorePermit.
Holders == {c \in Conns : conn[c] \in {"permitted", "relaying"}}

PoolTypeOK ==
  /\ permits \in Nat
  /\ waiters \in Seq(Conns)
  /\ next \in 0..COUNTER - 1
  /\ conn \in [Conns -> ConnStates]
  /\ chan \in [Conns -> Channels]

PoolInit ==
  /\ permits = Capacity
  /\ waiters = <<>>
  /\ next = 0
  /\ conn = [c \in Conns |-> "idle"]
  /\ chan = [c \in Conns |-> 0]

\* acquire_stream_permit: a free permit is taken at once, else the task queues.
Acquire(c) ==
  /\ conn[c] = "idle"
  /\ IF permits > 0
     THEN /\ permits' = permits - 1
          /\ conn' = [conn EXCEPT ![c] = "permitted"]
          /\ waiters' = waiters
     ELSE /\ waiters' = Append(waiters, c)
          /\ conn' = [conn EXCEPT ![c] = "waiting"]
          /\ permits' = permits
  /\ UNCHANGED <<next, chan>>

\* Mutation: nothing is picked once the counter has reached its last value.
PickNoWrap(c) ==
  /\ conn[c] = "permitted" /\ next + 1 < COUNTER
  /\ conn' = [conn EXCEPT ![c] = "relaying"]
  /\ chan' = [chan EXCEPT ![c] = next % AtLeastOne(pool_size)]
  /\ next' = next + 1
  /\ UNCHANGED <<permits, waiters>>

\* pick: fetch_add (which wraps) modulo the number of channels.
Pick(c) ==
  /\ conn[c] = "permitted"
  /\ conn' = [conn EXCEPT ![c] = "relaying"]
  /\ chan' = [chan EXCEPT ![c] = next % AtLeastOne(pool_size)]
  /\ next' = (next + 1) % COUNTER
  /\ UNCHANGED <<permits, waiters>>

\* Mutation: the permit is handed over and returned.
ReleaseTwice(c) ==
  /\ conn[c] = "relaying"
  /\ permits' = permits + 1
  /\ IF waiters = <<>>
     THEN waiters' = waiters /\ conn' = [conn EXCEPT ![c] = "closing"]
     ELSE /\ waiters' = Tail(waiters)
          /\ conn' = [conn EXCEPT ![c] = "closing", ![Head(waiters)] = "permitted"]
  /\ UNCHANGED <<next, chan>>

\* relay_grpc returns and drops its permit, which goes to the oldest waiter.
Release(c) ==
  /\ conn[c] = "relaying"
  /\ IF waiters = <<>>
     THEN /\ permits' = permits + 1
          /\ waiters' = waiters
          /\ conn' = [conn EXCEPT ![c] = "closing"]
     ELSE /\ permits' = permits
          /\ waiters' = Tail(waiters)
          /\ conn' = [conn EXCEPT ![c] = "closing", ![Head(waiters)] = "permitted"]
  /\ UNCHANGED <<next, chan>>

\* The stream is gone; the connection is over.
Closed(c) ==
  /\ conn[c] = "closing"
  /\ conn' = [conn EXCEPT ![c] = "idle"]
  /\ chan' = [chan EXCEPT ![c] = 0]
  /\ UNCHANGED <<permits, waiters, next>>

-----------------------------------------------------------------------------
\* No permit is lost or invented while relays queue, run and return: the free
\* permits and the held ones add up to the semaphore's size.
PermitsConserved == permits + Cardinality(Holders) = Capacity

\* A task waits only while every permit is in use, and then it stands in the
\* queue of acquire_owned, once (no lost wake-up).
NoIdlePermit ==
  /\ Waiting # {} => permits = 0
  /\ Waiting = {waiters[i] : i \in DOMAIN waiters}
  /\ \A i, j \in DOMAIN waiters : waiters[i] = waiters[j] => i = j
=============================================================================
