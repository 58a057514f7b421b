------------------------ MODULE ClientProcessProofs ------------------------
(***************************************************************************)
(* The safety of the client process for every number of connections, every *)
(* pool and every set of configurations: PoolInv of ClientProcess is       *)
(* inductive as it stands, and together with what run() has checked before *)
(* it spawns the listeners it gives the other properties.                  *)
(***************************************************************************)
EXTENDS ClientProcess, FiniteSetTheorems, TLAPS

(***************************************************************************)
(* The operators of BackendPool.                                           *)
(***************************************************************************)

\* max(1) leaves a divisor and at least one permit.
LEMMA PoolSizes ==
  /\ AtLeastOne(pool_size) \in Nat \ {0}
  /\ Capacity \in Nat \ {0}
<1>1. AtLeastOne(pool_size) \in Nat \ {0} BY PoolAssumption DEF AtLeastOne
<1>2. AtLeastOne(max_streams_per_channel) \in Nat \ {0} BY PoolAssumption DEF AtLeastOne
<1>3. \A m, n \in Nat \ {0} : m * n \in Nat \ {0} OBVIOUS
<1> QED BY <1>1, <1>2, <1>3 DEF Capacity

\* The remainder is an index, whatever the counter has come to.
LEMMA Remainder ==
  ASSUME NEW m \in Nat, NEW n \in Nat \ {0}
  PROVE  m % n \in 0..n - 1
  OBVIOUS

\* Permits are held by finitely many connections.
LEMMA HoldersFinite ==
  /\ IsFiniteSet(Holders) /\ Cardinality(Holders) \in Nat
<1>1. IsFiniteSet(Conns) BY PoolAssumption
<1>2. Holders \in SUBSET Conns BY DEF Holders
<1>3. IsFiniteSet(Holders) BY <1>1, <1>2, FS_Subset
<1> QED BY <1>3, FS_CardinalityType

(***************************************************************************)
(* The steps of the semaphore.                                             *)
(***************************************************************************)

\* acquire_stream_permit takes a free permit or queues.
LEMMA AcquireStep ==
  ASSUME PoolInv, NEW c \in Conns, task[c] = "handling", Acquire(c),
         task' = [task EXCEPT ![c] = "relay"],
         UNCHANGED <<phase, config, listener>>
  PROVE  PoolInv'
<1>t. TypeOK BY DEF PoolInv
<1>1. TypeOK'
  <2>1. permits' \in Nat BY <1>t DEF TypeOK, PoolTypeOK, Acquire
  <2>2. waiters' \in Seq(Conns) BY <1>t DEF TypeOK, PoolTypeOK, Acquire
  <2>3. conn' \in [Conns -> ConnStates] BY <1>t DEF TypeOK, PoolTypeOK, Acquire, ConnStates
  <2>4. task' \in [Conns -> {"none", "handling", "relay", "no_pool"}] BY <1>t DEF TypeOK
  <2> QED BY <1>t, <2>1, <2>2, <2>3, <2>4 DEF TypeOK, PoolTypeOK, Acquire, Channels
<1>2. PermitsConserved'
  <2>1. CASE permits > 0
    <3>1. Holders' = Holders \cup {c} BY <1>t, <2>1 DEF TypeOK, PoolTypeOK, Acquire, Holders
    <3>2. c \notin Holders BY DEF Acquire, Holders
    <3>3. Cardinality(Holders') = Cardinality(Holders) + 1
      BY <3>1, <3>2, HoldersFinite, FS_AddElement
    <3> QED BY <1>t, <2>1, <3>3, HoldersFinite, PoolSizes
      DEF TypeOK, PoolTypeOK, PoolInv, PermitsConserved, Acquire, Capacity
  <2>2. CASE ~(permits > 0)
    <3>1. Holders' = Holders BY <1>t, <2>2 DEF TypeOK, PoolTypeOK, Acquire, Holders
    <3> QED BY <2>2, <3>1 DEF PoolInv, PermitsConserved, Acquire, Capacity
  <2> QED BY <2>1, <2>2
<1>3. NoIdlePermit'
  <2>1. CASE permits > 0
    <3>1. Waiting' = Waiting BY <1>t, <2>1 DEF TypeOK, PoolTypeOK, Acquire, Waiting
    <3>2. Waiting = {} BY <2>1 DEF PoolInv, NoIdlePermit
    <3> QED BY <2>1, <3>1, <3>2 DEF PoolInv, NoIdlePermit, Acquire
  <2>2. CASE ~(permits > 0)
    <3>1. permits' = 0 /\ waiters' = Append(waiters, c) /\ conn' = [conn EXCEPT ![c] = "waiting"]
      BY <1>t, <2>2 DEF TypeOK, PoolTypeOK, Acquire
    <3>2. Waiting' = Waiting \cup {c} BY <1>t, <3>1 DEF TypeOK, PoolTypeOK, Waiting
    <3>3. c \notin Waiting BY DEF Acquire, Waiting
    <3>4. Waiting = {waiters[i] : i \in DOMAIN waiters} BY DEF PoolInv, NoIdlePermit
    <3>5. waiters \in Seq(Conns) BY <1>t DEF TypeOK, PoolTypeOK
    <3>6. /\ Len(waiters) \in Nat /\ DOMAIN waiters = 1..Len(waiters)
          /\ DOMAIN waiters' = 1..Len(waiters) + 1
          /\ \A i \in 1..Len(waiters) : waiters'[i] = waiters[i]
          /\ waiters'[Len(waiters) + 1] = c
      BY <3>1, <3>5
    <3>7. Waiting' = {waiters'[i] : i \in DOMAIN waiters'}
      BY <3>2, <3>4, <3>6
    <3>8. \A i \in 1..Len(waiters) : waiters[i] # c BY <3>3, <3>4, <3>6
    <3>9. \A i, j \in DOMAIN waiters : waiters[i] = waiters[j] => i = j
      BY DEF PoolInv, NoIdlePermit
    <3>10. \A i, j \in DOMAIN waiters' : waiters'[i] = waiters'[j] => i = j
      BY <3>6, <3>8, <3>9
    <3> QED BY <3>1, <3>7, <3>10 DEF NoIdlePermit
  <2> QED BY <2>1, <2>2
<1>4. \A d \in Conns :
        (conn[d] \in {"waiting", "permitted", "relaying"} <=> task[d] = "relay")'
  BY <1>t DEF PoolInv, TypeOK, PoolTypeOK, Acquire
<1> QED BY <1>1, <1>2, <1>3, <1>4 DEF PoolInv

\* pick changes the counter and who is where, but not who holds a permit.
LEMMA PickStep ==
  ASSUME PoolInv, NEW c \in Conns, Pick(c), UNCHANGED <<phase, config, listener, task>>
  PROVE  PoolInv'
<1>t. TypeOK BY DEF PoolInv
<1>1. TypeOK'
  <2>1. next % AtLeastOne(pool_size) \in Channels
    <3>1. next \in Nat BY <1>t, PoolAssumption DEF TypeOK, PoolTypeOK
    <3> QED BY <3>1, PoolSizes, Remainder DEF Channels
  <2>2. (next + 1) % COUNTER \in 0..COUNTER - 1
    <3>1. next + 1 \in Nat BY <1>t, PoolAssumption DEF TypeOK, PoolTypeOK
    <3> QED BY <3>1, PoolAssumption, Remainder
  <2> QED BY <1>t, <2>1, <2>2 DEF TypeOK, PoolTypeOK, Pick, ConnStates
<1>2. Holders' = Holders /\ Waiting' = Waiting
  BY <1>t DEF TypeOK, PoolTypeOK, Pick, Holders, Waiting
<1>3. PermitsConserved' BY <1>2 DEF PoolInv, PermitsConserved, Pick, Capacity
<1>4. NoIdlePermit' BY <1>2 DEF PoolInv, NoIdlePermit, Pick
<1>5. \A d \in Conns :
        (conn[d] \in {"waiting", "permitted", "relaying"} <=> task[d] = "relay")'
  BY <1>t DEF PoolInv, TypeOK, PoolTypeOK, Pick
<1> QED BY <1>1, <1>3, <1>4, <1>5 DEF PoolInv

\* The stream of a relay that has returned closes; it holds nothing any more.
LEMMA ClosedStep ==
  ASSUME PoolInv, NEW c \in Conns, Closed(c), UNCHANGED <<phase, config, listener, task>>
  PROVE  PoolInv'
<1>t. TypeOK BY DEF PoolInv
<1>1. TypeOK'
  <2>1. 0 \in Channels BY PoolSizes DEF Channels
  <2> QED BY <1>t, <2>1 DEF TypeOK, PoolTypeOK, Closed, ConnStates
<1>2. Holders' = Holders /\ Waiting' = Waiting
  BY <1>t DEF TypeOK, PoolTypeOK, Closed, Holders, Waiting
<1>3. PermitsConserved' BY <1>2 DEF PoolInv, PermitsConserved, Closed, Capacity
<1>4. NoIdlePermit' BY <1>2 DEF PoolInv, NoIdlePermit, Closed
<1>5. \A d \in Conns :
        (conn[d] \in {"waiting", "permitted", "relaying"} <=> task[d] = "relay")'
  BY <1>t DEF PoolInv, TypeOK, PoolTypeOK, Closed
<1> QED BY <1>1, <1>3, <1>4, <1>5 DEF PoolInv

\* A returned permit goes to the head of the queue or back to the semaphore.
LEMMA ReleaseStep ==
  ASSUME PoolInv, NEW c \in Conns, task[c] = "relay", Release(c),
         task' = [task EXCEPT ![c] = "none"],
         UNCHANGED <<phase, config, listener>>
  PROVE  PoolInv'
<1>t. TypeOK BY DEF PoolInv
<1>c. c \in Holders /\ c \notin Waiting BY DEF Release, Holders, Waiting
<1>w. /\ waiters \in Seq(Conns) /\ Len(waiters) \in Nat /\ DOMAIN waiters = 1..Len(waiters)
      /\ Waiting = {waiters[i] : i \in 1..Len(waiters)}
      /\ \A i, j \in 1..Len(waiters) : waiters[i] = waiters[j] => i = j
  BY <1>t DEF TypeOK, PoolTypeOK, PoolInv, NoIdlePermit
<1>task. task' \in [Conns -> {"none", "handling", "relay", "no_pool"}] BY <1>t DEF TypeOK
<1>1. CASE waiters = <<>>
  <2>1. /\ permits' = permits + 1 /\ waiters' = waiters /\ conn' = [conn EXCEPT ![c] = "closing"]
        /\ UNCHANGED <<next, chan>>
    BY <1>1 DEF Release
  <2>2. conn' \in [Conns -> ConnStates] BY <1>t, <2>1 DEF TypeOK, PoolTypeOK, ConnStates
  <2>3. TypeOK' BY <1>t, <1>task, <2>1, <2>2 DEF TypeOK, PoolTypeOK, Channels
  <2>4. Holders' = Holders \ {c} /\ Waiting' = Waiting
    BY <1>t, <1>c, <2>1 DEF TypeOK, PoolTypeOK, Holders, Waiting
  <2>5. Cardinality(Holders') = Cardinality(Holders) - 1
    BY <1>c, <2>4, HoldersFinite, FS_RemoveElement
  <2>6. PermitsConserved'
    BY <1>t, <2>1, <2>5, HoldersFinite, PoolSizes
    DEF TypeOK, PoolTypeOK, PoolInv, PermitsConserved, Capacity
  <2>7. NoIdlePermit'
    <3>1. Waiting = {} BY <1>1, <1>w
    <3> QED BY <2>1, <2>4, <3>1 DEF PoolInv, NoIdlePermit
  <2>8. \A d \in Conns :
          (conn[d] \in {"waiting", "permitted", "relaying"} <=> task[d] = "relay")'
    BY <1>t, <2>1 DEF PoolInv, TypeOK, PoolTypeOK
  <2> QED BY <2>3, <2>6, <2>7, <2>8 DEF PoolInv
<1>2. CASE waiters # <<>>
  <2> DEFINE h == Head(waiters)
  <2>1. /\ permits' = permits /\ waiters' = Tail(waiters)
        /\ conn' = [conn EXCEPT ![c] = "closing", ![h] = "permitted"]
        /\ UNCHANGED <<next, chan>>
    BY <1>2 DEF Release
  <2>2. /\ h = waiters[1] /\ 1 \in 1..Len(waiters) /\ Len(waiters) - 1 \in Nat
        /\ waiters' \in Seq(Conns) /\ DOMAIN waiters' = 1..Len(waiters) - 1
        /\ \A i \in 1..Len(waiters) - 1 : waiters'[i] = waiters[i + 1]
    BY <1>w, <1>2, <2>1
  <2>3. h \in Waiting /\ h \in Conns /\ h \notin Holders /\ h # c /\ conn[h] = "waiting"
    BY <1>w, <1>c, <2>2 DEF Waiting, Holders
  <2> HIDE DEF h
  <2>4. /\ conn' \in [Conns -> ConnStates]
        /\ \A d \in Conns : conn'[d] = IF d = h THEN "permitted" ELSE IF d = c THEN "closing" ELSE conn[d]
    BY <1>t, <2>1, <2>3 DEF TypeOK, PoolTypeOK, ConnStates
  <2>5. TypeOK' BY <1>t, <1>task, <2>1, <2>2, <2>4 DEF TypeOK, PoolTypeOK, Channels
  <2>6. Holders' = (Holders \ {c}) \cup {h} BY <2>3, <2>4 DEF Holders
  <2>7. Waiting' = Waiting \ {h} BY <1>c, <2>3, <2>4 DEF Waiting
  <2>8. PermitsConserved'
    <3>1. IsFiniteSet(Holders \ {c}) /\ Cardinality(Holders \ {c}) = Cardinality(Holders) - 1
      BY <1>c, HoldersFinite, FS_RemoveElement
    <3>2. Cardinality(Holders') = Cardinality(Holders \ {c}) + 1
      BY <2>3, <2>6, <3>1, FS_AddElement
    <3> QED BY <2>1, <3>1, <3>2, HoldersFinite DEF PoolInv, PermitsConserved, Capacity
  <2>9. NoIdlePermit'
    <3>1. permits' = 0 BY <2>1, <2>3 DEF PoolInv, NoIdlePermit
    <3>2. ASSUME NEW d PROVE d \in Waiting' <=> \E i \in 1..Len(waiters) - 1 : d = waiters[i + 1]
      <4>1. d \in Waiting' <=> d # waiters[1] /\ \E i \in 1..Len(waiters) : d = waiters[i]
        BY <1>w, <2>2, <2>7
      <4>2. ASSUME d # waiters[1], NEW i \in 1..Len(waiters), d = waiters[i]
            PROVE  \E k \in 1..Len(waiters) - 1 : d = waiters[k + 1]
        <5>1. i - 1 \in 1..Len(waiters) - 1 /\ d = waiters[(i - 1) + 1] BY <1>w, <4>2
        <5> QED BY <5>1
      <4>3. ASSUME NEW i \in 1..Len(waiters) - 1, d = waiters[i + 1]
            PROVE  d # waiters[1] /\ i + 1 \in 1..Len(waiters)
        BY <1>w, <2>2, <4>3
      <4> QED BY <4>1, <4>2, <4>3
    <3>3. Waiting' = {waiters'[i] : i \in DOMAIN waiters'}
      <4>1. {waiters'[i] : i \in DOMAIN waiters'} = {waiters[i + 1] : i \in 1..Len(waiters) - 1}
        BY <2>2
      <4>2. Waiting' = {waiters[i + 1] : i \in 1..Len(waiters) - 1} BY <3>2
      <4> QED BY <4>1, <4>2
    <3>4. \A i, j \in DOMAIN waiters' : waiters'[i] = waiters'[j] => i = j
      <4> SUFFICES ASSUME NEW i \in 1..Len(waiters) - 1, NEW j \in 1..Len(waiters) - 1,
                          waiters[i + 1] = waiters[j + 1]
                   PROVE  i = j
        BY <2>2
      <4>1. i + 1 \in 1..Len(waiters) /\ j + 1 \in 1..Len(waiters) BY <1>w
      <4>2. i + 1 = j + 1 BY <1>w, <4>1
      <4> QED BY <4>2
    <3> QED BY <3>1, <3>3, <3>4 DEF NoIdlePermit
  <2>10. \A d \in Conns :
          (conn[d] \in {"waiting", "permitted", "relaying"} <=> task[d] = "relay")'
    BY <1>t, <2>3, <2>4 DEF PoolInv, TypeOK
  <2> QED BY <2>5, <2>8, <2>9, <2>10 DEF PoolInv
<1> QED BY <1>1, <1>2

\* A step that leaves the pool alone and no task enters or leaves relay_grpc.
LEMMA PoolUntouched ==
  ASSUME PoolInv, TypeOK', UNCHANGED poolVars,
         \A d \in Conns : task'[d] = "relay" <=> task[d] = "relay"
  PROVE  PoolInv'
<1>1. UNCHANGED <<permits, waiters, next, conn, chan>> BY DEF poolVars
<1>2. PermitsConserved' BY <1>1 DEF PoolInv, PermitsConserved, Holders, Capacity
<1>3. NoIdlePermit' BY <1>1 DEF PoolInv, NoIdlePermit, Waiting
<1> QED BY <1>1, <1>2, <1>3 DEF PoolInv

-----------------------------------------------------------------------------
(***************************************************************************)
(* The process around the pool.                                            *)
(***************************************************************************)

\* Nothing runs and every permit is free before the listeners are spawned.
LEMMA InitPool == Init => PoolInv
<1> SUFFICES ASSUME Init PROVE PoolInv OBVIOUS
<1>1. TypeOK
  <2>1. 0 \in Channels /\ Capacity \in Nat /\ 0 \in 0..COUNTER - 1
    BY PoolSizes, PoolAssumption DEF Channels
  <2> QED BY <2>1 DEF Init, PoolInit, TypeOK, PoolTypeOK, ConnStates
<1>2. Holders = {} /\ Waiting = {} BY DEF Init, PoolInit, Holders, Waiting
<1>3. PermitsConserved BY <1>2, PoolSizes, FS_EmptySet DEF Init, PoolInit, PermitsConserved
<1>4. NoIdlePermit BY <1>2 DEF Init, PoolInit, NoIdlePermit
<1> QED BY <1>1, <1>3, <1>4 DEF Init, PoolInit, PoolInv

\* Every step of run(), of a listener, of a handler and of a relay.
LEMMA NextPool == PoolInv /\ [Next]_vars => PoolInv'
<1> SUFFICES ASSUME PoolInv, [Next]_vars PROVE PoolInv' OBVIOUS
<1>t. TypeOK BY DEF PoolInv
<1>1. CASE Start \/ StartFails \/ Stop \/ CtrlC
  <2>1. UNCHANGED <<config, listener, task, poolVars>> /\ phase' \in {"running", "stopped", "failed"}
    BY <1>1 DEF Start, StartFails, Stop, CtrlC
  <2>2. TypeOK' BY <1>t, <2>1 DEF TypeOK, PoolTypeOK, poolVars, Channels
  <2> QED BY <2>1, <2>2, PoolUntouched
<1>2. ASSUME NEW l \in Listeners, Bind(l) \/ ListenerFails(l) PROVE PoolInv'
  <2>1. UNCHANGED <<phase, config, task, poolVars>> BY <1>2 DEF Bind, ListenerFails
  <2>2. listener' \in [Listeners -> {"spawned", "accepting", "returned"}]
    BY <1>t, <1>2 DEF TypeOK, Bind, ListenerFails
  <2>3. TypeOK' BY <1>t, <2>1, <2>2 DEF TypeOK, PoolTypeOK, poolVars, Channels
  <2> QED BY <2>1, <2>3, PoolUntouched
<1>3. ASSUME NEW l \in Listeners, NEW c \in Conns, Accept(l, c) PROVE PoolInv'
  <2>1. /\ UNCHANGED <<phase, config, listener, poolVars>> /\ task[c] = "none"
        /\ task' = [task EXCEPT ![c] = "handling"]
    BY <1>3 DEF Accept
  <2>2. TypeOK' BY <1>t, <2>1 DEF TypeOK, PoolTypeOK, poolVars, Channels
  <2>3. \A d \in Conns : task'[d] = "relay" <=> task[d] = "relay" BY <1>t, <2>1 DEF TypeOK
  <2> QED BY <2>1, <2>2, <2>3, PoolUntouched
<1>4. ASSUME NEW c \in Conns, HandlerEnds(c) PROVE PoolInv'
  <2>1. task' = [task EXCEPT ![c] = "none"] /\ UNCHANGED <<phase, config, listener>>
    BY <1>4 DEF HandlerEnds
  <2>2. CASE task[c] = "relay" /\ Release(c) BY <2>1, <2>2, ReleaseStep
  <2>3. CASE task[c] \in {"handling", "no_pool"} /\ UNCHANGED poolVars
    <3>1. TypeOK' BY <1>t, <2>1, <2>3 DEF TypeOK, PoolTypeOK, poolVars, Channels
    <3>2. \A d \in Conns : task'[d] = "relay" <=> task[d] = "relay" BY <1>t, <2>1, <2>3 DEF TypeOK
    <3> QED BY <2>3, <3>1, <3>2, PoolUntouched
  <2> QED BY <1>4, <2>2, <2>3 DEF HandlerEnds
<1>5. ASSUME NEW c \in Conns, PoolStep(c) PROVE PoolInv'
  BY <1>5, PickStep, ClosedStep DEF PoolStep
<1>6. ASSUME NEW c \in Conns, NEW u \in config.users, Relay(c, u) PROVE PoolInv'
  <2>1. task[c] = "handling" /\ UNCHANGED <<phase, config, listener>> BY <1>6 DEF Relay
  <2>2. CASE Acquire(c) /\ task' = [task EXCEPT ![c] = "relay"] BY <2>1, <2>2, AcquireStep
  <2>3. CASE task' = [task EXCEPT ![c] = "no_pool"] /\ UNCHANGED poolVars
    <3>1. TypeOK' BY <1>t, <2>1, <2>3 DEF TypeOK, PoolTypeOK, poolVars, Channels
    <3>2. \A d \in Conns : task'[d] = "relay" <=> task[d] = "relay" BY <1>t, <2>1, <2>3 DEF TypeOK
    <3> QED BY <2>3, <3>1, <3>2, PoolUntouched
  <2> QED BY <1>6, <2>2, <2>3 DEF Relay
<1>7. CASE UNCHANGED vars
  <2>1. UNCHANGED <<phase, config, listener, task, poolVars>> BY <1>7 DEF vars
  <2>2. TypeOK' BY <1>t, <2>1 DEF TypeOK, PoolTypeOK, poolVars, Channels
  <2> QED BY <2>1, <2>2, PoolUntouched
<1> QED BY <1>1, <1>2, <1>3, <1>4, <1>5, <1>6, <1>7 DEF Next

\* Whatever the number of connections and the size of the pool (pool_size = 0 and
\* max_streams_per_channel = 0 included), stream_permits loses and invents no
\* permit and lets nobody wait beside a free one.
THEOREM PoolInvariant == Spec => []PoolInv
  BY InitPool, NextPool, PTL DEF Spec

\* run() spawns its listeners only with users whose backends have a pool.
Validated == phase = "running" => validate_users_backends(config)

\* No user of a client that passed validate_users_backends finds the registry
\* without the pool of his backend.
THEOREM UsersHavePools == Spec => []EveryUserHasPool
<1> DEFINE Inv == Validated /\ EveryUserHasPool
<1>1. Init => Inv BY DEF Init, Validated, EveryUserHasPool
<1>2. PoolInv /\ Inv /\ [Next]_vars => Inv'
  <2> SUFFICES ASSUME PoolInv, Inv, [Next]_vars PROVE Inv' OBVIOUS
  <2>t. task \in [Conns -> {"none", "handling", "relay", "no_pool"}] BY DEF PoolInv, TypeOK
  <2>1. Validated'
    BY DEF Next, vars, Validated, validate_users_backends, Start, StartFails, Stop, CtrlC, Bind,
      ListenerFails, Accept, HandlerEnds, PoolStep, Relay
  <2>2. ASSUME UNCHANGED task PROVE EveryUserHasPool' BY <2>2 DEF EveryUserHasPool
  <2>3. ASSUME NEW c \in Conns, NEW l \in Listeners, Accept(l, c) PROVE EveryUserHasPool'
    BY <2>t, <2>3 DEF Accept, EveryUserHasPool
  <2>4. ASSUME NEW c \in Conns, HandlerEnds(c) PROVE EveryUserHasPool'
    BY <2>t, <2>4 DEF HandlerEnds, EveryUserHasPool
  <2>5. ASSUME NEW c \in Conns, NEW u \in config.users, Relay(c, u) PROVE EveryUserHasPool'
    <3>1. u.backend \in config.backends BY <2>5 DEF Relay, Validated, validate_users_backends
    <3> QED BY <2>t, <2>5, <3>1 DEF Relay, EveryUserHasPool
  <2> QED BY <2>1, <2>2, <2>3, <2>4, <2>5
    DEF Next, vars, Start, StartFails, Stop, CtrlC, Bind, ListenerFails, PoolStep
<1>3. Inv => EveryUserHasPool OBVIOUS
<1> QED BY <1>1, <1>2, <1>3, PoolInvariant, PTL DEF Spec
=============================================================================
