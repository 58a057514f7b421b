---------------------------- MODULE EchTransport ----------------------------
(***************************************************************************)
(* How the client builds its backend channels: PoolRegistry::connect and   *)
(* BackendPool::connect one channel after the other, connect_channel and   *)
(* bootstrap_ech_config of client/src/ech_tls.rs with the cache of         *)
(* ECHConfigs, EchConnector of client/src/ech_connector.rs, and the        *)
(* reconnects that tonic makes later with the connector it was given.      *)
(*                                                                         *)
(* An ECHConfigList is a version number; HttpsRecord is how it is asked    *)
(* for and read.  The operator of the backend may publish a new version in *)
(* DNS and stop accepting old ones at any time.  Time is a counter; the    *)
(* TTL constants are scaled to it.                                         *)
(***************************************************************************)
EXTENDS Naturals, Sequences

CONSTANTS
  PLANS,          \* the channels a client builds, and the [ech] section of its Config
  MIN_TTL,        \* MIN_ECH_CACHE_TTL
  DEFAULT_TTL,    \* DEFAULT_ECH_CACHE_TTL
  MAX_TTL,        \* MAX_ECH_CACHE_TTL
  TTLS,           \* TTLs of the HTTPS record, a u32
  MAX_TIME,       \* bound: clock
  MAX_VERSION,    \* bound: versions the operator publishes
  NONE            \* an option that is not set

Names == {"a", "b"}

Resolvers == {"doh1", "doh2"}

Policies == {"strict", "fallback_plain_tls", "typo"}

CaFiles == {"ca1", NONE}

\* BackendConfig; the endpoint is its scheme ("bad": it does not parse) and host.
Backends ==
  [scheme : {"https", "http", "bad"}, host : Names, tls_domain : Names \cup {NONE},
   ech_name : Names \cup {NONE}, ech : BOOLEAN, ech_policy : Policies \cup {NONE},
   ech_bootstrap_doh : Resolvers \cup {NONE}, ca_cert : CaFiles]

Plans == [bootstrap_doh : Resolvers, policy : Policies, channels : Seq(Backends)]

ASSUME EchAssumption ==
  /\ PLANS \subseteq Plans
  /\ MIN_TTL \in Nat \ {0} /\ MAX_TTL \in Nat /\ DEFAULT_TTL \in MIN_TTL..MAX_TTL
  /\ TTLS \subseteq Nat /\ MAX_TIME \in Nat /\ MAX_VERSION \in Nat \ {0}

VARIABLES
  now,          \* Instant::now()
  published,    \* the version in DNS
  accepted,     \* the versions the backend decrypts
  plan,         \* the channels to build
  chans,        \* the channels built so far
  step,         \* where connect_channel, or the client, is
  config,       \* the config connect_channel holds
  cache,        \* the cached configs, by cache key
  connectors    \* the cached SslConnectors: CA file -> the one it was built with

envVars == <<now, published, accepted>>

vars == <<envVars, plan, chans, step, config, cache, connectors>>

\* A config is known with the server that sent it, the name and the time it was
\* fetched for and at, the TTL of its record and the time it was handed out.
Configs ==
  [doh : Resolvers, name : Names, version : Nat, fetched : Nat, ttl : Nat, chosen : Nat]

Entries == {<<>>} \cup [1..1 -> [config : Configs, expires_at : Nat]]

NoConfig ==
  [doh |-> "doh1", name |-> "a", version |-> 0, fetched |-> 0, ttl |-> 0, chosen |-> 0]

Keys == Resolvers \X Names

Channels == [kind : {"ech", "tls", "plaintext"}, config : Configs, ca : CaFiles, up : BOOLEAN]

TypeOK ==
  /\ now \in 0..MAX_TIME
  /\ published \in 1..MAX_VERSION
  /\ accepted \subseteq 1..MAX_VERSION
  /\ plan \in PLANS
  /\ chans \in Seq(Channels) /\ Len(chans) \in 0..Len(plan.channels)
  /\ step = "running" <=> Len(chans) = Len(plan.channels)
  /\ step \in {"bootstrap", "connector", "handshake", "plain", "running", "failed"}
  /\ config \in Configs
  /\ cache \in [Keys -> Entries]
  /\ connectors \in [CaFiles -> {<<>>} \cup [1..1 -> CaFiles]]

Backend == plan.channels[Len(chans) + 1]

(***************************************************************************)
(* What the settings of a backend come to.                                 *)
(***************************************************************************)
Or(option, default) == IF option = NONE THEN default ELSE option

effective_ech_policy(b) == Or(b.ech_policy, plan.policy)

effective_ech_bootstrap_doh(b) == Or(b.ech_bootstrap_doh, plan.bootstrap_doh)

\* NONE: the endpoint would have to say, and it does not parse.
backend_tls_name(b) ==
  Or(b.tls_domain, Or(b.ech_name, IF b.scheme = "bad" THEN NONE ELSE b.host))

\* Mutation: the last channel is not built.
FirstStepOffByOne(p, k) ==
  IF k + 1 >= Len(p) THEN "running" ELSE IF p[k + 1].ech THEN "bootstrap" ELSE "plain"

FirstStep(p, k) ==
  IF k = Len(p) THEN "running" ELSE IF p[k + 1].ech THEN "bootstrap" ELSE "plain"

Init ==
  /\ now = 0
  /\ published = 1
  /\ accepted = {1}
  /\ plan \in PLANS
  /\ chans = <<>>
  /\ step = FirstStep(plan.channels, 0)
  /\ config = NoConfig
  /\ cache = [k \in Keys |-> <<>>]
  /\ connectors = [ca \in CaFiles |-> <<>>]

-----------------------------------------------------------------------------
\* Mutation: an entry is used for ever.
FreshForever(entry) == entry # <<>>

(***************************************************************************)
(* bootstrap_ech_config.                                                   *)
(***************************************************************************)
Fresh(entry) == entry # <<>> /\ entry[1].expires_at > now

RecordTtl(ttl) == IF ttl = 0 THEN DEFAULT_TTL ELSE ttl

Clamped(ttl) == IF ttl < MIN_TTL THEN MIN_TTL ELSE IF ttl > MAX_TTL THEN MAX_TTL ELSE ttl

CacheKey(b) == <<effective_ech_bootstrap_doh(b), backend_tls_name(b)>>

Bootstrapping == step = "bootstrap" /\ backend_tls_name(Backend) # NONE

get_cached ==
  /\ Bootstrapping
  /\ Fresh(cache[CacheKey(Backend)])
  /\ config' = [cache[CacheKey(Backend)][1].config EXCEPT !.chosen = now]
  /\ step' = "connector"
  /\ UNCHANGED <<envVars, plan, chans, cache, connectors>>

\* The DoH query returned an ECHConfigList; it is cached.
Fetched(ttl) ==
  /\ Bootstrapping
  /\ ~Fresh(cache[CacheKey(Backend)])
  /\ config' = [doh |-> effective_ech_bootstrap_doh(Backend), name |-> backend_tls_name(Backend),
                 version |-> published, fetched |-> now, ttl |-> ttl, chosen |-> now]
  /\ cache' = [cache EXCEPT ![CacheKey(Backend)] =
                 <<[config |-> config', expires_at |-> now + Clamped(RecordTtl(ttl))]>>]
  /\ step' = "connector"
  /\ UNCHANGED <<envVars, plan, chans, connectors>>

\* Any policy but "strict" falls back.
AfterFailure == IF effective_ech_policy(Backend) = "strict" THEN "failed" ELSE "plain"

\* The query or the parsing of its answer failed; the stale entry is gone.
FetchFails ==
  /\ Bootstrapping
  /\ ~Fresh(cache[CacheKey(Backend)])
  /\ cache' = [cache EXCEPT ![CacheKey(Backend)] = <<>>]
  /\ step' = AfterFailure
  /\ UNCHANGED <<envVars, plan, chans, config, connectors>>

\* The first line of connect_channel fails under every policy.
NoTlsName ==
  /\ step = "bootstrap" /\ backend_tls_name(Backend) = NONE
  /\ step' = "failed"
  /\ UNCHANGED <<envVars, plan, chans, config, cache, connectors>>

(***************************************************************************)
(* connect_ech_channel: EchConnector::new with the process-wide cache of   *)
(* SslConnectors, then the connect, which fails unless TLS is verified, h2 *)
(* is negotiated and ECH is accepted.  Retry configs are not used.         *)
(***************************************************************************)
\* The roots of the system and those of the CA file; either may fail to load.
build_ssl_connector(ca) == <<ca>>

cached_ssl_connector(ca) ==
  [connectors EXCEPT ![ca] = IF @ = <<>> THEN build_ssl_connector(ca) ELSE @]

EchConnector ==
  /\ step = "connector"
  /\ Backend.scheme = "https"
  /\ connectors' = cached_ssl_connector(Backend.ca_cert)
  /\ step' = "handshake"
  /\ UNCHANGED <<envVars, plan, chans, config, cache>>

Built(kind, ca) ==
  /\ chans' = Append(chans, [kind |-> kind, config |-> config, ca |-> ca, up |-> TRUE])
  /\ step' = FirstStep(plan.channels, Len(chans) + 1)
  /\ config' = NoConfig
  /\ UNCHANGED <<envVars, plan, cache, connectors>>

Handshake(version) == version \in accepted

EchConnected ==
  /\ step = "handshake"
  /\ Handshake(config.version)
  /\ Built("ech", connectors[Backend.ca_cert][1])

\* Mutation: the policy is not asked.
EchFailsToPlain ==
  /\ step \in {"connector", "handshake"} /\ step' = "plain" /\ config' = NoConfig
  /\ UNCHANGED <<envVars, plan, chans, cache, connectors>>

\* Mutation: the channel is retried for ever.
EchFailsRetries ==
  /\ step \in {"connector", "handshake"} /\ step' = "bootstrap" /\ config' = NoConfig
  /\ UNCHANGED <<envVars, plan, chans, cache, connectors>>

\* The scheme, the roots, the connection or the handshake.
EchFails ==
  /\ step \in {"connector", "handshake"}
  /\ step' = AfterFailure
  /\ config' = NoConfig
  /\ UNCHANGED <<envVars, plan, chans, cache, connectors>>

(***************************************************************************)
(* The rest of connect_channel.  A failed channel fails the start of the   *)
(* client.                                                                 *)
(***************************************************************************)
PlainConnected ==
  /\ step = "plain"
  /\ \/ Backend.scheme = "https" /\ Built("tls", Backend.ca_cert)
     \/ Backend.scheme = "http" /\ Built("plaintext", NONE)

PlainFails ==
  /\ step = "plain"
  /\ step' = "failed"
  /\ UNCHANGED <<envVars, plan, chans, config, cache, connectors>>

-----------------------------------------------------------------------------
(***************************************************************************)
(* A running client: a connection is lost, and tonic calls the channel's   *)
(* own connector again, which still holds the config it was built with.    *)
(***************************************************************************)
Lost(i) ==
  /\ chans[i].up
  /\ chans' = [chans EXCEPT ![i].up = FALSE]
  /\ UNCHANGED <<envVars, plan, step, config, cache, connectors>>

Reconnect(i) ==
  /\ step = "running"
  /\ ~chans[i].up
  /\ chans[i].kind = "ech" => Handshake(chans[i].config.version)
  /\ chans' = [chans EXCEPT ![i].up = TRUE]
  /\ UNCHANGED <<envVars, plan, step, config, cache, connectors>>

(***************************************************************************)
(* The environment: time, and the operator who rotates the ECH keys.       *)
(***************************************************************************)
clientVars == <<plan, chans, step, config, cache, connectors>>

Tick ==
  /\ now < MAX_TIME
  /\ now' = now + 1
  /\ UNCHANGED <<published, accepted, clientVars>>

Publish ==
  /\ published < MAX_VERSION
  /\ published' = published + 1
  /\ accepted' = accepted \cup {published'}
  /\ UNCHANGED <<now, clientVars>>

Retire ==
  /\ \E v \in accepted \ {published} : accepted' = accepted \ {v}
  /\ UNCHANGED <<now, published, clientVars>>

ConnectChannel ==
  \/ get_cached
  \/ \E ttl \in TTLS : Fetched(ttl)
  \/ FetchFails \/ NoTlsName
  \/ EchConnector \/ EchConnected \/ EchFails
  \/ PlainConnected \/ PlainFails

Next ==
  \/ ConnectChannel
  \/ \E i \in DOMAIN chans : Lost(i) \/ Reconnect(i)
  \/ Tick \/ Publish \/ Retire

Spec == Init /\ [][Next]_vars

\* The DoH query and every connect are under a timeout.
FairSpec == Spec /\ WF_vars(ConnectChannel)

-----------------------------------------------------------------------------
\* A backend with ech and the effective policy "strict" never gets a channel
\* without ECH, whether the bootstrap, the connector, the handshake or a later
\* reconnect fails; and what falls back keeps TLS if its endpoint is https.
StrictNeverPlain ==
  \A i \in DOMAIN chans :
    LET b == plan.channels[i] IN
      /\ b.ech /\ effective_ech_policy(b) = "strict" => chans[i].kind = "ech"
      /\ b.scheme = "https" => chans[i].kind # "plaintext"

\* Although all backends share the two caches, a channel gets the ECHConfig that
\* its own resolver gave for its own name, and the roots of its own CA file; and
\* the config is never older than the code lets it be: less than the TTL of its
\* record, or less than MIN_TTL for a shorter one, or less than DEFAULT_TTL for a
\* TTL of 0, which the parser does not take for `do not cache'; and never MAX_TTL.
FreshWhenChosen ==
  \A i \in DOMAIN chans :
    LET b == plan.channels[i]
        c == chans[i].config
    IN  chans[i].kind = "ech" =>
          /\ c.doh = effective_ech_bootstrap_doh(b) /\ c.name = backend_tls_name(b)
          /\ chans[i].ca = b.ca_cert
          /\ c.chosen < c.fetched + MAX_TTL
          /\ c.ttl >= MIN_TTL => c.chosen < c.fetched + c.ttl
          /\ c.ttl \in 1..MIN_TTL => c.chosen < c.fetched + MIN_TTL
          /\ c.ttl = 0 => c.chosen < c.fetched + DEFAULT_TTL

\* PoolRegistry::connect returns: with every channel of every backend, or the
\* client does not start.
StartupEnds == <>(step = "failed" \/ (step = "running" /\ Len(chans) = Len(plan.channels)))
=============================================================================
