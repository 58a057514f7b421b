------------------------- MODULE EchTransportProofs -------------------------
(***************************************************************************)
(* The channels of EchTransport, for every plan of backends, every TTL and *)
(* limits, and however long the client runs.                               *)
(***************************************************************************)
EXTENDS EchTransport, SequenceTheorems, TLAPS

-----------------------------------------------------------------------------
\* The lifetime of a config in the cache.
Lifetime(c) == Clamped(RecordTtl(c.ttl))

\* The config is what the resolver of the backend said of its name, and it was
\* handed out before it expired.
Suits(c, b) ==
  /\ c.doh = effective_ech_bootstrap_doh(b) /\ c.name = backend_tls_name(b)
  /\ c.chosen < c.fetched + Lifetime(c)

\* A channel as its backend wants it.
Proper(ch, b) ==
  /\ b.ech /\ effective_ech_policy(b) = "strict" => ch.kind = "ech"
  /\ b.scheme = "https" => ch.kind # "plaintext"
  /\ ch.kind = "ech" => Suits(ch.config, b) /\ ch.ca = b.ca_cert

AllProper == \A i \in DOMAIN chans : Proper(chans[i], plan.channels[i])

\* The two caches: an entry belongs to its key, and expires a lifetime after it
\* was fetched.
CacheInv ==
  \A k \in Keys : cache[k] # <<>> =>
    LET e == cache[k][1] IN
      /\ e.config.doh = k[1] /\ e.config.name = k[2]
      /\ e.expires_at = e.config.fetched + Lifetime(e.config)

ConnectorInv == \A ca \in CaFiles : connectors[ca] \in {<<>>, <<ca>>}

\* What connect_channel has established on its way.
StepInv ==
  /\ step \in {"bootstrap", "connector", "handshake"} => Backend.ech
  /\ step \in {"connector", "handshake"} => Suits(config, Backend)
  /\ step = "handshake" => connectors[Backend.ca_cert] = <<Backend.ca_cert>>
  /\ step = "plain" => ~(Backend.ech /\ effective_ech_policy(Backend) = "strict")

EchInv == TypeOK /\ AllProper /\ CacheInv /\ ConnectorInv /\ StepInv

-----------------------------------------------------------------------------
(***************************************************************************)
(* The TTL, the settings and the backend at work.                          *)
(***************************************************************************)
LEMMA TtlLimits ==
  ASSUME NEW t \in Nat
  PROVE  LET l == Clamped(RecordTtl(t))
         IN  /\ l \in Nat /\ l >= 1 /\ l <= MAX_TTL
             /\ t >= MIN_TTL => l <= t
             /\ t \in 1..MIN_TTL => l = MIN_TTL
             /\ t = 0 => l = DEFAULT_TTL
<1>1. /\ MIN_TTL \in Nat /\ MIN_TTL >= 1 /\ MAX_TTL \in Nat /\ DEFAULT_TTL \in Nat
      /\ MIN_TTL <= DEFAULT_TTL /\ DEFAULT_TTL <= MAX_TTL
  BY EchAssumption
<1> QED BY <1>1 DEF Clamped, RecordTtl

LEMMA PlanTyped ==
  ASSUME TypeOK
  PROVE  /\ plan.bootstrap_doh \in Resolvers /\ plan.channels \in Seq(Backends)
         /\ Len(plan.channels) \in Nat /\ Len(chans) \in Nat /\ Len(chans) <= Len(plan.channels)
         /\ DOMAIN chans = 1..Len(chans) /\ DOMAIN plan.channels = 1..Len(plan.channels)
<1>1. plan \in Plans BY EchAssumption DEF TypeOK
<1>2. plan.bootstrap_doh \in Resolvers /\ plan.channels \in Seq(Backends) BY <1>1 DEF Plans
<1>3. Len(plan.channels) \in Nat /\ DOMAIN plan.channels = 1..Len(plan.channels)
  BY <1>2, LenProperties
<1>4. chans \in Seq(Channels) /\ Len(chans) \in 0..Len(plan.channels) BY DEF TypeOK
<1>5. Len(chans) \in Nat /\ DOMAIN chans = 1..Len(chans) BY <1>4, LenProperties
<1> QED BY <1>2, <1>3, <1>4, <1>5

LEMMA BackendTyped ==
  ASSUME TypeOK, step # "running"
  PROVE  Backend \in Backends /\ Len(chans) < Len(plan.channels) /\ Backend.ca_cert \in CaFiles
<1>1. Len(chans) # Len(plan.channels) BY DEF TypeOK
<1>2. Len(chans) < Len(plan.channels) BY <1>1, PlanTyped
<1>3. Len(chans) + 1 \in 1..Len(plan.channels) BY <1>2, PlanTyped
<1>4. Backend \in Backends BY <1>3, PlanTyped, ElementOfSeq DEF Backend
<1> QED BY <1>2, <1>4 DEF Backends

LEMMA KeyTyped ==
  ASSUME TypeOK, NEW b \in Backends, backend_tls_name(b) # NONE
  PROVE  /\ CacheKey(b) \in Keys /\ backend_tls_name(b) \in Names
         /\ effective_ech_bootstrap_doh(b) \in Resolvers
<1>1. /\ b.tls_domain \in Names \cup {NONE} /\ b.ech_name \in Names \cup {NONE} /\ b.host \in Names
      /\ b.ech_bootstrap_doh \in Resolvers \cup {NONE}
  BY DEF Backends
<1>2. backend_tls_name(b) \in Names BY <1>1 DEF backend_tls_name, Or
<1>3. effective_ech_bootstrap_doh(b) \in Resolvers BY <1>1, PlanTyped DEF effective_ech_bootstrap_doh, Or
<1> QED BY <1>2, <1>3 DEF CacheKey, Keys

\* A channel is judged by its backend and by nothing that changes.
LEMMA SameJudgement ==
  ASSUME UNCHANGED plan, NEW b
  PROVE  /\ effective_ech_policy(b)' = effective_ech_policy(b)
         /\ effective_ech_bootstrap_doh(b)' = effective_ech_bootstrap_doh(b)
         /\ backend_tls_name(b)' = backend_tls_name(b)
  BY DEF effective_ech_policy, effective_ech_bootstrap_doh, backend_tls_name, Or

LEMMA InitEch == Init => EchInv
<1> SUFFICES ASSUME Init PROVE EchInv OBVIOUS
<1>1. plan \in Plans /\ plan.channels \in Seq(Backends) BY EchAssumption DEF Init, Plans
<1>2. Len(plan.channels) \in Nat BY <1>1, LenProperties
<1>3. chans = <<>> /\ Len(chans) = 0 /\ DOMAIN chans = {} BY DEF Init
<1>4. TypeOK
  <2>1. chans \in Seq(Channels) /\ Len(chans) \in 0..Len(plan.channels) BY <1>2, <1>3
  <2>2. /\ step = "running" <=> Len(chans) = Len(plan.channels)
        /\ step \in {"bootstrap", "plain", "running"}
    BY <1>2, <1>3 DEF Init, FirstStep
  <2>3. config \in Configs BY DEF Init, NoConfig, Configs, Resolvers, Names
  <2>4. cache \in [Keys -> Entries] BY DEF Init, Entries
  <2>5. connectors \in [CaFiles -> {<<>>} \cup [1..1 -> CaFiles]] BY DEF Init
  <2>6. /\ now \in 0..MAX_TIME /\ published \in 1..MAX_VERSION /\ accepted \subseteq 1..MAX_VERSION
    BY EchAssumption DEF Init
  <2> QED BY <2>1, <2>2, <2>3, <2>4, <2>5, <2>6 DEF Init, TypeOK
<1>5. AllProper BY <1>3 DEF AllProper
<1>6. CacheInv BY DEF Init, CacheInv
<1>7. ConnectorInv BY DEF Init, ConnectorInv
<1>8. StepInv
  <2>1. Backend = plan.channels[1] BY <1>3 DEF Backend
  <2> QED BY <1>3, <2>1 DEF Init, StepInv, FirstStep
<1> QED BY <1>4, <1>5, <1>6, <1>7, <1>8 DEF EchInv

-----------------------------------------------------------------------------
(***************************************************************************)
(* bootstrap_ech_config.                                                   *)
(***************************************************************************)
\* What a step that builds no channel leaves to be shown.
LEMMA ChannelsKept ==
  ASSUME EchInv, UNCHANGED <<plan, chans>>
  PROVE  /\ AllProper' /\ Backend' = Backend
         /\ plan' \in PLANS /\ chans' \in Seq(Channels) /\ Len(chans') \in 0..Len(plan'.channels)
         /\ \A c, b : Suits(c, b)' <=> Suits(c, b)
<1>1. \A c, b : Suits(c, b)' <=> Suits(c, b)
  BY SameJudgement DEF Suits, Lifetime, Clamped, RecordTtl
<1>2. AllProper'
  <2>1. ASSUME NEW i \in DOMAIN chans' PROVE Proper(chans[i], plan.channels[i])'
    <3>1. Proper(chans[i], plan.channels[i]) BY DEF EchInv, AllProper
    <3> QED BY <3>1, SameJudgement DEF Proper, Suits, Lifetime, Clamped, RecordTtl
  <2> QED BY <2>1 DEF AllProper
<1>3. Backend' = Backend BY DEF Backend
<1> QED BY <1>1, <1>2, <1>3 DEF EchInv, TypeOK

LEMMA GetCachedStep == EchInv /\ get_cached => EchInv'
<1> SUFFICES ASSUME EchInv, get_cached PROVE EchInv' OBVIOUS
<1>t. TypeOK BY DEF EchInv
<1> DEFINE k == CacheKey(Backend)
           e == cache[k][1]
<1>1. /\ step = "bootstrap" /\ step' = "connector" /\ backend_tls_name(Backend) # NONE
      /\ UNCHANGED <<envVars, plan, chans, cache, connectors>>
      /\ cache[k] # <<>> /\ e.expires_at > now /\ config' = [e.config EXCEPT !.chosen = now]
  BY DEF get_cached, Bootstrapping, Fresh
<1>2. Backend \in Backends BY <1>1, <1>t, BackendTyped
<1>3. k \in Keys BY <1>1, <1>2, <1>t, KeyTyped
<1>4. e \in [config : Configs, expires_at : Nat]
  <2>1. cache[k] \in Entries BY <1>3, <1>t DEF TypeOK
  <2> QED BY <1>1, <2>1 DEF Entries
<1>5. /\ e.config.doh = k[1] /\ e.config.name = k[2]
      /\ e.expires_at = e.config.fetched + Lifetime(e.config)
  BY <1>1, <1>3 DEF EchInv, CacheInv
<1>6. k[1] = effective_ech_bootstrap_doh(Backend) /\ k[2] = backend_tls_name(Backend) BY DEF CacheKey
<1> HIDE DEF k, e
<1>7. /\ config' \in Configs /\ config'.doh = e.config.doh /\ config'.name = e.config.name
      /\ config'.chosen = now /\ config'.fetched = e.config.fetched /\ config'.ttl = e.config.ttl
  BY <1>1, <1>4, <1>t DEF Configs, TypeOK
<1>8. Suits(config', Backend) BY <1>1, <1>5, <1>6, <1>7 DEF Suits, Lifetime
<1>9. TypeOK' BY <1>1, <1>7, <1>t, ChannelsKept DEF TypeOK, envVars
<1>10. StepInv' BY <1>1, <1>8, ChannelsKept DEF EchInv, StepInv
<1>11. CacheInv' /\ ConnectorInv'
  BY <1>1 DEF EchInv, CacheInv, ConnectorInv, Lifetime, Clamped, RecordTtl
<1> QED BY <1>1, <1>9, <1>10, <1>11, ChannelsKept DEF EchInv

LEMMA FetchedStep == ASSUME EchInv, NEW ttl \in TTLS, Fetched(ttl) PROVE EchInv'
<1>t. TypeOK BY DEF EchInv
<1> DEFINE k == CacheKey(Backend)
           x == now + Clamped(RecordTtl(ttl))
<1>1. /\ step = "bootstrap" /\ step' = "connector" /\ backend_tls_name(Backend) # NONE
      /\ UNCHANGED <<envVars, plan, chans, connectors>>
      /\ config' = [doh |-> effective_ech_bootstrap_doh(Backend), name |-> backend_tls_name(Backend),
                    version |-> published, fetched |-> now, ttl |-> ttl, chosen |-> now]
      /\ cache' = [cache EXCEPT ![k] = <<[config |-> config', expires_at |-> x]>>]
  BY DEF Fetched, Bootstrapping
<1>2. Backend \in Backends BY <1>1, <1>t, BackendTyped
<1>3. k \in Keys /\ backend_tls_name(Backend) \in Names /\ effective_ech_bootstrap_doh(Backend) \in Resolvers
  BY <1>1, <1>2, <1>t, KeyTyped
<1>4. ttl \in Nat /\ now \in Nat /\ published \in Nat BY <1>t, EchAssumption DEF TypeOK
<1>5. Clamped(RecordTtl(ttl)) \in Nat /\ Clamped(RecordTtl(ttl)) >= 1 BY <1>4, TtlLimits
<1>6. config' \in Configs BY <1>1, <1>3, <1>4 DEF Configs
<1>7. k[1] = config'.doh /\ k[2] = config'.name BY <1>1 DEF CacheKey
<1>8. Suits(config', Backend) BY <1>1, <1>4, <1>5 DEF Suits, Lifetime
<1>9. x = config'.fetched + Lifetime(config') /\ x \in Nat BY <1>1, <1>4, <1>5 DEF Lifetime
<1> HIDE DEF k, x
<1>10. cache' \in [Keys -> Entries]
  <2>1. <<[config |-> config', expires_at |-> x]>> \in Entries BY <1>6, <1>9 DEF Entries
  <2> QED BY <1>1, <1>3, <1>t, <2>1 DEF TypeOK
<1>11. TypeOK' BY <1>1, <1>6, <1>10, <1>t, ChannelsKept DEF TypeOK, envVars
<1>12. CacheInv'
  <2> SUFFICES ASSUME NEW j \in Keys, cache'[j] # <<>>
               PROVE  /\ cache'[j][1].config.doh = j[1] /\ cache'[j][1].config.name = j[2]
                      /\ cache'[j][1].expires_at
                           = cache'[j][1].config.fetched + Lifetime(cache'[j][1].config)
    BY DEF CacheInv, Lifetime, Clamped, RecordTtl
  <2>1. CASE j = k
    <3>1. cache'[j] = <<[config |-> config', expires_at |-> x]>> BY <1>1, <1>3, <1>t, <2>1 DEF TypeOK
    <3> QED BY <1>7, <1>9, <2>1, <3>1
  <2>2. CASE j # k
    <3>1. cache'[j] = cache[j] BY <1>1, <1>t, <2>2 DEF TypeOK
    <3> QED BY <3>1 DEF EchInv, CacheInv
  <2> QED BY <2>1, <2>2
<1>13. ConnectorInv' BY <1>1 DEF EchInv, ConnectorInv
<1>14. StepInv' BY <1>1, <1>8, ChannelsKept DEF EchInv, StepInv
<1> QED BY <1>1, <1>11, <1>12, <1>13, <1>14, ChannelsKept DEF EchInv

LEMMA AfterFailureStep ==
  ASSUME UNCHANGED <<plan, chans>>, step' = AfterFailure
  PROVE  /\ step' \in {"failed", "plain"}
         /\ step' = "plain" => ~(Backend.ech /\ effective_ech_policy(Backend) = "strict")'
<1>1. Backend' = Backend BY DEF Backend
<1> QED BY <1>1 DEF AfterFailure, effective_ech_policy, Or

LEMMA FetchFailsStep == EchInv /\ FetchFails => EchInv'
<1> SUFFICES ASSUME EchInv, FetchFails PROVE EchInv' OBVIOUS
<1>t. TypeOK BY DEF EchInv
<1> DEFINE k == CacheKey(Backend)
<1>1. /\ step = "bootstrap" /\ step' = AfterFailure /\ backend_tls_name(Backend) # NONE
      /\ UNCHANGED <<envVars, plan, chans, config, connectors>>
      /\ cache' = [cache EXCEPT ![k] = <<>>]
  BY DEF FetchFails, Bootstrapping
<1>2. k \in Keys BY <1>1, <1>t, BackendTyped, KeyTyped
<1> HIDE DEF k
<1>3. cache' \in [Keys -> Entries] BY <1>1, <1>t DEF TypeOK, Entries
<1>4. TypeOK' BY <1>1, <1>3, <1>t, AfterFailureStep, ChannelsKept DEF TypeOK, envVars
<1>5. CacheInv'
  <2>1. ASSUME NEW j \in Keys, cache'[j] # <<>> PROVE cache'[j] = cache[j]
    BY <1>1, <1>t, <2>1 DEF TypeOK
  <2> QED BY <2>1 DEF EchInv, CacheInv, Lifetime, Clamped, RecordTtl
<1>6. ConnectorInv' BY <1>1 DEF EchInv, ConnectorInv
<1>7. StepInv' BY <1>1, AfterFailureStep DEF StepInv
<1> QED BY <1>1, <1>4, <1>5, <1>6, <1>7, ChannelsKept DEF EchInv

LEMMA GivesUpStep == EchInv /\ (NoTlsName \/ PlainFails) => EchInv'
<1> SUFFICES ASSUME EchInv, NoTlsName \/ PlainFails PROVE EchInv' OBVIOUS
<1>1. /\ step \in {"bootstrap", "plain"} /\ step' = "failed"
      /\ UNCHANGED <<envVars, plan, chans, config, cache, connectors>>
  BY DEF NoTlsName, PlainFails
<1>2. TypeOK' BY <1>1 DEF EchInv, TypeOK, envVars
<1>3. CacheInv' /\ ConnectorInv'
  BY <1>1 DEF EchInv, CacheInv, ConnectorInv, Lifetime, Clamped, RecordTtl
<1>4. StepInv' BY <1>1 DEF StepInv
<1> QED BY <1>1, <1>2, <1>3, <1>4, ChannelsKept DEF EchInv

-----------------------------------------------------------------------------
(***************************************************************************)
(* connect_ech_channel.                                                    *)
(***************************************************************************)
LEMMA EchConnectorStep == EchInv /\ EchConnector => EchInv'
<1> SUFFICES ASSUME EchInv, EchConnector PROVE EchInv' OBVIOUS
<1>t. TypeOK BY DEF EchInv
<1> DEFINE ca == Backend.ca_cert
<1>1. /\ step = "connector" /\ step' = "handshake" /\ UNCHANGED <<envVars, plan, chans, config, cache>>
      /\ connectors' = [connectors EXCEPT ![ca] = IF @ = <<>> THEN <<ca>> ELSE @]
  BY DEF EchConnector, cached_ssl_connector, build_ssl_connector
<1>2. ca \in CaFiles BY <1>1, <1>t, BackendTyped
<1> HIDE DEF ca
<1>3. connectors' \in [CaFiles -> {<<>>} \cup [1..1 -> CaFiles]]
  <2>1. <<ca>> \in [1..1 -> CaFiles] BY <1>2
  <2> QED BY <1>1, <1>2, <1>t, <2>1 DEF TypeOK
<1>4. /\ connectors'[ca] = <<ca>>
      /\ \A c \in CaFiles : c # ca => connectors'[c] = connectors[c]
  <2>1. connectors[ca] \in {<<>>, <<ca>>} BY <1>2 DEF EchInv, ConnectorInv
  <2> QED BY <1>1, <1>2, <1>t, <2>1 DEF TypeOK
<1>5. TypeOK' BY <1>1, <1>3, <1>t, ChannelsKept DEF TypeOK, envVars
<1>6. ConnectorInv' BY <1>4 DEF EchInv, ConnectorInv
<1>7. CacheInv' BY <1>1 DEF EchInv, CacheInv, Lifetime, Clamped, RecordTtl
<1>8. StepInv'
  <2>1. Suits(config, Backend) /\ Backend.ech BY <1>1 DEF EchInv, StepInv
  <2>2. Backend' = Backend /\ Suits(config, Backend)' BY <1>1, <2>1, ChannelsKept, SameJudgement DEF Suits, Lifetime, Clamped, RecordTtl
  <2> QED BY <1>1, <1>4, <2>1, <2>2, ChannelsKept DEF StepInv, ca
<1> QED BY <1>1, <1>5, <1>6, <1>7, <1>8, ChannelsKept DEF EchInv

\* A channel that fits its backend joins the others, and the next backend is
\* begun.
LEMMA BuiltStep ==
  ASSUME EchInv, step # "running", NEW kind \in {"ech", "tls", "plaintext"}, NEW ca \in CaFiles,
         Built(kind, ca),
         Proper([kind |-> kind, config |-> config, ca |-> ca, up |-> TRUE], Backend)
  PROVE  EchInv'
<1>t. TypeOK BY DEF EchInv
<1> DEFINE ch == [kind |-> kind, config |-> config, ca |-> ca, up |-> TRUE]
           n == Len(chans) + 1
<1>1. /\ chans' = Append(chans, ch) /\ step' = FirstStep(plan.channels, n) /\ config' = NoConfig
      /\ UNCHANGED <<envVars, plan, cache, connectors>>
  BY DEF Built
<1>2. ch \in Channels BY <1>t DEF TypeOK, Channels
<1>3. n \in Nat /\ n \in 1..Len(plan.channels) /\ Backend = plan.channels[n] /\ Len(plan.channels) \in Nat
  BY <1>t, PlanTyped, BackendTyped DEF Backend
<1>4. chans \in Seq(Channels) BY <1>t DEF TypeOK
<1> HIDE DEF ch
<1>5. /\ chans' \in Seq(Channels) /\ Len(chans') = n /\ chans'[n] = ch
      /\ \A i \in 1..Len(chans) : chans'[i] = chans[i]
  BY <1>1, <1>2, <1>4, AppendProperties
<1>6. DOMAIN chans' = 1..n BY <1>5, LenProperties
<1>7. DOMAIN chans = 1..Len(chans) /\ Len(chans) \in Nat BY <1>t, PlanTyped
<1>8. /\ step' \in {"bootstrap", "plain", "running"}
      /\ step' = "running" <=> Len(chans') = Len(plan'.channels)
  BY <1>1, <1>3, <1>5 DEF FirstStep
<1>9. TypeOK'
  <2>1. NoConfig \in Configs BY DEF NoConfig, Configs, Resolvers, Names
  <2>2. Len(chans') \in 0..Len(plan'.channels) BY <1>1, <1>3, <1>5
  <2> QED BY <1>1, <1>5, <1>8, <1>t, <2>1, <2>2 DEF TypeOK, envVars
<1>10. AllProper'
  <2>1. ASSUME NEW i \in DOMAIN chans' PROVE Proper(chans'[i], plan.channels[i])
    <3>1. CASE i = n BY <1>3, <1>5, <3>1 DEF ch
    <3>2. CASE i # n
      <4>1. i \in 1..Len(chans) BY <1>6, <1>7, <3>2
      <4> QED BY <1>5, <1>7, <4>1 DEF EchInv, AllProper
    <3> QED BY <3>1, <3>2
  <2>2. ASSUME NEW i \in DOMAIN chans' PROVE Proper(chans[i], plan.channels[i])'
    BY <1>1, <2>1, SameJudgement DEF Proper, Suits, Lifetime, Clamped, RecordTtl
  <2> QED BY <2>2 DEF AllProper
<1>11. CacheInv' /\ ConnectorInv'
  BY <1>1 DEF EchInv, CacheInv, ConnectorInv, Lifetime, Clamped, RecordTtl
<1>12. StepInv'
  <2>1. Backend' = plan.channels[n + 1] BY <1>1, <1>5 DEF Backend
  <2> QED BY <1>1, <2>1 DEF StepInv, FirstStep
<1> QED BY <1>9, <1>10, <1>11, <1>12 DEF EchInv

LEMMA EchConnectedStep == EchInv /\ EchConnected => EchInv'
<1> SUFFICES ASSUME EchInv, EchConnected PROVE EchInv' OBVIOUS
<1>t. TypeOK BY DEF EchInv
<1> DEFINE ca == Backend.ca_cert
<1>1. step = "handshake" /\ Built("ech", connectors[ca][1]) BY DEF EchConnected
<1>2. ca \in CaFiles BY <1>1, <1>t, BackendTyped
<1>3. Suits(config, Backend) /\ connectors[ca] = <<ca>> BY <1>1 DEF EchInv, StepInv
<1>4. connectors[ca][1] = ca BY <1>3
<1>5. Proper([kind |-> "ech", config |-> config, ca |-> ca, up |-> TRUE], Backend) BY <1>3 DEF Proper
<1> HIDE DEF ca
<1> QED BY <1>1, <1>2, <1>4, <1>5, BuiltStep

LEMMA PlainConnectedStep == EchInv /\ PlainConnected => EchInv'
<1> SUFFICES ASSUME EchInv, PlainConnected PROVE EchInv' OBVIOUS
<1>t. TypeOK BY DEF EchInv
<1>1. step = "plain" BY DEF PlainConnected
<1>2. ~(Backend.ech /\ effective_ech_policy(Backend) = "strict") BY <1>1 DEF EchInv, StepInv
<1>3. CASE Backend.scheme = "https" /\ Built("tls", Backend.ca_cert)
  <2>1. Proper([kind |-> "tls", config |-> config, ca |-> Backend.ca_cert, up |-> TRUE], Backend)
    BY <1>2 DEF Proper
  <2>2. Backend.ca_cert \in CaFiles BY <1>1, <1>t, BackendTyped
  <2> QED BY <1>1, <1>3, <2>1, <2>2, BuiltStep
<1>4. CASE Backend.scheme = "http" /\ Built("plaintext", NONE)
  <2>1. Proper([kind |-> "plaintext", config |-> config, ca |-> NONE, up |-> TRUE], Backend)
    BY <1>2, <1>4 DEF Proper
  <2>2. NONE \in CaFiles BY DEF CaFiles
  <2> QED BY <1>1, <1>4, <2>1, <2>2, BuiltStep
<1> QED BY <1>3, <1>4 DEF PlainConnected

LEMMA EchFailsStep == EchInv /\ EchFails => EchInv'
<1> SUFFICES ASSUME EchInv, EchFails PROVE EchInv' OBVIOUS
<1>1. /\ step \in {"connector", "handshake"} /\ step' = AfterFailure /\ config' = NoConfig
      /\ UNCHANGED <<envVars, plan, chans, cache, connectors>>
  BY DEF EchFails
<1>2. NoConfig \in Configs BY DEF NoConfig, Configs, Resolvers, Names
<1>3. TypeOK' BY <1>1, <1>2, AfterFailureStep DEF EchInv, TypeOK, envVars
<1>4. CacheInv' /\ ConnectorInv'
  BY <1>1 DEF EchInv, CacheInv, ConnectorInv, Lifetime, Clamped, RecordTtl
<1>5. StepInv' BY <1>1, AfterFailureStep DEF StepInv
<1> QED BY <1>1, <1>3, <1>4, <1>5, ChannelsKept DEF EchInv

-----------------------------------------------------------------------------
(***************************************************************************)
(* The running client and its environment.                                 *)
(***************************************************************************)
LEMMA UpStep ==
  ASSUME EchInv, NEW i \in DOMAIN chans, Lost(i) \/ Reconnect(i)
  PROVE  EchInv'
<1>t. TypeOK BY DEF EchInv
<1>1. PICK u \in BOOLEAN :
        /\ chans' = [chans EXCEPT ![i] = [chans[i] EXCEPT !.up = u]]
        /\ UNCHANGED <<envVars, plan, step, config, cache, connectors>>
  BY DEF Lost, Reconnect
<1>2. chans \in Seq(Channels) /\ i \in 1..Len(chans) /\ chans[i] \in Channels
  BY <1>t, PlanTyped, ElementOfSeq DEF TypeOK
<1>3. [chans[i] EXCEPT !.up = u] \in Channels BY <1>2 DEF Channels
<1>4. /\ chans' \in Seq(Channels) /\ Len(chans') = Len(chans)
      /\ \A j \in 1..Len(chans) : chans'[j] = IF j = i THEN [chans[i] EXCEPT !.up = u] ELSE chans[j]
  BY <1>1, <1>2, <1>3, ExceptSeq
<1>5. DOMAIN chans' = 1..Len(chans) /\ DOMAIN chans = 1..Len(chans) BY <1>2, <1>4, LenProperties
<1>6. TypeOK' BY <1>1, <1>4, <1>t DEF TypeOK, envVars
<1>7. AllProper'
  <2>1. ASSUME NEW j \in DOMAIN chans' PROVE Proper(chans'[j], plan.channels[j])
    <3>1. Proper(chans[j], plan.channels[j]) BY <1>5 DEF EchInv, AllProper
    <3>2. /\ chans'[j].kind = chans[j].kind /\ chans'[j].config = chans[j].config
          /\ chans'[j].ca = chans[j].ca
      BY <1>2, <1>4, <1>5 DEF Channels
    <3> QED BY <3>1, <3>2 DEF Proper
  <2>2. ASSUME NEW j \in DOMAIN chans' PROVE Proper(chans[j], plan.channels[j])'
    BY <1>1, <2>1, SameJudgement DEF Proper, Suits, Lifetime, Clamped, RecordTtl
  <2> QED BY <2>2 DEF AllProper
<1>8. CacheInv' /\ ConnectorInv'
  BY <1>1 DEF EchInv, CacheInv, ConnectorInv, Lifetime, Clamped, RecordTtl
<1>9. Backend' = Backend BY <1>1, <1>4 DEF Backend
<1>10. StepInv'
  BY <1>1, <1>9, SameJudgement DEF EchInv, StepInv, Suits, Lifetime, Clamped, RecordTtl
<1> QED BY <1>6, <1>7, <1>8, <1>10 DEF EchInv

LEMMA EnvironmentStep ==
  ASSUME EchInv, UNCHANGED clientVars,
         now' \in 0..MAX_TIME, published' \in 1..MAX_VERSION, accepted' \subseteq 1..MAX_VERSION
  PROVE  EchInv'
<1>1. UNCHANGED <<plan, chans, step, config, cache, connectors>> BY DEF clientVars
<1>2. TypeOK' BY <1>1 DEF EchInv, TypeOK
<1>3. CacheInv' /\ ConnectorInv'
  BY <1>1 DEF EchInv, CacheInv, ConnectorInv, Lifetime, Clamped, RecordTtl
<1>4. StepInv' BY <1>1, ChannelsKept, SameJudgement DEF EchInv, StepInv, Suits, Lifetime, Clamped, RecordTtl
<1> QED BY <1>1, <1>2, <1>3, <1>4, ChannelsKept DEF EchInv

LEMMA NextEch == EchInv /\ [Next]_vars => EchInv'
<1> SUFFICES ASSUME EchInv, [Next]_vars PROVE EchInv' OBVIOUS
<1>1. now \in 0..MAX_TIME /\ published \in 1..MAX_VERSION /\ accepted \subseteq 1..MAX_VERSION
  BY DEF EchInv, TypeOK
<1>2. CASE Tick
  <2>1. now' \in 0..MAX_TIME BY <1>1, <1>2, EchAssumption DEF Tick
  <2> QED BY <1>1, <1>2, <2>1, EnvironmentStep DEF Tick
<1>3. CASE Publish
  <2>1. published' \in 1..MAX_VERSION BY <1>1, <1>3, EchAssumption DEF Publish
  <2>2. accepted' \subseteq 1..MAX_VERSION BY <1>1, <1>3, <2>1 DEF Publish
  <2> QED BY <1>1, <1>3, <2>1, <2>2, EnvironmentStep DEF Publish
<1>4. CASE Retire
  <2>1. accepted' \subseteq 1..MAX_VERSION BY <1>1, <1>4 DEF Retire
  <2> QED BY <1>1, <1>4, <2>1, EnvironmentStep DEF Retire
<1>5. CASE UNCHANGED vars BY <1>1, <1>5, EnvironmentStep DEF vars, envVars, clientVars
<1> QED BY <1>2, <1>3, <1>4, <1>5, GetCachedStep, FetchedStep, FetchFailsStep, GivesUpStep,
      EchConnectorStep, EchConnectedStep, EchFailsStep, PlainConnectedStep, UpStep
  DEF Next, ConnectChannel

LEMMA EchInvariant == Spec => []EchInv
  BY InitEch, NextEch, PTL DEF Spec

-----------------------------------------------------------------------------
\* The state of the channels, of the caches and of connect_channel has its type.
THEOREM TypeCorrect == Spec => []TypeOK
<1>1. EchInv => TypeOK BY DEF EchInv
<1> QED BY <1>1, EchInvariant, PTL

\* For every configuration: a strict backend never gets a channel without ECH, and
\* an https endpoint never one without TLS.
THEOREM StrictBackendsStayEncrypted == Spec => []StrictNeverPlain
<1>1. EchInv => StrictNeverPlain BY DEF EchInv, AllProper, Proper, StrictNeverPlain
<1> QED BY <1>1, EchInvariant, PTL

\* For every configuration, TTL and limit: no channel is built with the config of
\* another backend or resolver, with other roots, or with a config older than the
\* lifetime the code gives it (DEFAULT_TTL for a TTL of 0).
THEOREM ConfigsAreFresh == Spec => []FreshWhenChosen
<1>1. EchInv => FreshWhenChosen
  <2> SUFFICES ASSUME EchInv, NEW i \in DOMAIN chans, chans[i].kind = "ech"
               PROVE  LET b == plan.channels[i]
                          c == chans[i].config
                      IN  /\ c.doh = effective_ech_bootstrap_doh(b) /\ c.name = backend_tls_name(b)
                          /\ chans[i].ca = b.ca_cert
                          /\ c.chosen < c.fetched + MAX_TTL
                          /\ c.ttl >= MIN_TTL => c.chosen < c.fetched + c.ttl
                          /\ c.ttl \in 1..MIN_TTL => c.chosen < c.fetched + MIN_TTL
                          /\ c.ttl = 0 => c.chosen < c.fetched + DEFAULT_TTL
    BY DEF FreshWhenChosen
  <2> DEFINE c == chans[i].config
             l == Clamped(RecordTtl(c.ttl))
  <2>1. TypeOK BY DEF EchInv
  <2>2. c \in Configs
    <3>1. chans \in Seq(Channels) /\ i \in 1..Len(chans) BY <2>1, PlanTyped DEF TypeOK
    <3>2. chans[i] \in Channels BY <3>1, ElementOfSeq
    <3> QED BY <3>2 DEF Channels
  <2>3. c.ttl \in Nat /\ c.fetched \in Nat /\ c.chosen \in Nat BY <2>2 DEF Configs
  <2>4. Suits(c, plan.channels[i]) /\ chans[i].ca = plan.channels[i].ca_cert
    BY DEF EchInv, AllProper, Proper
  <2>5. c.chosen < c.fetched + l BY <2>4 DEF Suits, Lifetime
  <2>6. /\ l \in Nat /\ l <= MAX_TTL /\ (c.ttl >= MIN_TTL => l <= c.ttl)
        /\ c.ttl \in 1..MIN_TTL => l = MIN_TTL
        /\ c.ttl = 0 => l = DEFAULT_TTL
    BY <2>3, TtlLimits
  <2>7. MAX_TTL \in Nat /\ MIN_TTL \in Nat BY EchAssumption
  <2> HIDE DEF c, l
  <2>8. /\ c.chosen < c.fetched + MAX_TTL
        /\ c.ttl >= MIN_TTL => c.chosen < c.fetched + c.ttl
        /\ c.ttl \in 1..MIN_TTL => c.chosen < c.fetched + MIN_TTL
        /\ c.ttl = 0 => c.chosen < c.fetched + DEFAULT_TTL
    BY <2>3, <2>5, <2>6, <2>7
  <2> QED BY <2>4, <2>8 DEF Suits, c
<1> QED BY <1>1, EchInvariant, PTL
-----------------------------------------------------------------------------
(***************************************************************************)
(* Why the start ends: what StartupEnds rests on besides fairness.         *)
(***************************************************************************)
Progress ==
  [bootstrap |-> 0, connector |-> 1, handshake |-> 2, plain |-> 3, failed |-> 4, running |-> 4]

\* A channel is built, which no later step undoes, or connect_channel goes on, or
\* the step is one of the environment or of a channel that was built before, and
\* leaves connect_channel where it is.
StartAdvances ==
  /\ plan' = plan
  /\ \/ Len(chans') = Len(chans) + 1 /\ Len(chans') <= Len(plan.channels)
     \/ Len(chans') = Len(chans) /\ Progress[step'] > Progress[step]
     \/ Len(chans') = Len(chans) /\ UNCHANGED <<step, config, cache, connectors>>

\* The variant of PoolRegistry::connect: once a channel has left a step of
\* connect_channel it does not come back to it.
OneAttempt == [][StartAdvances]_vars

LEMMA BuiltAdvances ==
  ASSUME EchInv, step # "running", NEW kind, NEW ca, Built(kind, ca)
  PROVE  plan' = plan /\ Len(chans') = Len(chans) + 1 /\ Len(chans') <= Len(plan.channels)
<1>t. TypeOK BY DEF EchInv
<1>1. plan' = plan /\ \E ch : chans' = Append(chans, ch) BY DEF Built
<1>2. chans \in Seq(Channels) /\ Len(chans) \in 0..Len(plan.channels) /\ Len(chans) # Len(plan.channels)
  BY <1>t DEF TypeOK
<1>3. Len(plan.channels) \in Nat BY <1>t, PlanTyped
<1>4. Len(chans') = Len(chans) + 1 BY <1>1, <1>2
<1> QED BY <1>1, <1>2, <1>3, <1>4

\* However the DoH server, the handshakes and the plain connects fail, every
\* channel is bootstrapped at most once and connected at most twice, with ECH and
\* then without; the start retries nothing and drops no channel it has built.
THEOREM StartGoesForward == Spec => OneAttempt
<1>1. EchInv /\ [Next]_vars => [StartAdvances]_vars
  <2> SUFFICES ASSUME EchInv, Next PROVE StartAdvances OBVIOUS
  <2>0. chans \in Seq(Channels) BY DEF EchInv, TypeOK
  <2>1. CASE get_cached \/ \E ttl \in TTLS : Fetched(ttl)
    BY <2>1 DEF get_cached, Fetched, Bootstrapping, StartAdvances, Progress
  <2>2. CASE FetchFails \/ EchFails
    <3>1. step \in {"bootstrap", "connector", "handshake"} /\ step' \in {"plain", "failed"}
          /\ UNCHANGED <<plan, chans>>
      BY <2>2 DEF FetchFails, EchFails, Bootstrapping, AfterFailure
    <3> QED BY <3>1 DEF StartAdvances, Progress
  <2>3. CASE NoTlsName \/ EchConnector \/ PlainFails
    BY <2>3 DEF NoTlsName, EchConnector, PlainFails, StartAdvances, Progress
  <2>4. CASE EchConnected BY <2>4, BuiltAdvances DEF EchConnected, StartAdvances
  <2>5. CASE PlainConnected BY <2>5, BuiltAdvances DEF PlainConnected, StartAdvances
  <2>6. ASSUME NEW i \in DOMAIN chans, Lost(i) \/ Reconnect(i) PROVE StartAdvances
    <3>1. /\ UNCHANGED <<plan, step, config, cache, connectors>>
          /\ \E b \in BOOLEAN : chans' = [chans EXCEPT ![i].up = b]
      BY <2>6 DEF Lost, Reconnect
    <3>2. Len(chans') = Len(chans)
      <4>1. DOMAIN chans' = DOMAIN chans BY <3>1
      <4> QED BY <2>0, <3>1, <4>1
    <3> QED BY <3>1, <3>2 DEF StartAdvances
  <2>7. CASE Tick \/ Publish \/ Retire BY <2>7 DEF Tick, Publish, Retire, clientVars, StartAdvances
  <2> QED BY <2>1, <2>2, <2>3, <2>4, <2>5, <2>6, <2>7 DEF Next, ConnectChannel
<1> QED BY <1>1, EchInvariant, PTL DEF Spec, OneAttempt
=============================================================================
