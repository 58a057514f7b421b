------------------------ MODULE ServerAdmissionProofs ------------------------
(***************************************************************************)
(* The admission and the dial of ServerAdmission, for every set of tokens, *)
(* headers, settings, addresses, names and ports.                          *)
(***************************************************************************)
EXTENDS ServerAdmission, SequenceTheorems, TLAPS

-----------------------------------------------------------------------------
\* What a call knows of its target.  Before the resolver answered there is no
\* candidate and nothing was dialled; the candidates passed the whole of
\* resolve_target and the peer passed check_connected_addr.
DialInv ==
  /\ stage \in {"none", "call", "unauthenticated", "first", "opened", "resolving"} =>
       addrs = <<>> /\ peer = NO_ADDR
  /\ stage \in {"connecting", "writing", "open"} => addrs # <<>>
  /\ stage = "resolving" \/ addrs # <<>> => PortOk(open.port) /\ validate_host(open.host)
  /\ \A i \in DOMAIN addrs : check_ip(addrs[i])
  /\ peer # NO_ADDR => check_ip(peer)
  /\ stage = "connecting" => \A i \in DOMAIN tried : tried[i] \in {"failed", "timeout"}
  /\ stage \in {"writing", "open"} => tried # <<>> /\ tried[Len(tried)] = "connected"
  /\ delivered # "none" => tried # <<>>

\* What TokenAuth knows: the tokens are those of a configuration the server could
\* start with, and nobody came in without one of them.
AuthInv ==
  /\ boot \in {"plaintext", "tls"} =>
       Startable(Read(settings)) /\ tokens = EnvTokens(Read(settings))
  /\ stage \notin {"none", "call"} => (stage # "unauthenticated" <=> authenticate(header))

AdmissionInv == TypeOK /\ DialInv /\ AllTried /\ AuthInv

-----------------------------------------------------------------------------
(***************************************************************************)
(* Answers of the resolver and outcomes of the attempts are sequences.     *)
(***************************************************************************)
Outcomes == {"failed", "timeout", "denied", "connected"}

LEMMA ListIsSeq ==
  ASSUME NEW l \in Lists
  PROVE  l \in Seq(ADDRS) /\ Len(l) \in Nat /\ DOMAIN l = 1..Len(l)
<1>1. PICK k \in 0..MAX_ADDRS : l \in [1..k -> ADDRS] BY DEF Lists
<1>2. k \in Nat BY PolicyAssumption
<1>3. l \in Seq(ADDRS) BY <1>1, <1>2, SeqDef
<1> QED BY <1>3, LenProperties

LEMMA OneAddress == ASSUME NEW a \in ADDRS PROVE <<a>> \in Lists
<1>1. <<a>> \in [1..1 -> ADDRS] OBVIOUS
<1>2. 1 \in 0..MAX_ADDRS BY PolicyAssumption
<1> QED BY <1>1, <1>2 DEF Lists

LEMMA TriedStep ==
  ASSUME DialTypeOK, NEW o \in Outcomes, Trying, Tried(o)
  PROVE  /\ tried' \in Seq(Outcomes) /\ Len(tried') = Len(tried) + 1 /\ Len(tried') <= Len(addrs)
         /\ tried' # <<>> /\ tried'[Len(tried')] = o /\ Len(tried) \in Nat
         /\ DOMAIN tried = 1..Len(tried) /\ DOMAIN tried' = 1..(Len(tried) + 1)
         /\ \A i \in 1..Len(tried) : tried'[i] = tried[i]
<1>1. tried \in Seq(Outcomes) BY DEF DialTypeOK, Outcomes
<1>2. Len(tried) \in Nat /\ DOMAIN tried = 1..Len(tried) BY <1>1, LenProperties
<1>3. Len(addrs) \in Nat BY ListIsSeq DEF DialTypeOK
<1>4. tried' = Append(tried, o) BY DEF Tried
<1>5. tried' \in Seq(Outcomes) /\ tried' # <<>> /\ Len(tried') = Len(tried) + 1
  BY <1>1, <1>4, AppendProperties
<1>6. /\ \A i \in 1..Len(tried) : tried'[i] = tried[i]
      /\ tried'[Len(tried) + 1] = o
  BY <1>1, <1>4, AppendProperties
<1>7. DOMAIN tried' = 1..(Len(tried) + 1) BY <1>5, LenProperties
<1> QED BY <1>2, <1>3, <1>5, <1>6, <1>7 DEF Trying

-----------------------------------------------------------------------------
(***************************************************************************)
(* The start and the admission.                                            *)
(***************************************************************************)
LEMMA ReadTyped ==
  ASSUME NEW s \in SETTINGS
  PROVE  LET c == Read(s)
         IN  /\ c.tokens \subseteq Tokens /\ c.allowed_ports \subseteq 0..MAX_PORT
             /\ c.deny_private_ip \in BOOLEAN /\ c.cert \in BOOLEAN /\ c.key \in BOOLEAN
             /\ c.TOKENS \in {<<>>} \cup [1..1 -> SUBSET Tokens] /\ c.TOKENS = s.TOKENS
             /\ c.file = s.file /\ s.file \in {"none", "bad", "ok"}
             /\ c.tokens = IF s.file = "none" THEN {} ELSE s.tokens
  BY AdmissionAssumption DEF Read, DefaultConfig

LEMMA EnvTokensTyped == ASSUME NEW s \in SETTINGS PROVE EnvTokens(Read(s)) \subseteq Tokens
<1> DEFINE c == Read(s)
<1>1. c.tokens \subseteq Tokens /\ c.TOKENS \in {<<>>} \cup [1..1 -> SUBSET Tokens]
  BY ReadTyped
<1>2. CASE c.TOKENS = <<>> BY <1>1, <1>2 DEF EnvTokens
<1>3. CASE c.TOKENS # <<>>
  <2>1. c.TOKENS[1] \subseteq Tokens BY <1>1, <1>3
  <2>2. ASSUME NEW x \in parse_tokens(c.TOKENS[1]) PROVE x \in Tokens
    <3>1. PICK t \in c.TOKENS[1] : x = [text |-> t.text, pad |-> FALSE] BY DEF parse_tokens
    <3>2. t.text \in TEXTS \cup {BLANK} BY <2>1 DEF Tokens
    <3> QED BY <3>1, <3>2 DEF Tokens
  <2> QED BY <1>3, <2>2 DEF EnvTokens
<1> QED BY <1>2, <1>3

LEMMA InitAdmission == Init => AdmissionInv
<1> SUFFICES ASSUME Init PROVE AdmissionInv OBVIOUS
<1>1. <<>> \in Lists
  <2>1. <<>> \in [1..0 -> ADDRS] OBVIOUS
  <2>2. 0 \in 0..MAX_ADDRS BY PolicyAssumption
  <2> QED BY <2>1, <2>2 DEF Lists
<1>2. TypeOK BY <1>1 DEF Init, TypeOK, DialTypeOK
<1>3. DialInv BY DEF Init, DialInv
<1>4. AllTried BY DEF Init, AllTried
<1>5. AuthInv BY DEF Init, AuthInv
<1> QED BY <1>2, <1>3, <1>4, <1>5 DEF AdmissionInv

LEMMA StartStep == AdmissionInv /\ Start => AdmissionInv'
<1> SUFFICES ASSUME AdmissionInv, Start PROVE AdmissionInv' OBVIOUS
<1> USE DEF AdmissionInv
<1> DEFINE c == Read(settings)
<1>1. /\ boot = "starting" /\ stage = "none" /\ settings \in SETTINGS
      /\ boot' = Transport(c) /\ tokens' = EnvTokens(c)
      /\ policy' = [deny_private_ip |-> c.deny_private_ip, allowed_ports |-> c.allowed_ports]
      /\ UNCHANGED <<settings, header, stage, open, addrs, tried, peer, delivered>>
      /\ Startable(c)
  BY DEF Start, TypeOK
<1>2. /\ policy' \in [deny_private_ip : BOOLEAN, allowed_ports : SUBSET (0..MAX_PORT)]
      /\ boot' \in {"plaintext", "tls"} /\ tokens' \subseteq Tokens
  BY <1>1, ReadTyped, EnvTokensTyped DEF Transport
<1>3. TypeOK' BY <1>1, <1>2 DEF TypeOK, DialTypeOK, Lists, Opens, Hosts
<1>4. DialInv'
  <2>1. addrs = <<>> BY <1>1 DEF DialInv
  <2>2. Len(tried) = 0 /\ tried \in Seq(Outcomes) BY <2>1, <1>1 DEF TypeOK, DialTypeOK, Outcomes
  <2>3. tried = <<>> BY <2>2, EmptySeq
  <2>4. peer = NO_ADDR BY <1>1 DEF DialInv
  <2> QED BY <1>1, <2>1, <2>3, <2>4 DEF DialInv
<1>5. AllTried' BY <1>1 DEF AllTried
<1>6. AuthInv' BY <1>1 DEF AuthInv
<1> QED BY <1>3, <1>4, <1>5, <1>6

LEMMA StartFailsStep == AdmissionInv /\ StartFails => AdmissionInv'
<1> SUFFICES ASSUME AdmissionInv, StartFails PROVE AdmissionInv' OBVIOUS
<1> USE DEF AdmissionInv
<1>1. /\ boot = "starting" /\ stage = "none" /\ boot' = "failed"
      /\ UNCHANGED <<settings, tokens, header, policy, stage, open, addrs, tried, peer, delivered>>
  BY DEF StartFails, TypeOK, dialVars
<1>2. TypeOK' BY <1>1 DEF TypeOK, DialTypeOK, Lists, Opens, Hosts
<1>3. DialInv' BY <1>1 DEF DialInv, PortOk, validate_host, check_ip
<1>4. AllTried' BY <1>1 DEF AllTried
<1>5. AuthInv' BY <1>1 DEF AuthInv
<1> QED BY <1>2, <1>3, <1>4, <1>5

LEMMA CallStep ==
  ASSUME AdmissionInv, NEW h \in HEADERS, NEW o \in Opens, Call(h, o)
  PROVE  AdmissionInv'
<1> USE DEF AdmissionInv
<1>1. /\ boot \in {"plaintext", "tls"} /\ stage = "none"
      /\ stage' = "call" /\ header' = h /\ open' = o
      /\ UNCHANGED <<boot, settings, tokens, policy, addrs, tried, peer, delivered>>
  BY DEF Call
<1>2. TypeOK' BY <1>1 DEF TypeOK, DialTypeOK, Lists, Opens, Hosts
<1>3. DialInv' BY <1>1 DEF DialInv, check_ip
<1>4. AllTried' BY <1>1 DEF AllTried
<1>5. AuthInv' BY <1>1 DEF AuthInv
<1> QED BY <1>2, <1>3, <1>4, <1>5

LEMMA AuthenticateStep == AdmissionInv /\ Authenticate => AdmissionInv'
<1> SUFFICES ASSUME AdmissionInv, Authenticate PROVE AdmissionInv' OBVIOUS
<1> USE DEF AdmissionInv
<1>1. /\ stage = "call" /\ stage' = IF authenticate(header) THEN "first" ELSE "unauthenticated"
      /\ UNCHANGED <<boot, settings, tokens, header, policy, open, addrs, tried, peer, delivered>>
  BY DEF Authenticate
<1>2. TypeOK' BY <1>1 DEF TypeOK, DialTypeOK, Lists, Opens, Hosts
<1>3. DialInv' BY <1>1 DEF DialInv, check_ip
<1>4. AllTried' BY <1>1 DEF AllTried
<1>5. AuthInv' BY <1>1 DEF AuthInv, authenticate
<1> QED BY <1>2, <1>3, <1>4, <1>5

LEMMA FirstFrameStep == AdmissionInv /\ FirstFrame => AdmissionInv'
<1> SUFFICES ASSUME AdmissionInv, FirstFrame PROVE AdmissionInv' OBVIOUS
<1> USE DEF AdmissionInv
<1>1. /\ stage = "first" /\ stage' = "opened"
      /\ UNCHANGED <<boot, settings, tokens, header, policy, open, addrs, tried, peer, delivered>>
  BY DEF FirstFrame
<1>2. TypeOK' BY <1>1 DEF TypeOK, DialTypeOK, Lists, Opens, Hosts, DialStages
<1>3. DialInv' BY <1>1 DEF DialInv, check_ip
<1>4. AllTried' BY <1>1 DEF AllTried
<1>5. AuthInv' BY <1>1 DEF AuthInv, authenticate
<1> QED BY <1>2, <1>3, <1>4, <1>5

-----------------------------------------------------------------------------
(***************************************************************************)
(* The dial.  A step of it leaves the server, the header and the Open      *)
(* alone, so that what is left to show is about dialVars.                  *)
(***************************************************************************)
Server == <<boot, settings, tokens, header, policy, open>>

DialStageSet == {"open", "refused"} \cup DialStages

LEMMA DialFrame ==
  ASSUME AdmissionInv, UNCHANGED Server, stage \in DialStages, stage' \in DialStageSet,
         addrs' \in Lists, tried' \in Seq(Outcomes), Len(tried') <= Len(addrs'),
         peer' \in ADDRS \cup {NO_ADDR}, delivered' \in {"none", "part", "all"}
  PROVE  TypeOK' /\ AuthInv'
<1> USE DEF AdmissionInv
<1>1. UNCHANGED <<boot, settings, tokens, header, policy, open>> BY DEF Server
<1>2. stage \notin {"none", "call", "unauthenticated"} /\ stage' \notin {"none", "call", "unauthenticated"}
  BY DEF DialStages, DialStageSet
<1>3. boot \notin {"starting", "failed"} BY <1>2 DEF TypeOK
<1>4. DialTypeOK' BY <1>1 DEF TypeOK, DialTypeOK, Opens, Hosts, Outcomes, Lists
<1>5. TypeOK' BY <1>1, <1>3, <1>4 DEF TypeOK, DialStageSet
<1>6. AuthInv' BY <1>1, <1>2 DEF AuthInv, authenticate
<1> QED BY <1>5, <1>6

LEMMA DialFacts ==
  ASSUME AdmissionInv
  PROVE  /\ addrs \in Lists /\ tried \in Seq(Outcomes) /\ Len(tried) <= Len(addrs)
         /\ peer \in ADDRS \cup {NO_ADDR} /\ delivered \in {"none", "part", "all"}
         /\ Len(tried) \in Nat /\ DOMAIN tried = 1..Len(tried)
         /\ Len(addrs) \in Nat /\ DOMAIN addrs = 1..Len(addrs)
         /\ addrs = <<>> => tried = <<>>
<1>1. /\ addrs \in Lists /\ tried \in Seq(Outcomes) /\ Len(tried) <= Len(addrs)
      /\ peer \in ADDRS \cup {NO_ADDR} /\ delivered \in {"none", "part", "all"}
  BY DEF AdmissionInv, TypeOK, DialTypeOK, Outcomes
<1>2. Len(tried) \in Nat /\ DOMAIN tried = 1..Len(tried) BY <1>1, LenProperties
<1>3. Len(addrs) \in Nat /\ DOMAIN addrs = 1..Len(addrs) BY <1>1, ListIsSeq
<1>4. addrs = <<>> => tried = <<>>
  <2> HAVE addrs = <<>>
  <2>1. Len(tried) = 0 BY <1>1, <1>2
  <2> QED BY <1>1, <2>1, EmptySeq
<1> QED BY <1>1, <1>2, <1>3, <1>4

\* Every refusal but the one of a denied peer only moves the stage.
LEMMA RefuseStep ==
  ASSUME AdmissionInv, UNCHANGED Server, stage \in DialStages, Refuse,
         addrs # <<>> => \/ Len(tried) = Len(addrs) /\ \A i \in DOMAIN tried : tried[i] \in {"failed", "timeout"}
                         \/ tried # <<>> /\ tried[Len(tried)] = "connected" /\ open.payload
  PROVE  AdmissionInv'
<1>1. stage' = "refused" /\ UNCHANGED <<policy, open, addrs, tried, peer, delivered>> BY DEF Refuse
<1>2. TypeOK' /\ AuthInv' BY <1>1, DialFacts, DialFrame DEF DialStageSet
<1>3. DialInv' BY <1>1 DEF AdmissionInv, DialInv, check_ip, PortOk, validate_host
<1>4. AllTried'
  <2>1. addrs # <<>> => \/ Len(tried) = Len(addrs) /\ \A i \in DOMAIN tried : tried[i] \in {"failed", "timeout"}
                        \/ tried # <<>> /\ tried[Len(tried)] = "connected" /\ open.payload
    OBVIOUS
  <2> QED BY <1>1, <2>1 DEF AdmissionInv, AllTried
<1> QED BY <1>2, <1>3, <1>4 DEF AdmissionInv

LEMMA CheckOpenStep == AdmissionInv /\ CheckOpen /\ UNCHANGED Server => AdmissionInv'
<1> SUFFICES ASSUME AdmissionInv, CheckOpen, UNCHANGED Server PROVE AdmissionInv' OBVIOUS
<1>1. stage = "opened" /\ addrs = <<>> /\ stage \in DialStages
  BY DEF CheckOpen, AdmissionInv, DialInv, DialStages
<1>2. CASE PortOk(open.port) /\ validate_host(open.host)
  <2>1. stage' = "resolving" /\ UNCHANGED <<policy, open, addrs, tried, peer, delivered>>
    BY <1>2 DEF CheckOpen
  <2>2. TypeOK' /\ AuthInv' BY <1>1, <2>1, DialFacts, DialFrame DEF DialStageSet, DialStages
  <2>3. DialInv' BY <1>1, <1>2, <2>1 DEF AdmissionInv, DialInv, check_ip, PortOk, validate_host
  <2>4. AllTried' BY <1>1, <2>1, DialFacts DEF AdmissionInv, AllTried
  <2> QED BY <2>2, <2>3, <2>4 DEF AdmissionInv
<1>3. CASE ~(PortOk(open.port) /\ validate_host(open.host))
  <2>1. Refuse BY <1>3 DEF CheckOpen
  <2> QED BY <1>1, <2>1, RefuseStep
<1> QED BY <1>2, <1>3

LEMMA ResolvedStep ==
  ASSUME AdmissionInv, NEW answer \in Lists, Resolved(answer), UNCHANGED Server
  PROVE  AdmissionInv'
<1>1. stage = "resolving" /\ addrs = <<>> /\ stage \in DialStages /\ tried = <<>> /\ peer = NO_ADDR
  BY DialFacts DEF Resolved, AdmissionInv, DialInv, DialStages
<1>2. CASE answer # <<>> /\ \A i \in DOMAIN answer : check_ip(answer[i])
  <2>1. stage' = "connecting" /\ addrs' = answer /\ UNCHANGED <<policy, open, tried, peer, delivered>>
    BY <1>2 DEF Resolved
  <2>2. Len(tried') <= Len(addrs') BY <1>1, <2>1, ListIsSeq
  <2>3. TypeOK' /\ AuthInv' BY <1>1, <2>1, <2>2, DialFacts, DialFrame DEF DialStageSet, DialStages
  <2>4. DialInv'
    <3>1. PortOk(open.port) /\ validate_host(open.host) /\ delivered = "none"
      BY <1>1 DEF AdmissionInv, DialInv
    <3> QED BY <1>1, <1>2, <2>1, <3>1 DEF DialInv, check_ip, PortOk, validate_host
  <2>5. AllTried' BY <1>1, <2>1 DEF AllTried
  <2> QED BY <2>3, <2>4, <2>5 DEF AdmissionInv
<1>3. CASE ~(answer # <<>> /\ \A i \in DOMAIN answer : check_ip(answer[i]))
  <2>1. Refuse BY <1>3 DEF Resolved
  <2> QED BY <1>1, <2>1, RefuseStep
<1> QED BY <1>2, <1>3

LEMMA ConnectFailsStep ==
  ASSUME AdmissionInv, NEW o \in {"failed", "timeout"}, ConnectFails(o), UNCHANGED Server
  PROVE  AdmissionInv'
<1>1. /\ stage = "connecting" /\ stage \in DialStages /\ Trying /\ Tried(o) /\ o \in Outcomes
      /\ UNCHANGED <<policy, stage, open, addrs, peer, delivered>> /\ DialTypeOK
  BY DEF ConnectFails, Trying, DialStages, Outcomes, AdmissionInv, TypeOK
<1>2. /\ tried' \in Seq(Outcomes) /\ Len(tried') <= Len(addrs) /\ tried' # <<>>
      /\ DOMAIN tried = 1..Len(tried) /\ DOMAIN tried' = 1..(Len(tried) + 1) /\ Len(tried) \in Nat
      /\ \A i \in 1..Len(tried) : tried'[i] = tried[i]
      /\ tried'[Len(tried) + 1] = o
  BY <1>1, TriedStep
<1>3. TypeOK' /\ AuthInv' BY <1>1, <1>2, DialFacts, DialFrame DEF DialStageSet
<1>4. \A i \in DOMAIN tried' : tried'[i] \in {"failed", "timeout"}
  <2>1. \A i \in DOMAIN tried : tried[i] \in {"failed", "timeout"} BY <1>1 DEF AdmissionInv, DialInv
  <2> QED BY <1>2, <2>1
<1>5. DialInv' BY <1>1, <1>2, <1>4 DEF AdmissionInv, DialInv, check_ip, PortOk, validate_host
<1>6. AllTried' BY <1>1, <1>4 DEF AllTried
<1> QED BY <1>3, <1>5, <1>6 DEF AdmissionInv

LEMMA ConnectedStep ==
  ASSUME AdmissionInv, NEW p \in ADDRS \cup {NO_ADDR}, Connected(p), UNCHANGED Server
  PROVE  AdmissionInv'
<1> DEFINE o == IF p = NO_ADDR \/ check_ip(p) THEN "connected" ELSE "denied"
<1>1. /\ stage = "connecting" /\ stage \in DialStages /\ Trying /\ Tried(o) /\ o \in Outcomes
      /\ UNCHANGED <<policy, open, addrs, delivered>> /\ DialTypeOK
      /\ \/ stage' = "writing" /\ o = "connected" /\ peer' = p /\ (p = NO_ADDR \/ check_ip(p))
         \/ stage' = "refused" /\ o = "denied" /\ peer' = peer
  BY DEF Connected, Trying, DialStages, Outcomes, AdmissionInv, TypeOK
<1> HIDE DEF o
<1>2. /\ tried' \in Seq(Outcomes) /\ Len(tried') <= Len(addrs) /\ tried' # <<>>
      /\ DOMAIN tried = 1..Len(tried) /\ DOMAIN tried' = 1..(Len(tried) + 1) /\ Len(tried) \in Nat
      /\ \A i \in 1..Len(tried) : tried'[i] = tried[i]
      /\ tried'[Len(tried')] = o /\ Len(tried') = Len(tried) + 1
  BY <1>1, TriedStep
<1>3. TypeOK' /\ AuthInv' BY <1>1, <1>2, DialFacts, DialFrame DEF DialStageSet, DialStages
<1>4. \A i \in DOMAIN tried' : i = Len(tried') \/ tried'[i] \in {"failed", "timeout"}
  <2>1. \A i \in DOMAIN tried : tried[i] \in {"failed", "timeout"} BY <1>1 DEF AdmissionInv, DialInv
  <2> QED BY <1>2, <2>1
<1>5. DialInv' BY <1>1, <1>2, <1>4 DEF AdmissionInv, DialInv, check_ip, PortOk, validate_host
<1>6. AllTried' BY <1>1, <1>2, <1>4 DEF AllTried
<1> QED BY <1>3, <1>5, <1>6 DEF AdmissionInv

LEMMA ExhaustedStep == AdmissionInv /\ Exhausted /\ UNCHANGED Server => AdmissionInv'
<1> SUFFICES ASSUME AdmissionInv, Exhausted, UNCHANGED Server PROVE AdmissionInv' OBVIOUS
<1>1. /\ stage = "connecting" /\ stage \in DialStages /\ Len(tried) = Len(addrs) /\ Refuse
      /\ \A i \in DOMAIN tried : tried[i] \in {"failed", "timeout"}
  BY DEF Exhausted, DialStages, AdmissionInv, DialInv
<1> QED BY <1>1, RefuseStep

\* The write of first_payload: what is written goes to the peer that was checked.
LEMMA PayloadStep ==
  ASSUME AdmissionInv, PayloadPart \/ Opened \/ PayloadFails, UNCHANGED Server
  PROVE  AdmissionInv'
<1>1. /\ stage = "writing" /\ stage \in DialStages /\ addrs # <<>>
      /\ tried # <<>> /\ tried[Len(tried)] = "connected"
  BY DEF PayloadPart, Opened, PayloadFails, DialStages, AdmissionInv, DialInv
<1>2. CASE PayloadPart \/ Opened
  <2>1. /\ stage' \in {"writing", "open"} /\ delivered' \in {"none", "part", "all"}
        /\ UNCHANGED <<policy, open, addrs, tried, peer>>
    BY <1>1, <1>2 DEF PayloadPart, Opened
  <2>2. TypeOK' /\ AuthInv' BY <1>1, <2>1, DialFacts, DialFrame DEF DialStageSet, DialStages
  <2>3. DialInv' BY <1>1, <2>1 DEF AdmissionInv, DialInv, check_ip, PortOk, validate_host
  <2>4. AllTried' BY <1>1, <2>1 DEF AdmissionInv, AllTried
  <2> QED BY <2>2, <2>3, <2>4 DEF AdmissionInv
<1>3. CASE PayloadFails BY <1>1, <1>3, RefuseStep DEF PayloadFails
<1> QED BY <1>2, <1>3

LEMMA DialKeepsServer == DialStep => UNCHANGED Server
  BY DEF DialStep, Dial, Server, CheckOpen, Resolve, Resolved, ResolveFails, Refuse, ConnectFails,
    Connected, Exhausted, PayloadPart, Opened, PayloadFails

LEMMA DialStepInv == AdmissionInv /\ DialStep => AdmissionInv'
<1> SUFFICES ASSUME AdmissionInv, DialStep PROVE AdmissionInv' OBVIOUS
<1>1. UNCHANGED Server BY DialKeepsServer
<1>2. CASE Resolve
  <2>1. CASE open.host \in ADDRS /\ Resolved(<<open.host>>)
    BY <1>1, <2>1, OneAddress, ResolvedStep
  <2>2. CASE \E answer \in Lists : Resolved(answer) BY <1>1, <2>2, ResolvedStep
  <2> QED BY <1>2, <2>1, <2>2 DEF Resolve
<1>3. CASE ResolveFails
  <2>1. Refuse /\ stage \in DialStages /\ addrs = <<>>
    BY <1>3 DEF ResolveFails, AdmissionInv, DialInv, DialStages
  <2> QED BY <1>1, <2>1, RefuseStep
<1> QED BY <1>1, <1>2, <1>3, CheckOpenStep, ConnectFailsStep, ConnectedStep, ExhaustedStep, PayloadStep
  DEF DialStep, Dial

LEMMA NextAdmission == AdmissionInv /\ [Next]_vars => AdmissionInv'
<1> SUFFICES ASSUME AdmissionInv, [Next]_vars PROVE AdmissionInv' OBVIOUS
<1>1. CASE UNCHANGED vars
  <2>1. UNCHANGED <<boot, settings, tokens, header, policy, stage, open, addrs, tried, peer, delivered>>
    BY <1>1 DEF vars, dialVars
  <2>2. TypeOK' BY <2>1 DEF AdmissionInv, TypeOK, DialTypeOK, Lists, Opens, Hosts
  <2>3. DialInv' BY <2>1 DEF AdmissionInv, DialInv, check_ip, PortOk, validate_host
  <2>4. AllTried' /\ AuthInv' BY <2>1 DEF AdmissionInv, AllTried, AuthInv, authenticate
  <2> QED BY <2>2, <2>3, <2>4 DEF AdmissionInv
<1> QED BY <1>1, StartStep, StartFailsStep, CallStep, AuthenticateStep, FirstFrameStep, DialStepInv
  DEF Next, Handle

LEMMA AdmissionInvariant == Spec => []AdmissionInv
  BY InitAdmission, NextAdmission, PTL DEF Spec

-----------------------------------------------------------------------------
\* The state of the server and of its call has its type, whatever the resolver
\* answers and however many attempts connect_any makes.
THEOREM TypeCorrect == Spec => []TypeOK
<1>1. AdmissionInv => TypeOK BY DEF AdmissionInv
<1> QED BY <1>1, AdmissionInvariant, PTL

LEMMA PublicOnly ==
  ASSUME NEW a \in ADDRS, check_ip(a), policy.deny_private_ip, a.fam # "mapped"
  PROVE  a.class = "public"
<1>1. a \in Addresses BY PolicyAssumption
<1>2. a.class \notin DeniedClasses(a.fam) BY DEF check_ip
<1> QED BY <1>1, <1>2 DEF Addresses, Classes, DeniedClasses

\* resolve_target, connect_any and check_connected_addr together: no connection
\* to a denied V4 or native V6 address, or to a denied port, carries a byte, for
\* all such addresses and all ports.  IPv4-mapped addresses are among ADDRS and
\* are excepted by NeverDenied.
THEOREM DeniedNeverReached == Spec => []NeverDenied
<1>1. AdmissionInv => NeverDenied
  <2> SUFFICES ASSUME AdmissionInv, Reached
               PROVE  /\ open.port \in 1..MAX_PORT /\ open.host \notin BAD_HOSTS
                      /\ policy.allowed_ports = {} \/ open.port \in policy.allowed_ports
                      /\ policy.deny_private_ip =>
                           \A a \in ConnectedTo : a.fam # "mapped" => a.class = "public"
    BY DEF NeverDenied
  <2>1. tried # <<>> BY DEF AdmissionInv, DialInv, Reached
  <2>2. addrs # <<>> BY <2>1, DialFacts
  <2>3. PortOk(open.port) /\ validate_host(open.host) BY <2>2 DEF AdmissionInv, DialInv
  <2>4. open.port \in Nat
    <3>1. open \in Opens \cup {NoOpen} BY DEF AdmissionInv, TypeOK, DialTypeOK
    <3>2. CASE open \in Opens BY <3>2, PolicyAssumption DEF Opens
    <3>3. CASE open = NoOpen BY <3>3 DEF NoOpen
    <3> QED BY <3>1, <3>2, <3>3
  <2>5. /\ open.port \in 1..MAX_PORT /\ open.host \notin BAD_HOSTS
        /\ policy.allowed_ports = {} \/ open.port \in policy.allowed_ports
    <3>1. open.port <= MAX_PORT /\ open.port # 0 BY <2>3 DEF PortOk
    <3>2. MAX_PORT \in Nat BY DEF MAX_PORT
    <3>3. open.port \in 1..MAX_PORT BY <2>4, <3>1, <3>2
    <3> QED BY <2>3, <3>3 DEF PortOk, validate_host
  <2>6. Len(tried) \in DOMAIN addrs /\ addrs[Len(tried)] \in ADDRS
    <3>1. Len(tried) \in Nat \ {0} BY <2>1, DialFacts, EmptySeq
    <3>2. addrs \in Seq(ADDRS) BY DialFacts, ListIsSeq
    <3>3. Len(tried) \in 1..Len(addrs) BY <3>1, DialFacts
    <3> QED BY <3>2, <3>3, DialFacts, ElementOfSeq
  <2>7. check_ip(addrs[Len(tried)]) BY <2>6 DEF AdmissionInv, DialInv
  <2>8. peer # NO_ADDR => peer \in ADDRS /\ check_ip(peer) BY DialFacts DEF AdmissionInv, DialInv
  <2>9. \A a \in ConnectedTo : a \in ADDRS /\ check_ip(a) BY <2>6, <2>7, <2>8 DEF ConnectedTo
  <2> QED BY <2>5, <2>9, PublicOnly
<1> QED BY <1>1, AdmissionInvariant, PTL

\* connect_any gives up only when it has to and leaves no second connection
\* behind, however long the answer of the resolver is.
THEOREM ConnectAnyTriesAll == Spec => []AllTried
<1>1. AdmissionInv => AllTried BY DEF AdmissionInv
<1> QED BY <1>1, AdmissionInvariant, PTL

\* TokenAuth admits a caller exactly when the operator meant its token to be
\* valid, for every configuration file, TOKENS and header.
THEOREM TokensAdmitExactly == Spec => []AdmittedExactly
<1>1. AdmissionInv => AdmittedExactly
  <2> DEFINE sent == header.scheme \in {"Bearer", "bearer", "bare"} /\ header.text # BLANK
             meant == IF settings.TOKENS # <<>>
                      THEN \E t \in settings.TOKENS[1] : t.text = header.text
                      ELSE /\ settings.file = "ok"
                           /\ [text |-> header.text, pad |-> FALSE] \in settings.tokens
             c == Read(settings)
  <2> SUFFICES ASSUME AdmissionInv, stage \notin {"none", "call"}
               PROVE  stage # "unauthenticated" <=> sent /\ meant
    BY DEF AdmittedExactly
  <2>1. /\ settings \in SETTINGS /\ boot \in {"plaintext", "tls"}
        /\ stage # "unauthenticated" <=> authenticate(header)
        /\ Startable(c) /\ tokens = EnvTokens(c)
    BY DEF AdmissionInv, TypeOK, AuthInv
  <2>2. /\ c.TOKENS \in {<<>>} \cup [1..1 -> SUBSET Tokens] /\ c.TOKENS = settings.TOKENS
        /\ c.file = settings.file /\ settings.file \in {"none", "bad", "ok"}
        /\ c.tokens = IF settings.file = "none" THEN {} ELSE settings.tokens
    BY <2>1, ReadTyped
  <2>3. authenticate(header) <=> sent /\ [text |-> header.text, pad |-> FALSE] \in tokens
    BY DEF authenticate, HeaderText
  <2> HIDE DEF c
  <2>4. ASSUME header.text # BLANK
        PROVE  [text |-> header.text, pad |-> FALSE] \in tokens <=> meant
    <3>1. CASE settings.TOKENS # <<>>
      <4>1. tokens = parse_tokens(settings.TOKENS[1]) BY <2>1, <2>2, <3>1 DEF EnvTokens
      <4>2. [text |-> header.text, pad |-> FALSE] \in parse_tokens(settings.TOKENS[1])
              => \E t \in settings.TOKENS[1] : t.text = header.text
        BY DEF parse_tokens
      <4>3. ASSUME NEW t \in settings.TOKENS[1], t.text = header.text
            PROVE  [text |-> header.text, pad |-> FALSE] \in parse_tokens(settings.TOKENS[1])
        BY <2>4, <4>3 DEF parse_tokens
      <4> QED BY <3>1, <4>1, <4>2, <4>3
    <3>2. CASE settings.TOKENS = <<>>
      <4>1. tokens = c.tokens /\ c.tokens # {} /\ c.file # "bad"
        BY <2>1, <2>2, <3>2 DEF EnvTokens, Startable
      <4> QED BY <2>2, <3>2, <4>1
    <3> QED BY <3>1, <3>2
  <2> QED BY <2>1, <2>3, <2>4
<1> QED BY <1>1, AdmissionInvariant, PTL

-----------------------------------------------------------------------------
(***************************************************************************)
(* What TunnelServer sees of a call, by the stage the call is in.          *)
(***************************************************************************)
Mapped == <<D!serverVars, D!streamVars>>

NoFrames == [q |-> <<>>, end |-> "open"]

Nothing == [type |-> "Empty", n |-> 0]

NewTarget == [sent |-> 0, taken |-> 0, fin |-> FALSE, gone |-> FALSE, seen |-> 0, got |-> <<>>]

SeenWaiting ==
  stage \in {"call", "first", "unauthenticated"} =>
    /\ ReqOf = [q |-> <<OpenFrame>>, end |-> "open"]
    /\ RspOf = IF stage = "unauthenticated" THEN [q |-> <<>>, end |-> "err"] ELSE NoFrames
    /\ SpcOf = IF stage = "call" THEN "auth" ELSE IF stage = "first" THEN "first" ELSE "ended"
    /\ WhyOf = IF stage = "unauthenticated" THEN "auth" ELSE "none"
    /\ HeldOf = Nothing /\ T2gOf = "none" /\ TgtOf = NewTarget

SeenDialling ==
  stage \in DialStages =>
    /\ ReqOf = NoFrames /\ RspOf = NoFrames /\ SpcOf = "dial" /\ WhyOf = "none"
    /\ HeldOf = OpenFrame /\ T2gOf = "none" /\ TgtOf = NewTarget

SeenAnswered ==
  stage \in {"open", "refused"} =>
    /\ ReqOf = NoFrames /\ HeldOf = Nothing
    /\ RspOf = [q |-> <<[type |-> "OpenResult", n |-> IF stage = "open" THEN 1 ELSE 0]>>, end |-> "open"]
    /\ SpcOf = IF stage = "open" THEN "relay" ELSE "ended"
    /\ WhyOf = IF stage = "refused" THEN "refused" ELSE "none"
    /\ T2gOf = IF stage = "open" THEN "run" ELSE "none"
    /\ TgtOf = IF stage = "open" /\ delivered = "all" THEN [NewTarget EXCEPT !.got = <<1>>] ELSE NewTarget

LEMMA Seen ==
  /\ SeenWaiting /\ SeenDialling /\ SeenAnswered
  /\ SeenWaiting' /\ SeenDialling' /\ SeenAnswered'
<1> USE DEF ReqOf, RspOf, SpcOf, WhyOf, HeldOf, T2gOf, TgtOf, DialStages, NoFrames, Nothing, NewTarget
<1>1. SeenWaiting /\ SeenWaiting' BY DEF SeenWaiting
<1>2. SeenDialling /\ SeenDialling' BY DEF SeenDialling
<1>3. SeenAnswered /\ SeenAnswered' BY DEF SeenAnswered
<1> QED BY <1>1, <1>2, <1>3

LEMMA MappedUnchanged ==
  ASSUME UNCHANGED <<ReqOf, RspOf, TgtOf, SpcOf, HeldOf, T2gOf, WhyOf>>
  PROVE  UNCHANGED Mapped
  BY DEF Mapped, D!serverVars, D!streamVars

LEMMA AuthenticateSeen == Authenticate => D!ServerAuth
<1> SUFFICES ASSUME Authenticate PROVE D!ServerAuth OBVIOUS
<1>1. /\ stage = "call" /\ stage' \in {"first", "unauthenticated"} /\ OpenFrame' = OpenFrame
  BY DEF Authenticate, OpenFrame
<1>2. SubSeq(<<>>, 1, 0) = <<>> BY SubSeqEmpty
<1>3. D!Cut(RspOf, 0) = [q |-> <<>>, end |-> "err"] BY <1>1, <1>2, Seen DEF D!Cut, NoFrames, SeenWaiting
<1>4. SpcOf = "auth" BY <1>1, Seen DEF SeenWaiting
<1>5. /\ UNCHANGED <<TgtOf, HeldOf, T2gOf, ReqOf>>
      /\ \/ SpcOf' = "first" /\ UNCHANGED <<RspOf, WhyOf>>
         \/ SpcOf' = "ended" /\ RspOf' = [q |-> <<>>, end |-> "err"] /\ WhyOf' = "auth"
  BY <1>1, Seen DEF SeenWaiting, NoFrames, Nothing, NewTarget
<1> QED BY <1>3, <1>4, <1>5 DEF D!ServerAuth

LEMMA FirstFrameSeen == FirstFrame => D!ServerFirstFrame
<1> SUFFICES ASSUME FirstFrame PROVE D!ServerFirstFrame OBVIOUS
<1>1. stage = "first" /\ stage' = "opened" /\ OpenFrame' = OpenFrame /\ OpenFrame.type = "Open"
  BY DEF FirstFrame, OpenFrame
<1> HIDE DEF OpenFrame
<1>2. /\ SpcOf = "first" /\ ReqOf = [q |-> <<OpenFrame>>, end |-> "open"]
      /\ ReqOf' = NoFrames /\ SpcOf' = "dial" /\ HeldOf' = OpenFrame
      /\ UNCHANGED <<RspOf, WhyOf, TgtOf, T2gOf>>
  BY <1>1, Seen DEF SeenWaiting, SeenDialling, DialStages, NoFrames, NewTarget
<1>3. ReqOf.q # <<>> /\ Head(ReqOf.q) = OpenFrame /\ Tail(ReqOf.q) = <<>> BY <1>2
<1>4. D!Popped(ReqOf) = ReqOf' BY <1>2, <1>3 DEF D!Popped, NoFrames
<1> QED BY <1>1, <1>2, <1>3, <1>4 DEF D!ServerFirstFrame

\* A step within the dial is not seen; the one that ends it is ServerDial.
LEMMA DialSeen ==
  ASSUME AdmissionInv, DialStep
  PROVE  D!ServerDial \/ UNCHANGED Mapped
<1>1. UNCHANGED open BY DialKeepsServer DEF Server
<1>2. OpenFrame' = OpenFrame BY <1>1 DEF OpenFrame
<1>3. stage \in DialStages /\ stage' \in DialStageSet
  BY DEF DialStep, Dial, CheckOpen, Resolve, Resolved, ResolveFails, Refuse, ConnectFails,
    Trying, Connected, Exhausted, PayloadPart, Opened, PayloadFails, DialStages, DialStageSet
<1>4. CASE stage' \in DialStages
  <2>1. UNCHANGED <<ReqOf, RspOf, TgtOf, SpcOf, HeldOf, T2gOf, WhyOf>>
    BY <1>2, <1>3, <1>4, Seen DEF SeenDialling, NoFrames, NewTarget
  <2> QED BY <2>1, MappedUnchanged
<1>5. /\ SpcOf = "dial" /\ HeldOf = OpenFrame /\ ReqOf = NoFrames /\ RspOf = NoFrames /\ TgtOf = NewTarget
      /\ T2gOf = "none" /\ WhyOf = "none"
  BY <1>3, Seen DEF SeenDialling
<1>6. D!NoFrame = Nothing BY DEF D!NoFrame, D!Frame, Nothing
<1>7. ASSUME NEW k \in {0, 1}
      PROVE  D!Sent(RspOf, D!Frame("OpenResult", k)) = [q |-> <<[type |-> "OpenResult", n |-> k]>>, end |-> "open"]
  <2>1. RspOf.end = "open" /\ RspOf.q = <<>> BY <1>5 DEF NoFrames
  <2>2. Append(<<>>, [type |-> "OpenResult", n |-> k]) = <<[type |-> "OpenResult", n |-> k]>> OBVIOUS
  <2> QED BY <1>5, <2>1, <2>2 DEF D!Sent, D!Alive, D!Frame, NoFrames
<1>8. CASE stage' = "refused"
  <2>1. /\ SpcOf' = "ended" /\ WhyOf' = "refused" /\ HeldOf' = Nothing /\ T2gOf' = T2gOf /\ TgtOf' = TgtOf
        /\ ReqOf' = ReqOf /\ RspOf' = [q |-> <<[type |-> "OpenResult", n |-> 0]>>, end |-> "open"]
    BY <1>5, <1>8, Seen DEF SeenAnswered, NoFrames, Nothing, NewTarget
  <2> QED BY <1>5, <1>6, <1>7, <2>1 DEF D!ServerDial
<1>9. CASE stage' = "open"
  <2>1. delivered' = IF open.payload THEN "all" ELSE "none"
    BY <1>9 DEF DialStep, Dial, CheckOpen, Resolve, Resolved, ResolveFails, Refuse, ConnectFails,
      Trying, Connected, Exhausted, PayloadPart, Opened, PayloadFails
  <2>2. D!FirstPayload(TgtOf, HeldOf) = IF open.payload THEN [NewTarget EXCEPT !.got = <<1>>] ELSE NewTarget
    <3>1. Append(<<>>, 1) = <<1>> OBVIOUS
    <3> QED BY <1>5, <3>1 DEF D!FirstPayload, D!Wrote, OpenFrame, NewTarget
  <2>3. /\ SpcOf' = "relay" /\ WhyOf' = WhyOf /\ HeldOf' = Nothing /\ T2gOf' = "run"
        /\ TgtOf' = IF delivered' = "all" THEN [NewTarget EXCEPT !.got = <<1>>] ELSE NewTarget
        /\ ReqOf' = ReqOf /\ RspOf' = [q |-> <<[type |-> "OpenResult", n |-> 1]>>, end |-> "open"]
    BY <1>5, <1>9, Seen DEF SeenAnswered, NoFrames, Nothing, NewTarget
  <2> QED BY <1>5, <1>6, <1>7, <2>1, <2>2, <2>3 DEF D!ServerDial
<1> QED BY <1>3, <1>4, <1>8, <1>9 DEF DialStageSet

\* resolve_target, connect_any and the write of first_payload, however many
\* candidates there are, are the one step ServerDial that TunnelServer makes of
\* them: one OpenResult, a success only after the whole payload.
THEOREM DialImplements == Spec => ImplementsDial
<1> DEFINE A == stage = "none" \/ D!ServerAuth \/ D!ServerFirstFrame \/ D!ServerDial
<1>1. AdmissionInv /\ [Next]_vars => [A]_Mapped
  <2> SUFFICES ASSUME AdmissionInv, [Next]_vars PROVE A \/ UNCHANGED Mapped OBVIOUS
  <2>1. CASE UNCHANGED vars
    <3>1. UNCHANGED <<ReqOf, RspOf, TgtOf, SpcOf, HeldOf, T2gOf, WhyOf>>
      BY <2>1 DEF vars, dialVars, ReqOf, RspOf, TgtOf, SpcOf, HeldOf, T2gOf, WhyOf, OpenFrame
    <3> QED BY <3>1, MappedUnchanged
  <2>2. CASE Start \/ StartFails \/ \E h \in HEADERS, o \in Opens : Call(h, o)
    BY <2>2 DEF Start, StartFails, Call, AdmissionInv, TypeOK
  <2>3. CASE Handle BY <2>3, AuthenticateSeen, FirstFrameSeen, DialSeen DEF Handle
  <2> QED BY <2>1, <2>2, <2>3 DEF Next
<1> QED BY <1>1, AdmissionInvariant, PTL DEF Spec, ImplementsDial, Mapped
-----------------------------------------------------------------------------
(***************************************************************************)
(* Why a call is answered: what DialEnds rests on besides fairness.        *)
(***************************************************************************)
Progress ==
  [none |-> 0, call |-> 1, first |-> 2, opened |-> 3, resolving |-> 4, connecting |-> 5,
   writing |-> 6, unauthenticated |-> 7, open |-> 7, refused |-> 7]

\* The server leaves its start, or the call goes on to a later stage, or it stays
\* where it is for one more candidate of connect_any, of which there are only so
\* many, or for the first part of the payload.
CallAdvances ==
  \/ boot = "starting" /\ boot' # "starting" /\ stage' = stage
  \/ Progress[stage'] > Progress[stage]
  \/ /\ stage = "connecting" /\ stage' = stage /\ addrs' = addrs
     /\ Len(tried') > Len(tried) /\ Len(tried') <= Len(addrs)
  \/ stage = "writing" /\ stage' = stage /\ delivered = "none" /\ delivered' = "part"

\* The variant of the handler: no step repeats an earlier stage.
NeverBack == [][CallAdvances]_vars

LEMMA DialAdvances == ASSUME AdmissionInv, DialStep PROVE CallAdvances
<1> USE DEF Progress
<1>1. CASE Refuse /\ stage \in DialStages
  BY <1>1 DEF Refuse, DialStages, CallAdvances
<1>2. CASE CheckOpen BY <1>1, <1>2 DEF CheckOpen, DialStages, CallAdvances
<1>3. ASSUME NEW answer, Resolved(answer) PROVE CallAdvances
  BY <1>1, <1>3 DEF Resolved, DialStages, CallAdvances
<1>4. ASSUME NEW outcome \in {"failed", "timeout"}, ConnectFails(outcome) PROVE CallAdvances
  <2>1. Trying /\ Tried(outcome) /\ stage' = stage /\ addrs' = addrs BY <1>4 DEF ConnectFails
  <2>2. DialTypeOK /\ outcome \in Outcomes BY DEF AdmissionInv, TypeOK, Outcomes
  <2>3. Len(tried') = Len(tried) + 1 /\ Len(tried') <= Len(addrs) /\ Len(tried) \in Nat
    BY <2>1, <2>2, TriedStep
  <2> QED BY <2>1, <2>3 DEF CallAdvances, Trying
<1>5. ASSUME NEW p, Connected(p) PROVE CallAdvances
  <2>1. stage = "connecting" /\ stage' \in {"writing", "refused"} BY <1>5 DEF Connected, Trying
  <2> QED BY <2>1 DEF CallAdvances
<1>6. CASE Opened BY <1>6 DEF Opened, CallAdvances
<1>7. CASE PayloadPart BY <1>7 DEF PayloadPart, CallAdvances
<1> QED BY <1>1, <1>2, <1>3, <1>4, <1>5, <1>6, <1>7
  DEF DialStep, Dial, Resolve, ResolveFails, Exhausted, PayloadFails, DialStages

\* Whatever the resolver answers and however its candidates fail, a call never
\* goes back to an earlier stage and dials no candidate twice: it takes at most as
\* many steps as there are stages and candidates.
THEOREM CallsGoForward == Spec => NeverBack
<1>1. AdmissionInv /\ [Next]_vars => [CallAdvances]_vars
  <2> SUFFICES ASSUME AdmissionInv, Next PROVE CallAdvances OBVIOUS
  <2>1. CASE Start \/ StartFails BY <2>1 DEF Start, StartFails, Transport, dialVars, CallAdvances
  <2>2. CASE \E h \in HEADERS, o \in Opens : Call(h, o) BY <2>2 DEF Call, CallAdvances, Progress
  <2>3. CASE Authenticate BY <2>3 DEF Authenticate, CallAdvances, Progress
  <2>4. CASE FirstFrame BY <2>4 DEF FirstFrame, CallAdvances, Progress
  <2> QED BY <2>1, <2>2, <2>3, <2>4, DialAdvances DEF Next, Handle
<1> QED BY <1>1, AdmissionInvariant, PTL DEF Spec, NeverBack
=============================================================================
