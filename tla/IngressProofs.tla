---------------------------- MODULE IngressProofs ----------------------------
(***************************************************************************)
(* The two listeners of Ingress, for every set of users, addresses, names, *)
(* ports and header lists.                                                 *)
(***************************************************************************)
EXTENDS Ingress, SequenceTheorems, TLAPS

-----------------------------------------------------------------------------
\* The user of the connection was authenticated.
Authorized ==
  \/ presented # NONE /\ presented.name = conn.user /\ PASSWORD[conn.user] = presented.password
  \/ conn.via = "socks5" /\ options.allow_no_auth /\ conn.user = options.default_user

LoggedInStages == {"request", "decide", "established", "dial", "open", "direct", "tunnel"}

AuthInv ==
  /\ conn.stage = "noauth" => conn.via = "socks5" /\ options.allow_no_auth
  /\ conn.stage \in LoggedInStages => conn.user \in USERS /\ Authorized

\* What the router decided, and what came of it.
GoesDirect ==
  conn.route.kind = "direct" /\ conf.china_ip_direct /\ conn.route.connect_host \in CHINA

GoesThroughPool == conn.route.kind = "proxy" /\ conn.route.pool = BACKEND_OF[conn.user]

RouteInv ==
  /\ conn.stage = "established" => GoesDirect \/ GoesThroughPool
  /\ conn.stage \in {"dial", "direct"} => GoesDirect
  /\ conn.stage \in {"open", "tunnel"} => GoesThroughPool
  /\ conn.stage = "direct" => peer # NONE

\* All that either listener says.
Words ==
  {"method 00", "method 02", "method ff", "auth 00", "auth 01", "reply 00", "reply 04", "reply 05",
   "reply 07", "reply 08", "200", "407"}

\* What the SOCKS5 client has been told: a method, that it is welcome, or an
\* answer to the welcomed client's request.
Method(talk, method) == Len(talk) = 1 /\ talk[1] = method

Pair(talk, first, second) == Len(talk) = 2 /\ talk[1] = first /\ talk[2] = second

Welcome(talk) == Method(talk, "method 00") \/ Pair(talk, "method 02", "auth 00")

Answer(talk, replies) ==
  \/ Len(talk) = 2 /\ talk[1] = "method 00" /\ talk[2] \in replies
  \/ Len(talk) = 3 /\ talk[1] = "method 02" /\ talk[2] = "auth 00" /\ talk[3] \in replies

Refused(talk) ==
  \/ Method(talk, "method ff")
  \/ Pair(talk, "method 02", "auth 01")
  \/ Answer(talk, {"reply 04", "reply 05", "reply 07", "reply 08"})

Unanswered(talk) == Len(talk) = 0 \/ Method(talk, "method 02") \/ Welcome(talk)

\* Reply 0x00 is said on the direct path when the target is connected.
Granted(talk) == Answer(talk, {"reply 00"}) /\ (conn.route.kind = "direct" => peer # NONE)

SocksSaid ==
  conn.via = "socks5" =>
    /\ conn.stage \in SocksStages
    /\ conn.stage = "greeting" => Len(said) = 0
    /\ conn.stage = "noauth" => Method(said, "method 00")
    /\ conn.stage = "userpass" => Method(said, "method 02")
    /\ conn.stage \in {"request", "decide", "dial", "open"} => Welcome(said)
    /\ conn.stage \in {"direct", "tunnel"} => Welcome(said) \/ Granted(said)
    /\ conn.stage = "ended" => Unanswered(said) \/ Refused(said) \/ Granted(said)

\* What the HTTP client has been told.
HttpSaid ==
  conn.via = "http" =>
    /\ conn.stage \in HttpStages
    /\ conn.stage \in {"header", "decide", "established"} => said = <<>>
    /\ conn.stage = "header" => conn.user = NONE /\ peer = NONE
    /\ conn.stage = "established" => form = "connect"
    /\ conn.stage \in {"dial", "open", "direct", "tunnel"} =>
         said = IF form = "connect" THEN <<"200">> ELSE <<>>
    /\ conn.stage = "ended" =>
         said \in {<<>>, <<"200">>} \/ (said = <<"407">> /\ conn.user = NONE /\ peer = NONE)

\* Only the HTTP handler parses a request.
FormInv == conn.via = "socks5" => form = "none"

HeadersOk(headers) ==
  DOMAIN headers \subseteq Nat /\ \A i \in DOMAIN headers : headers[i] \in HeaderNames

IngressInv ==
  /\ TypeOK /\ AuthInv /\ RouteInv /\ DirectOnlyListed /\ said \in Seq(Words)
  /\ SocksSaid /\ HttpSaid /\ FormInv

-----------------------------------------------------------------------------
(***************************************************************************)
(* Replies, stages and the record of the connection.                       *)
(***************************************************************************)
Stages == SocksStages \cup HttpStages

\* Nothing is said, or one reply more.
LEMMA SayNothing ==
  ASSUME said \in Seq(Words), said' = said \o <<>>
  PROVE  said' = said
  BY ConcatEmptySeq

LEMMA SayOne ==
  ASSUME NEW S, NEW talk \in Seq(S), NEW r \in S
  PROVE  /\ talk \o <<r>> \in Seq(S) /\ Len(talk) \in Nat /\ Len(talk \o <<r>>) = Len(talk) + 1
         /\ \A i \in 1..Len(talk) : (talk \o <<r>>)[i] = talk[i]
         /\ (talk \o <<r>>)[Len(talk) + 1] = r
<1>1. talk \o <<r>> = Append(talk, r) BY AppendIsConcat
<1>2. Len(talk) \in Nat BY LenProperties
<1>3. /\ Append(talk, r) \in Seq(S) /\ Len(Append(talk, r)) = Len(talk) + 1
      /\ \A i \in 1..Len(talk) : Append(talk, r)[i] = talk[i]
      /\ Append(talk, r)[Len(talk) + 1] = r
  BY AppendProperties
<1> QED BY <1>1, <1>2, <1>3

\* A welcomed client gets one answer.
LEMMA SayAnswer ==
  ASSUME NEW S, NEW talk \in Seq(S), Welcome(talk), NEW replies, NEW r \in S, r \in replies
  PROVE  Answer(talk \o <<r>>, replies)
<1> DEFINE next == talk \o <<r>>
<1>1. /\ next \in Seq(S) /\ Len(talk) \in Nat /\ Len(next) = Len(talk) + 1
      /\ \A i \in 1..Len(talk) : next[i] = talk[i]
      /\ next[Len(talk) + 1] = r
  BY SayOne
<1> HIDE DEF next
<1>2. Len(talk) = 1 => Len(next) = 2 /\ next[1] = talk[1] /\ next[2] = r BY <1>1
<1>3. Len(talk) = 2 => Len(next) = 3 /\ next[1] = talk[1] /\ next[2] = talk[2] /\ next[3] = r BY <1>1
<1>4. Answer(next, replies) BY <1>2, <1>3 DEF Welcome, Method, Pair, Answer
<1> QED BY <1>4 DEF next

LEMMA ConnFields ==
  ASSUME TypeOK
  PROVE  /\ conn.via \in {"socks5", "http"} /\ conn.stage \in Stages /\ conn.user \in USERS \cup {NONE}
         /\ conn.host \in Hosts /\ conn.port \in Nat /\ conn.route \in Routes
  BY DEF TypeOK, Conns, Stages

LEMMA StageMoves ==
  ASSUME TypeOK, NEW s \in Stages, conn' = [conn EXCEPT !.stage = s]
  PROVE  /\ conn' \in Conns(Stages) /\ conn'.stage = s /\ conn'.via = conn.via /\ conn'.user = conn.user
         /\ conn'.host = conn.host /\ conn'.port = conn.port /\ conn'.route = conn.route
  BY DEF TypeOK, Conns, Stages

LEMMA InitIngress == Init => IngressInv
<1> SUFFICES ASSUME Init PROVE IngressInv OBVIOUS
<1>1. /\ conf \in RouteConfigs /\ dns \in [NAMES -> {<<>>}] /\ said = <<>> /\ peer = NONE /\ presented = NONE
      /\ form = "none" /\ payload = <<>>
      /\ \/ conn = NewConn("socks5", "greeting") /\ options \in SocksOptions
         \/ /\ conn = NewConn("http", "header")
            /\ options = [allow_no_auth |-> FALSE, default_user |-> NONE]
  BY DEF Init, SocksInit, HttpInit, RouterInit
<1>2. options \in SocksOptions
  <2>1. [allow_no_auth |-> FALSE, default_user |-> NONE] \in SocksOptions
    <3>1. FALSE \in BOOLEAN /\ NONE \in USERS \cup NAMES \cup {NONE} OBVIOUS
    <3> QED BY <3>1, Zenon DEF SocksOptions
  <2> QED BY <1>1, <2>1
<1>3. dns \in [NAMES -> Answers] BY <1>1 DEF Answers
<1>4. conn \in Conns(Stages)
  <2>1. EMPTY_HOST \in Hosts BY RouterAssumption DEF Hosts
  <2>2. NoRoute \in Routes BY DEF NoRoute, Routes
  <2> QED BY <1>1, <2>1, <2>2 DEF Conns, NewConn, Stages, SocksStages, HttpStages
<1>5. TypeOK BY <1>1, <1>2, <1>3, <1>4 DEF TypeOK, Stages
<1>6. \/ conn.via = "socks5" /\ conn.stage = "greeting"
      \/ conn.via = "http" /\ conn.stage = "header" /\ conn.user = NONE
  BY <1>1 DEF NewConn
<1>7. AuthInv /\ RouteInv /\ FormInv BY <1>1, <1>6 DEF AuthInv, LoggedInStages, RouteInv, FormInv
<1>8. SocksSaid /\ HttpSaid BY <1>1, <1>6 DEF SocksSaid, HttpSaid, SocksStages, HttpStages
<1>9. DirectOnlyListed BY <1>1 DEF DirectOnlyListed
<1> QED BY <1>1, <1>5, <1>7, <1>8, <1>9 DEF IngressInv

-----------------------------------------------------------------------------
(***************************************************************************)
(* The steps the two handlers share.                                       *)
(***************************************************************************)
\* The handler stays where it is, whatever the resolver answers and the client
\* sends through the relay.
LEMMA Unmoved ==
  ASSUME IngressInv, UNCHANGED <<conf, conn, said, peer, presented, options, form>>,
         dns' \in [NAMES -> Answers], HeadersOk(payload')
  PROVE  IngressInv'
<1>1. TypeOK' BY DEF IngressInv, TypeOK, HeadersOk
<1>2. AuthInv' BY DEF IngressInv, AuthInv, Authorized
<1>3. RouteInv' BY DEF IngressInv, RouteInv, GoesDirect, GoesThroughPool
<1>4. DirectOnlyListed' /\ (said \in Seq(Words))' BY DEF IngressInv, DirectOnlyListed
<1>5. SocksSaid' BY DEF IngressInv, SocksSaid, Granted
<1>6. HttpSaid' BY DEF IngressInv, HttpSaid
<1>7. FormInv' BY DEF IngressInv, FormInv
<1> QED BY <1>1, <1>2, <1>3, <1>4, <1>5, <1>6, <1>7 DEF IngressInv

\* The handler returns: all that matters is what it has said.
LEMMA EndStep ==
  ASSUME IngressInv, NEW reply, Fail(reply), said' \in Seq(Words),
         UNCHANGED <<options, form, payload>>, presented' \in Credentials \cup {NONE},
         conn.via = "socks5" =>
           Unanswered(said') \/ Refused(said')
             \/ (Answer(said', {"reply 00"}) /\ (conn.route.kind = "direct" => peer # NONE)),
         conn.via = "http" =>
           said' \in {<<>>, <<"200">>} \/ (said' = <<"407">> /\ conn.user = NONE /\ peer = NONE)
  PROVE  IngressInv'
<1>t. TypeOK BY DEF IngressInv
<1>1. conn' = [conn EXCEPT !.stage = "ended"] /\ UNCHANGED <<conf, dns, peer>> BY DEF Fail, Step
<1>2. "ended" \in Stages BY DEF Stages, SocksStages
<1>3. /\ conn' \in Conns(Stages) /\ conn'.stage = "ended" /\ conn'.via = conn.via
      /\ conn'.route = conn.route /\ conn'.user = conn.user
  BY <1>t, <1>1, <1>2, StageMoves
<1>4. TypeOK' BY <1>t, <1>1, <1>3 DEF TypeOK, Stages
<1>5. AuthInv' /\ RouteInv' /\ FormInv'
  BY <1>3 DEF IngressInv, AuthInv, LoggedInStages, RouteInv, FormInv
<1>6. DirectOnlyListed' BY <1>1 DEF IngressInv, DirectOnlyListed
<1>7. SocksSaid' BY <1>1, <1>3 DEF SocksSaid, Granted, SocksStages
<1>8. HttpSaid' BY <1>1, <1>3 DEF HttpSaid, HttpStages
<1> QED BY <1>1, <1>4, <1>5, <1>6, <1>7, <1>8 DEF IngressInv

\* A handler that returns without another word.
LEMMA QuietEnd ==
  ASSUME IngressInv, Fail(<<>>), UNCHANGED <<options, form, payload>>,
         presented' \in Credentials \cup {NONE}
  PROVE  IngressInv'
<1>t. TypeOK BY DEF IngressInv
<1>1. said' = said
  BY SayNothing DEF IngressInv, Fail, Step
<1>2. conn.via = "socks5" => Unanswered(said) \/ Refused(said) \/ Granted(said)
  <2> HAVE conn.via = "socks5"
  <2>1. conn.stage \in SocksStages BY DEF IngressInv, SocksSaid
  <2>2. CASE conn.stage \in {"request", "decide", "dial", "open", "ended", "direct", "tunnel"}
    BY <2>2 DEF IngressInv, SocksSaid, Unanswered
  <2>3. CASE conn.stage \in {"greeting", "noauth", "userpass"}
    BY <2>3 DEF IngressInv, SocksSaid, Unanswered, Welcome
  <2> QED BY <2>1, <2>2, <2>3 DEF SocksStages
<1>3. conn.via = "http" =>
        said' \in {<<>>, <<"200">>} \/ (said' = <<"407">> /\ conn.user = NONE /\ peer = NONE)
  BY <1>1 DEF IngressInv, HttpSaid, HttpStages
<1>4. said' \in Seq(Words) BY <1>1 DEF IngressInv
<1>5. conn.via = "socks5" =>
        Unanswered(said') \/ Refused(said')
          \/ (Answer(said', {"reply 00"}) /\ (conn.route.kind = "direct" => peer # NONE))
  BY <1>1, <1>2 DEF Granted
<1> QED BY <1>3, <1>4, <1>5, EndStep

\* A SOCKS5 client is refused.
LEMMA RefusedEnd ==
  ASSUME IngressInv, conn.via = "socks5", NEW r \in Words, Fail(<<r>>), Refused(said \o <<r>>),
         UNCHANGED <<options, form, payload>>, presented' \in Credentials \cup {NONE}
  PROVE  IngressInv'
<1>1. said' = said \o <<r>> BY DEF Fail, Step
<1>2. said' \in Seq(Words) BY <1>1, SayOne DEF IngressInv
<1>3. Refused(said') BY <1>1
<1> QED BY <1>2, <1>3, EndStep

\* Any other step of a handler that only moves to a stage and speaks.
LEMMA MoveOn ==
  ASSUME IngressInv, NEW s \in Stages, NEW reply, Step(s, reply), said' \in Seq(Words),
         UNCHANGED <<options, form, payload, presented>>,
         AuthInv', RouteInv', SocksSaid', HttpSaid', FormInv'
  PROVE  IngressInv'
<1>t. TypeOK BY DEF IngressInv
<1>1. conn' = [conn EXCEPT !.stage = s] /\ UNCHANGED <<conf, dns, peer>> BY DEF Step
<1>2. conn' \in Conns(Stages) BY <1>t, <1>1, StageMoves
<1>3. TypeOK' BY <1>t, <1>1, <1>2 DEF TypeOK, Stages
<1>4. DirectOnlyListed' BY <1>1 DEF IngressInv, DirectOnlyListed
<1> QED BY <1>3, <1>4 DEF IngressInv

LEMMA FirstWord ==
  ASSUME NEW S, NEW talk \in Seq(S), NEW r \in S, Len(talk) = 0
  PROVE  Method(talk \o <<r>>, r)
<1>1. Len(talk \o <<r>>) = Len(talk) + 1 /\ (talk \o <<r>>)[Len(talk) + 1] = r BY SayOne
<1> QED BY <1>1 DEF Method

LEMMA SecondWord ==
  ASSUME NEW S, NEW talk \in Seq(S), NEW r \in S, NEW m, Method(talk, m)
  PROVE  Pair(talk \o <<r>>, m, r)
<1> DEFINE next == talk \o <<r>>
<1>1. Len(talk) = 1 /\ talk[1] = m BY DEF Method
<1>2. /\ Len(talk) \in Nat /\ Len(next) = Len(talk) + 1 /\ \A i \in 1..Len(talk) : next[i] = talk[i]
      /\ next[Len(talk) + 1] = r
  BY SayOne
<1> HIDE DEF next
<1>3. Len(talk) = 1 => Len(next) = 2 /\ next[1] = talk[1] /\ next[2] = r BY <1>2
<1>4. Pair(next, m, r) BY <1>1, <1>3 DEF Pair
<1> QED BY <1>4 DEF next

-----------------------------------------------------------------------------
(***************************************************************************)
(* SOCKS5.                                                                 *)
(***************************************************************************)
LEMMA NegotiateStep ==
  ASSUME IngressInv, conn.via = "socks5", UNCHANGED <<form, payload>>,
         NEW version, NEW methods, Negotiate(version, methods)
  PROVE  IngressInv'
<1>t. TypeOK /\ said \in Seq(Words) BY DEF IngressInv
<1>g. conn.stage = "greeting" /\ UNCHANGED <<options, presented>> BY DEF Negotiate
<1>p. presented' \in Credentials \cup {NONE} BY <1>g DEF IngressInv, TypeOK
<1>0. Len(said) = 0 BY <1>g DEF IngressInv, SocksSaid
<1>1. \/ Fail(<<>>) \/ (options.allow_no_auth /\ Step("noauth", <<"method 00">>))
      \/ Step("userpass", <<"method 02">>) \/ Fail(<<"method ff">>)
  BY DEF Negotiate
<1>2. CASE Fail(<<>>) BY <1>2, <1>g, <1>p, QuietEnd
<1>3. CASE Fail(<<"method ff">>)
  <2>1. "method ff" \in Words BY DEF Words
  <2>2. Method(said \o <<"method ff">>, "method ff") BY <1>t, <1>0, <2>1, FirstWord, Zenon
  <2>3. Refused(said \o <<"method ff">>) BY <2>2, Zenon DEF Refused
  <2> QED BY <1>3, <1>g, <1>p, <2>1, <2>3, RefusedEnd, Zenon
<1>4. CASE options.allow_no_auth /\ Step("noauth", <<"method 00">>)
  <2>0. "method 00" \in Words BY DEF Words
  <2>1. said' = said \o <<"method 00">> /\ conn' = [conn EXCEPT !.stage = "noauth"] BY <1>4 DEF Step
  <2>2. said' \in Seq(Words) BY <1>t, <2>0, <2>1, SayOne, Zenon
  <2>3. Method(said', "method 00") BY <1>t, <1>0, <2>0, <2>1, FirstWord, Zenon
  <2>4. "noauth" \in Stages BY DEF Stages, SocksStages
  <2>5. conn'.stage = "noauth" /\ conn'.via = "socks5" BY <1>t, <2>1, <2>4, StageMoves
  <2>6. AuthInv' /\ RouteInv' /\ FormInv'
    BY <1>4, <1>g, <2>5 DEF IngressInv, AuthInv, LoggedInStages, RouteInv, FormInv
  <2>7. SocksSaid' /\ HttpSaid' BY <2>3, <2>5 DEF SocksSaid, SocksStages, HttpSaid
  <2> QED BY <1>4, <1>g, <2>2, <2>4, <2>6, <2>7, MoveOn
<1>5. CASE Step("userpass", <<"method 02">>)
  <2>0. "method 02" \in Words BY DEF Words
  <2>1. said' = said \o <<"method 02">> /\ conn' = [conn EXCEPT !.stage = "userpass"] BY <1>5 DEF Step
  <2>2. said' \in Seq(Words) BY <1>t, <2>0, <2>1, SayOne, Zenon
  <2>3. Method(said', "method 02") BY <1>t, <1>0, <2>0, <2>1, FirstWord, Zenon
  <2>4. "userpass" \in Stages BY DEF Stages, SocksStages
  <2>5. conn'.stage = "userpass" /\ conn'.via = "socks5" BY <1>t, <2>1, <2>4, StageMoves
  <2>6. AuthInv' /\ RouteInv' /\ FormInv'
    BY <2>5 DEF IngressInv, AuthInv, LoggedInStages, RouteInv, FormInv
  <2>7. SocksSaid' /\ HttpSaid' BY <2>3, <2>5 DEF SocksSaid, SocksStages, HttpSaid
  <2> QED BY <1>5, <1>g, <2>2, <2>4, <2>6, <2>7, MoveOn
<1> QED BY <1>1, <1>2, <1>3, <1>4, <1>5

\* The client is logged in: as the default user, or with the user's password.
LEMMA LoggedInStep ==
  ASSUME IngressInv, conn.via = "socks5", UNCHANGED <<options, form, payload>>,
         NEW u \in USERS, NEW reply, LoggedIn(u, "request", reply),
         said' \in Seq(Words), Welcome(said'), presented' \in Credentials \cup {NONE},
         \/ presented' # NONE /\ presented'.name = u /\ PASSWORD[u] = presented'.password
         \/ options.allow_no_auth /\ u = options.default_user
  PROVE  IngressInv'
<1>t. TypeOK BY DEF IngressInv
<1>1. conn' = [conn EXCEPT !.stage = "request", !.user = u] /\ UNCHANGED <<conf, dns, peer>>
  BY DEF LoggedIn
<1>2. "request" \in Stages BY DEF Stages, SocksStages
<1>3. /\ conn' \in Conns(Stages) /\ conn'.stage = "request" /\ conn'.via = "socks5" /\ conn'.user = u
      /\ conn'.route = conn.route
  BY <1>t, <1>1, <1>2 DEF TypeOK, Conns, Stages
<1>4. TypeOK' BY <1>t, <1>1, <1>3 DEF TypeOK, Stages
<1>5. AuthInv' BY <1>3 DEF AuthInv, Authorized
<1>6. RouteInv' /\ FormInv' BY <1>3 DEF IngressInv, RouteInv, FormInv
<1>7. SocksSaid' /\ HttpSaid' BY <1>3 DEF SocksSaid, SocksStages, HttpSaid
<1>8. DirectOnlyListed' BY <1>1 DEF IngressInv, DirectOnlyListed
<1> QED BY <1>4, <1>5, <1>6, <1>7, <1>8 DEF IngressInv

LEMMA NoAuthStep ==
  ASSUME IngressInv, conn.via = "socks5", UNCHANGED <<form, payload>>, NoAuth
  PROVE  IngressInv'
<1>g. conn.stage = "noauth" /\ UNCHANGED <<options, presented>> BY DEF NoAuth
<1>p. presented' \in Credentials \cup {NONE} BY <1>g DEF IngressInv, TypeOK
<1>1. options.allow_no_auth /\ Welcome(said) BY <1>g DEF IngressInv, AuthInv, SocksSaid, Welcome
<1>2. CASE Fail(<<>>) BY <1>2, <1>g, <1>p, QuietEnd
<1>3. CASE options.default_user \in USERS /\ LoggedIn(options.default_user, "request", <<>>)
  <2>1. said' = said BY <1>3, SayNothing DEF IngressInv, LoggedIn
  <2>2. said' \in Seq(Words) /\ Welcome(said') BY <1>1, <2>1 DEF IngressInv
  <2> QED BY <1>3, <1>g, <1>p, <1>1, <2>2, LoggedInStep
<1> QED BY <1>2, <1>3 DEF NoAuth, KnownUser

LEMMA UserPassStep ==
  ASSUME IngressInv, conn.via = "socks5", UNCHANGED <<form, payload>>,
         NEW version, NEW name \in USERS \cup NAMES, NEW password \in Passwords,
         UserPass(version, name, password)
  PROVE  IngressInv'
<1>t. TypeOK /\ said \in Seq(Words) BY DEF IngressInv
<1>g. conn.stage = "userpass" /\ UNCHANGED options BY DEF UserPass
<1>m. Method(said, "method 02") BY <1>g DEF IngressInv, SocksSaid
<1> DEFINE sent == [name |-> name, password |-> password]
<1>c. sent \in Credentials /\ sent # NONE BY RouterAssumption DEF Credentials
<1>1. CASE Fail(<<"auth 01">>) /\ presented' \in Credentials \cup {NONE}
  <2>1. "auth 01" \in Words BY DEF Words
  <2>2. Pair(said \o <<"auth 01">>, "method 02", "auth 01") BY <1>t, <1>m, <2>1, SecondWord, Zenon
  <2>3. Refused(said \o <<"auth 01">>) BY <2>2, Zenon DEF Refused
  <2> QED BY <1>1, <1>g, <2>1, <2>3, RefusedEnd, Zenon
<1>2. CASE /\ presented' = sent /\ name \in USERS /\ PASSWORD[name] = password
           /\ LoggedIn(name, "request", <<"auth 00">>)
  <2>1. "auth 00" \in Words BY DEF Words
  <2>2. said' = said \o <<"auth 00">> BY <1>2 DEF LoggedIn
  <2>3. Pair(said \o <<"auth 00">>, "method 02", "auth 00") BY <1>t, <1>m, <2>1, SecondWord, Zenon
  <2>4. Welcome(said') BY <2>2, <2>3, Zenon DEF Welcome
  <2>5. said' \in Seq(Words) BY <1>t, <2>1, <2>2, SayOne, Zenon
  <2>6. presented' # NONE /\ presented'.name = name /\ PASSWORD[name] = presented'.password
    BY <1>2, <1>c
  <2>7. presented' \in Credentials \cup {NONE} BY <1>2, <1>c
  <2> QED BY <1>2, <1>g, <2>4, <2>5, <2>6, <2>7, LoggedInStep
<1>3. \/ presented' = sent /\ Authenticates(name, password) /\ LoggedIn(name, "request", <<"auth 00">>)
      \/ presented' = sent /\ Fail(<<"auth 01">>)
      \/ presented' = presented /\ Fail(<<"auth 01">>)
  BY DEF UserPass
<1>4. presented \in Credentials \cup {NONE} BY <1>t DEF TypeOK
<1> HIDE DEF sent
<1> QED BY <1>1, <1>2, <1>3, <1>4, <1>c DEF Authenticates

LEMMA ConnectRequestStep ==
  ASSUME IngressInv, conn.via = "socks5", UNCHANGED <<form, payload>>, ConnectRequest
  PROVE  IngressInv'
<1>t. TypeOK /\ said \in Seq(Words) BY DEF IngressInv
<1>g. conn.stage = "request" /\ UNCHANGED <<options, presented>> BY DEF ConnectRequest, ReadConnectRequest
<1>p. presented' \in Credentials \cup {NONE} BY <1>t, <1>g DEF TypeOK
<1>w. Welcome(said) BY <1>g DEF IngressInv, SocksSaid
<1>1. \/ Fail(<<>>)
      \/ \E r \in {"reply 07", "reply 08", "reply 04"} : Fail(<<r>>)
      \/ \E host \in Hosts, port \in PORTS : Target(host, port)
  <2>1. PICK header \in BOOLEAN, command \in {1, 2}, atyp \in {1, 2, 3, 4}, host \in Hosts,
             port \in PORTS \cap 0..MAX_PORT :
               ReadConnectRequest(header, command, atyp, host, port)
    BY Zenon DEF ConnectRequest
  <2>2. \/ Fail(<<>>) \/ Fail(<<"reply 07">>) \/ Fail(<<"reply 08">>) \/ Fail(<<"reply 04">>)
        \/ Target(host, port)
    BY <2>1 DEF ReadConnectRequest
  <2> QED BY <2>2
<1>2. CASE Fail(<<>>) BY <1>2, <1>g, <1>p, QuietEnd
<1>3. ASSUME NEW r \in {"reply 07", "reply 08", "reply 04"}, Fail(<<r>>) PROVE IngressInv'
  <2>1. r \in Words /\ r \in {"reply 04", "reply 05", "reply 07", "reply 08"} BY DEF Words
  <2>2. Refused(said \o <<r>>) BY <1>t, <1>w, <2>1, SayAnswer, Zenon DEF Refused
  <2> QED BY <1>3, <1>g, <1>p, <2>1, <2>2, RefusedEnd, Zenon
<1>4. ASSUME NEW host \in Hosts, NEW port \in PORTS, Target(host, port) PROVE IngressInv'
  <2>1. /\ conn' = [conn EXCEPT !.stage = "decide", !.host = host, !.port = port]
        /\ UNCHANGED <<conf, dns, said, peer, presented>>
    BY <1>4 DEF Target
  <2>2. "decide" \in Stages /\ port \in Nat BY RouterAssumption DEF Stages, SocksStages
  <2>3. /\ conn' \in Conns(Stages) /\ conn'.stage = "decide" /\ conn'.via = "socks5"
        /\ conn'.user = conn.user /\ conn'.route = conn.route
    BY <1>t, <2>1, <2>2 DEF TypeOK, Conns, Stages
  <2>4. TypeOK' BY <1>t, <1>g, <2>1, <2>3 DEF TypeOK, Stages
  <2>5. AuthInv' BY <1>g, <2>1, <2>3 DEF IngressInv, AuthInv, LoggedInStages, Authorized
  <2>6. RouteInv' BY <2>3 DEF RouteInv
  <2>7. FormInv' BY <1>t, <2>3 DEF IngressInv, FormInv
  <2>8. SocksSaid' /\ HttpSaid' BY <1>w, <2>1, <2>3 DEF SocksSaid, SocksStages, HttpSaid
  <2>9. DirectOnlyListed' BY <2>1 DEF IngressInv, DirectOnlyListed
  <2> QED BY <1>t, <2>1, <2>4, <2>5, <2>6, <2>7, <2>8, <2>9 DEF IngressInv
<1> QED BY <1>1, <1>2, <1>3, <1>4

-----------------------------------------------------------------------------
(***************************************************************************)
(* The router, and what is done with its decision.                         *)
(***************************************************************************)
LEMMA IsSeq == \A S : \A n \in Nat : \A f \in [1..n -> S] : f \in Seq(S)
  BY SeqDef, Zenon

\* A domain is pinned to a listed address: all the addresses it has are.
LEMMA Pinned ==
  ASSUME NEW addrs \in Answers, classify_domain(addrs) # NONE
  PROVE  classify_domain(addrs) \in CHINA
<1>1. addrs # <<>> /\ (\A i \in DOMAIN addrs : addrs[i] \in CHINA) /\ classify_domain(addrs) = Head(addrs)
  BY DEF classify_domain
<1>2. addrs \in Seq(IPS \cup {NONE})
  <2>1. <<NONE>> \in Seq(IPS \cup {NONE}) OBVIOUS
  <2>2. ASSUME addrs \in [1..1 -> IPS] PROVE addrs \in Seq(IPS \cup {NONE})
    <3>1. 1 \in Nat /\ addrs \in [1..1 -> IPS \cup {NONE}] BY <2>2
    <3> QED BY <3>1, IsSeq
  <2>3. ASSUME addrs \in [1..2 -> IPS] PROVE addrs \in Seq(IPS \cup {NONE})
    <3>1. 2 \in Nat /\ addrs \in [1..2 -> IPS \cup {NONE}] BY <2>3
    <3> QED BY <3>1, IsSeq
  <2> QED BY <1>1, <2>1, <2>2, <2>3 DEF Answers
<1>3. Head(addrs) = addrs[1] /\ 1 \in DOMAIN addrs BY <1>1, <1>2
<1> QED BY <1>1, <1>3

LEMMA DecideFacts ==
  ASSUME TypeOK, NEW u \in USERS, NEW host \in Hosts
  PROVE  LET route == decide(u, host)
         IN  /\ route \in Routes /\ route.kind \in {"direct", "proxy", "error"}
             /\ route.kind = "direct" => conf.china_ip_direct /\ route.connect_host \in CHINA
             /\ route.kind = "proxy" => route.pool = BACKEND_OF[u]
<1> DEFINE route == decide(u, host)
<1> DEFINE Good(r) == /\ r \in Routes /\ r.kind \in {"direct", "proxy", "error"}
                      /\ r.kind = "direct" => conf.china_ip_direct /\ r.connect_host \in CHINA
                      /\ r.kind = "proxy" => r.pool = BACKEND_OF[u]
<1>1. Good(Proxy(u)) BY RouterAssumption DEF Proxy, Routes
<1>2. Good(RouteError) BY DEF RouteError, Routes
<1>3. ASSUME NEW h \in CHINA, conf.china_ip_direct PROVE Good(Direct(h))
  BY <1>3, RouterAssumption DEF Direct, Routes, Hosts
<1>4. CASE conf.china_ip_direct /\ host \in CHINA
  <2>1. route = Direct(host) BY <1>4, RouterAssumption DEF decide
  <2> QED BY <1>4, <2>1, <1>3
<1>5. CASE conf.china_ip_direct /\ host \notin CHINA /\ host \in NAMES /\ conf.domain_strategy = "SystemDns"
  <2>1. dns[host] \in Answers BY <1>5 DEF TypeOK
  <2>2. \/ route = RouteError \/ route = Proxy(u)
        \/ classify_domain(dns[host]) # NONE /\ route = Direct(classify_domain(dns[host]))
    BY <1>5 DEF decide
  <2>3. classify_domain(dns[host]) # NONE => classify_domain(dns[host]) \in CHINA BY <2>1, Pinned
  <2> QED BY <1>1, <1>2, <1>3, <1>5, <2>2, <2>3
<1>6. CASE /\ ~(conf.china_ip_direct /\ host \in CHINA)
           /\ ~(conf.china_ip_direct /\ host \in NAMES /\ conf.domain_strategy = "SystemDns")
  <2>1. route = Proxy(u) BY <1>6 DEF decide
  <2> QED BY <1>1, <2>1
<1> QED BY <1>4, <1>5, <1>6

\* Deciding: the handler connects, opens a tunnel, answers a CONNECT, or ends.
LEMMA DecideStep ==
  ASSUME IngressInv, UNCHANGED <<options, form, payload>>, NEW onDirect, NEW onProxy,
         Decide(onDirect, onProxy),
         \/ onDirect = "dial" /\ onProxy = "open" /\ form # "connect"
         \/ conn.via = "http" /\ onDirect = "established" /\ onProxy = "established" /\ form = "connect"
  PROVE  IngressInv'
<1>t. TypeOK /\ said \in Seq(Words) BY DEF IngressInv
<1> DEFINE route == decide(conn.user, conn.host)
<1>g. /\ conn.stage = "decide" /\ UNCHANGED <<conf, dns, said, peer, presented>>
      /\ conn' = [conn EXCEPT !.route = route,
                              !.stage = CASE route.kind = "direct" -> onDirect
                                          [] route.kind = "proxy" -> onProxy
                                          [] OTHER -> "ended"]
  BY DEF Decide
<1>u. conn.user \in USERS /\ Authorized BY <1>g DEF IngressInv, AuthInv, LoggedInStages
<1>h. conn.host \in Hosts BY <1>t, ConnFields
<1>r. /\ route \in Routes /\ route.kind \in {"direct", "proxy", "error"}
      /\ route.kind = "direct" => conf.china_ip_direct /\ route.connect_host \in CHINA
      /\ route.kind = "proxy" => route.pool = BACKEND_OF[conn.user]
  BY <1>t, <1>u, <1>h, DecideFacts
<1> HIDE DEF route
<1> DEFINE stage == CASE route.kind = "direct" -> onDirect
                      [] route.kind = "proxy" -> onProxy
                      [] OTHER -> "ended"
<1>s. /\ route.kind = "direct" => stage = onDirect
      /\ route.kind = "proxy" => stage = onProxy
      /\ route.kind = "error" => stage = "ended"
  BY <1>r
<1>1. conn' = [conn EXCEPT !.route = route, !.stage = stage] BY <1>g
<1> HIDE DEF stage
<1>2. stage \in {"dial", "open", "established", "ended"} BY <1>r, <1>s
<1>3. stage \in Stages BY <1>2 DEF Stages, SocksStages, HttpStages
<1>4. /\ conn' \in Conns(Stages) /\ conn'.stage = stage /\ conn'.via = conn.via /\ conn'.user = conn.user
      /\ conn'.route = route
  BY <1>t, <1>1, <1>3, <1>r DEF TypeOK, Conns, Stages
<1>5. TypeOK' BY <1>t, <1>g, <1>4 DEF TypeOK, Stages
<1>6. AuthInv'
  <2>1. conn'.user \in USERS /\ Authorized' BY <1>u, <1>g, <1>4 DEF Authorized
  <2> QED BY <1>2, <1>4, <2>1 DEF AuthInv
<1>7. RouteInv'
  <2>1. stage = "dial" => route.kind = "direct" BY <1>r, <1>s
  <2>2. stage = "open" => route.kind = "proxy" BY <1>r, <1>s
  <2>3. stage = "established" => route.kind \in {"direct", "proxy"} BY <1>r, <1>s
  <2>4. (route.kind = "direct" => GoesDirect') /\ (route.kind = "proxy" => GoesThroughPool')
    BY <1>g, <1>r, <1>4 DEF GoesDirect, GoesThroughPool
  <2> QED BY <1>2, <1>4, <2>1, <2>2, <2>3, <2>4 DEF RouteInv
<1>8. FormInv' BY <1>4 DEF IngressInv, FormInv
<1>9. SocksSaid'
  <2>1. conn.via = "socks5" => stage \in {"dial", "open", "ended"} BY <1>r, <1>s
  <2>2. conn.via = "socks5" => Welcome(said') BY <1>g DEF IngressInv, SocksSaid
  <2> QED BY <1>4, <2>1, <2>2 DEF SocksSaid, SocksStages, Unanswered
<1>10. HttpSaid'
  <2>1. conn.via = "http" => said' = <<>> BY <1>g DEF IngressInv, HttpSaid
  <2>2. stage = "established" => form' = "connect" BY <1>r, <1>s
  <2>3. stage \in {"dial", "open"} => form' # "connect" BY <1>r, <1>s
  <2> QED BY <1>2, <1>4, <2>1, <2>2, <2>3 DEF HttpSaid, HttpStages
<1>11. DirectOnlyListed' BY <1>g DEF IngressInv, DirectOnlyListed
<1> QED BY <1>t, <1>g, <1>5, <1>6, <1>7, <1>8, <1>9, <1>10, <1>11 DEF IngressInv

\* connect_direct succeeds: the address is the one the router pinned.
LEMMA ConnectedStep ==
  ASSUME IngressInv, conn.stage = "dial", UNCHANGED <<options, form, payload>>,
         NEW reply, ConnectDirect("direct", reply), said' \in Seq(Words),
         conn.via = "socks5" => Welcome(said') \/ Answer(said', {"reply 00"}),
         conn.via = "http" => said' = said
  PROVE  IngressInv'
<1>t. TypeOK BY DEF IngressInv
<1>1. /\ conn' = [conn EXCEPT !.stage = "direct"] /\ UNCHANGED <<conf, dns, presented>>
      /\ peer' \in Reached(conn.route.connect_host)
  BY DEF ConnectDirect
<1>2. GoesDirect BY DEF IngressInv, RouteInv
<1>3. peer' = conn.route.connect_host /\ peer' \in CHINA /\ peer' \in IPS /\ peer' # NONE
  BY <1>1, <1>2, RouterAssumption DEF GoesDirect, Reached
<1>4. "direct" \in Stages BY DEF Stages, SocksStages
<1>5. /\ conn' \in Conns(Stages) /\ conn'.stage = "direct" /\ conn'.via = conn.via
      /\ conn'.user = conn.user /\ conn'.route = conn.route
  BY <1>t, <1>1, <1>4, StageMoves
<1>6. TypeOK' BY <1>t, <1>1, <1>3, <1>5 DEF TypeOK, Stages
<1>7. AuthInv'
  <2>1. conn.user \in USERS /\ Authorized BY DEF IngressInv, AuthInv, LoggedInStages
  <2> QED BY <1>1, <1>5, <2>1 DEF AuthInv, Authorized
<1>8. RouteInv' BY <1>1, <1>2, <1>3, <1>5 DEF RouteInv, GoesDirect
<1>9. DirectOnlyListed' BY <1>1, <1>2, <1>3 DEF DirectOnlyListed, GoesDirect
<1>10. SocksSaid' BY <1>3, <1>5 DEF SocksSaid, SocksStages, Granted
<1>11. HttpSaid'
  <2>1. conn.via = "http" => said = IF form = "connect" THEN <<"200">> ELSE <<>>
    BY DEF IngressInv, HttpSaid
  <2>2. conn'.via = "http" => said' = IF form' = "connect" THEN <<"200">> ELSE <<>> BY <1>5, <2>1
  <2> QED BY <1>5, <2>2 DEF HttpSaid, HttpStages
<1>12. FormInv' BY <1>5 DEF IngressInv, FormInv
<1> QED BY <1>6, <1>7, <1>8, <1>9, <1>10, <1>11, <1>12 DEF IngressInv

\* From the decision to the tunnel.
LEMMA OpenedStep ==
  ASSUME IngressInv, conn.stage = "open", UNCHANGED <<options, form, payload, presented>>,
         NEW reply, Step("tunnel", reply), said' \in Seq(Words),
         conn.via = "socks5" => Welcome(said') \/ Answer(said', {"reply 00"}),
         conn.via = "http" => said' = said
  PROVE  IngressInv'
<1>t. TypeOK BY DEF IngressInv
<1>1. conn' = [conn EXCEPT !.stage = "tunnel"] /\ UNCHANGED <<conf, dns, peer>> BY DEF Step
<1>2. GoesThroughPool BY DEF IngressInv, RouteInv
<1>3. "tunnel" \in Stages BY DEF Stages, SocksStages
<1>4. /\ conn'.stage = "tunnel" /\ conn'.via = conn.via /\ conn'.user = conn.user
      /\ conn'.route = conn.route
  BY <1>t, <1>1, <1>3, StageMoves
<1>5. AuthInv'
  <2>1. conn.user \in USERS /\ Authorized BY DEF IngressInv, AuthInv, LoggedInStages
  <2> QED BY <1>4, <2>1 DEF AuthInv, Authorized
<1>6. RouteInv' BY <1>2, <1>4 DEF RouteInv, GoesThroughPool
<1>7. SocksSaid'
  <2>1. conn'.route.kind # "direct" BY <1>2, <1>4 DEF GoesThroughPool
  <2> QED BY <1>4, <2>1 DEF SocksSaid, SocksStages, Granted
<1>8. HttpSaid'
  <2>1. conn.via = "http" => said = IF form = "connect" THEN <<"200">> ELSE <<>>
    BY DEF IngressInv, HttpSaid
  <2>2. conn'.via = "http" => said' = IF form' = "connect" THEN <<"200">> ELSE <<>> BY <1>4, <2>1
  <2> QED BY <1>4, <2>2 DEF HttpSaid, HttpStages
<1>9. FormInv' BY <1>4 DEF IngressInv, FormInv
<1> QED BY <1>3, <1>5, <1>6, <1>7, <1>8, <1>9, MoveOn

-----------------------------------------------------------------------------
(***************************************************************************)
(* The rest of SOCKS5.                                                     *)
(***************************************************************************)
\* The success reply of a welcomed client, written or lost.
LEMMA SuccessReply ==
  ASSUME said \in Seq(Words), Welcome(said), NEW reply \in Replies("reply 00"), said' = said \o reply
  PROVE  said' \in Seq(Words) /\ (Welcome(said') \/ Answer(said', {"reply 00"}))
<1>1. CASE reply = <<>>
  <2>1. said' = said BY <1>1, SayNothing
  <2> QED BY <2>1
<1>2. CASE reply = <<"reply 00">>
  <2>1. "reply 00" \in Words /\ "reply 00" \in {"reply 00"} BY DEF Words
  <2>2. said' = said \o <<"reply 00">> BY <1>2
  <2>3. said' \in Seq(Words) BY <2>1, <2>2, SayOne, Zenon
  <2>4. Answer(said', {"reply 00"}) BY <2>1, <2>2, SayAnswer, Zenon
  <2> QED BY <2>3, <2>4
<1> QED BY <1>1, <1>2 DEF Replies

LEMMA SocksDialStep ==
  ASSUME IngressInv, conn.via = "socks5", UNCHANGED <<form, payload>>, SocksDial
  PROVE  IngressInv'
<1>t. TypeOK /\ said \in Seq(Words) BY DEF IngressInv
<1>g. conn.stage = "dial" /\ UNCHANGED options BY DEF SocksDial
<1>w. Welcome(said) BY <1>g DEF IngressInv, SocksSaid
<1>1. ASSUME NEW reply \in Replies("reply 00"), ConnectDirect("direct", reply) PROVE IngressInv'
  <2>1. said' = said \o reply BY <1>1 DEF ConnectDirect
  <2>2. said' \in Seq(Words) /\ (Welcome(said') \/ Answer(said', {"reply 00"}))
    BY <1>t, <1>w, <2>1, SuccessReply
  <2> QED BY <1>1, <1>g, <2>2, ConnectedStep
<1>2. ASSUME NEW reply \in Replies("reply 05"), Fail(reply), UNCHANGED presented PROVE IngressInv'
  <2>p. presented' \in Credentials \cup {NONE} BY <1>t, <1>2 DEF TypeOK
  <2>1. CASE reply = <<>> BY <1>2, <1>g, <2>p, <2>1, QuietEnd
  <2>2. CASE reply = <<"reply 05">>
    <3>1. /\ "reply 05" \in Words
          /\ "reply 05" \in {"reply 04", "reply 05", "reply 07", "reply 08"}
      BY DEF Words
    <3>2. Refused(said \o <<"reply 05">>) BY <1>t, <1>w, <3>1, SayAnswer, Zenon DEF Refused
    <3>3. Fail(<<"reply 05">>) BY <1>2, <2>2
    <3> QED BY <1>g, <2>p, <3>1, <3>2, <3>3, RefusedEnd, Zenon
  <2> QED BY <2>1, <2>2 DEF Replies
<1> QED BY <1>1, <1>2 DEF SocksDial

LEMMA SocksOpenStep ==
  ASSUME IngressInv, conn.via = "socks5", UNCHANGED <<form, payload>>, SocksOpen
  PROVE  IngressInv'
<1>t. TypeOK /\ said \in Seq(Words) BY DEF IngressInv
<1>g. conn.stage = "open" /\ UNCHANGED <<options, presented>> BY DEF SocksOpen
<1>w. Welcome(said) BY <1>g DEF IngressInv, SocksSaid
<1>1. PICK reply \in Replies("reply 00") : Step("tunnel", reply) BY DEF SocksOpen
<1>2. said' = said \o reply BY <1>1 DEF Step
<1>3. said' \in Seq(Words) /\ (Welcome(said') \/ Answer(said', {"reply 00"}))
  BY <1>t, <1>w, <1>2, SuccessReply
<1> QED BY <1>1, <1>g, <1>3, OpenedStep

\* Either listener: a read or a checked write fails, or the relay is over.
LEMMA IoErrorStep ==
  ASSUME IngressInv, NEW stages, IoError(stages), UNCHANGED <<options, form, payload>>
  PROVE  IngressInv'
<1>1. Fail(<<>>) /\ presented' = presented BY DEF IoError
<1>2. presented' \in Credentials \cup {NONE} BY <1>1 DEF IngressInv, TypeOK
<1> QED BY <1>1, <1>2, QuietEnd

LEMMA SocksStep ==
  ASSUME IngressInv, Socks5Handler
  PROVE  IngressInv'
<1>1. conn.via = "socks5" /\ SocksNext /\ UNCHANGED <<form, payload>> BY DEF Socks5Handler
<1>2. ASSUME NEW version \in {4, 5}, NEW methods \in SUBSET {0, 1, 2}, Negotiate(version, methods)
      PROVE  IngressInv'
  BY <1>1, <1>2, NegotiateStep
<1>3. CASE NoAuth BY <1>1, <1>3, NoAuthStep
<1>4. ASSUME NEW version \in {1, 2}, NEW name \in USERS \cup NAMES, NEW password \in Passwords,
             UserPass(version, name, password)
      PROVE  IngressInv'
  BY <1>1, <1>4, UserPassStep
<1>5. CASE ConnectRequest BY <1>1, <1>5, ConnectRequestStep
<1>6. CASE SocksRoute
  <2>1. form # "connect" BY <1>1 DEF IngressInv, FormInv
  <2>2. Decide("dial", "open") /\ UNCHANGED <<options, form, payload>> BY <1>1, <1>6 DEF SocksRoute
  <2> QED BY <2>1, <2>2, DecideStep
<1>7. CASE SocksDial BY <1>1, <1>7, SocksDialStep
<1>8. CASE SocksOpen BY <1>1, <1>8, SocksOpenStep
<1>9. CASE SocksRelayEnds
  <2>1. IoError({"direct", "tunnel"}) /\ UNCHANGED options BY <1>9 DEF SocksRelayEnds, RelayEnds
  <2> QED BY <1>1, <2>1, IoErrorStep
<1>10. CASE LocalError
  <2>1. IoError({"greeting", "userpass", "request"}) /\ UNCHANGED options BY <1>10 DEF LocalError
  <2> QED BY <1>1, <2>1, IoErrorStep
<1> QED BY <1>1, <1>2, <1>3, <1>4, <1>5, <1>6, <1>7, <1>8, <1>9, <1>10 DEF SocksNext

-----------------------------------------------------------------------------
(***************************************************************************)
(* The HTTP proxy.                                                         *)
(***************************************************************************)
\* Header names stay header names.
LEMMA Rewritten ==
  ASSUME NEW headers \in Seq(HeaderNames)
  PROVE  HeadersOk(headers) /\ HeadersOk(rewrite_absolute_request(headers))
<1>1. /\ Len(headers) \in Nat /\ DOMAIN headers = 1..Len(headers)
      /\ \A i \in DOMAIN headers : headers[i] \in HeaderNames
  OBVIOUS
<1>2. "Host" \in HeaderNames BY DEF HeaderNames
<1>3. ASSUME NEW kept \in SUBSET DOMAIN headers PROVE HeadersOk(Forwarded(headers, kept))
  BY <1>1, <1>2 DEF HeadersOk, Forwarded
<1> QED BY <1>1, <1>3 DEF HeadersOk, rewrite_absolute_request

LEMMA PortIsNat ==
  ASSUME NEW a \in Authorities, NEW f
  PROVE  PortOf(a, DefaultPort(f)) \in Nat
<1>1. a.port \in {<<>>} \cup {<<p>> : p \in PORTS} BY DEF Authorities
<1>2. DefaultPort(f) \in Nat BY DEF DefaultPort
<1>3. CASE a.port = <<>> BY <1>2, <1>3 DEF PortOf
<1>4. ASSUME NEW p \in PORTS, a.port = <<p>> PROVE PortOf(a, DefaultPort(f)) \in Nat
  <2>1. Head(a.port) = p /\ a.port # <<>> BY <1>4
  <2>2. p \in Nat BY RouterAssumption
  <2> QED BY <2>1, <2>2 DEF PortOf
<1> QED BY <1>1, <1>3, <1>4

LEMMA RequestStep ==
  ASSUME IngressInv, conn.via = "http", UNCHANGED options, Request
  PROVE  IngressInv'
<1>t. TypeOK /\ said \in Seq(Words) BY DEF IngressInv
<1>g. conn.stage = "header" BY DEF Request
<1>0. said = <<>> /\ conn.user = NONE /\ peer = NONE BY <1>g DEF IngressInv, HttpSaid
<1>1. PICK f \in {"connect", "absolute"}, headers \in HEADER_LISTS, cred \in {NONE} \cup Credentials,
           scheme \in BOOLEAN, a \in Authorities : HandleRequest(f, headers, cred, scheme, a)
  BY Zenon DEF Request
<1>2. CASE Fail(<<"407">>) /\ UNCHANGED <<form, presented, payload>>
  <2>1. "407" \in Words BY DEF Words
  <2>2. said' = said \o <<"407">> BY <1>2 DEF Fail, Step
  <2>3. said' \in Seq(Words) BY <1>t, <2>1, <2>2, SayOne, Zenon
  <2>4. said' = <<"407">> BY <1>0, <2>2
  <2>5. presented' \in Credentials \cup {NONE} BY <1>t, <1>2 DEF TypeOK
  <2>6. conn.via # "socks5" OBVIOUS
  <2> QED BY <1>0, <1>2, <2>3, <2>4, <2>5, <2>6, EndStep
<1>3. CASE Fail(<<>>) /\ presented' = cred /\ UNCHANGED <<form, payload>>
  <2>1. presented' \in Credentials \cup {NONE} BY <1>3
  <2> QED BY <1>3, <2>1, QuietEnd
<1>4. CASE /\ cred # NONE /\ Authenticates(cred.name, cred.password) /\ presented' = cred
           /\ conn' = [conn EXCEPT !.stage = "decide", !.user = cred.name,
                                   !.host = a.host, !.port = PortOf(a, DefaultPort(f))]
           /\ form' = f
           /\ payload' = IF f = "connect" THEN <<>> ELSE rewrite_absolute_request(headers)
           /\ UNCHANGED <<conf, dns, said, peer>>
  <2>1. cred \in Credentials /\ cred.name \in USERS /\ PASSWORD[cred.name] = cred.password
    BY <1>4 DEF Authenticates
  <2>2. a.host \in Hosts BY DEF Authorities
  <2>3. PortOf(a, DefaultPort(f)) \in Nat BY PortIsNat
  <2>4. "decide" \in Stages BY DEF Stages, SocksStages
  <2>5. /\ conn' \in Conns(Stages) /\ conn'.stage = "decide" /\ conn'.via = "http"
        /\ conn'.user = cred.name
    BY <1>t, <1>4, <2>1, <2>2, <2>3, <2>4 DEF TypeOK, Conns, Stages
  <2>6. headers \in Seq(HeaderNames) BY HttpAssumption
  <2>7. DOMAIN payload' \subseteq Nat /\ \A i \in DOMAIN payload' : payload'[i] \in HeaderNames
    <3>1. CASE f = "connect"
      <4>1. payload' = <<>> BY <1>4, <3>1
      <4>2. DOMAIN payload' = {} BY <4>1
      <4> QED BY <3>1, <4>2
    <3>2. CASE f = "absolute"
      <4>1. payload' = rewrite_absolute_request(headers) BY <1>4, <3>2
      <4> QED BY <2>6, <4>1, Rewritten DEF HeadersOk
    <3> QED BY <3>1, <3>2
  <2>8. TypeOK' BY <1>t, <1>4, <2>1, <2>5, <2>7 DEF TypeOK, Stages
  <2>9. AuthInv'
    <3>1. presented' # NONE /\ presented'.name = conn'.user /\ PASSWORD[conn'.user] = presented'.password
      BY <1>4, <2>1, <2>5
    <3> QED BY <2>1, <2>5, <3>1 DEF AuthInv, Authorized
  <2>10. RouteInv' /\ SocksSaid' BY <2>5 DEF RouteInv, SocksSaid
  <2>11. HttpSaid' BY <1>0, <1>4, <2>5 DEF HttpSaid, HttpStages
  <2>12. FormInv' BY <1>4, <2>5, <2>7 DEF FormInv
  <2>13. DirectOnlyListed' BY <1>4 DEF IngressInv, DirectOnlyListed
  <2> QED BY <1>t, <1>4, <2>8, <2>9, <2>10, <2>11, <2>12, <2>13 DEF IngressInv
<1> QED BY <1>1, <1>2, <1>3, <1>4 DEF HandleRequest

\* The answer to a CONNECT.
LEMMA EstablishedStep ==
  ASSUME IngressInv, conn.via = "http", UNCHANGED options, Established
  PROVE  IngressInv'
<1>t. TypeOK /\ said \in Seq(Words) BY DEF IngressInv
<1>g. conn.stage = "established" /\ UNCHANGED <<form, presented, payload>> BY DEF Established
<1>p. presented' \in Credentials \cup {NONE} BY <1>t, <1>g DEF TypeOK
<1>0. said = <<>> /\ form = "connect" BY <1>g DEF IngressInv, HttpSaid
<1>1. CASE Fail(<<>>) BY <1>1, <1>g, <1>p, QuietEnd
<1> DEFINE s == IF conn.route.kind = "direct" THEN "dial" ELSE "open"
<1>2. CASE Step(s, <<"200">>)
  <2>1. "200" \in Words BY DEF Words
  <2>2. said' = said \o <<"200">> /\ conn' = [conn EXCEPT !.stage = s] /\ UNCHANGED <<conf, peer>>
    BY <1>2 DEF Step
  <2>3. said' \in Seq(Words) BY <1>t, <2>1, <2>2, SayOne, Zenon
  <2>4. said' = <<"200">> BY <1>0, <2>2
  <2>5. s \in Stages /\ s \in {"dial", "open"} BY DEF Stages, SocksStages
  <2>6. conn'.stage = s /\ conn'.via = "http" /\ conn'.user = conn.user /\ conn'.route = conn.route
    BY <1>t, <2>2, <2>5, StageMoves
  <2>7. AuthInv'
    <3>1. conn.user \in USERS /\ Authorized BY <1>g DEF IngressInv, AuthInv, LoggedInStages
    <3> QED BY <1>g, <2>5, <2>6, <3>1 DEF AuthInv, Authorized
  <2>8. RouteInv'
    <3>1. GoesDirect \/ GoesThroughPool BY <1>g DEF IngressInv, RouteInv
    <3>2. CASE GoesDirect
      <4>1. s = "dial" BY <3>2 DEF GoesDirect
      <4> QED BY <2>2, <2>6, <3>2, <4>1 DEF RouteInv, GoesDirect
    <3>3. CASE GoesThroughPool
      <4>1. s = "open" BY <3>3 DEF GoesThroughPool
      <4> QED BY <2>6, <3>3, <4>1 DEF RouteInv, GoesThroughPool
    <3> QED BY <3>1, <3>2, <3>3
  <2>9. SocksSaid' BY <2>6 DEF SocksSaid
  <2>10. HttpSaid' BY <1>0, <1>g, <2>4, <2>5, <2>6 DEF HttpSaid, HttpStages
  <2>11. FormInv' BY <1>0, <1>g, <2>6 DEF FormInv
  <2> HIDE DEF s
  <2> QED BY <1>2, <1>g, <2>3, <2>5, <2>7, <2>8, <2>9, <2>10, <2>11, MoveOn
<1> QED BY <1>1, <1>2 DEF Established

LEMMA HttpStep ==
  ASSUME IngressInv, HttpHandler
  PROVE  IngressInv'
<1>1. conn.via = "http" /\ HttpNext /\ UNCHANGED options BY DEF HttpHandler
<1>t. TypeOK /\ said \in Seq(Words) BY DEF IngressInv
<1>2. CASE Request BY <1>1, <1>2, RequestStep
<1>3. CASE BadHeader
  <2>1. IoError({"header"}) /\ UNCHANGED <<form, payload>> BY <1>3 DEF BadHeader
  <2> QED BY <1>1, <2>1, IoErrorStep
<1>4. CASE HttpRoute
  <2>1. UNCHANGED <<options, form, payload>> BY <1>1, <1>4 DEF HttpRoute
  <2>2. CASE form = "connect" /\ Decide("established", "established") BY <1>1, <2>1, <2>2, DecideStep
  <2>3. CASE form # "connect" /\ Decide("dial", "open") BY <2>1, <2>3, DecideStep
  <2> QED BY <1>4, <2>2, <2>3 DEF HttpRoute
<1>5. CASE Established BY <1>1, <1>5, EstablishedStep
<1>6. CASE HttpDial
  <2>1. conn.stage = "dial" /\ UNCHANGED <<options, form, payload>> BY <1>1, <1>6 DEF HttpDial
  <2>2. CASE ConnectDirect("direct", <<>>)
    <3>1. said' = said BY <1>t, <2>2, SayNothing DEF ConnectDirect
    <3>2. said' \in Seq(Words) /\ conn.via # "socks5" BY <1>1, <1>t, <3>1
    <3> QED BY <2>1, <2>2, <3>1, <3>2, ConnectedStep
  <2>3. CASE Fail(<<>>) /\ UNCHANGED presented
    <3>1. presented' \in Credentials \cup {NONE} BY <1>t, <2>3 DEF TypeOK
    <3> QED BY <2>1, <2>3, <3>1, QuietEnd
  <2> QED BY <1>6, <2>2, <2>3 DEF HttpDial
<1>7. CASE HttpOpen
  <2>1. conn.stage = "open" /\ UNCHANGED <<options, form, payload, presented>> BY <1>1, <1>7 DEF HttpOpen
  <2>2. Step("tunnel", <<>>) BY <1>7 DEF HttpOpen
  <2>3. said' = said BY <1>t, <2>2, SayNothing DEF Step
  <2>4. said' \in Seq(Words) /\ conn.via # "socks5" BY <1>1, <1>t, <2>3
  <2> QED BY <2>1, <2>2, <2>3, <2>4, OpenedStep
<1>8. CASE NextRequest
  <2>1. /\ UNCHANGED <<conf, dns, conn, said, peer, presented, options, form>>
        /\ \E headers \in HEADER_LISTS : payload' = headers
    BY <1>1, <1>8 DEF NextRequest, routerVars
  <2>2. HeadersOk(payload') BY <2>1, HttpAssumption, Rewritten
  <2>3. dns' \in [NAMES -> Answers] BY <1>t, <2>1 DEF TypeOK
  <2> QED BY <2>1, <2>2, <2>3, Unmoved
<1>9. CASE HttpRelayEnds
  <2>1. IoError({"direct", "tunnel"}) /\ UNCHANGED <<form, payload>> BY <1>9 DEF HttpRelayEnds, RelayEnds
  <2> QED BY <1>1, <2>1, IoErrorStep
<1> QED BY <1>1, <1>2, <1>3, <1>4, <1>5, <1>6, <1>7, <1>8, <1>9 DEF HttpNext

-----------------------------------------------------------------------------
(***************************************************************************)
(* The resolver may change its answers at any time, and the invariant      *)
(* holds throughout.                                                       *)
(***************************************************************************)
LEMMA NextIngress == IngressInv /\ [Next]_vars => IngressInv'
<1> SUFFICES ASSUME IngressInv, [Next]_vars PROVE IngressInv' OBVIOUS
<1>t. dns \in [NAMES -> Answers] /\ HeadersOk(payload) BY DEF IngressInv, TypeOK, HeadersOk
<1>1. CASE Socks5Handler BY <1>1, SocksStep
<1>2. CASE HttpHandler BY <1>2, HttpStep
<1>3. CASE Resolver
  <2>1. dns' \in [NAMES -> Answers] BY <1>t, <1>3 DEF Resolver, DnsChanges
  <2>2. UNCHANGED <<conf, conn, said, peer, presented, options, form, payload>>
    BY <1>3 DEF Resolver, DnsChanges
  <2> QED BY <1>t, <2>1, <2>2, Unmoved
<1>4. CASE UNCHANGED vars
  <2>1. dns' = dns /\ UNCHANGED <<conf, conn, said, peer, presented, options, form, payload>>
    BY <1>4 DEF vars, routerVars
  <2> QED BY <1>t, <2>1, Unmoved
<1> QED BY <1>1, <1>2, <1>3, <1>4 DEF Next

LEMMA Invariant == Spec => []IngressInv
  BY InitIngress, NextIngress, PTL DEF Spec

-----------------------------------------------------------------------------
(***************************************************************************)
(* What the invariant says of the listeners.                               *)
(***************************************************************************)
LEMMA SocksConversation ==
  ASSUME IngressInv, conn.via = "socks5"
  PROVE  SocksRepliesTrue
<1> DEFINE bad == {"reply 04", "reply 05", "reply 07", "reply 08"}
<1>d. said \in Seq(Words) /\ Len(said) \in Nat /\ DOMAIN said = 1..Len(said)
  <2>1. said \in Seq(Words) BY DEF IngressInv
  <2> QED BY <2>1
<1>n. /\ Len(said) = 1 => DOMAIN said = {1}
      /\ Len(said) = 2 => DOMAIN said = {1, 2}
      /\ Len(said) = 3 => DOMAIN said = {1, 2, 3}
  <2>1. 1..1 = {1} /\ 1..2 = {1, 2} /\ 1..3 = {1, 2, 3} OBVIOUS
  <2> QED BY <1>d, <2>1
<1>0. /\ \/ Unanswered(said) \/ Refused(said) \/ Granted(said)
      /\ Refused(said) /\ ~Unanswered(said) /\ ~Granted(said) => conn.stage = "ended"
  <2>1. conn.stage \in SocksStages BY DEF IngressInv, SocksSaid
  <2>2. CASE conn.stage \in {"request", "decide", "dial", "open", "ended", "direct", "tunnel"}
    BY <2>2 DEF IngressInv, SocksSaid, Unanswered
  <2>3. CASE conn.stage \in {"greeting", "noauth", "userpass"}
    BY <2>3 DEF IngressInv, SocksSaid, Unanswered, Welcome
  <2> QED BY <2>1, <2>2, <2>3 DEF SocksStages
<1>p. /\ Phase("method 00") = 1 /\ Phase("method 02") = 1 /\ Phase("method ff") = 1
      /\ Phase("auth 00") = 2 /\ Phase("auth 01") = 2
      /\ Phase("reply 00") = 3 /\ \A r \in bad : Phase(r) = 3
  BY DEF Phase
<1>q. 1 # 2 /\ 3 # 2 /\ 1 < 3 OBVIOUS
<1>f. /\ "method 00" \notin Failures /\ "method 02" \notin Failures /\ "auth 00" \notin Failures
      /\ "reply 00" \notin Failures
  BY DEF Failures
\* What can have been said, and what it shows.
<1>1. CASE Len(said) = 0
  <2>1. DOMAIN said = {} BY <1>d, <1>1
  <2> QED BY <2>1 DEF SocksRepliesTrue
<1>2. CASE Len(said) = 1 /\ said[1] \in {"method 00", "method 02"}
  <2>1. DOMAIN said = {1} BY <1>n, <1>2
  <2>2. Phase(said[1]) = 1 /\ said[1] \notin Failures /\ said[1] # "reply 00" BY <1>2, <1>p, <1>f
  <2>3. \A i \in DOMAIN said : Phase(said[i]) # 2 BY <1>q, <2>1, <2>2, Zenon
  <2>4. \A i, j \in DOMAIN said : ~(i < j) BY <2>1
  <2> QED BY <2>1, <2>2, <2>3, <2>4 DEF SocksRepliesTrue
<1>3. CASE Len(said) = 1 /\ said[1] = "method ff" /\ conn.stage = "ended"
  <2>1. DOMAIN said = {1} BY <1>n, <1>3
  <2>2. Phase(said[1]) = 1 /\ said[1] # "reply 00" BY <1>3, <1>p
  <2>3. \A i \in DOMAIN said : Phase(said[i]) # 2 BY <1>q, <2>1, <2>2, Zenon
  <2>4. \A i, j \in DOMAIN said : ~(i < j) BY <2>1
  <2> QED BY <1>3, <2>1, <2>2, <2>3, <2>4 DEF SocksRepliesTrue
<1>4. ASSUME Len(said) = 2, said[1] = "method 02",
             \/ said[2] = "auth 00"
             \/ said[2] = "auth 01" /\ conn.stage = "ended"
      PROVE  SocksRepliesTrue
  <2>1. DOMAIN said = {1, 2} BY <1>n, <1>4
  <2>2. Phase(said[1]) = 1 /\ said[1] \notin Failures /\ said[1] # "reply 00" BY <1>4, <1>p, <1>f
  <2>3. Phase(said[2]) = 2 /\ said[2] # "reply 00" BY <1>4, <1>p
  <2>4. said[2] \in Failures => conn.stage = "ended" BY <1>4, <1>f
  <2> QED BY <1>4, <2>1, <2>2, <2>3, <2>4 DEF SocksRepliesTrue
<1>5. ASSUME Len(said) = 2, said[1] = "method 00",
             \/ said[2] = "reply 00" /\ (conn.route.kind = "direct" => peer # NONE)
             \/ said[2] \in bad /\ conn.stage = "ended"
      PROVE  SocksRepliesTrue
  <2>1. DOMAIN said = {1, 2} BY <1>n, <1>5
  <2>2. Phase(said[1]) = 1 /\ said[1] \notin Failures /\ said[1] # "reply 00" BY <1>5, <1>p, <1>f
  <2>3. Phase(said[2]) = 3 BY <1>5, <1>p
  <2>4. said[2] \in Failures => conn.stage = "ended" BY <1>5, <1>f
  <2>5. said[2] = "reply 00" => (conn.route.kind = "direct" => peer # NONE) BY <1>5
  <2>6. \A i \in DOMAIN said : Phase(said[i]) # 2 BY <1>q, <2>1, <2>2, <2>3, Zenon
  <2>7. \A i, j \in DOMAIN said : i < j => i = 1 /\ j = 2 BY <2>1
  <2>8. \A i, j \in DOMAIN said : i < j => Phase(said[i]) < Phase(said[j])
    BY <1>q, <2>2, <2>3, <2>7, Zenon
  <2> QED BY <1>5, <2>1, <2>2, <2>4, <2>5, <2>6, <2>8 DEF SocksRepliesTrue
<1>6. ASSUME Len(said) = 3, said[1] = "method 02", said[2] = "auth 00",
             \/ said[3] = "reply 00" /\ (conn.route.kind = "direct" => peer # NONE)
             \/ said[3] \in bad /\ conn.stage = "ended"
      PROVE  SocksRepliesTrue
  <2>1. DOMAIN said = {1, 2, 3} BY <1>n, <1>6
  <2>2. Phase(said[1]) = 1 /\ said[1] \notin Failures /\ said[1] # "reply 00" BY <1>6, <1>p, <1>f
  <2>3. Phase(said[2]) = 2 /\ said[2] \notin Failures /\ said[2] # "reply 00" BY <1>6, <1>p, <1>f
  <2>4. Phase(said[3]) = 3 BY <1>6, <1>p
  <2>5. said[3] \in Failures => conn.stage = "ended" BY <1>6, <1>f
  <2>6. said[3] = "reply 00" => (conn.route.kind = "direct" => peer # NONE) BY <1>6
  <2> QED BY <1>6, <2>1, <2>2, <2>3, <2>4, <2>5, <2>6 DEF SocksRepliesTrue
<1> HIDE DEF bad
<1>7. CASE Unanswered(said) BY <1>1, <1>2, <1>4, <1>7 DEF Unanswered, Welcome, Method, Pair
<1>8. CASE Granted(said) BY <1>5, <1>6, <1>8 DEF Granted, Answer
<1>9. CASE Refused(said) /\ conn.stage = "ended"
  BY <1>3, <1>4, <1>5, <1>6, <1>9 DEF Refused, Method, Pair, Answer, bad
<1> QED BY <1>0, <1>7, <1>8, <1>9

LEMMA HttpConversation == ASSUME IngressInv PROVE SpeaksOnce
<1> SUFFICES ASSUME conn.via = "http" PROVE SpeaksOnce BY DEF SpeaksOnce
<1>1. said \in {<<>>, <<"200">>, <<"407">>} BY DEF IngressInv, HttpSaid, HttpStages
<1>2. Len(said) <= 1
  <2>1. CASE said = <<>> BY <2>1
  <2>2. CASE said = <<"200">> BY <2>2
  <2>3. CASE said = <<"407">> BY <2>3
  <2> QED BY <1>1, <2>1, <2>2, <2>3
<1>3. said = <<"407">> => conn.stage = "ended" /\ conn.user = NONE /\ peer = NONE
  <2> HAVE said = <<"407">>
  <2>1. <<"407">> # <<>> /\ <<"407">> # <<"200">> OBVIOUS
  <2> QED BY <2>1 DEF IngressInv, HttpSaid, HttpStages
<1>4. conn.stage \in {"direct", "tunnel"} => said = IF form = "connect" THEN <<"200">> ELSE <<>>
  BY DEF IngressInv, HttpSaid
<1>5. <<"200">> # <<>> OBVIOUS
<1> QED BY <1>2, <1>3, <1>4, <1>5 DEF SpeaksOnce

-----------------------------------------------------------------------------
\* The state of a connection, of the listener and of the request is always one
\* of those the code can hold.
THEOREM TypeCorrect == Spec => []TypeOK
<1>1. IngressInv => TypeOK BY DEF IngressInv
<1> QED BY <1>1, Invariant, PTL

\* connect_direct only ever reaches an address of the China table, and only
\* with china_ip_direct, whatever the resolver answers between the decision of
\* the router and the connect.
THEOREM DirectOnlyToListed == Spec => []DirectOnlyListed
<1>1. IngressInv => DirectOnlyListed BY DEF IngressInv
<1> QED BY <1>1, Invariant, PTL

\* Nobody gets a relay without the password of a user, or the operator's
\* no-auth, and what is proxied goes through the pool of that user's backend.
THEOREM RelaysAreAuthorized == Spec => []RelayOnlyAuthorized
<1>1. IngressInv => RelayOnlyAuthorized
  <2> SUFFICES ASSUME IngressInv PROVE RelayOnlyAuthorized OBVIOUS
  <2>1. conn.stage \in LoggedInStages => conn.user \in USERS /\ Authorized BY DEF IngressInv, AuthInv
  <2>2. OwnBackend
    <3>1. conn.stage \in {"open", "tunnel"} => GoesThroughPool BY DEF IngressInv, RouteInv
    <3> QED BY <2>1, <3>1 DEF OwnBackend, LoggedInStages, GoesThroughPool
  <2> QED BY <2>1, <2>2 DEF RelayOnlyAuthorized, Authorized, LoggedInStages
<1> QED BY <1>1, Invariant, PTL

\* What either listener writes to its client is a conversation the client can
\* follow and believe, also when replies are lost.
THEOREM RepliesAreTrue == Spec => []RepliesTrue
<1>1. IngressInv => RepliesTrue
  <2>1. IngressInv /\ conn.via # "socks5" => SocksRepliesTrue BY DEF SocksRepliesTrue
  <2> QED BY <2>1, SocksConversation, HttpConversation DEF RepliesTrue
<1> QED BY <1>1, Invariant, PTL
=============================================================================
