------------------------------ MODULE HttpProxy ------------------------------
(***************************************************************************)
(* handle() of client/src/ingress_http.rs for one local connection: the    *)
(* request header it parses, CONNECT or absolute-form, and the absolute-   *)
(* form requests that follow on the same connection, which it relays as    *)
(* they come.  The text of the header is abstracted to what parse_request, *)
(* authenticate and parse_authority tell apart.                            *)
(***************************************************************************)
EXTENDS Router

CONSTANT HEADER_LISTS    \* the header names a request may carry, in order

HeaderNames == {"Proxy-Authorization", "Proxy-Connection", "Host", "Other"}

ASSUME HttpAssumption == HEADER_LISTS \subseteq Seq(HeaderNames)

VARIABLES
  form,       \* the kind of the request: "connect" or "absolute"
  payload     \* header names of the absolute-form request forwarded last, by place

HttpStages ==
  {"header", "decide", "established", "dial", "open", "direct", "tunnel", "ended"}

HttpInit ==
  /\ RouterInit("http", "header")
  /\ form = "none"
  /\ payload = <<>>

-----------------------------------------------------------------------------
(***************************************************************************)
(* An authority: malformed (empty, with user info, unclosed bracket), or a *)
(* host, in brackets or not, with a port or none.                          *)
(***************************************************************************)
Authorities ==
  [malformed : BOOLEAN, bracket : BOOLEAN, host : Hosts, port : {<<>>} \cup {<<p>> : p \in PORTS}]

PortOf(a, default) == IF a.port = <<>> THEN default ELSE Head(a.port)

\* The bracketed form returns before host and port are looked at.
parse_authority_ok(a, default) ==
  /\ ~a.malformed
  /\ PortOf(a, default) <= MAX_PORT
  /\ a.bracket \/ (a.host # EMPTY_HOST /\ PortOf(a, default) # 0)

HasHost(headers) == \E i \in DOMAIN headers : headers[i] = "Host"

\* The headers at the places `kept', and a Host behind them if there was none.
Forwarded(headers, kept) ==
  LET host == IF HasHost(headers) THEN {} ELSE {Len(headers) + 1}
  IN  [i \in kept \cup host |-> IF i \in host THEN "Host" ELSE headers[i]]

\* rewrite_absolute_request; a header that is kept keeps its place in the order.
rewrite_absolute_request(headers) ==
  Forwarded(headers,
            {i \in DOMAIN headers : headers[i] \notin {"Proxy-Authorization", "Proxy-Connection"}})

HasCredentials(headers) == \E i \in DOMAIN headers : headers[i] = "Proxy-Authorization"

DefaultPort(f) == IF f = "connect" THEN 443 ELSE 80

(***************************************************************************)
(* read_header, parse_request, authenticate and the parsing of the target. *)
(* `cred' is what the first Proxy-Authorization decodes to, NONE if it     *)
(* does not; `scheme' says that an absolute target starts with http://.    *)
(***************************************************************************)
HandleRequest(f, headers, cred, scheme, a) ==
  IF HasCredentials(headers) /\ cred # NONE /\ Authenticates(cred.name, cred.password)
  THEN /\ presented' = cred
       /\ IF (f = "connect" \/ scheme) /\ parse_authority_ok(a, DefaultPort(f))
          THEN /\ conn' = [conn EXCEPT !.stage = "decide", !.user = cred.name,
                                       !.host = a.host, !.port = PortOf(a, DefaultPort(f))]
               /\ form' = f
               /\ payload' = IF f = "connect" THEN <<>> ELSE rewrite_absolute_request(headers)
               /\ UNCHANGED <<conf, dns, said, peer>>
          ELSE Fail(<<>>) /\ UNCHANGED <<form, payload>>
  ELSE Fail(<<"407">>) /\ UNCHANGED <<form, presented, payload>>

Request ==
  /\ conn.stage = "header"
  /\ \E f \in {"connect", "absolute"}, headers \in HEADER_LISTS,
        cred \in {NONE} \cup Credentials, scheme \in BOOLEAN, a \in Authorities :
       HandleRequest(f, headers, cred, scheme, a)

\* The header never completes, is too long, or parse_request rejects it.
BadHeader == IoError({"header"}) /\ UNCHANGED <<form, payload>>

HttpRoute ==
  /\ IF form = "connect" THEN Decide("established", "established") ELSE Decide("dial", "open")
  /\ UNCHANGED <<form, payload>>

\* CONNECT is answered before anything is connected.
Established ==
  /\ conn.stage = "established"
  /\ \/ Step(IF conn.route.kind = "direct" THEN "dial" ELSE "open", <<"200">>)
     \/ Fail(<<>>)
  /\ UNCHANGED <<form, presented, payload>>

HttpDial ==
  /\ conn.stage = "dial"
  /\ ConnectDirect("direct", <<>>) \/ (Fail(<<>>) /\ UNCHANGED presented)
  /\ UNCHANGED <<form, payload>>

HttpOpen == conn.stage = "open" /\ Step("tunnel", <<>>) /\ UNCHANGED <<form, presented, payload>>

\* A client that keeps the connection alive sends its next absolute-form request.
\* relay_direct and relay_grpc copy it: handle() parses and rewrites the first only.
NextRequest ==
  /\ conn.stage \in {"direct", "tunnel"} /\ form = "absolute"
  /\ \E headers \in HEADER_LISTS : payload' = headers
  /\ UNCHANGED <<routerVars, form>>

HttpRelayEnds == RelayEnds /\ UNCHANGED <<form, payload>>

HttpNext ==
  \/ Request
  \/ BadHeader
  \/ HttpRoute \/ Established \/ HttpDial \/ HttpOpen
  \/ NextRequest \/ HttpRelayEnds

-----------------------------------------------------------------------------
\* The proxy speaks at most once, and not at all inside an absolute-form
\* exchange: what the client reads there is the origin's answer.  Whoever reads
\* 407 was taken for nobody and got no connection.  A 200 does not mean that the
\* target is connected, on neither route: CONNECT is answered before the connect.
SpeaksOnce ==
  conn.via = "http" =>
    /\ Len(said) <= 1
    /\ conn.stage \in {"direct", "tunnel"} => (said = <<"200">> <=> form = "connect")
    /\ said = <<"407">> => conn.stage = "ended" /\ conn.user = NONE /\ peer = NONE
=============================================================================
