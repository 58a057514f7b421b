------------------------------ MODULE Ingress ------------------------------
(***************************************************************************)
(* The client's two listeners share the users, the router and the pools.   *)
(* One local connection, accepted by either of them, up to the end of its  *)
(* relay, while the resolver changes its answers.                          *)
(***************************************************************************)
EXTENDS Socks5, HttpProxy

vars == <<routerVars, options, form, payload>>

TypeOK ==
  /\ conf \in RouteConfigs
  /\ dns \in [NAMES -> Answers]
  /\ conn \in Conns(SocksStages \cup HttpStages)
  /\ peer \in IPS \cup {NONE}
  /\ presented \in Credentials \cup {NONE}
  /\ options \in SocksOptions
  /\ form \in {"none", "connect", "absolute"}
  /\ DOMAIN payload \subseteq Nat /\ \A i \in DOMAIN payload : payload[i] \in HeaderNames

\* The HTTP handler has no Socks5Options, the SOCKS5 handler no request.
Init ==
  \/ SocksInit /\ form = "none" /\ payload = <<>>
  \/ HttpInit /\ options = [allow_no_auth |-> FALSE, default_user |-> NONE]

Socks5Handler == conn.via = "socks5" /\ SocksNext /\ UNCHANGED <<form, payload>>

HttpHandler == conn.via = "http" /\ HttpNext /\ UNCHANGED options

Resolver == DnsChanges /\ UNCHANGED <<options, form, payload>>

Next == Socks5Handler \/ HttpHandler \/ Resolver

Spec == Init /\ [][Next]_vars

-----------------------------------------------------------------------------
\* Whoever gets a relay proved who they are: they sent that user's password,
\* or they came through SOCKS5, the operator allows no-auth there and named
\* the user.  What is proxied goes through the pool of that user's backend.
RelayOnlyAuthorized ==
  /\ OwnBackend
  /\ conn.stage \in {"direct", "tunnel"} =>
       \/ presented # NONE /\ presented.name = conn.user /\ PASSWORD[conn.user] = presented.password
       \/ conn.via = "socks5" /\ options.allow_no_auth /\ conn.user = options.default_user

\* The client can follow what either listener says to it, also when a reply is
\* lost and the handler goes on, and believe a refusal.  That a success on the
\* direct path means connected is asked of SOCKS5 only: the HTTP listener writes
\* 200 before it connects.
RepliesTrue == SocksRepliesTrue /\ SpeaksOnce
=============================================================================
