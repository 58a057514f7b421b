------------------------------- MODULE Router -------------------------------
(***************************************************************************)
(* Router of client/src/router.rs, and the part the two ingress handlers   *)
(* share: one accepted local connection (`conn'), its authenticated user   *)
(* and what is done for it.  A literal address is a member of IPS; any     *)
(* other host is a name that the system resolver answers for, differently  *)
(* at different times.                                                     *)
(***************************************************************************)
EXTENDS Naturals, Sequences

CONSTANTS
  IPS,           \* literal addresses
  CHINA,         \* those ChinaIpSet::contains
  NAMES,         \* hosts that do not parse as an address
  EMPTY_HOST,    \* the name of length zero
  USERS,         \* the configured users
  PASSWORD,      \* user -> password
  BACKEND_OF,    \* user -> backend id
  BACKENDS,      \* ids of the connected pools
  PORTS,         \* the numbers a request may name as port, 0 among them
  NONE           \* no user, no address

Passwords == {PASSWORD[u] : u \in USERS}

\* What a client may present: any name with any password.
Credentials == [name : USERS \cup NAMES, password : Passwords]

ASSUME RouterAssumption ==
  /\ CHINA \subseteq IPS /\ IPS \cap NAMES = {} /\ EMPTY_HOST \in NAMES
  /\ PORTS \subseteq Nat
  /\ NONE \notin USERS \cup IPS \cup NAMES \cup Credentials
  \* validate_users_backends: EveryUserHasPool of ClientProcess
  /\ \A u \in USERS : BACKEND_OF[u] \in BACKENDS

VARIABLES
  conf,     \* RouteConfig
  dns,      \* what the resolver answers for a name: addresses, or <<NONE>> for an error
  conn,     \* the connection's handler: listener, stage, user, host, port, route
  said,     \* the replies written to the local client
  peer,     \* the address a direct connection was made to
  presented \* history: the credentials the client sent, or NONE

routerVars == <<conf, dns, conn, said, peer, presented>>

MAX_PORT == 65535

Hosts == IPS \cup NAMES

RouteConfigs == [china_ip_direct : BOOLEAN, domain_strategy : {"RemoteForProxy", "SystemDns"}]

Answers == {<<NONE>>, <<>>} \cup [1..1 -> IPS] \cup [1..2 -> IPS]

Routes ==
  [kind : {"none", "error"}] \cup [kind : {"direct"}, connect_host : Hosts]
    \cup [kind : {"proxy"}, pool : BACKENDS]

NoRoute == [kind |-> "none"]

RouteError == [kind |-> "error"]

Conns(stages) ==
  [via : {"socks5", "http"}, stage : stages, user : USERS \cup {NONE}, host : Hosts,
   port : Nat, route : Routes]

NewConn(via, stage) ==
  [via |-> via, stage |-> stage, user |-> NONE, host |-> EMPTY_HOST, port |-> 0,
   route |-> NoRoute]

RouterInit(via, stage) ==
  /\ conf \in RouteConfigs
  /\ dns \in [NAMES -> {<<>>}]
  /\ conn = NewConn(via, stage)
  /\ said = <<>>
  /\ peer = NONE
  /\ presented = NONE

-----------------------------------------------------------------------------
\* Mutation: the name is enough.
AuthenticatesByName(name, password) == name \in USERS

(***************************************************************************)
(* AuthStore::authenticate and AuthStore::user of client/src/auth.rs.      *)
(***************************************************************************)
Authenticates(name, password) == name \in USERS /\ PASSWORD[name] = password

\* Mutation: the default user is not looked up.
AnyUser(name) == TRUE

KnownUser(name) == name \in USERS

(***************************************************************************)
(* Router::decide.  `?' on a failed lookup makes the whole decision fail.  *)
(***************************************************************************)
Direct(host) == [kind |-> "direct", connect_host |-> host]

Proxy(u) ==
  IF BACKEND_OF[u] \in BACKENDS THEN [kind |-> "proxy", pool |-> BACKEND_OF[u]] ELSE RouteError

LookupFailed(addrs) == addrs = <<NONE>>

\* Mutation: one listed address is enough.
classify_any(addrs) ==
  IF \E i \in DOMAIN addrs : addrs[i] \in CHINA THEN Head(addrs) ELSE NONE

\* The address the domain is pinned to, or NONE.
classify_domain(addrs) ==
  IF addrs # <<>> /\ \A i \in DOMAIN addrs : addrs[i] \in CHINA THEN Head(addrs) ELSE NONE

decide(u, host) ==
  CASE conf.china_ip_direct /\ host \in CHINA -> Direct(host)
    [] /\ conf.china_ip_direct /\ host \in NAMES
       /\ conf.domain_strategy = "SystemDns" ->
         IF LookupFailed(dns[host]) THEN RouteError
         ELSE IF classify_domain(dns[host]) # NONE THEN Direct(classify_domain(dns[host]))
         ELSE Proxy(u)
    [] OTHER -> Proxy(u)

Decide(onDirect, onProxy) ==
  LET route == decide(conn.user, conn.host)
  IN  /\ conn.stage = "decide"
      /\ conn' = [conn EXCEPT !.route = route,
                              !.stage = CASE route.kind = "direct" -> onDirect
                                          [] route.kind = "proxy" -> onProxy
                                          [] OTHER -> "ended"]
      /\ UNCHANGED <<conf, dns, said, peer, presented>>

(***************************************************************************)
(* connect_direct.  TcpStream::connect resolves a name (again), and        *)
(* reaches a literal address itself.                                       *)
(***************************************************************************)
Reached(host) == IF host \in IPS THEN {host} ELSE {dns[host][i] : i \in DOMAIN dns[host]} \ {NONE}

ConnectDirect(next, reply) ==
  /\ \E ip \in Reached(conn.route.connect_host) : peer' = ip
  /\ said' = said \o reply
  /\ conn' = [conn EXCEPT !.stage = next]
  /\ UNCHANGED <<conf, dns, presented>>

(***************************************************************************)
(* The environment: the resolver changes its mind, at any time before the  *)
(* handler has decided and connected.                                      *)
(***************************************************************************)
DnsChanges ==
  /\ conn.stage \in {"decide", "established", "dial"}
  /\ \E name \in NAMES, addrs \in Answers : dns' = [dns EXCEPT ![name] = addrs]
  /\ UNCHANGED <<conf, conn, said, peer, presented>>

(***************************************************************************)
(* The steps of a handler.                                                 *)
(***************************************************************************)
Step(next, reply) ==
  /\ conn' = [conn EXCEPT !.stage = next]
  /\ said' = said \o reply
  /\ UNCHANGED <<conf, dns, peer>>

Fail(reply) == Step("ended", reply)

\* A read or a checked write of this stage fails and the handler returns.
IoError(stages) == conn.stage \in stages /\ Fail(<<>>) /\ UNCHANGED presented

\* relay_direct or relay_grpc returns.
RelayEnds == IoError({"direct", "tunnel"})

LoggedIn(u, next, reply) ==
  /\ conn' = [conn EXCEPT !.stage = next, !.user = u]
  /\ said' = said \o reply
  /\ UNCHANGED <<conf, dns, peer>>

Target(host, port) ==
  /\ conn' = [conn EXCEPT !.stage = "decide", !.host = host, !.port = port]
  /\ UNCHANGED <<conf, dns, said, peer, presented>>

-----------------------------------------------------------------------------
\* A direct connection is made only with china_ip_direct, to an address of the
\* China table, even if the name the client asked for resolves to something
\* else by the time connect_direct runs.
DirectOnlyListed == peer # NONE => conf.china_ip_direct /\ peer \in CHINA

\* Traffic is proxied only through the pool of the user's own backend.
OwnBackend ==
  conn.stage \in {"open", "tunnel"} =>
    conn.user \in USERS /\ conn.route.pool = BACKEND_OF[conn.user]
=============================================================================
