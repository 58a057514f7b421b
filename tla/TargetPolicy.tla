---------------------------- MODULE TargetPolicy ----------------------------
(***************************************************************************)
(* How the server reaches the target of an Open: Policy::resolve_target of *)
(* server/src/policy.rs, connect_any and the write of first_payload of     *)
(* server/src/service.rs.  ServerAdmission composes it with what comes     *)
(* before and shows that it is what ServerDial of TunnelServer does in one *)
(* step.                                                                   *)
(*                                                                         *)
(* An address is a family and the class of the host it leads to.  An       *)
(* IPv4-mapped V6 address leads to the host of the V4 address inside it.   *)
(* The resolver may answer anything, a connect may succeed, fail or time   *)
(* out, and the kernel may report another peer than the one that was       *)
(* dialled, or none.                                                       *)
(***************************************************************************)
EXTENDS Naturals, Sequences

CONSTANTS
  ADDRS,         \* the addresses of this instance
  NAMES,         \* hosts that do not parse as an address
  BAD_HOSTS,     \* hosts that validate_host rejects
  PORTS,         \* target_port values of an Open, a u32
  MAX_ADDRS,     \* bound: addresses in an answer of the resolver
  NO_ADDR

Classes ==
  {"private", "unique_local", "loopback", "link_local", "multicast", "broadcast",
   "documentation", "unspecified", "public"}

\* The classes of one family only: unique local of V6, private and broadcast of V4.
Addresses ==
  [fam : {"V4", "mapped"}, class : Classes \ {"unique_local"}]
    \cup [fam : {"V6"}, class : Classes \ {"private", "broadcast"}]

ASSUME PolicyAssumption ==
  /\ ADDRS \subseteq Addresses /\ NO_ADDR \notin ADDRS
  /\ PORTS \subseteq Nat /\ MAX_ADDRS \in Nat \ {0}

VARIABLES
  policy,       \* deny_private_ip and allowed_ports (the empty set: no restriction)
  stage,        \* where the call is
  open,         \* host, port and whether there is a first_payload in the Open
  addrs,        \* the candidates resolve_target returned
  tried,        \* what became of the candidates dialled so far
  peer,         \* the address of the connection that was opened
  delivered     \* how much of first_payload was written to it

dialVars == <<policy, stage, open, addrs, tried, peer, delivered>>

MAX_PORT == 65535

Hosts == ADDRS \cup NAMES \cup BAD_HOSTS

Opens == [host : Hosts, port : PORTS, payload : BOOLEAN]

NoOpen == [host |-> NO_ADDR, port |-> 0, payload |-> FALSE]

Lists == UNION {[1..k -> ADDRS] : k \in 0..MAX_ADDRS}

DialStages == {"opened", "resolving", "connecting", "writing"}

DialTypeOK ==
  /\ policy \in [deny_private_ip : BOOLEAN, allowed_ports : SUBSET (0..MAX_PORT)]
  /\ open \in Opens \cup {NoOpen}
  /\ addrs \in Lists
  /\ tried \in Seq({"failed", "timeout", "denied", "connected"}) /\ Len(tried) <= Len(addrs)
  /\ peer \in ADDRS \cup {NO_ADDR}
  /\ delivered \in {"none", "part", "all"}

-----------------------------------------------------------------------------
\* The V6 arm looks at the prefix of the V6 address only, and ::ffff:0:0/96 has
\* none of the prefixes it denies.
DeniedClasses(fam) ==
  LET both == {"loopback", "link_local", "multicast", "documentation", "unspecified"}
  IN  CASE fam = "V4" -> both \cup {"private", "broadcast"}
        [] fam = "V6" -> both \cup {"unique_local"}
        [] fam = "mapped" -> {}

check_ip(a) == policy.deny_private_ip => a.class \notin DeniedClasses(a.fam)

PortOk(p) ==
  p <= MAX_PORT /\ p # 0 /\ (policy.allowed_ports # {} => p \in policy.allowed_ports)

validate_host(host) == host \notin BAD_HOSTS

Refuse == stage' = "refused" /\ UNCHANGED <<policy, open, addrs, tried, peer, delivered>>

\* resolve_target up to the resolver: what is wrong with the Open itself.
CheckOpen ==
  /\ stage = "opened"
  /\ IF PortOk(open.port) /\ validate_host(open.host)
     THEN stage' = "resolving" /\ UNCHANGED <<policy, open, addrs, tried, peer, delivered>>
     ELSE Refuse

\* One denied candidate refuses the whole target, as does an empty answer.
Resolved(answer) ==
  /\ stage = "resolving"
  /\ IF answer # <<>> /\ \A i \in DOMAIN answer : check_ip(answer[i])
     THEN stage' = "connecting" /\ addrs' = answer /\ UNCHANGED <<policy, open, tried, peer, delivered>>
     ELSE Refuse

\* An address resolves to itself; the resolver may fail for a name.
Resolve ==
  \/ open.host \in ADDRS /\ Resolved(<<open.host>>)
  \/ open.host \in NAMES /\ \E answer \in Lists : Resolved(answer)

ResolveFails == stage = "resolving" /\ open.host \in NAMES /\ Refuse

-----------------------------------------------------------------------------
\* Mutation: one attempt too many.
TryingOneMore == stage = "connecting" /\ Len(tried) <= Len(addrs)

\* connect_any: the candidates in order.
Trying == stage = "connecting" /\ Len(tried) < Len(addrs)

Tried(outcome) == tried' = Append(tried, outcome)

\* Mutation: the first failure ends the loop.
ConnectFailsAtOnce(outcome) ==
  Trying /\ Tried(outcome) /\ stage' = "refused" /\ UNCHANGED <<policy, open, addrs, peer, delivered>>

ConnectFails(outcome) ==
  /\ Trying
  /\ Tried(outcome)
  /\ UNCHANGED <<policy, stage, open, addrs, peer, delivered>>

\* Mutation: the connected peer is not checked.
ConnectedUnchecked(p) ==
  Trying /\ Tried("connected") /\ stage' = "writing" /\ peer' = p /\ UNCHANGED <<policy, open, addrs, delivered>>

\* The peer address is checked again; a denied one ends the loop.
Connected(p) ==
  /\ Trying
  /\ IF p = NO_ADDR \/ check_ip(p)
     THEN Tried("connected") /\ stage' = "writing" /\ peer' = p
     ELSE Tried("denied") /\ stage' = "refused" /\ peer' = peer
  /\ UNCHANGED <<policy, open, addrs, delivered>>

\* Mutation: the candidates are tried all over again.
ExhaustedRetries ==
  /\ stage = "connecting" /\ Len(tried) = Len(addrs)
  /\ tried' = <<>>
  /\ UNCHANGED <<policy, stage, open, addrs, peer, delivered>>

Exhausted == stage = "connecting" /\ Len(tried) = Len(addrs) /\ Refuse

(***************************************************************************)
(* The write of first_payload, if there is one, before the success is      *)
(* reported.                                                               *)
(***************************************************************************)
PayloadPart ==
  /\ stage = "writing" /\ open.payload /\ delivered = "none"
  /\ delivered' = "part"
  /\ UNCHANGED <<policy, stage, open, addrs, tried, peer>>

Opened ==
  /\ stage = "writing"
  /\ stage' = "open"
  /\ delivered' = IF open.payload THEN "all" ELSE "none"
  /\ UNCHANGED <<policy, open, addrs, tried, peer>>

\* Mutation: the error of the write is logged only.
PayloadFailsIgnored ==
  stage = "writing" /\ open.payload /\ stage' = "open" /\ UNCHANGED <<policy, open, addrs, tried, peer, delivered>>

\* The connection is dropped again; what the target has read stays read.
PayloadFails == stage = "writing" /\ open.payload /\ Refuse

Dial ==
  \/ CheckOpen
  \/ Resolve
  \/ ResolveFails
  \/ \E outcome \in {"failed", "timeout"} : ConnectFails(outcome)
  \/ \E p \in ADDRS \cup {NO_ADDR} : Connected(p)
  \/ Exhausted
  \/ PayloadPart \/ Opened \/ PayloadFails

-----------------------------------------------------------------------------
Reached == stage \in {"writing", "open"} \/ delivered # "none"

\* The addresses of the connection: the one dialled, and the one the kernel names.
ConnectedTo == {addrs[Len(tried)]} \cup ({peer} \ {NO_ADDR})

\* With deny_private_ip no byte of a tunnel, of first_payload neither, goes to an
\* address that is denied as a V4 or as a native V6 address: not the one that was
\* dialled, nor the one the kernel says it is connected to; and none to a port
\* that is not allowed or is no port at all.  Of an IPv4-mapped V6 address it
\* says nothing: check_ip does not look at the V4 address inside.
NeverDenied ==
  Reached =>
    /\ open.port \in 1..MAX_PORT /\ open.host \notin BAD_HOSTS
    /\ policy.allowed_ports = {} \/ open.port \in policy.allowed_ports
    /\ policy.deny_private_ip => \A a \in ConnectedTo : a.fam # "mapped" => a.class = "public"

\* What README.md says of deny_private_ip: "The server denies private, loopback,
\* link-local, multicast, documentation, and unspecified target IPs by default."
\* The address that was dialled is not one of such a host, in whatever form it was
\* written.
DeniedHostsUnreached == Reached /\ policy.deny_private_ip => addrs[Len(tried)].class = "public"

\* connect_any gives up no earlier and goes on no longer than it should: a
\* target is refused after resolution only when every candidate was dialled in
\* vain, one led to a denied peer or the one that answered did not take the
\* payload, and only the last attempt can have reached anything, so that no
\* second connection is left behind.
AllTried ==
  /\ stage = "refused" /\ addrs # <<>> =>
       \/ Len(tried) = Len(addrs) /\ \A i \in DOMAIN tried : tried[i] \in {"failed", "timeout"}
       \/ tried # <<>> /\ tried[Len(tried)] = "denied"
       \/ tried # <<>> /\ tried[Len(tried)] = "connected" /\ open.payload
  /\ \A i \in DOMAIN tried : tried[i] \in {"connected", "denied"} =>
       i = Len(tried) /\ stage \in {"writing", "open", "refused"}
=============================================================================
