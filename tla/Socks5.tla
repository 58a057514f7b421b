------------------------------- MODULE Socks5 -------------------------------
(***************************************************************************)
(* handle() of client/src/ingress_socks5.rs for one local connection.  The *)
(* local client may send anything the reads can return.  Replies are named *)
(* by their message and code: method 0x00, 0x02 or 0xff, auth 0x00 or      *)
(* 0x01, reply 0x00, 0x04, 0x05, 0x07 or 0x08.                             *)
(***************************************************************************)
EXTENDS Router

VARIABLE options    \* Socks5Options

SocksStages ==
  {"greeting", "noauth", "userpass", "request", "decide", "dial", "open",
   "direct", "tunnel", "ended"}

SocksOptions == [allow_no_auth : BOOLEAN, default_user : USERS \cup NAMES \cup {NONE}]

SocksInit ==
  /\ RouterInit("socks5", "greeting")
  /\ options \in SocksOptions

-----------------------------------------------------------------------------
\* negotiate_auth: no-auth wins over a password when both are allowed.
Negotiate(version, methods) ==
  /\ conn.stage = "greeting"
  /\ CASE version # 5 -> Fail(<<>>)
       [] version = 5 /\ options.allow_no_auth /\ 0 \in methods ->
            Step("noauth", <<"method 00">>)
       [] version = 5 /\ ~(options.allow_no_auth /\ 0 \in methods) /\ 2 \in methods ->
            Step("userpass", <<"method 02">>)
       [] OTHER -> Fail(<<"method ff">>)
  /\ UNCHANGED <<options, presented>>

\* authenticate, when no-auth was selected: the configured default user.
NoAuth ==
  /\ conn.stage = "noauth"
  /\ IF KnownUser(options.default_user)
     THEN LoggedIn(options.default_user, "request", <<>>)
     ELSE Fail(<<>>)
  /\ UNCHANGED <<options, presented>>

UserPass(version, name, password) ==
  /\ conn.stage = "userpass"
  /\ IF version = 1
     THEN /\ presented' = [name |-> name, password |-> password]
          /\ IF Authenticates(name, password)
             THEN LoggedIn(name, "request", <<"auth 00">>)
             ELSE Fail(<<"auth 01">>)
     ELSE Fail(<<"auth 01">>) /\ UNCHANGED presented
  /\ UNCHANGED options

\* read_connect_request; atyp 3 carries any name, also one that is an address.
ReadConnectRequest(header, command, atyp, host, port) ==
  /\ atyp \in {1, 4} => host \in IPS
  /\ CASE ~header -> Fail(<<>>)
       [] header /\ command # 1 -> Fail(<<"reply 07">>)
       [] header /\ command = 1 /\ atyp \notin {1, 3, 4} -> Fail(<<"reply 08">>)
       [] header /\ command = 1 /\ atyp \in {1, 3, 4} /\ port = 0 -> Fail(<<"reply 04">>)
       [] OTHER -> Target(host, port)
  /\ UNCHANGED <<options, presented>>

ConnectRequest ==
  /\ conn.stage = "request"
  /\ \E header \in BOOLEAN, command \in {1, 2}, atyp \in {1, 2, 3, 4}, host \in Hosts,
        port \in PORTS \cap 0..MAX_PORT :
       ReadConnectRequest(header, command, atyp, host, port)

SocksRoute == Decide("dial", "open") /\ UNCHANGED options

\* Mutation: the reply is sent before the connect.
DialAfterReply ==
  conn.stage = "dial" /\ Step("direct", <<"reply 00">>) /\ UNCHANGED <<options, presented>>

\* A reply that cannot be written is logged and the handler goes on.
Replies(reply) == {<<reply>>, <<>>}

\* The success reply follows a direct connect ...
SocksDial ==
  /\ conn.stage = "dial"
  /\ \/ \E reply \in Replies("reply 00") : ConnectDirect("direct", reply)
     \/ \E reply \in Replies("reply 05") : Fail(reply) /\ UNCHANGED presented
  /\ UNCHANGED options

\* ... and precedes the tunnel: relay_grpc reports nothing to the client.
SocksOpen ==
  /\ conn.stage = "open"
  /\ \E reply \in Replies("reply 00") : Step("tunnel", reply)
  /\ UNCHANGED <<options, presented>>

\* A read of the local socket fails, or the write of a method or an auth status.
LocalError == IoError({"greeting", "userpass", "request"}) /\ UNCHANGED options

SocksRelayEnds == RelayEnds /\ UNCHANGED options

SocksNext ==
  \/ \E version \in {4, 5}, methods \in SUBSET {0, 1, 2} : Negotiate(version, methods)
  \/ NoAuth
  \/ \E version \in {1, 2}, name \in USERS \cup NAMES, password \in Passwords :
       UserPass(version, name, password)
  \/ ConnectRequest
  \/ SocksRoute \/ SocksDial \/ SocksOpen
  \/ SocksRelayEnds \/ LocalError

-----------------------------------------------------------------------------
\* The parts of a SOCKS5 conversation.
Phase(reply) ==
  CASE reply \in {"method 00", "method 02", "method ff"} -> 1
    [] reply \in {"auth 00", "auth 01"} -> 2
    [] OTHER -> 3

Failures == {"method ff", "auth 01", "reply 04", "reply 05", "reply 07", "reply 08"}

\* The client can follow and believe the conversation: at most one method
\* selection, one auth status and one reply, in this order, an auth status only
\* after the selection of a password, nothing after a failure, and on the direct
\* path reply 0x00 only when the target is connected.
SocksRepliesTrue ==
  conn.via = "socks5" =>
    /\ \A i, j \in DOMAIN said : i < j => Phase(said[i]) < Phase(said[j])
    /\ \A i \in DOMAIN said : Phase(said[i]) = 2 => said[1] = "method 02"
    /\ \A i \in DOMAIN said : said[i] \in Failures => i = Len(said) /\ conn.stage = "ended"
    /\ conn.route.kind = "direct" /\ (\E i \in DOMAIN said : said[i] = "reply 00") => peer # NONE
=============================================================================
