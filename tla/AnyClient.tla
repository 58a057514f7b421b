------------------------------ MODULE AnyClient ------------------------------
(***************************************************************************)
(* TunnelServer against a client that may send any frame of the proto at   *)
(* any time: what handle_tunnel promises without trusting relay_grpc.      *)
(***************************************************************************)
EXTENDS TunnelServer

CONSTANTS
  MAX_ASKED,     \* bound: frames the client sends
  MAX_SERVED     \* bound: chunks the target writes

ASSUME ServerAloneAssumption == MAX_ASKED \in Nat /\ MAX_SERVED \in Nat

VARIABLES
  asked,       \* history: frames the client put into the request
  answered     \* history: frames the client read from the response

serverAloneVars == <<streamVars, serverVars, asked, answered>>

ServerAloneInit ==
  /\ req = NewStream(<<>>)
  /\ rsp = NewStream(<<>>)
  /\ asked = <<>>
  /\ answered = <<>>
  /\ ServerInit

\* The chunks and the Pings of the client are numbered by their place in the
\* request; an Open carries a chunk if it is the first frame.
ClientAsks ==
  /\ req.end = "open" /\ Len(req.q) < OUTBOUND_QUEUE /\ Len(asked) < MAX_ASKED
  /\ \E type \in ClientTypes :
       LET f == Frame(type, IF type \in {"Data", "Ping"} \/ asked = <<>> THEN Len(asked) + 1 ELSE 0)
       IN  asked' = Append(asked, f) /\ req' = Sent(req, f)
  /\ UNCHANGED <<serverVars, rsp, answered>>

ClientHears ==
  /\ rsp.q # <<>>
  /\ answered' = Append(answered, Head(rsp.q))
  /\ rsp' = Popped(rsp)
  /\ UNCHANGED <<serverVars, req, asked>>

AnyClientEnds ==
  /\ req.end = "open"
  /\ req' = Ended(req)
  /\ UNCHANGED <<serverVars, rsp, asked, answered>>

AnyClientVanishes ==
  /\ Alive(req) /\ Alive(rsp)
  /\ req' \in CutsOf(req)
  /\ rsp' = Cut(rsp, 0)
  /\ UNCHANGED <<serverVars, asked, answered>>

AnyTargetMoves ==
  /\ Connected
  /\ \/ PeerWrites(tgt, tgt', MAX_SERVED)
     \/ PeerFins(tgt, tgt')
     \/ PeerGoes(tgt, tgt')
  /\ UNCHANGED <<spc, held, t2g, wshut, why, streamVars, asked, answered>>

AnyTargetReads ==
  /\ PeerReads(tgt, tgt')
  /\ UNCHANGED <<spc, held, t2g, wshut, why, streamVars, asked, answered>>

ServerAlone == ServerNext /\ UNCHANGED <<asked, answered>>

ServerAloneNext ==
  \/ ClientAsks \/ ClientHears \/ AnyClientEnds \/ AnyClientVanishes
  \/ AnyTargetMoves \/ AnyTargetReads
  \/ ServerAlone

ServerAloneSpec == ServerAloneInit /\ [][ServerAloneNext]_serverAloneVars

\* The tasks and timers of the server run; the client reads what it is sent
\* and the target reads what it is sent (or they vanish).
ServerAloneFairSpec ==
  /\ ServerAloneSpec
  /\ WF_serverAloneVars(ServerMain /\ UNCHANGED <<asked, answered>>)
  /\ WF_serverAloneVars(T2gStep /\ UNCHANGED <<asked, answered>>)
  /\ WF_serverAloneVars(T2gDropped /\ UNCHANGED <<asked, answered>>)
  /\ WF_serverAloneVars(ServerTransport /\ UNCHANGED <<asked, answered>>)
  /\ WF_serverAloneVars(ClientHears)
  /\ WF_serverAloneVars(AnyTargetReads)

-----------------------------------------------------------------------------
Response == answered \o rsp.q

\* The frame at place i of the response is the next one of its type, whose
\* numbers are those of the set: all smaller ones were sent before it.
NextOf(numbers, i) ==
  /\ Response[i].n \in numbers
  /\ \A j \in 1..i - 1 : Response[j].type = Response[i].type => Response[j].n < Response[i].n
  /\ \A m \in numbers : m < Response[i].n =>
       \E j \in 1..i - 1 : Response[j] = Frame(Response[i].type, m)

\* The places of the Pings the client sent.
Pings == {i \in DOMAIN asked : asked[i].type = "Ping"}

\* Whatever the client sends, the response is a conversation relay_grpc can
\* follow: a lone Reset, a lone refusal, or one OpenResult followed by the
\* target's chunks in order with nothing of the target after its HalfClose.
\* Each Pong between them answers one Ping with its timestamp, in order.
ResponseWellFormed ==
  \A i \in 1..Len(Response) :
    LET f == Response[i] IN
    /\ f.type = "OpenResult" <=> i = 1 /\ f.type # "Reset"
    /\ f.type = "OpenResult" /\ f.n = 0 => Len(Response) = 1
    /\ f.type = "HalfClose" =>
         \A j \in i+1..Len(Response) : Response[j].type \in {"Pong", "Reset"}
    /\ i = 1 /\ f.type = "Reset" => Len(Response) = 1
    /\ f.type = "Data" => NextOf(1..tgt.taken, i)
    /\ f.type = "Pong" => NextOf(Pings, i)

\* The places of the request that offer a chunk to the target: the Open it starts
\* with and the Data behind it, ahead of its first HalfClose.
Offered ==
  {i \in DOMAIN asked : /\ i = 1 \/ asked[i].type = "Data"
                        /\ asked[1].type = "Open"
                        /\ \A j \in 1..i : asked[j].type # "HalfClose"}

\* The target is written what the client offered: only that, in its order, and
\* without a gap; nothing of a request that does not start with Open, nothing
\* after HalfClose.
TargetGetsOffered == FirstOf(tgt.got, Offered)

\* A client that stays silent, ends or vanishes cannot keep the handler: the
\* idle timeout or the end of the request releases every task.
HandlerEnds == <>ServerReleased
=============================================================================
