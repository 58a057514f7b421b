------------------------------ MODULE AnyServer ------------------------------
(***************************************************************************)
(* TunnelClient against a server that may send any frame of the proto at   *)
(* any time: what relay_grpc promises without trusting handle_tunnel.      *)
(***************************************************************************)
EXTENDS TunnelClient

CONSTANTS
  MAX_SAID,      \* bound: frames the server sends
  MAX_WRITTEN    \* bound: chunks the application writes

ASSUME ClientAloneAssumption == MAX_SAID \in Nat /\ MAX_WRITTEN \in Nat

VARIABLES
  said,     \* history: frames the server put into the response
  heard     \* history: frames the server read from the request

clientAloneVars == <<streamVars, clientVars, said, heard>>

ClientAloneInit ==
  /\ \E p \in {0, 1} : ClientInit(p) /\ req = NewStream(<<Frame("Open", p)>>)
  /\ rsp = NewStream(<<>>)
  /\ said = <<>>
  /\ heard = <<>>

\* Data frames are numbered by their place in the response.
ServerSays ==
  /\ rsp.end = "open" /\ Len(rsp.q) < OUTBOUND_QUEUE /\ Len(said) < MAX_SAID
  /\ \E type \in ServerTypes : \E n \in 0..1 :
       LET f == Frame(type, IF type = "OpenResult" THEN n ELSE Len(said) + 1)
       IN  said' = Append(said, f) /\ rsp' = Sent(rsp, f)
  /\ UNCHANGED <<clientVars, req, heard>>

ServerHears ==
  /\ req.q # <<>>
  /\ heard' = Append(heard, Head(req.q))
  /\ req' = Popped(req)
  /\ UNCHANGED <<clientVars, rsp, said>>

AnyServerEnds ==
  /\ rsp.end = "open"
  /\ rsp' = Ended(rsp)
  /\ UNCHANGED <<clientVars, req, said, heard>>

AnyServerVanishes ==
  /\ Alive(rsp) /\ Alive(req)
  /\ rsp' \in CutsOf(rsp)
  /\ req' = Cut(req, 0)
  /\ UNCHANGED <<clientVars, said, heard>>

AnyAppMoves ==
  /\ \/ PeerWrites(app, app', MAX_WRITTEN)
     \/ PeerFins(app, app')
     \/ PeerGoes(app, app')
  /\ UNCHANGED <<cpc, l2g, streamVars, said, heard>>

AnyAppReads ==
  /\ PeerReads(app, app')
  /\ UNCHANGED <<cpc, l2g, streamVars, said, heard>>

ClientAlone == ClientNext /\ UNCHANGED <<said, heard>>

ClientAloneNext ==
  \/ ServerSays \/ ServerHears \/ AnyServerEnds \/ AnyServerVanishes
  \/ AnyAppMoves \/ AnyAppReads
  \/ ClientAlone

ClientAloneSpec == ClientAloneInit /\ [][ClientAloneNext]_clientAloneVars

\* The tasks of the client run; the application reads what it is sent.
ClientAloneFairSpec ==
  /\ ClientAloneSpec
  /\ WF_clientAloneVars(ClientMain /\ UNCHANGED <<said, heard>>)
  /\ WF_clientAloneVars(L2gStep /\ UNCHANGED <<said, heard>>)
  /\ WF_clientAloneVars(L2gDropped /\ UNCHANGED <<said, heard>>)
  /\ WF_clientAloneVars(ClientTransport /\ UNCHANGED <<said, heard>>)
  /\ WF_clientAloneVars(AnyAppReads)

-----------------------------------------------------------------------------
Request == heard \o req.q

\* Whatever the server sends, the request is a conversation handle_tunnel can
\* follow: one Open, the application's chunks in order starting behind
\* first_payload, and HalfClose or Reset only as the last frame.
RequestWellFormed ==
  \A i \in 1..Len(Request) :
    LET f == Request[i] IN
    /\ f.type = "Open" <=> i = 1
    /\ f.type = "Data" => f.n = Request[1].n + i - 1
    /\ f.type \in {"HalfClose", "Reset"} => i = Len(Request)

\* The places of the response that carry a chunk for the application: the server
\* has accepted Open and not ended or broken the conversation since.
Served ==
  {i \in DOMAIN said : /\ said[i].type = "Data" /\ said[1] = Frame("OpenResult", 1)
                       /\ \A j \in 2..i : said[j].type \in {"Data", "Pong"}}

\* The application is written what the server sent after accepting Open and
\* before it ended or broke the conversation: only that, in its order, and
\* without a gap.
AppGetsServed == FirstOf(app.got, Served)

\* Every end of the response, clean or not, makes relay_grpc return.
RelayReturns == rsp.end # "open" ~> ClientEnded
=============================================================================
