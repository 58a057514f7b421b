------------------------------- MODULE Tunnel -------------------------------
(***************************************************************************)
(* One whole tunnel: the application, relay_grpc, the gRPC call,           *)
(* handle_tunnel and the target.  The application and the target write,    *)
(* read, close and disappear when they like, and the connection under the  *)
(* gRPC call may fail at any moment.                                       *)
(***************************************************************************)
EXTENDS TunnelClient, TunnelServer

CONSTANTS
  MAX_UP,      \* bound: chunks the application writes
  MAX_DOWN     \* bound: chunks the target writes

ASSUME BoundAssumption == MAX_UP \in Nat /\ MAX_DOWN \in Nat

vars == <<streamVars, clientVars, serverVars>>

TypeOK ==
  /\ req \in Directions(ClientTypes)
  /\ rsp \in Directions(ServerTypes)
  /\ ClientTypeOK
  /\ ServerTypeOK

\* relay_grpc queues Open before the call is made.
Init ==
  /\ \E p \in {0, 1} : ClientInit(p) /\ req = NewStream(<<Frame("Open", p)>>)
  /\ rsp = NewStream(<<>>)
  /\ ServerInit

-----------------------------------------------------------------------------
AppWrite == PeerWrites(app, app', MAX_UP) /\ UNCHANGED <<cpc, l2g, streamVars, serverVars>>

AppFin == PeerFins(app, app') /\ UNCHANGED <<cpc, l2g, streamVars, serverVars>>

AppGone == PeerGoes(app, app') /\ UNCHANGED <<cpc, l2g, streamVars, serverVars>>

AppRead == PeerReads(app, app') /\ UNCHANGED <<cpc, l2g, streamVars, serverVars>>

TargetUnchanged == UNCHANGED <<spc, held, t2g, wshut, why, streamVars, clientVars>>

TargetWrite == Connected /\ PeerWrites(tgt, tgt', MAX_DOWN) /\ TargetUnchanged

TargetFin == Connected /\ PeerFins(tgt, tgt') /\ TargetUnchanged

TargetGone == Connected /\ PeerGoes(tgt, tgt') /\ TargetUnchanged

TargetRead == Connected /\ PeerReads(tgt, tgt') /\ TargetUnchanged

\* The connection dies: each direction keeps some prefix of what was queued.
ConnFail ==
  /\ Alive(req) \/ Alive(rsp)
  /\ req' \in CutsOf(req)
  /\ rsp' \in CutsOf(rsp)
  /\ UNCHANGED <<clientVars, serverVars>>

Environment ==
  \/ AppWrite \/ AppFin \/ AppGone \/ AppRead
  \/ TargetWrite \/ TargetFin \/ TargetGone \/ TargetRead
  \/ ConnFail

Client == ClientNext /\ UNCHANGED serverVars

Server == ServerNext /\ UNCHANGED clientVars

Next == Environment \/ Client \/ Server

Spec == Init /\ [][Next]_vars

(***************************************************************************)
(* The tasks of both programs and the HTTP/2 layer keep running: tokio     *)
(* polls every task that can make progress, timers fire, an aborted task   *)
(* is dropped.  Nothing is assumed of the application, of the connection   *)
(* or of what the target sends.                                            *)
(***************************************************************************)
TaskFairness ==
  /\ WF_vars(ClientMain /\ UNCHANGED serverVars)
  /\ WF_vars(L2gStep /\ UNCHANGED serverVars)
  /\ WF_vars(L2gDropped /\ UNCHANGED serverVars)
  /\ WF_vars(ClientTransport /\ UNCHANGED serverVars)
  /\ WF_vars(ServerMain /\ UNCHANGED clientVars)
  /\ WF_vars(T2gStep /\ UNCHANGED clientVars)
  /\ WF_vars(T2gDropped /\ UNCHANGED clientVars)
  /\ WF_vars(ServerTransport /\ UNCHANGED clientVars)

FairSpec == Spec /\ TaskFairness

\* An assumption on the environment: the target keeps reading (or is gone).
ReadingTargetSpec == FairSpec /\ WF_vars(TargetRead)

\* Both the application and the target keep reading (or are gone).
ReadingPeersSpec == ReadingTargetSpec /\ WF_vars(AppRead)

-----------------------------------------------------------------------------
(***************************************************************************)
(* Safety.                                                                 *)
(***************************************************************************)

InOrder(got, sent) == Len(got) <= sent /\ \A i \in 1..Len(got) : got[i] = i

\* The target receives a prefix of what the application wrote: handle_tunnel
\* writes first_payload and the Data frames in order, none lost or repeated,
\* whatever fails on the way.
UploadInOrder == InOrder(tgt.got, app.sent)

\* The application receives a prefix of what the target wrote, although
\* target_to_grpc and handle_tunnel send into one channel.
DownloadInOrder == InOrder(app.got, tgt.sent)

\* Both directions of relay_grpc and handle_tunnel at once.
BytesInOrder == UploadInOrder /\ DownloadInOrder

\* handle_tunnel shuts the target's write half down for a HalfClose frame
\* only when the application closed and every chunk has been written.
CleanUpload == wshut = "clean" => app.fin /\ Len(tgt.got) = app.sent

\* relay_grpc returns Ok after HalfClose only when the target closed and the
\* application got every chunk.
CleanDownload == cpc = "closed" => tgt.fin /\ Len(app.got) = tgt.sent

\* Neither end of a tunnel is told of an orderly close that cuts off data.
CleanEnds == CleanUpload /\ CleanDownload

\* The other Ok(()) of relay_grpc, a response that just ends, closes the local
\* socket like a complete download: it happens only to an application that
\* has already reset its connection.
NoSilentTruncation == cpc = "stopped" => app.gone

\* Client and server never see each other break the frame protocol: no bail!
\* on a duplicate OpenResult or an empty frame, no reset for a second Open.
NoProtocolError == cpc # "protocol" /\ why # "protocol"

\* The tunnel is a pair of independent pipes (DuplexPipe).
Pipe == INSTANCE DuplexPipe WITH
  sent   <- [d \in {"up", "down"} |-> IF d = "up" THEN app.sent ELSE tgt.sent],
  closed <- [d \in {"up", "down"} |-> IF d = "up" THEN app.fin ELSE tgt.fin],
  got    <- [d \in {"up", "down"} |-> IF d = "up" THEN tgt.got ELSE app.got],
  eof    <- [d \in {"up", "down"} |-> IF d = "up" THEN wshut ELSE LocalEof]

\* relay_grpc and handle_tunnel together implement DuplexPipe.
ImplementsPipe == Pipe!Spec

-----------------------------------------------------------------------------
(***************************************************************************)
(* Liveness.                                                               *)
(***************************************************************************)

\* When the application disappears relay_grpc returns, and with it the
\* stream permit it holds.
PermitReleased == app.gone ~> ClientEnded

\* When relay_grpc has returned and local_to_grpc has let go of the socket,
\* for whatever reason, the server ends the handler, its reader task and the
\* target connection.
ServerFollows == ~LocalOpen ~> ServerReleased

\* When the application closes its write half and keeps its connection, the
\* target of an established tunnel sees the end of the upload: at a HalfClose
\* frame, or when the handler gives up.
EofReachesTarget == app.fin /\ Connected ~> wshut # "open" \/ app.gone

(***************************************************************************)
(* What the design says and the code does not do.                          *)
(***************************************************************************)

\* ECH_GRPC_RUST_DESIGN.md on a failed tunnel: "Close the local connection
\* and report failure instead."  So the application that is still there sees
\* its connection closed once relay_grpc has returned.
LocalClosedAfterRelay == ClientEnded ~> ~LocalOpen \/ app.gone

\* ECH_GRPC_RUST_DESIGN.md on the server's security defaults: "Enforce idle
\* timeout."  A handler whose timeout has fired ends.
IdleEnforced == why = "timeout" ~> ServerReleased
=============================================================================
