---------------------------- MODULE TunnelClient ----------------------------
(***************************************************************************)
(* The client end of one tunnel: relay_grpc of client/src/tunnel.rs.       *)
(*                                                                         *)
(* Two tasks.  The caller of relay_grpc (`cpc') waits for OpenResult and   *)
(* then copies ServerFrames into the local socket; local_to_grpc (`l2g')   *)
(* copies the local socket into ClientFrames.  They share the socket (its  *)
(* two halves) and the sender of the request stream.  relay_grpc aborts    *)
(* local_to_grpc only where its loop ends normally; `?' and bail! return   *)
(* without it and leave the task running.                                  *)
(***************************************************************************)
EXTENDS GrpcStream, TcpPeer

VARIABLES
  app,    \* the local application and its socket
  cpc,    \* where relay_grpc is, and how it returned
  l2g     \* the spawned task local_to_grpc

clientVars == <<app, cpc, l2g>>

(***************************************************************************)
(* How relay_grpc returns: "closed" after HalfClose and "stopped" at the   *)
(* end of the response are Ok(()); the others are Err.                     *)
(***************************************************************************)
ClientResults ==
  {"closed", "stopped", "refused", "reset", "lost", "io", "protocol"}

TaskStates == {"none", "run", "aborting", "exit"}

ClientTypeOK ==
  /\ app \in Peers
  /\ cpc \in {"opening", "relaying"} \cup ClientResults
  /\ l2g \in TaskStates

\* The first `p' chunks (none or one) travel in Open as first_payload.
ClientInit(p) ==
  /\ app = NewPeer(p)
  /\ cpc = "opening"
  /\ l2g = "none"

ClientEnded == cpc \in ClientResults

L2gActive == l2g \in {"run", "aborting"}

\* Either half of the split socket is still owned by a task.
LocalOpen == ~ClientEnded \/ L2gActive

\* What the application sees on its read side.
LocalEof ==
  CASE cpc = "closed" -> "clean"
    [] cpc # "closed" /\ LocalOpen -> "open"
    [] OTHER -> "cut"

-----------------------------------------------------------------------------
\* Mutation: the ok flag of OpenResult is not looked at.
OpenVerdictAnyResult(f) == IF f.type = "OpenResult" THEN "relaying" ELSE "reset"

(***************************************************************************)
(* relay_grpc, from client.tunnel() to the answer to Open.                 *)
(***************************************************************************)
OpenVerdict(f) ==
  CASE f.type = "OpenResult" /\ f.n = 1 -> "relaying"
    [] f.type = "OpenResult" /\ f.n # 1 -> "refused"
    [] f.type = "Reset" -> "reset"
    [] OTHER -> "protocol"

ClientOpenReply ==
  /\ cpc = "opening"
  /\ rsp.q # <<>>
  /\ cpc' = OpenVerdict(Head(rsp.q))
  /\ l2g' = IF cpc' = "relaying" THEN "run" ELSE "none"
  /\ rsp' = Popped(rsp)
  /\ UNCHANGED <<app, req>>

ClientOpenFails ==
  /\ cpc = "opening"
  /\ \/ AtEnd(rsp) /\ cpc' = "refused"
     \/ AtErr(rsp) /\ cpc' = "lost"
  /\ UNCHANGED <<app, l2g, streamVars>>

-----------------------------------------------------------------------------
(***************************************************************************)
(* relay_grpc, the loop over inbound.                                      *)
(***************************************************************************)
\* local_to_grpc.abort(): the task may still finish the poll it is in.
Aborted(task) == IF task = "run" THEN "aborting" ELSE task

ClientData ==
  /\ cpc = "relaying"
  /\ HasFrame(rsp, {"Data"})
  /\ \/ /\ Writable(app)
        /\ app' = Wrote(app, Head(rsp.q).n)
        /\ cpc' = cpc
     \/ /\ Broken(app)
        /\ cpc' = "io"
        /\ app' = app
  /\ rsp' = Popped(rsp)
  /\ UNCHANGED <<l2g, req>>

ClientHalfClose ==
  /\ cpc = "relaying"
  /\ HasFrame(rsp, {"HalfClose"})
  /\ \/ cpc' = "closed" /\ l2g' = Aborted(l2g)
     \/ Broken(app) /\ cpc' = "io" /\ l2g' = l2g
  /\ rsp' = Popped(rsp)
  /\ UNCHANGED <<app, req>>

ClientPong ==
  /\ cpc = "relaying"
  /\ HasFrame(rsp, {"Pong"})
  /\ rsp' = Popped(rsp)
  /\ UNCHANGED <<clientVars, req>>

ClientBail ==
  /\ cpc = "relaying"
  /\ \/ HasFrame(rsp, {"Reset"}) /\ cpc' = "reset"
     \/ HasFrame(rsp, {"OpenResult", "Empty"}) /\ cpc' = "protocol"
  /\ rsp' = Popped(rsp)
  /\ UNCHANGED <<app, l2g, req>>

\* Mutation: the loop waits on at the end of the response.
ClientStreamEndMissed ==
  /\ cpc = "relaying" /\ AtErr(rsp)
  /\ cpc' = "lost" /\ l2g' = l2g
  /\ UNCHANGED <<app, streamVars>>

ClientStreamEnd ==
  /\ cpc = "relaying"
  /\ \/ AtEnd(rsp) /\ cpc' = "stopped" /\ l2g' = Aborted(l2g)
     \/ AtErr(rsp) /\ cpc' = "lost" /\ l2g' = l2g
  /\ UNCHANGED <<app, streamVars>>

ClientMain ==
  \/ ClientOpenReply
  \/ ClientOpenFails
  \/ ClientData
  \/ ClientHalfClose
  \/ ClientPong
  \/ ClientBail
  \/ ClientStreamEnd

-----------------------------------------------------------------------------
(***************************************************************************)
(* local_to_grpc.  A read and the send of what it returned are one step:   *)
(* while send() waits for room the chunk counts as still in the socket.    *)
(* A dead request stream is noticed at a send, sooner or later.            *)
(***************************************************************************)
L2gData ==
  /\ L2gActive
  /\ Readable(app)
  /\ CanSend(req)
  /\ req' = Sent(req, Frame("Data", app.taken + 1))
  /\ app' = Taken(app)
  /\ \/ l2g' = l2g
     \/ ~Alive(req) /\ l2g' = "exit"
  /\ UNCHANGED <<cpc, rsp>>

\* Mutation: no break after HalfClose, the read answers EOF again.
L2gEofNoBreak ==
  /\ L2gActive /\ AtEof(app) /\ CanSend(req)
  /\ req' = Sent(req, Frame("HalfClose", 0))
  /\ UNCHANGED <<app, cpc, l2g, rsp>>

L2gEof ==
  /\ L2gActive
  /\ AtEof(app)
  /\ CanSend(req)
  /\ req' = Sent(req, Frame("HalfClose", 0))
  /\ l2g' = "exit"
  /\ UNCHANGED <<app, cpc, rsp>>

L2gReadError ==
  /\ L2gActive
  /\ Broken(app)
  /\ CanSend(req)
  /\ req' = Sent(req, Frame("Reset", 0))
  /\ l2g' = "exit"
  /\ UNCHANGED <<app, cpc, rsp>>

L2gStep == L2gData \/ L2gEof \/ L2gReadError

\* The runtime drops the aborted task, its socket half and its sender.
L2gDropped ==
  /\ l2g = "aborting"
  /\ l2g' = "exit"
  /\ UNCHANGED <<app, cpc, streamVars>>

-----------------------------------------------------------------------------
(***************************************************************************)
(* What tonic and h2 do on the client when relay_grpc and local_to_grpc    *)
(* have dropped their ends.  The request ends when its last sender is      *)
(* dropped; the response was dropped before it finished, so the stream is  *)
(* then cancelled, which can overtake frames that were still queued.       *)
(***************************************************************************)
FinishRequest ==
  /\ ~LocalOpen
  /\ req.end = "open"
  /\ req' \in {Ended(req)} \cup CutsOf(req)
  /\ UNCHANGED <<clientVars, rsp>>

DropResponse ==
  /\ ClientEnded
  /\ req.end # "open"
  /\ rsp.end = "open"
  /\ rsp' = Cut(rsp, 0)
  /\ UNCHANGED <<clientVars, req>>

ClientTransport == FinishRequest \/ DropResponse

ClientNext == ClientMain \/ L2gStep \/ L2gDropped \/ ClientTransport
=============================================================================
