---------------------------- MODULE TunnelServer ----------------------------
(***************************************************************************)
(* The server end of one tunnel: TunnelServer::tunnel, handle_tunnel and   *)
(* connect_any of server/src/service.rs.                                   *)
(*                                                                         *)
(* Two tasks.  handle_tunnel (`spc') waits for Open, dials the target and  *)
(* copies ClientFrames into the target socket; target_to_grpc (`t2g')      *)
(* copies the target socket into ServerFrames.  Both send into the one     *)
(* bounded response channel.  `held' is the frame handle_tunnel holds      *)
(* across an await: the Open it is dialling for, the Pong or Reset it is   *)
(* waiting to send.                                                        *)
(***************************************************************************)
EXTENDS GrpcStream, TcpPeer

VARIABLES
  tgt,      \* the target and its socket
  spc,      \* where the handler is
  held,     \* the frame handle_tunnel holds across an await
  t2g,      \* the spawned task target_to_grpc
  wshut,    \* the FIN the target sees: after a HalfClose frame, or without one
  why       \* why the handler left its loop

serverVars == <<tgt, spc, held, t2g, wshut, why>>

NoFrame == Frame("Empty", 0)

ServerReasons ==
  {"none", "auth", "refused", "timeout", "end", "err", "write", "reset", "protocol"}

ServerTypeOK ==
  /\ tgt \in Peers
  /\ spc \in {"auth", "first", "dial", "relay", "sending", "ended"}
  /\ held \in Frames({"Open", "Reset", "Pong", "Empty"})
  /\ t2g \in {"none", "run", "aborting", "exit"}
  /\ wshut \in {"open", "clean", "cut"}
  /\ why \in ServerReasons

ServerInit ==
  /\ tgt = NewPeer(0)
  /\ spc = "auth"
  /\ held = NoFrame
  /\ t2g = "none"
  /\ wshut = "open"
  /\ why = "none"

ServerEnded == spc = "ended"

T2gActive == t2g \in {"run", "aborting"}

\* The target connection exists from the OpenResult on.
Connected == t2g # "none"

\* Every task, socket half and sender of the tunnel has been dropped.
ServerReleased == ServerEnded /\ ~T2gActive

-----------------------------------------------------------------------------
(***************************************************************************)
(* tunnel(): the token is checked, the handler is spawned and the response *)
(* stream is returned at once.  A refused call has no handler.             *)
(***************************************************************************)
ServerAuth ==
  /\ spc = "auth"
  /\ \/ spc' = "first" /\ UNCHANGED <<rsp, why>>
     \/ spc' = "ended" /\ rsp' = Cut(rsp, 0) /\ why' = "auth"
  /\ UNCHANGED <<tgt, held, t2g, wshut, req>>

\* Mutation: the return resets the connection, even after a HalfClose.
ShutAlways == IF Connected THEN "cut" ELSE wshut

\* Mutation: the write half outlives the handler.
ShutForgotten == wshut

(***************************************************************************)
(* Leaving handle_tunnel.  The return drops the target's write half, which *)
(* sends FIN if it was not shut down before; target_to_grpc was aborted.   *)
(***************************************************************************)
Shut == IF Connected /\ wshut = "open" THEN "cut" ELSE wshut

\* Mutation: target_to_grpc is not aborted.
ReturnNoAbort == spc' = "ended" /\ held' = NoFrame /\ wshut' = Shut /\ t2g' = t2g

Return ==
  /\ spc' = "ended"
  /\ held' = NoFrame
  /\ wshut' = Shut
  /\ t2g' = IF t2g = "run" THEN "aborting" ELSE t2g

\* send_reset(..).await: the frame waits for room in the response channel.
SendReset(reason) ==
  /\ spc' = "sending"
  /\ held' = Frame("Reset", 0)
  /\ why' = reason
  /\ t2g' = t2g

(***************************************************************************)
(* The wait for Open.                                                      *)
(***************************************************************************)
ServerFirstFrame ==
  /\ spc = "first"
  /\ req.q # <<>>
  /\ IF Head(req.q).type = "Open"
     THEN spc' = "dial" /\ held' = Head(req.q) /\ UNCHANGED <<rsp, why>>
     ELSE /\ spc' = "ended"
          /\ rsp' = Sent(rsp, Frame("OpenResult", 0))
          /\ why' = "protocol"
          /\ held' = held
  /\ req' = Popped(req)
  /\ UNCHANGED <<tgt, t2g, wshut>>

ServerNoFirstFrame ==
  /\ spc = "first"
  /\ \/ AtEnd(req) /\ Return /\ why' = "end"
     \/ AtErr(req) /\ SendReset("err") /\ wshut' = wshut
     \/ Waiting(req) /\ SendReset("timeout") /\ wshut' = wshut
  /\ UNCHANGED <<tgt, streamVars>>

\* The payload of Open is written before anything else.
FirstPayload(p, f) == IF f.n = 0 THEN p ELSE Wrote(p, f.n)

\* Mutation: success is reported before and after the write of first_payload.
ServerDialReportsTwice ==
  /\ spc = "dial" /\ spc' = "relay" /\ t2g' = "run" /\ held' = NoFrame
  /\ tgt' = FirstPayload(tgt, held)
  /\ rsp' = Sent(Sent(rsp, Frame("OpenResult", 1)), Frame("OpenResult", 1))
  /\ UNCHANGED <<wshut, why, req>>

(***************************************************************************)
(* resolve_target, connect_any and the write of first_payload, any of      *)
(* which may fail; on success OpenResult precedes the start of             *)
(* target_to_grpc.  This is the first frame of the response: the channel   *)
(* has room for it.                                                        *)
(***************************************************************************)
ServerDial ==
  /\ spc = "dial"
  /\ \/ /\ spc' = "relay"
        /\ tgt' = FirstPayload(tgt, held)
        /\ rsp' = Sent(rsp, Frame("OpenResult", 1))
        /\ t2g' = "run"
        /\ why' = why
     \/ /\ spc' = "ended"
        /\ rsp' = Sent(rsp, Frame("OpenResult", 0))
        /\ why' = "refused"
        /\ UNCHANGED <<tgt, t2g>>
  /\ held' = NoFrame
  /\ UNCHANGED <<wshut, req>>

-----------------------------------------------------------------------------
\* Mutation: the timeout ends the handler without a Reset.
ServerIdleSilently ==
  /\ spc = "relay" /\ Waiting(req)
  /\ Return /\ why' = "timeout"
  /\ UNCHANGED <<tgt, streamVars>>

\* Mutation: the loop has no timeout.
ServerNeverIdle == FALSE

(***************************************************************************)
(* handle_tunnel, the loop over inbound.                                   *)
(***************************************************************************)
\* Only the silence of the client counts: what the target sends does not.
ServerIdleTimeout ==
  /\ spc = "relay"
  /\ Waiting(req)
  /\ SendReset("timeout")
  /\ UNCHANGED <<tgt, wshut, streamVars>>

ServerStreamEnd ==
  /\ spc = "relay"
  /\ \/ AtEnd(req) /\ Return /\ why' = "end"
     \/ AtErr(req) /\ SendReset("err") /\ wshut' = Shut
  /\ UNCHANGED <<tgt, streamVars>>

\* write_all fails on a reset connection and after our own shutdown.
ServerData ==
  /\ spc = "relay"
  /\ HasFrame(req, {"Data"})
  /\ \/ /\ wshut = "open" /\ Writable(tgt)
        /\ tgt' = Wrote(tgt, Head(req.q).n)
        /\ UNCHANGED <<spc, held, t2g, why>>
     \/ /\ wshut # "open" \/ Broken(tgt)
        /\ SendReset("write")
        /\ tgt' = tgt
  /\ req' = Popped(req)
  /\ UNCHANGED <<wshut, rsp>>

\* Mutation: the frame is consumed but the write half stays open.
ServerHalfCloseIgnored ==
  /\ spc = "relay" /\ HasFrame(req, {"HalfClose"})
  /\ req' = Popped(req)
  /\ UNCHANGED <<serverVars, rsp>>

ServerHalfClose ==
  /\ spc = "relay"
  /\ HasFrame(req, {"HalfClose"})
  /\ wshut' = IF wshut = "open" THEN "clean" ELSE wshut
  /\ req' = Popped(req)
  /\ UNCHANGED <<tgt, spc, held, t2g, why, rsp>>

ServerReset ==
  /\ spc = "relay"
  /\ HasFrame(req, {"Reset"})
  /\ Return
  /\ why' = "reset"
  /\ req' = Popped(req)
  /\ UNCHANGED <<tgt, rsp>>

ServerPing ==
  /\ spc = "relay"
  /\ HasFrame(req, {"Ping"})
  /\ spc' = "sending"
  /\ held' = Frame("Pong", Head(req.q).n)
  /\ req' = Popped(req)
  /\ UNCHANGED <<tgt, t2g, wshut, why, rsp>>

ServerUnexpected ==
  /\ spc = "relay"
  /\ HasFrame(req, {"Open", "Empty"})
  /\ SendReset("protocol")
  /\ req' = Popped(req)
  /\ UNCHANGED <<tgt, wshut, rsp>>

\* tx.send(..).await completes: back to the loop after a Pong, else return.
ServerSend ==
  /\ spc = "sending"
  /\ CanSend(rsp)
  /\ rsp' = Sent(rsp, held)
  /\ IF held.type = "Pong"
     THEN spc' = "relay" /\ held' = NoFrame /\ UNCHANGED <<wshut, t2g>>
     ELSE Return
  /\ UNCHANGED <<tgt, why, req>>

ServerMain ==
  \/ ServerAuth
  \/ ServerFirstFrame
  \/ ServerNoFirstFrame
  \/ ServerDial
  \/ ServerIdleTimeout
  \/ ServerStreamEnd
  \/ ServerData
  \/ ServerHalfClose
  \/ ServerReset
  \/ ServerPing
  \/ ServerUnexpected
  \/ ServerSend

-----------------------------------------------------------------------------
\* Mutation: without split() the chunk stays in the buffer and is sent again.
T2gDataKept ==
  /\ T2gActive /\ Readable(tgt) /\ CanSend(rsp)
  /\ rsp' = Sent(rsp, Frame("Data", tgt.taken + 1))
  /\ \/ tgt' = Taken(tgt)
     \/ tgt' = tgt
  /\ UNCHANGED <<spc, held, t2g, wshut, why, req>>

(***************************************************************************)
(* target_to_grpc, with the same reading of a read and its send as         *)
(* local_to_grpc.                                                          *)
(***************************************************************************)
T2gData ==
  /\ T2gActive
  /\ Readable(tgt)
  /\ CanSend(rsp)
  /\ rsp' = Sent(rsp, Frame("Data", tgt.taken + 1))
  /\ tgt' = Taken(tgt)
  /\ \/ t2g' = t2g
     \/ ~Alive(rsp) /\ t2g' = "exit"
  /\ UNCHANGED <<spc, held, wshut, why, req>>

\* Mutation: no break after HalfClose, the read answers EOF again.
T2gEofNoBreak ==
  /\ T2gActive /\ AtEof(tgt) /\ CanSend(rsp)
  /\ rsp' = Sent(rsp, Frame("HalfClose", 0))
  /\ UNCHANGED <<serverVars, req>>

T2gEof ==
  /\ T2gActive
  /\ AtEof(tgt)
  /\ CanSend(rsp)
  /\ rsp' = Sent(rsp, Frame("HalfClose", 0))
  /\ t2g' = "exit"
  /\ UNCHANGED <<tgt, spc, held, wshut, why, req>>

\* Mutation: a read error is taken for EOF.
T2gReadErrorAsEof ==
  /\ T2gActive /\ Broken(tgt) /\ CanSend(rsp)
  /\ rsp' = Sent(rsp, Frame("HalfClose", 0))
  /\ t2g' = "exit"
  /\ UNCHANGED <<tgt, spc, held, wshut, why, req>>

T2gReadError ==
  /\ T2gActive
  /\ Broken(tgt)
  /\ CanSend(rsp)
  /\ rsp' = Sent(rsp, Frame("Reset", 0))
  /\ t2g' = "exit"
  /\ UNCHANGED <<tgt, spc, held, wshut, why, req>>

T2gStep == T2gData \/ T2gEof \/ T2gReadError

T2gDropped ==
  /\ t2g = "aborting"
  /\ t2g' = "exit"
  /\ UNCHANGED <<tgt, spc, held, wshut, why, streamVars>>

-----------------------------------------------------------------------------
(***************************************************************************)
(* What tonic and h2 do on the server: the response ends when its last     *)
(* sender is dropped, and a request nobody reads any more is then reset.   *)
(***************************************************************************)
FinishResponse ==
  /\ ServerReleased
  /\ rsp.end = "open"
  /\ rsp' = Ended(rsp)
  /\ UNCHANGED <<serverVars, req>>

DropRequest ==
  /\ ServerReleased
  /\ rsp.end # "open"
  /\ Alive(req)
  /\ req' = Cut(req, 0)
  /\ UNCHANGED <<serverVars, rsp>>

ServerTransport == FinishResponse \/ DropRequest

ServerNext == ServerMain \/ T2gStep \/ T2gDropped \/ ServerTransport
=============================================================================
