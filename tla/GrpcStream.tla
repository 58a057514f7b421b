----------------------------- MODULE GrpcStream -----------------------------
(***************************************************************************)
(* One bidirectional gRPC call, as the client and the server see it: two   *)
(* directions, `req' (ClientFrame) and `rsp' (ServerFrame).                *)
(*                                                                         *)
(* A direction is the bounded mpsc channel that feeds it, the HTTP/2       *)
(* stream behind it and the receive buffer of the other side, as one FIFO  *)
(* queue of frames.  It ends in one of two ways: "end" (every sender was   *)
(* dropped and the stream finished; the frames still queued are readable)  *)
(* or "err" (RST_STREAM, GOAWAY, a dead connection; an arbitrary prefix of *)
(* the queue is still readable).  tokio's mpsc, tonic and h2 are external; *)
(* what is modelled is what relay_grpc and handle_tunnel rely on.          *)
(***************************************************************************)
EXTENDS Naturals, Sequences

CONSTANT OUTBOUND_QUEUE    \* frames a direction holds before send().await blocks

ASSUME QueueAssumption == OUTBOUND_QUEUE \in Nat \ {0}

VARIABLES
  req,    \* client -> server direction
  rsp     \* server -> client direction

streamVars == <<req, rsp>>

(***************************************************************************)
(* The oneof of ClientFrame and ServerFrame.  "Empty" is a frame whose     *)
(* payload is None.  `n' is the first_payload of an Open (0: none, 1: the  *)
(* first chunk), the number of the chunk a Data frame carries, the ok flag *)
(* of an OpenResult and the timestamp of a Ping or Pong.                   *)
(***************************************************************************)
ClientTypes == {"Open", "Data", "HalfClose", "Reset", "Ping", "Empty"}
ServerTypes == {"OpenResult", "Data", "HalfClose", "Reset", "Pong", "Empty"}

Frames(types) == [type : types, n : Nat]

Frame(type, n) == [type |-> type, n |-> n]

NewStream(frames) == [q |-> frames, end |-> "open"]

Directions(types) == [q : Seq(Frames(types)), end : {"open", "end", "err"}]

(***************************************************************************)
(* send().await completes when there is room, or with an error once the    *)
(* receiver is gone.  Frames offered to a dead direction are lost.         *)
(***************************************************************************)
Alive(d) == d.end # "err"

CanSend(d) == Alive(d) => Len(d.q) < OUTBOUND_QUEUE

Sent(d, f) == IF Alive(d) THEN [d EXCEPT !.q = Append(@, f)] ELSE d

(***************************************************************************)
(* The three answers of next().await: a frame, the end of the stream or an *)
(* error status.                                                           *)
(***************************************************************************)
HasFrame(d, types) == d.q # <<>> /\ Head(d.q).type \in types

Popped(d) == [d EXCEPT !.q = Tail(@)]

AtEnd(d) == d.q = <<>> /\ d.end = "end"

AtErr(d) == d.q = <<>> /\ d.end = "err"

Waiting(d) == d.q = <<>> /\ d.end = "open"

Ended(d) == [d EXCEPT !.end = "end"]

\* Only the first m queued frames survive the failure of the direction.
Cut(d, m) == [q |-> SubSeq(d.q, 1, m), end |-> "err"]

\* The failures a direction can suffer, by how much of the queue survives.
CutsOf(d) == {Cut(d, m) : m \in 0..Len(d.q)}
=============================================================================
