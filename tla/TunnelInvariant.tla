--------------------------- MODULE TunnelInvariant ---------------------------
(***************************************************************************)
(* The inductive invariant behind the safety properties of Tunnel.  Its    *)
(* idea: while a receiver is still reading, the frames queued in front of  *)
(* it are exactly the chunks that follow what it has written, identified   *)
(* by their place in the queue, and a terminal frame records what was true *)
(* of the sender when it was queued.                                       *)
(***************************************************************************)
EXTENDS Tunnel

\* The handler has not answered Open.
Early == spc \in {"auth", "first", "dial"}

\* The client may still write to the application.
Listening == cpc \in {"opening", "relaying"}

\* OpenResult still stands in front of the data.
Offset == IF cpc = "opening" THEN 1 ELSE 0

-----------------------------------------------------------------------------
\* Who can have started what.
PhaseInv ==
  /\ Early => /\ rsp.q = <<>> /\ t2g = "none"
              /\ cpc # "relaying" /\ app.taken \in {0, 1}
  /\ t2g = "none" => /\ tgt = NewPeer(0) /\ wshut = "open"
                     /\ l2g = "none" /\ app.got = <<>>
                     /\ cpc \notin {"relaying", "closed", "stopped"}
  /\ cpc = "opening" => l2g = "none" /\ app.got = <<>>
  /\ cpc = "relaying" => l2g # "none"
  /\ spc = "relay" => t2g # "none"
  /\ spc = "sending" => held.type = "Reset"
  /\ NoProtocolError

\* Who may still use a stream that ended.
EndInv ==
  /\ req.end = "end" => ~LocalOpen
  /\ rsp.end = "end" => ServerReleased
  /\ why = "end" => ClientEnded
  /\ why = "reset" => app.gone

-----------------------------------------------------------------------------
\* Before Open is answered the request holds nothing else.
OpenInv ==
  /\ spc \in {"auth", "first"} => req.q \in {<<>>, <<Frame("Open", app.taken)>>}
  /\ spc = "dial" => req.q = <<>> /\ held = Frame("Open", app.taken)

\* q follows the first w chunks of the upload; `task' fills it from peer a.
UpQueueOK(q, w, a, task) ==
  \A i \in 1..Len(q) :
    \/ q[i].type = "Data" /\ q[i].n = w + i /\ w + i <= a.taken
    \/ /\ q[i].type = "HalfClose" /\ i = Len(q) /\ task = "exit"
       /\ AtEof(a) /\ w + i = a.taken + 1
    \/ q[i].type = "Reset" /\ i = Len(q) /\ task = "exit" /\ a.gone

UpInv ==
  /\ app.taken <= app.sent
  /\ InOrder(tgt.got, app.taken)
  /\ spc = "relay" => UpQueueOK(req.q, Len(tgt.got), app, l2g)
  /\ spc = "relay" /\ l2g # "exit" /\ Alive(req) =>
       Len(tgt.got) + Len(req.q) = app.taken
  /\ CleanUpload

-----------------------------------------------------------------------------
NoReset(q) == \A j \in 1..Len(q) : q[j].type # "Reset"

\* q follows the first w chunks of the download, up to a Reset; o = 1 while
\* OpenResult stands in front of them; `task' fills q from peer t.
DownQueueOK(q, w, o, t, task) ==
  \A i \in 1..Len(q) : (\A j \in 1..i - 1 : q[j].type # "Reset") =>
    \/ q[i].type = "OpenResult" /\ i = 1 /\ o = 1 /\ (q[i].n = 1 => task # "none")
    \/ /\ q[i].type = "Data" /\ i > o /\ task # "none"
       /\ q[i].n = w + i - o /\ w + i <= t.taken + o
    \/ /\ q[i].type = "HalfClose" /\ i > o /\ task = "exit"
       /\ AtEof(t) /\ w + i = t.taken + o + 1
    \/ q[i].type = "Reset"

DownInv ==
  /\ tgt.taken <= tgt.sent
  /\ InOrder(app.got, tgt.taken)
  /\ Listening => DownQueueOK(rsp.q, Len(app.got), Offset, tgt, t2g)
  /\ Listening /\ T2gActive /\ Alive(rsp) /\ NoReset(rsp.q) =>
       Len(app.got) + Len(rsp.q) = tgt.taken + Offset
  /\ CleanDownload

\* A handler that ended told the client so, unless the client reset it.
FarewellInv ==
  /\ Listening /\ ServerEnded /\ t2g # "none" /\ Alive(rsp) =>
       why = "reset" \/ ~NoReset(rsp.q)
  /\ NoSilentTruncation

\* The conjunction is preserved by every step of the tunnel, of the programs
\* it connects and of a failing connection; it implies each safety property.
IndInv ==
  /\ TypeOK
  /\ PhaseInv
  /\ EndInv
  /\ OpenInv
  /\ UpInv
  /\ DownInv
  /\ FarewellInv
=============================================================================
