----------------------------- MODULE DuplexPipe -----------------------------
(***************************************************************************)
(* What a tunnel promises to the two programs it connects, without         *)
(* frames, queues or tasks: two independent byte pipes.  Each delivers a   *)
(* prefix of what was written, in order and once.  Its reader is told the  *)
(* end of the stream ("clean") only after the writer closed and everything *)
(* was delivered; otherwise the pipe may be cut at any moment.             *)
(***************************************************************************)
EXTENDS Naturals, Sequences

VARIABLES
  sent,      \* per direction: chunks written
  closed,    \* the writer closed its half
  got,       \* chunks delivered to the reader
  eof        \* what the reader was told

pipeVars == <<sent, closed, got, eof>>

Dirs == {"up", "down"}

\* The first chunk of the upload may exist before the tunnel does.
Init ==
  /\ sent \in {[d \in Dirs |-> IF d = "up" THEN p ELSE 0] : p \in {0, 1}}
  /\ closed = [d \in Dirs |-> FALSE]
  /\ got = [d \in Dirs |-> <<>>]
  /\ eof = [d \in Dirs |-> "open"]

Write(d) ==
  /\ ~closed[d]
  /\ sent' = [sent EXCEPT ![d] = @ + 1]
  /\ UNCHANGED <<closed, got, eof>>

Close(d) ==
  /\ ~closed[d]
  /\ closed' = [closed EXCEPT ![d] = TRUE]
  /\ UNCHANGED <<sent, got, eof>>

Deliver(d) ==
  /\ eof[d] = "open"
  /\ Len(got[d]) < sent[d]
  /\ got' = [got EXCEPT ![d] = Append(@, Len(@) + 1)]
  /\ UNCHANGED <<sent, closed, eof>>

Finish(d) ==
  /\ eof[d] = "open"
  /\ closed[d] /\ Len(got[d]) = sent[d]
  /\ eof' = [eof EXCEPT ![d] = "clean"]
  /\ UNCHANGED <<sent, closed, got>>

Cut(d) ==
  /\ eof[d] = "open"
  /\ eof' = [eof EXCEPT ![d] = "cut"]
  /\ UNCHANGED <<sent, closed, got>>

Next == \E d \in Dirs : Write(d) \/ Close(d) \/ Deliver(d) \/ Finish(d) \/ Cut(d)

Spec == Init /\ [][Next]_pipeVars
=============================================================================
