---------------------------- MODULE TunnelProofs ----------------------------
(***************************************************************************)
(* The safety of a tunnel for every queue length, every socket buffer and  *)
(* every number of chunks.  IndInv of TunnelInvariant holds initially and  *)
(* is preserved by every step: first the lemmas about queues and peers,    *)
(* then one lemma per action of the environment and of relay_grpc, then    *)
(* one per action of the server.  Each property of Tunnel follows from it; *)
(* the last part shows that the tunnel implements DuplexPipe.              *)
(***************************************************************************)
EXTENDS TunnelInvariant, SequenceTheorems, TLAPS

-----------------------------------------------------------------------------
(***************************************************************************)
(* What the operators of GrpcStream and TcpPeer return, and how the steps  *)
(* of a tunnel preserve the two queue predicates of TunnelInvariant.  The  *)
(* lemmas speak of arbitrary queues and peers, not of the state.           *)
(***************************************************************************)

(***************************************************************************)
(* Sequences and the records of GrpcStream and TcpPeer.                    *)
(***************************************************************************)

\* What Head and Tail return: next().await takes the oldest frame.
LEMMA TailFacts ==
  ASSUME NEW S, NEW s \in Seq(S), s # <<>>
  PROVE  /\ Tail(s) \in Seq(S)
         /\ Len(s) \in Nat /\ Len(s) >= 1
         /\ Len(Tail(s)) = Len(s) - 1
         /\ \A i \in 1..Len(s) - 1 : Tail(s)[i] = s[i + 1]
         /\ Head(s) = s[1]
         /\ Head(s) \in S
  OBVIOUS

\* What Append returns: send() queues behind everything else.
LEMMA AppendFacts ==
  ASSUME NEW S, NEW s \in Seq(S), NEW e \in S
  PROVE  /\ Append(s, e) \in Seq(S)
         /\ Len(s) \in Nat
         /\ Len(Append(s, e)) = Len(s) + 1
         /\ \A i \in 1..Len(s) : Append(s, e)[i] = s[i]
         /\ Append(s, e)[Len(s) + 1] = e
  OBVIOUS

\* What a prefix is: the part of a queue that survives a failure.
LEMMA PrefixFacts ==
  ASSUME NEW S, NEW s \in Seq(S), NEW m \in 0..Len(s)
  PROVE  /\ SubSeq(s, 1, m) \in Seq(S)
         /\ Len(s) \in Nat
         /\ Len(SubSeq(s, 1, m)) = m
         /\ \A i \in 1..m : SubSeq(s, 1, m)[i] = s[i]
  OBVIOUS

\* A sequence without elements.
LEMMA NoElements ==
  ASSUME NEW S, NEW s \in Seq(S), Len(s) = 0
  PROVE  s = <<>>
  OBVIOUS

\* Nothing of an empty queue survives a failure.
LEMMA EmptyPrefix ==
  ASSUME NEW S, NEW s \in Seq(S), s = <<>>, NEW m \in 0..Len(s)
  PROVE  SubSeq(s, 1, m) = <<>>
  BY PrefixFacts, NoElements

\* Of a queue with one frame, the frame survives a failure or nothing does.
LEMMA UnitPrefix ==
  ASSUME NEW S, NEW e, NEW s \in Seq(S), s = <<e>>, NEW m \in 0..Len(s)
  PROVE  SubSeq(s, 1, m) \in {<<>>, <<e>>}
<1>1. CASE m = 0 BY <1>1, PrefixFacts, NoElements
<1>2. CASE m = 1
  <2>1. Len(SubSeq(s, 1, m)) = 1 /\ SubSeq(s, 1, m)[1] = e /\ SubSeq(s, 1, m) \in Seq(S)
    BY <1>2, PrefixFacts
  <2>2. s \in Seq(S) /\ Len(s) = 1 /\ s[1] = e OBVIOUS
  <2> DEFINE r == SubSeq(s, 1, m)
  <2>3. r \in Seq(S) /\ Len(r) = Len(s) /\ \A i \in 1..Len(r) : r[i] = s[i] BY <2>1, <2>2
  <2> HIDE DEF r
  <2>4. r = s BY <2>3, SeqEqual
  <2> QED BY <2>4 DEF r
<1> QED BY <1>1, <1>2

\* Reading a frame.
LEMMA PoppedFacts ==
  ASSUME NEW T, NEW d \in Directions(T), d.q # <<>>
  PROVE  /\ Popped(d) \in Directions(T)
         /\ Popped(d).end = d.end
         /\ Popped(d).q = Tail(d.q)
         /\ d.q \in Seq(Frames(T))
         /\ Head(d.q) = d.q[1]
         /\ Head(d.q) \in Frames(T)
  BY TailFacts DEF Directions, Popped

\* Sending a frame.
LEMMA SentFacts ==
  ASSUME NEW T, NEW d \in Directions(T), NEW f \in Frames(T)
  PROVE  /\ Sent(d, f) \in Directions(T)
         /\ d.q \in Seq(Frames(T))
         /\ Sent(d, f).end = d.end
         /\ Alive(d) => Sent(d, f).q = Append(d.q, f)
         /\ ~Alive(d) => Sent(d, f) = d
  BY AppendFacts DEF Directions, Sent

\* Losing the tail of a direction.
LEMMA CutFacts ==
  ASSUME NEW T, NEW d \in Directions(T), NEW c \in CutsOf(d)
  PROVE  /\ c \in Directions(T)
         /\ d.q \in Seq(Frames(T))
         /\ c.end = "err"
         /\ \E m \in 0..Len(d.q) : c.q = SubSeq(d.q, 1, m)
<1>1. PICK m \in 0..Len(d.q) : c = Cut(d, m) BY DEF CutsOf
<1>2. d.q \in Seq(Frames(T)) BY DEF Directions
<1> QED BY <1>1, <1>2, PrefixFacts DEF Cut, Directions

\* write_all of one chunk.
LEMMA WroteFacts ==
  ASSUME NEW p \in Peers, NEW n \in Nat
  PROVE  /\ Wrote(p, n) \in Peers
         /\ Wrote(p, n).sent = p.sent
         /\ Wrote(p, n).taken = p.taken
         /\ Wrote(p, n).fin = p.fin
         /\ Wrote(p, n).gone = p.gone
         /\ Wrote(p, n).got = Append(p.got, n)
  BY DEF Peers, Wrote

\* read of one chunk.
LEMMA TakenFacts ==
  ASSUME NEW p \in Peers
  PROVE  /\ Taken(p) \in Peers
         /\ Taken(p).sent = p.sent
         /\ Taken(p).taken = p.taken + 1
         /\ Taken(p).fin = p.fin
         /\ Taken(p).gone = p.gone
         /\ Taken(p).got = p.got
  BY DEF Peers, Taken

\* The fields of a well-typed state.
LEMMA TypeFacts ==
  ASSUME TypeOK
  PROVE  /\ req \in Directions(ClientTypes) /\ rsp \in Directions(ServerTypes)
         /\ req.q \in Seq(Frames(ClientTypes)) /\ rsp.q \in Seq(Frames(ServerTypes))
         /\ app \in Peers /\ tgt \in Peers
         /\ app.got \in Seq(Nat) /\ tgt.got \in Seq(Nat)
         /\ app.sent \in Nat /\ app.taken \in Nat
         /\ tgt.sent \in Nat /\ tgt.taken \in Nat
         /\ Len(req.q) \in Nat /\ Len(rsp.q) \in Nat
         /\ Len(app.got) \in Nat /\ Len(tgt.got) \in Nat
  BY DEF TypeOK, ClientTypeOK, ServerTypeOK, Peers, Directions

\* Delivering the next chunk keeps what was delivered in order.
LEMMA InOrderAppend ==
  ASSUME NEW got \in Seq(Nat), NEW k \in Nat, InOrder(got, k), Len(got) + 1 <= k
  PROVE  InOrder(Append(got, Len(got) + 1), k)
  BY AppendFacts DEF InOrder

\* A larger bound changes nothing.
LEMMA InOrderMore ==
  ASSUME NEW got \in Seq(Nat), NEW k \in Nat, NEW m \in Nat, InOrder(got, k), k <= m
  PROVE  InOrder(got, m)
  BY DEF InOrder

-----------------------------------------------------------------------------
(***************************************************************************)
(* The request queue.                                                      *)
(***************************************************************************)

\* handle_tunnel takes a Data frame: it is the next chunk.
LEMMA UpPop ==
  ASSUME NEW S, NEW q \in Seq(S), q # <<>>, NEW w \in Nat, NEW a \in Peers,
         NEW task, UpQueueOK(q, w, a, task), q[1].type = "Data"
  PROVE  /\ q[1].n = w + 1 /\ w + 1 <= a.taken
         /\ UpQueueOK(Tail(q), w + 1, a, task)
  BY TailFacts DEF UpQueueOK

\* handle_tunnel takes another frame: it is the last one.
LEMMA UpPopLast ==
  ASSUME NEW S, NEW q \in Seq(S), q # <<>>, NEW w \in Nat, NEW a \in Peers,
         NEW task, UpQueueOK(q, w, a, task), q[1].type # "Data"
  PROVE  /\ Len(Tail(q)) = 0 /\ task = "exit"
         /\ \/ q[1].type = "HalfClose" /\ AtEof(a) /\ w = a.taken
            \/ q[1].type = "Reset" /\ a.gone
<1>1. 1 \in 1..Len(q) /\ a.taken \in Nat BY TailFacts DEF Peers
<1>2. \/ /\ q[1].type = "HalfClose" /\ 1 = Len(q) /\ task = "exit"
         /\ AtEof(a) /\ w + 1 = a.taken + 1
      \/ q[1].type = "Reset" /\ 1 = Len(q) /\ task = "exit" /\ a.gone
  BY <1>1 DEF UpQueueOK
<1>3. Len(Tail(q)) = 0 BY <1>2, TailFacts
<1>4. w + 1 = a.taken + 1 => w = a.taken BY <1>1
<1> QED BY <1>2, <1>3, <1>4

\* local_to_grpc sends the next chunk.
LEMMA UpAppendData ==
  ASSUME NEW S, NEW q \in Seq(S), NEW w \in Nat, NEW a \in Peers, NEW task, NEW task2,
         UpQueueOK(q, w, a, task), task # "exit", w + Len(q) = a.taken,
         NEW f \in S, f = Frame("Data", a.taken + 1)
  PROVE  UpQueueOK(Append(q, f), w, Taken(a), task2)
<1> DEFINE r == Append(q, f)
<1>1. /\ Len(q) \in Nat /\ Len(r) = Len(q) + 1 /\ r[Len(q) + 1] = f
      /\ \A i \in 1..Len(q) : r[i] = q[i]
  BY AppendFacts
<1>2. a.taken \in Nat /\ Taken(a).taken = a.taken + 1 BY TakenFacts DEF Peers
<1> HIDE DEF r
<1>3. ASSUME NEW i \in 1..Len(r)
      PROVE  r[i].type = "Data" /\ r[i].n = w + i /\ w + i <= Taken(a).taken
  <2>1. CASE i \in 1..Len(q) BY <1>1, <1>2, <2>1 DEF UpQueueOK
  <2>2. CASE i = Len(q) + 1 BY <1>1, <1>2, <2>2 DEF Frame
  <2> QED BY <1>1, <2>1, <2>2
<1>4. UpQueueOK(r, w, Taken(a), task2) BY <1>3 DEF UpQueueOK
<1> QED BY <1>4 DEF r

\* local_to_grpc reads a chunk that it cannot send any more.
LEMMA UpTaken ==
  ASSUME NEW q, NEW w \in Nat, NEW a \in Peers, NEW task, NEW task2,
         UpQueueOK(q, w, a, task), task # "exit"
  PROVE  UpQueueOK(q, w, Taken(a), task2)
<1>1. a.taken \in Nat /\ Taken(a).taken = a.taken + 1 BY TakenFacts DEF Peers
<1>2. ASSUME NEW i \in 1..Len(q)
      PROVE  q[i].type = "Data" /\ q[i].n = w + i /\ w + i <= Taken(a).taken
  BY <1>1 DEF UpQueueOK
<1> QED BY <1>2 DEF UpQueueOK

\* local_to_grpc sends its last frame.
LEMMA UpAppendLast ==
  ASSUME NEW S, NEW q \in Seq(S), NEW w \in Nat, NEW a \in Peers, NEW task,
         UpQueueOK(q, w, a, task), task # "exit", w + Len(q) = a.taken,
         NEW f \in S,
         \/ f.type = "HalfClose" /\ AtEof(a)
         \/ f.type = "Reset" /\ a.gone
  PROVE  UpQueueOK(Append(q, f), w, a, "exit")
<1> DEFINE r == Append(q, f)
<1>1. /\ Len(q) \in Nat /\ Len(r) = Len(q) + 1 /\ r[Len(q) + 1] = f
      /\ \A i \in 1..Len(q) : r[i] = q[i]
  BY AppendFacts
<1>2. a.taken \in Nat BY DEF Peers
<1> HIDE DEF r
<1>3. ASSUME NEW i \in 1..Len(q)
      PROVE  r[i].type = "Data" /\ r[i].n = w + i /\ w + i <= a.taken
  BY <1>1, <1>2 DEF UpQueueOK
<1>4. ASSUME NEW i \in 1..Len(r), i \notin 1..Len(q)
      PROVE  r[i] = f /\ i = Len(r) /\ w + i = a.taken + 1
  BY <1>1, <1>2, <1>4
<1>5. UpQueueOK(r, w, a, "exit") BY <1>3, <1>4 DEF UpQueueOK
<1> QED BY <1>5 DEF r

\* A failure keeps a prefix.
LEMMA UpPrefix ==
  ASSUME NEW S, NEW q \in Seq(S), NEW m \in 0..Len(q), NEW w, NEW a, NEW task,
         UpQueueOK(q, w, a, task)
  PROVE  UpQueueOK(SubSeq(q, 1, m), w, a, task)
  BY PrefixFacts DEF UpQueueOK

\* Steps of the application, and writes to it, leave the frames true.
LEMMA UpPeer ==
  ASSUME NEW q, NEW w, NEW a, NEW b, NEW task, UpQueueOK(q, w, a, task),
         b.taken = a.taken, a.fin => b.fin /\ b.sent = a.sent, a.gone => b.gone
  PROVE  UpQueueOK(q, w, b, task)
  BY DEF UpQueueOK, AtEof

\* The state of local_to_grpc matters only once it has sent its last frame.
LEMMA UpTask ==
  ASSUME NEW q, NEW w, NEW a, NEW task, NEW task2, UpQueueOK(q, w, a, task),
         task # "exit"
  PROVE  UpQueueOK(q, w, a, task2)
  BY DEF UpQueueOK

-----------------------------------------------------------------------------
(***************************************************************************)
(* The response queue.                                                     *)
(***************************************************************************)

\* relay_grpc takes a Data frame: it is the next chunk.
LEMMA DownPop ==
  ASSUME NEW S, NEW q \in Seq(S), q # <<>>, NEW w \in Nat, NEW t \in Peers,
         NEW task, DownQueueOK(q, w, 0, t, task), q[1].type = "Data"
  PROVE  /\ q[1].n = w + 1 /\ w + 1 <= t.taken /\ task # "none"
         /\ DownQueueOK(Tail(q), w + 1, 0, t, task)
<1> DEFINE r == Tail(q)
<1>1. /\ Len(q) \in Nat /\ 1 \in 1..Len(q) /\ Len(r) = Len(q) - 1
      /\ \A i \in 1..Len(q) - 1 : r[i] = q[i + 1]
  BY TailFacts
<1>2. t.taken \in Nat BY DEF Peers
<1> HIDE DEF r
<1>3. q[1].n = w + 1 /\ w + 1 <= t.taken /\ task # "none"
  BY <1>1, <1>2 DEF DownQueueOK
<1>4. ASSUME NEW i \in 1..Len(r), \A j \in 1..i - 1 : r[j].type # "Reset"
      PROVE  \A j \in 1..(i + 1) - 1 : q[j].type # "Reset"
  <2>1. ASSUME NEW j \in 1..i PROVE q[j].type # "Reset"
    <3>1. CASE j = 1 BY <3>1
    <3>2. CASE j # 1
      <4>1. j - 1 \in 1..i - 1 /\ j - 1 \in 1..Len(q) - 1 /\ (j - 1) + 1 = j
        BY <1>1, <3>2
      <4> QED BY <1>1, <1>4, <4>1
    <3> QED BY <3>1, <3>2
  <2> QED BY <2>1
<1>5. ASSUME NEW i \in 1..Len(r), \A j \in 1..i - 1 : r[j].type # "Reset"
      PROVE  \/ /\ r[i].type = "Data" /\ i > 0 /\ task # "none"
                /\ r[i].n = (w + 1) + i - 0 /\ (w + 1) + i <= t.taken + 0
             \/ /\ r[i].type = "HalfClose" /\ i > 0 /\ task = "exit"
                /\ AtEof(t) /\ (w + 1) + i = t.taken + 0 + 1
             \/ r[i].type = "Reset"
  <2>1. i + 1 \in 1..Len(q) /\ r[i] = q[i + 1] /\ i \in Nat BY <1>1
  <2>2. \A j \in 1..(i + 1) - 1 : q[j].type # "Reset" BY <1>4, <1>5
  <2> QED BY <1>2, <1>3, <2>1, <2>2 DEF DownQueueOK
<1>6. DownQueueOK(r, w + 1, 0, t, task) BY <1>5 DEF DownQueueOK
<1> QED BY <1>3, <1>6 DEF r

\* relay_grpc takes OpenResult: the data follows.
LEMMA DownPopOpen ==
  ASSUME NEW S, NEW q \in Seq(S), q # <<>>, NEW w \in Nat, NEW t \in Peers,
         NEW task, DownQueueOK(q, w, 1, t, task), q[1].type = "OpenResult"
  PROVE  /\ q[1].n = 1 => task # "none"
         /\ DownQueueOK(Tail(q), w, 0, t, task)
<1> DEFINE r == Tail(q)
<1>1. /\ Len(q) \in Nat /\ 1 \in 1..Len(q) /\ Len(r) = Len(q) - 1
      /\ \A i \in 1..Len(q) - 1 : r[i] = q[i + 1]
  BY TailFacts
<1>2. t.taken \in Nat BY DEF Peers
<1> HIDE DEF r
<1>3. q[1].n = 1 => task # "none" BY <1>1 DEF DownQueueOK
<1>4. ASSUME NEW i \in 1..Len(r), \A j \in 1..i - 1 : r[j].type # "Reset"
      PROVE  \A j \in 1..(i + 1) - 1 : q[j].type # "Reset"
  <2>1. ASSUME NEW j \in 1..i PROVE q[j].type # "Reset"
    <3>1. CASE j = 1 BY <3>1
    <3>2. CASE j # 1
      <4>1. j - 1 \in 1..i - 1 /\ j - 1 \in 1..Len(q) - 1 /\ (j - 1) + 1 = j
        BY <1>1, <3>2
      <4> QED BY <1>1, <1>4, <4>1
    <3> QED BY <3>1, <3>2
  <2> QED BY <2>1
<1>5. ASSUME NEW i \in 1..Len(r), \A j \in 1..i - 1 : r[j].type # "Reset"
      PROVE  \/ /\ r[i].type = "Data" /\ i > 0 /\ task # "none"
                /\ r[i].n = w + i - 0 /\ w + i <= t.taken + 0
             \/ /\ r[i].type = "HalfClose" /\ i > 0 /\ task = "exit"
                /\ AtEof(t) /\ w + i = t.taken + 0 + 1
             \/ r[i].type = "Reset"
  <2>1. i + 1 \in 1..Len(q) /\ r[i] = q[i + 1] /\ i \in Nat /\ i > 0 BY <1>1
  <2>2. \A j \in 1..(i + 1) - 1 : q[j].type # "Reset" BY <1>4, <1>5
  <2>3. \/ i + 1 = 1
        \/ /\ q[i + 1].type = "Data" /\ task # "none"
           /\ q[i + 1].n = w + (i + 1) - 1 /\ w + (i + 1) <= t.taken + 1
        \/ /\ q[i + 1].type = "HalfClose" /\ task = "exit"
           /\ AtEof(t) /\ w + (i + 1) = t.taken + 1 + 1
        \/ q[i + 1].type = "Reset"
    BY <2>1, <2>2 DEF DownQueueOK
  <2> QED BY <1>2, <2>1, <2>3
<1>6. DownQueueOK(r, w, 0, t, task) BY <1>5 DEF DownQueueOK
<1> QED BY <1>3, <1>6 DEF r

\* The frames relay_grpc can find at the head of the queue.
LEMMA DownHead ==
  ASSUME NEW S, NEW q \in Seq(S), q # <<>>, NEW w \in Nat, NEW o \in {0, 1},
         NEW t \in Peers, NEW task, DownQueueOK(q, w, o, t, task)
  PROVE  \/ q[1].type = "OpenResult" /\ o = 1
         \/ q[1].type = "Data" /\ o = 0
         \/ q[1].type = "HalfClose" /\ o = 0 /\ AtEof(t) /\ w = t.taken
         \/ q[1].type = "Reset"
<1>1. 1 \in 1..Len(q) /\ t.taken \in Nat BY TailFacts DEF Peers
<1>2. \A j \in 1..1 - 1 : q[j].type # "Reset" OBVIOUS
<1>3. \/ q[1].type = "OpenResult" /\ o = 1
      \/ q[1].type = "Data" /\ 1 > o
      \/ q[1].type = "HalfClose" /\ 1 > o /\ AtEof(t) /\ w + 1 = t.taken + o + 1
      \/ q[1].type = "Reset"
  BY <1>1, <1>2 DEF DownQueueOK
<1>4. 1 > o => o = 0 OBVIOUS
<1>5. o = 0 /\ w + 1 = t.taken + o + 1 => w = t.taken BY <1>1
<1> QED BY <1>3, <1>4, <1>5

\* A frame that is true at the end of the queue, or stands behind a Reset,
\* may be appended.
LEMMA DownAppend ==
  ASSUME NEW S, NEW q \in Seq(S), NEW w \in Nat, NEW o \in {0, 1},
         NEW t \in Peers, NEW u \in Peers, NEW task, NEW task2, NEW f \in S,
         DownQueueOK(q, w, o, t, task),
         task # task2 => task # "exit" /\ (task2 = "none" => task = "none"),
         t.taken <= u.taken, task = "exit" => u = t,
         NoReset(q) =>
           \/ f.type = "OpenResult" /\ Len(q) = 0 /\ o = 1 /\ (f.n = 1 => task2 # "none")
           \/ /\ f.type = "Data" /\ Len(q) >= o /\ task2 # "none"
              /\ f.n = w + (Len(q) + 1) - o /\ w + (Len(q) + 1) <= u.taken + o
           \/ /\ f.type = "HalfClose" /\ Len(q) >= o /\ task2 = "exit"
              /\ AtEof(u) /\ w + (Len(q) + 1) = u.taken + o + 1
           \/ f.type = "Reset"
  PROVE  DownQueueOK(Append(q, f), w, o, u, task2)
<1> DEFINE r == Append(q, f)
<1>1. /\ Len(q) \in Nat /\ Len(r) = Len(q) + 1 /\ r[Len(q) + 1] = f
      /\ \A i \in 1..Len(q) : r[i] = q[i]
  BY AppendFacts
<1>2. t.taken \in Nat /\ u.taken \in Nat BY DEF Peers
<1> HIDE DEF r
<1>3. ASSUME NEW i \in 1..Len(r), \A j \in 1..i - 1 : r[j].type # "Reset"
      PROVE  \/ r[i].type = "OpenResult" /\ i = 1 /\ o = 1 /\ (r[i].n = 1 => task2 # "none")
             \/ /\ r[i].type = "Data" /\ i > o /\ task2 # "none"
                /\ r[i].n = w + i - o /\ w + i <= u.taken + o
             \/ /\ r[i].type = "HalfClose" /\ i > o /\ task2 = "exit"
                /\ AtEof(u) /\ w + i = u.taken + o + 1
             \/ r[i].type = "Reset"
  <2>1. CASE i \in 1..Len(q)
    <3>1. r[i] = q[i] /\ i \in Nat BY <1>1, <2>1
    <3>2. \A j \in 1..i - 1 : q[j].type # "Reset" BY <1>1, <1>3, <2>1
    <3> QED BY <1>2, <2>1, <3>1, <3>2 DEF DownQueueOK
  <2>2. CASE i = Len(q) + 1
    <3>1. NoReset(q) BY <1>1, <1>3, <2>2 DEF NoReset
    <3>2. r[i] = f BY <1>1, <2>2
    <3> QED BY <1>1, <1>2, <2>2, <3>1, <3>2
  <2> QED BY <1>1, <2>1, <2>2
<1>4. DownQueueOK(r, w, o, u, task2) BY <1>3 DEF DownQueueOK
<1> QED BY <1>4 DEF r

\* target_to_grpc reads a chunk that it cannot send any more.
LEMMA DownTaken ==
  ASSUME NEW q, NEW w \in Nat, NEW o \in {0, 1}, NEW t \in Peers, NEW task, NEW task2,
         DownQueueOK(q, w, o, t, task), task # "exit", task2 # "none"
  PROVE  DownQueueOK(q, w, o, Taken(t), task2)
<1>1. t.taken \in Nat /\ Taken(t).taken = t.taken + 1 BY TakenFacts DEF Peers
<1>2. ASSUME NEW i \in 1..Len(q), \A j \in 1..i - 1 : q[j].type # "Reset"
      PROVE  \/ q[i].type = "OpenResult" /\ i = 1 /\ o = 1
             \/ /\ q[i].type = "Data" /\ i > o
                /\ q[i].n = w + i - o /\ w + i <= Taken(t).taken + o
             \/ q[i].type = "Reset"
  <2>1. \/ q[i].type = "OpenResult" /\ i = 1 /\ o = 1
        \/ /\ q[i].type = "Data" /\ i > o
           /\ q[i].n = w + i - o /\ w + i <= t.taken + o
        \/ q[i].type = "Reset"
    BY <1>2 DEF DownQueueOK
  <2>2. w + i <= t.taken + o => w + i <= Taken(t).taken + o
    BY <1>1
  <2> QED BY <2>1, <2>2
<1> QED BY <1>2 DEF DownQueueOK

\* A failure keeps a prefix.
LEMMA DownPrefix ==
  ASSUME NEW S, NEW q \in Seq(S), NEW m \in 0..Len(q), NEW w, NEW o, NEW t, NEW task,
         DownQueueOK(q, w, o, t, task)
  PROVE  DownQueueOK(SubSeq(q, 1, m), w, o, t, task)
<1> DEFINE r == SubSeq(q, 1, m)
<1>1. /\ Len(q) \in Nat /\ Len(r) = m /\ \A i \in 1..m : r[i] = q[i]
  BY PrefixFacts
<1> HIDE DEF r
<1>2. ASSUME NEW i \in 1..Len(r), \A j \in 1..i - 1 : r[j].type # "Reset"
      PROVE  i \in 1..Len(q) /\ r[i] = q[i] /\ \A j \in 1..i - 1 : q[j].type # "Reset"
  BY <1>1, <1>2
<1>3. DownQueueOK(r, w, o, t, task) BY <1>2 DEF DownQueueOK
<1> QED BY <1>3 DEF r

\* Steps of the target, and writes to it, leave the frames true.
LEMMA DownPeer ==
  ASSUME NEW q, NEW w, NEW o, NEW t, NEW u, NEW task, DownQueueOK(q, w, o, t, task),
         u.taken = t.taken, t.fin => u.fin /\ u.sent = t.sent
  PROVE  DownQueueOK(q, w, o, u, task)
  BY DEF DownQueueOK, AtEof

\* target_to_grpc may be aborted or end.
LEMMA DownTask ==
  ASSUME NEW q, NEW w, NEW o, NEW t, NEW task, NEW task2, DownQueueOK(q, w, o, t, task),
         task # "exit", task2 # "none"
  PROVE  DownQueueOK(q, w, o, t, task2)
  BY DEF DownQueueOK

\* A Reset in the queue stays until it is read.
LEMMA ResetStays ==
  ASSUME NEW S, NEW q \in Seq(S), NEW f \in S
  PROVE  /\ ~NoReset(q) => ~NoReset(Append(q, f))
         /\ f.type = "Reset" => ~NoReset(Append(q, f))
         /\ NoReset(Append(q, f)) => NoReset(q)
         /\ q # <<>> /\ q[1].type # "Reset" /\ NoReset(Tail(q)) => NoReset(q)
<1>1. /\ Len(q) \in Nat /\ Len(Append(q, f)) = Len(q) + 1
      /\ Append(q, f)[Len(q) + 1] = f
      /\ \A i \in 1..Len(q) : Append(q, f)[i] = q[i]
  BY AppendFacts
<1>2. NoReset(Append(q, f)) => NoReset(q) BY <1>1 DEF NoReset
<1>3. f.type = "Reset" => ~NoReset(Append(q, f)) BY <1>1 DEF NoReset
<1>4. ASSUME q # <<>>, q[1].type # "Reset", NoReset(Tail(q))
      PROVE  NoReset(q)
  <2>1. /\ Len(q) \in Nat /\ Len(Tail(q)) = Len(q) - 1
        /\ \A i \in 1..Len(q) - 1 : Tail(q)[i] = q[i + 1]
    BY <1>4, TailFacts
  <2>2. ASSUME NEW j \in 1..Len(q), j # 1 PROVE q[j].type # "Reset"
    <3>1. j - 1 \in 1..Len(q) - 1 /\ (j - 1) + 1 = j BY <2>1, <2>2
    <3> QED BY <1>4, <2>1, <3>1 DEF NoReset
  <2> QED BY <1>4, <2>2 DEF NoReset
<1> QED BY <1>2, <1>3, <1>4

-----------------------------------------------------------------------------
(***************************************************************************)
(* The inductive invariant of Tunnel is preserved by the steps of the      *)
(* application, of the target, of a failing connection and of relay_grpc:  *)
(* one lemma per action.                                                   *)
(***************************************************************************)
USE DEF streamVars, clientVars, serverVars

\* What a step of a program behind a socket may change.
LEMMA PeerStep ==
  ASSUME NEW p \in Peers, NEW pp, NEW limit \in Nat,
         PeerWrites(p, pp, limit) \/ PeerFins(p, pp) \/ PeerGoes(p, pp) \/ PeerReads(p, pp)
  PROVE  /\ pp \in Peers /\ pp.taken = p.taken /\ pp.got = p.got
         /\ p.sent \in Nat /\ pp.sent \in Nat /\ p.sent <= pp.sent
         /\ p.fin => pp.fin /\ pp.sent = p.sent
         /\ p.gone => pp.gone
<1>1. CASE PeerWrites(p, pp, limit) BY <1>1 DEF PeerWrites, Peers
<1>2. CASE PeerFins(p, pp)
  <2>1. pp \in Peers BY <1>2 DEF PeerFins, Peers
  <2>2. pp.taken = p.taken /\ pp.got = p.got /\ pp.sent = p.sent /\ p.sent \in Nat
    BY <1>2 DEF PeerFins, Peers
  <2>3. p.fin => pp.fin BY <1>2 DEF PeerFins, Peers
  <2>4. p.gone => pp.gone BY <1>2 DEF PeerFins, Peers
  <2> QED BY <2>1, <2>2, <2>3, <2>4
<1>3. CASE PeerGoes(p, pp)
  <2>1. pp \in Peers BY <1>3 DEF PeerGoes, Peers
  <2>2. pp.taken = p.taken /\ pp.got = p.got /\ pp.sent = p.sent /\ p.sent \in Nat
    BY <1>3 DEF PeerGoes, Peers
  <2>3. p.fin => pp.fin BY <1>3 DEF PeerGoes, Peers
  <2>4. p.gone => pp.gone BY <1>3 DEF PeerGoes, Peers
  <2> QED BY <2>1, <2>2, <2>3, <2>4
<1>4. CASE PeerReads(p, pp)
  <2>1. pp \in Peers BY <1>4 DEF PeerReads, Peers
  <2>2. pp.taken = p.taken /\ pp.got = p.got /\ pp.sent = p.sent /\ p.sent \in Nat
    BY <1>4 DEF PeerReads, Peers
  <2>3. p.fin => pp.fin BY <1>4 DEF PeerReads, Peers
  <2>4. p.gone => pp.gone BY <1>4 DEF PeerReads, Peers
  <2> QED BY <2>1, <2>2, <2>3, <2>4
<1> QED BY <1>1, <1>2, <1>3, <1>4

\* The application's own steps only add to what it wrote or said.
LEMMA AppStep ==
  ASSUME IndInv, AppWrite \/ AppFin \/ AppGone \/ AppRead
  PROVE  IndInv'
<1>t. TypeOK /\ app \in Peers BY TypeFacts DEF IndInv
<1>u. UNCHANGED <<cpc, l2g, streamVars, serverVars>>
  BY DEF AppWrite, AppFin, AppGone, AppRead
<1>p. \/ PeerWrites(app, app', MAX_UP) \/ PeerFins(app, app')
      \/ PeerGoes(app, app') \/ PeerReads(app, app')
  BY DEF AppWrite, AppFin, AppGone, AppRead
<1>a. /\ app' \in Peers /\ app'.taken = app.taken /\ app'.got = app.got
      /\ app'.sent \in Nat /\ app.sent \in Nat /\ app.sent <= app'.sent
      /\ app.fin => app'.fin /\ app'.sent = app.sent
      /\ app.gone => app'.gone
  BY <1>t, <1>p, PeerStep, BoundAssumption
<1>1. TypeOK' BY <1>t, <1>u, <1>a DEF TypeOK, ClientTypeOK, ServerTypeOK
<1>2. PhaseInv' BY <1>u, <1>a DEF IndInv, PhaseInv, Early, NoProtocolError
<1>3. EndInv'
  BY <1>u, <1>a DEF IndInv, EndInv, LocalOpen, ClientEnded, L2gActive, ServerReleased, ServerEnded, T2gActive
<1>4. OpenInv' BY <1>u, <1>a DEF IndInv, OpenInv
<1>5. UpInv'
  <2>1. spc = "relay" => UpQueueOK(req.q, Len(tgt.got), app', l2g)
    BY <1>a, UpPeer DEF IndInv, UpInv
  <2>2. app.taken <= app.sent /\ app.taken \in Nat BY <1>t, TypeFacts DEF IndInv, UpInv
  <2>3. app'.taken <= app'.sent BY <1>a, <2>2
  <2>4. CleanUpload' BY <1>u, <1>a DEF IndInv, UpInv, CleanUpload
  <2> QED BY <1>u, <1>a, <2>1, <2>3, <2>4 DEF IndInv, UpInv
<1>6. DownInv' BY <1>u, <1>a DEF IndInv, DownInv, Listening, Offset, T2gActive, CleanDownload
<1>7. FarewellInv'
  BY <1>u, <1>a DEF IndInv, FarewellInv, NoSilentTruncation, Listening, ServerEnded
<1> QED BY <1>1, <1>2, <1>3, <1>4, <1>5, <1>6, <1>7 DEF IndInv

\* The target's own steps only add to what it wrote or said.
LEMMA TargetStep ==
  ASSUME IndInv, TargetWrite \/ TargetFin \/ TargetGone \/ TargetRead
  PROVE  IndInv'
<1>t. TypeOK /\ tgt \in Peers BY TypeFacts DEF IndInv
<1>u. UNCHANGED <<spc, held, t2g, wshut, why, streamVars, clientVars>> /\ t2g # "none"
  BY DEF TargetWrite, TargetFin, TargetGone, TargetRead, TargetUnchanged, Connected
<1>p. \/ PeerWrites(tgt, tgt', MAX_DOWN) \/ PeerFins(tgt, tgt')
      \/ PeerGoes(tgt, tgt') \/ PeerReads(tgt, tgt')
  BY DEF TargetWrite, TargetFin, TargetGone, TargetRead
<1>a. /\ tgt' \in Peers /\ tgt'.taken = tgt.taken /\ tgt'.got = tgt.got
      /\ tgt'.sent \in Nat /\ tgt.sent \in Nat /\ tgt.sent <= tgt'.sent
      /\ tgt.fin => tgt'.fin /\ tgt'.sent = tgt.sent
  BY <1>t, <1>p, PeerStep, BoundAssumption
<1>1. TypeOK' BY <1>t, <1>u, <1>a DEF TypeOK, ClientTypeOK, ServerTypeOK
<1>2. PhaseInv' BY <1>u, <1>a DEF IndInv, PhaseInv, Early, NoProtocolError
<1>3. EndInv'
  BY <1>u, <1>a DEF IndInv, EndInv, LocalOpen, ClientEnded, L2gActive, ServerReleased, ServerEnded, T2gActive
<1>4. OpenInv' BY <1>u, <1>a DEF IndInv, OpenInv
<1>5. UpInv' BY <1>u, <1>a DEF IndInv, UpInv, CleanUpload
<1>6. DownInv'
  <2>1. Listening => DownQueueOK(rsp.q, Len(app.got), Offset, tgt', t2g)
    BY <1>a, DownPeer DEF IndInv, DownInv
  <2>2. tgt.taken <= tgt.sent /\ tgt.taken \in Nat BY <1>t, TypeFacts DEF IndInv, DownInv
  <2>3. tgt'.taken <= tgt'.sent BY <1>a, <2>2
  <2>4. CleanDownload' BY <1>u, <1>a DEF IndInv, DownInv, CleanDownload
  <2> QED BY <1>u, <1>a, <2>1, <2>3, <2>4 DEF IndInv, DownInv, Listening, Offset, T2gActive
<1>7. FarewellInv'
  BY <1>u, <1>a DEF IndInv, FarewellInv, NoSilentTruncation, Listening, ServerEnded
<1> QED BY <1>1, <1>2, <1>3, <1>4, <1>5, <1>6, <1>7 DEF IndInv

\* A failing connection keeps prefixes of both queues and can send no more.
LEMMA ConnFailStep ==
  ASSUME IndInv, ConnFail
  PROVE  IndInv'
<1>t. TypeOK /\ req \in Directions(ClientTypes) /\ rsp \in Directions(ServerTypes)
  BY TypeFacts DEF IndInv
<1>u. UNCHANGED <<clientVars, serverVars>> BY DEF ConnFail
<1>q. /\ req' \in Directions(ClientTypes) /\ req'.end = "err"
      /\ req.q \in Seq(Frames(ClientTypes))
      /\ \E m \in 0..Len(req.q) : req'.q = SubSeq(req.q, 1, m)
  BY <1>t, CutFacts DEF ConnFail
<1>s. /\ rsp' \in Directions(ServerTypes) /\ rsp'.end = "err"
      /\ rsp.q \in Seq(Frames(ServerTypes))
      /\ \E m \in 0..Len(rsp.q) : rsp'.q = SubSeq(rsp.q, 1, m)
  BY <1>t, CutFacts DEF ConnFail
<1>e. ~Alive(req)' /\ ~Alive(rsp)' BY <1>q, <1>s DEF Alive
<1>1. TypeOK' BY <1>t, <1>u, <1>q, <1>s DEF TypeOK, ClientTypeOK, ServerTypeOK
<1>2. PhaseInv'
  <2>1. rsp.q = <<>> => rsp'.q = <<>> BY <1>s, EmptyPrefix
  <2> QED BY <1>u, <2>1 DEF IndInv, PhaseInv, Early, NoProtocolError
<1>3. EndInv' BY <1>u, <1>q, <1>s DEF IndInv, EndInv, ClientEnded
<1>4. OpenInv'
  <2>1. req.q = <<>> => req'.q = <<>> BY <1>q, EmptyPrefix
  <2>2. ASSUME NEW f, req.q = <<f>> PROVE req'.q \in {<<>>, <<f>>} BY <1>q, <2>2, UnitPrefix
  <2> QED BY <1>u, <2>1, <2>2 DEF IndInv, OpenInv
<1>5. UpInv'
  <2>1. spc = "relay" => UpQueueOK(req'.q, Len(tgt.got), app, l2g)
    BY <1>q, UpPrefix DEF IndInv, UpInv
  <2> QED BY <1>u, <1>e, <2>1 DEF IndInv, UpInv, CleanUpload
<1>6. DownInv'
  <2>1. Listening => DownQueueOK(rsp'.q, Len(app.got), Offset, tgt, t2g)
    BY <1>s, DownPrefix DEF IndInv, DownInv
  <2> QED BY <1>u, <1>e, <2>1 DEF IndInv, DownInv, Listening, Offset, T2gActive, CleanDownload
<1>7. FarewellInv'
  BY <1>u, <1>e DEF IndInv, FarewellInv, NoSilentTruncation, Listening, ServerEnded
<1> QED BY <1>1, <1>2, <1>3, <1>4, <1>5, <1>6, <1>7 DEF IndInv

(***************************************************************************)
(* relay_grpc.                                                             *)
(***************************************************************************)

\* relay_grpc gives up: nothing is written to the application any more.
LEMMA ClientStops ==
  ASSUME IndInv, Listening, cpc' \in {"refused", "reset", "lost", "io"},
         UNCHANGED <<app, l2g, req, serverVars>>,
         rsp' \in Directions(ServerTypes), rsp'.end = rsp.end, Early => rsp'.q = <<>>
  PROVE  IndInv'
<1>t. TypeOK BY DEF IndInv
<1>e. /\ req.end # "end" /\ cpc' # "opening" /\ cpc' # "relaying" /\ ClientEnded' /\ ~Listening'
  BY DEF IndInv, EndInv, LocalOpen, ClientEnded, ClientResults, Listening
<1>1. TypeOK' BY <1>t DEF TypeOK, ClientTypeOK, ServerTypeOK, ClientResults
<1>2. PhaseInv' BY <1>e DEF IndInv, PhaseInv, Early, NoProtocolError
<1>3. EndInv' BY <1>e DEF IndInv, EndInv, ServerReleased, ServerEnded, T2gActive
<1>4. OpenInv' BY DEF IndInv, OpenInv
<1>5. UpInv' BY DEF IndInv, UpInv, CleanUpload
<1>6. DownInv' BY <1>e DEF IndInv, DownInv, CleanDownload
<1>7. FarewellInv' BY <1>e DEF IndInv, FarewellInv, NoSilentTruncation
<1> QED BY <1>1, <1>2, <1>3, <1>4, <1>5, <1>6, <1>7 DEF IndInv

\* What is known while relay_grpc waits for OpenResult.
LEMMA OpeningFacts ==
  ASSUME IndInv, cpc = "opening"
  PROVE  /\ Listening /\ Offset = 1 /\ l2g = "none" /\ app.got = <<>> /\ Len(app.got) = 0
         /\ req.end # "end" /\ why # "end"
         /\ DownQueueOK(rsp.q, Len(app.got), 1, tgt, t2g)
<1>1. Listening /\ Offset = 1 BY DEF Listening, Offset
<1>2. l2g = "none" /\ app.got = <<>> BY DEF IndInv, PhaseInv
<1>3. ~ClientEnded BY DEF ClientEnded, ClientResults
<1>4. req.end # "end" /\ why # "end" BY <1>3 DEF IndInv, EndInv, LocalOpen
<1> QED BY <1>1, <1>2, <1>4 DEF IndInv, DownInv

\* What is known while relay_grpc relays.
LEMMA RelayingFacts ==
  ASSUME IndInv, cpc = "relaying"
  PROVE  /\ Listening /\ Offset = 0 /\ l2g # "none" /\ t2g # "none" /\ ~Early
         /\ req.end # "end" /\ why # "end"
         /\ DownQueueOK(rsp.q, Len(app.got), 0, tgt, t2g)
<1>1. Listening /\ Offset = 0 BY DEF Listening, Offset
<1>2. l2g # "none" /\ t2g # "none" /\ ~Early BY DEF IndInv, PhaseInv
<1>3. ~ClientEnded BY DEF ClientEnded, ClientResults
<1>4. req.end # "end" /\ why # "end" BY <1>3 DEF IndInv, EndInv, LocalOpen
<1> QED BY <1>1, <1>2, <1>4 DEF IndInv, DownInv

\* OpenResult starts the relay; anything else ends relay_grpc.
LEMMA ClientOpenReplyStep ==
  ASSUME IndInv, ClientOpenReply, UNCHANGED serverVars
  PROVE  IndInv'
<1>t. /\ TypeOK /\ tgt \in Peers /\ rsp \in Directions(ServerTypes)
      /\ Len(app.got) \in Nat /\ Len(rsp.q) \in Nat /\ tgt.taken \in Nat
  BY TypeFacts DEF IndInv
<1>u. /\ cpc = "opening" /\ rsp.q # <<>> /\ UNCHANGED <<app, req, serverVars>>
      /\ cpc' = OpenVerdict(Head(rsp.q)) /\ l2g' = IF cpc' = "relaying" THEN "run" ELSE "none"
      /\ rsp' = Popped(rsp)
  BY DEF ClientOpenReply
<1>o. /\ Listening /\ Offset = 1 /\ l2g = "none" /\ app.got = <<>> /\ Len(app.got) = 0
      /\ req.end # "end" /\ why # "end"
      /\ DownQueueOK(rsp.q, Len(app.got), 1, tgt, t2g)
  BY <1>u, OpeningFacts
<1>p. /\ rsp' \in Directions(ServerTypes) /\ rsp'.end = rsp.end /\ rsp'.q = Tail(rsp.q)
      /\ rsp.q \in Seq(Frames(ServerTypes)) /\ Head(rsp.q) = rsp.q[1]
      /\ Head(rsp.q) \in Frames(ServerTypes)
  BY <1>t, <1>u, PoppedFacts
<1>n. ~Early BY <1>u DEF IndInv, PhaseInv
<1>h. rsp.q[1].type \in {"OpenResult", "Reset"} BY <1>t, <1>u, <1>o, <1>p, DownHead
<1>1. CASE rsp.q[1].type = "OpenResult" /\ rsp.q[1].n = 1
  <2>c. cpc' = "relaying" /\ l2g' = "run" BY <1>1, <1>u, <1>p DEF OpenVerdict
  <2>d. t2g # "none" /\ DownQueueOK(rsp'.q, Len(app.got), 0, tgt, t2g)
    BY <1>1, <1>t, <1>u, <1>o, <1>p, DownPopOpen
  <2>r. NoReset(rsp'.q) => NoReset(rsp.q) BY <1>1, <1>u, <1>p, ResetStays
  <2>l. Len(rsp'.q) = Len(rsp.q) - 1 BY <1>u, <1>p, TailFacts
  <2>1. TypeOK' BY <1>t, <1>u, <1>p, <2>c DEF TypeOK, ClientTypeOK, ServerTypeOK, TaskStates
  <2>2. PhaseInv' BY <1>u, <1>n, <2>c, <2>d DEF IndInv, PhaseInv, Early, NoProtocolError
  <2>3. EndInv'
    BY <1>u, <1>o, <1>p, <2>c DEF IndInv, EndInv, ServerReleased, ServerEnded, T2gActive
  <2>4. OpenInv' BY <1>u DEF IndInv, OpenInv
  <2>5. UpInv'
    <3>1. spc = "relay" => UpQueueOK(req.q, Len(tgt.got), app, "run")
      BY <1>o, UpTask DEF IndInv, UpInv
    <3> QED BY <1>u, <1>o, <2>c, <3>1 DEF IndInv, UpInv, CleanUpload
  <2>6. DownInv'
    <3>1. Offset' = 0 /\ Listening' BY <2>c DEF Offset, Listening
    <3>2. T2gActive /\ Alive(rsp)' /\ NoReset(rsp'.q) => Len(app.got) + Len(rsp'.q) = tgt.taken + 0
      <4>1. SUFFICES ASSUME T2gActive, Alive(rsp)', NoReset(rsp'.q)
                     PROVE  Len(app.got) + Len(rsp'.q) = tgt.taken + 0
        OBVIOUS
      <4>2. Len(app.got) + Len(rsp.q) = tgt.taken + 1
        BY <1>o, <1>p, <2>r, <4>1 DEF IndInv, DownInv, Alive
      <4> DEFINE a == Len(app.got)  b == Len(rsp.q)  c == tgt.taken  d == Len(rsp'.q)
      <4>3. a \in Nat /\ b \in Nat /\ c \in Nat /\ d = b - 1 /\ a + b = c + 1
        BY <1>t, <2>l, <4>2
      <4> HIDE DEF a, b, c, d
      <4>4. a + d = c + 0 BY <4>3
      <4> QED BY <4>4 DEF a, c, d
    <3> QED BY <1>u, <2>c, <2>d, <3>1, <3>2 DEF IndInv, DownInv, T2gActive, CleanDownload
  <2>7. FarewellInv'
    BY <1>u, <1>o, <1>p, <2>c, <2>r DEF IndInv, FarewellInv, NoSilentTruncation, ServerEnded, Alive
  <2> QED BY <2>1, <2>2, <2>3, <2>4, <2>5, <2>6, <2>7 DEF IndInv
<1>2. CASE ~(rsp.q[1].type = "OpenResult" /\ rsp.q[1].n = 1)
  <2>1. cpc' \in {"refused", "reset"} BY <1>2, <1>u, <1>p, <1>h DEF OpenVerdict
  <2>2. l2g' = l2g BY <1>u, <1>o, <2>1
  <2> QED BY <1>u, <1>o, <1>p, <1>n, <2>1, <2>2, ClientStops
<1> QED BY <1>1, <1>2

\* The stream ends or fails before OpenResult.
LEMMA ClientOpenFailsStep ==
  ASSUME IndInv, ClientOpenFails, UNCHANGED serverVars
  PROVE  IndInv'
<1>1. cpc = "opening" /\ cpc' \in {"refused", "lost"} /\ UNCHANGED <<app, l2g, req, rsp>>
  BY DEF ClientOpenFails
<1>2. Listening BY <1>1 DEF Listening
<1>3. rsp' \in Directions(ServerTypes) /\ (Early => rsp'.q = <<>>)
  BY <1>1, TypeFacts DEF IndInv, PhaseInv
<1> QED BY <1>1, <1>2, <1>3, ClientStops

\* A Data frame is the next chunk for the application.
LEMMA ClientDataStep ==
  ASSUME IndInv, ClientData, UNCHANGED serverVars
  PROVE  IndInv'
<1>t. /\ TypeOK /\ app \in Peers /\ tgt \in Peers /\ rsp \in Directions(ServerTypes)
      /\ app.got \in Seq(Nat) /\ Len(app.got) \in Nat /\ Len(rsp.q) \in Nat
      /\ tgt.taken \in Nat /\ app.taken \in Nat
  BY TypeFacts DEF IndInv
<1>u. /\ cpc = "relaying" /\ rsp.q # <<>> /\ Head(rsp.q).type = "Data"
      /\ UNCHANGED <<l2g, req, serverVars>> /\ rsp' = Popped(rsp)
  BY DEF ClientData, HasFrame
<1>o. /\ Listening /\ Offset = 0 /\ l2g # "none" /\ t2g # "none" /\ ~Early
      /\ req.end # "end" /\ why # "end"
      /\ DownQueueOK(rsp.q, Len(app.got), 0, tgt, t2g)
  BY <1>u, RelayingFacts
<1>p. /\ rsp' \in Directions(ServerTypes) /\ rsp'.end = rsp.end /\ rsp'.q = Tail(rsp.q)
      /\ rsp.q \in Seq(Frames(ServerTypes)) /\ Head(rsp.q) = rsp.q[1]
  BY <1>t, <1>u, PoppedFacts
<1>1. CASE app' = Wrote(app, Head(rsp.q).n) /\ cpc' = cpc
  <2>d. /\ Head(rsp.q).n = Len(app.got) + 1 /\ Len(app.got) + 1 <= tgt.taken
        /\ DownQueueOK(rsp'.q, Len(app.got) + 1, 0, tgt, t2g)
    BY <1>t, <1>u, <1>o, <1>p, DownPop
  <2>w. /\ app' \in Peers /\ app'.sent = app.sent /\ app'.taken = app.taken
        /\ app'.fin = app.fin /\ app'.gone = app.gone
        /\ app'.got = Append(app.got, Len(app.got) + 1)
    <3>1. Len(app.got) + 1 \in Nat /\ app' = Wrote(app, Len(app.got) + 1) BY <1>1, <1>t, <2>d
    <3> QED BY <1>t, <3>1, WroteFacts
  <2>g. Len(app'.got) = Len(app.got) + 1 BY <1>t, <2>w, AppendFacts
  <2>r. NoReset(rsp'.q) => NoReset(rsp.q) BY <1>u, <1>p, ResetStays
  <2>l. Len(rsp'.q) = Len(rsp.q) - 1 BY <1>u, <1>p, TailFacts
  <2>1. TypeOK' BY <1>1, <1>t, <1>u, <1>p, <2>w DEF TypeOK, ClientTypeOK, ServerTypeOK
  <2>2. PhaseInv' BY <1>1, <1>u, <1>o DEF IndInv, PhaseInv, Early, NoProtocolError
  <2>3. EndInv'
    BY <1>1, <1>u, <1>o, <1>p, <2>w DEF IndInv, EndInv, ServerReleased, ServerEnded, T2gActive
  <2>4. OpenInv' BY <1>u, <2>w DEF IndInv, OpenInv
  <2>5. UpInv'
    <3>1. spc = "relay" => UpQueueOK(req.q, Len(tgt.got), app', l2g)
      BY <2>w, UpPeer DEF IndInv, UpInv
    <3> QED BY <1>u, <2>w, <3>1 DEF IndInv, UpInv, CleanUpload
  <2>6. DownInv'
    <3>1. Offset' = 0 BY <1>1, <1>u DEF Offset
    <3>2. InOrder(app'.got, tgt.taken) BY <1>t, <2>d, <2>w, InOrderAppend DEF IndInv, DownInv
    <3>3. T2gActive /\ Alive(rsp)' /\ NoReset(rsp'.q) => Len(app'.got) + Len(rsp'.q) = tgt.taken + 0
      <4>1. SUFFICES ASSUME T2gActive, Alive(rsp)', NoReset(rsp'.q)
                     PROVE  Len(app'.got) + Len(rsp'.q) = tgt.taken + 0
        OBVIOUS
      <4>2. Len(app.got) + Len(rsp.q) = tgt.taken + 0
        BY <1>o, <1>p, <2>r, <4>1 DEF IndInv, DownInv, Alive
      <4> DEFINE a == Len(app.got)  b == Len(rsp.q)  c == tgt.taken
                 d == Len(rsp'.q)   e == Len(app'.got)
      <4>3. a \in Nat /\ b \in Nat /\ c \in Nat /\ d = b - 1 /\ e = a + 1 /\ a + b = c + 0
        BY <1>t, <2>g, <2>l, <4>2
      <4> HIDE DEF a, b, c, d, e
      <4>4. e + d = c + 0 BY <4>3
      <4> QED BY <4>4 DEF c, d, e
    <3>4. CleanDownload' BY <1>1, <1>u DEF CleanDownload
    <3> QED BY <1>u, <2>d, <2>g, <3>1, <3>2, <3>3, <3>4 DEF IndInv, DownInv, T2gActive
  <2>7. FarewellInv'
    BY <1>1, <1>u, <1>o, <1>p, <2>r
    DEF IndInv, FarewellInv, NoSilentTruncation, ServerEnded, Alive
  <2> QED BY <2>1, <2>2, <2>3, <2>4, <2>5, <2>6, <2>7 DEF IndInv
<1>2. CASE app' = app /\ cpc' = "io"
  BY <1>2, <1>u, <1>o, <1>p, ClientStops
<1> QED BY <1>1, <1>2 DEF ClientData

\* relay_grpc leaves its loop with Ok(()) and aborts local_to_grpc.
LEMMA ClientReturnsOk ==
  ASSUME IndInv, cpc = "relaying", cpc' \in {"closed", "stopped"}, l2g' = Aborted(l2g),
         UNCHANGED <<app, req, serverVars>>,
         rsp' \in Directions(ServerTypes), rsp'.end = rsp.end,
         cpc' = "closed" => tgt.fin /\ Len(app.got) = tgt.sent,
         cpc' = "stopped" => app.gone
  PROVE  IndInv'
<1>t. TypeOK BY DEF IndInv
<1>o. l2g # "none" /\ t2g # "none" /\ ~Early /\ req.end # "end" /\ why # "end"
  BY RelayingFacts
<1>e. /\ cpc' # "opening" /\ cpc' # "relaying" /\ ClientEnded' /\ ~Listening' /\ ~Early'
      /\ l2g' # "none" /\ (l2g' # "exit" => l2g # "exit")
  BY <1>o DEF ClientEnded, ClientResults, Listening, Aborted, Early
<1>1. TypeOK'
  BY <1>t DEF TypeOK, ClientTypeOK, ServerTypeOK, ClientResults, Aborted, TaskStates
<1>2. PhaseInv' BY <1>o, <1>e DEF IndInv, PhaseInv, NoProtocolError
<1>3. EndInv' BY <1>o, <1>e DEF IndInv, EndInv, ServerReleased, ServerEnded, T2gActive
<1>4. OpenInv' BY DEF IndInv, OpenInv
<1>5. UpInv'
  <2>1. spc = "relay" => UpQueueOK(req.q, Len(tgt.got), app, l2g')
    <3>1. CASE l2g = "run" BY <3>1, UpTask DEF IndInv, UpInv
    <3>2. CASE l2g # "run" BY <3>2 DEF IndInv, UpInv, Aborted
    <3> QED BY <3>1, <3>2
  <2> QED BY <1>e, <2>1 DEF IndInv, UpInv, CleanUpload
<1>6. DownInv' BY <1>e DEF IndInv, DownInv, CleanDownload
<1>7. FarewellInv' BY <1>e DEF IndInv, FarewellInv, NoSilentTruncation
<1> QED BY <1>1, <1>2, <1>3, <1>4, <1>5, <1>6, <1>7 DEF IndInv

\* A HalfClose frame says that the target closed and all its chunks are here.
LEMMA ClientHalfCloseStep ==
  ASSUME IndInv, ClientHalfClose, UNCHANGED serverVars
  PROVE  IndInv'
<1>t. /\ tgt \in Peers /\ rsp \in Directions(ServerTypes) /\ Len(app.got) \in Nat
  BY TypeFacts DEF IndInv
<1>u. /\ cpc = "relaying" /\ rsp.q # <<>> /\ Head(rsp.q).type = "HalfClose"
      /\ UNCHANGED <<app, req, serverVars>> /\ rsp' = Popped(rsp)
  BY DEF ClientHalfClose, HasFrame
<1>o. Listening /\ ~Early /\ DownQueueOK(rsp.q, Len(app.got), 0, tgt, t2g)
  BY <1>u, RelayingFacts
<1>p. /\ rsp' \in Directions(ServerTypes) /\ rsp'.end = rsp.end
      /\ rsp.q \in Seq(Frames(ServerTypes)) /\ Head(rsp.q) = rsp.q[1]
  BY <1>t, <1>u, PoppedFacts
<1>h. AtEof(tgt) /\ Len(app.got) = tgt.taken
  BY <1>t, <1>u, <1>o, <1>p, DownHead
<1>1. CASE cpc' = "closed" /\ l2g' = Aborted(l2g)
  BY <1>1, <1>u, <1>p, <1>h, ClientReturnsOk DEF AtEof
<1>2. CASE cpc' = "io" /\ l2g' = l2g
  BY <1>2, <1>u, <1>o, <1>p, ClientStops
<1> QED BY <1>1, <1>2 DEF ClientHalfClose

\* A Reset ends relay_grpc; the other frames it bails out on do not occur.
LEMMA ClientBailStep ==
  ASSUME IndInv, ClientBail \/ ClientPong, UNCHANGED serverVars
  PROVE  IndInv'
<1>t. /\ tgt \in Peers /\ rsp \in Directions(ServerTypes) /\ Len(app.got) \in Nat
  BY TypeFacts DEF IndInv
<1>u. /\ cpc = "relaying" /\ rsp.q # <<>>
      /\ Head(rsp.q).type \in {"Reset", "OpenResult", "Empty", "Pong"}
      /\ UNCHANGED <<app, l2g, req, serverVars>> /\ rsp' = Popped(rsp)
  BY DEF ClientBail, ClientPong, HasFrame
<1>o. Listening /\ ~Early /\ DownQueueOK(rsp.q, Len(app.got), 0, tgt, t2g)
  BY <1>u, RelayingFacts
<1>p. /\ rsp' \in Directions(ServerTypes) /\ rsp'.end = rsp.end
      /\ rsp.q \in Seq(Frames(ServerTypes)) /\ Head(rsp.q) = rsp.q[1]
  BY <1>t, <1>u, PoppedFacts
<1>h. Head(rsp.q).type = "Reset" BY <1>t, <1>u, <1>o, <1>p, DownHead
<1>1. cpc' = "reset" BY <1>h DEF ClientBail, ClientPong, HasFrame
<1> QED BY <1>u, <1>o, <1>p, <1>1, ClientStops

\* A response that just ends follows the Reset the client itself sent.
LEMMA ClientStreamEndStep ==
  ASSUME IndInv, ClientStreamEnd, UNCHANGED serverVars
  PROVE  IndInv'
<1>u. /\ cpc = "relaying" /\ rsp.q = <<>> /\ UNCHANGED <<app, req, rsp, serverVars>>
  BY DEF ClientStreamEnd, AtEnd, AtErr
<1>o. Listening /\ ~Early /\ t2g # "none" BY <1>u, RelayingFacts
<1>p. rsp' \in Directions(ServerTypes) /\ rsp'.end = rsp.end BY <1>u, TypeFacts DEF IndInv
<1>1. CASE AtEnd(rsp) /\ cpc' = "stopped" /\ l2g' = Aborted(l2g)
  <2>1. ServerEnded /\ Alive(rsp)
    BY <1>1 DEF IndInv, EndInv, AtEnd, Alive, ServerReleased
  <2>2. NoReset(rsp.q) BY <1>u DEF NoReset
  <2>3. app.gone BY <1>o, <2>1, <2>2 DEF IndInv, FarewellInv, EndInv
  <2> QED BY <1>1, <1>u, <1>p, <2>3, ClientReturnsOk
<1>2. CASE cpc' = "lost" /\ l2g' = l2g
  BY <1>2, <1>u, <1>o, <1>p, ClientStops
<1> QED BY <1>1, <1>2 DEF ClientStreamEnd

(***************************************************************************)
(* local_to_grpc.                                                          *)
(***************************************************************************)

\* A step of local_to_grpc is harmless when the request queue stays right.
LEMMA L2gKeeps ==
  ASSUME IndInv, L2gActive, UNCHANGED <<cpc, rsp, serverVars>>,
         req' \in Directions(ClientTypes), req'.end = req.end,
         app' = app \/ (Readable(app) /\ app' = Taken(app)),
         l2g' \in {l2g, "exit"},
         spc = "relay" => UpQueueOK(req'.q, Len(tgt.got), app', l2g'),
         spc = "relay" /\ l2g' # "exit" /\ Alive(req') =>
           Len(tgt.got) + Len(req'.q) = app'.taken
  PROVE  IndInv'
<1>t. TypeOK /\ app \in Peers /\ app.taken \in Nat /\ app.sent \in Nat
  BY TypeFacts DEF IndInv
<1>a. /\ app' \in Peers /\ app'.got = app.got /\ app'.sent = app.sent
      /\ app'.fin = app.fin /\ app'.gone = app.gone
  BY <1>t, TakenFacts
<1>b. app'.taken \in Nat /\ app.taken <= app'.taken /\ app'.taken <= app'.sent
  <2>1. CASE app' = app BY <1>t, <2>1 DEF IndInv, UpInv
  <2>2. CASE Readable(app) /\ app' = Taken(app)
    <3>1. app'.taken = app.taken + 1 /\ app.taken < app.sent
      BY <1>t, <2>2, TakenFacts DEF Readable
    <3> DEFINE a == app.taken  b == app.sent  c == app'.taken
    <3>2. a \in Nat /\ b \in Nat /\ c = a + 1 /\ a < b BY <1>t, <3>1
    <3> HIDE DEF a, b, c
    <3>3. c \in Nat /\ a <= c /\ c <= b BY <3>2
    <3> QED BY <1>a, <3>3 DEF a, b, c
  <2> QED BY <2>1, <2>2
<1>o. /\ t2g # "none" /\ ~Early /\ cpc # "opening" /\ req.end # "end" /\ l2g' # "none"
  BY DEF IndInv, PhaseInv, EndInv, L2gActive, LocalOpen
<1>1. TypeOK' BY <1>t, <1>a DEF TypeOK, ClientTypeOK, ServerTypeOK, TaskStates
<1>2. PhaseInv' BY <1>a, <1>o DEF IndInv, PhaseInv, NoProtocolError, Early
<1>3. EndInv'
  BY <1>a, <1>o DEF IndInv, EndInv, ServerReleased, ServerEnded, T2gActive, ClientEnded
<1>4. OpenInv' BY <1>o DEF OpenInv, Early
<1>5. UpInv'
  <2>1. InOrder(tgt.got, app'.taken)
    BY <1>t, <1>b, TypeFacts, InOrderMore DEF IndInv, UpInv
  <2>2. CleanUpload' BY <1>a DEF IndInv, UpInv, CleanUpload
  <2> QED BY <1>b, <2>1, <2>2 DEF UpInv
<1>6. DownInv' BY <1>a DEF IndInv, DownInv, Listening, Offset, T2gActive, CleanDownload
<1>7. FarewellInv'
  BY <1>a DEF IndInv, FarewellInv, NoSilentTruncation, Listening, ServerEnded
<1> QED BY <1>1, <1>2, <1>3, <1>4, <1>5, <1>6, <1>7 DEF IndInv

\* The chunk that is read is the next one of the upload.
LEMMA L2gDataStep ==
  ASSUME IndInv, L2gData, UNCHANGED serverVars
  PROVE  IndInv'
<1>t. /\ req \in Directions(ClientTypes) /\ req.q \in Seq(Frames(ClientTypes))
      /\ app \in Peers /\ app.taken \in Nat /\ Len(tgt.got) \in Nat /\ Len(req.q) \in Nat
  BY TypeFacts DEF IndInv
<1>u. /\ L2gActive /\ Readable(app) /\ app' = Taken(app)
      /\ req' = Sent(req, Frame("Data", app.taken + 1))
      /\ l2g' \in {l2g, "exit"} /\ (l2g' # l2g => ~Alive(req))
      /\ UNCHANGED <<cpc, rsp, serverVars>>
  BY DEF L2gData
<1>f. Frame("Data", app.taken + 1) \in Frames(ClientTypes)
  BY <1>t DEF Frame, Frames, ClientTypes
<1>s. /\ req' \in Directions(ClientTypes) /\ req'.end = req.end
      /\ Alive(req) => req'.q = Append(req.q, Frame("Data", app.taken + 1))
      /\ ~Alive(req) => req' = req
  BY <1>t, <1>u, <1>f, SentFacts
<1>n. l2g # "exit" BY <1>u DEF L2gActive
<1>1. ASSUME spc = "relay" PROVE UpQueueOK(req'.q, Len(tgt.got), app', l2g')
  <2>1. UpQueueOK(req.q, Len(tgt.got), app, l2g) BY <1>1 DEF IndInv, UpInv
  <2>2. CASE Alive(req)
    <3>1. Len(tgt.got) + Len(req.q) = app.taken BY <1>1, <1>n, <2>2 DEF IndInv, UpInv
    <3> QED BY <1>t, <1>u, <1>f, <1>s, <1>n, <2>1, <2>2, <3>1, UpAppendData
  <2>3. CASE ~Alive(req) BY <1>t, <1>u, <1>s, <1>n, <2>1, <2>3, UpTaken
  <2> QED BY <2>2, <2>3
<1>2. ASSUME spc = "relay", l2g' # "exit", Alive(req')
      PROVE  Len(tgt.got) + Len(req'.q) = app'.taken
  <2>1. Alive(req) BY <1>2, <1>s DEF Alive
  <2>2. Len(tgt.got) + Len(req.q) = app.taken BY <1>2, <1>n, <2>1 DEF IndInv, UpInv
  <2>3. Len(req'.q) = Len(req.q) + 1 BY <1>t, <1>f, <1>s, <2>1, AppendFacts
  <2>4. app'.taken = app.taken + 1 BY <1>t, <1>u, TakenFacts
  <2> DEFINE a == Len(tgt.got)  b == Len(req.q)  c == app.taken
             d == Len(req'.q)   e == app'.taken
  <2>5. a \in Nat /\ b \in Nat /\ c \in Nat /\ d = b + 1 /\ e = c + 1 /\ a + b = c
    BY <1>t, <2>2, <2>3, <2>4
  <2> HIDE DEF a, b, c, d, e
  <2>6. a + d = e BY <2>5
  <2> QED BY <2>6 DEF a, d, e
<1> QED BY <1>u, <1>s, <1>1, <1>2, L2gKeeps

\* The last frame of local_to_grpc: HalfClose at EOF, Reset on an error.
LEMMA L2gLastStep ==
  ASSUME IndInv, L2gEof \/ L2gReadError, UNCHANGED serverVars
  PROVE  IndInv'
<1>t. /\ req \in Directions(ClientTypes) /\ req.q \in Seq(Frames(ClientTypes))
      /\ app \in Peers /\ Len(tgt.got) \in Nat
  BY TypeFacts DEF IndInv
<1>u. L2gActive /\ l2g' = "exit" /\ UNCHANGED <<app, cpc, rsp, serverVars>>
  BY DEF L2gEof, L2gReadError
<1>f. PICK f \in Frames(ClientTypes) :
        /\ req' = Sent(req, f)
        /\ \/ f.type = "HalfClose" /\ AtEof(app)
           \/ f.type = "Reset" /\ app.gone
  <2>1. CASE L2gEof
    <3>1. Frame("HalfClose", 0) \in Frames(ClientTypes) /\ Frame("HalfClose", 0).type = "HalfClose"
      BY DEF Frame, Frames, ClientTypes
    <3> QED BY <2>1, <3>1 DEF L2gEof
  <2>2. CASE L2gReadError
    <3>1. Frame("Reset", 0) \in Frames(ClientTypes) /\ Frame("Reset", 0).type = "Reset"
      BY DEF Frame, Frames, ClientTypes
    <3> QED BY <2>2, <3>1 DEF L2gReadError, Broken
  <2> QED BY <2>1, <2>2
<1>s. /\ req' \in Directions(ClientTypes) /\ req'.end = req.end
      /\ Alive(req) => req'.q = Append(req.q, f)
      /\ ~Alive(req) => req' = req
  BY <1>t, <1>f, SentFacts
<1>n. l2g # "exit" BY <1>u DEF L2gActive
<1>1. ASSUME spc = "relay" PROVE UpQueueOK(req'.q, Len(tgt.got), app', l2g')
  <2>1. UpQueueOK(req.q, Len(tgt.got), app, l2g) BY <1>1 DEF IndInv, UpInv
  <2>2. CASE Alive(req)
    <3>1. Len(tgt.got) + Len(req.q) = app.taken BY <1>1, <1>n, <2>2 DEF IndInv, UpInv
    <3> QED BY <1>t, <1>u, <1>f, <1>s, <1>n, <2>1, <2>2, <3>1, UpAppendLast
  <2>3. CASE ~Alive(req) BY <1>t, <1>u, <1>s, <1>n, <2>1, <2>3, UpTask
  <2> QED BY <2>2, <2>3
<1> QED BY <1>u, <1>s, <1>1, L2gKeeps

\* The aborted task is dropped without a last frame.
LEMMA L2gDroppedStep ==
  ASSUME IndInv, L2gDropped, UNCHANGED serverVars
  PROVE  IndInv'
<1>u. L2gActive /\ l2g # "exit" /\ l2g' = "exit" /\ UNCHANGED <<app, cpc, req, rsp, serverVars>>
  BY DEF L2gDropped, L2gActive
<1>1. spc = "relay" => UpQueueOK(req.q, Len(tgt.got), app, "exit")
  BY <1>u, UpTask DEF IndInv, UpInv
<1>2. req \in Directions(ClientTypes) BY TypeFacts DEF IndInv
<1> QED BY <1>u, <1>1, <1>2, L2gKeeps

(***************************************************************************)
(* The client's HTTP/2 layer.                                              *)
(***************************************************************************)

\* A request that ends or is cancelled has no sender left.
LEMMA FinishRequestStep ==
  ASSUME IndInv, FinishRequest, UNCHANGED serverVars
  PROVE  IndInv'
<1>t. /\ TypeOK /\ req \in Directions(ClientTypes) /\ req.q \in Seq(Frames(ClientTypes))
  BY TypeFacts DEF IndInv
<1>u. ~LocalOpen /\ req.end = "open" /\ UNCHANGED <<app, cpc, l2g, rsp, serverVars>>
  BY DEF FinishRequest
<1>r. req' = Ended(req) \/ req' \in CutsOf(req) BY DEF FinishRequest
<1>s. /\ req' \in Directions(ClientTypes)
      /\ \/ req'.end = "end" /\ req'.q = req.q
         \/ req'.end = "err" /\ \E m \in 0..Len(req.q) : req'.q = SubSeq(req.q, 1, m)
  <2>1. CASE req' = Ended(req) BY <1>t, <2>1 DEF Ended, Directions
  <2>2. CASE req' \in CutsOf(req) BY <1>t, <2>2, CutFacts
  <2> QED BY <1>r, <2>1, <2>2
<1>1. TypeOK' BY <1>t, <1>u, <1>s DEF TypeOK, ClientTypeOK, ServerTypeOK
<1>2. PhaseInv' BY <1>u DEF IndInv, PhaseInv, Early, NoProtocolError
<1>3. EndInv'
  BY <1>u DEF IndInv, EndInv, LocalOpen, L2gActive, ClientEnded, ServerReleased, ServerEnded, T2gActive
<1>4. OpenInv'
  <2>1. req.q = <<>> => req'.q = <<>> BY <1>t, <1>s, EmptyPrefix
  <2>2. ASSUME NEW f, req.q = <<f>> PROVE req'.q \in {<<>>, <<f>>}
    BY <1>t, <1>s, <2>2, UnitPrefix
  <2> QED BY <1>u, <2>1, <2>2 DEF IndInv, OpenInv
<1>5. UpInv'
  <2>1. spc = "relay" => UpQueueOK(req'.q, Len(tgt.got), app, l2g)
    BY <1>t, <1>s, UpPrefix DEF IndInv, UpInv
  <2>2. Alive(req') => Alive(req) /\ req'.q = req.q BY <1>u, <1>s DEF Alive
  <2> QED BY <1>u, <2>1, <2>2 DEF IndInv, UpInv, CleanUpload
<1>6. DownInv' BY <1>u DEF IndInv, DownInv, Listening, Offset, T2gActive, CleanDownload
<1>7. FarewellInv'
  BY <1>u DEF IndInv, FarewellInv, NoSilentTruncation, Listening, ServerEnded
<1> QED BY <1>1, <1>2, <1>3, <1>4, <1>5, <1>6, <1>7 DEF IndInv

\* Nobody reads the response that is dropped.
LEMMA DropResponseStep ==
  ASSUME IndInv, DropResponse, UNCHANGED serverVars
  PROVE  IndInv'
<1>t. /\ TypeOK /\ rsp \in Directions(ServerTypes) /\ rsp.q \in Seq(Frames(ServerTypes))
      /\ Len(rsp.q) \in Nat
  BY TypeFacts DEF IndInv
<1>u. ClientEnded /\ UNCHANGED <<app, cpc, l2g, req, serverVars>> /\ rsp' = Cut(rsp, 0)
  BY DEF DropResponse
<1>s. /\ rsp' \in Directions(ServerTypes) /\ rsp'.end = "err"
      /\ \E m \in 0..Len(rsp.q) : rsp'.q = SubSeq(rsp.q, 1, m)
  <2>1. Cut(rsp, 0) \in CutsOf(rsp) BY <1>t DEF CutsOf
  <2> QED BY <1>t, <1>u, <2>1, CutFacts
<1>e. ~Listening' BY <1>u DEF Listening, ClientEnded, ClientResults
<1>1. TypeOK' BY <1>t, <1>u, <1>s DEF TypeOK, ClientTypeOK, ServerTypeOK
<1>2. PhaseInv'
  <2>1. rsp.q = <<>> => rsp'.q = <<>> BY <1>t, <1>s, EmptyPrefix
  <2> QED BY <1>u, <2>1 DEF IndInv, PhaseInv, Early, NoProtocolError
<1>3. EndInv' BY <1>u, <1>s DEF IndInv, EndInv, LocalOpen, L2gActive, ClientEnded
<1>4. OpenInv' BY <1>u DEF IndInv, OpenInv
<1>5. UpInv' BY <1>u DEF IndInv, UpInv, CleanUpload
<1>6. DownInv' BY <1>u, <1>e DEF IndInv, DownInv, CleanDownload
<1>7. FarewellInv' BY <1>u, <1>e DEF IndInv, FarewellInv, NoSilentTruncation
<1> QED BY <1>1, <1>2, <1>3, <1>4, <1>5, <1>6, <1>7 DEF IndInv

\* Every step of the client preserves the invariant.
LEMMA ClientStep ==
  ASSUME IndInv, Client
  PROVE  IndInv'
<1>1. ClientNext /\ UNCHANGED serverVars BY DEF Client
<1>2. CASE ClientMain
  BY <1>1, <1>2, ClientOpenReplyStep, ClientOpenFailsStep, ClientDataStep,
     ClientHalfCloseStep, ClientBailStep, ClientStreamEndStep
  DEF ClientMain
<1>3. CASE L2gStep \/ L2gDropped
  BY <1>1, <1>3, L2gDataStep, L2gLastStep, L2gDroppedStep DEF L2gStep
<1>4. CASE ClientTransport
  BY <1>1, <1>4, FinishRequestStep, DropResponseStep DEF ClientTransport
<1> QED BY <1>1, <1>2, <1>3, <1>4 DEF ClientNext

-----------------------------------------------------------------------------
(***************************************************************************)
(* The inductive invariant of Tunnel is preserved by the steps of tunnel,  *)
(* handle_tunnel and target_to_grpc: one lemma per action, resting on what *)
(* the ways of leaving handle_tunnel have in common.                       *)
(***************************************************************************)

\* What is known before handle_tunnel has answered Open.
LEMMA EarlyFacts ==
  ASSUME IndInv, Early
  PROVE  /\ rsp.q = <<>> /\ t2g = "none" /\ cpc # "relaying" /\ app.taken \in {0, 1}
         /\ tgt = NewPeer(0) /\ wshut = "open" /\ l2g = "none" /\ app.got = <<>>
         /\ Len(app.got) = 0 /\ cpc \notin {"relaying", "closed", "stopped"}
<1>1. /\ rsp.q = <<>> /\ t2g = "none" /\ cpc # "relaying" /\ app.taken \in {0, 1}
  BY DEF IndInv, PhaseInv
<1>2. /\ tgt = NewPeer(0) /\ wshut = "open" /\ l2g = "none" /\ app.got = <<>>
      /\ cpc \notin {"relaying", "closed", "stopped"}
  BY <1>1 DEF IndInv, PhaseInv
<1>3. Len(app.got) = 0 BY <1>2
<1> QED BY <1>1, <1>2, <1>3

\* A running handler keeps the response open.
LEMMA RunningFacts ==
  ASSUME IndInv, spc # "ended"
  PROVE  rsp.end # "end"
  BY DEF IndInv, EndInv, ServerReleased, ServerEnded

\* handle_tunnel is done: the response is right, and says so if it must.
LEMMA ServerEnds ==
  ASSUME IndInv, spc # "ended", spc' = "ended",
         held' \in Frames({"Open", "Reset", "Pong", "Empty"}),
         t2g' = t2g \/ (t2g = "run" /\ t2g' = "aborting"),
         wshut' \in {wshut, Shut},
         why' \in ServerReasons, why' # "protocol",
         why' = "end" => ClientEnded, why' = "reset" => app.gone,
         UNCHANGED <<tgt, clientVars>>,
         req' \in Directions(ClientTypes), req'.end = req.end,
         rsp' \in Directions(ServerTypes), rsp'.end \in {rsp.end, "err"},
         Listening => DownQueueOK(rsp'.q, Len(app.got), Offset, tgt, t2g'),
         Listening /\ T2gActive /\ Alive(rsp') /\ NoReset(rsp'.q) =>
           Len(app.got) + Len(rsp'.q) = tgt.taken + Offset,
         Listening /\ t2g' # "none" /\ Alive(rsp') => why' = "reset" \/ ~NoReset(rsp'.q)
  PROVE  IndInv'
<1>t. TypeOK BY DEF IndInv
<1>o. rsp'.end # "end" BY RunningFacts
<1>w. /\ wshut' \in {"open", "clean", "cut"} /\ (wshut' = "clean" => wshut = "clean")
      /\ t2g' = "none" => t2g = "none" /\ wshut' = wshut
      /\ t2g' \in {"none", "run", "aborting", "exit"}
  BY <1>t DEF TypeOK, ServerTypeOK, Shut, Connected
<1>1. TypeOK' BY <1>t, <1>w DEF TypeOK, ClientTypeOK, ServerTypeOK
<1>2. PhaseInv' BY <1>w DEF IndInv, PhaseInv, Early, NoProtocolError
<1>3. EndInv' BY <1>o DEF IndInv, EndInv, LocalOpen, ClientEnded, L2gActive
<1>4. OpenInv' BY DEF OpenInv
<1>5. UpInv' BY <1>w DEF IndInv, UpInv, CleanUpload
<1>6. DownInv'
  <2>1. T2gActive' => T2gActive BY DEF T2gActive
  <2> QED BY <2>1 DEF IndInv, DownInv, Listening, Offset, CleanDownload
<1>7. FarewellInv' BY DEF IndInv, FarewellInv, NoSilentTruncation, Listening
<1> QED BY <1>1, <1>2, <1>3, <1>4, <1>5, <1>6, <1>7 DEF IndInv

\* handle_tunnel returns without a word.
LEMMA ServerReturns ==
  ASSUME IndInv, spc # "ended", Return, why' \in {"end", "reset"},
         why' = "end" => ClientEnded, why' = "reset" => app.gone,
         UNCHANGED <<tgt, rsp, clientVars>>,
         req' \in Directions(ClientTypes), req'.end = req.end
  PROVE  IndInv'
<1>1. /\ spc' = "ended" /\ held' \in Frames({"Open", "Reset", "Pong", "Empty"})
      /\ wshut' = Shut /\ t2g' = IF t2g = "run" THEN "aborting" ELSE t2g
  BY DEF Return, NoFrame, Frame, Frames
<1>2. ASSUME Listening PROVE DownQueueOK(rsp.q, Len(app.got), Offset, tgt, t2g')
  <2>1. DownQueueOK(rsp.q, Len(app.got), Offset, tgt, t2g) BY <1>2 DEF IndInv, DownInv
  <2>2. CASE t2g = "run" BY <1>1, <2>1, <2>2, DownTask
  <2>3. CASE t2g # "run" BY <1>1, <2>1, <2>3
  <2> QED BY <2>2, <2>3
<1>3. Listening /\ T2gActive /\ Alive(rsp) /\ NoReset(rsp.q) =>
        Len(app.got) + Len(rsp.q) = tgt.taken + Offset
  BY DEF IndInv, DownInv
<1>4. Listening => why' = "reset" BY DEF Listening, ClientEnded, ClientResults
<1>5. rsp' \in Directions(ServerTypes) /\ rsp'.end = rsp.end BY TypeFacts DEF IndInv
<1>6. why' \in ServerReasons BY DEF ServerReasons
<1> QED BY <1>1, <1>2, <1>3, <1>4, <1>5, <1>6, ServerEnds

\* handle_tunnel waits to send a Reset.
LEMMA ServerSendsReset ==
  ASSUME IndInv, spc # "ended", NEW reason \in {"timeout", "err", "write"}, SendReset(reason),
         wshut' \in {wshut, Shut}, UNCHANGED <<tgt, rsp, clientVars>>,
         req' \in Directions(ClientTypes), req'.end = req.end
  PROVE  IndInv'
<1>t. TypeOK BY DEF IndInv
<1>u. /\ spc' = "sending" /\ held' = Frame("Reset", 0) /\ why' = reason /\ t2g' = t2g
  BY DEF SendReset
<1>h. held' \in Frames({"Open", "Reset", "Pong", "Empty"}) /\ held'.type = "Reset"
  BY <1>u DEF Frame, Frames
<1>o. rsp.end # "end" BY RunningFacts
<1>w. /\ wshut' \in {"open", "clean", "cut"} /\ (wshut' = "clean" => wshut = "clean")
      /\ t2g' = "none" => wshut' = wshut
  BY <1>t, <1>u DEF TypeOK, ServerTypeOK, Shut, Connected
<1>1. TypeOK' BY <1>t, <1>u, <1>h, <1>w DEF TypeOK, ClientTypeOK, ServerTypeOK, ServerReasons
<1>2. PhaseInv' BY <1>u, <1>h, <1>w DEF IndInv, PhaseInv, Early, NoProtocolError
<1>3. EndInv' BY <1>u, <1>o DEF IndInv, EndInv, LocalOpen, ClientEnded, L2gActive
<1>4. OpenInv' BY <1>u DEF OpenInv
<1>5. UpInv' BY <1>u, <1>w DEF IndInv, UpInv, CleanUpload
<1>6. DownInv' BY <1>u DEF IndInv, DownInv, Listening, Offset, T2gActive, CleanDownload
<1>7. FarewellInv' BY <1>u DEF IndInv, FarewellInv, NoSilentTruncation, ServerEnded
<1> QED BY <1>1, <1>2, <1>3, <1>4, <1>5, <1>6, <1>7 DEF IndInv

-----------------------------------------------------------------------------
\* The token is accepted, or the call fails before any frame.
LEMMA ServerAuthStep ==
  ASSUME IndInv, ServerAuth, UNCHANGED clientVars
  PROVE  IndInv'
<1>t. /\ TypeOK /\ req \in Directions(ClientTypes) /\ rsp \in Directions(ServerTypes)
      /\ held \in Frames({"Open", "Reset", "Pong", "Empty"}) /\ Len(rsp.q) \in Nat
  BY TypeFacts DEF IndInv, TypeOK, ServerTypeOK
<1>u. spc = "auth" /\ UNCHANGED <<tgt, held, t2g, wshut, req, clientVars>> BY DEF ServerAuth
<1>e. Early /\ rsp.q = <<>> /\ t2g = "none" BY <1>u, EarlyFacts DEF Early
<1>1. CASE spc' = "first" /\ UNCHANGED <<rsp, why>>
  <2>0. Early' BY <1>1 DEF Early
  <2>1. TypeOK' BY <1>1, <1>t, <1>u DEF TypeOK, ClientTypeOK, ServerTypeOK
  <2>2. PhaseInv' BY <1>1, <1>u, <1>e DEF IndInv, PhaseInv, NoProtocolError
  <2>3. EndInv'
    BY <1>1, <1>u DEF IndInv, EndInv, LocalOpen, ClientEnded, L2gActive, ServerReleased, ServerEnded
  <2>4. OpenInv' BY <1>1, <1>u DEF IndInv, OpenInv
  <2>5. UpInv' BY <1>1, <1>u DEF IndInv, UpInv, CleanUpload
  <2>6. DownInv' BY <1>1, <1>u DEF IndInv, DownInv, Listening, Offset, T2gActive, CleanDownload
  <2>7. FarewellInv' BY <1>1, <1>u DEF IndInv, FarewellInv, NoSilentTruncation, ServerEnded
  <2> QED BY <2>1, <2>2, <2>3, <2>4, <2>5, <2>6, <2>7 DEF IndInv
<1>2. CASE spc' = "ended" /\ rsp' = Cut(rsp, 0) /\ why' = "auth"
  <2>1. Cut(rsp, 0) \in CutsOf(rsp) BY <1>t DEF CutsOf
  <2>2. /\ rsp' \in Directions(ServerTypes) /\ rsp'.end = "err" /\ rsp'.q = <<>>
    BY <1>2, <1>t, <1>e, <2>1, CutFacts, EmptyPrefix
  <2>3. DownQueueOK(rsp'.q, Len(app.got), Offset, tgt, t2g') BY <2>2 DEF DownQueueOK
  <2>4. ~Alive(rsp') BY <2>2 DEF Alive
  <2> QED BY <1>2, <1>t, <1>u, <2>2, <2>3, <2>4, ServerEnds DEF ServerReasons
<1> QED BY <1>1, <1>2 DEF ServerAuth

\* The first frame is the client's Open, and nothing stands behind it.
LEMMA ServerFirstFrameStep ==
  ASSUME IndInv, ServerFirstFrame, UNCHANGED clientVars
  PROVE  IndInv'
<1>t. /\ TypeOK /\ req \in Directions(ClientTypes) /\ app.taken \in Nat BY TypeFacts DEF IndInv
<1>u. /\ spc = "first" /\ req.q # <<>> /\ req' = Popped(req)
      /\ UNCHANGED <<tgt, t2g, wshut, clientVars>>
  BY DEF ServerFirstFrame
<1>e. Early BY <1>u DEF Early
<1>q. req.q = <<Frame("Open", app.taken)>> BY <1>u DEF IndInv, OpenInv
<1>p. /\ req' \in Directions(ClientTypes) /\ req'.end = req.end /\ req'.q = Tail(req.q)
  BY <1>t, <1>u, PoppedFacts
<1>h. Head(req.q) = Frame("Open", app.taken) /\ Tail(req.q) = <<>> BY <1>q
<1>s. spc' = "dial" /\ held' = Frame("Open", app.taken) /\ UNCHANGED <<rsp, why>>
  BY <1>h DEF ServerFirstFrame, Frame
<1>f. held' \in Frames({"Open", "Reset", "Pong", "Empty"})
  BY <1>t, <1>s DEF Frame, Frames
<1>1. TypeOK' BY <1>t, <1>u, <1>p, <1>s, <1>f DEF TypeOK, ClientTypeOK, ServerTypeOK
<1>2. PhaseInv' BY <1>u, <1>e, <1>s DEF IndInv, PhaseInv, NoProtocolError
<1>3. EndInv'
  BY <1>u, <1>p, <1>s
  DEF IndInv, EndInv, LocalOpen, ClientEnded, L2gActive, ServerReleased, ServerEnded
<1>4. OpenInv' BY <1>u, <1>p, <1>h, <1>s DEF OpenInv
<1>5. UpInv' BY <1>u, <1>s DEF IndInv, UpInv, CleanUpload
<1>6. DownInv' BY <1>u, <1>s DEF IndInv, DownInv, Listening, Offset, T2gActive, CleanDownload
<1>7. FarewellInv' BY <1>u, <1>s DEF IndInv, FarewellInv, NoSilentTruncation, ServerEnded
<1> QED BY <1>1, <1>2, <1>3, <1>4, <1>5, <1>6, <1>7 DEF IndInv

\* No Open arrives.
LEMMA ServerNoFirstFrameStep ==
  ASSUME IndInv, ServerNoFirstFrame, UNCHANGED clientVars
  PROVE  IndInv'
<1>u. spc = "first" /\ UNCHANGED <<tgt, req, rsp, clientVars>> BY DEF ServerNoFirstFrame
<1>t. req' \in Directions(ClientTypes) /\ req'.end = req.end BY <1>u, TypeFacts DEF IndInv
<1>1. CASE AtEnd(req) /\ Return /\ why' = "end"
  <2>1. ClientEnded BY <1>1 DEF IndInv, EndInv, AtEnd, LocalOpen
  <2> QED BY <1>1, <1>u, <1>t, <2>1, ServerReturns
<1>2. CASE SendReset("err") /\ wshut' = wshut BY <1>2, <1>u, <1>t, ServerSendsReset
<1>3. CASE SendReset("timeout") /\ wshut' = wshut BY <1>3, <1>u, <1>t, ServerSendsReset
<1> QED BY <1>1, <1>2, <1>3 DEF ServerNoFirstFrame

\* The target's first chunk is the payload of Open; OpenResult comes first.
LEMMA ServerDialStep ==
  ASSUME IndInv, ServerDial, UNCHANGED clientVars
  PROVE  IndInv'
<1>t. /\ TypeOK /\ req \in Directions(ClientTypes) /\ rsp \in Directions(ServerTypes)
      /\ rsp.q \in Seq(Frames(ServerTypes)) /\ tgt \in Peers /\ app.taken \in Nat
  BY TypeFacts DEF IndInv
<1>u. spc = "dial" /\ held' = NoFrame /\ UNCHANGED <<wshut, req, clientVars>> BY DEF ServerDial
<1>h. held' \in Frames({"Open", "Reset", "Pong", "Empty"}) BY <1>u DEF NoFrame, Frame, Frames
<1>e. /\ rsp.q = <<>> /\ t2g = "none" /\ app.taken \in {0, 1} /\ tgt = NewPeer(0)
      /\ wshut = "open" /\ app.got = <<>> /\ Len(app.got) = 0
      /\ cpc \notin {"relaying", "closed", "stopped"}
  BY <1>u, EarlyFacts DEF Early
<1>z. Len(rsp.q) = 0 BY <1>e
<1>l. Listening => Offset = 1 BY <1>e DEF Listening, Offset
<1>n. rsp.end # "end" BY <1>u, RunningFacts
<1>q. req.q = <<>> /\ held.n = app.taken BY <1>u DEF IndInv, OpenInv, Frame
<1>1. CASE /\ spc' = "relay" /\ tgt' = IF held.n = 0 THEN tgt ELSE Wrote(tgt, held.n)
           /\ rsp' = Sent(rsp, Frame("OpenResult", 1)) /\ t2g' = "run" /\ why' = why
  <2>f. Frame("OpenResult", 1) \in Frames(ServerTypes) /\ Frame("OpenResult", 1).type = "OpenResult"
    BY DEF Frame, Frames, ServerTypes
  <2>s. /\ rsp' \in Directions(ServerTypes) /\ rsp'.end = rsp.end
        /\ Alive(rsp) => rsp'.q = Append(rsp.q, Frame("OpenResult", 1))
        /\ ~Alive(rsp) => rsp'.q = rsp.q
    BY <1>1, <1>t, <2>f, SentFacts
  <2>a. Alive(rsp) => Len(rsp'.q) = 1 /\ rsp'.q[1] = Frame("OpenResult", 1)
    <3> DEFINE r == Append(rsp.q, Frame("OpenResult", 1))
    <3>1. Len(r) = Len(rsp.q) + 1 /\ r[Len(rsp.q) + 1] = Frame("OpenResult", 1)
      BY <1>t, <2>f, AppendFacts
    <3> HIDE DEF r
    <3>2. Len(r) = 1 /\ r[1] = Frame("OpenResult", 1) BY <1>z, <3>1
    <3> QED BY <2>s, <3>2 DEF r
  <2>w. /\ tgt' \in Peers /\ tgt'.taken = tgt.taken /\ tgt'.sent = tgt.sent
        /\ tgt'.fin = tgt.fin
        /\ Len(tgt'.got) = app.taken /\ InOrder(tgt'.got, app.taken)
    <3>1. tgt.got = <<>> BY <1>e DEF NewPeer
    <3>2. CASE app.taken = 0
      <4>1. tgt' = tgt BY <1>1, <1>q, <3>2
      <4>2. Len(tgt'.got) = 0 BY <3>1, <4>1
      <4> QED BY <1>t, <3>2, <4>1, <4>2 DEF InOrder
    <3>3. CASE app.taken = 1
      <4>1. tgt' = Wrote(tgt, 1) BY <1>1, <1>q, <3>3
      <4>2. /\ tgt' \in Peers /\ tgt'.taken = tgt.taken /\ tgt'.sent = tgt.sent
            /\ tgt'.fin = tgt.fin /\ tgt'.got = Append(tgt.got, 1)
        BY <1>t, <4>1, WroteFacts
      <4>3. tgt'.got = <<1>> BY <3>1, <4>2
      <4> QED BY <3>3, <4>2, <4>3 DEF InOrder
    <3> QED BY <1>e, <3>2, <3>3
  <2>0. ~Early' BY <1>1 DEF Early
  <2>1. TypeOK'
    BY <1>1, <1>t, <1>u, <1>h, <2>s, <2>w DEF TypeOK, ClientTypeOK, ServerTypeOK
  <2>2. PhaseInv' BY <1>1, <1>u, <1>e, <2>0 DEF IndInv, PhaseInv, NoProtocolError
  <2>3. EndInv'
    BY <1>1, <1>u, <1>n, <2>s DEF IndInv, EndInv, LocalOpen, ClientEnded, L2gActive
  <2>4. OpenInv' BY <1>1 DEF OpenInv
  <2>5. UpInv'
    <3>1. UpQueueOK(req.q, Len(tgt'.got), app, l2g) BY <1>q DEF UpQueueOK
    <3>2. Len(tgt'.got) + Len(req.q) = app.taken
      <4>1. Len(req.q) = 0 BY <1>q
      <4> QED BY <1>t, <2>w, <4>1
    <3>3. CleanUpload' BY <1>u, <1>e DEF CleanUpload
    <3> QED BY <1>1, <1>u, <2>w, <3>1, <3>2, <3>3 DEF IndInv, UpInv
  <2>6. DownInv'
    <3>0. tgt.taken = 0 BY <1>e DEF NewPeer
    <3>1. ASSUME Listening PROVE DownQueueOK(rsp'.q, Len(app.got), 1, tgt', "run")
      <4>1. CASE Alive(rsp) BY <2>f, <2>a, <4>1 DEF DownQueueOK
      <4>2. CASE ~Alive(rsp) BY <1>e, <2>s, <4>2 DEF DownQueueOK
      <4> QED BY <4>1, <4>2
    <3>2. Alive(rsp') => Len(app.got) + Len(rsp'.q) = tgt.taken + 1
      <4>1. SUFFICES ASSUME Alive(rsp') PROVE Len(app.got) + Len(rsp'.q) = tgt.taken + 1
        OBVIOUS
      <4>2. Len(rsp'.q) = 1 BY <2>s, <2>a, <4>1 DEF Alive
      <4> QED BY <1>e, <3>0, <4>2
    <3>3. CleanDownload' BY <1>u, <1>e DEF CleanDownload
    <3> QED BY <1>1, <1>u, <1>l, <2>w, <3>1, <3>2, <3>3 DEF IndInv, DownInv, Listening, Offset
  <2>7. FarewellInv' BY <1>1, <1>u, <1>e DEF FarewellInv, NoSilentTruncation, ServerEnded
  <2> QED BY <2>1, <2>2, <2>3, <2>4, <2>5, <2>6, <2>7 DEF IndInv
<1>2. CASE /\ spc' = "ended" /\ rsp' = Sent(rsp, Frame("OpenResult", 0)) /\ why' = "refused"
           /\ UNCHANGED <<tgt, t2g>>
  <2>f. Frame("OpenResult", 0) \in Frames(ServerTypes) /\ Frame("OpenResult", 0).type = "OpenResult"
        /\ Frame("OpenResult", 0).n # 1
    BY DEF Frame, Frames, ServerTypes
  <2>s. /\ rsp' \in Directions(ServerTypes) /\ rsp'.end = rsp.end
        /\ Alive(rsp) => rsp'.q = Append(rsp.q, Frame("OpenResult", 0))
        /\ ~Alive(rsp) => rsp'.q = rsp.q
    BY <1>2, <1>t, <2>f, SentFacts
  <2>a. Alive(rsp) => Len(rsp'.q) = 1 /\ rsp'.q[1] = Frame("OpenResult", 0)
    <3> DEFINE r == Append(rsp.q, Frame("OpenResult", 0))
    <3>1. Len(r) = Len(rsp.q) + 1 /\ r[Len(rsp.q) + 1] = Frame("OpenResult", 0)
      BY <1>t, <2>f, AppendFacts
    <3> HIDE DEF r
    <3>2. Len(r) = 1 /\ r[1] = Frame("OpenResult", 0) BY <1>z, <3>1
    <3> QED BY <2>s, <3>2 DEF r
  <2>1. ASSUME Listening PROVE DownQueueOK(rsp'.q, Len(app.got), Offset, tgt, t2g')
    <3>1. CASE Alive(rsp) BY <1>l, <2>f, <2>a, <2>1, <3>1 DEF DownQueueOK
    <3>2. CASE ~Alive(rsp) BY <1>e, <2>s, <3>2 DEF DownQueueOK
    <3> QED BY <3>1, <3>2
  <2>2. ~T2gActive BY <1>e DEF T2gActive
  <2> QED BY <1>2, <1>t, <1>u, <1>h, <1>e, <2>s, <2>1, <2>2, ServerEnds DEF ServerReasons
<1> QED BY <1>1, <1>2 DEF ServerDial, FirstPayload

-----------------------------------------------------------------------------
\* The client is silent, or its stream ends.
LEMMA ServerStreamEndStep ==
  ASSUME IndInv, ServerIdleTimeout \/ ServerStreamEnd, UNCHANGED clientVars
  PROVE  IndInv'
<1>u. spc = "relay" /\ UNCHANGED <<tgt, req, rsp, clientVars>>
  BY DEF ServerIdleTimeout, ServerStreamEnd
<1>t. req' \in Directions(ClientTypes) /\ req'.end = req.end BY <1>u, TypeFacts DEF IndInv
<1>1. CASE AtEnd(req) /\ Return /\ why' = "end"
  <2>1. ClientEnded BY <1>1 DEF IndInv, EndInv, AtEnd, LocalOpen
  <2> QED BY <1>1, <1>u, <1>t, <2>1, ServerReturns
<1>2. CASE SendReset("err") /\ wshut' = Shut BY <1>2, <1>u, <1>t, ServerSendsReset
<1>3. CASE SendReset("timeout") /\ wshut' = wshut BY <1>3, <1>u, <1>t, ServerSendsReset
<1> QED BY <1>1, <1>2, <1>3 DEF ServerIdleTimeout, ServerStreamEnd

\* What is known while handle_tunnel relays.
LEMMA LoopFacts ==
  ASSUME IndInv, spc = "relay", req.q # <<>>, req' = Popped(req)
  PROVE  /\ t2g # "none" /\ rsp.end # "end" /\ ~Early
         /\ UpQueueOK(req.q, Len(tgt.got), app, l2g)
         /\ req.q \in Seq(Frames(ClientTypes)) /\ Head(req.q) = req.q[1]
         /\ req' \in Directions(ClientTypes) /\ req'.end = req.end /\ req'.q = Tail(req.q)
         /\ Len(req'.q) = Len(req.q) - 1
<1>1. req \in Directions(ClientTypes) BY TypeFacts DEF IndInv
<1>2. /\ req' \in Directions(ClientTypes) /\ req'.end = req.end /\ req'.q = Tail(req.q)
      /\ req.q \in Seq(Frames(ClientTypes)) /\ Head(req.q) = req.q[1]
  BY <1>1, PoppedFacts
<1>3. Len(req'.q) = Len(req.q) - 1 BY <1>2, TailFacts
<1>4. rsp.end # "end" BY RunningFacts
<1>5. t2g # "none" /\ ~Early /\ UpQueueOK(req.q, Len(tgt.got), app, l2g)
  BY DEF IndInv, PhaseInv, UpInv, Early
<1> QED BY <1>2, <1>3, <1>4, <1>5

\* A Data frame is the next chunk for the target.
LEMMA ServerDataStep ==
  ASSUME IndInv, ServerData, UNCHANGED clientVars
  PROVE  IndInv'
<1>t. /\ TypeOK /\ app \in Peers /\ tgt \in Peers /\ app.taken \in Nat
      /\ tgt.got \in Seq(Nat) /\ Len(tgt.got) \in Nat /\ Len(req.q) \in Nat
  BY TypeFacts DEF IndInv
<1>u. /\ spc = "relay" /\ req.q # <<>> /\ Head(req.q).type = "Data" /\ req' = Popped(req)
      /\ UNCHANGED <<wshut, rsp, clientVars>>
  BY DEF ServerData, HasFrame
<1>o. /\ t2g # "none" /\ rsp.end # "end" /\ ~Early
      /\ UpQueueOK(req.q, Len(tgt.got), app, l2g)
      /\ req.q \in Seq(Frames(ClientTypes)) /\ Head(req.q) = req.q[1]
      /\ req' \in Directions(ClientTypes) /\ req'.end = req.end /\ req'.q = Tail(req.q)
      /\ Len(req'.q) = Len(req.q) - 1
  BY <1>u, LoopFacts
<1>1. CASE /\ wshut = "open" /\ tgt' = Wrote(tgt, Head(req.q).n) /\ UNCHANGED <<spc, held, t2g, why>>
  <2>d. /\ Head(req.q).n = Len(tgt.got) + 1 /\ Len(tgt.got) + 1 <= app.taken
        /\ UpQueueOK(req'.q, Len(tgt.got) + 1, app, l2g)
    BY <1>t, <1>u, <1>o, UpPop
  <2>w. /\ tgt' \in Peers /\ tgt'.sent = tgt.sent /\ tgt'.taken = tgt.taken
        /\ tgt'.fin = tgt.fin /\ tgt'.gone = tgt.gone
        /\ tgt'.got = Append(tgt.got, Len(tgt.got) + 1)
    <3>1. Len(tgt.got) + 1 \in Nat /\ tgt' = Wrote(tgt, Len(tgt.got) + 1) BY <1>1, <1>t, <2>d
    <3> QED BY <1>t, <3>1, WroteFacts
  <2>g. Len(tgt'.got) = Len(tgt.got) + 1 BY <1>t, <2>w, AppendFacts
  <2>1. TypeOK' BY <1>1, <1>t, <1>u, <1>o, <2>w DEF TypeOK, ClientTypeOK, ServerTypeOK
  <2>2. PhaseInv' BY <1>1, <1>u, <1>o DEF IndInv, PhaseInv, Early, NoProtocolError
  <2>3. EndInv' BY <1>1, <1>u, <1>o DEF IndInv, EndInv, LocalOpen, ClientEnded, L2gActive
  <2>4. OpenInv' BY <1>1, <1>u DEF OpenInv
  <2>5. UpInv'
    <3>1. InOrder(tgt'.got, app.taken) BY <1>t, <2>d, <2>w, InOrderAppend DEF IndInv, UpInv
    <3>2. ASSUME l2g # "exit", Alive(req') PROVE Len(tgt'.got) + Len(req'.q) = app.taken
      <4>1. Len(tgt.got) + Len(req.q) = app.taken
        BY <1>u, <1>o, <3>2 DEF IndInv, UpInv, Alive
      <4> DEFINE a == Len(tgt.got)  b == Len(req.q)  c == app.taken
                 d == Len(req'.q)   e == Len(tgt'.got)
      <4>2. a \in Nat /\ b \in Nat /\ c \in Nat /\ d = b - 1 /\ e = a + 1 /\ a + b = c
        BY <1>t, <1>o, <2>g, <4>1
      <4> HIDE DEF a, b, c, d, e
      <4>3. e + d = c BY <4>2
      <4> QED BY <4>3 DEF c, d, e
    <3>3. CleanUpload' BY <1>1, <1>u DEF CleanUpload
    <3> QED BY <1>1, <1>u, <2>d, <2>g, <3>1, <3>2, <3>3 DEF IndInv, UpInv
  <2>6. DownInv'
    <3>1. Listening => DownQueueOK(rsp.q, Len(app.got), Offset, tgt', t2g)
      BY <2>w, DownPeer DEF IndInv, DownInv
    <3>2. CleanDownload' BY <1>u, <2>w DEF IndInv, DownInv, CleanDownload
    <3> QED BY <1>1, <1>u, <2>w, <3>1, <3>2 DEF IndInv, DownInv, Listening, Offset, T2gActive
  <2>7. FarewellInv' BY <1>1, <1>u DEF IndInv, FarewellInv, NoSilentTruncation, ServerEnded
  <2> QED BY <2>1, <2>2, <2>3, <2>4, <2>5, <2>6, <2>7 DEF IndInv
<1>2. CASE SendReset("write") /\ tgt' = tgt
  BY <1>2, <1>u, <1>o, ServerSendsReset
<1> QED BY <1>1, <1>2 DEF ServerData

\* A HalfClose frame says that the application closed and all is written.
LEMMA ServerHalfCloseStep ==
  ASSUME IndInv, ServerHalfClose, UNCHANGED clientVars
  PROVE  IndInv'
<1>t. /\ TypeOK /\ app \in Peers /\ Len(tgt.got) \in Nat BY TypeFacts DEF IndInv
<1>u. /\ spc = "relay" /\ req.q # <<>> /\ Head(req.q).type = "HalfClose" /\ req' = Popped(req)
      /\ wshut' = IF wshut = "open" THEN "clean" ELSE wshut
      /\ UNCHANGED <<tgt, spc, held, t2g, why, rsp, clientVars>>
  BY DEF ServerHalfClose, HasFrame
<1>o. /\ t2g # "none" /\ rsp.end # "end" /\ ~Early
      /\ UpQueueOK(req.q, Len(tgt.got), app, l2g)
      /\ req.q \in Seq(Frames(ClientTypes)) /\ Head(req.q) = req.q[1]
      /\ req' \in Directions(ClientTypes) /\ req'.end = req.end /\ req'.q = Tail(req.q)
  BY <1>u, LoopFacts
<1>h. /\ Len(req'.q) = 0 /\ l2g = "exit" /\ AtEof(app) /\ Len(tgt.got) = app.taken
  BY <1>t, <1>u, <1>o, UpPopLast
<1>1. TypeOK' BY <1>t, <1>u, <1>o DEF TypeOK, ClientTypeOK, ServerTypeOK
<1>2. PhaseInv' BY <1>u, <1>o DEF IndInv, PhaseInv, Early, NoProtocolError
<1>3. EndInv' BY <1>u, <1>o DEF IndInv, EndInv, LocalOpen, ClientEnded, L2gActive
<1>4. OpenInv' BY <1>u DEF OpenInv
<1>5. UpInv'
  <2>1. UpQueueOK(req'.q, Len(tgt.got), app, l2g) BY <1>h DEF UpQueueOK
  <2>2. CleanUpload' BY <1>u, <1>h DEF CleanUpload, AtEof
  <2> QED BY <1>u, <1>h, <2>1, <2>2 DEF IndInv, UpInv
<1>6. DownInv' BY <1>u DEF IndInv, DownInv, Listening, Offset, T2gActive, CleanDownload
<1>7. FarewellInv' BY <1>u DEF IndInv, FarewellInv, NoSilentTruncation, ServerEnded
<1> QED BY <1>1, <1>2, <1>3, <1>4, <1>5, <1>6, <1>7 DEF IndInv

\* A Reset says that the application is gone; nothing else ends the loop so.
LEMMA ServerResetStep ==
  ASSUME IndInv, ServerReset \/ ServerPing \/ ServerUnexpected, UNCHANGED clientVars
  PROVE  IndInv'
<1>t. /\ app \in Peers /\ Len(tgt.got) \in Nat BY TypeFacts DEF IndInv
<1>u. /\ spc = "relay" /\ req.q # <<>> /\ req' = Popped(req)
      /\ Head(req.q).type \in {"Reset", "Ping", "Open", "Empty"}
      /\ UNCHANGED <<tgt, rsp, clientVars>>
  BY DEF ServerReset, ServerPing, ServerUnexpected, HasFrame
<1>o. /\ UpQueueOK(req.q, Len(tgt.got), app, l2g)
      /\ req.q \in Seq(Frames(ClientTypes)) /\ Head(req.q) = req.q[1]
      /\ req' \in Directions(ClientTypes) /\ req'.end = req.end
  BY <1>u, LoopFacts
<1>h. Head(req.q).type = "Reset" /\ app.gone BY <1>t, <1>u, <1>o, UpPopLast
<1>1. Return /\ why' = "reset"
  BY <1>h DEF ServerReset, ServerPing, ServerUnexpected, HasFrame
<1> QED BY <1>u, <1>o, <1>h, <1>1, ServerReturns

\* The Reset is queued and handle_tunnel returns.
LEMMA ServerSendStep ==
  ASSUME IndInv, ServerSend, UNCHANGED clientVars
  PROVE  IndInv'
<1>t. /\ TypeOK /\ req \in Directions(ClientTypes) /\ rsp \in Directions(ServerTypes)
      /\ rsp.q \in Seq(Frames(ServerTypes)) /\ tgt \in Peers /\ Len(app.got) \in Nat
      /\ held \in Frames({"Open", "Reset", "Pong", "Empty"}) /\ why \in ServerReasons
  BY TypeFacts DEF IndInv, TypeOK, ServerTypeOK
<1>u. spc = "sending" /\ rsp' = Sent(rsp, held) /\ UNCHANGED <<tgt, why, req, clientVars>>
  BY DEF ServerSend
<1>h. held.type = "Reset" BY <1>u DEF IndInv, PhaseInv
<1>f. held \in Frames(ServerTypes) BY <1>t, <1>h DEF Frames, ServerTypes
<1>r. /\ spc' = "ended" /\ held' \in Frames({"Open", "Reset", "Pong", "Empty"})
      /\ wshut' = Shut /\ t2g' = IF t2g = "run" THEN "aborting" ELSE t2g
  BY <1>h DEF ServerSend, Return, NoFrame, Frame, Frames
<1>s. /\ rsp' \in Directions(ServerTypes) /\ rsp'.end = rsp.end
      /\ Alive(rsp) => rsp'.q = Append(rsp.q, held)
      /\ ~Alive(rsp) => rsp' = rsp
  BY <1>t, <1>u, <1>f, SentFacts
<1>a. Alive(rsp') => Alive(rsp) /\ ~NoReset(rsp'.q)
  BY <1>t, <1>f, <1>h, <1>s, ResetStays DEF Alive
<1>1. ASSUME Listening PROVE DownQueueOK(rsp'.q, Len(app.got), Offset, tgt, t2g')
  <2>1. DownQueueOK(rsp.q, Len(app.got), Offset, tgt, t2g) BY <1>1 DEF IndInv, DownInv
  <2>2. CASE Alive(rsp)
    <3>1. Offset \in {0, 1} BY DEF Offset
    <3>2. tgt.taken <= tgt.taken BY <1>t, TypeFacts
    <3>3. t2g # t2g' => t2g # "exit" /\ (t2g' = "none" => t2g = "none") BY <1>r
    <3>4. DownQueueOK(Append(rsp.q, held), Len(app.got), Offset, tgt, t2g')
      BY <1>t, <1>h, <1>f, <2>1, <3>1, <3>2, <3>3, DownAppend
    <3> QED BY <1>s, <2>2, <3>4
  <2>3. CASE ~Alive(rsp) /\ t2g = "run" BY <1>r, <1>s, <2>1, <2>3, DownTask
  <2>4. CASE ~Alive(rsp) /\ t2g # "run" BY <1>r, <1>s, <2>1, <2>4
  <2> QED BY <2>2, <2>3, <2>4
<1>2. why' # "protocol" /\ (why' = "end" => ClientEnded) /\ (why' = "reset" => app.gone)
  BY <1>u DEF IndInv, PhaseInv, NoProtocolError, EndInv
<1> QED BY <1>t, <1>u, <1>r, <1>s, <1>a, <1>1, <1>2, ServerEnds

(***************************************************************************)
(* target_to_grpc.                                                         *)
(***************************************************************************)

\* A step of target_to_grpc is harmless when the response queue stays right.
LEMMA T2gKeeps ==
  ASSUME IndInv, T2gActive, UNCHANGED <<spc, held, wshut, why, req, clientVars>>,
         rsp' \in Directions(ServerTypes), rsp'.end = rsp.end,
         tgt' = tgt \/ (Readable(tgt) /\ tgt' = Taken(tgt)),
         t2g' \in {t2g, "exit"},
         Listening => DownQueueOK(rsp'.q, Len(app.got), Offset, tgt', t2g'),
         Listening /\ t2g' # "exit" /\ Alive(rsp') /\ NoReset(rsp'.q) =>
           Len(app.got) + Len(rsp'.q) = tgt'.taken + Offset,
         NoReset(rsp'.q) => NoReset(rsp.q)
  PROVE  IndInv'
<1>t. TypeOK /\ tgt \in Peers /\ tgt.taken \in Nat /\ tgt.sent \in Nat
  BY TypeFacts DEF IndInv
<1>a. /\ tgt' \in Peers /\ tgt'.got = tgt.got /\ tgt'.sent = tgt.sent
      /\ tgt'.fin = tgt.fin /\ tgt'.gone = tgt.gone
  BY <1>t, TakenFacts
<1>b. tgt'.taken \in Nat /\ tgt.taken <= tgt'.taken /\ tgt'.taken <= tgt'.sent
  <2>1. CASE tgt' = tgt BY <1>t, <2>1 DEF IndInv, DownInv
  <2>2. CASE Readable(tgt) /\ tgt' = Taken(tgt)
    <3>1. tgt'.taken = tgt.taken + 1 /\ tgt.taken < tgt.sent
      BY <1>t, <2>2, TakenFacts DEF Readable
    <3> DEFINE a == tgt.taken  b == tgt.sent  c == tgt'.taken
    <3>2. a \in Nat /\ b \in Nat /\ c = a + 1 /\ a < b BY <1>t, <3>1
    <3> HIDE DEF a, b, c
    <3>3. c \in Nat /\ a <= c /\ c <= b BY <3>2
    <3> QED BY <1>a, <3>3 DEF a, b, c
  <2> QED BY <2>1, <2>2
<1>o. t2g # "none" /\ t2g' # "none" /\ ~Early /\ rsp.end # "end"
  BY DEF IndInv, PhaseInv, EndInv, T2gActive, ServerReleased
<1>1. TypeOK' BY <1>t, <1>a DEF TypeOK, ClientTypeOK, ServerTypeOK
<1>2. PhaseInv' BY <1>o DEF IndInv, PhaseInv, NoProtocolError, Early
<1>3. EndInv' BY <1>o DEF IndInv, EndInv, LocalOpen, L2gActive, ClientEnded
<1>4. OpenInv' BY <1>o DEF OpenInv, Early
<1>5. UpInv' BY <1>a DEF IndInv, UpInv, CleanUpload
<1>6. DownInv'
  <2>1. InOrder(app.got, tgt'.taken)
    BY <1>t, <1>b, TypeFacts, InOrderMore DEF IndInv, DownInv
  <2>2. CleanDownload' BY <1>a DEF IndInv, DownInv, CleanDownload
  <2>3. T2gActive' => t2g' # "exit" BY DEF T2gActive
  <2> QED BY <1>b, <2>1, <2>2, <2>3 DEF DownInv, Listening, Offset
<1>7. FarewellInv'
  BY <1>o DEF IndInv, FarewellInv, NoSilentTruncation, Listening, ServerEnded, Alive
<1> QED BY <1>1, <1>2, <1>3, <1>4, <1>5, <1>6, <1>7 DEF IndInv

\* How many frames the client will find in front of a new one.
LEMMA DownBalance ==
  ASSUME IndInv, Listening, T2gActive, Alive(rsp), NoReset(rsp.q)
  PROVE  /\ Len(app.got) + Len(rsp.q) = tgt.taken + Offset
         /\ Len(rsp.q) >= Offset
<1>t. Len(app.got) \in Nat /\ Len(rsp.q) \in Nat /\ tgt.taken \in Nat BY TypeFacts DEF IndInv
<1>1. Len(app.got) + Len(rsp.q) = tgt.taken + Offset BY DEF IndInv, DownInv
<1>2. Len(rsp.q) >= Offset
  <2>1. CASE Offset = 0 BY <1>t, <2>1
  <2>2. CASE Offset = 1
    <3>1. app.got = <<>> BY <2>2 DEF IndInv, PhaseInv, Offset
    <3>2. Len(app.got) = 0 BY <3>1
    <3> DEFINE b == Len(rsp.q)  c == tgt.taken
    <3>3. b \in Nat /\ c \in Nat /\ 0 + b = c + 1 BY <1>t, <1>1, <2>2, <3>2
    <3> HIDE DEF b, c
    <3>4. b >= 1 BY <3>3
    <3> QED BY <2>2, <3>4 DEF b
  <2> QED BY <2>1, <2>2 DEF Offset
<1> QED BY <1>1, <1>2

\* The chunk that is read is the next one of the download.
LEMMA T2gDataStep ==
  ASSUME IndInv, T2gData, UNCHANGED clientVars
  PROVE  IndInv'
<1>t. /\ rsp \in Directions(ServerTypes) /\ rsp.q \in Seq(Frames(ServerTypes))
      /\ tgt \in Peers /\ tgt.taken \in Nat /\ Len(app.got) \in Nat /\ Len(rsp.q) \in Nat
  BY TypeFacts DEF IndInv
<1>u. /\ T2gActive /\ Readable(tgt) /\ tgt' = Taken(tgt)
      /\ rsp' = Sent(rsp, Frame("Data", tgt.taken + 1))
      /\ t2g' \in {t2g, "exit"} /\ (t2g' # t2g => ~Alive(rsp))
      /\ UNCHANGED <<spc, held, wshut, why, req, clientVars>>
  BY DEF T2gData
<1> DEFINE f == Frame("Data", tgt.taken + 1)
<1>f. f \in Frames(ServerTypes) /\ f.type = "Data" /\ f.n = tgt.taken + 1
  BY <1>t DEF Frame, Frames, ServerTypes
<1>s. /\ rsp' \in Directions(ServerTypes) /\ rsp'.end = rsp.end
      /\ Alive(rsp) => rsp'.q = Append(rsp.q, f)
      /\ ~Alive(rsp) => rsp' = rsp
  BY <1>t, <1>u, <1>f, SentFacts
<1> HIDE DEF f
<1>n. t2g # "exit" /\ t2g # "none" /\ t2g' # "none" /\ Offset \in {0, 1}
  BY <1>u DEF T2gActive, Offset
<1>k. /\ Taken(tgt) \in Peers /\ Taken(tgt).taken = tgt.taken + 1
      /\ tgt.taken <= Taken(tgt).taken
  <2>1. Taken(tgt) \in Peers /\ Taken(tgt).taken = tgt.taken + 1 BY <1>t, TakenFacts
  <2> QED BY <1>t, <2>1
<1>1. ASSUME Listening PROVE DownQueueOK(rsp'.q, Len(app.got), Offset, tgt', t2g')
  <2>1. DownQueueOK(rsp.q, Len(app.got), Offset, tgt, t2g) BY <1>1 DEF IndInv, DownInv
  <2>2. CASE Alive(rsp)
    <3>1. ASSUME NoReset(rsp.q)
          PROVE  /\ Len(rsp.q) >= Offset
                 /\ f.n = Len(app.got) + (Len(rsp.q) + 1) - Offset
                 /\ Len(app.got) + (Len(rsp.q) + 1) <= Taken(tgt).taken + Offset
      <4>1. Len(app.got) + Len(rsp.q) = tgt.taken + Offset /\ Len(rsp.q) >= Offset
        BY <1>1, <1>u, <2>2, <3>1, DownBalance
      <4> DEFINE a == Len(app.got)  b == Len(rsp.q)  c == tgt.taken  o == Offset
                 d == Taken(tgt).taken  n == f.n
      <4>2. /\ a \in Nat /\ b \in Nat /\ c \in Nat /\ o \in {0, 1} /\ a + b = c + o
            /\ b >= o /\ d = c + 1 /\ n = c + 1
        BY <1>t, <1>f, <1>n, <1>k, <4>1
      <4> HIDE DEF a, b, c, d, n, o
      <4>3. b >= o /\ n = a + (b + 1) - o /\ a + (b + 1) <= d + o BY <4>2
      <4> QED BY <4>3 DEF a, b, d, n, o
    <3>2. DownQueueOK(Append(rsp.q, f), Len(app.got), Offset, Taken(tgt), t2g)
      BY <1>t, <1>f, <1>n, <1>k, <2>1, <3>1, DownAppend
    <3> QED BY <1>u, <1>s, <2>2, <3>2
  <2>3. CASE ~Alive(rsp) BY <1>t, <1>u, <1>s, <1>n, <2>1, <2>3, DownTaken
  <2> QED BY <2>2, <2>3
<1>2. NoReset(rsp'.q) => NoReset(rsp.q) BY <1>t, <1>f, <1>s, ResetStays
<1>3. ASSUME Listening, Alive(rsp'), NoReset(rsp'.q)
      PROVE  Len(app.got) + Len(rsp'.q) = tgt'.taken + Offset
  <2>1. Alive(rsp) BY <1>3, <1>s DEF Alive
  <2>2. Len(app.got) + Len(rsp.q) = tgt.taken + Offset BY <1>2, <1>3, <1>u, <2>1, DownBalance
  <2>3. Len(rsp'.q) = Len(rsp.q) + 1 BY <1>t, <1>f, <1>s, <2>1, AppendFacts
  <2> DEFINE a == Len(app.got)  b == Len(rsp.q)  c == tgt.taken  o == Offset
             d == Len(rsp'.q)   e == tgt'.taken
  <2>4. /\ a \in Nat /\ b \in Nat /\ c \in Nat /\ o \in {0, 1}
        /\ d = b + 1 /\ e = c + 1 /\ a + b = c + o
    BY <1>t, <1>u, <1>n, <1>k, <2>2, <2>3
  <2> HIDE DEF a, b, c, d, e, o
  <2>5. a + d = e + o BY <2>4
  <2> QED BY <2>5 DEF a, d, e, o
<1> QED BY <1>u, <1>s, <1>1, <1>2, <1>3, T2gKeeps

\* The last frame of target_to_grpc: HalfClose at EOF, Reset on an error.
LEMMA T2gLastStep ==
  ASSUME IndInv, T2gEof \/ T2gReadError, UNCHANGED clientVars
  PROVE  IndInv'
<1>t. /\ rsp \in Directions(ServerTypes) /\ rsp.q \in Seq(Frames(ServerTypes))
      /\ tgt \in Peers /\ tgt.taken \in Nat /\ Len(app.got) \in Nat /\ Len(rsp.q) \in Nat
  BY TypeFacts DEF IndInv
<1>u. T2gActive /\ t2g' = "exit" /\ UNCHANGED <<tgt, spc, held, wshut, why, req, clientVars>>
  BY DEF T2gEof, T2gReadError
<1>f. PICK f \in Frames(ServerTypes) :
        /\ rsp' = Sent(rsp, f)
        /\ \/ f.type = "HalfClose" /\ AtEof(tgt)
           \/ f.type = "Reset"
  <2>1. CASE T2gEof
    <3>1. Frame("HalfClose", 0) \in Frames(ServerTypes) /\ Frame("HalfClose", 0).type = "HalfClose"
      BY DEF Frame, Frames, ServerTypes
    <3> QED BY <2>1, <3>1 DEF T2gEof
  <2>2. CASE T2gReadError
    <3>1. Frame("Reset", 0) \in Frames(ServerTypes) /\ Frame("Reset", 0).type = "Reset"
      BY DEF Frame, Frames, ServerTypes
    <3> QED BY <2>2, <3>1 DEF T2gReadError
  <2> QED BY <2>1, <2>2
<1>s. /\ rsp' \in Directions(ServerTypes) /\ rsp'.end = rsp.end
      /\ Alive(rsp) => rsp'.q = Append(rsp.q, f)
      /\ ~Alive(rsp) => rsp' = rsp
  BY <1>t, <1>f, SentFacts
<1>n. t2g # "exit" /\ t2g # "none" /\ Offset \in {0, 1} /\ tgt.taken <= tgt.taken
  BY <1>t, <1>u DEF T2gActive, Offset
<1>1. ASSUME Listening PROVE DownQueueOK(rsp'.q, Len(app.got), Offset, tgt, "exit")
  <2>1. DownQueueOK(rsp.q, Len(app.got), Offset, tgt, t2g) BY <1>1 DEF IndInv, DownInv
  <2>2. CASE Alive(rsp)
    <3>1. ASSUME NoReset(rsp.q)
          PROVE  /\ Len(rsp.q) >= Offset
                 /\ Len(app.got) + (Len(rsp.q) + 1) = tgt.taken + Offset + 1
      <4>1. Len(app.got) + Len(rsp.q) = tgt.taken + Offset /\ Len(rsp.q) >= Offset
        BY <1>1, <1>u, <2>2, <3>1, DownBalance
      <4> DEFINE a == Len(app.got)  b == Len(rsp.q)  c == tgt.taken  o == Offset
      <4>2. a \in Nat /\ b \in Nat /\ c \in Nat /\ o \in {0, 1} /\ a + b = c + o
        BY <1>t, <1>n, <4>1
      <4> HIDE DEF a, b, c, o
      <4>3. a + (b + 1) = c + o + 1 BY <4>2
      <4> QED BY <4>1, <4>3 DEF a, b, c, o
    <3>2. DownQueueOK(Append(rsp.q, f), Len(app.got), Offset, tgt, "exit")
      BY <1>t, <1>f, <1>n, <2>1, <3>1, DownAppend
    <3> QED BY <1>s, <2>2, <3>2
  <2>3. CASE ~Alive(rsp) BY <1>s, <1>n, <2>1, <2>3, DownTask
  <2> QED BY <2>2, <2>3
<1>2. NoReset(rsp'.q) => NoReset(rsp.q) BY <1>t, <1>s, ResetStays
<1> QED BY <1>u, <1>s, <1>1, <1>2, T2gKeeps

\* The aborted task is dropped without a last frame.
LEMMA T2gDroppedStep ==
  ASSUME IndInv, T2gDropped, UNCHANGED clientVars
  PROVE  IndInv'
<1>u. /\ T2gActive /\ t2g = "aborting" /\ t2g' = "exit"
      /\ UNCHANGED <<tgt, spc, held, wshut, why, req, rsp, clientVars>>
  BY DEF T2gDropped, T2gActive
<1>1. Listening => DownQueueOK(rsp.q, Len(app.got), Offset, tgt, "exit")
  BY <1>u, DownTask DEF IndInv, DownInv
<1>2. rsp \in Directions(ServerTypes) BY TypeFacts DEF IndInv
<1> QED BY <1>u, <1>1, <1>2, T2gKeeps

(***************************************************************************)
(* The server's HTTP/2 layer.                                              *)
(***************************************************************************)

\* The response ends when its last sender is dropped.
LEMMA FinishResponseStep ==
  ASSUME IndInv, FinishResponse, UNCHANGED clientVars
  PROVE  IndInv'
<1>t. TypeOK /\ rsp \in Directions(ServerTypes) BY TypeFacts DEF IndInv
<1>u. ServerReleased /\ rsp.end = "open" /\ rsp' = Ended(rsp) /\ UNCHANGED <<serverVars, req, clientVars>>
  BY DEF FinishResponse
<1>s. rsp' \in Directions(ServerTypes) /\ rsp'.q = rsp.q /\ rsp'.end = "end"
  BY <1>t, <1>u DEF Ended, Directions
<1>a. Alive(rsp) BY <1>u DEF Alive
<1>1. TypeOK' BY <1>t, <1>u, <1>s DEF TypeOK, ClientTypeOK, ServerTypeOK
<1>2. PhaseInv' BY <1>u, <1>s DEF IndInv, PhaseInv, Early, NoProtocolError
<1>3. EndInv'
  BY <1>u DEF IndInv, EndInv, LocalOpen, L2gActive, ClientEnded, ServerReleased, ServerEnded, T2gActive
<1>4. OpenInv' BY <1>u DEF IndInv, OpenInv
<1>5. UpInv' BY <1>u DEF IndInv, UpInv, CleanUpload
<1>6. DownInv'
  BY <1>u, <1>s, <1>a DEF IndInv, DownInv, Listening, Offset, T2gActive, CleanDownload
<1>7. FarewellInv'
  BY <1>u, <1>s, <1>a DEF IndInv, FarewellInv, NoSilentTruncation, Listening, ServerEnded
<1> QED BY <1>1, <1>2, <1>3, <1>4, <1>5, <1>6, <1>7 DEF IndInv

\* Nobody reads the request that is reset.
LEMMA DropRequestStep ==
  ASSUME IndInv, DropRequest, UNCHANGED clientVars
  PROVE  IndInv'
<1>t. /\ TypeOK /\ req \in Directions(ClientTypes) /\ Len(req.q) \in Nat BY TypeFacts DEF IndInv
<1>u. spc = "ended" /\ req' = Cut(req, 0) /\ UNCHANGED <<serverVars, rsp, clientVars>>
  BY DEF DropRequest, ServerReleased, ServerEnded
<1>s. req' \in Directions(ClientTypes) /\ req'.end = "err"
  <2>1. Cut(req, 0) \in CutsOf(req) BY <1>t DEF CutsOf
  <2> QED BY <1>t, <1>u, <2>1, CutFacts
<1>1. TypeOK' BY <1>t, <1>u, <1>s DEF TypeOK, ClientTypeOK, ServerTypeOK
<1>2. PhaseInv' BY <1>u DEF IndInv, PhaseInv, Early, NoProtocolError
<1>3. EndInv' BY <1>u, <1>s DEF IndInv, EndInv, ClientEnded, ServerReleased, ServerEnded, T2gActive
<1>4. OpenInv' BY <1>u DEF OpenInv
<1>5. UpInv' BY <1>u DEF IndInv, UpInv, CleanUpload
<1>6. DownInv' BY <1>u DEF IndInv, DownInv, Listening, Offset, T2gActive, CleanDownload
<1>7. FarewellInv' BY <1>u DEF IndInv, FarewellInv, NoSilentTruncation, Listening, ServerEnded
<1> QED BY <1>1, <1>2, <1>3, <1>4, <1>5, <1>6, <1>7 DEF IndInv

\* Every step of the server preserves the invariant.
LEMMA ServerStep ==
  ASSUME IndInv, Server
  PROVE  IndInv'
<1>1. ServerNext /\ UNCHANGED clientVars BY DEF Server
<1>2. CASE ServerMain
  BY <1>1, <1>2, ServerAuthStep, ServerFirstFrameStep, ServerNoFirstFrameStep,
     ServerDialStep, ServerStreamEndStep, ServerDataStep, ServerHalfCloseStep,
     ServerResetStep, ServerSendStep
  DEF ServerMain
<1>3. CASE T2gStep \/ T2gDropped
  BY <1>1, <1>3, T2gDataStep, T2gLastStep, T2gDroppedStep DEF T2gStep
<1>4. CASE ServerTransport
  BY <1>1, <1>4, FinishResponseStep, DropRequestStep DEF ServerTransport
<1> QED BY <1>1, <1>2, <1>3, <1>4 DEF ServerNext
-----------------------------------------------------------------------------

\* A tunnel starts with Open queued and both sockets untouched.
LEMMA InitInv ==
  ASSUME Init
  PROVE  IndInv
<1>1. PICK p \in {0, 1} : ClientInit(p) /\ req = NewStream(<<Frame("Open", p)>>) BY DEF Init
<1>2. /\ app = NewPeer(p) /\ cpc = "opening" /\ l2g = "none" BY <1>1 DEF ClientInit
<1>3. /\ tgt = NewPeer(0) /\ spc = "auth" /\ held = Frame("Empty", 0) /\ t2g = "none"
      /\ wshut = "open" /\ why = "none"
  BY DEF Init, ServerInit, NoFrame
<1>4. /\ app \in Peers /\ app.taken = p /\ app.sent = p /\ app.got = <<>>
      /\ tgt \in Peers /\ tgt.taken = 0 /\ tgt.sent = 0 /\ tgt.got = <<>>
  BY <1>2, <1>3 DEF NewPeer, Peers
<1>5. /\ req \in Directions(ClientTypes) /\ req.q = <<Frame("Open", p)>> /\ req.end = "open"
      /\ rsp \in Directions(ServerTypes) /\ rsp.q = <<>> /\ rsp.end = "open"
  BY <1>1 DEF Init, NewStream, Directions, Frames, Frame, ClientTypes
<1>6. held \in Frames({"Open", "Reset", "Pong", "Empty"}) BY <1>3 DEF Frame, Frames
<1>7. TypeOK
  BY <1>2, <1>3, <1>4, <1>5, <1>6
  DEF TypeOK, ClientTypeOK, ServerTypeOK, TaskStates, ServerReasons
<1>8. PhaseInv BY <1>2, <1>3, <1>4, <1>5 DEF PhaseInv, Early, NoProtocolError
<1>9. EndInv BY <1>3, <1>5 DEF EndInv
<1>10. OpenInv BY <1>3, <1>4, <1>5 DEF OpenInv
<1>11. UpInv BY <1>3, <1>4 DEF UpInv, InOrder, CleanUpload
<1>12. DownInv
  <2>1. DownQueueOK(rsp.q, Len(app.got), Offset, tgt, t2g) BY <1>5 DEF DownQueueOK
  <2>2. InOrder(app.got, tgt.taken) BY <1>4 DEF InOrder
  <2> QED BY <1>2, <1>3, <1>4, <2>1, <2>2 DEF DownInv, T2gActive, CleanDownload
<1>13. FarewellInv BY <1>2, <1>3 DEF FarewellInv, NoSilentTruncation, ServerEnded
<1> QED BY <1>7, <1>8, <1>9, <1>10, <1>11, <1>12, <1>13 DEF IndInv

\* Every step of the tunnel and of its surroundings preserves the invariant.
LEMMA NextInv ==
  ASSUME IndInv, [Next]_vars
  PROVE  IndInv'
<1>1. CASE Environment
  <2>1. CASE AppWrite \/ AppFin \/ AppGone \/ AppRead BY <2>1, AppStep
  <2>2. CASE TargetWrite \/ TargetFin \/ TargetGone \/ TargetRead BY <2>2, TargetStep
  <2>3. CASE ConnFail BY <2>3, ConnFailStep
  <2> QED BY <1>1, <2>1, <2>2, <2>3 DEF Environment
<1>2. CASE Client BY <1>2, ClientStep
<1>3. CASE Server BY <1>3, ServerStep
<1>4. CASE UNCHANGED vars
  <2>u. UNCHANGED <<streamVars, clientVars, serverVars>> BY <1>4 DEF vars
  <2>1. TypeOK' BY <2>u DEF IndInv, TypeOK, ClientTypeOK, ServerTypeOK
  <2>2. PhaseInv' BY <2>u DEF IndInv, PhaseInv, Early, NoProtocolError
  <2>3. EndInv'
    BY <2>u DEF IndInv, EndInv, LocalOpen, ClientEnded, L2gActive, ServerReleased, ServerEnded, T2gActive
  <2>4. OpenInv' BY <2>u DEF IndInv, OpenInv
  <2>5. UpInv' BY <2>u DEF IndInv, UpInv, CleanUpload
  <2>6. DownInv' BY <2>u DEF IndInv, DownInv, Listening, Offset, T2gActive, CleanDownload
  <2>7. FarewellInv'
    BY <2>u DEF IndInv, FarewellInv, NoSilentTruncation, Listening, ServerEnded
  <2> QED BY <2>1, <2>2, <2>3, <2>4, <2>5, <2>6, <2>7 DEF IndInv
<1> QED BY <1>1, <1>2, <1>3, <1>4 DEF Next

\* The invariant of TunnelInvariant holds in every state of every tunnel.
THEOREM Invariance == Spec => []IndInv
<1>1. Init => IndInv BY InitInv
<1>2. IndInv /\ [Next]_vars => IndInv' BY NextInv
<1> QED BY <1>1, <1>2, PTL DEF Spec

\* relay_grpc and handle_tunnel keep their variables well typed; in
\* particular the queues only hold frames of the type of their direction.
THEOREM TypeCorrect == Spec => []TypeOK
<1>1. IndInv => TypeOK BY DEF IndInv
<1> QED BY <1>1, Invariance, PTL

\* However much is sent and wherever the connection dies, handle_tunnel has
\* written to the target a prefix of what the application wrote, and relay_grpc
\* to the application a prefix of what the target wrote.
THEOREM BytesOrdered == Spec => []BytesInOrder
<1>1. ASSUME IndInv PROVE UploadInOrder
  <2>1. /\ tgt.got \in Seq(Nat) /\ app.taken \in Nat /\ app.sent \in Nat
        /\ InOrder(tgt.got, app.taken) /\ app.taken <= app.sent
    BY <1>1, TypeFacts DEF IndInv, UpInv
  <2> QED BY <2>1, InOrderMore DEF UploadInOrder
<1>2. ASSUME IndInv PROVE DownloadInOrder
  <2>1. /\ app.got \in Seq(Nat) /\ tgt.taken \in Nat /\ tgt.sent \in Nat
        /\ InOrder(app.got, tgt.taken) /\ tgt.taken <= tgt.sent
    BY <1>2, TypeFacts DEF IndInv, DownInv
  <2> QED BY <2>1, InOrderMore DEF DownloadInOrder
<1>3. IndInv => BytesInOrder BY <1>1, <1>2 DEF BytesInOrder
<1> QED BY <1>3, Invariance, PTL

\* A target is told the end of an upload only when the upload is complete, and
\* relay_grpc returns Ok after HalfClose only when the download is complete.
THEOREM EndsComplete == Spec => []CleanEnds
<1>1. IndInv => CleanEnds BY DEF IndInv, UpInv, DownInv, CleanEnds
<1> QED BY <1>1, Invariance, PTL

\* relay_grpc returns Ok at the end of the response only to an application
\* that has already gone: every other end of handle_tunnel sends a Reset.
THEOREM TruncationReported == Spec => []NoSilentTruncation
<1>1. IndInv => NoSilentTruncation BY DEF IndInv, FarewellInv
<1> QED BY <1>1, Invariance, PTL

\* The two ends never see each other break the frame protocol.
THEOREM ProtocolKept == Spec => []NoProtocolError
<1>1. IndInv => NoProtocolError BY DEF IndInv, PhaseInv
<1> QED BY <1>1, Invariance, PTL

-----------------------------------------------------------------------------
(***************************************************************************)
(* Tunnel implements DuplexPipe: every step of the tunnel, seen through    *)
(* the mapping `Pipe' of Tunnel, is a step of one of the two pipes or      *)
(* leaves them alone.                                                      *)
(***************************************************************************)

\* What the programs see of a step: nothing, or one step of the upload.
LEMMA UpPipeStep ==
  ASSUME tgt'.sent = tgt.sent, tgt'.fin = tgt.fin, app'.got = app.got, LocalEof' = LocalEof,
         \/ /\ UNCHANGED wshut /\ tgt'.got = tgt.got /\ app'.sent = app.sent /\ app'.fin = app.fin
         \/ /\ ~app.fin /\ app'.sent = app.sent + 1
            /\ UNCHANGED wshut /\ tgt'.got = tgt.got /\ app'.fin = app.fin
         \/ /\ ~app.fin /\ app'.fin = TRUE
            /\ UNCHANGED wshut /\ tgt'.got = tgt.got /\ app'.sent = app.sent
         \/ /\ wshut = "open" /\ Len(tgt.got) < app.sent
            /\ tgt'.got = Append(tgt.got, Len(tgt.got) + 1)
            /\ UNCHANGED wshut /\ app'.sent = app.sent /\ app'.fin = app.fin
         \/ /\ wshut = "open" /\ app.fin /\ Len(tgt.got) = app.sent /\ wshut' = "clean"
            /\ tgt'.got = tgt.got /\ app'.sent = app.sent /\ app'.fin = app.fin
         \/ /\ wshut = "open" /\ wshut' = "cut"
            /\ tgt'.got = tgt.got /\ app'.sent = app.sent /\ app'.fin = app.fin
  PROVE  [Pipe!Next]_(Pipe!pipeVars)
<1>1. CASE /\ UNCHANGED wshut /\ tgt'.got = tgt.got /\ app'.sent = app.sent /\ app'.fin = app.fin
  BY <1>1 DEF Pipe!pipeVars
<1>2. CASE /\ ~app.fin /\ app'.sent = app.sent + 1
           /\ UNCHANGED wshut /\ tgt'.got = tgt.got /\ app'.fin = app.fin
  <2>1. Pipe!Write("up") BY <1>2 DEF Pipe!Write
  <2> QED BY <2>1 DEF Pipe!Next, Pipe!Dirs
<1>3. CASE /\ ~app.fin /\ app'.fin = TRUE
           /\ UNCHANGED wshut /\ tgt'.got = tgt.got /\ app'.sent = app.sent
  <2>1. Pipe!Close("up") BY <1>3 DEF Pipe!Close
  <2> QED BY <2>1 DEF Pipe!Next, Pipe!Dirs
<1>4. CASE /\ wshut = "open" /\ Len(tgt.got) < app.sent
           /\ tgt'.got = Append(tgt.got, Len(tgt.got) + 1)
           /\ UNCHANGED wshut /\ app'.sent = app.sent /\ app'.fin = app.fin
  <2>1. Pipe!Deliver("up") BY <1>4 DEF Pipe!Deliver
  <2> QED BY <2>1 DEF Pipe!Next, Pipe!Dirs
<1>5. CASE /\ wshut = "open" /\ app.fin /\ Len(tgt.got) = app.sent /\ wshut' = "clean"
           /\ tgt'.got = tgt.got /\ app'.sent = app.sent /\ app'.fin = app.fin
  <2>1. Pipe!Finish("up") BY <1>5 DEF Pipe!Finish
  <2> QED BY <2>1 DEF Pipe!Next, Pipe!Dirs
<1>6. CASE /\ wshut = "open" /\ wshut' = "cut"
           /\ tgt'.got = tgt.got /\ app'.sent = app.sent /\ app'.fin = app.fin
  <2>1. Pipe!Cut("up") BY <1>6 DEF Pipe!Cut
  <2> QED BY <2>1 DEF Pipe!Next, Pipe!Dirs
<1> QED BY <1>1, <1>2, <1>3, <1>4, <1>5, <1>6

\* What the programs see of a step: nothing, or one step of the download.
LEMMA DownPipeStep ==
  ASSUME app'.sent = app.sent, app'.fin = app.fin, tgt'.got = tgt.got, UNCHANGED wshut,
         \/ /\ LocalEof' = LocalEof /\ app'.got = app.got /\ tgt'.sent = tgt.sent /\ tgt'.fin = tgt.fin
         \/ /\ ~tgt.fin /\ tgt'.sent = tgt.sent + 1
            /\ LocalEof' = LocalEof /\ app'.got = app.got /\ tgt'.fin = tgt.fin
         \/ /\ ~tgt.fin /\ tgt'.fin = TRUE
            /\ LocalEof' = LocalEof /\ app'.got = app.got /\ tgt'.sent = tgt.sent
         \/ /\ LocalEof = "open" /\ Len(app.got) < tgt.sent
            /\ app'.got = Append(app.got, Len(app.got) + 1)
            /\ LocalEof' = LocalEof /\ tgt'.sent = tgt.sent /\ tgt'.fin = tgt.fin
         \/ /\ LocalEof = "open" /\ tgt.fin /\ Len(app.got) = tgt.sent /\ LocalEof' = "clean"
            /\ app'.got = app.got /\ tgt'.sent = tgt.sent /\ tgt'.fin = tgt.fin
         \/ /\ LocalEof = "open" /\ LocalEof' = "cut"
            /\ app'.got = app.got /\ tgt'.sent = tgt.sent /\ tgt'.fin = tgt.fin
  PROVE  [Pipe!Next]_(Pipe!pipeVars)
<1>1. CASE /\ LocalEof' = LocalEof /\ app'.got = app.got /\ tgt'.sent = tgt.sent /\ tgt'.fin = tgt.fin
  BY <1>1 DEF Pipe!pipeVars
<1>2. CASE /\ ~tgt.fin /\ tgt'.sent = tgt.sent + 1
           /\ LocalEof' = LocalEof /\ app'.got = app.got /\ tgt'.fin = tgt.fin
  <2>1. Pipe!Write("down") BY <1>2 DEF Pipe!Write
  <2> QED BY <2>1 DEF Pipe!Next, Pipe!Dirs
<1>3. CASE /\ ~tgt.fin /\ tgt'.fin = TRUE
           /\ LocalEof' = LocalEof /\ app'.got = app.got /\ tgt'.sent = tgt.sent
  <2>1. Pipe!Close("down") BY <1>3 DEF Pipe!Close
  <2> QED BY <2>1 DEF Pipe!Next, Pipe!Dirs
<1>4. CASE /\ LocalEof = "open" /\ Len(app.got) < tgt.sent
           /\ app'.got = Append(app.got, Len(app.got) + 1)
           /\ LocalEof' = LocalEof /\ tgt'.sent = tgt.sent /\ tgt'.fin = tgt.fin
  <2>1. Pipe!Deliver("down") BY <1>4 DEF Pipe!Deliver
  <2> QED BY <2>1 DEF Pipe!Next, Pipe!Dirs
<1>5. CASE /\ LocalEof = "open" /\ tgt.fin /\ Len(app.got) = tgt.sent /\ LocalEof' = "clean"
           /\ app'.got = app.got /\ tgt'.sent = tgt.sent /\ tgt'.fin = tgt.fin
  <2>1. Pipe!Finish("down") BY <1>5 DEF Pipe!Finish
  <2> QED BY <2>1 DEF Pipe!Next, Pipe!Dirs
<1>6. CASE /\ LocalEof = "open" /\ LocalEof' = "cut"
           /\ app'.got = app.got /\ tgt'.sent = tgt.sent /\ tgt'.fin = tgt.fin
  <2>1. Pipe!Cut("down") BY <1>6 DEF Pipe!Cut
  <2> QED BY <2>1 DEF Pipe!Next, Pipe!Dirs
<1> QED BY <1>1, <1>2, <1>3, <1>4, <1>5, <1>6

\* A socket that is released without HalfClose looks cut to the application.
LEMMA EofKept ==
  ASSUME cpc = "closed" <=> cpc' = "closed", LocalOpen' => LocalOpen
  PROVE  LocalEof' = LocalEof \/ (LocalEof = "open" /\ LocalEof' = "cut")
  BY DEF LocalEof

-----------------------------------------------------------------------------
\* The surroundings write and close; a failing connection is invisible.
LEMMA EnvironmentPipe ==
  ASSUME IndInv, Environment
  PROVE  [Pipe!Next]_(Pipe!pipeVars)
<1>t. app \in Peers /\ tgt \in Peers BY TypeFacts DEF IndInv
<1>1. CASE AppWrite \/ AppFin \/ AppGone \/ AppRead
  <2>1. UNCHANGED <<cpc, l2g, tgt, wshut>> BY <1>1 DEF AppWrite, AppFin, AppGone, AppRead
  <2>2. LocalEof' = LocalEof BY <2>1 DEF LocalEof, LocalOpen, ClientEnded, L2gActive
  <2>3. CASE AppWrite
    <3>1. /\ ~app.fin /\ app'.sent = app.sent + 1 /\ app'.fin = app.fin /\ app'.got = app.got
      BY <1>t, <2>3 DEF AppWrite, PeerWrites, Peers
    <3> QED BY <2>1, <2>2, <3>1, UpPipeStep
  <2>4. CASE AppFin
    <3>1. ~app.fin /\ app'.fin = TRUE BY <1>t, <2>4 DEF AppFin, PeerFins, Peers
    <3>2. app'.sent = app.sent /\ app'.got = app.got BY <1>t, <2>4 DEF AppFin, PeerFins, Peers
    <3> QED BY <2>1, <2>2, <3>1, <3>2, UpPipeStep
  <2>5. CASE AppGone \/ AppRead
    <3>1. app'.sent = app.sent /\ app'.got = app.got
      BY <1>t, <2>5 DEF AppGone, AppRead, PeerGoes, PeerReads, Peers
    <3>2. app'.fin = app.fin
      BY <1>t, <2>5 DEF AppGone, AppRead, PeerGoes, PeerReads, Peers
    <3> QED BY <2>1, <2>2, <3>1, <3>2, UpPipeStep
  <2> QED BY <1>1, <2>3, <2>4, <2>5
<1>2. CASE TargetWrite \/ TargetFin \/ TargetGone \/ TargetRead
  <2>1. UNCHANGED <<cpc, l2g, app, wshut>>
    BY <1>2 DEF TargetWrite, TargetFin, TargetGone, TargetRead, TargetUnchanged
  <2>2. LocalEof' = LocalEof BY <2>1 DEF LocalEof, LocalOpen, ClientEnded, L2gActive
  <2>3. CASE TargetWrite
    <3>1. /\ ~tgt.fin /\ tgt'.sent = tgt.sent + 1 /\ tgt'.fin = tgt.fin /\ tgt'.got = tgt.got
      BY <1>t, <2>3 DEF TargetWrite, PeerWrites, Peers
    <3> QED BY <2>1, <2>2, <3>1, DownPipeStep
  <2>4. CASE TargetFin
    <3>1. ~tgt.fin /\ tgt'.fin = TRUE BY <1>t, <2>4 DEF TargetFin, PeerFins, Peers
    <3>2. tgt'.sent = tgt.sent /\ tgt'.got = tgt.got BY <1>t, <2>4 DEF TargetFin, PeerFins, Peers
    <3> QED BY <2>1, <2>2, <3>1, <3>2, DownPipeStep
  <2>5. CASE TargetGone \/ TargetRead
    <3>1. tgt'.sent = tgt.sent /\ tgt'.got = tgt.got
      BY <1>t, <2>5 DEF TargetGone, TargetRead, PeerGoes, PeerReads, Peers
    <3>2. tgt'.fin = tgt.fin
      BY <1>t, <2>5 DEF TargetGone, TargetRead, PeerGoes, PeerReads, Peers
    <3> QED BY <2>1, <2>2, <3>1, <3>2, DownPipeStep
  <2> QED BY <1>2, <2>3, <2>4, <2>5
<1>3. CASE ConnFail
  <2>1. UNCHANGED <<clientVars, serverVars>> BY <1>3 DEF ConnFail
  <2>2. LocalEof' = LocalEof BY <2>1 DEF LocalEof, LocalOpen, ClientEnded, L2gActive
  <2> QED BY <2>1, <2>2, UpPipeStep
<1> QED BY <1>1, <1>2, <1>3 DEF Environment

\* relay_grpc delivers the download; HalfClose finishes it, any other end
\* cuts it as soon as local_to_grpc lets go of the socket.
LEMMA ClientPipe ==
  ASSUME IndInv, Client
  PROVE  [Pipe!Next]_(Pipe!pipeVars)
<1>t. /\ app \in Peers /\ tgt \in Peers /\ rsp \in Directions(ServerTypes)
      /\ Len(app.got) \in Nat /\ tgt.taken \in Nat /\ tgt.sent \in Nat /\ tgt.taken <= tgt.sent
  BY TypeFacts DEF IndInv, DownInv
<1>u. UNCHANGED <<tgt, wshut>> /\ ClientNext BY DEF Client
<1>1. ASSUME app'.sent = app.sent, app'.fin = app.fin, app'.got = app.got,
             cpc = "closed" <=> cpc' = "closed", LocalOpen' => LocalOpen
      PROVE  [Pipe!Next]_(Pipe!pipeVars)
  BY <1>u, <1>1, EofKept, DownPipeStep
<1>o. cpc \in {"opening", "relaying"} => cpc # "closed" /\ LocalOpen /\ LocalEof = "open"
  BY DEF LocalOpen, ClientEnded, ClientResults, LocalEof
<1>2. CASE ClientOpenReply \/ ClientOpenFails \/ ClientPong \/ ClientBail \/ ClientStreamEnd
  <2>1. app' = app /\ cpc \in {"opening", "relaying"} /\ cpc' # "closed"
    BY <1>2
    DEF ClientOpenReply, OpenVerdict, ClientOpenFails, ClientPong, ClientBail, ClientStreamEnd
  <2> QED BY <1>1, <1>o, <2>1
<1>3. CASE ClientData
  <2>1. /\ cpc = "relaying" /\ rsp.q # <<>> /\ Head(rsp.q).type = "Data"
    BY <1>3 DEF ClientData, HasFrame
  <2>2. CASE app' = Wrote(app, Head(rsp.q).n) /\ cpc' = cpc
    <3>1. DownQueueOK(rsp.q, Len(app.got), 0, tgt, t2g) BY <2>1, RelayingFacts
    <3>2. rsp.q \in Seq(Frames(ServerTypes)) /\ Head(rsp.q) = rsp.q[1]
      BY <1>t, <2>1, PoppedFacts
    <3>3. Head(rsp.q).n = Len(app.got) + 1 /\ Len(app.got) + 1 <= tgt.taken
      BY <1>t, <2>1, <3>1, <3>2, DownPop
    <3>4. Len(app.got) + 1 \in Nat /\ app' = Wrote(app, Len(app.got) + 1) BY <1>t, <2>2, <3>3
    <3>5. /\ app'.sent = app.sent /\ app'.fin = app.fin
          /\ app'.got = Append(app.got, Len(app.got) + 1)
      BY <1>t, <3>4, WroteFacts
    <3>6. Len(app.got) < tgt.sent
      <4> DEFINE a == Len(app.got)  b == tgt.taken  c == tgt.sent
      <4>1. a \in Nat /\ b \in Nat /\ c \in Nat /\ b <= c /\ a + 1 <= b BY <1>t, <3>3
      <4> HIDE DEF a, b, c
      <4>2. a < c BY <4>1
      <4> QED BY <4>2 DEF a, c
    <3>7. LocalEof = "open" /\ LocalEof' = "open"
      BY <2>1, <2>2 DEF LocalEof, LocalOpen, ClientEnded, ClientResults
    <3> QED BY <1>u, <3>5, <3>6, <3>7, DownPipeStep
  <2>3. CASE app' = app /\ cpc' = "io" BY <1>1, <1>o, <2>1, <2>3
  <2> QED BY <1>3, <2>2, <2>3 DEF ClientData
<1>4. CASE ClientHalfClose
  <2>1. /\ cpc = "relaying" /\ rsp.q # <<>> /\ Head(rsp.q).type = "HalfClose" /\ app' = app
    BY <1>4 DEF ClientHalfClose, HasFrame
  <2>2. CASE cpc' = "closed"
    <3>1. DownQueueOK(rsp.q, Len(app.got), 0, tgt, t2g) BY <2>1, RelayingFacts
    <3>2. rsp.q \in Seq(Frames(ServerTypes)) /\ Head(rsp.q) = rsp.q[1]
      BY <1>t, <2>1, PoppedFacts
    <3>3. tgt.fin /\ Len(app.got) = tgt.sent BY <1>t, <2>1, <3>1, <3>2, DownHead DEF AtEof
    <3>4. LocalEof = "open" /\ LocalEof' = "clean" BY <1>o, <2>1, <2>2 DEF LocalEof
    <3> QED BY <1>u, <2>1, <3>3, <3>4, DownPipeStep
  <2>3. CASE cpc' = "io" BY <1>1, <1>o, <2>1, <2>3
  <2> QED BY <1>4, <2>2, <2>3 DEF ClientHalfClose
<1>5. CASE L2gStep \/ L2gDropped
  <2>1. L2gActive /\ cpc' = cpc /\ app' \in {app, Taken(app)}
    BY <1>5 DEF L2gStep, L2gData, L2gEof, L2gReadError, L2gDropped, L2gActive
  <2>2. app'.sent = app.sent /\ app'.fin = app.fin /\ app'.got = app.got
    BY <1>t, <2>1, TakenFacts
  <2>3. LocalOpen BY <2>1 DEF LocalOpen
  <2> QED BY <1>1, <2>1, <2>2, <2>3
<1>6. CASE ClientTransport
  <2>1. UNCHANGED clientVars BY <1>6 DEF ClientTransport, FinishRequest, DropResponse
  <2>2. LocalOpen' => LocalOpen BY <2>1 DEF LocalOpen, ClientEnded, L2gActive
  <2> QED BY <1>1, <2>1, <2>2
<1> QED BY <1>u, <1>2, <1>3, <1>4, <1>5, <1>6 DEF ClientNext, ClientMain

\* handle_tunnel delivers the upload; HalfClose finishes it, and its return
\* cuts it when it was not finished before.
LEMMA ServerPipe ==
  ASSUME IndInv, Server
  PROVE  [Pipe!Next]_(Pipe!pipeVars)
<1>t. /\ app \in Peers /\ tgt \in Peers /\ Len(tgt.got) \in Nat
      /\ app.taken \in Nat /\ app.sent \in Nat /\ app.taken <= app.sent
  BY TypeFacts DEF IndInv, UpInv
<1>u. UNCHANGED clientVars /\ ServerNext BY DEF Server
<1>e. LocalEof' = LocalEof BY <1>u DEF LocalEof, LocalOpen, ClientEnded, L2gActive
<1>1. ASSUME tgt'.sent = tgt.sent, tgt'.fin = tgt.fin, tgt'.got = tgt.got, wshut' \in {wshut, Shut}
      PROVE  [Pipe!Next]_(Pipe!pipeVars)
  <2>1. wshut' = wshut \/ (wshut = "open" /\ wshut' = "cut") BY <1>1 DEF Shut
  <2> QED BY <1>u, <1>e, <1>1, <2>1, UpPipeStep
<1>d. ASSUME tgt' = Wrote(tgt, Len(tgt.got) + 1), Len(tgt.got) + 1 <= app.taken,
             wshut = "open", wshut' = wshut
      PROVE  [Pipe!Next]_(Pipe!pipeVars)
  <2>1. Len(tgt.got) + 1 \in Nat BY <1>t
  <2>2. /\ tgt'.sent = tgt.sent /\ tgt'.fin = tgt.fin
        /\ tgt'.got = Append(tgt.got, Len(tgt.got) + 1)
    BY <1>t, <1>d, <2>1, WroteFacts
  <2>3. Len(tgt.got) < app.sent
    <3> DEFINE a == Len(tgt.got)  b == app.taken  c == app.sent
    <3>1. a \in Nat /\ b \in Nat /\ c \in Nat /\ b <= c /\ a + 1 <= b BY <1>t, <1>d
    <3> HIDE DEF a, b, c
    <3>2. a < c BY <3>1
    <3> QED BY <3>2 DEF a, c
  <2> QED BY <1>u, <1>e, <1>d, <2>2, <2>3, UpPipeStep
<1>2. CASE \/ ServerAuth \/ ServerFirstFrame \/ ServerNoFirstFrame \/ ServerIdleTimeout
           \/ ServerStreamEnd \/ ServerReset \/ ServerPing \/ ServerUnexpected \/ ServerSend
  <2>1. tgt' = tgt /\ wshut' \in {wshut, Shut}
    BY <1>2
    DEF ServerAuth, ServerFirstFrame, ServerNoFirstFrame, ServerIdleTimeout, ServerStreamEnd,
        ServerReset, ServerPing, ServerUnexpected, ServerSend, Return
  <2> QED BY <1>1, <2>1
<1>3. CASE ServerDial
  <2>1. spc = "dial" /\ wshut' = wshut BY <1>3 DEF ServerDial
  <2>2. app.taken \in {0, 1} /\ tgt = NewPeer(0) /\ wshut = "open"
    BY <2>1, EarlyFacts DEF Early
  <2>3. held.n = app.taken BY <2>1 DEF IndInv, OpenInv, Frame
  <2>4. CASE tgt' = tgt BY <1>1, <2>1, <2>4
  <2>5. CASE app.taken = 1 /\ tgt' = Wrote(tgt, 1)
    <3>1. tgt.got = <<>> BY <2>2 DEF NewPeer
    <3>2. Len(tgt.got) = 0 BY <3>1
    <3>3. Len(tgt.got) + 1 = 1 BY <3>2
    <3>4. Len(tgt.got) + 1 <= app.taken BY <2>5, <3>3
    <3> QED BY <1>d, <2>1, <2>2, <2>5, <3>3, <3>4
  <2> QED BY <1>3, <2>2, <2>3, <2>4, <2>5 DEF ServerDial, FirstPayload
<1>4. CASE ServerData
  <2>1. /\ spc = "relay" /\ req.q # <<>> /\ Head(req.q).type = "Data" /\ req' = Popped(req)
        /\ wshut' = wshut
    BY <1>4 DEF ServerData, HasFrame
  <2>2. CASE wshut = "open" /\ tgt' = Wrote(tgt, Head(req.q).n)
    <3>1. /\ UpQueueOK(req.q, Len(tgt.got), app, l2g)
          /\ req.q \in Seq(Frames(ClientTypes)) /\ Head(req.q) = req.q[1]
      BY <2>1, LoopFacts
    <3>2. Head(req.q).n = Len(tgt.got) + 1 /\ Len(tgt.got) + 1 <= app.taken
      BY <1>t, <2>1, <3>1, UpPop
    <3> QED BY <1>d, <2>1, <2>2, <3>2
  <2>3. CASE tgt' = tgt BY <1>1, <2>1, <2>3
  <2> QED BY <1>4, <2>2, <2>3 DEF ServerData
<1>5. CASE ServerHalfClose
  <2>1. /\ spc = "relay" /\ req.q # <<>> /\ Head(req.q).type = "HalfClose" /\ req' = Popped(req)
        /\ tgt' = tgt /\ wshut' = IF wshut = "open" THEN "clean" ELSE wshut
    BY <1>5 DEF ServerHalfClose, HasFrame
  <2>2. /\ UpQueueOK(req.q, Len(tgt.got), app, l2g)
        /\ req.q \in Seq(Frames(ClientTypes)) /\ Head(req.q) = req.q[1]
    BY <2>1, LoopFacts
  <2>3. app.fin /\ Len(tgt.got) = app.sent BY <1>t, <2>1, <2>2, UpPopLast DEF AtEof
  <2>4. CASE wshut = "open" BY <1>u, <1>e, <2>1, <2>3, <2>4, UpPipeStep
  <2>5. CASE wshut # "open" BY <1>1, <2>1, <2>5
  <2> QED BY <2>4, <2>5
<1>6. CASE T2gStep \/ T2gDropped
  <2>1. wshut' = wshut /\ tgt' \in {tgt, Taken(tgt)}
    BY <1>6 DEF T2gStep, T2gData, T2gEof, T2gReadError, T2gDropped
  <2>2. tgt'.sent = tgt.sent /\ tgt'.fin = tgt.fin /\ tgt'.got = tgt.got
    BY <1>t, <2>1, TakenFacts
  <2> QED BY <1>1, <2>1, <2>2
<1>7. CASE ServerTransport
  <2>1. UNCHANGED serverVars BY <1>7 DEF ServerTransport, FinishResponse, DropRequest
  <2> QED BY <1>1, <2>1
<1> QED BY <1>u, <1>2, <1>3, <1>4, <1>5, <1>6, <1>7 DEF ServerNext, ServerMain

\* A tunnel starts as two empty pipes.
LEMMA InitPipe ==
  ASSUME Init
  PROVE  Pipe!Init
<1>1. PICK p \in {0, 1} : ClientInit(p) BY DEF Init
<1>2. /\ app.sent = p /\ app.fin = FALSE /\ app.got = <<>> /\ cpc = "opening"
  BY <1>1 DEF ClientInit, NewPeer
<1>3. /\ tgt.sent = 0 /\ tgt.fin = FALSE /\ tgt.got = <<>> /\ wshut = "open"
  BY DEF Init, ServerInit, NewPeer
<1>4. LocalEof = "open" BY <1>2 DEF LocalEof, LocalOpen, ClientEnded, ClientResults
<1> QED BY <1>1, <1>2, <1>3, <1>4 DEF Pipe!Init, Pipe!Dirs

\* relay_grpc and handle_tunnel together give the two programs what
\* DuplexPipe promises: each step is a step of one pipe, or none.
THEOREM Refinement == Spec => ImplementsPipe
<1>1. Init => Pipe!Init BY InitPipe
<1>2. IndInv /\ [Next]_vars => [Pipe!Next]_(Pipe!pipeVars)
  <2> SUFFICES ASSUME IndInv, [Next]_vars PROVE [Pipe!Next]_(Pipe!pipeVars)
    OBVIOUS
  <2>1. CASE Environment BY <2>1, EnvironmentPipe
  <2>2. CASE Client BY <2>2, ClientPipe
  <2>3. CASE Server BY <2>3, ServerPipe
  <2>4. CASE UNCHANGED vars
    <3>1. UNCHANGED <<app, cpc, l2g, tgt, wshut>> BY <2>4 DEF vars
    <3>2. LocalEof' = LocalEof BY <3>1 DEF LocalEof, LocalOpen, ClientEnded, L2gActive
    <3> QED BY <3>1, <3>2, UpPipeStep
  <2> QED BY <2>1, <2>2, <2>3, <2>4 DEF Next
<1> QED BY <1>1, <1>2, Invariance, PTL DEF Spec, ImplementsPipe, Pipe!Spec
=============================================================================
