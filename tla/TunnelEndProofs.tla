--------------------------- MODULE TunnelEndProofs ---------------------------
(***************************************************************************)
(* Each end of a tunnel alone, against a partner that follows no protocol, *)
(* for every queue length, every socket buffer and every number of frames  *)
(* and chunks.                                                             *)
(***************************************************************************)
EXTENDS TunnelProofs, AnyServer, AnyClient

-----------------------------------------------------------------------------
(***************************************************************************)
(* A conversation is the history of what was read of it, followed by what  *)
(* is queued.                                                              *)
(***************************************************************************)
LEMMA ConcatFacts ==
  ASSUME NEW S, NEW s \in Seq(S), NEW t \in Seq(S)
  PROVE  /\ s \o t \in Seq(S)
         /\ Len(s) \in Nat /\ Len(t) \in Nat
         /\ Len(s \o t) = Len(s) + Len(t)
         /\ \A i \in 1..Len(s) : (s \o t)[i] = s[i]
         /\ \A i \in 1..Len(t) : (s \o t)[Len(s) + i] = t[i]
  OBVIOUS

\* A frame that moves from the queue into the history stays at its place.
LEMMA ConcatPop ==
  ASSUME NEW S, NEW s \in Seq(S), NEW t \in Seq(S), t # <<>>
  PROVE  Append(s, Head(t)) \o Tail(t) = s \o t
<1> DEFINE a == Append(s, Head(t))
           u == Tail(t)
           l == a \o u
           r == s \o t
<1>1. /\ Head(t) = t[1] /\ Head(t) \in S /\ u \in Seq(S) /\ Len(t) \in Nat /\ Len(t) >= 1
      /\ Len(u) = Len(t) - 1 /\ \A i \in 1..Len(t) - 1 : u[i] = t[i + 1]
  BY TailFacts
<1>2. /\ a \in Seq(S) /\ Len(s) \in Nat /\ Len(a) = Len(s) + 1
      /\ \A i \in 1..Len(s) : a[i] = s[i]
      /\ a[Len(s) + 1] = t[1]
  BY <1>1, AppendFacts
<1> HIDE DEF a, u
<1>3. /\ l \in Seq(S) /\ Len(l) = Len(a) + Len(u)
      /\ \A i \in 1..Len(a) : l[i] = a[i]
      /\ \A i \in 1..Len(u) : l[Len(a) + i] = u[i]
  <2>1. a \in Seq(S) /\ u \in Seq(S) BY <1>1, <1>2
  <2> QED BY <2>1, ConcatFacts, SMT
<1>4. /\ r \in Seq(S) /\ Len(r) = Len(s) + Len(t)
      /\ \A i \in 1..Len(s) : r[i] = s[i]
      /\ \A i \in 1..Len(t) : r[Len(s) + i] = t[i]
  BY ConcatFacts
<1> HIDE DEF l, r
<1>5. Len(l) = Len(r) BY <1>1, <1>2, <1>3, <1>4
<1>6. ASSUME NEW i \in 1..Len(l) PROVE l[i] = r[i]
  <2>1. CASE i \in 1..Len(s) BY <1>2, <1>3, <1>4, <2>1
  <2>2. CASE i = Len(s) + 1
    <3>1. l[i] = a[i] /\ a[i] = t[1] BY <1>2, <1>3, <2>2
    <3>2. r[Len(s) + 1] = t[1] BY <1>1, <1>4
    <3> QED BY <3>1, <3>2, <2>2
  <2>3. CASE i > Len(s) + 1
    <3> DEFINE j == i - Len(a)
    <3>1. /\ i \in Nat /\ j \in 1..Len(u) /\ j \in 1..Len(t) - 1 /\ j + 1 \in 1..Len(t)
          /\ Len(a) + j = i /\ Len(s) + (j + 1) = i
      BY <1>1, <1>2, <1>3, <2>3
    <3> HIDE DEF j
    <3>2. l[Len(a) + j] = u[j] /\ u[j] = t[j + 1] /\ r[Len(s) + (j + 1)] = t[j + 1]
      BY <1>1, <1>3, <1>4, <3>1
    <3> QED BY <3>1, <3>2
  <2> QED BY <1>1, <1>2, <1>3, <2>1, <2>2, <2>3
<1>7. l = r BY <1>3, <1>4, <1>5, <1>6, SeqEqual
<1> QED BY <1>7 DEF l, r, a, u

\* One more frame is queued.
LEMMA ConcatAppend ==
  ASSUME NEW S, NEW s \in Seq(S), NEW t \in Seq(S), NEW e \in S
  PROVE  /\ Len(s \o Append(t, e)) = Len(s \o t) + 1
         /\ Len(s \o t) \in Nat
         /\ \A i \in 1..Len(s \o t) : (s \o Append(t, e))[i] = (s \o t)[i]
         /\ (s \o Append(t, e))[Len(s \o t) + 1] = e
<1>1. s \o t \in Seq(S) BY ConcatFacts
<1>2. s \o Append(t, e) = Append(s \o t, e) OBVIOUS
<1> QED BY <1>1, <1>2, AppendFacts

\* The tail of the queue is lost.
LEMMA ConcatPrefix ==
  ASSUME NEW S, NEW s \in Seq(S), NEW t \in Seq(S), NEW m \in 0..Len(t)
  PROVE  /\ Len(s \o SubSeq(t, 1, m)) <= Len(s \o t)
         /\ Len(s \o SubSeq(t, 1, m)) \in Nat /\ Len(s \o t) \in Nat
         /\ \A i \in 1..Len(s \o SubSeq(t, 1, m)) : (s \o SubSeq(t, 1, m))[i] = (s \o t)[i]
<1> DEFINE u == SubSeq(t, 1, m)
<1>1. /\ u \in Seq(S) /\ Len(u) = m /\ Len(t) \in Nat /\ \A i \in 1..m : u[i] = t[i]
  BY PrefixFacts
<1> HIDE DEF u
<1> DEFINE l == s \o u
           r == s \o t
<1>2. /\ Len(l) = Len(s) + Len(u) /\ Len(s) \in Nat
      /\ \A i \in 1..Len(s) : l[i] = s[i]
      /\ \A i \in 1..Len(u) : l[Len(s) + i] = u[i]
  <2>1. u \in Seq(S) BY <1>1
  <2> QED BY <2>1, ConcatFacts, SMT
<1>3. /\ Len(r) = Len(s) + Len(t)
      /\ \A i \in 1..Len(s) : r[i] = s[i]
      /\ \A i \in 1..Len(t) : r[Len(s) + i] = t[i]
  BY ConcatFacts
<1> HIDE DEF l, r
<1>4. ASSUME NEW i \in 1..Len(l) PROVE l[i] = r[i]
  <2>1. CASE i \in 1..Len(s) BY <1>2, <1>3, <2>1
  <2>2. CASE i > Len(s)
    <3> DEFINE j == i - Len(s)
    <3>1. i = Len(s) + j /\ j \in 1..Len(u) /\ j \in 1..m /\ j \in 1..Len(t)
      BY <1>1, <1>2, <2>2
    <3> HIDE DEF j
    <3>2. l[Len(s) + j] = u[j] /\ u[j] = t[j] /\ r[Len(s) + j] = t[j] BY <1>1, <1>2, <1>3, <3>1
    <3> QED BY <3>1, <3>2
  <2> QED BY <1>2, <2>1, <2>2
<1>5. Len(l) <= Len(r) /\ Len(l) \in Nat /\ Len(r) \in Nat BY <1>1, <1>2, <1>3
<1> QED BY <1>4, <1>5 DEF l, r, u

-----------------------------------------------------------------------------
(***************************************************************************)
(* The receiver of a direction d has read the first k of the frames s that *)
(* were sent in it.                                                        *)
(***************************************************************************)
Behind(k, s, d) ==
  /\ k + Len(d.q) <= Len(s)
  /\ \A i \in 1..Len(d.q) : d.q[i] = s[k + i]
  /\ Alive(d) => k + Len(d.q) = Len(s)

\* The frame that is read next.
LEMMA BehindPop ==
  ASSUME NEW T, NEW k \in Nat, NEW s \in Seq(Frames(T)), NEW d \in Directions(T),
         Behind(k, s, d), d.q # <<>>
  PROVE  /\ k + 1 \in 1..Len(s) /\ Len(s) \in Nat /\ Head(d.q) = s[k + 1]
         /\ Behind(k + 1, s, Popped(d))
<1> DEFINE q == d.q
           t == Tail(q)
<1>1. q \in Seq(Frames(T)) /\ Popped(d).q = t /\ Popped(d).end = d.end /\ q # <<>>
  BY PoppedFacts
<1>2. /\ Len(q) \in Nat /\ Len(q) >= 1 /\ Len(t) = Len(q) - 1 /\ Head(q) = q[1]
      /\ \A i \in 1..Len(q) - 1 : t[i] = q[i + 1]
  BY <1>1, TailFacts
<1>3. /\ k + Len(q) <= Len(s) /\ Len(s) \in Nat
      /\ \A i \in 1..Len(q) : q[i] = s[k + i]
      /\ Alive(d) => k + Len(q) = Len(s)
  BY DEF Behind
<1> HIDE DEF q, t
<1>4. k + 1 \in 1..Len(s) /\ 1 \in 1..Len(q) BY <1>2, <1>3
<1>5. Head(q) = s[k + 1] BY <1>2, <1>3, <1>4
<1>6. (k + 1) + Len(t) <= Len(s) /\ (Alive(d) => (k + 1) + Len(t) = Len(s))
  <2>1. Len(t) = Len(q) - 1 /\ Len(q) \in Nat /\ Len(s) \in Nat /\ k + Len(q) <= Len(s)
    BY <1>2, <1>3
  <2>2. (k + 1) + Len(t) = k + Len(q) BY <2>1
  <2> QED BY <1>3, <2>1, <2>2
<1>7. ASSUME NEW i \in 1..Len(t) PROVE t[i] = s[(k + 1) + i]
  <2>1. i \in 1..Len(q) - 1 /\ i + 1 \in 1..Len(q) /\ k + (i + 1) = (k + 1) + i BY <1>2
  <2>2. t[i] = q[i + 1] BY <1>2, <2>1
  <2>3. q[i + 1] = s[k + (i + 1)] BY <1>3, <2>1
  <2> QED BY <2>1, <2>2, <2>3
<1>8. Alive(Popped(d)) <=> Alive(d) BY <1>1 DEF Alive
<1>9. Head(d.q) = s[k + 1] BY <1>5 DEF q
<1>10. Behind(k + 1, s, Popped(d)) BY <1>1, <1>6, <1>7, <1>8 DEF Behind
<1> QED BY <1>3, <1>4, <1>9, <1>10

\* The direction fails: an arbitrary prefix of the queue stays.
LEMMA BehindCut ==
  ASSUME NEW T, NEW k \in Nat, NEW s \in Seq(Frames(T)), NEW d \in Directions(T),
         NEW c \in CutsOf(d), Behind(k, s, d)
  PROVE  Behind(k, s, c)
<1> DEFINE q == d.q
           t == c.q
<1>1. q \in Seq(Frames(T)) /\ c.end = "err" BY CutFacts
<1>2. PICK m \in 0..Len(q) : t = SubSeq(q, 1, m) BY CutFacts
<1>3. /\ Len(t) = m /\ Len(q) \in Nat /\ Len(s) \in Nat
      /\ \A i \in 1..m : t[i] = q[i]
  BY <1>1, <1>2, PrefixFacts
<1>4. k + Len(q) <= Len(s) /\ \A i \in 1..Len(q) : q[i] = s[k + i] BY DEF Behind
<1> HIDE DEF q, t
<1>5. m \in Nat /\ m <= Len(q) /\ \A i \in 1..m : i \in 1..Len(q) BY <1>2, <1>3
<1>6. k + m <= Len(s) BY <1>3, <1>4, <1>5
<1>7. \A i \in 1..m : t[i] = s[k + i] BY <1>3, <1>4, <1>5
<1>8. k + Len(c.q) <= Len(s) /\ \A i \in 1..Len(c.q) : c.q[i] = s[k + i]
  BY <1>3, <1>6, <1>7 DEF t
<1> QED BY <1>1, <1>8 DEF Behind, Alive

\* The sender finishes the direction.
LEMMA BehindEnded ==
  ASSUME NEW T, NEW k \in Nat, NEW s, NEW d \in Directions(T), d.end = "open", Behind(k, s, d)
  PROVE  Behind(k, s, Ended(d)) /\ Ended(d) \in Directions(T) /\ Ended(d).q = d.q
<1>1. Ended(d) \in Directions(T) /\ Ended(d).q = d.q BY DEF Ended, Directions
<1>2. Alive(d) BY DEF Alive
<1> QED BY <1>1, <1>2 DEF Behind

\* A frame is sent.
LEMMA BehindSent ==
  ASSUME NEW T, NEW k \in Nat, NEW s \in Seq(Frames(T)), NEW d \in Directions(T),
         Alive(d), NEW e \in Frames(T), Behind(k, s, d)
  PROVE  Behind(k, Append(s, e), Sent(d, e)) /\ k <= Len(s)
<1> DEFINE q == d.q
           t == Sent(d, e).q
           r == Append(s, e)
<1>1. q \in Seq(Frames(T)) /\ t = Append(q, e) BY SentFacts
<1>2. /\ Len(q) \in Nat /\ Len(t) = Len(q) + 1 /\ t[Len(q) + 1] = e
      /\ \A i \in 1..Len(q) : t[i] = q[i]
  BY <1>1, AppendFacts
<1>3. /\ Len(s) \in Nat /\ Len(r) = Len(s) + 1 /\ r[Len(s) + 1] = e
      /\ \A i \in 1..Len(s) : r[i] = s[i]
  BY AppendFacts
<1>4. k + Len(q) = Len(s) /\ \A i \in 1..Len(q) : q[i] = s[k + i] BY DEF Behind
<1> HIDE DEF q, t, r
<1>5. k + Len(t) = Len(r) /\ k + Len(t) <= Len(r) /\ k <= Len(s) BY <1>2, <1>3, <1>4
<1>6. ASSUME NEW i \in 1..Len(t) PROVE t[i] = r[k + i]
  <2>1. CASE i \in 1..Len(q)
    <3>1. k + i \in 1..Len(s) BY <1>2, <1>3, <1>4, <2>1
    <3> QED BY <1>2, <1>3, <1>4, <2>1, <3>1
  <2>2. CASE i = Len(q) + 1
    <3>1. k + i = Len(s) + 1 BY <1>2, <1>3, <1>4, <2>2
    <3> QED BY <1>2, <1>3, <2>2, <3>1
  <2> QED BY <1>2, <2>1, <2>2
<1> QED BY <1>5, <1>6 DEF Behind, t, r

-----------------------------------------------------------------------------
(***************************************************************************)
(* A peer was written the members of A up to k.                            *)
(***************************************************************************)
KeptUp(k, A, g) ==
  /\ \A j \in A : j <= k => \E h \in DOMAIN g : g[h] = j
  /\ \A h \in DOMAIN g : g[h] <= k

\* It is written the next member.
LEMMA ListNext ==
  ASSUME NEW A \in SUBSET Nat, NEW k \in Nat, NEW g \in Seq(Nat), FirstOf(g, A), KeptUp(k, A, g),
         k + 1 \in A
  PROVE  FirstOf(Append(g, k + 1), A) /\ KeptUp(k + 1, A, Append(g, k + 1))
<1> DEFINE r == Append(g, k + 1)
<1>1. /\ r \in Seq(Nat) /\ Len(g) \in Nat /\ Len(r) = Len(g) + 1
      /\ \A i \in 1..Len(g) : r[i] = g[i]
      /\ r[Len(g) + 1] = k + 1
  BY AppendFacts
<1>2. DOMAIN g = 1..Len(g) /\ \A h \in 1..Len(g) : g[h] \in Nat OBVIOUS
<1> HIDE DEF r
<1>3. DOMAIN r = 1..Len(g) + 1 BY <1>1
<1>4. KeptUp(k + 1, A, r)
  <2>1. ASSUME NEW j \in A, j <= k + 1 PROVE \E h \in DOMAIN r : r[h] = j
    <3>1. CASE j = k + 1
      <4>1. Len(g) + 1 \in DOMAIN r /\ r[Len(g) + 1] = j BY <1>1, <1>3, <3>1
      <4> QED BY <4>1
    <3>2. CASE j # k + 1
      <4>1. j \in Nat /\ j <= k BY <2>1, <3>2
      <4>2. PICK h \in DOMAIN g : g[h] = j BY <4>1 DEF KeptUp
      <4> QED BY <1>1, <1>2, <1>3, <4>2
    <3> QED BY <3>1, <3>2
  <2>2. ASSUME NEW h \in DOMAIN r PROVE r[h] <= k + 1
    <3>1. CASE h \in 1..Len(g)
      <4>1. r[h] = g[h] /\ g[h] <= k /\ g[h] \in Nat BY <1>1, <1>2, <3>1 DEF KeptUp
      <4> QED BY <4>1
    <3>2. CASE h = Len(g) + 1 BY <1>1, <3>2
    <3> QED BY <1>1, <1>3, <3>1, <3>2
  <2> QED BY <2>1, <2>2 DEF KeptUp
<1>5. ASSUME NEW i \in DOMAIN r
      PROVE  /\ r[i] \in A
             /\ \A h \in 1..i - 1 : r[h] < r[i]
             /\ \A m \in A : m < r[i] => \E h \in 1..i - 1 : r[h] = m
  <2>1. CASE i \in 1..Len(g)
    <3>1. /\ g[i] \in A
          /\ \A h \in 1..i - 1 : g[h] < g[i]
          /\ \A m \in A : m < g[i] => \E h \in 1..i - 1 : g[h] = m
      BY <1>2, <2>1 DEF FirstOf
    <3>2. r[i] = g[i] /\ \A h \in 1..i - 1 : r[h] = g[h] BY <1>1, <2>1
    <3>3. ASSUME NEW m \in A, m < r[i] PROVE \E h \in 1..i - 1 : r[h] = m
      <4>1. PICK h \in 1..i - 1 : g[h] = m BY <3>1, <3>2, <3>3
      <4> QED BY <3>2, <4>1
    <3>4. \A h \in 1..i - 1 : r[h] < r[i] BY <3>1, <3>2
    <3> QED BY <3>1, <3>2, <3>3, <3>4
  <2>2. CASE i = Len(g) + 1
    <3>1. /\ r[i] = k + 1 /\ i - 1 = Len(g)
          /\ \A h \in 1..Len(g) : r[h] = g[h]
      BY <1>1, <2>2
    <3>2. \A h \in 1..Len(g) : g[h] <= k /\ g[h] \in Nat BY <1>2 DEF KeptUp
    <3>3. ASSUME NEW m \in A, m < k + 1 PROVE \E h \in 1..Len(g) : r[h] = m
      <4>1. m \in Nat /\ m <= k BY <3>3
      <4>2. PICK h \in DOMAIN g : g[h] = m BY <4>1 DEF KeptUp
      <4> QED BY <1>2, <3>1, <4>2
    <3>4. \A h \in 1..Len(g) : r[h] < k + 1 BY <3>1, <3>2
    <3> QED BY <3>1, <3>3, <3>4
  <2> QED BY <1>1, <1>3, <2>1, <2>2
<1>6. FirstOf(r, A) BY <1>5 DEF FirstOf
<1> QED BY <1>4, <1>6 DEF r

\* A frame that is not a member is passed over.
LEMMA ListSkip ==
  ASSUME NEW A \in SUBSET Nat, NEW k \in Nat, NEW g \in Seq(Nat), KeptUp(k, A, g), k + 1 \notin A
  PROVE  KeptUp(k + 1, A, g)
<1>1. \A j \in A : j <= k + 1 => j <= k
  <2>1. \A j \in A : j \in Nat /\ j # k + 1 OBVIOUS
  <2> QED BY <2>1
<1>2. \A h \in DOMAIN g : g[h] \in Nat /\ g[h] <= k BY DEF KeptUp
<1>3. \A h \in DOMAIN g : g[h] <= k + 1 BY <1>2
<1> QED BY <1>1, <1>3 DEF KeptUp

\* The set gets a larger member.
LEMMA ListMore ==
  ASSUME NEW n \in Nat, NEW A \in SUBSET (1..n), NEW B, A \subseteq B, B \subseteq A \cup {n + 1},
         NEW g \in Seq(Nat)
  PROVE  /\ FirstOf(g, A) => FirstOf(g, B)
         /\ \A k \in 0..n : KeptUp(k, A, g) => KeptUp(k, B, g)
<1>1. ASSUME FirstOf(g, A), NEW k \in DOMAIN g
      PROVE  /\ g[k] \in B
             /\ \A h \in 1..k - 1 : g[h] < g[k]
             /\ \A m \in B : m < g[k] => \E h \in 1..k - 1 : g[h] = m
  <2>1. /\ g[k] \in A
        /\ \A h \in 1..k - 1 : g[h] < g[k]
        /\ \A m \in A : m < g[k] => \E h \in 1..k - 1 : g[h] = m
    BY <1>1 DEF FirstOf
  <2>2. g[k] \in 1..n BY <2>1
  <2>3. \A m \in B : m < g[k] => m \in A BY <2>2
  <2> QED BY <2>1, <2>3
<1>2. ASSUME NEW k \in 0..n, KeptUp(k, A, g) PROVE KeptUp(k, B, g)
  <2>1. \A m \in B : m <= k => m \in A OBVIOUS
  <2> QED BY <1>2, <2>1 DEF KeptUp
<1> QED BY <1>1, <1>2 DEF FirstOf

-----------------------------------------------------------------------------
(***************************************************************************)
(* The client alone: the request.                                          *)
(***************************************************************************)
ClientAloneTyped ==
  /\ req \in Directions(ClientTypes) /\ rsp \in Directions(ServerTypes)
  /\ ClientTypeOK
  /\ cpc = "opening" => l2g = "none"
  /\ said \in Seq(Frames(ServerTypes)) /\ heard \in Seq(Frames(ClientTypes))

RequestOK(r) ==
  \A i \in 1..Len(r) :
    /\ r[i].type = "Open" <=> i = 1
    /\ r[i].type = "Data" => r[i].n = r[1].n + i - 1
    /\ r[i].type \in {"HalfClose", "Reset"} => i = Len(r)

\* The request can go on with the next chunk: all that were read are in it.
Unfinished(r, taken) ==
  /\ Len(r) >= 1 /\ taken = r[1].n + Len(r) - 1
  /\ \A i \in 1..Len(r) : r[i].type \notin {"HalfClose", "Reset"}

RequestInv ==
  /\ RequestOK(Request)
  /\ Alive(req) /\ l2g # "exit" => Unfinished(Request, app.taken)

\* What is left of a request that was cut short can still be followed.
LEMMA RequestPrefix ==
  ASSUME NEW r, NEW s, Len(r) \in Nat, Len(s) \in Nat, Len(s) <= Len(r),
         \A i \in 1..Len(s) : s[i] = r[i], RequestOK(r)
  PROVE  RequestOK(s)
  BY DEF RequestOK

\* One more frame of local_to_grpc.
LEMMA RequestAppend ==
  ASSUME NEW r, NEW s, NEW taken, NEW f, Len(r) \in Nat, Len(s) = Len(r) + 1,
         \A i \in 1..Len(r) : s[i] = r[i], s[Len(r) + 1] = f,
         RequestOK(r), Unfinished(r, taken), r[1].n \in Nat,
         f.type \in {"Data", "HalfClose", "Reset"}, f.type = "Data" => f.n = taken + 1
  PROVE  RequestOK(s) /\ (f.type = "Data" => Unfinished(s, taken + 1))
<1>1. Len(r) >= 1 /\ taken = r[1].n + Len(r) - 1 /\ 1 \in 1..Len(r) BY DEF Unfinished
<1>2. s[1] = r[1] BY <1>1
<1>3. ASSUME NEW i \in 1..Len(s)
      PROVE  /\ s[i].type = "Open" <=> i = 1
             /\ s[i].type = "Data" => s[i].n = s[1].n + i - 1
             /\ s[i].type \in {"HalfClose", "Reset"} => i = Len(s) /\ f.type # "Data"
  <2>1. CASE i \in 1..Len(r)
    <3>1. s[i] = r[i] /\ r[i].type \notin {"HalfClose", "Reset"} BY <2>1 DEF Unfinished
    <3> QED BY <1>2, <2>1, <3>1 DEF RequestOK
  <2>2. CASE i = Len(r) + 1 BY <1>1, <1>2, <2>2
  <2> QED BY <2>1, <2>2
<1>4. RequestOK(s) BY <1>3 DEF RequestOK
<1>5. f.type = "Data" => Unfinished(s, taken + 1) BY <1>1, <1>2, <1>3 DEF Unfinished
<1> QED BY <1>4, <1>5

\* A step that sends nothing and reads nothing keeps the request as it is.
LEMMA RequestFrame ==
  ASSUME RequestInv, Request' = Request, app'.taken = app.taken,
         Alive(req)' => Alive(req), l2g' # "exit" => l2g # "exit"
  PROVE  RequestInv'
<1>1. RequestOK(Request)' BY DEF RequestInv, RequestOK
<1>2. (Alive(req) /\ l2g # "exit" => Unfinished(Request, app.taken))'
  BY DEF RequestInv, Unfinished
<1> QED BY <1>1, <1>2 DEF RequestInv

\* The server reads a frame of the request.
LEMMA RequestHeard ==
  ASSUME ClientAloneTyped, RequestInv, ServerHears
  PROVE  RequestInv'
<1>1. /\ req' = Popped(req) /\ heard' = Append(heard, Head(req.q)) /\ req.q # <<>>
      /\ app' = app /\ l2g' = l2g
  BY DEF ServerHears, clientVars
<1>2. req \in Directions(ClientTypes) /\ heard \in Seq(Frames(ClientTypes)) BY DEF ClientAloneTyped
<1>3. req'.q = Tail(req.q) /\ req'.end = req.end /\ req.q \in Seq(Frames(ClientTypes))
  BY <1>1, <1>2, PoppedFacts
<1>4. Request' = Append(heard, Head(req.q)) \o Tail(req.q) BY <1>1, <1>3 DEF Request
<1>5. Append(heard, Head(req.q)) \o Tail(req.q) = heard \o req.q
  BY <1>1, <1>2, <1>3, ConcatPop, Zenon
<1>6. Request' = Request BY <1>4, <1>5 DEF Request
<1>7. Alive(req)' <=> Alive(req) BY <1>3 DEF Alive
<1> QED BY <1>1, <1>6, <1>7, RequestFrame

\* The request fails.
LEMMA RequestCut ==
  ASSUME ClientAloneTyped, RequestInv, req' \in CutsOf(req), heard' = heard
  PROVE  RequestInv'
<1>1. req \in Directions(ClientTypes) /\ heard \in Seq(Frames(ClientTypes)) BY DEF ClientAloneTyped
<1>2. PICK m \in 0..Len(req.q) : req'.q = SubSeq(req.q, 1, m) BY <1>1, CutFacts
<1>3. req'.end = "err" /\ req.q \in Seq(Frames(ClientTypes)) BY <1>1, CutFacts
<1>4. Request' = heard \o SubSeq(req.q, 1, m) BY <1>2 DEF Request
<1>5. /\ Len(Request') <= Len(Request) /\ Len(Request') \in Nat /\ Len(Request) \in Nat
      /\ \A i \in 1..Len(Request') : Request'[i] = Request[i]
  BY <1>1, <1>3, <1>4, ConcatPrefix DEF Request
<1>6. RequestOK(Request) BY DEF RequestInv
<1>7. RequestOK(Request') BY <1>5, <1>6, RequestPrefix
<1>8. RequestOK(Request)' BY <1>7 DEF RequestOK
<1> QED BY <1>3, <1>8 DEF RequestInv, Alive

\* local_to_grpc offers a frame to the request.
LEMMA RequestSent ==
  ASSUME ClientAloneTyped, RequestInv, heard' = heard, l2g # "exit",
         NEW f \in Frames(ClientTypes), req' = Sent(req, f),
         \/ f = Frame("Data", app.taken + 1) /\ app'.taken = app.taken + 1
         \/ f.type \in {"HalfClose", "Reset"} /\ l2g' = "exit"
  PROVE  RequestInv'
<1>1. /\ req \in Directions(ClientTypes) /\ heard \in Seq(Frames(ClientTypes))
      /\ app.taken \in Nat
  BY DEF ClientAloneTyped, ClientTypeOK, Peers
<1>2. /\ req'.end = req.end /\ req.q \in Seq(Frames(ClientTypes))
      /\ Alive(req) => req'.q = Append(req.q, f)
      /\ ~Alive(req) => req' = req
  BY <1>1, SentFacts
<1>3. CASE ~Alive(req)
  <2>1. Request' = Request BY <1>2, <1>3 DEF Request
  <2>2. RequestOK(Request)' BY <2>1 DEF RequestInv, RequestOK
  <2> QED BY <1>2, <1>3, <2>2 DEF RequestInv, Alive
<1>4. CASE Alive(req)
  <2> DEFINE r == Request
             s == Request'
  <2>1. s = heard \o Append(req.q, f) BY <1>2, <1>4 DEF Request
  <2>2. r = heard \o req.q BY DEF Request
  <2>3. /\ Len(s) = Len(r) + 1 /\ Len(r) \in Nat
        /\ \A i \in 1..Len(r) : s[i] = r[i]
        /\ s[Len(r) + 1] = f
    <3>1. heard \in Seq(Frames(ClientTypes)) /\ req.q \in Seq(Frames(ClientTypes)) BY <1>1, <1>2
    <3> DEFINE q == req.q
    <3> HIDE DEF q
    <3>2. /\ Len(heard \o Append(q, f)) = Len(heard \o q) + 1 /\ Len(heard \o q) \in Nat
          /\ \A i \in 1..Len(heard \o q) : (heard \o Append(q, f))[i] = (heard \o q)[i]
          /\ (heard \o Append(q, f))[Len(heard \o q) + 1] = f
      <4>1. q \in Seq(Frames(ClientTypes)) BY <3>1 DEF q
      <4> QED BY <3>1, <4>1, ConcatAppend, SMT
    <3>3. s = heard \o Append(q, f) /\ r = heard \o q BY <2>1, <2>2 DEF q
    <3> HIDE DEF s, r
    <3> QED BY <3>2, <3>3, Zenon
  <2>4. r \in Seq(Frames(ClientTypes)) BY <1>1, <1>2, <2>2, ConcatFacts
  <2>5. RequestOK(r) /\ Unfinished(r, app.taken) BY <1>4 DEF RequestInv
  <2>6. r[1].n \in Nat
    <3>1. 1 \in 1..Len(r) BY <2>3, <2>5 DEF Unfinished
    <3>2. r[1] \in Frames(ClientTypes) BY <2>4, <3>1
    <3> QED BY <3>2 DEF Frames
  <2>7. /\ f.type \in {"Data", "HalfClose", "Reset"}
        /\ f.type = "Data" => f.n = app.taken + 1 /\ app'.taken = app.taken + 1
        /\ f.type # "Data" => l2g' = "exit"
    BY DEF Frame
  <2> HIDE DEF r, s
  <2>8. RequestOK(s) /\ (f.type = "Data" => Unfinished(s, app.taken + 1))
    BY <2>3, <2>5, <2>6, <2>7, RequestAppend
  <2>9. RequestOK(Request)' BY <2>8 DEF s, RequestOK
  <2>10. l2g' # "exit" => Unfinished(Request, app.taken)' BY <2>7, <2>8 DEF s, Unfinished
  <2> QED BY <2>9, <2>10 DEF RequestInv
<1> QED BY <1>3, <1>4

-----------------------------------------------------------------------------
(***************************************************************************)
(* The client alone: the response.                                         *)
(***************************************************************************)
ServedIn(s) ==
  {i \in DOMAIN s : /\ s[i].type = "Data" /\ s[1] = Frame("OpenResult", 1)
                    /\ \A j \in 2..i : s[j].type \in {"Data", "Pong"}}

Accepted(k, s) ==
  /\ k >= 1 /\ s[1] = Frame("OpenResult", 1)
  /\ \A j \in 2..k : s[j].type \in {"Data", "Pong"}

Follows(k, s, d, pc, g) ==
  /\ Behind(k, s, d)
  /\ pc = "opening" => k = 0
  /\ pc = "relaying" => Accepted(k, s)
  /\ KeptUp(k, ServedIn(s), g)

PlacesNumbered(s) == \A i \in DOMAIN s : s[i].type = "Data" => s[i].n = i

ServedInv ==
  /\ PlacesNumbered(said)
  /\ FirstOf(app.got, ServedIn(said))
  /\ ~ClientEnded => \E k \in Nat : Follows(k, said, rsp, cpc, app.got)

\* What is served are places of the response.
LEMMA ServedPlaces ==
  ASSUME NEW S, NEW s \in Seq(S)
  PROVE  ServedIn(s) \in SUBSET (1..Len(s)) /\ ServedIn(s) \in SUBSET Nat /\ Len(s) \in Nat
  BY DEF ServedIn

\* A frame that is not for the application.
LEMMA FollowsOther ==
  ASSUME NEW k \in Nat, NEW s \in Seq(Frames(ServerTypes)), NEW d \in Directions(ServerTypes),
         NEW pc, NEW g \in Seq(Nat), Follows(k, s, d, pc, g), d.q # <<>>,
         \/ pc = "relaying" /\ Head(d.q).type = "Pong"
         \/ pc = "opening" /\ Head(d.q) = Frame("OpenResult", 1)
  PROVE  Follows(k + 1, s, Popped(d), "relaying", g)
<1>1. k + 1 \in 1..Len(s) /\ Head(d.q) = s[k + 1] /\ Behind(k + 1, s, Popped(d))
  BY BehindPop DEF Follows
<1>2. s[k + 1].type # "Data" BY <1>1 DEF Frame
<1>3. k + 1 \notin ServedIn(s) BY <1>2 DEF ServedIn
<1>4. KeptUp(k + 1, ServedIn(s), g) BY <1>3, ServedPlaces, ListSkip DEF Follows
<1>5. Accepted(k + 1, s)
  <2>1. CASE pc = "relaying" /\ Head(d.q).type = "Pong"
    <3>1. k >= 1 /\ s[1] = Frame("OpenResult", 1) /\ \A j \in 2..k : s[j].type \in {"Data", "Pong"}
      BY <2>1 DEF Follows, Accepted
    <3>2. s[k + 1].type = "Pong" BY <1>1, <2>1
    <3>3. \A j \in 2..k + 1 : j = k + 1 \/ j \in 2..k OBVIOUS
    <3> QED BY <3>1, <3>2, <3>3 DEF Accepted
  <2>2. CASE pc = "opening" /\ Head(d.q) = Frame("OpenResult", 1)
    <3>1. k = 0 BY <2>2 DEF Follows
    <3> QED BY <1>1, <2>2, <3>1 DEF Accepted
  <2> QED BY <2>1, <2>2
<1> QED BY <1>1, <1>4, <1>5 DEF Follows

\* A chunk, which is written to the application.
LEMMA FollowsData ==
  ASSUME NEW k \in Nat, NEW s \in Seq(Frames(ServerTypes)), NEW d \in Directions(ServerTypes),
         NEW g \in Seq(Nat), Follows(k, s, d, "relaying", g), d.q # <<>>, Head(d.q).type = "Data",
         PlacesNumbered(s), FirstOf(g, ServedIn(s))
  PROVE  /\ Head(d.q).n \in Nat
         /\ Follows(k + 1, s, Popped(d), "relaying", Append(g, Head(d.q).n))
         /\ FirstOf(Append(g, Head(d.q).n), ServedIn(s))
<1>1. k + 1 \in 1..Len(s) /\ Head(d.q) = s[k + 1] /\ Behind(k + 1, s, Popped(d))
  BY BehindPop DEF Follows
<1>2. DOMAIN s = 1..Len(s) /\ s[k + 1].type = "Data" BY <1>1
<1>3. Head(d.q).n = k + 1 BY <1>1, <1>2 DEF PlacesNumbered
<1>4. k >= 1 /\ s[1] = Frame("OpenResult", 1) /\ \A j \in 2..k : s[j].type \in {"Data", "Pong"}
  BY DEF Follows, Accepted
<1>5. \A j \in 2..k + 1 : s[j].type \in {"Data", "Pong"}
  <2>1. \A j \in 2..k + 1 : j = k + 1 \/ j \in 2..k OBVIOUS
  <2> QED BY <1>2, <1>4, <2>1
<1>6. k + 1 \in ServedIn(s) BY <1>1, <1>2, <1>4, <1>5 DEF ServedIn
<1>7. Accepted(k + 1, s) BY <1>4, <1>5 DEF Accepted
<1>8. FirstOf(Append(g, k + 1), ServedIn(s)) /\ KeptUp(k + 1, ServedIn(s), Append(g, k + 1))
  BY <1>6, ServedPlaces, ListNext DEF Follows
<1>9. Follows(k + 1, s, Popped(d), "relaying", Append(g, k + 1)) BY <1>1, <1>7, <1>8 DEF Follows
<1> QED BY <1>3, <1>8, <1>9

\* The response fails.
LEMMA FollowsCut ==
  ASSUME NEW k \in Nat, NEW s \in Seq(Frames(ServerTypes)), NEW d \in Directions(ServerTypes),
         NEW c \in CutsOf(d), NEW pc, NEW g, Follows(k, s, d, pc, g)
  PROVE  Follows(k, s, c, pc, g)
<1>1. Behind(k, s, c) BY BehindCut DEF Follows
<1> QED BY <1>1 DEF Follows

\* What is served does not depend on the frames behind it.
LEMMA ServedMore ==
  ASSUME NEW S, NEW s \in Seq(S), NEW e \in S
  PROVE  /\ ServedIn(s) \subseteq ServedIn(Append(s, e))
         /\ ServedIn(Append(s, e)) \subseteq ServedIn(s) \cup {Len(s) + 1}
<1> DEFINE r == Append(s, e)
<1>1. /\ Len(s) \in Nat /\ DOMAIN s = 1..Len(s) /\ DOMAIN r = 1..Len(s) + 1
      /\ \A i \in 1..Len(s) : r[i] = s[i]
  BY AppendFacts
<1> HIDE DEF r
<1>2. ASSUME NEW j \in 1..Len(s) PROVE j \in ServedIn(r) <=> j \in ServedIn(s)
  <2>1. 1 \in 1..Len(s) /\ \A i \in 2..j : i \in 1..Len(s) BY <1>1
  <2>2. r[1] = s[1] /\ r[j] = s[j] /\ \A i \in 2..j : r[i] = s[i] BY <1>1, <2>1
  <2>3. j \in DOMAIN r /\ j \in DOMAIN s BY <1>1
  <2> QED BY <2>2, <2>3 DEF ServedIn
<1>3. ServedIn(s) \subseteq 1..Len(s) /\ ServedIn(r) \subseteq 1..Len(s) + 1 BY <1>1 DEF ServedIn
<1>4. \A j \in 1..Len(s) + 1 : j \in 1..Len(s) \/ j = Len(s) + 1 BY <1>1
<1>5. ServedIn(s) \subseteq ServedIn(r) /\ ServedIn(r) \subseteq ServedIn(s) \cup {Len(s) + 1}
  BY <1>2, <1>3, <1>4
<1> QED BY <1>5 DEF r

\* The server sends a frame.
LEMMA FollowsSays ==
  ASSUME NEW k \in Nat, NEW s \in Seq(Frames(ServerTypes)), NEW d \in Directions(ServerTypes),
         NEW pc, NEW g \in Seq(Nat), Follows(k, s, d, pc, g), Alive(d),
         NEW e \in Frames(ServerTypes)
  PROVE  Follows(k, Append(s, e), Sent(d, e), pc, g)
<1> DEFINE r == Append(s, e)
<1>1. Behind(k, r, Sent(d, e)) /\ k <= Len(s) BY BehindSent DEF Follows
<1>2. /\ Len(s) \in Nat /\ \A i \in 1..Len(s) : r[i] = s[i] BY AppendFacts
<1>3. KeptUp(k, ServedIn(r), g)
  <2>1. ServedIn(s) \subseteq ServedIn(r) /\ ServedIn(r) \subseteq ServedIn(s) \cup {Len(s) + 1}
    BY ServedMore
  <2>2. ServedIn(s) \in SUBSET (1..Len(s)) /\ k \in 0..Len(s) BY <1>1, <1>2, ServedPlaces
  <2>3. KeptUp(k, ServedIn(s), g) BY DEF Follows
  <2> HIDE DEF r
  <2> QED BY <1>2, <2>1, <2>2, <2>3, ListMore
<1> HIDE DEF r
<1>4. pc = "relaying" => Accepted(k, r)
  <2> SUFFICES ASSUME pc = "relaying" PROVE Accepted(k, r) OBVIOUS
  <2>1. k >= 1 /\ s[1] = Frame("OpenResult", 1) /\ \A j \in 2..k : s[j].type \in {"Data", "Pong"}
    BY DEF Follows, Accepted
  <2>2. 1 \in 1..Len(s) /\ \A j \in 2..k : j \in 1..Len(s) BY <1>1, <1>2, <2>1
  <2> QED BY <1>2, <2>1, <2>2 DEF Accepted
<1>5. Follows(k, r, Sent(d, e), pc, g) BY <1>1, <1>3, <1>4 DEF Follows
<1> QED BY <1>5 DEF r

-----------------------------------------------------------------------------
(***************************************************************************)
(* The client alone: its steps and those of its partners.                  *)
(***************************************************************************)
ClientAloneInv == ClientAloneTyped /\ RequestInv /\ ServedInv

\* What a well-typed state of the client alone is made of.
LEMMA ClientAloneFacts ==
  ASSUME ClientAloneTyped
  PROVE  /\ req \in Directions(ClientTypes) /\ rsp \in Directions(ServerTypes)
         /\ req.q \in Seq(Frames(ClientTypes)) /\ rsp.q \in Seq(Frames(ServerTypes))
         /\ app \in Peers /\ app.got \in Seq(Nat) /\ app.taken \in Nat
         /\ said \in Seq(Frames(ServerTypes)) /\ heard \in Seq(Frames(ClientTypes))
         /\ cpc \in {"opening", "relaying"} \cup ClientResults /\ l2g \in TaskStates
  BY DEF ClientAloneTyped, ClientTypeOK, Peers, Directions

\* A step that leaves the response and relay_grpc alone.
LEMMA ServedFrame ==
  ASSUME ServedInv, UNCHANGED <<rsp, said, cpc>>, app'.got = app.got
  PROVE  ServedInv'
<1>1. ClientEnded' <=> ClientEnded BY DEF ClientEnded
<1>2. PlacesNumbered(said)' BY DEF ServedInv, PlacesNumbered
<1>3. FirstOf(app'.got, ServedIn(said')) BY DEF ServedInv
<1>4. ~ClientEnded => \E k \in Nat : Follows(k, said', rsp', cpc', app'.got) BY DEF ServedInv
<1> QED BY <1>1, <1>2, <1>3, <1>4 DEF ServedInv

\* relay_grpc returns.
LEMMA ServedReturn ==
  ASSUME ServedInv, said' = said, cpc' \in ClientResults, app'.got = app.got
  PROVE  ServedInv'
<1>1. ClientEnded' BY DEF ClientEnded
<1>2. PlacesNumbered(said)' BY DEF ServedInv, PlacesNumbered
<1>3. FirstOf(app'.got, ServedIn(said')) BY DEF ServedInv
<1> QED BY <1>1, <1>2, <1>3 DEF ServedInv

\* relay_grpc goes on.
LEMMA ServedGoesOn ==
  ASSUME ServedInv, said' = said, NEW k \in Nat, Follows(k, said, rsp', cpc', app'.got),
         FirstOf(app'.got, ServedIn(said))
  PROVE  ServedInv'
<1>1. PlacesNumbered(said)' BY DEF ServedInv, PlacesNumbered
<1>2. FirstOf(app'.got, ServedIn(said')) /\ Follows(k, said', rsp', cpc', app'.got) OBVIOUS
<1> QED BY <1>1, <1>2 DEF ServedInv

\* The response fails.
LEMMA ServedCut ==
  ASSUME ClientAloneTyped, ServedInv, rsp' \in CutsOf(rsp), UNCHANGED <<said, cpc, app>>
  PROVE  ServedInv'
<1>1. rsp \in Directions(ServerTypes) /\ said \in Seq(Frames(ServerTypes)) BY ClientAloneFacts
<1>2. CASE ClientEnded BY <1>2, ServedReturn DEF ClientEnded
<1>3. CASE ~ClientEnded
  <2>1. PICK k \in Nat : Follows(k, said, rsp, cpc, app.got) BY <1>3 DEF ServedInv
  <2>2. Follows(k, said, rsp', cpc, app.got) BY <1>1, <2>1, FollowsCut
  <2>3. Follows(k, said, rsp', cpc', app'.got) /\ FirstOf(app'.got, ServedIn(said))
    BY <2>2 DEF ServedInv
  <2> QED BY <2>3, ServedGoesOn
<1> QED BY <1>2, <1>3

\* Cut(d, 0) is one of the ways in which a direction fails.
LEMMA CutNothing ==
  ASSUME NEW T, NEW d \in Directions(T)
  PROVE  Cut(d, 0) \in CutsOf(d)
<1>1. d.q \in Seq(Frames(T)) BY DEF Directions
<1>2. 0 \in 0..Len(d.q) BY <1>1
<1> QED BY <1>2 DEF CutsOf

\* The server sends any frame.
LEMMA ServerSaysStep ==
  ASSUME ClientAloneInv, ServerSays
  PROVE  ClientAloneInv'
<1> USE DEF ClientAloneInv
<1>1. PICK type \in ServerTypes, n \in 0..1 :
        LET f == Frame(type, IF type = "OpenResult" THEN n ELSE Len(said) + 1)
        IN  said' = Append(said, f) /\ rsp' = Sent(rsp, f)
  BY DEF ServerSays
<1> DEFINE f == Frame(type, IF type = "OpenResult" THEN n ELSE Len(said) + 1)
<1>2. said' = Append(said, f) /\ rsp' = Sent(rsp, f) BY <1>1
<1>3. app' = app /\ cpc' = cpc /\ l2g' = l2g /\ req' = req /\ heard' = heard /\ rsp.end = "open"
  BY DEF ServerSays, clientVars
<1>4. /\ rsp \in Directions(ServerTypes) /\ said \in Seq(Frames(ServerTypes)) /\ Len(said) \in Nat
      /\ app.got \in Seq(Nat)
  BY ClientAloneFacts
<1>5. f \in Frames(ServerTypes) /\ (f.type = "Data" => f.n = Len(said) + 1) /\ Alive(rsp)
  BY <1>3, <1>4 DEF Frames, Frame, Alive
<1> HIDE DEF f
<1>6. said' \in Seq(Frames(ServerTypes)) /\ rsp' \in Directions(ServerTypes)
  BY <1>2, <1>4, <1>5, AppendFacts, SentFacts
<1>7. ClientAloneTyped' BY <1>3, <1>6 DEF ClientAloneTyped, ClientTypeOK
<1>8. Request' = Request BY <1>3 DEF Request
<1>9. RequestInv' BY <1>3, <1>8, RequestFrame
<1>10. PlacesNumbered(said)'
  <2>1. /\ Len(said') = Len(said) + 1 /\ said'[Len(said) + 1] = f
        /\ \A i \in 1..Len(said) : said'[i] = said[i]
    BY <1>2, <1>4, <1>5, AppendFacts
  <2>2. \A i \in 1..Len(said) : said[i].type = "Data" => said[i].n = i
    BY <1>4 DEF ServedInv, PlacesNumbered
  <2>3. DOMAIN said' = 1..Len(said) + 1 BY <1>6, <2>1
  <2>4. ASSUME NEW i \in DOMAIN said', said'[i].type = "Data" PROVE said'[i].n = i
    <3>1. CASE i \in 1..Len(said) BY <2>1, <2>2, <2>4, <3>1
    <3>2. CASE i = Len(said) + 1 BY <1>5, <2>1, <2>4, <3>2
    <3> QED BY <1>4, <2>3, <3>1, <3>2
  <2> QED BY <2>4 DEF PlacesNumbered
<1>11. FirstOf(app.got, ServedIn(said')) 
  BY <1>2, <1>4, <1>5, ServedMore, ServedPlaces, ListMore DEF ServedInv
<1>12. ASSUME ~ClientEnded PROVE \E k \in Nat : Follows(k, said', rsp', cpc, app.got)
  <2>1. PICK k \in Nat : Follows(k, said, rsp, cpc, app.got) BY <1>12 DEF ServedInv
  <2>2. Follows(k, Append(said, f), Sent(rsp, f), cpc, app.got)
    BY <1>4, <1>5, <2>1, FollowsSays
  <2> QED BY <1>2, <2>2
<1>13. ServedInv' BY <1>3, <1>10, <1>11, <1>12 DEF ServedInv, ClientEnded
<1> QED BY <1>7, <1>9, <1>13

\* The server reads a frame of the request, ends the response or vanishes; the
\* application moves.
LEMMA PartnersStep ==
  ASSUME ClientAloneInv,
         ServerHears \/ AnyServerEnds \/ AnyServerVanishes \/ AnyAppMoves \/ AnyAppReads
  PROVE  ClientAloneInv'
<1> USE DEF ClientAloneInv
<1>0. /\ req \in Directions(ClientTypes) /\ rsp \in Directions(ServerTypes)
      /\ app \in Peers /\ heard \in Seq(Frames(ClientTypes))
  BY ClientAloneFacts
<1>1. CASE ServerHears
  <2>1. /\ req' = Popped(req) /\ heard' = Append(heard, Head(req.q)) /\ req.q # <<>>
        /\ app' = app /\ cpc' = cpc /\ l2g' = l2g /\ rsp' = rsp /\ said' = said
    BY <1>1 DEF ServerHears, clientVars
  <2>2. req' \in Directions(ClientTypes) /\ Head(req.q) \in Frames(ClientTypes)
    BY <1>0, <2>1, PoppedFacts
  <2>3. heard' \in Seq(Frames(ClientTypes)) BY <1>0, <2>1, <2>2, AppendFacts
  <2>4. ClientAloneTyped' BY <2>1, <2>2, <2>3 DEF ClientAloneTyped, ClientTypeOK
  <2>5. RequestInv' BY <1>1, RequestHeard
  <2>6. ServedInv' BY <2>1, ServedFrame
  <2> QED BY <2>4, <2>5, <2>6
<1>2. CASE AnyServerEnds
  <2>1. /\ rsp' = Ended(rsp) /\ req' = req /\ heard' = heard /\ said' = said
        /\ app' = app /\ cpc' = cpc /\ l2g' = l2g /\ rsp.end = "open"
    BY <1>2 DEF AnyServerEnds, clientVars
  <2>2. rsp' \in Directions(ServerTypes) /\ rsp'.q = rsp.q /\ rsp'.end = "end"
    BY <1>0, <2>1 DEF Ended, Directions
  <2>3. ClientAloneTyped' BY <2>1, <2>2 DEF ClientAloneTyped, ClientTypeOK
  <2>4. Request' = Request BY <2>1 DEF Request
  <2>5. RequestInv' BY <2>1, <2>4, RequestFrame
  <2>6. ASSUME NEW k \in Nat, Follows(k, said, rsp, cpc, app.got)
        PROVE  Follows(k, said, rsp', cpc, app.got)
    BY <1>0, <2>1, <2>6, BehindEnded DEF Follows
  <2>7. ServedInv'
    <3>1. CASE ClientEnded BY <2>1, <3>1, ServedReturn DEF ClientEnded
    <3>2. CASE ~ClientEnded
      <4>1. PICK k \in Nat : Follows(k, said, rsp, cpc, app.got) BY <3>2 DEF ServedInv
      <4>2. Follows(k, said, rsp', cpc', app'.got) /\ FirstOf(app'.got, ServedIn(said))
        BY <2>1, <2>6, <4>1 DEF ServedInv
      <4> QED BY <2>1, <4>2, ServedGoesOn
    <3> QED BY <3>1, <3>2
  <2> QED BY <2>3, <2>5, <2>7
<1>3. CASE AnyServerVanishes
  <2>1. /\ rsp' \in CutsOf(rsp) /\ req' = Cut(req, 0) /\ heard' = heard /\ said' = said
        /\ app' = app /\ cpc' = cpc /\ l2g' = l2g
    BY <1>3 DEF AnyServerVanishes, clientVars
  <2>2. req' \in CutsOf(req) BY <1>0, <2>1, CutNothing
  <2>3. req' \in Directions(ClientTypes) /\ rsp' \in Directions(ServerTypes)
    BY <1>0, <2>1, <2>2, CutFacts
  <2>4. ClientAloneTyped' BY <2>1, <2>3 DEF ClientAloneTyped, ClientTypeOK
  <2>5. RequestInv' BY <2>1, <2>2, RequestCut
  <2>6. ServedInv' BY <2>1, ServedCut
  <2> QED BY <2>4, <2>5, <2>6
<1>4. CASE AnyAppMoves \/ AnyAppReads
  <2>1. /\ cpc' = cpc /\ l2g' = l2g /\ req' = req /\ rsp' = rsp /\ said' = said /\ heard' = heard
        /\ \/ PeerWrites(app, app', MAX_WRITTEN) \/ PeerFins(app, app')
           \/ PeerGoes(app, app') \/ PeerReads(app, app')
    BY <1>4 DEF AnyAppMoves, AnyAppReads, streamVars
  <2>2. app' \in Peers /\ app'.taken = app.taken /\ app'.got = app.got
    BY <1>0, <2>1, PeerStep, ClientAloneAssumption
  <2>3. ClientAloneTyped' BY <2>1, <2>2 DEF ClientAloneTyped, ClientTypeOK
  <2>4. Request' = Request BY <2>1 DEF Request
  <2>5. RequestInv' BY <2>1, <2>2, <2>4, RequestFrame
  <2>6. ServedInv' BY <2>1, <2>2, ServedFrame
  <2> QED BY <2>3, <2>5, <2>6
<1> QED BY <1>1, <1>2, <1>3, <1>4

\* relay_grpc: waiting for the answer to Open, and the loop over inbound.
LEMMA ClientMainAlone ==
  ASSUME ClientAloneInv, ClientMain, UNCHANGED <<said, heard>>
  PROVE  ClientAloneInv'
<1> USE DEF ClientAloneInv
<1>0. /\ req \in Directions(ClientTypes) /\ rsp \in Directions(ServerTypes)
      /\ app \in Peers /\ app.got \in Seq(Nat) /\ said \in Seq(Frames(ServerTypes))
      /\ cpc \in {"opening", "relaying"} \cup ClientResults /\ l2g \in TaskStates
  BY ClientAloneFacts
\* Whatever it does, it leaves the request alone.
<1>1. ASSUME req' = req, app'.taken = app.taken, l2g' # "exit" => l2g # "exit" PROVE RequestInv'
  <2>1. Request' = Request /\ (Alive(req)' <=> Alive(req)) BY <1>1 DEF Request, Alive
  <2> QED BY <1>1, <2>1, RequestFrame
<1>2. ASSUME req' = req, rsp' \in Directions(ServerTypes), app' \in Peers,
             cpc' \in {"relaying"} \cup ClientResults, l2g' \in TaskStates
      PROVE  ClientAloneTyped'
  <2>1. cpc' # "opening" BY <1>2 DEF ClientResults
  <2> QED BY <1>2, <2>1 DEF ClientAloneTyped, ClientTypeOK
<1>3. rsp.q # <<>> => Popped(rsp) \in Directions(ServerTypes) BY <1>0, PoppedFacts
<1>4. ASSUME ~ClientEnded PROVE \E k \in Nat : Follows(k, said, rsp, cpc, app.got)
  BY <1>4 DEF ServedInv
<1>5. cpc \in {"opening", "relaying"} => ~ClientEnded BY DEF ClientEnded, ClientResults
<1>6. CASE ClientOpenReply
  <2>1. /\ cpc = "opening" /\ rsp.q # <<>> /\ cpc' = OpenVerdict(Head(rsp.q)) /\ rsp' = Popped(rsp)
        /\ app' = app /\ req' = req /\ l2g' \in {"run", "none"}
    BY <1>6 DEF ClientOpenReply
  <2>2. Head(rsp.q) \in Frames(ServerTypes) BY <1>0, <2>1, PoppedFacts
  <2>3. /\ cpc' \in {"relaying"} \cup ClientResults
        /\ cpc' = "relaying" => Head(rsp.q) = Frame("OpenResult", 1)
    BY <2>1, <2>2 DEF OpenVerdict, ClientResults, Frames, Frame
  <2>4. ClientAloneTyped' BY <1>0, <1>2, <1>3, <2>1, <2>3 DEF TaskStates
  <2>5. RequestInv'
    <3>1. l2g # "exit" BY <2>1 DEF ClientAloneTyped
    <3> QED BY <1>1, <2>1, <3>1
  <2>6. ServedInv'
    <3>1. CASE cpc' \in ClientResults BY <2>1, <3>1, ServedReturn
    <3>2. CASE cpc' = "relaying"
      <4>1. PICK k \in Nat : Follows(k, said, rsp, cpc, app.got) BY <1>4, <1>5, <2>1
      <4>2. Follows(k + 1, said, Popped(rsp), "relaying", app.got)
        BY <1>0, <2>1, <2>3, <3>2, <4>1, FollowsOther
      <4>3. Follows(k + 1, said, rsp', cpc', app'.got) /\ FirstOf(app'.got, ServedIn(said)) /\ k + 1 \in Nat
        BY <2>1, <3>2, <4>2 DEF ServedInv
      <4> QED BY <4>3, ServedGoesOn
    <3> QED BY <2>3, <3>1, <3>2
  <2> QED BY <2>4, <2>5, <2>6
<1>7. CASE ClientOpenFails \/ ClientStreamEnd
  <2>1. /\ app' = app /\ req' = req /\ rsp' = rsp /\ cpc' \in ClientResults
        /\ l2g' = l2g \/ l2g' = Aborted(l2g)
    BY <1>7 DEF ClientOpenFails, ClientStreamEnd, ClientResults, streamVars
  <2>2. l2g' \in TaskStates /\ (l2g' # "exit" => l2g # "exit")
    BY <1>0, <2>1 DEF Aborted, TaskStates
  <2>3. ClientAloneTyped' BY <1>0, <1>2, <2>1, <2>2
  <2>4. RequestInv' BY <1>1, <2>1, <2>2
  <2>5. ServedInv' BY <2>1, ServedReturn
  <2> QED BY <2>3, <2>4, <2>5
<1>8. CASE ClientHalfClose \/ ClientBail
  <2>1. /\ app' = app /\ req' = req /\ rsp' = Popped(rsp) /\ rsp.q # <<>> /\ cpc' \in ClientResults
        /\ l2g' = l2g \/ l2g' = Aborted(l2g)
    BY <1>8 DEF ClientHalfClose, ClientBail, ClientResults, HasFrame
  <2>2. l2g' \in TaskStates /\ (l2g' # "exit" => l2g # "exit")
    BY <1>0, <2>1 DEF Aborted, TaskStates
  <2>3. ClientAloneTyped' BY <1>0, <1>2, <1>3, <2>1, <2>2
  <2>4. RequestInv' BY <1>1, <2>1, <2>2
  <2>5. ServedInv' BY <2>1, ServedReturn
  <2> QED BY <2>3, <2>4, <2>5
<1>9. CASE ClientPong
  <2>1. /\ cpc = "relaying" /\ rsp.q # <<>> /\ Head(rsp.q).type = "Pong" /\ rsp' = Popped(rsp)
        /\ app' = app /\ cpc' = cpc /\ l2g' = l2g /\ req' = req
    BY <1>9 DEF ClientPong, HasFrame, clientVars
  <2>2. ClientAloneTyped' BY <1>0, <1>2, <1>3, <2>1
  <2>3. RequestInv' BY <1>1, <2>1
  <2>4. PICK k \in Nat : Follows(k, said, rsp, cpc, app.got) BY <1>4, <1>5, <2>1
  <2>5. Follows(k + 1, said, Popped(rsp), "relaying", app.got)
    BY <1>0, <2>1, <2>4, FollowsOther
  <2>6. Follows(k + 1, said, rsp', cpc', app'.got) /\ FirstOf(app'.got, ServedIn(said)) /\ k + 1 \in Nat
    BY <2>1, <2>5 DEF ServedInv
  <2>7. ServedInv' BY <2>6, ServedGoesOn
  <2> QED BY <2>2, <2>3, <2>7
<1>10. CASE ClientData
  <2>1. /\ cpc = "relaying" /\ rsp.q # <<>> /\ Head(rsp.q).type = "Data" /\ rsp' = Popped(rsp)
        /\ l2g' = l2g /\ req' = req
        /\ \/ app' = Wrote(app, Head(rsp.q).n) /\ cpc' = cpc
           \/ app' = app /\ cpc' = "io"
    BY <1>10 DEF ClientData, HasFrame
  <2>2. PICK k \in Nat : Follows(k, said, rsp, cpc, app.got) BY <1>4, <1>5, <2>1
  <2>3. Follows(k, said, rsp, "relaying", app.got) BY <2>1, <2>2
  <2>4. /\ Head(rsp.q).n \in Nat
        /\ Follows(k + 1, said, Popped(rsp), "relaying", Append(app.got, Head(rsp.q).n))
        /\ FirstOf(Append(app.got, Head(rsp.q).n), ServedIn(said))
    BY <1>0, <2>1, <2>3, FollowsData DEF ServedInv
  <2>5. CASE app' = Wrote(app, Head(rsp.q).n) /\ cpc' = cpc
    <3>1. app' \in Peers /\ app'.taken = app.taken /\ app'.got = Append(app.got, Head(rsp.q).n)
      BY <1>0, <2>4, <2>5, WroteFacts
    <3>2. ClientAloneTyped' BY <1>0, <1>2, <1>3, <2>1, <2>5, <3>1
    <3>3. RequestInv' BY <1>1, <2>1, <3>1
    <3>4. Follows(k + 1, said, rsp', cpc', app'.got) /\ FirstOf(app'.got, ServedIn(said)) /\ k + 1 \in Nat
      <4>1. cpc' = "relaying" /\ rsp' = Popped(rsp) BY <2>1, <2>5
      <4>2. Follows(k + 1, said, rsp', cpc', app'.got) /\ FirstOf(app'.got, ServedIn(said))
        BY <2>4, <3>1, <4>1, Zenon
      <4>3. k + 1 \in Nat OBVIOUS
      <4> QED BY <4>2, <4>3, Zenon
    <3>5. ServedInv' BY <3>4, ServedGoesOn
    <3> QED BY <3>2, <3>3, <3>5
  <2>6. CASE app' = app /\ cpc' = "io"
    <3>1. cpc' \in ClientResults BY <2>6 DEF ClientResults
    <3>2. ClientAloneTyped' BY <1>0, <1>2, <1>3, <2>1, <2>6, <3>1
    <3>3. RequestInv' BY <1>1, <2>1, <2>6
    <3>4. ServedInv' BY <2>6, <3>1, ServedReturn
    <3> QED BY <3>2, <3>3, <3>4
  <2> QED BY <2>1, <2>5, <2>6
<1> QED BY <1>6, <1>7, <1>8, <1>9, <1>10 DEF ClientMain

\* local_to_grpc and what tonic and h2 do for the client.
LEMMA ClientRestAlone ==
  ASSUME ClientAloneInv, L2gStep \/ L2gDropped \/ ClientTransport, UNCHANGED <<said, heard>>
  PROVE  ClientAloneInv'
<1> USE DEF ClientAloneInv
<1>0. /\ req \in Directions(ClientTypes) /\ rsp \in Directions(ServerTypes)
      /\ app \in Peers /\ app.taken \in Nat
  BY ClientAloneFacts
<1>1. CASE L2gData
  <2> DEFINE f == Frame("Data", app.taken + 1)
  <2>1. /\ req' = Sent(req, f) /\ app' = Taken(app) /\ cpc' = cpc /\ rsp' = rsp
        /\ l2g \in {"run", "aborting"} /\ l2g' \in {l2g, "exit"}
    BY <1>1 DEF L2gData, L2gActive
  <2>2. f \in Frames(ClientTypes) BY <1>0 DEF Frames, Frame, ClientTypes
  <2>3. app' \in Peers /\ app'.taken = app.taken + 1 /\ app'.got = app.got BY <1>0, <2>1, TakenFacts
  <2>4. req' \in Directions(ClientTypes) BY <1>0, <2>1, <2>2, SentFacts
  <2>5. ClientAloneTyped' BY <2>1, <2>3, <2>4 DEF ClientAloneTyped, ClientTypeOK, TaskStates
  <2>6. RequestInv' BY <2>1, <2>2, <2>3, RequestSent
  <2>7. ServedInv' BY <2>1, <2>3, ServedFrame
  <2> QED BY <2>5, <2>6, <2>7
<1>2. CASE L2gEof \/ L2gReadError
  <2>1. PICK f \in {Frame("HalfClose", 0), Frame("Reset", 0)} : req' = Sent(req, f)
    BY <1>2 DEF L2gEof, L2gReadError
  <2>2. app' = app /\ cpc' = cpc /\ rsp' = rsp /\ l2g \in {"run", "aborting"} /\ l2g' = "exit"
    BY <1>2 DEF L2gEof, L2gReadError, L2gActive
  <2>3. f \in Frames(ClientTypes) /\ f.type \in {"HalfClose", "Reset"}
    BY <2>1 DEF Frames, Frame, ClientTypes
  <2>4. req' \in Directions(ClientTypes) BY <1>0, <2>1, <2>3, SentFacts
  <2>5. ClientAloneTyped' BY <2>2, <2>4 DEF ClientAloneTyped, ClientTypeOK, TaskStates
  <2>6. l2g # "exit" BY <2>2
  <2>7. RequestInv' BY <2>1, <2>2, <2>3, <2>6, RequestSent
  <2>8. ServedInv' BY <2>2, ServedFrame
  <2> QED BY <2>5, <2>7, <2>8
<1>3. CASE L2gDropped
  <2>1. app' = app /\ cpc' = cpc /\ rsp' = rsp /\ req' = req /\ l2g = "aborting" /\ l2g' = "exit"
    BY <1>3 DEF L2gDropped, streamVars
  <2>2. ClientAloneTyped' BY <2>1 DEF ClientAloneTyped, ClientTypeOK, TaskStates
  <2>3. Request' = Request /\ (Alive(req)' <=> Alive(req)) BY <2>1 DEF Request, Alive
  <2>4. RequestInv' BY <2>1, <2>3, RequestFrame
  <2>5. ServedInv' BY <2>1, ServedFrame
  <2> QED BY <2>2, <2>4, <2>5
<1>4. CASE FinishRequest
  <2>1. /\ app' = app /\ cpc' = cpc /\ l2g' = l2g /\ rsp' = rsp
        /\ req' = Ended(req) \/ req' \in CutsOf(req)
        /\ req.end = "open"
    BY <1>4 DEF FinishRequest, clientVars
  <2>2. ServedInv' BY <2>1, ServedFrame
  <2>3. CASE req' = Ended(req)
    <3>1. req' \in Directions(ClientTypes) /\ req'.q = req.q BY <1>0, <2>3 DEF Ended, Directions
    <3>2. Request' = Request /\ Alive(req) BY <2>1, <3>1 DEF Request, Alive
    <3>3. ClientAloneTyped' BY <2>1, <3>1 DEF ClientAloneTyped, ClientTypeOK
    <3>4. RequestInv' BY <2>1, <3>2, RequestFrame
    <3> QED BY <2>2, <3>3, <3>4
  <2>4. CASE req' \in CutsOf(req)
    <3>1. req' \in Directions(ClientTypes) BY <1>0, <2>4, CutFacts
    <3>2. ClientAloneTyped' BY <2>1, <3>1 DEF ClientAloneTyped, ClientTypeOK
    <3>3. RequestInv' BY <2>1, <2>4, RequestCut
    <3> QED BY <2>2, <3>2, <3>3
  <2> QED BY <2>1, <2>3, <2>4
<1>5. CASE DropResponse
  <2>1. app' = app /\ cpc' = cpc /\ l2g' = l2g /\ req' = req /\ rsp' = Cut(rsp, 0)
    BY <1>5 DEF DropResponse, clientVars
  <2>2. rsp' \in CutsOf(rsp) BY <1>0, <2>1, CutNothing
  <2>3. rsp' \in Directions(ServerTypes) BY <1>0, <2>2, CutFacts
  <2>4. ClientAloneTyped' BY <2>1, <2>3 DEF ClientAloneTyped, ClientTypeOK
  <2>5. Request' = Request /\ (Alive(req)' <=> Alive(req)) BY <2>1 DEF Request, Alive
  <2>6. RequestInv' BY <2>1, <2>5, RequestFrame
  <2>7. ServedInv' BY <2>1, <2>2, ServedCut
  <2> QED BY <2>4, <2>6, <2>7
<1> QED BY <1>1, <1>2, <1>3, <1>4, <1>5 DEF L2gStep, ClientTransport

\* The client alone starts with Open queued.
LEMMA ClientAloneStarts == ClientAloneInit => ClientAloneInv
<1> SUFFICES ASSUME ClientAloneInit PROVE ClientAloneInv OBVIOUS
<1>1. PICK p \in {0, 1} : ClientInit(p) /\ req = NewStream(<<Frame("Open", p)>>)
  BY DEF ClientAloneInit
<1>2. /\ app = NewPeer(p) /\ cpc = "opening" /\ l2g = "none" /\ rsp = NewStream(<<>>)
      /\ said = <<>> /\ heard = <<>>
  BY <1>1 DEF ClientAloneInit, ClientInit
<1>3. app \in Peers /\ app.taken = p /\ app.got = <<>> BY <1>2 DEF NewPeer, Peers
<1>4. /\ req \in Directions(ClientTypes) /\ req.q = <<Frame("Open", p)>> /\ req.end = "open"
      /\ rsp \in Directions(ServerTypes) /\ rsp.q = <<>> /\ rsp.end = "open"
  BY <1>1, <1>2 DEF NewStream, Directions, Frames, Frame, ClientTypes
<1>5. ClientAloneTyped BY <1>2, <1>3, <1>4 DEF ClientAloneTyped, ClientTypeOK, TaskStates
<1>6. RequestInv
  <2>1. Request = <<Frame("Open", p)>>
    <3>1. <<Frame("Open", p)>> \in Seq(Frames(ClientTypes)) BY <1>4 DEF Directions
    <3> QED BY <1>2, <1>4, <3>1 DEF Request
  <2>2. Len(Request) = 1 /\ Request[1].type = "Open" /\ Request[1].n = p
    BY <2>1 DEF Frame
  <2>3. RequestOK(Request) BY <2>2 DEF RequestOK
  <2>4. Unfinished(Request, app.taken) BY <1>3, <2>2 DEF Unfinished
  <2> QED BY <2>3, <2>4 DEF RequestInv
<1>7. ServedInv
  <2>1. PlacesNumbered(said) /\ FirstOf(app.got, ServedIn(said)) BY <1>2, <1>3 DEF PlacesNumbered, FirstOf
  <2>2. Follows(0, said, rsp, cpc, app.got) BY <1>2, <1>3, <1>4 DEF Follows, Behind, KeptUp, ServedIn
  <2> QED BY <2>1, <2>2 DEF ServedInv
<1> QED BY <1>5, <1>6, <1>7 DEF ClientAloneInv

\* relay_grpc and local_to_grpc alone keep their invariant against any server.
LEMMA ClientAloneInvariance == ClientAloneSpec => []ClientAloneInv
<1>1. ClientAloneInit => ClientAloneInv BY ClientAloneStarts
<1>2. ClientAloneInv /\ [ClientAloneNext]_clientAloneVars => ClientAloneInv'
  <2> SUFFICES ASSUME ClientAloneInv, [ClientAloneNext]_clientAloneVars PROVE ClientAloneInv'
    OBVIOUS
  <2>1. CASE ServerSays BY <2>1, ServerSaysStep
  <2>2. CASE ServerHears \/ AnyServerEnds \/ AnyServerVanishes \/ AnyAppMoves \/ AnyAppReads
    BY <2>2, PartnersStep
  <2>3. CASE ClientAlone
    BY <2>3, ClientMainAlone, ClientRestAlone DEF ClientAlone, ClientNext
  <2>4. CASE UNCHANGED clientAloneVars
    <3>1. UNCHANGED <<req, rsp, app, cpc, l2g, said, heard>>
      BY <2>4 DEF clientAloneVars, streamVars, clientVars
    <3>2. ClientAloneTyped'
      BY <3>1 DEF ClientAloneInv, ClientAloneTyped, ClientTypeOK
    <3>3. Request' = Request /\ (Alive(req)' <=> Alive(req)) BY <3>1 DEF Request, Alive
    <3>4. RequestInv' BY <3>1, <3>3, RequestFrame DEF ClientAloneInv
    <3>5. ServedInv' BY <3>1, ServedFrame DEF ClientAloneInv
    <3> QED BY <3>2, <3>4, <3>5 DEF ClientAloneInv
  <2> QED BY <2>1, <2>2, <2>3, <2>4 DEF ClientAloneNext
<1> QED BY <1>1, <1>2, PTL DEF ClientAloneSpec

\* Whatever the server does, the frames relay_grpc and local_to_grpc send form
\* a conversation handle_tunnel can follow.
THEOREM RequestIsWellFormed == ClientAloneSpec => []RequestWellFormed
<1>1. ClientAloneInv => RequestWellFormed
  BY DEF ClientAloneInv, RequestInv, RequestOK, RequestWellFormed
<1> QED BY <1>1, ClientAloneInvariance, PTL

\* Whatever the server sends, relay_grpc writes to the application exactly the
\* chunks of an accepted conversation, in order and without a gap.
THEOREM AppIsServed == ClientAloneSpec => []AppGetsServed
<1>1. ClientAloneInv => AppGetsServed
  BY DEF ClientAloneInv, ServedInv, ServedIn, AppGetsServed, Served
<1> QED BY <1>1, ClientAloneInvariance, PTL

-----------------------------------------------------------------------------
(***************************************************************************)
(* The server alone: the response.                                         *)
(***************************************************************************)
ServerAloneTyped ==
  /\ req \in Directions(ClientTypes) /\ rsp \in Directions(ServerTypes)
  /\ ServerTypeOK
  /\ asked \in Seq(Frames(ClientTypes)) /\ answered \in Seq(Frames(ServerTypes))

\* Who can have started what.
ServerPhases ==
  /\ spc \in {"auth", "first", "dial"} => t2g = "none"
  /\ spc = "relay" => t2g # "none"
  /\ t2g = "none" => tgt.taken = 0 /\ tgt.got = <<>>
  /\ spc = "sending" => held.type \in {"Pong", "Reset"} /\ (held.type = "Pong" => t2g # "none")

PingsIn(s) == {i \in DOMAIN s : s[i].type = "Ping"}

NextIn(r, numbers, i) ==
  /\ r[i].n \in numbers
  /\ \A j \in 1..i - 1 : r[j].type = r[i].type => r[j].n < r[i].n
  /\ \A m \in numbers : m < r[i].n => \E j \in 1..i - 1 : r[j] = Frame(r[i].type, m)

PlaceOK(r, taken, pings, i) ==
  /\ r[i].type = "OpenResult" <=> i = 1 /\ r[i].type # "Reset"
  /\ r[i].type = "OpenResult" /\ r[i].n = 0 => Len(r) = 1
  /\ r[i].type = "HalfClose" => \A j \in i+1..Len(r) : r[j].type \in {"Pong", "Reset"}
  /\ i = 1 /\ r[i].type = "Reset" => Len(r) = 1
  /\ r[i].type = "Data" => NextIn(r, 1..taken, i)
  /\ r[i].type = "Pong" => NextIn(r, pings, i)

ResponseOK(r, taken, pings) == \A i \in 1..Len(r) : PlaceOK(r, taken, pings, i)

\* Nothing has been said, and the handler speaks next.
Silent == spc \in {"auth", "first", "dial"} \/ (spc = "sending" /\ t2g = "none")

Opened(r) == Len(r) >= 1 /\ r[1] = Frame("OpenResult", 1)

\* target_to_grpc can go on with the next chunk: all that were read are in r.
Flowing(r, taken) ==
  /\ \A j \in 1..Len(r) : r[j].type # "HalfClose"
  /\ \A m \in 1..taken : \E j \in 1..Len(r) : r[j] = Frame("Data", m)

ResponseInv ==
  /\ ResponseOK(Response, tgt.taken, PingsIn(asked))
  /\ Silent => Len(Response) = 0
  /\ t2g # "none" /\ Alive(rsp) => Opened(Response)
  /\ T2gActive /\ Alive(rsp) => Flowing(Response, tgt.taken)

\* More numbers behind the ones that were used change nothing.
LEMMA NextKeeps ==
  ASSUME NEW r, NEW s, NEW i \in Nat, \A j \in 1..i : s[j] = r[j], i >= 1,
         NEW N \in SUBSET Nat, NEW M \in SUBSET Nat, N \subseteq M,
         \A m \in M : m \in N \/ \A x \in N : x < m, NextIn(r, N, i)
  PROVE  NextIn(s, M, i)
<1>1. s[i] = r[i] /\ \A j \in 1..i - 1 : s[j] = r[j] OBVIOUS
<1>2. r[i].n \in N /\ r[i].n \in Nat BY DEF NextIn
<1>3. ASSUME NEW m \in M, m < r[i].n PROVE m \in N
  <2>1. CASE \A x \in N : x < m
    <3>1. r[i].n < m BY <1>2, <2>1
    <3>2. m \in Nat OBVIOUS
    <3> QED BY <1>2, <1>3, <3>1, <3>2
  <2> QED BY <2>1
<1>4. s[i].n \in M BY <1>1, <1>2
<1>5. \A j \in 1..i - 1 : s[j].type = s[i].type => s[j].n < s[i].n BY <1>1 DEF NextIn
<1>6. ASSUME NEW m \in M, m < s[i].n PROVE \E j \in 1..i - 1 : s[j] = Frame(s[i].type, m)
  <2>1. m \in N BY <1>1, <1>3, <1>6
  <2>2. PICK j \in 1..i - 1 : r[j] = Frame(r[i].type, m) BY <1>1, <1>6, <2>1 DEF NextIn
  <2> QED BY <1>1, <2>2
<1> QED BY <1>4, <1>5, <1>6 DEF NextIn

\* What is left of the response can still be followed when it is cut short, when
\* more chunks have been read and when more Pings have been sent.
LEMMA ResponseKeeps ==
  ASSUME NEW r, NEW s, Len(r) \in Nat, Len(s) \in Nat, Len(s) <= Len(r),
         \A j \in 1..Len(s) : s[j] = r[j],
         NEW t \in Nat, NEW u \in Nat, t <= u, NEW P \in SUBSET Nat, NEW Q \in SUBSET Nat,
         P \subseteq Q, \A m \in Q : m \in P \/ \A x \in P : x < m, ResponseOK(r, t, P)
  PROVE  ResponseOK(s, u, Q)
<1>1. ASSUME NEW i \in 1..Len(s) PROVE PlaceOK(s, u, Q, i)
  <2>1. i \in 1..Len(r) /\ s[i] = r[i] /\ i \in Nat /\ i >= 1 /\ \A j \in 1..i : s[j] = r[j] OBVIOUS
  <2>2. PlaceOK(r, t, P, i) BY <2>1 DEF ResponseOK
  <2>3. s[i].type = "Data" => NextIn(s, 1..u, i)
    <3>1. 1..t \in SUBSET Nat /\ 1..u \in SUBSET Nat /\ 1..t \subseteq 1..u OBVIOUS
    <3>2. \A m \in 1..u : m \in 1..t \/ \A x \in 1..t : x < m OBVIOUS
    <3>3. r[i].type = "Data" => NextIn(r, 1..t, i) BY <2>2 DEF PlaceOK
    <3> QED BY <2>1, <3>1, <3>2, <3>3, NextKeeps
  <2>4. s[i].type = "Pong" => NextIn(s, Q, i)
    <3>1. r[i].type = "Pong" => NextIn(r, P, i) BY <2>2 DEF PlaceOK
    <3> QED BY <2>1, <3>1, NextKeeps
  <2>5. s[i].type = "HalfClose" => \A j \in i+1..Len(s) : s[j].type \in {"Pong", "Reset"}
    <3>1. \A j \in i+1..Len(s) : j \in i+1..Len(r) /\ s[j] = r[j] OBVIOUS
    <3> QED BY <2>1, <2>2, <3>1 DEF PlaceOK
  <2>6. Len(r) = 1 => Len(s) = 1 OBVIOUS
  <2> QED BY <2>1, <2>2, <2>3, <2>4, <2>5, <2>6 DEF PlaceOK
<1> QED BY <1>1 DEF ResponseOK

\* One more frame, of the handler or of target_to_grpc.
LEMMA ResponseAppend ==
  ASSUME NEW r, NEW s, NEW e, Len(r) \in Nat, Len(s) = Len(r) + 1,
         \A j \in 1..Len(r) : s[j] = r[j], s[Len(r) + 1] = e,
         NEW t \in Nat, NEW u \in Nat, t <= u, NEW P \in SUBSET Nat, ResponseOK(r, t, P),
         \/ Len(r) = 0 /\ e.type \in {"OpenResult", "Reset"}
         \/ Opened(r) /\ e.type \in {"Data", "HalfClose", "Reset", "Pong"},
         e.type \in {"Data", "HalfClose"} => \A j \in 1..Len(r) : r[j].type # "HalfClose",
         e.type = "Data" => NextIn(s, 1..u, Len(s)),
         e.type = "Pong" => NextIn(s, P, Len(s))
  PROVE  ResponseOK(s, u, P)
<1>1. ASSUME NEW i \in 1..Len(r) PROVE PlaceOK(s, u, P, i)
  <2>1. /\ i \in Nat /\ i >= 1 /\ s[i] = r[i] /\ Opened(r)
        /\ \A j \in 1..i : s[j] = r[j]
    BY DEF Opened
  <2>2. PlaceOK(r, t, P, i) BY DEF ResponseOK
  <2>3. s[i].type = "Data" => NextIn(s, 1..u, i)
    <3>1. 1..t \in SUBSET Nat /\ 1..u \in SUBSET Nat /\ 1..t \subseteq 1..u OBVIOUS
    <3>2. \A m \in 1..u : m \in 1..t \/ \A x \in 1..t : x < m OBVIOUS
    <3>3. r[i].type = "Data" => NextIn(r, 1..t, i) BY <2>2 DEF PlaceOK
    <3> QED BY <2>1, <3>1, <3>2, <3>3, NextKeeps
  <2>4. s[i].type = "Pong" => NextIn(s, P, i)
    <3>1. r[i].type = "Pong" => NextIn(r, P, i) BY <2>2 DEF PlaceOK
    <3> QED BY <2>1, <3>1, NextKeeps
  <2>5. r[1].type = "OpenResult" /\ r[1].n = 1 /\ e.type \in {"Data", "HalfClose", "Reset", "Pong"}
    BY <2>1 DEF Opened, Frame
  <2>6. ASSUME s[i].type = "HalfClose", NEW j \in i+1..Len(s) PROVE s[j].type \in {"Pong", "Reset"}
    <3>1. e.type \notin {"Data", "HalfClose"} BY <2>1, <2>6
    <3>2. CASE j \in i+1..Len(r)
      <4>1. s[j] = r[j] BY <3>2
      <4> QED BY <2>1, <2>2, <2>6, <3>2, <4>1 DEF PlaceOK
    <3>3. CASE j = Len(r) + 1 BY <2>5, <3>1, <3>3
    <3> QED BY <3>2, <3>3
  <2>7. s[i].type = "OpenResult" <=> i = 1 /\ s[i].type # "Reset" BY <2>1, <2>2 DEF PlaceOK
  <2>8. ~(s[i].type = "OpenResult" /\ s[i].n = 0) BY <2>1, <2>5, <2>7
  <2>9. ~(i = 1 /\ s[i].type = "Reset") BY <2>1, <2>5
  <2> QED BY <2>3, <2>4, <2>6, <2>7, <2>8, <2>9 DEF PlaceOK
<1>2. PlaceOK(s, u, P, Len(s))
  <2>1. s[Len(s)] = e /\ Len(s) \in Nat OBVIOUS
  <2>2. CASE Len(r) = 0 /\ e.type \in {"OpenResult", "Reset"}
    BY <2>1, <2>2 DEF PlaceOK
  <2>3. CASE Opened(r) /\ e.type \in {"Data", "HalfClose", "Reset", "Pong"}
    <3>1. Len(s) # 1 /\ e.type # "OpenResult" BY <2>3 DEF Opened
    <3>2. \A j \in Len(s)+1..Len(s) : FALSE BY <2>1
    <3> QED BY <2>1, <3>1, <3>2 DEF PlaceOK
  <2> QED BY <2>2, <2>3
<1>3. \A i \in 1..Len(s) : i \in 1..Len(r) \/ i = Len(s) OBVIOUS
<1> QED BY <1>1, <1>2, <1>3 DEF ResponseOK

-----------------------------------------------------------------------------
(***************************************************************************)
(* The server alone: the request.                                          *)
(***************************************************************************)
OfferedIn(s) ==
  {i \in DOMAIN s : /\ i = 1 \/ s[i].type = "Data"
                    /\ s[1].type = "Open"
                    /\ \A j \in 1..i : s[j].type # "HalfClose"}

AskedNumbered(s) == \A i \in DOMAIN s : i = 1 \/ s[i].type \in {"Data", "Ping"} => s[i].n = i

\* The handler has not left its loop.
Reading == spc \in {"auth", "first", "dial", "relay"} \/ (spc = "sending" /\ held.type = "Pong")

\* The handler has read the first k frames of the request s.
Reads(k, s, d, pc, h, w, g) ==
  /\ Behind(k, s, d)
  /\ pc \in {"auth", "first"} => k = 0
  /\ pc = "dial" => k = 1 /\ h = s[1] /\ h.type = "Open" /\ Len(g) = 0
  /\ pc \in {"relay", "sending"} =>
       /\ k >= 1 /\ s[1].type = "Open"
       /\ w = "open" => \A j \in 1..k : s[j].type # "HalfClose"
       /\ KeptUp(k, OfferedIn(s), g)

\* The Pings up to place k are answered in the response r, and no others.
PongsUpTo(k, r, pings) ==
  /\ \A m \in pings : m <= k => \E j \in 1..Len(r) : r[j] = Frame("Pong", m)
  /\ \A j \in 1..Len(r) : r[j].type = "Pong" => r[j].n <= k

Answers(k, r, s, pc, h) ==
  /\ pc = "relay" => PongsUpTo(k, r, PingsIn(s))
  /\ pc = "sending" => h = Frame("Pong", k) /\ k \in PingsIn(s) /\ PongsUpTo(k - 1, r, PingsIn(s))

Keeps(k, s, d, pc, h, w, g, r, b) ==
  Reads(k, s, d, pc, h, w, g) /\ (b => Answers(k, r, s, pc, h))

OfferedInv ==
  /\ AskedNumbered(asked)
  /\ FirstOf(tgt.got, OfferedIn(asked))
  /\ Reading => \E k \in Nat :
       Keeps(k, asked, req, spc, held, wshut, tgt.got, Response, Alive(rsp))

ServerAloneInv == ServerAloneTyped /\ ServerPhases /\ ResponseInv /\ OfferedInv

\* What is offered and what is asked for are places of the request.
LEMMA OfferedPlaces ==
  ASSUME NEW S, NEW s \in Seq(S)
  PROVE  /\ OfferedIn(s) \in SUBSET (1..Len(s)) /\ OfferedIn(s) \in SUBSET Nat
         /\ PingsIn(s) \in SUBSET (1..Len(s)) /\ PingsIn(s) \in SUBSET Nat
         /\ Len(s) \in Nat /\ DOMAIN s = 1..Len(s)
  BY DEF OfferedIn, PingsIn

\* Neither depends on the frames behind it.
LEMMA OfferedMore ==
  ASSUME NEW S, NEW s \in Seq(S), NEW e \in S
  PROVE  /\ OfferedIn(s) \subseteq OfferedIn(Append(s, e))
         /\ OfferedIn(Append(s, e)) \subseteq OfferedIn(s) \cup {Len(s) + 1}
         /\ PingsIn(s) \subseteq PingsIn(Append(s, e))
         /\ PingsIn(Append(s, e)) \subseteq PingsIn(s) \cup {Len(s) + 1}
<1> DEFINE r == Append(s, e)
<1>1. /\ Len(s) \in Nat /\ DOMAIN s = 1..Len(s) /\ DOMAIN r = 1..Len(s) + 1
      /\ \A i \in 1..Len(s) : r[i] = s[i]
  BY AppendFacts
<1> HIDE DEF r
<1>2. ASSUME NEW j \in 1..Len(s)
      PROVE  (j \in OfferedIn(r) <=> j \in OfferedIn(s)) /\ (j \in PingsIn(r) <=> j \in PingsIn(s))
  <2>1. 1 \in 1..Len(s) /\ \A i \in 1..j : i \in 1..Len(s) BY <1>1
  <2>2. r[1] = s[1] /\ r[j] = s[j] /\ \A i \in 1..j : r[i] = s[i] BY <1>1, <2>1
  <2>3. j \in DOMAIN r /\ j \in DOMAIN s BY <1>1
  <2> QED BY <2>2, <2>3 DEF OfferedIn, PingsIn
<1>3. /\ OfferedIn(s) \subseteq 1..Len(s) /\ OfferedIn(r) \subseteq 1..Len(s) + 1
      /\ PingsIn(s) \subseteq 1..Len(s) /\ PingsIn(r) \subseteq 1..Len(s) + 1
  BY <1>1 DEF OfferedIn, PingsIn
<1>4. \A j \in 1..Len(s) + 1 : j \in 1..Len(s) \/ j = Len(s) + 1 BY <1>1
<1>5. OfferedIn(s) \subseteq OfferedIn(r) /\ OfferedIn(r) \subseteq OfferedIn(s) \cup {Len(s) + 1}
  BY <1>2, <1>3, <1>4
<1>6. PingsIn(s) \subseteq PingsIn(r) /\ PingsIn(r) \subseteq PingsIn(s) \cup {Len(s) + 1}
  BY <1>2, <1>3, <1>4
<1> QED BY <1>5, <1>6 DEF r

\* A frame behind Open that is not for the target.
LEMMA ReadsOther ==
  ASSUME NEW k \in Nat, NEW s \in Seq(Frames(ClientTypes)), NEW d \in Directions(ClientTypes),
         NEW h, NEW w, NEW g \in Seq(Nat), Reads(k, s, d, "relay", h, w, g),
         d.q # <<>>, Head(d.q).type # "Data",
         NEW pc \in {"relay", "sending"}, NEW i, NEW v,
         v = "open" => w = "open" /\ Head(d.q).type # "HalfClose"
  PROVE  Reads(k + 1, s, Popped(d), pc, i, v, g)
<1>1. /\ k + 1 \in 1..Len(s) /\ Head(d.q) = s[k + 1] /\ Behind(k + 1, s, Popped(d))
      /\ k >= 1 /\ s[1].type = "Open"
  BY BehindPop DEF Reads
<1>2. s[k + 1].type # "Data" /\ k + 1 # 1 BY <1>1
<1>3. k + 1 \notin OfferedIn(s) BY <1>2 DEF OfferedIn
<1>4. KeptUp(k + 1, OfferedIn(s), g) BY <1>3, OfferedPlaces, ListSkip DEF Reads
<1>5. v = "open" => \A j \in 1..k + 1 : s[j].type # "HalfClose"
  <2>1. \A j \in 1..k + 1 : j = k + 1 \/ j \in 1..k OBVIOUS
  <2> QED BY <1>1, <2>1 DEF Reads
<1> QED BY <1>1, <1>4, <1>5 DEF Reads

\* A chunk, which is written to the target.
LEMMA ReadsData ==
  ASSUME NEW k \in Nat, NEW s \in Seq(Frames(ClientTypes)), NEW d \in Directions(ClientTypes),
         NEW h, NEW g \in Seq(Nat), Reads(k, s, d, "relay", h, "open", g),
         d.q # <<>>, Head(d.q).type = "Data", AskedNumbered(s), FirstOf(g, OfferedIn(s))
  PROVE  /\ Head(d.q).n \in Nat
         /\ Reads(k + 1, s, Popped(d), "relay", h, "open", Append(g, Head(d.q).n))
         /\ FirstOf(Append(g, Head(d.q).n), OfferedIn(s))
<1>1. /\ k + 1 \in 1..Len(s) /\ Head(d.q) = s[k + 1] /\ Behind(k + 1, s, Popped(d))
      /\ k >= 1 /\ s[1].type = "Open" /\ \A j \in 1..k : s[j].type # "HalfClose"
  BY BehindPop DEF Reads
<1>2. DOMAIN s = 1..Len(s) /\ s[k + 1].type = "Data" BY <1>1
<1>3. Head(d.q).n = k + 1 BY <1>1, <1>2 DEF AskedNumbered
<1>4. \A j \in 1..k + 1 : s[j].type # "HalfClose"
  <2>1. \A j \in 1..k + 1 : j = k + 1 \/ j \in 1..k OBVIOUS
  <2> QED BY <1>1, <1>2, <2>1
<1>5. k + 1 \in OfferedIn(s) BY <1>1, <1>2, <1>4 DEF OfferedIn
<1>6. FirstOf(Append(g, k + 1), OfferedIn(s)) /\ KeptUp(k + 1, OfferedIn(s), Append(g, k + 1))
  BY <1>5, OfferedPlaces, ListNext DEF Reads
<1>7. Reads(k + 1, s, Popped(d), "relay", h, "open", Append(g, k + 1))
  BY <1>1, <1>4, <1>6 DEF Reads
<1> QED BY <1>3, <1>6, <1>7

\* Open, the first frame.
LEMMA ReadsFirst ==
  ASSUME NEW k \in Nat, NEW s \in Seq(Frames(ClientTypes)), NEW d \in Directions(ClientTypes),
         NEW h, NEW w, NEW g, Len(g) = 0, Reads(k, s, d, "first", h, w, g),
         d.q # <<>>, Head(d.q).type = "Open"
  PROVE  Reads(1, s, Popped(d), "dial", Head(d.q), w, g)
<1>1. k = 0 /\ Behind(k, s, d) BY DEF Reads
<1>2. Head(d.q) = s[1] /\ Behind(1, s, Popped(d))
  <2>1. Head(d.q) = s[k + 1] /\ Behind(k + 1, s, Popped(d)) BY <1>1, BehindPop
  <2>2. k + 1 = 1 BY <1>1
  <2> QED BY <2>1, <2>2
<1> QED BY <1>2 DEF Reads

\* The dial succeeds; the chunk of Open is written.
LEMMA ReadsDial ==
  ASSUME NEW s \in Seq(Frames(ClientTypes)), NEW d, NEW h, NEW w, NEW g \in Seq(Nat),
         Reads(1, s, d, "dial", h, w, g), AskedNumbered(s), Len(s) >= 1
  PROVE  /\ h.n = 1
         /\ \A i : Reads(1, s, d, "relay", i, w, Append(g, 1))
         /\ FirstOf(Append(g, 1), OfferedIn(s))
<1>1. Behind(1, s, d) /\ h = s[1] /\ s[1].type = "Open" /\ Len(g) = 0 BY DEF Reads
<1>2. 1 \in DOMAIN s /\ h.n = 1 BY <1>1 DEF AskedNumbered
<1>3. 1 \in OfferedIn(s) /\ \A j \in 1..1 : s[j].type # "HalfClose"
  <2>1. \A j \in 1..1 : j = 1 OBVIOUS
  <2>2. \A j \in 1..1 : s[j].type # "HalfClose" BY <1>1, <2>1
  <2> QED BY <1>1, <1>2, <2>2 DEF OfferedIn
<1>4. FirstOf(g, OfferedIn(s)) /\ KeptUp(0, OfferedIn(s), g)
  <2>1. DOMAIN g = {} BY <1>1
  <2>2. \A j \in OfferedIn(s) : ~(j <= 0) BY OfferedPlaces
  <2> QED BY <2>1, <2>2 DEF FirstOf, KeptUp
<1>5. 0 \in Nat /\ 0 + 1 = 1 OBVIOUS
<1>6. FirstOf(Append(g, 0 + 1), OfferedIn(s)) /\ KeptUp(0 + 1, OfferedIn(s), Append(g, 0 + 1))
  <2>1. OfferedIn(s) \in SUBSET Nat /\ 0 + 1 \in OfferedIn(s) BY <1>3, OfferedPlaces
  <2> QED BY <1>4, <1>5, <2>1, ListNext
<1>7. FirstOf(Append(g, 1), OfferedIn(s)) /\ KeptUp(1, OfferedIn(s), Append(g, 1)) BY <1>5, <1>6
<1> QED BY <1>1, <1>2, <1>3, <1>7 DEF Reads

\* The client sends a frame.
LEMMA ReadsAsks ==
  ASSUME NEW k \in Nat, NEW s \in Seq(Frames(ClientTypes)), NEW d \in Directions(ClientTypes),
         NEW pc, NEW h, NEW w, NEW g \in Seq(Nat), Reads(k, s, d, pc, h, w, g), Alive(d),
         NEW e \in Frames(ClientTypes)
  PROVE  Reads(k, Append(s, e), Sent(d, e), pc, h, w, g) /\ k <= Len(s)
<1> DEFINE r == Append(s, e)
<1>1. Behind(k, r, Sent(d, e)) /\ k <= Len(s) BY BehindSent DEF Reads
<1>2. Len(s) \in Nat /\ \A i \in 1..Len(s) : r[i] = s[i] BY AppendFacts
<1>3. KeptUp(k, OfferedIn(s), g) => KeptUp(k, OfferedIn(r), g)
  <2>1. OfferedIn(s) \subseteq OfferedIn(r) /\ OfferedIn(r) \subseteq OfferedIn(s) \cup {Len(s) + 1}
    BY OfferedMore
  <2>2. OfferedIn(s) \in SUBSET (1..Len(s)) /\ k \in 0..Len(s) BY <1>1, <1>2, OfferedPlaces
  <2> HIDE DEF r
  <2> QED BY <1>2, <2>1, <2>2, ListMore
<1> HIDE DEF r
<1>4. k >= 1 => r[1] = s[1] BY <1>1, <1>2
<1>5. \A j \in 1..k : r[j] = s[j] BY <1>1, <1>2
<1>6. pc = "dial" => k = 1 /\ h = r[1] /\ h.type = "Open" /\ Len(g) = 0 BY <1>4 DEF Reads
<1>7. pc \in {"relay", "sending"} =>
        /\ k >= 1 /\ r[1].type = "Open"
        /\ w = "open" => \A j \in 1..k : r[j].type # "HalfClose"
        /\ KeptUp(k, OfferedIn(r), g)
  BY <1>3, <1>4, <1>5 DEF Reads
<1>8. Reads(k, r, Sent(d, e), pc, h, w, g) BY <1>1, <1>6, <1>7 DEF Reads
<1> QED BY <1>1, <1>8 DEF r

\* The request ends or fails.
LEMMA ReadsEnd ==
  ASSUME NEW k \in Nat, NEW s \in Seq(Frames(ClientTypes)), NEW d \in Directions(ClientTypes),
         NEW c, c \in CutsOf(d) \/ (d.end = "open" /\ c = Ended(d)),
         NEW pc, NEW h, NEW w, NEW g, Reads(k, s, d, pc, h, w, g)
  PROVE  Reads(k, s, c, pc, h, w, g)
<1>1. Behind(k, s, d) BY DEF Reads
<1>2. Behind(k, s, c) BY <1>1, BehindCut, BehindEnded
<1> QED BY <1>2 DEF Reads

-----------------------------------------------------------------------------
(***************************************************************************)
(* Pings and Pongs.                                                        *)
(***************************************************************************)
\* Two responses with the same Pongs.
SamePongs(r, s) ==
  /\ \A i \in 1..Len(r) : r[i].type = "Pong" => \E j \in 1..Len(s) : s[j] = r[i]
  /\ \A j \in 1..Len(s) : s[j].type = "Pong" => \E i \in 1..Len(r) : r[i] = s[j]

\* Other frames of the response do not matter.
LEMMA PongsFrame ==
  ASSUME NEW k, NEW r, NEW s, NEW P, SamePongs(r, s), PongsUpTo(k, r, P)
  PROVE  PongsUpTo(k, s, P)
<1>1. ASSUME NEW m \in P, m <= k PROVE \E j \in 1..Len(s) : s[j] = Frame("Pong", m)
  <2>1. PICK i \in 1..Len(r) : r[i] = Frame("Pong", m) BY <1>1 DEF PongsUpTo
  <2>2. r[i].type = "Pong" BY <2>1 DEF Frame
  <2>3. PICK j \in 1..Len(s) : s[j] = r[i] BY <2>2 DEF SamePongs
  <2> QED BY <2>1, <2>3
<1>2. ASSUME NEW j \in 1..Len(s), s[j].type = "Pong" PROVE s[j].n <= k
  <2>1. PICK i \in 1..Len(r) : r[i] = s[j] BY <1>2 DEF SamePongs
  <2>2. r[i].n <= k BY <1>2, <2>1 DEF PongsUpTo
  <2> QED BY <2>1, <2>2
<1> QED BY <1>1, <1>2 DEF PongsUpTo

\* One more frame of another type.
LEMMA PongsOther ==
  ASSUME NEW r, NEW s, NEW e, Len(r) \in Nat, Len(s) = Len(r) + 1,
         \A j \in 1..Len(r) : s[j] = r[j], s[Len(r) + 1] = e, e.type # "Pong"
  PROVE  SamePongs(r, s)
<1>1. \A i \in 1..Len(r) : i \in 1..Len(s) /\ s[i] = r[i] OBVIOUS
<1>2. \A j \in 1..Len(s) : s[j].type = "Pong" => j \in 1..Len(r) /\ r[j] = s[j]
  <2>1. \A j \in 1..Len(s) : j \in 1..Len(r) \/ j = Len(r) + 1 OBVIOUS
  <2> QED BY <2>1
<1> QED BY <1>1, <1>2 DEF SamePongs

\* A frame is read that is no Ping.
LEMMA PongsSkip ==
  ASSUME NEW k \in Nat, NEW P \in SUBSET Nat, NEW S, NEW r \in Seq(Frames(S)), k + 1 \notin P,
         PongsUpTo(k, r, P)
  PROVE  PongsUpTo(k + 1, r, P)
<1>1. \A m \in P : m <= k + 1 => m <= k
  <2>1. \A m \in P : m \in Nat /\ m # k + 1 OBVIOUS
  <2> QED BY <2>1
<1>2. ASSUME NEW j \in 1..Len(r), r[j].type = "Pong" PROVE r[j].n <= k + 1
  <2>1. r[j] \in Frames(S) OBVIOUS
  <2>2. r[j].n \in Nat BY <2>1 DEF Frames
  <2>3. r[j].n <= k BY <1>2 DEF PongsUpTo
  <2> QED BY <2>2, <2>3
<1> QED BY <1>1, <1>2 DEF PongsUpTo

\* The client sends a Ping that has not been read.
LEMMA PongsMore ==
  ASSUME NEW n \in Nat, NEW P \in SUBSET (1..n), NEW Q, Q \subseteq P \cup {n + 1},
         NEW k \in Int, k <= n, NEW r, PongsUpTo(k, r, P)
  PROVE  PongsUpTo(k, r, Q)
<1>1. \A m \in Q : m <= k => m \in P OBVIOUS
<1> QED BY <1>1 DEF PongsUpTo

\* The Pong that answers the last Ping read.
LEMMA PongsNext ==
  ASSUME NEW k \in Nat, NEW P \in SUBSET Nat, k \in P, NEW S, NEW r \in Seq(Frames(S)), NEW s,
         Len(s) = Len(r) + 1, \A j \in 1..Len(r) : s[j] = r[j], s[Len(r) + 1] = Frame("Pong", k),
         PongsUpTo(k - 1, r, P)
  PROVE  NextIn(s, P, Len(s)) /\ PongsUpTo(k, s, P)
<1>1. Len(r) \in Nat /\ Len(s) - 1 = Len(r) /\ s[Len(s)] = Frame("Pong", k) OBVIOUS
<1>2. s[Len(s)].type = "Pong" /\ s[Len(s)].n = k BY <1>1 DEF Frame
<1>3. ASSUME NEW j \in 1..Len(r), s[j].type = "Pong" PROVE s[j].n < k /\ s[j].n <= k
  <2>1. r[j] \in Frames(S) /\ s[j] = r[j] OBVIOUS
  <2>2. r[j].n \in Nat BY <2>1 DEF Frames
  <2>3. r[j].n <= k - 1 BY <1>3, <2>1 DEF PongsUpTo
  <2> QED BY <2>1, <2>2, <2>3
<1>4. ASSUME NEW m \in P, m < k PROVE \E j \in 1..Len(r) : s[j] = Frame("Pong", m)
  <2>0. m \in Nat OBVIOUS
  <2>1. m <= k - 1 BY <1>4, <2>0
  <2>2. PICK j \in 1..Len(r) : r[j] = Frame("Pong", m) BY <2>1 DEF PongsUpTo
  <2> QED BY <2>2
<1>5. NextIn(s, P, Len(s)) BY <1>1, <1>2, <1>3, <1>4 DEF NextIn
<1>6. ASSUME NEW m \in P, m <= k PROVE \E j \in 1..Len(s) : s[j] = Frame("Pong", m)
  <2>1. CASE m = k
    <3>1. Len(s) \in 1..Len(s) BY <1>1
    <3> QED BY <1>1, <2>1, <3>1
  <2>2. CASE m # k
    <3>0. m \in Nat OBVIOUS
    <3>1. m < k BY <1>6, <2>2, <3>0
    <3>2. PICK j \in 1..Len(r) : s[j] = Frame("Pong", m) BY <1>4, <3>1
    <3>3. j \in 1..Len(s) BY <1>1
    <3> QED BY <3>2, <3>3
  <2> QED BY <2>1, <2>2
<1>7. ASSUME NEW j \in 1..Len(s), s[j].type = "Pong" PROVE s[j].n <= k
  <2>1. CASE j \in 1..Len(r) BY <1>3, <1>7, <2>1
  <2>2. CASE j = Len(s) BY <1>2, <2>2
  <2> QED BY <1>1, <2>1, <2>2
<1> QED BY <1>5, <1>6, <1>7 DEF PongsUpTo

-----------------------------------------------------------------------------
(***************************************************************************)
(* The server alone: what its steps and those of its partners have in      *)
(* common.                                                                 *)
(***************************************************************************)
\* What a well-typed state of the server alone is made of.
LEMMA ServerAloneFacts ==
  ASSUME ServerAloneTyped
  PROVE  /\ req \in Directions(ClientTypes) /\ rsp \in Directions(ServerTypes)
         /\ req.q \in Seq(Frames(ClientTypes)) /\ rsp.q \in Seq(Frames(ServerTypes))
         /\ tgt \in Peers /\ tgt.got \in Seq(Nat) /\ tgt.taken \in Nat
         /\ asked \in Seq(Frames(ClientTypes)) /\ answered \in Seq(Frames(ServerTypes))
         /\ Response \in Seq(Frames(ServerTypes)) /\ Len(Response) \in Nat
         /\ PingsIn(asked) \in SUBSET Nat
<1>1. /\ req \in Directions(ClientTypes) /\ rsp \in Directions(ServerTypes)
      /\ tgt \in Peers
      /\ asked \in Seq(Frames(ClientTypes)) /\ answered \in Seq(Frames(ServerTypes))
  BY DEF ServerAloneTyped, ServerTypeOK
<1>2. req.q \in Seq(Frames(ClientTypes)) /\ rsp.q \in Seq(Frames(ServerTypes))
  BY <1>1 DEF Directions
<1>3. Response \in Seq(Frames(ServerTypes)) BY <1>1, <1>2, ConcatFacts DEF Response
<1>4. Len(Response) \in Nat BY <1>3
<1>5. tgt.got \in Seq(Nat) /\ tgt.taken \in Nat BY <1>1 DEF Peers
<1>6. PingsIn(asked) \in SUBSET Nat BY <1>1, OfferedPlaces
<1> QED BY <1>1, <1>2, <1>3, <1>4, <1>5, <1>6

\* A step that neither sends nor reads a chunk keeps the response as it is.
LEMMA ResponseFrame ==
  ASSUME ResponseInv, Response' = Response, tgt'.taken = tgt.taken, asked' = asked,
         Alive(rsp)' => Alive(rsp), t2g' # "none" => t2g # "none",
         T2gActive' => T2gActive, Silent' => Silent
  PROVE  ResponseInv'
<1>1. ResponseOK(Response', tgt'.taken, PingsIn(asked')) BY DEF ResponseInv
<1>2. Silent' => Len(Response') = 0 BY DEF ResponseInv
<1>3. t2g' # "none" /\ Alive(rsp)' => Opened(Response') BY DEF ResponseInv
<1>4. T2gActive' /\ Alive(rsp)' => Flowing(Response', tgt'.taken) BY DEF ResponseInv
<1> QED BY <1>1, <1>2, <1>3, <1>4 DEF ResponseInv

\* The response fails.
LEMMA ResponseCut ==
  ASSUME ServerAloneTyped, ResponseInv, rsp' \in CutsOf(rsp), answered' = answered, asked' = asked,
         tgt' = tgt, Silent' => Silent
  PROVE  ResponseInv' /\ rsp' \in Directions(ServerTypes) /\ ~Alive(rsp)'
<1>1. /\ rsp \in Directions(ServerTypes) /\ answered \in Seq(Frames(ServerTypes))
      /\ tgt.taken \in Nat /\ PingsIn(asked) \in SUBSET Nat
  BY ServerAloneFacts
<1>2. PICK m \in 0..Len(rsp.q) : rsp'.q = SubSeq(rsp.q, 1, m) BY <1>1, CutFacts
<1>3. rsp'.end = "err" /\ rsp.q \in Seq(Frames(ServerTypes)) /\ rsp' \in Directions(ServerTypes)
  BY <1>1, CutFacts
<1>4. Response' = answered \o SubSeq(rsp.q, 1, m) BY <1>2 DEF Response
<1>5. /\ Len(Response') <= Len(Response) /\ Len(Response') \in Nat /\ Len(Response) \in Nat
      /\ \A i \in 1..Len(Response') : Response'[i] = Response[i]
  BY <1>1, <1>3, <1>4, ConcatPrefix DEF Response
<1>6. ResponseOK(Response, tgt.taken, PingsIn(asked)) BY DEF ResponseInv
<1> DEFINE r == Response
           s == Response'
           t == tgt.taken
           P == PingsIn(asked)
<1>7. ResponseOK(s, t, P)
  <2>1. /\ Len(r) \in Nat /\ Len(s) \in Nat /\ Len(s) <= Len(r) /\ \A i \in 1..Len(s) : s[i] = r[i]
        /\ t \in Nat /\ P \in SUBSET Nat /\ ResponseOK(r, t, P)
    BY <1>1, <1>5, <1>6
  <2> HIDE DEF r, s, t, P
  <2>2. t <= t /\ P \subseteq P /\ \A m1 \in P : m1 \in P \/ \A x \in P : x < m1 BY <2>1
  <2> QED BY <2>1, <2>2, ResponseKeeps
<1>8. ResponseOK(Response', tgt'.taken, PingsIn(asked')) BY <1>7
<1>9. ~Alive(rsp)' BY <1>3 DEF Alive
<1>10. Silent' => Len(Response') = 0 BY <1>5 DEF ResponseInv
<1>11. ResponseInv' BY <1>8, <1>9, <1>10 DEF ResponseInv
<1> QED BY <1>3, <1>9, <1>11

\* A frame is offered to the response.
LEMMA ResponseSent ==
  ASSUME ServerAloneTyped, NEW e \in Frames(ServerTypes), rsp' = Sent(rsp, e), answered' = answered
  PROVE  /\ rsp' \in Directions(ServerTypes) /\ (Alive(rsp)' <=> Alive(rsp))
         /\ ~Alive(rsp) => Response' = Response
         /\ Alive(rsp) => /\ Len(Response') = Len(Response) + 1
                          /\ \A i \in 1..Len(Response) : Response'[i] = Response[i]
                          /\ Response'[Len(Response) + 1] = e
         /\ e.type # "Pong" => SamePongs(Response, Response')
<1>1. rsp \in Directions(ServerTypes) /\ answered \in Seq(Frames(ServerTypes)) BY ServerAloneFacts
<1>2. /\ rsp' \in Directions(ServerTypes) /\ rsp'.end = rsp.end
      /\ rsp.q \in Seq(Frames(ServerTypes))
      /\ Alive(rsp) => rsp'.q = Append(rsp.q, e)
      /\ ~Alive(rsp) => rsp' = rsp
  BY <1>1, SentFacts
<1>3. ~Alive(rsp) => Response' = Response BY <1>2 DEF Response
<1>4. ASSUME Alive(rsp)
      PROVE  /\ Len(Response') = Len(Response) + 1
             /\ \A i \in 1..Len(Response) : Response'[i] = Response[i]
             /\ Response'[Len(Response) + 1] = e
  <2> DEFINE q == rsp.q
             r == Response
             s == Response'
  <2>1. s = answered \o Append(q, e) /\ r = answered \o q BY <1>2, <1>4 DEF Response
  <2>2. q \in Seq(Frames(ServerTypes)) BY <1>2
  <2> HIDE DEF q, r, s
  <2>3. /\ Len(answered \o Append(q, e)) = Len(answered \o q) + 1
        /\ \A i \in 1..Len(answered \o q) : (answered \o Append(q, e))[i] = (answered \o q)[i]
        /\ (answered \o Append(q, e))[Len(answered \o q) + 1] = e
    BY <1>1, <2>2, ConcatAppend, SMT
  <2>4. Len(s) = Len(r) + 1 /\ (\A i \in 1..Len(r) : s[i] = r[i]) /\ s[Len(r) + 1] = e
    BY <2>1, <2>3, Zenon
  <2> QED BY <2>4 DEF r, s
<1>5. Len(Response) \in Nat BY ServerAloneFacts
<1>6. ASSUME e.type # "Pong" PROVE SamePongs(Response, Response')
  <2>1. CASE ~Alive(rsp)
    <3>1. Response' = Response BY <1>3, <2>1
    <3> QED BY <3>1 DEF SamePongs
  <2>2. CASE Alive(rsp) BY <1>4, <1>5, <1>6, <2>2, PongsOther
  <2> QED BY <2>1, <2>2
<1>7. Alive(rsp)' <=> Alive(rsp) BY <1>2 DEF Alive
<1> QED BY <1>2, <1>3, <1>4, <1>6, <1>7

\* A step that reads nothing and sends no Pong.
LEMMA OfferedFrame ==
  ASSUME OfferedInv, UNCHANGED <<asked, req, spc, held, wshut>>, tgt'.got = tgt.got,
         Alive(rsp)' => Alive(rsp) /\ SamePongs(Response, Response')
  PROVE  OfferedInv'
<1>1. AskedNumbered(asked') /\ FirstOf(tgt'.got, OfferedIn(asked')) BY DEF OfferedInv
<1>2. ASSUME Reading'
      PROVE  \E k \in Nat : Keeps(k, asked', req', spc', held', wshut', tgt'.got, Response', Alive(rsp)')
  <2>1. Reading BY <1>2 DEF Reading
  <2>2. PICK k \in Nat : Keeps(k, asked, req, spc, held, wshut, tgt.got, Response, Alive(rsp))
    BY <2>1 DEF OfferedInv
  <2>3. Reads(k, asked', req', spc', held', wshut', tgt'.got) BY <2>2 DEF Keeps
  <2>4. ASSUME Alive(rsp)' PROVE Answers(k, Response', asked, spc, held)
    <3>1. Answers(k, Response, asked, spc, held) /\ SamePongs(Response, Response')
      BY <2>2, <2>4 DEF Keeps
    <3>2. spc = "relay" => PongsUpTo(k, Response', PingsIn(asked)) BY <3>1, PongsFrame DEF Answers
    <3>3. spc = "sending" => PongsUpTo(k - 1, Response', PingsIn(asked))
      BY <3>1, PongsFrame DEF Answers
    <3> QED BY <3>1, <3>2, <3>3 DEF Answers
  <2>5. Keeps(k, asked', req', spc', held', wshut', tgt'.got, Response', Alive(rsp)')
    BY <2>3, <2>4 DEF Keeps
  <2> QED BY <2>5
<1> QED BY <1>1, <1>2 DEF OfferedInv

\* The handler leaves its loop.
LEMMA OfferedStops ==
  ASSUME OfferedInv, asked' = asked, tgt'.got = tgt.got, ~Reading'
  PROVE  OfferedInv'
<1>1. AskedNumbered(asked') /\ FirstOf(tgt'.got, OfferedIn(asked')) BY DEF OfferedInv
<1> QED BY <1>1 DEF OfferedInv

\* The handler goes on.
LEMMA OfferedGoesOn ==
  ASSUME OfferedInv, asked' = asked, FirstOf(tgt'.got, OfferedIn(asked)), NEW k \in Nat,
         Keeps(k, asked, req', spc', held', wshut', tgt'.got, Response', Alive(rsp)')
  PROVE  OfferedInv'
<1>1. AskedNumbered(asked') /\ FirstOf(tgt'.got, OfferedIn(asked')) BY DEF OfferedInv
<1>2. Keeps(k, asked', req', spc', held', wshut', tgt'.got, Response', Alive(rsp)') OBVIOUS
<1> QED BY <1>1, <1>2 DEF OfferedInv

\* The client sends any frame.
LEMMA ClientAsksStep ==
  ASSUME ServerAloneInv, ClientAsks
  PROVE  ServerAloneInv'
<1> USE DEF ServerAloneInv
<1>0. /\ req \in Directions(ClientTypes) /\ asked \in Seq(Frames(ClientTypes))
      /\ tgt.got \in Seq(Nat) /\ tgt.taken \in Nat
      /\ Response \in Seq(Frames(ServerTypes)) /\ Len(Response) \in Nat
  BY ServerAloneFacts
<1>1. PICK type \in ClientTypes :
        LET f == Frame(type, IF type \in {"Data", "Ping"} \/ asked = <<>> THEN Len(asked) + 1 ELSE 0)
        IN  asked' = Append(asked, f) /\ req' = Sent(req, f)
  BY DEF ClientAsks
<1> DEFINE f == Frame(type, IF type \in {"Data", "Ping"} \/ asked = <<>> THEN Len(asked) + 1 ELSE 0)
           r == Append(asked, f)
           n == Len(asked)
<1>2. asked' = r /\ req' = Sent(req, f) BY <1>1
<1>3. /\ req.end = "open" /\ Alive(req) /\ rsp' = rsp /\ answered' = answered /\ tgt' = tgt
      /\ spc' = spc /\ held' = held /\ t2g' = t2g /\ wshut' = wshut /\ why' = why
  BY DEF ClientAsks, Alive, serverVars
<1>4. /\ f \in Frames(ClientTypes) /\ n \in Nat
      /\ f.type \in {"Data", "Ping"} \/ n = 0 => f.n = n + 1
  <2>1. n \in Nat /\ (n = 0 => asked = <<>>) BY <1>0
  <2> QED BY <2>1 DEF Frame, Frames
<1> HIDE DEF f
<1>5. /\ r \in Seq(Frames(ClientTypes)) /\ Len(r) = n + 1 /\ r[n + 1] = f
      /\ \A i \in 1..n : r[i] = asked[i]
  BY <1>0, <1>4, AppendFacts
<1>6. /\ OfferedIn(asked) \subseteq OfferedIn(r) /\ OfferedIn(r) \subseteq OfferedIn(asked) \cup {n + 1}
      /\ PingsIn(asked) \subseteq PingsIn(r) /\ PingsIn(r) \subseteq PingsIn(asked) \cup {n + 1}
  BY <1>0, <1>4, OfferedMore
<1>7. /\ OfferedIn(asked) \in SUBSET (1..n) /\ PingsIn(asked) \in SUBSET (1..n)
      /\ PingsIn(r) \in SUBSET Nat /\ DOMAIN asked = 1..n
  BY <1>0, <1>5, OfferedPlaces
<1> HIDE DEF r, n
<1>8. ServerAloneTyped'
  <2>1. req' \in Directions(ClientTypes) BY <1>0, <1>2, <1>4, SentFacts
  <2> QED BY <1>2, <1>3, <1>5, <2>1 DEF ServerAloneTyped, ServerTypeOK
<1>9. ServerPhases' BY <1>3 DEF ServerPhases
<1>10. Response' = Response BY <1>3 DEF Response
<1>11. ResponseInv'
  <2>1. ResponseOK(Response, tgt.taken, PingsIn(r))
    <3>1. PingsIn(asked) \in SUBSET Nat BY <1>4, <1>7
    <3>2. \A m \in PingsIn(r) : m \in PingsIn(asked) \/ \A x \in PingsIn(asked) : x < m
      BY <1>4, <1>6, <1>7
    <3>3. ResponseOK(Response, tgt.taken, PingsIn(asked)) BY DEF ResponseInv
    <3> DEFINE R == Response
               P == PingsIn(asked)
               Q == PingsIn(r)
               t == tgt.taken
    <3>4. /\ Len(R) \in Nat /\ Len(R) <= Len(R) /\ (\A j \in 1..Len(R) : R[j] = R[j])
          /\ t \in Nat /\ t <= t /\ P \in SUBSET Nat /\ Q \in SUBSET Nat /\ P \subseteq Q
          /\ (\A m \in Q : m \in P \/ \A x \in P : x < m) /\ ResponseOK(R, t, P)
      BY <1>0, <1>6, <1>7, <3>1, <3>2, <3>3
    <3> HIDE DEF R, P, Q, t
    <3>5. ResponseOK(R, t, Q) BY <3>4, ResponseKeeps
    <3> QED BY <3>5 DEF R, Q, t
  <2>2. ResponseOK(Response', tgt'.taken, PingsIn(asked')) BY <1>2, <1>3, <1>10, <2>1
  <2>3. Silent' => Len(Response') = 0 BY <1>3, <1>10 DEF ResponseInv, Silent
  <2>4. t2g' # "none" /\ Alive(rsp)' => Opened(Response') BY <1>3, <1>10 DEF ResponseInv
  <2>5. T2gActive' /\ Alive(rsp)' => Flowing(Response', tgt'.taken)
    BY <1>3, <1>10 DEF ResponseInv, T2gActive
  <2> QED BY <2>2, <2>3, <2>4, <2>5 DEF ResponseInv
<1>12. AskedNumbered(r)
  <2>1. \A i \in 1..n : i = 1 \/ asked[i].type \in {"Data", "Ping"} => asked[i].n = i
    BY <1>7 DEF OfferedInv, AskedNumbered
  <2>2. DOMAIN r = 1..n + 1 BY <1>5
  <2>3. ASSUME NEW i \in DOMAIN r, i = 1 \/ r[i].type \in {"Data", "Ping"} PROVE r[i].n = i
    <3>1. CASE i \in 1..n BY <1>5, <2>1, <2>3, <3>1
    <3>2. CASE i = n + 1 BY <1>4, <1>5, <2>3, <3>2
    <3> QED BY <1>4, <2>2, <3>1, <3>2
  <2> QED BY <2>3 DEF AskedNumbered
<1>13. FirstOf(tgt.got, OfferedIn(r))
  <2>1. FirstOf(tgt.got, OfferedIn(asked)) BY DEF OfferedInv
  <2> QED BY <1>0, <1>4, <1>6, <1>7, <2>1, ListMore
<1>14. ASSUME Reading
       PROVE  \E k \in Nat : Keeps(k, r, Sent(req, f), spc, held, wshut, tgt.got, Response, Alive(rsp))
  <2>1. PICK k \in Nat : Keeps(k, asked, req, spc, held, wshut, tgt.got, Response, Alive(rsp))
    BY <1>14 DEF OfferedInv
  <2>2. Reads(k, r, Sent(req, f), spc, held, wshut, tgt.got) /\ k <= n
    BY <1>0, <1>3, <1>4, <2>1, ReadsAsks DEF Keeps, r, n
  <2>3. ASSUME Alive(rsp) PROVE Answers(k, Response, r, spc, held)
    <3>1. Answers(k, Response, asked, spc, held) BY <2>1, <2>3 DEF Keeps
    <3>2. spc = "relay" => PongsUpTo(k, Response, PingsIn(r))
      <4>1. spc = "relay" => PongsUpTo(k, Response, PingsIn(asked)) BY <3>1 DEF Answers
      <4>2. k \in Int OBVIOUS
      <4> QED BY <1>4, <1>6, <1>7, <2>2, <4>1, <4>2, PongsMore
    <3>3. spc = "sending" => PongsUpTo(k - 1, Response, PingsIn(r))
      <4>1. spc = "sending" => PongsUpTo(k - 1, Response, PingsIn(asked)) BY <3>1 DEF Answers
      <4>2. k - 1 \in Int /\ k - 1 <= n BY <1>4, <2>2
      <4> QED BY <1>4, <1>6, <1>7, <4>1, <4>2, PongsMore
    <3> QED BY <1>6, <3>1, <3>2, <3>3 DEF Answers
  <2> QED BY <2>2, <2>3 DEF Keeps
<1>15. OfferedInv'
  <2>1. AskedNumbered(asked') /\ FirstOf(tgt'.got, OfferedIn(asked')) BY <1>2, <1>3, <1>12, <1>13
  <2>2. Reading' <=> Reading BY <1>3 DEF Reading
  <2>3. Reading => \E k \in Nat :
          Keeps(k, asked', req', spc', held', wshut', tgt'.got, Response', Alive(rsp)')
    BY <1>2, <1>3, <1>10, <1>14
  <2> QED BY <2>1, <2>2, <2>3 DEF OfferedInv
<1> QED BY <1>8, <1>9, <1>11, <1>15

\* Nothing changes for the handler and its task.
LEMMA ServerRests ==
  ASSUME UNCHANGED <<spc, held, t2g, wshut, why>>, tgt'.taken = tgt.taken, tgt'.got = tgt.got
  PROVE  /\ Silent' <=> Silent
         /\ T2gActive' <=> T2gActive
         /\ ServerPhases => ServerPhases'
<1>1. Silent' <=> Silent BY DEF Silent
<1>2. T2gActive' <=> T2gActive BY DEF T2gActive
<1>3. ServerPhases => ServerPhases' BY DEF ServerPhases
<1> QED BY <1>1, <1>2, <1>3

\* The client reads a frame of the response, ends the request or vanishes; the
\* target moves.
LEMMA ServerPartnersStep ==
  ASSUME ServerAloneInv,
         ClientHears \/ AnyClientEnds \/ AnyClientVanishes \/ AnyTargetMoves \/ AnyTargetReads
  PROVE  ServerAloneInv'
<1> USE DEF ServerAloneInv
<1>0. /\ req \in Directions(ClientTypes) /\ rsp \in Directions(ServerTypes)
      /\ rsp.q \in Seq(Frames(ServerTypes)) /\ asked \in Seq(Frames(ClientTypes))
      /\ tgt \in Peers /\ answered \in Seq(Frames(ServerTypes))
  BY ServerAloneFacts
<1>1. CASE ClientHears
  <2>1. /\ rsp' = Popped(rsp) /\ answered' = Append(answered, Head(rsp.q)) /\ rsp.q # <<>>
        /\ UNCHANGED <<spc, held, t2g, wshut, why, tgt, req, asked>>
    BY <1>1 DEF ClientHears, serverVars
  <2>2. /\ rsp' \in Directions(ServerTypes) /\ Head(rsp.q) \in Frames(ServerTypes)
        /\ rsp'.q = Tail(rsp.q) /\ rsp'.end = rsp.end
    BY <1>0, <2>1, PoppedFacts
  <2>3. answered' \in Seq(Frames(ServerTypes)) BY <1>0, <2>1, <2>2, AppendFacts
  <2>4. ServerAloneTyped' BY <2>1, <2>2, <2>3 DEF ServerAloneTyped, ServerTypeOK
  <2>5. Response' = Response
    <3>1. Response' = Append(answered, Head(rsp.q)) \o Tail(rsp.q) BY <2>1, <2>2 DEF Response
    <3>2. Append(answered, Head(rsp.q)) \o Tail(rsp.q) = answered \o rsp.q
      BY <1>0, <2>1, ConcatPop, Zenon
    <3> QED BY <3>1, <3>2 DEF Response
  <2>6. Alive(rsp)' <=> Alive(rsp) BY <2>2 DEF Alive
  <2>7. SamePongs(Response, Response') BY <2>5 DEF SamePongs
  <2>8. tgt'.taken = tgt.taken /\ tgt'.got = tgt.got BY <2>1
  <2>9. ServerPhases' /\ (Silent' <=> Silent) /\ (T2gActive' <=> T2gActive) BY <2>1, <2>8, ServerRests
  <2>10. ResponseInv' BY <2>1, <2>5, <2>6, <2>8, <2>9, ResponseFrame
  <2>11. OfferedInv' BY <2>1, <2>6, <2>7, <2>8, OfferedFrame
  <2> QED BY <2>4, <2>9, <2>10, <2>11
<1>2. CASE AnyClientEnds \/ AnyClientVanishes
  <2>1. /\ UNCHANGED <<spc, held, t2g, wshut, why, tgt, asked, answered>>
        /\ req' \in CutsOf(req) \/ (req.end = "open" /\ req' = Ended(req))
        /\ rsp' = rsp \/ rsp' = Cut(rsp, 0)
    BY <1>2 DEF AnyClientEnds, AnyClientVanishes, serverVars
  <2>2. req' \in Directions(ClientTypes)
    <3>1. CASE req' \in CutsOf(req) BY <1>0, <3>1, CutFacts
    <3>2. CASE req' = Ended(req) BY <1>0, <3>2 DEF Ended, Directions
    <3> QED BY <2>1, <3>1, <3>2
  <2>3. tgt'.taken = tgt.taken /\ tgt'.got = tgt.got BY <2>1
  <2>4. ServerPhases' /\ (Silent' <=> Silent) /\ (T2gActive' <=> T2gActive) BY <2>1, <2>3, ServerRests
  <2>5. /\ rsp' \in Directions(ServerTypes) /\ ResponseInv'
        /\ Alive(rsp)' => Alive(rsp) /\ Response' = Response
    <3>1. CASE rsp' = rsp
      <4>1. Response' = Response /\ (Alive(rsp)' => Alive(rsp)) BY <2>1, <3>1 DEF Response
      <4>2. ResponseInv' BY <2>1, <2>3, <2>4, <4>1, ResponseFrame
      <4> QED BY <1>0, <3>1, <4>1, <4>2
    <3>2. CASE rsp' = Cut(rsp, 0)
      <4>1. rsp' \in CutsOf(rsp) BY <1>0, <3>2, CutNothing
      <4> QED BY <2>1, <2>4, <4>1, ResponseCut
    <3> QED BY <2>1, <3>1, <3>2
  <2>6. ServerAloneTyped' BY <2>1, <2>2, <2>5 DEF ServerAloneTyped, ServerTypeOK
  <2>7. OfferedInv'
    <3>1. CASE ~Reading
      <4>1. ~Reading' BY <2>1, <3>1 DEF Reading
      <4> QED BY <2>1, <2>3, <4>1, OfferedStops
    <3>2. CASE Reading
      <4>1. PICK k \in Nat : Keeps(k, asked, req, spc, held, wshut, tgt.got, Response, Alive(rsp))
        BY <3>2 DEF OfferedInv
      <4>2. Reads(k, asked, req', spc, held, wshut, tgt.got)
        BY <1>0, <2>1, <4>1, ReadsEnd DEF Keeps
      <4>3. Alive(rsp)' => Answers(k, Response', asked, spc, held) BY <2>5, <4>1 DEF Keeps
      <4>4. Keeps(k, asked, req', spc', held', wshut', tgt'.got, Response', Alive(rsp)')
        BY <2>1, <4>2, <4>3 DEF Keeps
      <4>5. FirstOf(tgt'.got, OfferedIn(asked)) BY <2>1 DEF OfferedInv
      <4> QED BY <2>1, <4>4, <4>5, OfferedGoesOn
    <3> QED BY <3>1, <3>2
  <2> QED BY <2>4, <2>5, <2>6, <2>7
<1>3. CASE AnyTargetMoves \/ AnyTargetReads
  <2>1. /\ UNCHANGED <<spc, held, t2g, wshut, why, req, rsp, asked, answered>>
        /\ \/ PeerWrites(tgt, tgt', MAX_SERVED) \/ PeerFins(tgt, tgt')
           \/ PeerGoes(tgt, tgt') \/ PeerReads(tgt, tgt')
    BY <1>3 DEF AnyTargetMoves, AnyTargetReads, streamVars
  <2>2. tgt' \in Peers /\ tgt'.taken = tgt.taken /\ tgt'.got = tgt.got
    BY <1>0, <2>1, PeerStep, ServerAloneAssumption
  <2>3. ServerAloneTyped' BY <2>1, <2>2 DEF ServerAloneTyped, ServerTypeOK
  <2>4. Response' = Response /\ (Alive(rsp)' <=> Alive(rsp)) BY <2>1 DEF Response
  <2>5. SamePongs(Response, Response') BY <2>4 DEF SamePongs
  <2>6. ServerPhases' /\ (Silent' <=> Silent) /\ (T2gActive' <=> T2gActive) BY <2>1, <2>2, ServerRests
  <2>7. ResponseInv' BY <2>1, <2>2, <2>4, <2>6, ResponseFrame
  <2>8. OfferedInv' BY <2>1, <2>2, <2>4, <2>5, OfferedFrame
  <2> QED BY <2>3, <2>6, <2>7, <2>8
<1> QED BY <1>1, <1>2, <1>3

-----------------------------------------------------------------------------
(***************************************************************************)
(* The server alone: what it sends.                                        *)
(***************************************************************************)
\* target_to_grpc can go on behind a frame of the handler and behind the next
\* chunk.
LEMMA FlowingKeeps ==
  ASSUME NEW r, NEW s, NEW e, Len(r) \in Nat, Len(s) = Len(r) + 1,
         \A j \in 1..Len(r) : s[j] = r[j], s[Len(r) + 1] = e, e.type # "HalfClose",
         NEW t \in Nat, NEW u, u = t \/ (u = t + 1 /\ e = Frame("Data", u)), Flowing(r, t)
  PROVE  Flowing(s, u)
<1>1. ASSUME NEW j \in 1..Len(s) PROVE s[j].type # "HalfClose"
  <2>1. CASE j \in 1..Len(r) BY <2>1 DEF Flowing
  <2>2. CASE j = Len(r) + 1 BY <2>2
  <2> QED BY <2>1, <2>2
<1>2. ASSUME NEW m \in 1..u PROVE \E j \in 1..Len(s) : s[j] = Frame("Data", m)
  <2>1. CASE m \in 1..t
    <3>1. PICK j \in 1..Len(r) : r[j] = Frame("Data", m) BY <2>1 DEF Flowing
    <3>2. j \in 1..Len(s) /\ s[j] = r[j] OBVIOUS
    <3> QED BY <3>1, <3>2
  <2>2. CASE m \notin 1..t
    <3>1. m = u /\ e = Frame("Data", m) BY <2>2
    <3>2. Len(s) \in 1..Len(s) /\ s[Len(s)] = e OBVIOUS
    <3> QED BY <3>1, <3>2
  <2> QED BY <2>1, <2>2
<1> QED BY <1>1, <1>2 DEF Flowing

\* The next chunk of the target is the next of its type.
LEMMA FlowingNext ==
  ASSUME NEW r, NEW s, Len(r) \in Nat, Len(s) = Len(r) + 1, NEW t \in Nat,
         \A j \in 1..Len(r) : s[j] = r[j], s[Len(r) + 1] = Frame("Data", t + 1),
         NEW P, ResponseOK(r, t, P), Flowing(r, t)
  PROVE  NextIn(s, 1..t + 1, Len(s))
<1>1. Len(s) - 1 = Len(r) /\ s[Len(s)] = Frame("Data", t + 1) OBVIOUS
<1>2. s[Len(s)].type = "Data" /\ s[Len(s)].n = t + 1 BY <1>1 DEF Frame
<1>3. ASSUME NEW j \in 1..Len(r), s[j].type = "Data" PROVE s[j].n < t + 1
  <2>1. NextIn(r, 1..t, j) BY <1>3 DEF ResponseOK, PlaceOK
  <2>2. r[j].n \in 1..t BY <2>1 DEF NextIn
  <2> QED BY <2>2
<1>4. ASSUME NEW m \in 1..t + 1, m < t + 1 PROVE \E j \in 1..Len(r) : s[j] = Frame("Data", m)
  <2>1. m \in 1..t BY <1>4
  <2>2. PICK j \in 1..Len(r) : r[j] = Frame("Data", m) BY <2>1 DEF Flowing
  <2> QED BY <2>2
<1>5. t + 1 \in 1..t + 1 OBVIOUS
<1> QED BY <1>1, <1>2, <1>3, <1>4, <1>5 DEF NextIn

\* A frame is sent that may follow what was sent before.
LEMMA ResponseSays ==
  ASSUME ServerAloneTyped, ResponseInv, NEW e \in Frames(ServerTypes), rsp' = Sent(rsp, e),
         answered' = answered, asked' = asked, tgt'.taken \in Nat, tgt.taken <= tgt'.taken, ~Silent',
         \/ (Alive(rsp) => Len(Response) = 0) /\ e.type \in {"OpenResult", "Reset"}
         \/ (Alive(rsp) => Opened(Response)) /\ e.type \in {"Data", "HalfClose", "Reset", "Pong"},
         Alive(rsp) =>
           /\ e.type \in {"Data", "HalfClose"} =>
                \A j \in 1..Len(Response) : Response[j].type # "HalfClose"
           /\ e.type = "Data" => NextIn(Response', 1..tgt'.taken, Len(Response'))
           /\ e.type = "Pong" => NextIn(Response', PingsIn(asked), Len(Response')),
         t2g' # "none" /\ Alive(rsp) => t2g # "none" \/ (Silent /\ e = Frame("OpenResult", 1)),
         T2gActive' /\ Alive(rsp) => Flowing(Response', tgt'.taken)
  PROVE  ResponseInv'
<1>0. tgt.taken \in Nat /\ PingsIn(asked) \in SUBSET Nat /\ Len(Response) \in Nat
  BY ServerAloneFacts
<1>1. /\ Alive(rsp)' <=> Alive(rsp)
      /\ ~Alive(rsp) => Response' = Response
      /\ Alive(rsp) => /\ Len(Response') = Len(Response) + 1
                       /\ \A i \in 1..Len(Response) : Response'[i] = Response[i]
                       /\ Response'[Len(Response) + 1] = e
  BY ResponseSent
<1> DEFINE r == Response
           s == Response'
           t == tgt.taken
           u == tgt'.taken
           P == PingsIn(asked)
<1>2. ResponseOK(r, t, P) /\ t \in Nat /\ u \in Nat /\ t <= u /\ P \in SUBSET Nat /\ Len(r) \in Nat
  BY <1>0 DEF ResponseInv
<1>3. ResponseOK(s, u, P)
  <2>1. CASE ~Alive(rsp)
    <3>1. s = r BY <1>1, <2>1
    <3> HIDE DEF r, s, t, u, P
    <3>2. /\ Len(s) \in Nat /\ Len(s) <= Len(r) /\ (\A j \in 1..Len(s) : s[j] = r[j])
          /\ P \subseteq P /\ \A m \in P : m \in P \/ \A x \in P : x < m
      BY <1>2, <3>1
    <3> QED BY <1>2, <3>2, ResponseKeeps
  <2>2. CASE Alive(rsp)
    <3>1. /\ Len(s) = Len(r) + 1 /\ (\A j \in 1..Len(r) : s[j] = r[j]) /\ s[Len(r) + 1] = e
          /\ \/ Len(r) = 0 /\ e.type \in {"OpenResult", "Reset"}
             \/ Opened(r) /\ e.type \in {"Data", "HalfClose", "Reset", "Pong"}
          /\ e.type \in {"Data", "HalfClose"} => \A j \in 1..Len(r) : r[j].type # "HalfClose"
          /\ e.type = "Data" => NextIn(s, 1..u, Len(s))
          /\ e.type = "Pong" => NextIn(s, P, Len(s))
      BY <1>1, <2>2
    <3> HIDE DEF r, s, t, u, P
    <3> QED BY <1>2, <3>1, ResponseAppend
  <2> QED BY <2>1, <2>2
<1>4. ASSUME t2g' # "none", Alive(rsp) PROVE Opened(s)
  <2>1. CASE t2g # "none"
    <3>1. Len(r) >= 1 /\ r[1] = Frame("OpenResult", 1) BY <1>4, <2>1 DEF ResponseInv, Opened
    <3>2. s[1] = r[1] /\ Len(s) >= 1
      <4>1. 1 \in 1..Len(r) BY <1>0, <3>1
      <4> QED BY <1>0, <1>1, <1>4, <4>1
    <3> QED BY <3>1, <3>2 DEF Opened
  <2>2. CASE Silent /\ e = Frame("OpenResult", 1)
    <3>1. Len(r) = 0 BY <2>2 DEF ResponseInv
    <3>2. s[1] = e /\ Len(s) = 1
      <4>1. Len(r) + 1 = 1 BY <3>1
      <4> QED BY <1>1, <1>4, <4>1
    <3> QED BY <2>2, <3>2 DEF Opened
  <2> QED BY <1>4, <2>1, <2>2
<1>5. ResponseOK(Response', tgt'.taken, PingsIn(asked')) BY <1>3
<1>6. t2g' # "none" /\ Alive(rsp)' => Opened(Response') BY <1>1, <1>4
<1>7. T2gActive' /\ Alive(rsp)' => Flowing(Response', tgt'.taken) BY <1>1
<1> QED BY <1>5, <1>6, <1>7 DEF ResponseInv

-----------------------------------------------------------------------------
(***************************************************************************)
(* The server alone: its steps.                                            *)
(***************************************************************************)
\* handle_tunnel returns without a word, or turns to sending a Reset.
LEMMA HandlerLeaves ==
  ASSUME ServerAloneInv, spc \in {"first", "relay"}, UNCHANGED <<tgt, rsp, asked, answered>>,
         req' \in Directions(ClientTypes), wshut' \in {"open", "clean", "cut"}, why' \in ServerReasons,
         \/ spc' = "ended" /\ held' = NoFrame /\ t2g' = IF t2g = "run" THEN "aborting" ELSE t2g
         \/ spc' = "sending" /\ held' = Frame("Reset", 0) /\ t2g' = t2g
  PROVE  ServerAloneInv'
<1> USE DEF ServerAloneInv
<1>1. held' \in Frames({"Open", "Reset", "Pong", "Empty"}) /\ held'.type \in {"Empty", "Reset"}
  BY DEF NoFrame, Frame, Frames
<1>2. /\ t2g' \in {"none", "run", "aborting", "exit"} /\ (t2g' = "none" <=> t2g = "none")
      /\ t2g' \in {"run", "aborting"} => t2g \in {"run", "aborting"}
  BY DEF ServerAloneTyped, ServerTypeOK
<1>3. ServerAloneTyped' BY <1>1, <1>2 DEF ServerAloneTyped, ServerTypeOK
<1>4. spc' \in {"ended", "sending"} /\ (spc' = "sending" => held'.type = "Reset")
  BY DEF Frame
<1>5. ServerPhases' BY <1>2, <1>4 DEF ServerPhases
<1>6. Response' = Response BY DEF Response
<1>7. Silent' => Silent BY <1>2, <1>4 DEF Silent, ServerPhases
<1>8. tgt'.taken = tgt.taken /\ tgt'.got = tgt.got OBVIOUS
<1>9. T2gActive' => T2gActive BY <1>2 DEF T2gActive
<1>10. ResponseInv' BY <1>2, <1>6, <1>7, <1>8, <1>9, ResponseFrame
<1>11. ~Reading' BY <1>1, <1>4 DEF Reading
<1>12. OfferedInv' BY <1>8, <1>11, OfferedStops
<1> QED BY <1>3, <1>5, <1>10, <1>12

\* tunnel() checks the token.
LEMMA ServerAuthAlone ==
  ASSUME ServerAloneInv, ServerAuth, UNCHANGED <<asked, answered>>
  PROVE  ServerAloneInv'
<1> USE DEF ServerAloneInv
<1>0. rsp \in Directions(ServerTypes) BY ServerAloneFacts
<1>1. spc = "auth" /\ UNCHANGED <<tgt, held, t2g, wshut, req>> BY DEF ServerAuth
<1>2. tgt'.taken = tgt.taken /\ tgt'.got = tgt.got BY <1>1
<1>3. T2gActive' => T2gActive BY <1>1 DEF T2gActive
<1>4. Silent BY <1>1 DEF Silent
<1>5. CASE spc' = "first" /\ UNCHANGED <<rsp, why>>
  <2>1. ServerAloneTyped' BY <1>1, <1>5 DEF ServerAloneTyped, ServerTypeOK
  <2>2. ServerPhases' BY <1>1, <1>5 DEF ServerPhases
  <2>3. Response' = Response BY <1>5 DEF Response
  <2>4. ResponseInv' BY <1>1, <1>2, <1>3, <1>4, <1>5, <2>3, ResponseFrame
  <2>5. OfferedInv'
    <3>1. Reading BY <1>1 DEF Reading
    <3>2. PICK k \in Nat : Keeps(k, asked, req, spc, held, wshut, tgt.got, Response, Alive(rsp))
      BY <3>1 DEF OfferedInv
    <3>3. Reads(k, asked, req', spc', held', wshut', tgt'.got)
      BY <1>1, <1>5, <3>2 DEF Keeps, Reads
    <3>4. Answers(k, Response', asked, spc', held') BY <1>5 DEF Answers
    <3>5. Keeps(k, asked, req', spc', held', wshut', tgt'.got, Response', Alive(rsp)')
      BY <3>3, <3>4 DEF Keeps
    <3>6. FirstOf(tgt'.got, OfferedIn(asked)) BY <1>2 DEF OfferedInv
    <3> QED BY <3>5, <3>6, OfferedGoesOn
  <2> QED BY <2>1, <2>2, <2>4, <2>5
<1>6. CASE spc' = "ended" /\ rsp' = Cut(rsp, 0) /\ why' = "auth"
  <2>1. rsp' \in CutsOf(rsp) BY <1>0, <1>6, CutNothing
  <2>2. ResponseInv' /\ rsp' \in Directions(ServerTypes) BY <1>1, <1>4, <2>1, ResponseCut
  <2>3. ServerAloneTyped' BY <1>1, <1>6, <2>2 DEF ServerAloneTyped, ServerTypeOK, ServerReasons
  <2>4. ServerPhases' BY <1>1, <1>6 DEF ServerPhases
  <2>5. ~Reading' BY <1>6 DEF Reading
  <2>6. OfferedInv' BY <1>2, <2>5, OfferedStops
  <2> QED BY <2>2, <2>3, <2>4, <2>6
<1> QED BY <1>5, <1>6 DEF ServerAuth

\* The first frame of the request.
LEMMA ServerFirstAlone ==
  ASSUME ServerAloneInv, ServerFirstFrame, UNCHANGED <<asked, answered>>
  PROVE  ServerAloneInv'
<1> USE DEF ServerAloneInv
<1>0. /\ req \in Directions(ClientTypes) /\ asked \in Seq(Frames(ClientTypes))
      /\ tgt.got \in Seq(Nat) /\ tgt.taken \in Nat
  BY ServerAloneFacts
<1>1. /\ spc = "first" /\ req.q # <<>> /\ req' = Popped(req)
      /\ UNCHANGED <<tgt, t2g, wshut>>
  BY DEF ServerFirstFrame
<1>2. req' \in Directions(ClientTypes) /\ Head(req.q) \in Frames(ClientTypes)
  BY <1>0, <1>1, PoppedFacts
<1>3. t2g = "none" /\ tgt.taken = 0 /\ tgt.got = <<>> BY <1>1 DEF ServerPhases
<1>4. tgt'.taken = tgt.taken /\ tgt'.got = tgt.got BY <1>1
<1>5. Silent /\ Reading BY <1>1 DEF Silent, Reading
<1>6. CASE Head(req.q).type = "Open"
  <2>1. spc' = "dial" /\ held' = Head(req.q) /\ UNCHANGED <<rsp, why>>
    BY <1>6 DEF ServerFirstFrame
  <2>2. held' \in Frames({"Open", "Reset", "Pong", "Empty"}) BY <1>2, <1>6, <2>1 DEF Frames
  <2>3. ServerAloneTyped' BY <1>1, <1>2, <2>1, <2>2 DEF ServerAloneTyped, ServerTypeOK
  <2>4. ServerPhases' BY <1>1, <1>3, <2>1 DEF ServerPhases
  <2>5. Response' = Response /\ (T2gActive' => T2gActive) BY <1>1, <2>1 DEF Response, T2gActive
  <2>6. ResponseInv' BY <1>1, <1>4, <1>5, <2>1, <2>5, ResponseFrame
  <2>7. OfferedInv'
    <3>1. PICK k \in Nat : Keeps(k, asked, req, spc, held, wshut, tgt.got, Response, Alive(rsp))
      BY <1>5 DEF OfferedInv
    <3>2. Reads(k, asked, req, "first", held, wshut, tgt.got) BY <1>1, <3>1 DEF Keeps
    <3>3. Len(tgt.got) = 0 BY <1>3
    <3>4. Reads(1, asked, Popped(req), "dial", Head(req.q), wshut, tgt.got)
      BY <1>0, <1>1, <1>6, <3>2, <3>3, ReadsFirst
    <3>5. Reads(1, asked, req', spc', held', wshut', tgt'.got) BY <1>1, <2>1, <3>4
    <3>6. Answers(1, Response', asked, spc', held') BY <2>1 DEF Answers
    <3>7. Keeps(1, asked, req', spc', held', wshut', tgt'.got, Response', Alive(rsp)')
      BY <3>5, <3>6 DEF Keeps
    <3>8. FirstOf(tgt'.got, OfferedIn(asked)) BY <1>4 DEF OfferedInv
    <3> QED BY <3>7, <3>8, OfferedGoesOn
  <2> QED BY <2>3, <2>4, <2>6, <2>7
<1>7. CASE Head(req.q).type # "Open"
  <2> DEFINE e == Frame("OpenResult", 0)
  <2>1. spc' = "ended" /\ rsp' = Sent(rsp, e) /\ why' = "protocol" /\ held' = held
    BY <1>7 DEF ServerFirstFrame
  <2>2. e \in Frames(ServerTypes) /\ e.type = "OpenResult" BY DEF Frame, Frames, ServerTypes
  <2> HIDE DEF e
  <2>3. rsp' \in Directions(ServerTypes) BY <2>1, <2>2, ResponseSent
  <2>4. ServerAloneTyped'
    BY <1>1, <1>2, <2>1, <2>3 DEF ServerAloneTyped, ServerTypeOK, ServerReasons
  <2>5. ServerPhases' BY <1>1, <1>3, <2>1 DEF ServerPhases
  <2>6. ~Silent' /\ ~T2gActive' /\ t2g' = "none" /\ ~Reading'
    BY <1>1, <1>3, <2>1 DEF Silent, T2gActive, Reading
  <2>7. Len(Response) = 0 BY <1>5 DEF ResponseInv
  <2>8. tgt'.taken \in Nat /\ tgt.taken <= tgt'.taken BY <1>0, <1>4
  <2>9. ResponseInv' BY <2>1, <2>2, <2>6, <2>7, <2>8, ResponseSays
  <2>10. OfferedInv' BY <1>4, <2>6, OfferedStops
  <2> QED BY <2>4, <2>5, <2>9, <2>10
<1> QED BY <1>6, <1>7

\* The request ends, fails or stays silent before its first frame.
LEMMA ServerNoFirstAlone ==
  ASSUME ServerAloneInv, ServerNoFirstFrame, UNCHANGED <<asked, answered>>
  PROVE  ServerAloneInv'
<1>1. spc = "first" /\ UNCHANGED <<tgt, rsp, req>> BY DEF ServerNoFirstFrame, streamVars
<1>2. req' \in Directions(ClientTypes) /\ wshut \in {"open", "clean", "cut"}
  BY <1>1 DEF ServerAloneInv, ServerAloneTyped, ServerTypeOK
<1>3. Shut \in {"open", "clean", "cut"} BY <1>2 DEF Shut
<1>4. /\ wshut' \in {"open", "clean", "cut"} /\ why' \in ServerReasons
      /\ \/ spc' = "ended" /\ held' = NoFrame /\ t2g' = IF t2g = "run" THEN "aborting" ELSE t2g
         \/ spc' = "sending" /\ held' = Frame("Reset", 0) /\ t2g' = t2g
  BY <1>2, <1>3 DEF ServerNoFirstFrame, Return, SendReset, ServerReasons
<1> QED BY <1>1, <1>2, <1>4, HandlerLeaves

\* The loop is left: silence, the end or failure of the request, a Reset, a frame
\* out of place, a failed write.
LEMMA ServerLeavesAlone ==
  ASSUME ServerAloneInv, UNCHANGED <<asked, answered>>,
         \/ ServerIdleTimeout \/ ServerStreamEnd \/ ServerReset \/ ServerUnexpected
         \/ ServerData /\ tgt' = tgt /\ SendReset("write")
  PROVE  ServerAloneInv'
<1>1. spc = "relay" /\ UNCHANGED <<tgt, rsp>>
  BY DEF ServerIdleTimeout, ServerStreamEnd, ServerReset, ServerUnexpected, ServerData, streamVars
<1>2. req \in Directions(ClientTypes) /\ wshut \in {"open", "clean", "cut"}
  BY DEF ServerAloneInv, ServerAloneTyped, ServerTypeOK
<1>3. Shut \in {"open", "clean", "cut"} BY <1>2 DEF Shut
<1>4. req' = req \/ (req.q # <<>> /\ req' = Popped(req))
  BY DEF ServerIdleTimeout, ServerStreamEnd, ServerReset, ServerUnexpected, ServerData, streamVars,
         HasFrame
<1>5. req' \in Directions(ClientTypes) BY <1>2, <1>4, PoppedFacts
<1>6. /\ wshut' \in {"open", "clean", "cut"} /\ why' \in ServerReasons
      /\ \/ spc' = "ended" /\ held' = NoFrame /\ t2g' = IF t2g = "run" THEN "aborting" ELSE t2g
         \/ spc' = "sending" /\ held' = Frame("Reset", 0) /\ t2g' = t2g
  <2>1. CASE ServerIdleTimeout BY <1>2, <2>1 DEF ServerIdleTimeout, SendReset, ServerReasons
  <2>2. CASE ServerStreamEnd
    BY <1>2, <1>3, <2>2 DEF ServerStreamEnd, SendReset, Return, ServerReasons
  <2>3. CASE ServerReset BY <1>2, <1>3, <2>3 DEF ServerReset, Return, ServerReasons
  <2>4. CASE ServerUnexpected BY <1>2, <2>4 DEF ServerUnexpected, SendReset, ServerReasons
  <2>5. CASE ServerData /\ SendReset("write")
    BY <1>2, <2>5 DEF ServerData, SendReset, ServerReasons
  <2> QED BY <2>1, <2>2, <2>3, <2>4, <2>5
<1> QED BY <1>1, <1>5, <1>6, HandlerLeaves

\* The dial succeeds or fails.
LEMMA ServerDialAlone ==
  ASSUME ServerAloneInv, ServerDial, UNCHANGED <<asked, answered>>
  PROVE  ServerAloneInv'
<1> USE DEF ServerAloneInv
<1>0. /\ req \in Directions(ClientTypes) /\ asked \in Seq(Frames(ClientTypes))
      /\ tgt \in Peers /\ tgt.got \in Seq(Nat) /\ tgt.taken \in Nat
      /\ PingsIn(asked) \in SUBSET Nat /\ Len(Response) \in Nat
  BY ServerAloneFacts
<1>1. spc = "dial" /\ held' = NoFrame /\ wshut' = wshut /\ req' = req BY DEF ServerDial
<1>2. held' \in Frames({"Open", "Reset", "Pong", "Empty"}) BY <1>1 DEF NoFrame, Frame, Frames
<1>3. t2g = "none" /\ tgt.taken = 0 BY <1>1 DEF ServerPhases
<1>4. Silent /\ Reading BY <1>1 DEF Silent, Reading
<1>5. Len(Response) = 0 BY <1>4 DEF ResponseInv
<1>6. CASE spc' = "ended"
  <2> DEFINE e == Frame("OpenResult", 0)
  <2>1. rsp' = Sent(rsp, e) /\ why' = "refused" /\ tgt' = tgt /\ t2g' = t2g
    BY <1>6 DEF ServerDial
  <2>2. e \in Frames(ServerTypes) /\ e.type = "OpenResult" BY DEF Frame, Frames, ServerTypes
  <2> HIDE DEF e
  <2>3. rsp' \in Directions(ServerTypes) BY <2>1, <2>2, ResponseSent
  <2>4. ServerAloneTyped'
    BY <1>1, <1>2, <1>6, <2>1, <2>3 DEF ServerAloneTyped, ServerTypeOK, ServerReasons
  <2>5. ServerPhases' BY <1>1, <1>6, <2>1 DEF ServerPhases
  <2>6. ~Silent' /\ ~T2gActive' /\ t2g' = "none" /\ ~Reading'
    BY <1>3, <1>6, <2>1 DEF Silent, T2gActive, Reading
  <2>7. tgt'.taken \in Nat /\ tgt.taken <= tgt'.taken /\ tgt'.got = tgt.got BY <1>0, <2>1
  <2>8. ResponseInv' BY <1>5, <2>1, <2>2, <2>6, <2>7, ResponseSays
  <2>9. OfferedInv' BY <2>6, <2>7, OfferedStops
  <2> QED BY <2>4, <2>5, <2>8, <2>9
<1>7. CASE spc' = "relay"
  <2> DEFINE e == Frame("OpenResult", 1)
  <2>1. rsp' = Sent(rsp, e) /\ why' = why /\ tgt' = FirstPayload(tgt, held) /\ t2g' = "run"
    BY <1>7 DEF ServerDial
  <2>2. e \in Frames(ServerTypes) /\ e.type = "OpenResult" /\ e = Frame("OpenResult", 1)
    BY DEF Frame, Frames, ServerTypes
  <2> HIDE DEF e
  <2>3. PICK k \in Nat : Keeps(k, asked, req, spc, held, wshut, tgt.got, Response, Alive(rsp))
    BY <1>4 DEF OfferedInv
  <2>4. Reads(k, asked, req, "dial", held, wshut, tgt.got) BY <1>1, <2>3 DEF Keeps
  <2>5. k = 1 /\ asked[1].type = "Open" /\ Behind(1, asked, req) BY <2>4 DEF Reads
  <2>6. Len(asked) \in Nat /\ Len(asked) >= 1
    <3>1. 1 + Len(req.q) <= Len(asked) BY <2>5 DEF Behind
    <3>2. Len(req.q) \in Nat /\ Len(asked) \in Nat BY <1>0 DEF Directions
    <3> QED BY <3>1, <3>2
  <2>7. AskedNumbered(asked) BY DEF OfferedInv
  <2>8. /\ held.n = 1 /\ Reads(1, asked, req, "relay", held', wshut, Append(tgt.got, 1))
        /\ FirstOf(Append(tgt.got, 1), OfferedIn(asked))
    <3> DEFINE g == tgt.got
    <3> HIDE DEF g
    <3>1. /\ asked \in Seq(Frames(ClientTypes)) /\ g \in Seq(Nat)
          /\ Reads(1, asked, req, "dial", held, wshut, g)
      BY <1>0, <2>4, <2>5 DEF g
    <3>2. /\ held.n = 1 /\ \A i : Reads(1, asked, req, "relay", i, wshut, Append(g, 1))
          /\ FirstOf(Append(g, 1), OfferedIn(asked))
      BY <2>6, <2>7, <3>1, ReadsDial
    <3> QED BY <3>2 DEF g
  <2>9. tgt' = Wrote(tgt, 1) BY <2>1, <2>8 DEF FirstPayload
  <2>10. tgt' \in Peers /\ tgt'.taken = tgt.taken /\ tgt'.got = Append(tgt.got, 1)
    BY <1>0, <2>9, WroteFacts
  <2>11. /\ rsp' \in Directions(ServerTypes) /\ (Alive(rsp)' <=> Alive(rsp))
         /\ Alive(rsp) => /\ Len(Response') = Len(Response) + 1
                          /\ Response'[Len(Response) + 1] = e
    BY <2>1, <2>2, ResponseSent
  <2>12. ServerAloneTyped' BY <1>1, <1>2, <1>7, <2>1, <2>10, <2>11 DEF ServerAloneTyped, ServerTypeOK
  <2>13. ServerPhases' BY <1>7, <2>1 DEF ServerPhases
  <2>14. ~Silent' BY <1>7 DEF Silent
  <2>15. Alive(rsp) => \A j \in 1..Len(Response') : j = 1 /\ Response'[j].type = "OpenResult"
    <3>1. Len(Response) + 1 = 1 BY <1>5
    <3>2. Alive(rsp) => Len(Response') = 1 /\ Response'[1] = e BY <2>11, <3>1
    <3>3. \A j \in 1..1 : j = 1 OBVIOUS
    <3>4. Alive(rsp) => \A j \in 1..Len(Response') : j = 1 BY <3>2, <3>3
    <3> QED BY <2>2, <3>2, <3>4
  <2>16. Alive(rsp) => Flowing(Response', tgt'.taken)
    <3>1. tgt'.taken = 0 BY <1>3, <2>10
    <3> QED BY <2>15, <3>1 DEF Flowing
  <2>17. tgt'.taken \in Nat /\ tgt.taken <= tgt'.taken BY <1>0, <2>10
  <2>18. ResponseInv' BY <1>4, <1>5, <2>1, <2>2, <2>14, <2>16, <2>17, ResponseSays
  <2>19. Alive(rsp)' => Answers(1, Response', asked, spc', held')
    <3> SUFFICES ASSUME Alive(rsp) PROVE PongsUpTo(1, Response', PingsIn(asked))
      BY <1>7, <2>11 DEF Answers
    <3>1. \A m \in PingsIn(asked) : ~(m <= 1)
      <4>1. PingsIn(asked) \in SUBSET (1..Len(asked)) BY <1>0, OfferedPlaces
      <4>2. 1 \notin PingsIn(asked) BY <2>5 DEF PingsIn
      <4> QED BY <2>6, <4>1, <4>2
    <3> QED BY <2>15, <3>1 DEF PongsUpTo
  <2>20. Reads(1, asked, req', spc', held', wshut', tgt'.got) BY <1>1, <1>7, <2>8, <2>10
  <2>21. Keeps(1, asked, req', spc', held', wshut', tgt'.got, Response', Alive(rsp)')
    BY <2>19, <2>20 DEF Keeps
  <2>22. FirstOf(tgt'.got, OfferedIn(asked)) BY <2>8, <2>10
  <2>23. OfferedInv' BY <2>21, <2>22, OfferedGoesOn
  <2> QED BY <2>12, <2>13, <2>18, <2>23
<1> QED BY <1>6, <1>7 DEF ServerDial

\* The loop goes on: a chunk is written, the write half is shut, a Ping is taken up.
LEMMA ServerLoopAlone ==
  ASSUME ServerAloneInv, UNCHANGED <<asked, answered>>,
         \/ ServerHalfClose \/ ServerPing
         \/ ServerData /\ wshut = "open" /\ tgt' = Wrote(tgt, Head(req.q).n)
                       /\ UNCHANGED <<spc, held, t2g, why>>
  PROVE  ServerAloneInv'
<1> USE DEF ServerAloneInv
<1>0. /\ req \in Directions(ClientTypes) /\ asked \in Seq(Frames(ClientTypes))
      /\ tgt \in Peers /\ tgt.got \in Seq(Nat) /\ tgt.taken \in Nat
      /\ PingsIn(asked) \in SUBSET Nat
      /\ Response \in Seq(Frames(ServerTypes)) /\ Len(Response) \in Nat
      /\ wshut \in {"open", "clean", "cut"}
  BY ServerAloneFacts DEF ServerAloneTyped, ServerTypeOK
<1>1. /\ spc = "relay" /\ req.q # <<>> /\ req' = Popped(req)
      /\ rsp' = rsp /\ t2g' = t2g /\ why' = why
  BY DEF ServerHalfClose, ServerPing, ServerData, HasFrame
<1>2. req' \in Directions(ClientTypes) /\ Head(req.q) \in Frames(ClientTypes)
  BY <1>0, <1>1, PoppedFacts
<1>3. Head(req.q).n \in Nat BY <1>2 DEF Frames
<1>4. PICK k \in Nat : Keeps(k, asked, req, spc, held, wshut, tgt.got, Response, Alive(rsp))
  <2>1. Reading BY <1>1 DEF Reading
  <2> QED BY <2>1 DEF OfferedInv
<1>5. /\ Reads(k, asked, req, "relay", held, wshut, tgt.got)
      /\ Alive(rsp) => PongsUpTo(k, Response, PingsIn(asked))
  BY <1>1, <1>4 DEF Keeps, Answers
<1>6. k + 1 \in 1..Len(asked) /\ Head(req.q) = asked[k + 1] /\ DOMAIN asked = 1..Len(asked)
  BY <1>0, <1>1, <1>5, BehindPop, OfferedPlaces DEF Reads
<1>7. Response' = Response /\ (Alive(rsp)' <=> Alive(rsp)) BY <1>1 DEF Response
<1>8. T2gActive' <=> T2gActive BY <1>1 DEF T2gActive
<1>9. t2g # "none" BY <1>1 DEF ServerPhases
<1>10. AskedNumbered(asked) /\ FirstOf(tgt.got, OfferedIn(asked)) BY DEF OfferedInv
<1>11. Head(req.q).type # "Ping" /\ Alive(rsp) => PongsUpTo(k + 1, Response, PingsIn(asked))
  <2>1. Head(req.q).type # "Ping" => k + 1 \notin PingsIn(asked) BY <1>6 DEF PingsIn
  <2> QED BY <1>0, <1>5, <2>1, PongsSkip
<1>12. k + 1 \in Nat OBVIOUS
<1>13. CASE ServerData /\ wshut = "open" /\ tgt' = Wrote(tgt, Head(req.q).n)
                       /\ UNCHANGED <<spc, held, t2g, why>>
  <2>1. Head(req.q).type = "Data" /\ wshut' = wshut BY <1>13 DEF ServerData, HasFrame
  <2>2. tgt' \in Peers /\ tgt'.taken = tgt.taken /\ tgt'.got = Append(tgt.got, Head(req.q).n)
    BY <1>0, <1>3, <1>13, WroteFacts
  <2>3. ServerAloneTyped' BY <1>1, <1>2, <1>13, <2>1, <2>2 DEF ServerAloneTyped, ServerTypeOK
  <2>4. ServerPhases' /\ (Silent' <=> Silent) BY <1>1, <1>9, <1>13, <2>2 DEF ServerPhases, Silent
  <2>5. ResponseInv' BY <1>1, <1>7, <1>8, <2>2, <2>4, ResponseFrame
  <2>6. /\ Reads(k + 1, asked, Popped(req), "relay", held, "open", Append(tgt.got, Head(req.q).n))
        /\ FirstOf(Append(tgt.got, Head(req.q).n), OfferedIn(asked))
    <3>1. Reads(k, asked, req, "relay", held, "open", tgt.got) BY <1>5, <1>13
    <3> QED BY <1>0, <1>1, <1>10, <2>1, <3>1, ReadsData
  <2>7. Reads(k + 1, asked, req', spc', held', wshut', tgt'.got) BY <1>1, <1>13, <2>1, <2>2, <2>6
  <2>8. Alive(rsp)' => Answers(k + 1, Response', asked, spc', held')
    BY <1>1, <1>7, <1>11, <1>13, <2>1 DEF Answers
  <2>9. Keeps(k + 1, asked, req', spc', held', wshut', tgt'.got, Response', Alive(rsp)')
    BY <2>7, <2>8 DEF Keeps
  <2>10. FirstOf(tgt'.got, OfferedIn(asked)) BY <2>2, <2>6
  <2>11. OfferedInv' BY <1>12, <2>9, <2>10, OfferedGoesOn
  <2> QED BY <2>3, <2>4, <2>5, <2>11
<1>14. CASE ServerHalfClose
  <2>1. /\ Head(req.q).type = "HalfClose" /\ tgt' = tgt /\ spc' = spc /\ held' = held
        /\ wshut' = IF wshut = "open" THEN "clean" ELSE wshut
    BY <1>14 DEF ServerHalfClose, HasFrame
  <2>2. wshut' # "open" /\ wshut' \in {"open", "clean", "cut"} BY <1>0, <2>1
  <2>3. ServerAloneTyped' BY <1>1, <1>2, <2>1, <2>2 DEF ServerAloneTyped, ServerTypeOK
  <2>4. ServerPhases' /\ (Silent' <=> Silent) BY <1>1, <2>1 DEF ServerPhases, Silent
  <2>5. tgt'.taken = tgt.taken BY <2>1
  <2>6. ResponseInv' BY <1>1, <1>7, <1>8, <2>4, <2>5, ResponseFrame
  <2>7. Reads(k + 1, asked, Popped(req), "relay", held, wshut', tgt.got)
    BY <1>0, <1>1, <1>5, <2>1, <2>2, ReadsOther
  <2>8. Alive(rsp)' => Answers(k + 1, Response', asked, spc', held')
    BY <1>1, <1>7, <1>11, <2>1 DEF Answers
  <2>9. Keeps(k + 1, asked, req', spc', held', wshut', tgt'.got, Response', Alive(rsp)')
    BY <1>1, <2>1, <2>7, <2>8 DEF Keeps
  <2>10. FirstOf(tgt'.got, OfferedIn(asked)) BY <1>10, <2>1
  <2>11. OfferedInv' BY <1>12, <2>9, <2>10, OfferedGoesOn
  <2> QED BY <2>3, <2>4, <2>6, <2>11
<1>15. CASE ServerPing
  <2>1. /\ Head(req.q).type = "Ping" /\ tgt' = tgt /\ spc' = "sending" /\ wshut' = wshut
        /\ held' = Frame("Pong", Head(req.q).n)
    BY <1>15 DEF ServerPing, HasFrame
  <2>2. /\ held' \in Frames({"Open", "Reset", "Pong", "Empty"}) /\ held'.type = "Pong"
    BY <1>3, <2>1 DEF Frames, Frame
  <2>3. ServerAloneTyped' BY <1>1, <1>2, <2>1, <2>2 DEF ServerAloneTyped, ServerTypeOK
  <2>4. ServerPhases' /\ (Silent' => Silent) BY <1>1, <1>9, <2>1, <2>2 DEF ServerPhases, Silent
  <2>5. tgt'.taken = tgt.taken BY <2>1
  <2>6. ResponseInv' BY <1>1, <1>7, <1>8, <2>4, <2>5, ResponseFrame
  <2>7. Reads(k + 1, asked, Popped(req), "sending", held', wshut, tgt.got)
    BY <1>0, <1>1, <1>5, <2>1, ReadsOther
  <2>8. Head(req.q).n = k + 1 /\ k + 1 \in PingsIn(asked)
    BY <1>6, <1>10, <2>1 DEF AskedNumbered, PingsIn
  <2>9. Alive(rsp)' => Answers(k + 1, Response', asked, spc', held')
    <3>1. (k + 1) - 1 = k OBVIOUS
    <3> QED BY <1>5, <1>7, <2>1, <2>8, <3>1 DEF Answers
  <2>10. Keeps(k + 1, asked, req', spc', held', wshut', tgt'.got, Response', Alive(rsp)')
    BY <1>1, <2>1, <2>7, <2>9 DEF Keeps
  <2>11. FirstOf(tgt'.got, OfferedIn(asked)) BY <1>10, <2>1
  <2>12. OfferedInv' BY <1>12, <2>10, <2>11, OfferedGoesOn
  <2> QED BY <2>3, <2>4, <2>6, <2>12
<1> QED BY <1>13, <1>14, <1>15

\* A Pong or a Reset of the handler is sent.
LEMMA ServerSendAlone ==
  ASSUME ServerAloneInv, ServerSend, UNCHANGED <<asked, answered>>
  PROVE  ServerAloneInv'
<1> USE DEF ServerAloneInv
<1>0. /\ tgt.taken \in Nat /\ PingsIn(asked) \in SUBSET Nat
      /\ Response \in Seq(Frames(ServerTypes)) /\ Len(Response) \in Nat
      /\ wshut \in {"open", "clean", "cut"} /\ t2g \in {"none", "run", "aborting", "exit"}
      /\ held \in Frames({"Open", "Reset", "Pong", "Empty"})
  BY ServerAloneFacts DEF ServerAloneTyped, ServerTypeOK
<1>1. spc = "sending" /\ rsp' = Sent(rsp, held) /\ UNCHANGED <<tgt, why, req>> BY DEF ServerSend
<1>2. held.type \in {"Pong", "Reset"} /\ (held.type = "Pong" => t2g # "none")
  BY <1>1 DEF ServerPhases
<1>3. held \in Frames(ServerTypes) BY <1>0, <1>2 DEF Frames, ServerTypes
<1>4. /\ rsp' \in Directions(ServerTypes) /\ (Alive(rsp)' <=> Alive(rsp))
      /\ Alive(rsp) => /\ Len(Response') = Len(Response) + 1
                       /\ \A i \in 1..Len(Response) : Response'[i] = Response[i]
                       /\ Response'[Len(Response) + 1] = held
  BY <1>1, <1>3, ResponseSent
<1>5. tgt'.taken \in Nat /\ tgt'.taken = tgt.taken /\ tgt.taken <= tgt'.taken /\ tgt'.got = tgt.got
  BY <1>0, <1>1
<1>6. T2gActive /\ Alive(rsp) => Flowing(Response', tgt'.taken)
  <2> SUFFICES ASSUME T2gActive, Alive(rsp) PROVE Flowing(Response', tgt'.taken) OBVIOUS
  <2>1. Flowing(Response, tgt.taken) BY DEF ResponseInv
  <2>2. held.type # "HalfClose" BY <1>2
  <2> QED BY <1>0, <1>4, <1>5, <2>1, <2>2, FlowingKeeps
<1>7. t2g # "none" /\ Alive(rsp) => Opened(Response) BY DEF ResponseInv
<1>8. CASE held.type = "Pong"
  <2>1. spc' = "relay" /\ held' = NoFrame /\ UNCHANGED <<wshut, t2g>> BY <1>8 DEF ServerSend
  <2>2. held' \in Frames({"Open", "Reset", "Pong", "Empty"}) BY <2>1 DEF NoFrame, Frame, Frames
  <2>3. ServerAloneTyped' BY <1>1, <1>4, <2>1, <2>2 DEF ServerAloneTyped, ServerTypeOK
  <2>4. ServerPhases' /\ ~Silent' BY <1>2, <1>8, <2>1 DEF ServerPhases, Silent
  <2>5. PICK k \in Nat : Keeps(k, asked, req, spc, held, wshut, tgt.got, Response, Alive(rsp))
    BY <1>1, <1>8 DEF OfferedInv, Reading
  <2>6. ASSUME Alive(rsp)
        PROVE  /\ NextIn(Response', PingsIn(asked), Len(Response'))
               /\ PongsUpTo(k, Response', PingsIn(asked))
    <3>1. held = Frame("Pong", k) /\ k \in PingsIn(asked) /\ PongsUpTo(k - 1, Response, PingsIn(asked))
      BY <1>1, <2>5, <2>6 DEF Keeps, Answers
    <3> DEFINE r == Response
               s == Response'
               P == PingsIn(asked)
    <3>2. /\ P \in SUBSET Nat /\ k \in P /\ r \in Seq(Frames(ServerTypes)) /\ Len(s) = Len(r) + 1
          /\ (\A j \in 1..Len(r) : s[j] = r[j]) /\ s[Len(r) + 1] = Frame("Pong", k)
          /\ PongsUpTo(k - 1, r, P)
      BY <1>0, <1>4, <2>6, <3>1
    <3> HIDE DEF r, s, P
    <3>3. NextIn(s, P, Len(s)) /\ PongsUpTo(k, s, P) BY <3>2, PongsNext
    <3> QED BY <3>3 DEF r, s, P
  <2>7. T2gActive' <=> T2gActive BY <2>1 DEF T2gActive
  <2>8. t2g' # "none" /\ t2g # "none" BY <1>2, <1>8, <2>1
  <2>9. ResponseInv'
    BY <1>1, <1>3, <1>5, <1>6, <1>7, <1>8, <2>4, <2>6, <2>7, <2>8, ResponseSays
  <2>10. Reads(k, asked, req, "sending", held, wshut, tgt.got) BY <1>1, <2>5 DEF Keeps
  <2>11. Reads(k, asked, req, "relay", NoFrame, wshut, tgt.got) BY <2>10 DEF Reads
  <2>12. Reads(k, asked, req', spc', held', wshut', tgt'.got) BY <1>1, <2>1, <2>11
  <2>13. Alive(rsp)' => Answers(k, Response', asked, spc', held') BY <1>4, <2>1, <2>6 DEF Answers
  <2>14. Keeps(k, asked, req', spc', held', wshut', tgt'.got, Response', Alive(rsp)')
    BY <2>12, <2>13 DEF Keeps
  <2>15. FirstOf(tgt'.got, OfferedIn(asked)) BY <1>5 DEF OfferedInv
  <2>16. OfferedInv' BY <2>14, <2>15, OfferedGoesOn
  <2> QED BY <2>3, <2>4, <2>9, <2>16
<1>9. CASE held.type = "Reset"
  <2>1. /\ spc' = "ended" /\ held' = NoFrame /\ wshut' = Shut
        /\ t2g' = IF t2g = "run" THEN "aborting" ELSE t2g
    BY <1>9 DEF ServerSend, Return
  <2>2. held' \in Frames({"Open", "Reset", "Pong", "Empty"}) BY <2>1 DEF NoFrame, Frame, Frames
  <2>3. /\ t2g' \in {"none", "run", "aborting", "exit"} /\ (t2g' = "none" <=> t2g = "none")
        /\ wshut' \in {"open", "clean", "cut"}
    BY <1>0, <2>1 DEF Shut
  <2>4. ServerAloneTyped' BY <1>1, <1>4, <2>1, <2>2, <2>3 DEF ServerAloneTyped, ServerTypeOK
  <2>5. ServerPhases' /\ ~Silent' /\ ~Reading'
    BY <1>1, <2>1, <2>3 DEF ServerPhases, Silent, Reading
  <2>6. T2gActive' => T2gActive BY <1>0, <2>1 DEF T2gActive
  <2>7. t2g = "none" => Len(Response) = 0 BY <1>1 DEF ResponseInv, Silent
  <2>8. \/ Alive(rsp) => Len(Response) = 0
        \/ Alive(rsp) => Opened(Response)
    BY <1>7, <2>7
  <2>9. ResponseInv' BY <1>1, <1>3, <1>5, <1>6, <1>9, <2>3, <2>5, <2>6, <2>8, ResponseSays
  <2>10. OfferedInv' BY <1>5, <2>5, OfferedStops
  <2> QED BY <2>4, <2>5, <2>9, <2>10
<1> QED BY <1>2, <1>8, <1>9

\* target_to_grpc.
LEMMA T2gAlone ==
  ASSUME ServerAloneInv, T2gStep, UNCHANGED <<asked, answered>>
  PROVE  ServerAloneInv'
<1> USE DEF ServerAloneInv
<1>0. /\ tgt \in Peers /\ tgt.taken \in Nat /\ PingsIn(asked) \in SUBSET Nat
      /\ Len(Response) \in Nat /\ t2g \in {"none", "run", "aborting", "exit"}
  BY ServerAloneFacts DEF ServerAloneTyped, ServerTypeOK
<1>1. T2gActive /\ UNCHANGED <<spc, held, wshut, why, req>>
  BY DEF T2gStep, T2gData, T2gEof, T2gReadError
<1>2. PICK e \in {Frame("Data", tgt.taken + 1), Frame("HalfClose", 0), Frame("Reset", 0)} :
        /\ rsp' = Sent(rsp, e)
        /\ \/ e = Frame("Data", tgt.taken + 1) /\ tgt' = Taken(tgt) /\ t2g' \in {t2g, "exit"}
           \/ e.type \in {"HalfClose", "Reset"} /\ tgt' = tgt /\ t2g' = "exit"
  BY DEF T2gStep, T2gData, T2gEof, T2gReadError, Frame
<1>3. e \in Frames(ServerTypes) /\ e.type \in {"Data", "HalfClose", "Reset"}
  BY <1>0, <1>2 DEF Frame, Frames, ServerTypes
<1>4. /\ rsp' \in Directions(ServerTypes) /\ (Alive(rsp)' <=> Alive(rsp))
      /\ Alive(rsp) => /\ Len(Response') = Len(Response) + 1
                       /\ \A i \in 1..Len(Response) : Response'[i] = Response[i]
                       /\ Response'[Len(Response) + 1] = e
      /\ SamePongs(Response, Response')
  BY <1>2, <1>3, ResponseSent
<1>5. t2g \in {"run", "aborting"} /\ t2g' \in {"run", "aborting", "exit"} /\ t2g # "none"
  BY <1>1, <1>2 DEF T2gActive
<1>6. /\ tgt' \in Peers /\ tgt'.taken \in Nat /\ tgt.taken <= tgt'.taken /\ tgt'.got = tgt.got
      /\ e.type = "Data" => tgt'.taken = tgt.taken + 1 /\ e = Frame("Data", tgt.taken + 1)
      /\ e.type # "Data" => t2g' = "exit"
  BY <1>0, <1>2, TakenFacts DEF Frame
<1>7. ServerAloneTyped' BY <1>1, <1>4, <1>5, <1>6 DEF ServerAloneTyped, ServerTypeOK
<1>8. spc \notin {"auth", "first", "dial"} BY <1>5 DEF ServerPhases
<1>9. ServerPhases' /\ ~Silent' BY <1>1, <1>5, <1>8 DEF ServerPhases, Silent
<1>10. Alive(rsp) => Opened(Response) /\ Flowing(Response, tgt.taken)
  BY <1>1, <1>5 DEF ResponseInv
<1>11. Alive(rsp) => \A j \in 1..Len(Response) : Response[j].type # "HalfClose"
  BY <1>10 DEF Flowing
<1>12. ResponseOK(Response, tgt.taken, PingsIn(asked)) BY DEF ResponseInv
<1>13. ASSUME Alive(rsp), e.type = "Data"
       PROVE  NextIn(Response', 1..tgt'.taken, Len(Response')) /\ Flowing(Response', tgt'.taken)
  <2> DEFINE r == Response
             s == Response'
             t == tgt.taken
             P == PingsIn(asked)
  <2>1. /\ Len(r) \in Nat /\ Len(s) = Len(r) + 1 /\ t \in Nat /\ (\A j \in 1..Len(r) : s[j] = r[j])
        /\ s[Len(r) + 1] = Frame("Data", t + 1) /\ ResponseOK(r, t, P) /\ Flowing(r, t)
    BY <1>0, <1>4, <1>6, <1>10, <1>12, <1>13
  <2> HIDE DEF r, s, t, P
  <2>2. NextIn(s, 1..t + 1, Len(s)) BY <2>1, FlowingNext
  <2>3. Flowing(s, t + 1)
    <3>1. Frame("Data", t + 1).type # "HalfClose" BY DEF Frame
    <3> QED BY <2>1, <3>1, FlowingKeeps
  <2> QED BY <1>6, <1>13, <2>2, <2>3 DEF r, s, t
<1>14. T2gActive' /\ Alive(rsp) => Flowing(Response', tgt'.taken)
  BY <1>6, <1>13 DEF T2gActive
<1>15. ResponseInv'
  BY <1>2, <1>3, <1>5, <1>6, <1>9, <1>10, <1>11, <1>13, <1>14, ResponseSays
<1>16. OfferedInv' BY <1>1, <1>4, <1>6, OfferedFrame
<1> QED BY <1>7, <1>9, <1>15, <1>16

\* The task is dropped; what tonic and h2 do for the server.
LEMMA ServerRestAlone ==
  ASSUME ServerAloneInv, T2gDropped \/ ServerTransport, UNCHANGED <<asked, answered>>
  PROVE  ServerAloneInv'
<1> USE DEF ServerAloneInv
<1>0. req \in Directions(ClientTypes) /\ rsp \in Directions(ServerTypes) BY ServerAloneFacts
<1>1. /\ UNCHANGED <<tgt, spc, held, wshut, why>>
      /\ \/ t2g = "aborting" /\ t2g' = "exit"
         \/ t2g' = t2g
  BY DEF T2gDropped, ServerTransport, FinishResponse, DropRequest, serverVars
<1>2. /\ rsp' = rsp \/ (rsp.end = "open" /\ rsp' = Ended(rsp))
      /\ req' = req \/ (ServerReleased /\ req' = Cut(req, 0))
  BY DEF T2gDropped, ServerTransport, FinishResponse, DropRequest, streamVars
<1>3. rsp' \in Directions(ServerTypes) /\ rsp'.q = rsp.q /\ (Alive(rsp)' <=> Alive(rsp))
  BY <1>0, <1>2 DEF Ended, Directions, Alive
<1>4. req' \in Directions(ClientTypes) BY <1>0, <1>2, CutNothing, CutFacts
<1>5. ServerAloneTyped' BY <1>1, <1>3, <1>4 DEF ServerAloneTyped, ServerTypeOK
<1>6. tgt'.taken = tgt.taken /\ tgt'.got = tgt.got BY <1>1
<1>7. t2g' = "none" <=> t2g = "none" BY <1>1
<1>8. ServerPhases' /\ (Silent' => Silent) /\ (T2gActive' => T2gActive)
  BY <1>1, <1>7 DEF ServerPhases, Silent, T2gActive
<1>9. Response' = Response BY <1>3 DEF Response
<1>10. ResponseInv' BY <1>3, <1>6, <1>7, <1>8, <1>9, ResponseFrame
<1>11. OfferedInv'
  <2>1. CASE req' = req
    <3>1. SamePongs(Response, Response') BY <1>9 DEF SamePongs
    <3> QED BY <1>1, <1>3, <1>6, <2>1, <3>1, OfferedFrame
  <2>2. CASE ServerReleased
    <3>1. ~Reading' BY <1>1, <2>2 DEF ServerReleased, ServerEnded, Reading
    <3> QED BY <1>6, <3>1, OfferedStops
  <2> QED BY <1>2, <2>1, <2>2
<1> QED BY <1>5, <1>8, <1>10, <1>11

\* The server alone starts with nothing said.
LEMMA ServerAloneStarts == ServerAloneInit => ServerAloneInv
<1> SUFFICES ASSUME ServerAloneInit PROVE ServerAloneInv OBVIOUS
<1>1. /\ tgt = NewPeer(0) /\ spc = "auth" /\ held = NoFrame /\ t2g = "none" /\ wshut = "open"
      /\ why = "none" /\ req = NewStream(<<>>) /\ rsp = NewStream(<<>>)
      /\ asked = <<>> /\ answered = <<>>
  BY DEF ServerAloneInit, ServerInit
<1>2. tgt \in Peers /\ tgt.taken = 0 /\ tgt.got = <<>> BY <1>1 DEF NewPeer, Peers
<1>3. /\ req \in Directions(ClientTypes) /\ req.q = <<>>
      /\ rsp \in Directions(ServerTypes) /\ rsp.q = <<>>
  BY <1>1 DEF NewStream, Directions
<1>4. held \in Frames({"Open", "Reset", "Pong", "Empty"}) BY <1>1 DEF NoFrame, Frame, Frames
<1>5. ServerAloneTyped BY <1>1, <1>2, <1>3, <1>4 DEF ServerAloneTyped, ServerTypeOK, ServerReasons
<1>6. ServerPhases BY <1>1, <1>2 DEF ServerPhases
<1>7. Response = <<>> BY <1>1, <1>3 DEF Response
<1>8. ResponseInv BY <1>1, <1>7 DEF ResponseInv, ResponseOK, T2gActive
<1>9. AskedNumbered(asked) /\ FirstOf(tgt.got, OfferedIn(asked)) BY <1>1, <1>2 DEF AskedNumbered, FirstOf
<1>10. Reads(0, asked, req, spc, held, wshut, tgt.got) BY <1>1, <1>2, <1>3 DEF Reads, Behind
<1>11. Answers(0, Response, asked, spc, held) BY <1>1 DEF Answers
<1>12. Keeps(0, asked, req, spc, held, wshut, tgt.got, Response, Alive(rsp)) BY <1>10, <1>11 DEF Keeps
<1>13. OfferedInv BY <1>9, <1>12 DEF OfferedInv
<1> QED BY <1>5, <1>6, <1>8, <1>13 DEF ServerAloneInv

\* One step of the server.
LEMMA ServerAloneStep ==
  ASSUME ServerAloneInv, ServerAlone
  PROVE  ServerAloneInv'
<1>1. UNCHANGED <<asked, answered>> BY DEF ServerAlone
<1>2. CASE ServerAuth BY <1>1, <1>2, ServerAuthAlone
<1>3. CASE ServerFirstFrame BY <1>1, <1>3, ServerFirstAlone
<1>4. CASE ServerNoFirstFrame BY <1>1, <1>4, ServerNoFirstAlone
<1>5. CASE ServerDial BY <1>1, <1>5, ServerDialAlone
<1>6. CASE ServerIdleTimeout \/ ServerStreamEnd \/ ServerReset \/ ServerUnexpected
  BY <1>1, <1>6, ServerLeavesAlone
<1>7. CASE ServerData
  <2>1. \/ wshut = "open" /\ tgt' = Wrote(tgt, Head(req.q).n) /\ UNCHANGED <<spc, held, t2g, why>>
        \/ tgt' = tgt /\ SendReset("write")
    BY <1>7 DEF ServerData
  <2> QED BY <1>1, <1>7, <2>1, ServerLeavesAlone, ServerLoopAlone
<1>8. CASE ServerHalfClose \/ ServerPing BY <1>1, <1>8, ServerLoopAlone
<1>9. CASE ServerSend BY <1>1, <1>9, ServerSendAlone
<1>10. CASE T2gStep BY <1>1, <1>10, T2gAlone
<1>11. CASE T2gDropped \/ ServerTransport BY <1>1, <1>11, ServerRestAlone
<1> QED BY <1>2, <1>3, <1>4, <1>5, <1>6, <1>7, <1>8, <1>9, <1>10, <1>11
        DEF ServerAlone, ServerNext, ServerMain

\* handle_tunnel and target_to_grpc alone keep their invariant against any client.
LEMMA ServerAloneInvariance == ServerAloneSpec => []ServerAloneInv
<1>1. ServerAloneInit => ServerAloneInv BY ServerAloneStarts
<1>2. ServerAloneInv /\ [ServerAloneNext]_serverAloneVars => ServerAloneInv'
  <2> SUFFICES ASSUME ServerAloneInv, [ServerAloneNext]_serverAloneVars PROVE ServerAloneInv'
    OBVIOUS
  <2>1. CASE ClientAsks BY <2>1, ClientAsksStep
  <2>2. CASE ClientHears \/ AnyClientEnds \/ AnyClientVanishes \/ AnyTargetMoves \/ AnyTargetReads
    BY <2>2, ServerPartnersStep
  <2>3. CASE ServerAlone BY <2>3, ServerAloneStep
  <2>4. CASE UNCHANGED serverAloneVars
    <3>1. UNCHANGED <<req, rsp, tgt, spc, held, t2g, wshut, why, asked, answered>>
      BY <2>4 DEF serverAloneVars, streamVars, serverVars
    <3>2. ServerAloneTyped' BY <3>1 DEF ServerAloneInv, ServerAloneTyped, ServerTypeOK
    <3>3. Response' = Response /\ (Alive(rsp)' <=> Alive(rsp)) BY <3>1 DEF Response
    <3>4. tgt'.taken = tgt.taken /\ tgt'.got = tgt.got BY <3>1
    <3>5. ServerPhases' /\ (Silent' <=> Silent) /\ (T2gActive' <=> T2gActive)
      BY <3>1, <3>4, ServerRests DEF ServerAloneInv
    <3>6. ResponseInv' BY <3>1, <3>3, <3>4, <3>5, ResponseFrame DEF ServerAloneInv
    <3>7. SamePongs(Response, Response') BY <3>3 DEF SamePongs
    <3>8. OfferedInv' BY <3>1, <3>3, <3>4, <3>7, OfferedFrame DEF ServerAloneInv
    <3> QED BY <3>2, <3>5, <3>6, <3>8 DEF ServerAloneInv
  <2> QED BY <2>1, <2>2, <2>3, <2>4 DEF ServerAloneNext
<1> QED BY <1>1, <1>2, PTL DEF ServerAloneSpec

\* Whatever the client sends, the frames handle_tunnel and target_to_grpc send
\* form a conversation relay_grpc can follow, with one Pong for each Ping.
THEOREM ResponseIsWellFormed == ServerAloneSpec => []ResponseWellFormed
<1>1. ServerAloneInv => ResponseWellFormed
  <2> SUFFICES ASSUME ServerAloneInv PROVE ResponseWellFormed OBVIOUS
  <2>1. ResponseOK(Response, tgt.taken, PingsIn(asked)) BY DEF ServerAloneInv, ResponseInv
  <2>2. PingsIn(asked) = Pings BY DEF PingsIn, Pings
  <2>3. \A i \in 1..Len(Response) : PlaceOK(Response, tgt.taken, Pings, i)
    BY <2>1, <2>2 DEF ResponseOK
  <2> QED BY <2>3 DEF PlaceOK, NextIn, ResponseWellFormed, NextOf
<1> QED BY <1>1, ServerAloneInvariance, PTL

\* Whatever the client sends, handle_tunnel writes to the target exactly the
\* chunks of an opened conversation up to its HalfClose, in order, without a gap.
THEOREM TargetIsOffered == ServerAloneSpec => []TargetGetsOffered
<1>1. ServerAloneInv => TargetGetsOffered
  BY DEF ServerAloneInv, OfferedInv, OfferedIn, TargetGetsOffered, Offered
<1> QED BY <1>1, ServerAloneInvariance, PTL
=============================================================================
