---------------------------- MODULE ChinaIpProofs ----------------------------
(***************************************************************************)
(* The table of ChinaIp, for addresses of every width and files of every   *)
(* length.                                                                 *)
(***************************************************************************)
EXTENDS ChinaIp, SequenceTheorems, FiniteSetTheorems, NaturalsInduction, WellFoundedInduction, TLAPS

-----------------------------------------------------------------------------
\* The vectors hold ranges of their own family.
VectorsTyped ==
  \A f \in Families : ranges[f] \in Seq(Ranges(f)) /\ table[f] \in Seq(Ranges(f))

\* What was pushed is what the lines denote.
RangesExact ==
  \A f \in Families : \A n \in 0..TopAddr(f) :
    Inside(ranges[f], n) <=> Listed([fam |-> f, n |-> n])

\* The merge of a family is over.
Merged(f) == pc = "ready" \/ (f = "V4" /\ fam = "V6")

TableExact ==
  \A f \in Families :
    IF Merged(f)
    THEN Apart(table[f]) /\ \A n \in 0..TopAddr(f) : Inside(table[f], n) <=> Inside(ranges[f], n)
    ELSE table[f] = <<>>

Ascending(s) == \A i, j \in DOMAIN s : i < j => s[i].lo <= s[j].lo

\* The loop: what is behind it is apart, what is before it is in order.
LoopInv ==
  pc = "merging" =>
    /\ Ascending(todo)
    /\ \A i \in DOMAIN todo : cur.lo <= todo[i].lo
    /\ Apart(merged) /\ \A i \in DOMAIN merged : merged[i].hi + 1 < cur.lo
    /\ \A n \in 0..TopAddr(fam) :
         Inside(ranges[fam], n) <=>
           Inside(merged, n) \/ (cur.lo <= n /\ n <= cur.hi) \/ Inside(todo, n)

TableInv ==
  /\ TypeOK /\ VectorsTyped /\ RangesExact /\ TableExact /\ LoopInv
  /\ pc \in {"reading", "failed"} => fam = "V4"
  /\ pc # "merging" => todo = <<>> /\ merged = <<>>

-----------------------------------------------------------------------------
(***************************************************************************)
(* Vectors of ranges.                                                      *)
(***************************************************************************)
LEMMA RangeFacts ==
  ASSUME NEW f \in Families
  PROVE  /\ TopAddr(f) \in Nat
         /\ \A r \in Ranges(f) : /\ r.lo \in 0..TopAddr(f) /\ r.hi \in 0..TopAddr(f) /\ r.lo <= r.hi
                                 /\ r.lo \in Nat /\ r.hi \in Nat
         /\ \A lo, hi \in 0..TopAddr(f) : lo <= hi => Span(lo, hi) \in Ranges(f)
<1> DEFINE size == 2 ^ WIDTH[f]
<1>1. size \in Nat \ {0}
  <2>1. WIDTH[f] \in 0..WIDTH[f] BY TableAssumption
  <2> QED BY <2>1, PowersOfTwo
<1>2. TopAddr(f) = size - 1 BY DEF TopAddr
<1> HIDE DEF size
<1>3. TopAddr(f) \in Nat BY <1>1, <1>2
<1> QED BY <1>3 DEF Ranges, Span

LEMMA InsideAppend ==
  ASSUME NEW S, NEW s \in Seq(S), NEW r \in S, NEW n
  PROVE  Inside(Append(s, r), n) <=> Inside(s, n) \/ (r.lo <= n /\ n <= r.hi)
<1> DEFINE t == Append(s, r)
<1>1. /\ Len(s) \in Nat /\ DOMAIN s = 1..Len(s) /\ DOMAIN t = 1..(Len(s) + 1)
      /\ \A i \in 1..Len(s) : t[i] = s[i]
      /\ t[Len(s) + 1] = r
  OBVIOUS
<1> HIDE DEF t
<1>2. \A i \in DOMAIN t : i \in DOMAIN s \/ i = Len(s) + 1 BY <1>1
<1>3. DOMAIN s \subseteq DOMAIN t /\ Len(s) + 1 \in DOMAIN t BY <1>1
<1>4. Inside(t, n) <=> Inside(s, n) \/ (r.lo <= n /\ n <= r.hi) BY <1>1, <1>2, <1>3 DEF Inside
<1> QED BY <1>4 DEF t

LEMMA InsideHead ==
  ASSUME NEW S, NEW s \in Seq(S), s # <<>>, NEW n
  PROVE  Inside(s, n) <=> (Head(s).lo <= n /\ n <= Head(s).hi) \/ Inside(Tail(s), n)
<1> DEFINE t == Tail(s)
<1>1. /\ Len(s) \in Nat /\ Len(s) > 0 /\ DOMAIN s = 1..Len(s) /\ DOMAIN t = 1..(Len(s) - 1)
      /\ \A i \in 1..(Len(s) - 1) : t[i] = s[i + 1]
      /\ Head(s) = s[1]
  OBVIOUS
<1> HIDE DEF t
<1>2. \A i \in DOMAIN s : i = 1 \/ (i - 1 \in DOMAIN t /\ t[i - 1] = s[i]) BY <1>1
<1>3. \A i \in DOMAIN t : i + 1 \in DOMAIN s /\ s[i + 1] = t[i] BY <1>1
<1>4. 1 \in DOMAIN s BY <1>1
<1>5. Inside(s, n) <=> (Head(s).lo <= n /\ n <= Head(s).hi) \/ Inside(t, n)
  BY <1>1, <1>2, <1>3, <1>4 DEF Inside
<1> QED BY <1>5 DEF t

LEMMA InsideConcat ==
  ASSUME NEW S, NEW s \in Seq(S), NEW t \in Seq(S), NEW n
  PROVE  Inside(s \o t, n) <=> Inside(s, n) \/ Inside(t, n)
<1> DEFINE u == s \o t
<1>1. /\ Len(s) \in Nat /\ Len(t) \in Nat /\ DOMAIN s = 1..Len(s) /\ DOMAIN t = 1..Len(t)
      /\ DOMAIN u = 1..(Len(s) + Len(t))
      /\ \A i \in 1..(Len(s) + Len(t)) : u[i] = IF i <= Len(s) THEN s[i] ELSE t[i - Len(s)]
  OBVIOUS
<1> HIDE DEF u
<1>2. \A i \in DOMAIN u : (i \in DOMAIN s /\ u[i] = s[i]) \/ (i - Len(s) \in DOMAIN t /\ u[i] = t[i - Len(s)])
  BY <1>1
<1>3. \A i \in DOMAIN s : i \in DOMAIN u /\ u[i] = s[i] BY <1>1
<1>4. \A i \in DOMAIN t : i + Len(s) \in DOMAIN u /\ u[i + Len(s)] = t[i] BY <1>1
<1>5. Inside(u, n) <=> Inside(s, n) \/ Inside(t, n) BY <1>2, <1>3, <1>4 DEF Inside
<1> QED BY <1>5 DEF u

LEMMA InsideNone == \A n : ~Inside(<<>>, n)
  BY DEF Inside

LEMMA ApartAppend ==
  ASSUME NEW S, NEW s \in Seq(S), NEW r \in S
  PROVE  Apart(Append(s, r)) <=> Apart(s) /\ \A i \in DOMAIN s : s[i].hi + 1 < r.lo
<1> DEFINE t == Append(s, r)
<1>1. /\ Len(s) \in Nat /\ DOMAIN s = 1..Len(s) /\ DOMAIN t = 1..(Len(s) + 1)
      /\ \A i \in 1..Len(s) : t[i] = s[i]
      /\ t[Len(s) + 1] = r
  OBVIOUS
<1> HIDE DEF t
<1>2. Apart(t) => Apart(s) /\ \A i \in DOMAIN s : s[i].hi + 1 < r.lo
  <2>1. \A i \in DOMAIN s : i \in DOMAIN t /\ i < Len(s) + 1 /\ Len(s) + 1 \in DOMAIN t BY <1>1
  <2> QED BY <1>1, <2>1 DEF Apart
<1>3. Apart(s) /\ (\A i \in DOMAIN s : s[i].hi + 1 < r.lo) => Apart(t)
  <2>1. \A i, j \in DOMAIN t : i < j => i \in DOMAIN s /\ (j \in DOMAIN s \/ j = Len(s) + 1) BY <1>1
  <2> QED BY <1>1, <2>1 DEF Apart
<1> QED BY <1>2, <1>3 DEF t

-----------------------------------------------------------------------------
(***************************************************************************)
(* Sorting.                                                                *)
(***************************************************************************)
LEMMA IsSeq == \A S : \A n \in Nat : \A f \in [1..n -> S] : f \in Seq(S)
  BY SeqDef, Zenon

LEMMA SortedFacts ==
  ASSUME NEW S, NEW s \in Seq(S), NEW t \in Sortings(s)
  PROVE  /\ t \in Seq(S) /\ (s # <<>> => t # <<>>) /\ Ascending(t)
         /\ \A n : Inside(t, n) <=> Inside(s, n)
<1>1. PICK p \in [DOMAIN s -> DOMAIN s] :
        /\ \A k \in DOMAIN s : \E i \in DOMAIN s : p[i] = k
        /\ t = [i \in DOMAIN s |-> s[p[i]]]
        /\ \A i, j \in DOMAIN s : i < j => t[i].lo <= t[j].lo
  BY DEF Sortings
<1>2. Len(s) \in Nat /\ DOMAIN s = 1..Len(s) /\ (\A i \in DOMAIN s : s[i] \in S) OBVIOUS
<1>3. t \in [1..Len(s) -> S] BY <1>1, <1>2
<1>4. t \in Seq(S) BY <1>2, <1>3, IsSeq
<1>5. DOMAIN t = DOMAIN s BY <1>1
<1>6. s # <<>> => t # <<>>
  <2>1. s # <<>> => 1 \in DOMAIN s OBVIOUS
  <2> QED BY <1>5, <2>1
<1>7. Ascending(t) BY <1>1, <1>5 DEF Ascending
<1>8. ASSUME NEW n PROVE Inside(t, n) <=> Inside(s, n)
  <2>1. \A i \in DOMAIN s : p[i] \in DOMAIN s /\ t[i] = s[p[i]] BY <1>1
  <2> QED BY <1>1, <1>5, <2>1 DEF Inside
<1> QED BY <1>4, <1>6, <1>7, <1>8

-----------------------------------------------------------------------------
(***************************************************************************)
(* Networks.                                                               *)
(***************************************************************************)
LEMMA Monotone ==
  ASSUME NEW a \in Nat, NEW b \in Nat, NEW c \in Nat, a <= b
  PROVE  a * c <= b * c
<1>1. b = a + (b - a) /\ b - a \in Nat OBVIOUS
<1>2. b * c = a * c + (b - a) * c BY <1>1
<1>3. (b - a) * c \in Nat BY <1>1
<1>4. a * c \in Nat /\ b * c \in Nat OBVIOUS
<1> QED BY <1>2, <1>3, <1>4

\* An address lies in the block its quotient names.
LEMMA Block ==
  ASSUME NEW a \in Nat, NEW size \in Nat \ {0}
  PROVE  /\ a \div size \in Nat
         /\ (a \div size) * size <= a /\ a < (a \div size) * size + size
<1>1. a \div size \in Nat /\ a % size \in 0..(size - 1) OBVIOUS
<1>2. a = size * (a \div size) + (a % size) OBVIOUS
<1>3. size * (a \div size) = (a \div size) * size BY <1>1
<1> QED BY <1>1, <1>2, <1>3

LEMMA SameBlock ==
  ASSUME NEW a \in Nat, NEW n \in Nat, NEW size \in Nat \ {0}
  PROVE  LET start == (a \div size) * size
         IN  (start <= n /\ n <= start + size - 1) <=> n \div size = a \div size
<1> DEFINE k == a \div size
           m == n \div size
<1>1. k \in Nat /\ m \in Nat /\ m * size <= n /\ n < m * size + size BY Block
<1> HIDE DEF k, m
<1>2. k * size \in Nat /\ m * size \in Nat BY <1>1
<1>3. CASE m = k BY <1>1, <1>2, <1>3 DEF k, m
<1>4. CASE m < k
  <2>1. (m + 1) * size <= k * size BY <1>1, <1>4, Monotone
  <2>2. (m + 1) * size = m * size + size BY <1>1
  <2>3. n < k * size BY <1>1, <1>2, <2>1, <2>2
  <2> QED BY <1>1, <1>2, <1>4, <2>3 DEF k, m
<1>5. CASE k < m
  <2>1. (k + 1) * size <= m * size BY <1>1, <1>5, Monotone
  <2>2. (k + 1) * size = k * size + size BY <1>1
  <2>3. k * size + size <= n BY <1>1, <1>2, <2>1, <2>2
  <2> QED BY <1>1, <1>2, <1>5, <2>3 DEF k, m
<1> QED BY <1>1, <1>3, <1>4, <1>5

\* The last block ends where the address space ends.
LEMMA LastBlock ==
  ASSUME NEW size \in Nat \ {0}, NEW space \in Nat \ {0}, space % size = 0, NEW a \in 0..(space - 1)
  PROVE  LET start == (a \div size) * size
         IN  start \in 0..(space - 1) /\ start + size - 1 \in 0..(space - 1)
<1> DEFINE k == a \div size
           q == space \div size
<1>1. k \in Nat /\ k * size <= a BY Block
<1>2. q \in Nat /\ space = q * size
  <2>1. q \in Nat BY Block
  <2>2. space = size * q + (space % size) OBVIOUS
  <2> QED BY <2>1, <2>2
<1> HIDE DEF k, q
<1>3. k * size \in Nat /\ q * size \in Nat BY <1>1, <1>2
<1>4. k < q
  <2>1. q <= k => q * size <= k * size BY <1>1, <1>2, Monotone
  <2> QED BY <1>1, <1>2, <1>3, <2>1
<1>5. (k + 1) * size <= q * size BY <1>1, <1>2, <1>4, Monotone
<1>6. (k + 1) * size = k * size + size BY <1>1
<1> QED BY <1>1, <1>2, <1>3, <1>5, <1>6 DEF k

-----------------------------------------------------------------------------
(***************************************************************************)
(* The binary search.                                                      *)
(***************************************************************************)
LEMMA LeastNat == \A T : T \subseteq Nat /\ T # {} => \E x \in T : \A y \in T : x <= y
<1> SUFFICES ASSUME NEW T, T \subseteq Nat, T # {} PROVE \E x \in T : \A y \in T : x <= y
  OBVIOUS
<1>1. PICK x \in T : \A y \in T : ~(<<y, x>> \in OpToRel(<, Nat))
  BY NatLessThanWellFounded, WFMin
<1>2. \A y \in T : ~(y < x) BY <1>1 DEF OpToRel
<1> QED BY <1>2

\* The ranges that start before n are the first ones.
LEMMA InsertionSplits ==
  ASSUME NEW f \in Families, NEW s \in Seq(Ranges(f)), Apart(s), NEW n \in Nat
  PROVE  LET k == InsertionPoint(s, n)
         IN  k \in Nat /\ k <= Len(s) /\ \A i \in DOMAIN s : i <= k <=> s[i].lo < n
<1> DEFINE before == {i \in DOMAIN s : s[i].lo < n}
           gaps == {j \in Nat : j + 1 \notin before}
<1>1. /\ Len(s) \in Nat /\ DOMAIN s = 1..Len(s)
      /\ \A i \in DOMAIN s : s[i] \in Ranges(f)
  OBVIOUS
<1>2. \A i \in DOMAIN s : s[i].lo \in Nat /\ s[i].hi \in Nat /\ s[i].lo <= s[i].hi
  BY <1>1, RangeFacts
<1>3. \A i, j \in DOMAIN s : i < j => s[i].lo < s[j].lo
  <2> SUFFICES ASSUME NEW i \in DOMAIN s, NEW j \in DOMAIN s, i < j PROVE s[i].lo < s[j].lo
    OBVIOUS
  <2>1. s[i].hi + 1 < s[j].lo BY DEF Apart
  <2>2. s[i].lo \in Nat /\ s[i].hi \in Nat /\ s[i].lo <= s[i].hi /\ s[j].lo \in Nat BY <1>2
  <2> QED BY <2>1, <2>2
<1>4. before \subseteq 1..Len(s) BY <1>1
<1>5. \A i, j \in DOMAIN s : i < j /\ j \in before => i \in before
  <2> SUFFICES ASSUME NEW i \in DOMAIN s, NEW j \in DOMAIN s, i < j, j \in before PROVE i \in before
    OBVIOUS
  <2>1. s[i].lo < s[j].lo /\ s[j].lo < n /\ s[i].lo \in Nat /\ s[j].lo \in Nat BY <1>2, <1>3
  <2> QED BY <2>1
<1>6. \A i \in DOMAIN s : i \in before <=> s[i].lo < n OBVIOUS
<1>7. InsertionPoint(s, n) = Cardinality(before) BY DEF InsertionPoint
<1> HIDE DEF before
<1>8. Len(s) \in gaps BY <1>1, <1>4
<1>9. PICK k \in gaps : \A j \in gaps : k <= j BY <1>8, LeastNat
<1>10. k \in Nat /\ k <= Len(s) /\ k + 1 \notin before BY <1>8, <1>9
<1>11. \A i \in 1..k : i \in before
  <2> SUFFICES ASSUME NEW i \in 1..k, i \notin before PROVE FALSE OBVIOUS
  <2>1. i - 1 \in Nat /\ i - 1 < k /\ (i - 1) + 1 = i BY <1>10
  <2>2. i - 1 \in gaps BY <2>1
  <2> QED BY <1>9, <1>10, <2>1, <2>2
<1>12. \A i \in before : i <= k
  <2> SUFFICES ASSUME NEW i \in before, ~(i <= k) PROVE FALSE OBVIOUS
  <2>1. i \in DOMAIN s /\ k + 1 \in DOMAIN s /\ (k + 1 < i \/ k + 1 = i) BY <1>1, <1>4, <1>10
  <2> QED BY <1>5, <1>10, <2>1
<1>13. before = 1..k
  <2>1. \A i \in before : i \in 1..k BY <1>1, <1>4, <1>10, <1>12
  <2> QED BY <1>11, <2>1
<1>14. Cardinality(before) = k
  <2>1. Cardinality(1..k) = IF 1 > k THEN 0 ELSE k - 1 + 1 BY <1>10, FS_Interval
  <2> QED BY <1>10, <1>13, <2>1
<1>15. \A i \in DOMAIN s : i <= k <=> s[i].lo < n BY <1>1, <1>6, <1>10, <1>13
<1> QED BY <1>7, <1>10, <1>14, <1>15

\* On ranges that are apart, contains answers as a scan of all of them would.
LEMMA SearchExact ==
  ASSUME NEW f \in Families, NEW s \in Seq(Ranges(f)), Apart(s), NEW n \in Nat
  PROVE  contains_sorted(s, n) <=> Inside(s, n)
<1> DEFINE k == InsertionPoint(s, n)
<1>1. k \in Nat /\ k <= Len(s) /\ \A i \in DOMAIN s : i <= k <=> s[i].lo < n BY InsertionSplits
<1>2. /\ Len(s) \in Nat /\ DOMAIN s = 1..Len(s)
      /\ \A i \in DOMAIN s : s[i] \in Ranges(f)
  OBVIOUS
<1>3. \A i \in DOMAIN s : s[i].lo \in Nat /\ s[i].hi \in Nat /\ s[i].lo <= s[i].hi
  BY <1>2, RangeFacts
<1>c. contains_sorted(s, n) <=>
        \/ \E i \in DOMAIN s : s[i].lo = n
        \/ k > 0 /\ s[k].lo <= n /\ n <= s[k].hi
  BY DEF contains_sorted
<1> HIDE DEF k
<1>4. ASSUME contains_sorted(s, n) PROVE Inside(s, n)
  <2>1. CASE \E i \in DOMAIN s : s[i].lo = n BY <1>3, <2>1 DEF Inside
  <2>2. CASE k > 0 /\ s[k].lo <= n /\ n <= s[k].hi
    <3>1. k \in DOMAIN s BY <1>1, <1>2, <2>2
    <3> QED BY <2>2, <3>1 DEF Inside
  <2> QED BY <1>4, <1>c, <2>1, <2>2
<1>5. ASSUME Inside(s, n) PROVE contains_sorted(s, n)
  <2>1. PICK i \in DOMAIN s : s[i].lo <= n /\ n <= s[i].hi BY <1>5 DEF Inside
  <2>2. CASE s[i].lo = n BY <1>c, <2>2
  <2>3. CASE s[i].lo < n
    <3>1. i <= k BY <1>1, <2>3
    <3>2. k > 0 /\ k \in DOMAIN s BY <1>1, <1>2, <3>1
    <3>3. s[k].lo < n BY <1>1, <3>2
    <3>4. i = k
      <4> SUFFICES ASSUME i < k PROVE FALSE BY <1>1, <1>2, <3>1
      <4>1. s[i].hi + 1 < s[k].lo BY <3>2 DEF Apart
      <4>2. s[i].hi \in Nat /\ s[k].lo \in Nat BY <1>3, <3>2
      <4> QED BY <2>1, <3>3, <4>1, <4>2
    <3>5. s[k].lo <= n /\ n <= s[k].hi BY <2>1, <3>4
    <3> QED BY <1>c, <3>2, <3>5
  <2>4. s[i].lo \in Nat BY <1>3
  <2> QED BY <2>1, <2>2, <2>3, <2>4
<1> QED BY <1>4, <1>5

-----------------------------------------------------------------------------
(***************************************************************************)
(* Reading the files.                                                      *)
(***************************************************************************)
AllRanges == UNION {Ranges(f) : f \in Families}

LEMMA WiderSeq ==
  ASSUME NEW f \in Families, NEW s \in Seq(Ranges(f))
  PROVE  s \in Seq(AllRanges)
<1>1. Len(s) \in Nat /\ DOMAIN s = 1..Len(s) /\ \A i \in DOMAIN s : s[i] \in Ranges(f) OBVIOUS
<1>2. Ranges(f) \subseteq AllRanges BY DEF AllRanges
<1>3. s \in [1..Len(s) -> AllRanges] BY <1>1, <1>2
<1> QED BY <1>1, <1>3, IsSeq

LEMMA InitTable == Init => TableInv
<1> SUFFICES ASSUME Init PROVE TableInv OBVIOUS
<1>1. /\ pc = "reading" /\ read = <<>> /\ fam = "V4" /\ todo = <<>> /\ merged = <<>> /\ cur = Span(0, 0)
      /\ ranges = [f \in Families |-> <<>>] /\ table = [f \in Families |-> <<>>]
  BY DEF Init
<1>2. "V4" \in Families /\ fam \in Families BY <1>1 DEF Families
<1>3. \A f \in Families : ranges[f] = <<>> /\ table[f] = <<>> BY <1>1
<1>4. \A S : <<>> \in Seq(S) OBVIOUS
<1>5. cur \in Ranges(fam) BY <1>1, <1>2, RangeFacts
<1>6. TypeOK BY <1>1, <1>2, <1>4, <1>5 DEF TypeOK
<1>7. VectorsTyped BY <1>3, <1>4 DEF VectorsTyped
<1>8. RangesExact
  <2>1. \A ip : ~Listed(ip) BY <1>1 DEF Listed
  <2> QED BY <1>3, <2>1, InsideNone DEF RangesExact
<1>9. TableExact BY <1>1, <1>3 DEF TableExact, Merged
<1>10. LoopInv BY <1>1 DEF LoopInv
<1> QED BY <1>1, <1>6, <1>7, <1>8, <1>9, <1>10 DEF TableInv

LEMMA LineFacts ==
  ASSUME NEW line \in LINES
  PROVE  /\ line.kind \in {"skip", "malformed", "net", "range"}
         /\ line.kind = "net" =>
              /\ line.addr.fam \in Families /\ line.addr.n \in 0..TopAddr(line.addr.fam)
              /\ line.host \in 0..WIDTH[line.addr.fam]
         /\ line.kind = "range" =>
              /\ line.from.fam \in Families /\ line.from.n \in 0..TopAddr(line.from.fam)
              /\ line.to.fam \in Families /\ line.to.n \in 0..TopAddr(line.to.fam)
<1>1. line \in Lines BY TableAssumption
<1>2. CASE line \in [kind : {"skip", "malformed"}] BY <1>2
<1>3. CASE line \in Nets
  <2>1. PICK f \in Families : line \in [kind : {"net"}, addr : [fam : {f}, n : 0..TopAddr(f)],
                                        host : 0..WIDTH[f]]
    BY <1>3 DEF Nets
  <2> QED BY <2>1
<1>4. CASE line \in [kind : {"range"}, from : Addrs, to : Addrs]
  <2>1. \A ip \in Addrs : ip.fam \in Families /\ ip.n \in 0..TopAddr(ip.fam) BY DEF Addrs
  <2> QED BY <1>4, <2>1
<1> QED BY <1>1, <1>2, <1>3, <1>4 DEF Lines

LEMMA ListedAppend ==
  ASSUME read \in Seq(LINES), NEW line \in LINES, read' = Append(read, line), NEW ip
  PROVE  Listed(ip)' <=> Listed(ip) \/ Denotes(line, ip)
<1>1. /\ Len(read) \in Nat /\ DOMAIN read = 1..Len(read) /\ DOMAIN read' = 1..(Len(read) + 1)
      /\ \A i \in 1..Len(read) : read'[i] = read[i]
      /\ read'[Len(read) + 1] = line
  OBVIOUS
<1>2. \A i \in DOMAIN read' : i \in DOMAIN read \/ i = Len(read) + 1 BY <1>1
<1>3. DOMAIN read \subseteq DOMAIN read' /\ Len(read) + 1 \in DOMAIN read' BY <1>1
<1>4. (\E i \in DOMAIN read' : Denotes(read'[i], ip)) <=>
        (\E i \in DOMAIN read : Denotes(read[i], ip)) \/ Denotes(line, ip)
  BY <1>1, <1>2, <1>3
<1> QED BY <1>4 DEF Listed, Denotes

\* A line that pushes nothing denotes nothing.
LEMMA NothingPushed ==
  ASSUME TableInv, pc = "reading", NEW line \in LINES, read' = Append(read, line),
         pc' \in {"reading", "failed"}, UNCHANGED <<ranges, fam, todo, cur, merged, table>>,
         \A f \in Families : \A n \in 0..TopAddr(f) : ~Denotes(line, [fam |-> f, n |-> n])
  PROVE  TableInv'
<1>t. TypeOK /\ fam = "V4" BY DEF TableInv
<1>1. read \in Seq(LINES) BY <1>t DEF TypeOK
<1>2. read' \in Seq(LINES) BY <1>1
<1>3. TypeOK' BY <1>t, <1>2 DEF TypeOK
<1>4. VectorsTyped' BY DEF TableInv, VectorsTyped
<1>5. RangesExact'
  <2>1. \A f \in Families : \A n \in 0..TopAddr(f) :
          Inside(ranges[f], n) <=> Listed([fam |-> f, n |-> n])
    BY DEF TableInv, RangesExact
  <2>2. \A f \in Families : \A n \in 0..TopAddr(f) :
          Listed([fam |-> f, n |-> n])' <=> Listed([fam |-> f, n |-> n])
    BY <1>1, ListedAppend
  <2> QED BY <2>1, <2>2 DEF RangesExact
<1>6. TableExact' BY <1>t DEF TableInv, TableExact, Merged
<1>7. LoopInv' BY DEF LoopInv
<1> QED BY <1>t, <1>3, <1>4, <1>5, <1>6, <1>7 DEF TableInv

\* A line that pushes a range denotes the addresses of the range.
LEMMA OnePushed ==
  ASSUME TableInv, pc = "reading", NEW line \in LINES, read' = Append(read, line),
         NEW g \in Families, NEW r \in Ranges(g), Pushed(g, r),
         UNCHANGED <<fam, todo, cur, merged, table>>,
         \A f \in Families : \A n \in 0..TopAddr(f) :
           Denotes(line, [fam |-> f, n |-> n]) <=> f = g /\ r.lo <= n /\ n <= r.hi
  PROVE  TableInv'
<1>t. TypeOK /\ fam = "V4" BY DEF TableInv
<1>0. ranges' = [ranges EXCEPT ![g] = Append(ranges[g], r)] /\ pc' = pc BY DEF Pushed
<1>1. read \in Seq(LINES) BY <1>t DEF TypeOK
<1>2. read' \in Seq(LINES) BY <1>1
<1>3. ranges \in [Families -> Seq(AllRanges)] BY <1>t DEF TypeOK, AllRanges
<1>4. ranges[g] \in Seq(Ranges(g)) BY DEF TableInv, VectorsTyped
<1>5. Append(ranges[g], r) \in Seq(Ranges(g)) BY <1>4
<1>6. Append(ranges[g], r) \in Seq(AllRanges) BY <1>5, WiderSeq
<1>7. ranges' \in [Families -> Seq(AllRanges)] BY <1>0, <1>3, <1>6
<1>8. \A f \in Families : ranges'[f] = IF f = g THEN Append(ranges[g], r) ELSE ranges[f] BY <1>0, <1>3
<1>9. TypeOK' BY <1>t, <1>0, <1>2, <1>7 DEF TypeOK, AllRanges
<1>10. VectorsTyped' BY <1>5, <1>8 DEF TableInv, VectorsTyped
<1>11. RangesExact'
  <2> SUFFICES ASSUME NEW f \in Families, NEW n \in 0..TopAddr(f)
               PROVE  Inside(ranges'[f], n) <=> Listed([fam |-> f, n |-> n])'
    BY DEF RangesExact
  <2>1. Inside(ranges[f], n) <=> Listed([fam |-> f, n |-> n]) BY DEF TableInv, RangesExact
  <2>2. Listed([fam |-> f, n |-> n])' <=>
          Listed([fam |-> f, n |-> n]) \/ (f = g /\ r.lo <= n /\ n <= r.hi)
    BY <1>1, ListedAppend
  <2>3. Inside(Append(ranges[g], r), n) <=> Inside(ranges[g], n) \/ (r.lo <= n /\ n <= r.hi)
    BY <1>4, InsideAppend
  <2>4. CASE f = g BY <1>8, <2>1, <2>2, <2>3, <2>4
  <2>5. CASE f # g BY <1>8, <2>1, <2>2, <2>5
  <2> QED BY <2>4, <2>5
<1>12. TableExact' BY <1>t, <1>0 DEF TableInv, TableExact, Merged
<1>13. LoopInv' BY <1>0 DEF LoopInv
<1> QED BY <1>t, <1>0, <1>9, <1>10, <1>11, <1>12, <1>13 DEF TableInv

LEMMA NetStep ==
  ASSUME TableInv, pc = "reading", NEW line \in LINES, read' = Append(read, line),
         line.kind = "net", push_net(line), UNCHANGED <<fam, todo, cur, merged, table>>
  PROVE  TableInv'
<1> DEFINE g == line.addr.fam
           a == line.addr.n
           size == 2 ^ line.host
           space == 2 ^ WIDTH[g]
           start == (a \div size) * size
           r == Span(start, start + size - 1)
<1>1. g \in Families /\ a \in 0..TopAddr(g) /\ line.host \in 0..WIDTH[g] BY LineFacts
<1>2. Pushed(g, r) BY DEF push_net
<1>3. size \in Nat \ {0} /\ space \in Nat \ {0} /\ space % size = 0
  <2>1. WIDTH[g] \in 0..WIDTH[g] BY <1>1, TableAssumption
  <2>2. space \in Nat \ {0} BY <1>1, <2>1, PowersOfTwo
  <2> QED BY <1>1, <2>2, PowersOfTwo
<1>4. TopAddr(g) = space - 1 BY DEF TopAddr
<1>d. \A ip : Denotes(line, ip) <=> ip.fam = g /\ ip.n \div size = a \div size BY DEF Denotes
<1>r. r.lo = start /\ r.hi = start + size - 1 BY DEF Span
<1> HIDE DEF g, a, size, space
<1>5. a \in Nat /\ a \in 0..(space - 1) BY <1>1, <1>3, <1>4
<1>6. start \in 0..(space - 1) /\ start + size - 1 \in 0..(space - 1) BY <1>3, <1>5, LastBlock
<1>7. start <= start + size - 1 BY <1>3, <1>6
<1>8. r \in Ranges(g) BY <1>1, <1>4, <1>6, <1>7, RangeFacts
<1>9. ASSUME NEW f \in Families, NEW n \in 0..TopAddr(f)
      PROVE  Denotes(line, [fam |-> f, n |-> n]) <=> f = g /\ r.lo <= n /\ n <= r.hi
  <2>1. n \in Nat BY RangeFacts
  <2>2. (start <= n /\ n <= start + size - 1) <=> n \div size = a \div size
    BY <1>3, <1>5, <2>1, SameBlock
  <2>3. Denotes(line, [fam |-> f, n |-> n]) <=> f = g /\ n \div size = a \div size BY <1>d
  <2> QED BY <1>r, <2>2, <2>3
<1> HIDE DEF r
<1> QED BY <1>1, <1>2, <1>8, <1>9, OnePushed

LEMMA RangeStep ==
  ASSUME TableInv, pc = "reading", NEW line \in LINES, read' = Append(read, line),
         line.kind = "range", push_range(line.from, line.to),
         UNCHANGED <<fam, todo, cur, merged, table>>
  PROVE  TableInv'
<1> DEFINE from == line.from
           to == line.to
           r == Span(from.n, to.n)
<1>1. /\ from.fam \in Families /\ from.n \in 0..TopAddr(from.fam)
      /\ to.fam \in Families /\ to.n \in 0..TopAddr(to.fam)
  BY LineFacts
<1>d. \A ip : Denotes(line, ip) <=> ip.fam = from.fam /\ ip.fam = to.fam /\ ip.n \in from.n..to.n
  BY DEF Denotes
<1>p. IF from.fam = to.fam /\ from.n <= to.n THEN Pushed(from.fam, r) ELSE Rejected
  BY DEF push_range
<1>r. r.lo = from.n /\ r.hi = to.n BY DEF Span
<1> HIDE DEF from, to
<1>2. from.n \in Nat /\ to.n \in Nat BY <1>1, RangeFacts
<1>3. CASE from.fam = to.fam /\ from.n <= to.n
  <2>1. r \in Ranges(from.fam) BY <1>1, <1>3, RangeFacts
  <2>2. ASSUME NEW f \in Families, NEW n \in 0..TopAddr(f)
        PROVE  Denotes(line, [fam |-> f, n |-> n]) <=> f = from.fam /\ r.lo <= n /\ n <= r.hi
    <3>1. n \in Nat BY RangeFacts
    <3>2. Denotes(line, [fam |-> f, n |-> n]) <=> f = from.fam /\ f = to.fam /\ n \in from.n..to.n BY <1>d
    <3> QED BY <1>2, <1>3, <1>r, <3>1, <3>2
  <2> HIDE DEF r
  <2> QED BY <1>1, <1>3, <1>p, <2>1, <2>2, OnePushed
<1>4. CASE ~(from.fam = to.fam /\ from.n <= to.n)
  <2>1. pc' = "failed" /\ UNCHANGED ranges BY <1>4, <1>p DEF Rejected
  <2>2. ASSUME NEW f \in Families, NEW n \in 0..TopAddr(f)
        PROVE  ~Denotes(line, [fam |-> f, n |-> n])
    <3>1. n \in Nat BY RangeFacts
    <3>2. Denotes(line, [fam |-> f, n |-> n]) <=> f = from.fam /\ f = to.fam /\ n \in from.n..to.n BY <1>d
    <3> QED BY <1>2, <1>4, <3>1, <3>2
  <2> QED BY <2>1, <2>2, NothingPushed
<1> QED BY <1>3, <1>4

LEMMA ReadLineStep ==
  ASSUME TableInv, NEW line \in LINES, ReadLine(line)
  PROVE  TableInv'
<1>1. /\ pc = "reading" /\ read' = Append(read, line) /\ UNCHANGED <<fam, todo, cur, merged, table>>
      /\ line.kind = "skip" => UNCHANGED <<ranges, pc>>
      /\ line.kind = "malformed" => Rejected
      /\ line.kind = "net" => push_net(line)
      /\ line.kind = "range" => push_range(line.from, line.to)
  BY DEF ReadLine
<1>2. line.kind \in {"skip", "malformed", "net", "range"} BY LineFacts
<1>3. CASE line.kind \in {"skip", "malformed"}
  <2>1. pc' \in {"reading", "failed"} /\ UNCHANGED ranges BY <1>1, <1>3 DEF Rejected
  <2>2. \A ip : ~Denotes(line, ip) BY <1>3 DEF Denotes
  <2> QED BY <1>1, <2>1, <2>2, NothingPushed
<1>4. CASE line.kind = "net" BY <1>1, <1>4, NetStep
<1>5. CASE line.kind = "range" BY <1>1, <1>5, RangeStep
<1> QED BY <1>2, <1>3, <1>4, <1>5

\* The reading ends, well or not.
LEMMA ReadEnds ==
  ASSUME TableInv, pc = "reading", pc' \in {"failed", "sorting"},
         UNCHANGED <<read, ranges, fam, todo, cur, merged, table>>
  PROVE  TableInv'
<1>t. TypeOK /\ fam = "V4" BY DEF TableInv
<1>1. TypeOK' BY <1>t DEF TypeOK
<1>2. VectorsTyped' BY DEF TableInv, VectorsTyped
<1>3. RangesExact' BY DEF TableInv, RangesExact, Listed
<1>4. TableExact' BY <1>t DEF TableInv, TableExact, Merged
<1>5. LoopInv' BY DEF LoopInv
<1> QED BY <1>t, <1>1, <1>2, <1>3, <1>4, <1>5 DEF TableInv

-----------------------------------------------------------------------------
(***************************************************************************)
(* Merging.                                                                *)
(***************************************************************************)
\* A family's ranges are done: they are apart and cover what was read.
LEMMA FamilyDoneStep ==
  ASSUME TableInv, pc \in {"sorting", "merging"}, NEW result \in Seq(Ranges(fam)), FamilyDone(result),
         Apart(result), \A n \in 0..TopAddr(fam) : Inside(result, n) <=> Inside(ranges[fam], n)
  PROVE  TableInv'
<1>t. TypeOK /\ fam \in Families BY DEF TableInv, TypeOK
<1>0. /\ table' = [table EXCEPT ![fam] = result] /\ pc' = IF fam = "V4" THEN "sorting" ELSE "ready"
      /\ fam' = "V6" /\ todo' = <<>> /\ merged' = <<>> /\ cur' = Span(0, 0) /\ UNCHANGED <<read, ranges>>
  BY DEF FamilyDone
<1>1. fam' \in Families /\ pc' \in {"sorting", "ready"} BY <1>0 DEF Families
<1>2. table \in [Families -> Seq(AllRanges)] BY <1>t DEF TypeOK, AllRanges
<1>3. result \in Seq(AllRanges) BY <1>t, WiderSeq
<1>4. table' \in [Families -> Seq(AllRanges)] BY <1>0, <1>2, <1>3
<1>5. \A f \in Families : table'[f] = IF f = fam THEN result ELSE table[f] BY <1>0, <1>2
<1>6. cur' \in Ranges(fam')
  <2>1. TopAddr(fam') \in Nat BY <1>1, RangeFacts
  <2>2. 0 \in 0..TopAddr(fam') BY <2>1
  <2> QED BY <1>0, <1>1, <2>2, RangeFacts
<1>7. todo' \in Seq(Ranges(fam')) /\ merged' \in Seq(Ranges(fam')) BY <1>0
<1>8. TypeOK' BY <1>t, <1>0, <1>1, <1>4, <1>6, <1>7 DEF TypeOK, AllRanges
<1>9. VectorsTyped' BY <1>0, <1>5 DEF TableInv, VectorsTyped
<1>10. RangesExact' BY <1>0 DEF TableInv, RangesExact, Listed
<1>11. TableExact'
  <2> SUFFICES ASSUME NEW f \in Families
               PROVE  IF Merged(f)'
                      THEN /\ Apart(table'[f])
                           /\ \A n \in 0..TopAddr(f) : Inside(table'[f], n) <=> Inside(ranges[f], n)
                      ELSE table'[f] = <<>>
    BY <1>0 DEF TableExact
  <2>1. CASE f = fam
    <3>1. Merged(f)' BY <1>0, <2>1 DEF Merged
    <3> QED BY <1>5, <2>1, <3>1
  <2>2. CASE f # fam
    <3>1. Merged(f)' <=> Merged(f) BY <1>0, <1>t, <2>2 DEF Merged, Families
    <3>2. table'[f] = table[f] BY <1>5, <2>2
    <3> QED BY <3>1, <3>2 DEF TableInv, TableExact
  <2> QED BY <2>1, <2>2
<1>12. LoopInv' BY <1>1 DEF LoopInv
<1> QED BY <1>0, <1>1, <1>8, <1>9, <1>10, <1>11, <1>12 DEF TableInv

LEMMA MergeEmptyStep == ASSUME TableInv, MergeEmpty PROVE TableInv'
<1>1. pc = "sorting" /\ ranges[fam] = <<>> /\ FamilyDone(<<>>) BY DEF MergeEmpty
<1>2. <<>> \in Seq(Ranges(fam)) /\ Apart(<<>>) BY DEF Apart
<1> QED BY <1>1, <1>2, FamilyDoneStep

LEMMA MergeStartStep == ASSUME TableInv, MergeStart PROVE TableInv'
<1>t. TypeOK /\ fam \in Families BY DEF TableInv, TypeOK
<1>0. /\ pc = "sorting" /\ ranges[fam] # <<>> /\ pc' = "merging"
      /\ UNCHANGED <<read, ranges, fam, merged, table>>
  BY DEF MergeStart
<1>1. PICK s \in Sortings(ranges[fam]) : cur' = Head(s) /\ todo' = Tail(s) BY DEF MergeStart
<1>2. ranges[fam] \in Seq(Ranges(fam)) BY <1>t DEF TableInv, VectorsTyped
<1>3. /\ s \in Seq(Ranges(fam)) /\ s # <<>> /\ Ascending(s)
      /\ \A n : Inside(s, n) <=> Inside(ranges[fam], n)
  BY <1>0, <1>2, SortedFacts
<1>4. /\ cur' \in Ranges(fam) /\ todo' \in Seq(Ranges(fam)) /\ Len(s) \in Nat
      /\ DOMAIN s = 1..Len(s) /\ DOMAIN todo' = 1..(Len(s) - 1) /\ 1 \in DOMAIN s
      /\ \A i \in DOMAIN todo' : todo'[i] = s[i + 1] /\ i + 1 \in DOMAIN s /\ i \in Nat
      /\ cur' = s[1]
  BY <1>1, <1>3
<1>5. TypeOK' BY <1>t, <1>0, <1>4 DEF TypeOK
<1>6. VectorsTyped' BY <1>0 DEF TableInv, VectorsTyped
<1>7. RangesExact' BY <1>0 DEF TableInv, RangesExact, Listed
<1>8. TableExact' BY <1>0 DEF TableInv, TableExact, Merged
<1>9. merged' = <<>> BY <1>0 DEF TableInv
<1>10. LoopInv'
  <2>1. Ascending(todo') 
    <3>1. \A i, j \in DOMAIN todo' : i < j => i + 1 < j + 1 BY <1>4
    <3> QED BY <1>3, <1>4, <3>1 DEF Ascending
  <2>2. \A i \in DOMAIN todo' : cur'.lo <= todo'[i].lo
    <3>1. \A i \in DOMAIN todo' : 1 < i + 1 BY <1>4
    <3> QED BY <1>3, <1>4, <3>1 DEF Ascending
  <2>3. Apart(merged') /\ \A i \in DOMAIN merged' : merged'[i].hi + 1 < cur'.lo BY <1>9 DEF Apart
  <2>4. \A n : Inside(s, n) <=> (cur'.lo <= n /\ n <= cur'.hi) \/ Inside(todo', n)
    BY <1>1, <1>3, InsideHead
  <2>5. \A n : ~Inside(merged', n) BY <1>9, InsideNone
  <2> QED BY <1>0, <1>3, <2>1, <2>2, <2>3, <2>4, <2>5 DEF LoopInv
<1> QED BY <1>0, <1>5, <1>6, <1>7, <1>8, <1>10 DEF TableInv

\* What stays as it was while the loop runs.
LEMMA LoopFrame ==
  ASSUME TableInv, pc = "merging", UNCHANGED <<pc, read, ranges, fam, table>>,
         cur' \in Ranges(fam), todo' \in Seq(Ranges(fam)), merged' \in Seq(Ranges(fam)), LoopInv'
  PROVE  TableInv'
<1>t. TypeOK BY DEF TableInv
<1>1. TypeOK' BY <1>t DEF TypeOK
<1>2. VectorsTyped' BY DEF TableInv, VectorsTyped
<1>3. RangesExact' BY DEF TableInv, RangesExact, Listed
<1>4. TableExact' BY DEF TableInv, TableExact, Merged
<1> QED BY <1>1, <1>2, <1>3, <1>4 DEF TableInv

LEMMA MergeNextStep == ASSUME TableInv, MergeNext PROVE TableInv'
<1> DEFINE r == Head(todo)
           top == TopAddr(fam)
<1>0. /\ pc = "merging" /\ todo # <<>> /\ todo' = Tail(todo) /\ UNCHANGED <<pc, read, ranges, fam, table>>
      /\ IF r.lo <= saturating_add(cur.hi, 1)
         THEN cur' = Span(cur.lo, LargerEnd(r)) /\ UNCHANGED merged
         ELSE cur' = r /\ merged' = Append(merged, cur)
  BY DEF MergeNext
<1>t. /\ fam \in Families /\ cur \in Ranges(fam)
      /\ todo \in Seq(Ranges(fam)) /\ merged \in Seq(Ranges(fam))
  BY DEF TableInv, TypeOK
<1>l. /\ Ascending(todo) /\ \A i \in DOMAIN todo : cur.lo <= todo[i].lo
      /\ Apart(merged) /\ \A i \in DOMAIN merged : merged[i].hi + 1 < cur.lo
      /\ \A n \in 0..top :
           Inside(ranges[fam], n) <=>
             Inside(merged, n) \/ (cur.lo <= n /\ n <= cur.hi) \/ Inside(todo, n)
  BY <1>0 DEF TableInv, LoopInv
<1>1. /\ r \in Ranges(fam) /\ todo' \in Seq(Ranges(fam)) /\ Len(todo) \in Nat
      /\ DOMAIN todo = 1..Len(todo) /\ DOMAIN todo' = 1..(Len(todo) - 1) /\ 1 \in DOMAIN todo
      /\ \A i \in DOMAIN todo' : todo'[i] = todo[i + 1] /\ i + 1 \in DOMAIN todo /\ i \in Nat
      /\ r = todo[1]
  BY <1>0, <1>t
<1>2. \A n : Inside(todo, n) <=> (r.lo <= n /\ n <= r.hi) \/ Inside(todo', n)
  BY <1>0, <1>t, InsideHead
<1>s. saturating_add(cur.hi, 1) = IF cur.hi + 1 > top THEN top ELSE cur.hi + 1 BY DEF saturating_add
<1> HIDE DEF r
<1>3. /\ top \in Nat
      /\ cur.lo \in Nat /\ cur.hi \in Nat /\ cur.lo <= cur.hi /\ cur.hi <= top
      /\ r.lo \in Nat /\ r.hi \in Nat /\ r.lo <= r.hi /\ r.hi <= top
  <2>1. top \in Nat BY <1>t, RangeFacts
  <2>2. \A x \in Ranges(fam) : /\ x.lo \in Nat /\ x.hi \in Nat /\ x.lo <= x.hi /\ x.hi \in 0..top
    BY <1>t, RangeFacts
  <2> HIDE DEF top
  <2> QED BY <1>t, <1>1, <2>1, <2>2
<1>4. cur.lo <= r.lo BY <1>l, <1>1
<1>5. \A i \in DOMAIN todo' : todo'[i].lo \in Nat /\ r.lo <= todo'[i].lo
  <2>1. \A i \in DOMAIN todo' : 1 < i + 1 BY <1>1
  <2>2. \A i \in DOMAIN todo' : r.lo <= todo'[i].lo BY <1>l, <1>1, <2>1 DEF Ascending
  <2>3. \A i \in DOMAIN todo : todo[i] \in Ranges(fam) BY <1>t
  <2>4. \A i \in DOMAIN todo' : todo'[i].lo \in Nat BY <1>t, <1>1, <2>3, RangeFacts
  <2> QED BY <2>2, <2>4
<1>6. Ascending(todo')
  <2>1. \A i, j \in DOMAIN todo' : i < j => i + 1 < j + 1 BY <1>1
  <2> QED BY <1>l, <1>1, <2>1 DEF Ascending
<1>7. CASE r.lo <= saturating_add(cur.hi, 1)
  <2> DEFINE hi == LargerEnd(r)
  <2>1. hi = IF cur.hi < r.hi THEN r.hi ELSE cur.hi BY DEF LargerEnd
  <2>2. cur' = Span(cur.lo, hi) /\ merged' = merged BY <1>0, <1>7
  <2>3. cur'.lo = cur.lo /\ cur'.hi = hi BY <2>2 DEF Span
  <2> HIDE DEF hi, top
  <2>4. hi \in Nat /\ hi <= top /\ cur.lo <= hi BY <1>3, <2>1
  <2>5. cur' \in Ranges(fam)
    <3>1. cur.lo \in 0..top /\ hi \in 0..top BY <1>3, <2>4
    <3> QED BY <1>t, <2>2, <2>4, <3>1, RangeFacts DEF top
  <2>6. \A n \in 0..top :
          (cur'.lo <= n /\ n <= cur'.hi) <=> (cur.lo <= n /\ n <= cur.hi) \/ (r.lo <= n /\ n <= r.hi)
    BY <1>3, <1>4, <1>7, <1>s, <2>1, <2>3
  <2>7. \A i \in DOMAIN todo' : cur'.lo <= todo'[i].lo BY <1>3, <1>4, <1>5, <2>3
  <2>8. Apart(merged') /\ \A i \in DOMAIN merged' : merged'[i].hi + 1 < cur'.lo BY <1>l, <2>2, <2>3
  <2>9. \A n \in 0..top :
          Inside(ranges[fam], n) <=>
            Inside(merged', n) \/ (cur'.lo <= n /\ n <= cur'.hi) \/ Inside(todo', n)
    BY <1>l, <1>2, <2>2, <2>6
  <2>10. LoopInv' BY <1>0, <1>6, <2>7, <2>8, <2>9 DEF LoopInv, top
  <2> QED BY <1>0, <1>t, <1>1, <2>2, <2>5, <2>10, LoopFrame
<1>8. CASE ~(r.lo <= saturating_add(cur.hi, 1))
  <2>1. cur' = r /\ merged' = Append(merged, cur) BY <1>0, <1>8
  <2>2. cur.hi + 1 < r.lo
    <3> HIDE DEF top
    <3> QED BY <1>3, <1>8, <1>s
  <2>3. merged' \in Seq(Ranges(fam)) BY <1>t, <2>1
  <2>4. Apart(merged') BY <1>t, <1>l, <2>1, ApartAppend
  <2>5. \A i \in DOMAIN merged' : merged'[i].hi + 1 < cur'.lo
    <3>1. /\ Len(merged) \in Nat /\ DOMAIN merged = 1..Len(merged) /\ DOMAIN merged' = 1..(Len(merged) + 1)
          /\ \A i \in 1..Len(merged) : merged'[i] = merged[i] /\ merged[i] \in Ranges(fam)
          /\ merged'[Len(merged) + 1] = cur
      BY <1>t, <2>1
    <3>2. ASSUME NEW i \in DOMAIN merged PROVE merged[i].hi + 1 < r.lo
      <4>1. merged[i].hi \in Nat BY <1>t, <3>1, RangeFacts
      <4>2. merged[i].hi + 1 < cur.lo BY <1>l
      <4> QED BY <1>3, <1>4, <4>1, <4>2
    <3>3. \A i \in DOMAIN merged' : i \in DOMAIN merged \/ i = Len(merged) + 1 BY <3>1
    <3> QED BY <2>1, <2>2, <3>1, <3>2, <3>3
  <2>6. \A i \in DOMAIN todo' : cur'.lo <= todo'[i].lo BY <1>5, <2>1
  <2>7. \A n : Inside(merged', n) <=> Inside(merged, n) \/ (cur.lo <= n /\ n <= cur.hi)
    BY <1>t, <2>1, InsideAppend
  <2>8. \A n \in 0..top :
          Inside(ranges[fam], n) <=>
            Inside(merged', n) \/ (cur'.lo <= n /\ n <= cur'.hi) \/ Inside(todo', n)
    BY <1>l, <1>2, <2>1, <2>7
  <2>9. LoopInv' BY <1>0, <1>6, <2>4, <2>5, <2>6, <2>8 DEF LoopInv
  <2> QED BY <1>0, <1>1, <2>1, <2>3, <2>9, LoopFrame
<1> QED BY <1>7, <1>8

\* The current range behind the merged ones.
LEMMA WithCurrent ==
  ASSUME TableInv, pc = "merging"
  PROVE  /\ Append(merged, cur) \in Seq(Ranges(fam)) /\ Apart(Append(merged, cur))
         /\ \A n \in 0..TopAddr(fam) :
              Inside(ranges[fam], n) <=> Inside(Append(merged, cur), n) \/ Inside(todo, n)
<1>t. fam \in Families /\ cur \in Ranges(fam) /\ merged \in Seq(Ranges(fam)) BY DEF TableInv, TypeOK
<1>l. /\ Apart(merged) /\ \A i \in DOMAIN merged : merged[i].hi + 1 < cur.lo
      /\ \A n \in 0..TopAddr(fam) :
           Inside(ranges[fam], n) <=>
             Inside(merged, n) \/ (cur.lo <= n /\ n <= cur.hi) \/ Inside(todo, n)
  BY DEF TableInv, LoopInv
<1>1. Append(merged, cur) \in Seq(Ranges(fam)) BY <1>t
<1>2. Apart(Append(merged, cur)) BY <1>t, <1>l, ApartAppend
<1>3. \A n : Inside(Append(merged, cur), n) <=> Inside(merged, n) \/ (cur.lo <= n /\ n <= cur.hi)
  BY <1>t, InsideAppend
<1> QED BY <1>1, <1>2, <1>3, <1>l

LEMMA MergeEndStep == ASSUME TableInv, MergeEnd PROVE TableInv'
<1>1. pc = "merging" /\ todo = <<>> /\ FamilyDone(Append(merged, cur)) BY DEF MergeEnd
<1>2. \A n : ~Inside(todo, n) BY <1>1, InsideNone
<1>3. \A n \in 0..TopAddr(fam) : Inside(Append(merged, cur), n) <=> Inside(ranges[fam], n)
  BY <1>1, <1>2, WithCurrent
<1>4. Append(merged, cur) \in Seq(Ranges(fam)) /\ Apart(Append(merged, cur)) BY <1>1, WithCurrent
<1> QED BY <1>1, <1>3, <1>4, FamilyDoneStep

LEMMA NextTable == TableInv /\ [Next]_vars => TableInv'
<1> SUFFICES ASSUME TableInv, [Next]_vars PROVE TableInv' OBVIOUS
<1>1. ASSUME NEW line \in LINES, ReadLine(line) PROVE TableInv' BY <1>1, ReadLineStep
<1>2. CASE ReadFails BY <1>2, ReadEnds DEF ReadFails
<1>3. CASE TablesRead BY <1>3, ReadEnds DEF TablesRead
<1>4. CASE MergeEmpty BY <1>4, MergeEmptyStep
<1>5. CASE MergeStart BY <1>5, MergeStartStep
<1>6. CASE MergeNext BY <1>6, MergeNextStep
<1>7. CASE MergeEnd BY <1>7, MergeEndStep
<1>8. CASE UNCHANGED vars
  <2>1. UNCHANGED <<pc, read, ranges, fam, todo, cur, merged, table>> BY <1>8 DEF vars
  <2>2. TypeOK' /\ VectorsTyped' BY <2>1 DEF TableInv, TypeOK, VectorsTyped
  <2>3. RangesExact' BY <2>1 DEF TableInv, RangesExact, Listed
  <2>4. TableExact' /\ LoopInv' BY <2>1 DEF TableInv, TableExact, Merged, LoopInv
  <2> QED BY <2>1, <2>2, <2>3, <2>4 DEF TableInv
<1> QED BY <1>1, <1>2, <1>3, <1>4, <1>5, <1>6, <1>7, <1>8 DEF Next

LEMMA Invariant == Spec => []TableInv
  BY InitTable, NextTable, PTL DEF Spec

-----------------------------------------------------------------------------
\* The loop of merge_u32_ranges and merge_u128_ranges is sound at every step:
\* what it has merged is sorted, without overlap or touch, up to the last
\* address of the space, and nothing that was read is lost or added.
THEOREM MergeIsSound == Spec => []MergeSound
<1>1. TableInv => MergeSound
  <2> SUFFICES ASSUME TableInv PROVE MergeSound OBVIOUS
  <2>t. /\ TypeOK /\ fam \in Families /\ cur \in Ranges(fam)
        /\ todo \in Seq(Ranges(fam)) /\ merged \in Seq(Ranges(fam))
    BY DEF TableInv, TypeOK
  <2>1. \A f \in Families : Apart(table[f])
    <3>1. Apart(<<>>) BY DEF Apart
    <3> QED BY <3>1 DEF TableInv, TableExact
  <2>2. ASSUME pc = "merging"
        PROVE  /\ Apart(Append(merged, cur))
               /\ \A n \in 0..TopAddr(fam) :
                    Inside(Append(merged, cur) \o todo, n) <=> Inside(ranges[fam], n)
    <3>1. /\ Append(merged, cur) \in Seq(Ranges(fam)) /\ Apart(Append(merged, cur))
          /\ \A n \in 0..TopAddr(fam) :
               Inside(ranges[fam], n) <=> Inside(Append(merged, cur), n) \/ Inside(todo, n)
      BY <2>2, WithCurrent
    <3>2. \A n : Inside(Append(merged, cur) \o todo, n) <=> Inside(Append(merged, cur), n) \/ Inside(todo, n)
      BY <2>t, <3>1, InsideConcat
    <3> QED BY <3>1, <3>2
  <2> QED BY <2>t, <2>1, <2>2 DEF MergeSound
<1> QED BY <1>1, Invariant, PTL

\* ChinaIpSet::contains answers true exactly for the addresses the files list,
\* for addresses of any width and files of any length and order.
THEOREM ContainsIsExact == Spec => []ContainsExact
<1>1. TableInv => ContainsExact
  <2> SUFFICES ASSUME TableInv, pc = "ready", NEW ip \in Addrs PROVE contains(ip) <=> Listed(ip)
    BY DEF ContainsExact
  <2>1. PICK f \in Families : ip \in [fam : {f}, n : 0..TopAddr(f)] BY DEF Addrs
  <2>2. ip.fam = f /\ ip.n \in 0..TopAddr(f) /\ ip = [fam |-> f, n |-> ip.n] BY <2>1
  <2>3. ip.n \in Nat BY <2>2, RangeFacts
  <2>4. table[f] \in Seq(Ranges(f)) BY DEF TableInv, VectorsTyped
  <2>5. Apart(table[f]) /\ \A n \in 0..TopAddr(f) : Inside(table[f], n) <=> Inside(ranges[f], n)
    BY DEF TableInv, TableExact, Merged
  <2>6. contains_sorted(table[f], ip.n) <=> Inside(table[f], ip.n) BY <2>3, <2>4, <2>5, SearchExact
  <2>7. Inside(ranges[f], ip.n) <=> Listed(ip) BY <2>2 DEF TableInv, RangesExact
  <2>8. Inside(table[f], ip.n) <=> Inside(ranges[f], ip.n) BY <2>2, <2>5
  <2> QED BY <2>2, <2>6, <2>7, <2>8 DEF contains
<1> QED BY <1>1, Invariant, PTL
=============================================================================
