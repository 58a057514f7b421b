------------------------------- MODULE ChinaIp -------------------------------
(***************************************************************************)
(* The China mainland IP table of client/src/china_ip.rs: ChinaIpSet::load *)
(* reads the lines of the two files, sorts and merges the ranges of each   *)
(* address family, and contains() answers by binary search.                *)
(*                                                                         *)
(* An address is a family and a number of that family's width.  The text   *)
(* of a line is abstracted to what it denotes: a line that is skipped, one *)
(* that does not parse, a network, or a range (a single address is the     *)
(* range from it to itself).                                               *)
(***************************************************************************)
EXTENDS Integers, Sequences, FiniteSets

CONSTANTS
  WIDTH,        \* bits of an address: 32 for V4 and 128 for V6
  LINES,        \* the lines a file may hold
  MAX_LINES     \* bound: lines of both files together

Families == {"V4", "V6"}

VARIABLES
  pc,        \* what load() is doing
  read,      \* the lines read so far
  ranges,    \* per family, the vector the lines are pushed into
  fam,       \* the family being merged
  todo,      \* its sorted ranges that the loop has not visited
  cur,       \* cur_start and cur_end
  merged,    \* the vector `merged' of the loop
  table      \* the loaded ChinaIpSet

vars == <<pc, read, ranges, fam, todo, cur, merged, table>>

TopAddr(f) == 2 ^ WIDTH[f] - 1

Ranges(f) == {r \in [lo : 0..TopAddr(f), hi : 0..TopAddr(f)] : r.lo <= r.hi}

Addrs == UNION {[fam : {f}, n : 0..TopAddr(f)] : f \in Families}

Nets == UNION {[kind : {"net"}, addr : [fam : {f}, n : 0..TopAddr(f)],
                host : 0..WIDTH[f]] : f \in Families}

Lines ==
  [kind : {"skip", "malformed"}] \cup Nets \cup [kind : {"range"}, from : Addrs, to : Addrs]

ASSUME TableAssumption ==
  WIDTH \in [Families -> Nat \ {0}] /\ LINES \subseteq Lines /\ MAX_LINES \in Nat

\* The law of arithmetic behind a netmask, for the provers, which know none of
\* exponentiation: a network's size divides the size of the address space.
ASSUME PowersOfTwo ==
  \A f \in Families : \A host \in 0..WIDTH[f] :
    2 ^ host \in Nat \ {0} /\ 2 ^ WIDTH[f] % 2 ^ host = 0

Span(lo, hi) == [lo |-> lo, hi |-> hi]

TypeOK ==
  /\ pc \in {"reading", "sorting", "merging", "ready", "failed"}
  /\ read \in Seq(LINES)
  /\ fam \in Families
  /\ cur \in Ranges(fam)
  /\ todo \in Seq(Ranges(fam)) /\ merged \in Seq(Ranges(fam))
  /\ ranges \in [Families -> Seq(UNION {Ranges(f) : f \in Families})]
  /\ table \in [Families -> Seq(UNION {Ranges(f) : f \in Families})]

Init ==
  /\ pc = "reading"
  /\ read = <<>>
  /\ ranges = [f \in Families |-> <<>>]
  /\ fam = "V4"
  /\ todo = <<>> /\ merged = <<>> /\ cur = Span(0, 0)
  /\ table = [f \in Families |-> <<>>]

-----------------------------------------------------------------------------
(***************************************************************************)
(* read_ip_table.                                                          *)
(***************************************************************************)
Pushed(f, r) == ranges' = [ranges EXCEPT ![f] = Append(@, r)] /\ pc' = pc

Rejected == pc' = "failed" /\ UNCHANGED ranges

\* network() clears the host bits, broadcast() and prefix | hostmask set them.
push_net(net) ==
  LET size == 2 ^ net.host
      start == (net.addr.n \div size) * size
  IN  Pushed(net.addr.fam, Span(start, start + size - 1))

push_range(from, to) ==
  IF from.fam = to.fam /\ from.n <= to.n
  THEN Pushed(from.fam, Span(from.n, to.n))
  ELSE Rejected

ReadLine(line) ==
  /\ pc = "reading"
  /\ Len(read) < MAX_LINES
  /\ read' = Append(read, line)
  /\ CASE line.kind = "skip" -> UNCHANGED <<ranges, pc>>
       [] line.kind = "malformed" -> Rejected
       [] line.kind = "net" -> push_net(line)
       [] line.kind = "range" -> push_range(line.from, line.to)
  /\ UNCHANGED <<fam, todo, cur, merged, table>>

\* The file cannot be read.
ReadFails ==
  /\ pc = "reading"
  /\ pc' = "failed"
  /\ UNCHANGED <<read, ranges, fam, todo, cur, merged, table>>

TablesRead ==
  /\ pc = "reading"
  /\ pc' = "sorting"
  /\ UNCHANGED <<read, ranges, fam, todo, cur, merged, table>>

-----------------------------------------------------------------------------
(***************************************************************************)
(* merge_u32_ranges for V4, then merge_u128_ranges for V6.                 *)
(***************************************************************************)
\* sort_unstable_by_key: ranges with the same start come in any order.
Sortings(s) ==
  LET orders == {p \in [DOMAIN s -> DOMAIN s] : \A k \in DOMAIN s : \E i \in DOMAIN s : p[i] = k}
  IN  {t \in {[i \in DOMAIN s |-> s[p[i]]] : p \in orders} :
         \A i, j \in DOMAIN s : i < j => t[i].lo <= t[j].lo}

\* Mutation: the addition wraps.
wrapping_add(n, k) == (n + k) % (TopAddr(fam) + 1)

saturating_add(n, k) == IF n + k > TopAddr(fam) THEN TopAddr(fam) ELSE n + k

FamilyDone(result) ==
  /\ table' = [table EXCEPT ![fam] = result]
  /\ pc' = IF fam = "V4" THEN "sorting" ELSE "ready"
  /\ fam' = "V6"
  /\ todo' = <<>> /\ merged' = <<>> /\ cur' = Span(0, 0)
  /\ UNCHANGED <<read, ranges>>

MergeEmpty == pc = "sorting" /\ ranges[fam] = <<>> /\ FamilyDone(<<>>)

MergeStart ==
  /\ pc = "sorting"
  /\ ranges[fam] # <<>>
  /\ \E sorted \in Sortings(ranges[fam]) : cur' = Head(sorted) /\ todo' = Tail(sorted)
  /\ pc' = "merging"
  /\ UNCHANGED <<read, ranges, fam, merged, table>>

\* cur_end = cur_end.max(end)
LargerEnd(r) == IF cur.hi < r.hi THEN r.hi ELSE cur.hi

MergeNext ==
  /\ pc = "merging"
  /\ todo # <<>>
  /\ LET r == Head(todo) IN
       IF r.lo <= saturating_add(cur.hi, 1)
       THEN cur' = Span(cur.lo, LargerEnd(r)) /\ UNCHANGED merged
       ELSE cur' = r /\ merged' = Append(merged, cur)
  /\ todo' = Tail(todo)
  /\ UNCHANGED <<pc, read, ranges, fam, table>>

MergeEnd ==
  /\ pc = "merging"
  /\ todo = <<>>
  /\ FamilyDone(Append(merged, cur))

Next ==
  \/ \E line \in LINES : ReadLine(line)
  \/ ReadFails
  \/ TablesRead
  \/ MergeEmpty
  \/ MergeStart
  \/ MergeNext
  \/ MergeEnd

Spec == Init /\ [][Next]_vars

-----------------------------------------------------------------------------
(***************************************************************************)
(* contains.  binary_search_by_key answers Ok if some range starts at ip,  *)
(* else Err(i) with the number of ranges that start before it; its answer  *)
(* means this only on a sorted slice (see MergeSound).                     *)
(***************************************************************************)
InsertionPoint(s, n) == Cardinality({i \in DOMAIN s : s[i].lo < n})

\* Mutation: the last address of a range is left out.
contains_half_open(s, n) ==
  \/ \E i \in DOMAIN s : s[i].lo = n
  \/ LET i == InsertionPoint(s, n) IN i > 0 /\ s[i].lo <= n /\ n < s[i].hi

contains_sorted(s, n) ==
  \/ \E i \in DOMAIN s : s[i].lo = n
  \/ LET i == InsertionPoint(s, n) IN i > 0 /\ s[i].lo <= n /\ n <= s[i].hi

contains(ip) == contains_sorted(table[ip.fam], ip.n)

-----------------------------------------------------------------------------
\* What a line of the table means: the addresses that agree with a network in
\* all but the host bits, or lie between the ends of a range.
Denotes(line, ip) ==
  CASE line.kind = "net" ->
         /\ ip.fam = line.addr.fam
         /\ ip.n \div 2 ^ line.host = line.addr.n \div 2 ^ line.host
    [] line.kind = "range" ->
         ip.fam = line.from.fam /\ ip.fam = line.to.fam /\ ip.n \in line.from.n..line.to.n
    [] OTHER -> FALSE

Listed(ip) == \E i \in DOMAIN read : Denotes(read[i], ip)

\* After load() contains() answers exactly for the addresses the two files
\* list, at both ends of the address space too, whatever the order, overlap or
\* adjacency of the lines.
ContainsExact == pc = "ready" => \A ip \in Addrs : contains(ip) <=> Listed(ip)

\* The ranges are sorted and neither overlap nor touch.
Apart(s) == \A i, j \in DOMAIN s : i < j => s[i].hi + 1 < s[j].lo

Inside(s, n) == \E i \in DOMAIN s : s[i].lo <= n /\ n <= s[i].hi

\* What the binary search of contains() needs, and the invariant of the merge
\* loop behind it: the ranges merged so far, with the current one, are apart,
\* and with those the loop has not visited they cover exactly what was read.
MergeSound ==
  /\ TypeOK
  /\ \A f \in Families : Apart(table[f])
  /\ pc = "merging" =>
       /\ Apart(Append(merged, cur))
       /\ \A n \in 0..TopAddr(fam) :
            Inside(Append(merged, cur) \o todo, n) <=> Inside(ranges[fam], n)
=============================================================================
