------------------------------ MODULE MCChinaIp ------------------------------
(***************************************************************************)
(* ChinaIp with three-bit V4 and one-bit V6 addresses.  Three lines can    *)
(* overlap, touch, nest, repeat, leave gaps and reach both ends of the     *)
(* address space: every V4 range, networks written with host bits set, a   *)
(* reversed and a mixed range, and V6 lines in between.                    *)
(***************************************************************************)
EXTENDS ChinaIp

MCWidth == [f \in Families |-> IF f = "V4" THEN 3 ELSE 1]

V4(n) == [fam |-> "V4", n |-> n]

V6(n) == [fam |-> "V6", n |-> n]

Net(addr, host) == [kind |-> "net", addr |-> addr, host |-> host]

FromTo(from, to) == [kind |-> "range", from |-> from, to |-> to]

MCLines ==
  {FromTo(V4(r.lo), V4(r.hi)) : r \in Ranges("V4")}
    \cup {Net(V4(3), 0), Net(V4(7), 1), Net(V4(5), 2), Net(V4(0), 3)}
    \cup {FromTo(V4(5), V4(2)), FromTo(V4(0), V6(1))}
    \cup {Net(V6(1), 0), FromTo(V6(0), V6(1))}
    \cup {[kind |-> "skip"], [kind |-> "malformed"]}
=============================================================================
