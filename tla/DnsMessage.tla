----------------------------- MODULE DnsMessage ------------------------------
(***************************************************************************)
(* What the bytes of a DNS response mean (RFC 1035 and, for HTTPS records, *)
(* RFC 9460), as far as the ECH bootstrap asks: the reference the parser   *)
(* of HttpsRecord is compared with.  Nothing is computed here: whoever     *)
(* claims that bytes are a response says where its parts begin, and the    *)
(* operators say when that is so.  Offsets count from 0.                   *)
(***************************************************************************)
EXTENDS Naturals, Sequences, SequencesExt

Bytes == 0..255

Octet(m, i) == IF i < Len(m) THEN m[i + 1] ELSE 0

Word(m, i) == 256 * Octet(m, i) + Octet(m, i + 1)

\* The offsets at which the parts of something begin, and that of its end.
Bounds(b, from) ==
  b \in Seq(Nat) /\ Len(b) > 0 /\ b[1] = from /\ \A i \in DOMAIN b : b[i] <= Last(b)

\* Labels, then the root or a compression pointer.
IsName(m, b) ==
  /\ Len(b) > 1
  /\ \A i \in 1..Len(b) - 2 : Octet(m, b[i]) \in 1..63 /\ b[i + 1] = b[i] + 1 + Octet(m, b[i])
  /\ \/ Octet(m, b[Len(b) - 1]) = 0 /\ Last(b) = b[Len(b) - 1] + 1
     \/ Octet(m, b[Len(b) - 1]) >= 192 /\ Last(b) = b[Len(b) - 1] + 2

IsParams(m, b) == \A i \in 1..Len(b) - 1 : b[i + 1] = b[i] + 4 + Word(m, b[i] + 2)

-----------------------------------------------------------------------------
\* A record: the bounds of its owner and, for HTTPS, of its target and parameters.
Fixed(a) == Last(a.owner)

IsHttps(m, a) == Word(m, Fixed(a)) = 65

Ttl(m, a) == <<Word(m, Fixed(a) + 4), Word(m, Fixed(a) + 6)>>

RdataEnd(m, a) == Fixed(a) + 10 + Word(m, Fixed(a) + 8)

IsSvcb(m, a) ==
  /\ Bounds(a.target, Fixed(a) + 12) /\ IsName(m, a.target)
  /\ Bounds(a.params, Last(a.target)) /\ IsParams(m, a.params)
  /\ Last(a.params) = RdataEnd(m, a)

IsRecord(m, a, from) ==
  /\ Bounds(a.owner, from) /\ IsName(m, a.owner)
  /\ RdataEnd(m, a) <= Len(m)
  /\ IsHttps(m, a) => IsSvcb(m, a)

RecordFrom(m, first, answers, i) == IF i = 1 THEN first ELSE RdataEnd(m, answers[i - 1])

\* A response without an error code that repeats the question; sections may follow.
IsResponse(m, query, answers) ==
  /\ m \in Seq(Bytes) /\ answers \in Seq(Range(answers)) /\ Len(m) >= Len(query)
  /\ Octet(m, 2) >= 128 /\ Octet(m, 3) % 16 = 0
  /\ Word(m, 4) = Word(query, 4) /\ Word(m, 6) = Len(answers)
  /\ \A i \in 12..Len(query) - 1 : Octet(m, i) = Octet(query, i)
  /\ \A i \in DOMAIN answers :
       IsRecord(m, answers[i], RecordFrom(m, Len(query), answers, i))

-----------------------------------------------------------------------------
\* The first parameter of the record whose key is ech is the j-th.
EchAt(m, a, j) ==
  /\ IsHttps(m, a) /\ j \in 1..Len(a.params) - 1 /\ Word(m, a.params[j]) = 5
  /\ \A i \in 1..j - 1 : Word(m, a.params[i]) # 5

CarriesEch(m, a) == \E j \in DOMAIN a.params : EchAt(m, a, j)

EchValue(m, a, j) == SubSeq(m, a.params[j] + 5, a.params[j + 1])
=============================================================================
