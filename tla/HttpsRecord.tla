----------------------------- MODULE HttpsRecord -----------------------------
(***************************************************************************)
(* The DNS side of the ECH bootstrap in client/src/ech_tls.rs: the query   *)
(* build_https_query writes and the parser that takes the ECHConfigList    *)
(* out of what the DoH server returned, one action per loop iteration.     *)
(*                                                                         *)
(* Messages are sequences of bytes, offsets count from 0 as in the code.   *)
(* The body of the response is whatever Responses says the server may send *)
(* for a query: it is not trusted, so it need not be a DNS message at all. *)
(***************************************************************************)
EXTENDS DnsMessage

CONSTANTS
  NAMES,              \* names of backends: where the labels start, trailing dots
  Responses(_),       \* the answers to a query: bytes and, if they are a (possibly
                      \* cut) response of an honest server, that response
  DEFAULT_TTL         \* DEFAULT_ECH_CACHE_TTL

\* The TTL, a u32, is kept as its two halves.
NoRecord == [ttl |-> <<0, 0>>, end |-> 0]

VARIABLES
  pc,         \* where the parser is
  name,       \* the name asked for
  message,    \* the body of the response
  said,       \* history: what an honest server said in it
  left,       \* questions and answers not yet begun
  offset,     \* `offset' of the parser
  pos,        \* `pos' of skip_name_inner
  rr,         \* the answer being read: TTL and rdata_end
  reach,      \* history: the bytes below this offset may have been read
  result      \* the outcome; the config as a slice of the message

vars == <<pc, name, message, said, left, offset, pos, rr, reach, result>>

Pending == [is |-> "none", from |-> 0, to |-> 0, ttl |-> <<0, 0>>]

Error == [Pending EXCEPT !.is = "error"]

-----------------------------------------------------------------------------
(***************************************************************************)
(* build_https_query.  The text of a label is of no interest here.         *)
(***************************************************************************)
\* Mutation: the length that begins the next label type.
LabelOk64(len) == len # 0 /\ len <= 64

LabelOk(len) == len # 0 /\ len <= 63

\* The last start is the one a further label would have.
LabelLen(starts, i) == starts[i + 1] - starts[i] - 1

TextLen(n) == Last(n.starts) - 1 + n.dots

NameOk(n) ==
  TextLen(n) \in 1..253 /\ \A i \in 1..Len(n.starts) - 1 : LabelOk(LabelLen(n.starts, i))

\* Every dot becomes the length of the label behind it.
WireName(starts) ==
  [p \in 1..Last(starts) + 1 |->
     IF p = Last(starts) + 1
     THEN 0
     ELSE IF \E i \in DOMAIN starts : starts[i] = p - 1
          THEN LabelLen(starts, CHOOSE i \in DOMAIN starts : starts[i] = p - 1)
          ELSE 97]

build_https_query(n) ==
  <<69, 67, 1, 0, 0, 1, 0, 0, 0, 0, 0, 0>> \o WireName(n.starts) \o <<0, 65, 0, 1>>

ASSUME NamesAssumption ==
  \A n \in NAMES :
    /\ n.starts \in Seq(Nat) /\ Len(n.starts) > 1 /\ n.starts[1] = 0 /\ n.dots \in Nat
    /\ \A i, j \in DOMAIN n.starts : i < j => n.starts[i] < n.starts[j]

\* Whatever the server sends, it is bytes; what an honest one sends is a DNS
\* response to the query or the beginning of one.
ASSUME ResponsesAssumption ==
  \A n \in NAMES : NameOk(n) =>
    LET query == build_https_query(n) IN
    \A r \in Responses(query) :
      /\ r.bytes \in Seq(Bytes)
      /\ r.said # <<>> => /\ IsResponse(r.said.full, query, r.said.answers)
                         /\ IsPrefix(r.bytes, r.said.full)

\* The body the server will return is settled from the start.
Init ==
  /\ pc = "query"
  /\ name \in NAMES
  /\ \/ ~NameOk(name) /\ message = <<>> /\ said = <<>>
     \/ /\ NameOk(name)
        /\ \E r \in Responses(build_https_query(name)) : message = r.bytes /\ said = r.said
  /\ left = [questions |-> 0, answers |-> 0]
  /\ offset = 0 /\ pos = 0 /\ rr = NoRecord /\ reach = 0
  /\ result = Pending

-----------------------------------------------------------------------------
Byte(i) == Octet(message, i)

U16(i) == Word(message, i)

\* History of the reads; the code would panic at the first one out of bounds.
Reads(i) == reach' = IF i > reach THEN i ELSE reach

Finish(r) ==
  /\ pc' = "done" /\ result' = r
  /\ UNCHANGED <<name, message, said, left, offset, pos, rr>>

Fail == Finish(Error) /\ UNCHANGED reach

\* bootstrap_ech_config: a name that is no DNS name is never asked for.
Query ==
  /\ pc = "query"
  /\ IF NameOk(name)
     THEN pc' = "header" /\ UNCHANGED <<name, message, said, left, offset, pos, rr, reach, result>>
     ELSE Fail

\* The header: a response without an error code.
ParseHeader ==
  /\ pc = "header"
  /\ IF Len(message) < 12 \/ Byte(2) < 128 \/ Byte(3) % 16 # 0
     THEN Fail
     ELSE /\ left' = [questions |-> U16(4), answers |-> U16(6)]
          /\ offset' = 12 /\ pc' = "next" /\ Reads(8)
          /\ UNCHANGED <<name, message, said, pos, rr, result>>

\* The loop heads: questions first, then answers.
NextRecord ==
  /\ pc = "next"
  /\ IF left = [questions |-> 0, answers |-> 0]
     THEN Fail
     ELSE /\ IF left.questions > 0
             THEN pc' = "question_name" /\ left' = [left EXCEPT !.questions = @ - 1]
             ELSE pc' = "answer_name" /\ left' = [left EXCEPT !.answers = @ - 1]
          /\ pos' = offset
          /\ UNCHANGED <<name, message, said, offset, rr, reach, result>>

-----------------------------------------------------------------------------
After == [question_name |-> "question", answer_name |-> "answer", target_name |-> "param"]

\* Mutation: the name of an SVCB target is bounded by the message only.
LimitIsMessage == Len(message)

\* skip_name reads up to the end of the message, skip_name_bounded of the RDATA.
Limit == IF pc = "target_name" /\ rr.end < Len(message) THEN rr.end ELSE Len(message)

NameEnds(at, read) ==
  /\ offset' = at /\ pc' = After[pc] /\ Reads(read)
  /\ UNCHANGED <<name, message, said, left, pos, rr, result>>

\* One iteration of skip_name_inner; a compression pointer is not followed.
SkipLabel ==
  /\ pc \in DOMAIN After
  /\ LET len == Byte(pos) IN
       IF pos >= Limit \/ len \in 64..191 \/ (len >= 192 /\ pos + 1 >= Limit)
       THEN Fail
       ELSE CASE len >= 192 -> NameEnds(pos + 2, pos + 1)
              [] len = 0    -> NameEnds(pos + 1, pos + 1)
              [] OTHER      -> /\ pos' = pos + 1 + len /\ Reads(pos + 1)
                               /\ UNCHANGED <<pc, name, message, said, left, offset, rr, result>>

\* skip_bytes over type and class of a question.
QuestionTail ==
  /\ pc = "question"
  /\ IF offset + 4 > Len(message)
     THEN Fail
     ELSE /\ offset' = offset + 4 /\ pc' = "next"
          /\ UNCHANGED <<name, message, said, left, pos, rr, reach, result>>

Fits(at) == at <= Len(message)

\* Type, class, TTL and length of an answer, and of an HTTPS record the priority,
\* which is skipped against the end of the message.
AnswerHead ==
  /\ pc = "answer"
  /\ LET end == offset + 10 + U16(offset + 8) IN
       IF offset + 10 > Len(message) \/ ~Fits(end) \/ (U16(offset) = 65 /\ offset + 12 > Len(message))
       THEN Fail
       ELSE /\ rr' = [ttl |-> <<U16(offset + 4), U16(offset + 6)>>, end |-> end]
            /\ Reads(offset + 10)
            /\ IF U16(offset) = 65
               THEN pc' = "target_name" /\ pos' = offset + 12 /\ offset' = offset + 12
               ELSE pc' = "next" /\ pos' = pos /\ offset' = end
            /\ UNCHANGED <<name, message, said, left, result>>

-----------------------------------------------------------------------------
RecordTtl(ttl) == IF ttl = <<0, 0>> THEN DEFAULT_TTL ELSE ttl

\* Mutation: the offset is not advanced over an uninteresting parameter.
SkipParamStays(value_end) == offset

SkipParam(value_end) == value_end

\* One iteration of the loop of parse_https_rdata_for_ech.
Param ==
  /\ pc = "param"
  /\ LET value_end == offset + 4 + U16(offset + 2) IN
       CASE offset >= rr.end ->
              /\ offset' = rr.end /\ pc' = "next"
              /\ UNCHANGED <<name, message, said, left, pos, rr, reach, result>>
         [] offset < rr.end /\ (rr.end - offset < 4 \/ value_end > rr.end) -> Fail
         [] OTHER ->
              IF U16(offset) = 5
              THEN /\ Finish([is |-> "ech", from |-> offset + 4, to |-> value_end,
                              ttl |-> RecordTtl(rr.ttl)])
                   /\ Reads(value_end)
              ELSE /\ offset' = SkipParam(value_end) /\ Reads(offset + 4)
                   /\ UNCHANGED <<pc, name, message, said, left, pos, rr, result>>

Next ==
  \/ Query \/ ParseHeader \/ NextRecord \/ SkipLabel
  \/ QuestionTail \/ AnswerHead \/ Param

Spec == Init /\ [][Next]_vars

\* The parser is sequential code; the request before it has a timeout of 10 s.
FairSpec == Spec /\ WF_vars(Next)

-----------------------------------------------------------------------------
\* Whatever the resolver sent, no read of the parser is out of bounds (it would
\* panic), what belongs to an HTTPS record is read inside its RDATA, and the
\* offsets never leave the message.
ReadsInside ==
  /\ reach <= Len(message) /\ offset <= Len(message)
  /\ pc \in {"target_name", "param"} => reach <= rr.end /\ rr.end <= Len(message)
  /\ pc = "param" => offset <= rr.end
  /\ result.is = "ech" => result.from <= result.to /\ result.to <= rr.end

\* From an honest response the client takes the ech value of the first HTTPS
\* record that has one, with that record's TTL, for every name whose query can
\* be written; from one that was cut short it takes that or nothing.
EchExact ==
  pc = "done" /\ said # <<>> =>
    \/ /\ result.is = "ech"
       /\ \E i \in DOMAIN said.answers :
            LET a == said.answers[i] IN
            /\ \A h \in 1..i - 1 : ~CarriesEch(said.full, said.answers[h])
            /\ \E j \in DOMAIN a.params :
                 /\ EchAt(said.full, a, j)
                 /\ SubSeq(message, result.from + 1, result.to) = EchValue(said.full, a, j)
            /\ result.ttl = IF Ttl(said.full, a) = <<0, 0>> THEN DEFAULT_TTL ELSE Ttl(said.full, a)
    \/ /\ result.is = "error"
       /\ message = said.full => \A i \in DOMAIN said.answers : ~CarriesEch(said.full, said.answers[i])

\* The parser ends on every input: no pointer or length makes it loop.
ParseEnds == <>(pc = "done")
=============================================================================
