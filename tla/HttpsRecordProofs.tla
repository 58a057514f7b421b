-------------------------- MODULE HttpsRecordProofs --------------------------
(***************************************************************************)
(* The DNS parser of HttpsRecord: its bounds and its steps for every       *)
(* sequence of bytes, and what it takes out of every honest response.      *)
(***************************************************************************)
EXTENDS HttpsRecord, SequenceTheorems, TLAPS

-----------------------------------------------------------------------------
Stages ==
  {"query", "header", "next", "question_name", "answer_name", "target_name",
   "question", "answer", "param", "done"}

\* The types of the parser's variables.
ParserTyped ==
  /\ pc \in Stages
  /\ message \in Seq(Bytes)
  /\ left \in [questions : Nat, answers : Nat]
  /\ offset \in Nat /\ pos \in Nat /\ reach \in Nat /\ rr.end \in Nat

\* What was read lies behind the parser: below `pos' within a name and below
\* `offset' elsewhere, so that the reach of the reads follows from the checks the
\* parser makes ahead.
ReadsBehind ==
  /\ pc \in {"query", "header"} => offset = 0
  /\ pc \in {"query", "header", "next", "question", "answer", "param"} => reach <= offset
  /\ pc \in {"question_name", "answer_name", "target_name"} => reach <= pos
  /\ rr.end <= Len(message)
  /\ result.is = "ech" => pc = "done"

ParserInv == ParserTyped /\ ReadsBehind /\ ReadsInside

-----------------------------------------------------------------------------
(***************************************************************************)
(* Bytes and lengths.                                                      *)
(***************************************************************************)
LEMMA BytesAreNat == Bytes \subseteq Nat
  BY DEF Bytes

LEMMA MessageLen == ASSUME ParserTyped PROVE Len(message) \in Nat
  BY LenProperties DEF ParserTyped

LEMMA OctetTyped ==
  ASSUME NEW m \in Seq(Bytes), NEW i \in Nat
  PROVE  Octet(m, i) \in Bytes /\ Octet(m, i) \in Nat /\ Word(m, i) \in Nat
<1>1. ASSUME NEW j \in Nat PROVE Octet(m, j) \in Bytes
  <2>n. Len(m) \in Nat BY LenProperties
  <2>1. CASE j < Len(m)
    <3>1. j + 1 \in 1..Len(m) BY <2>1, <2>n
    <3>2. m[j + 1] \in Bytes BY <3>1, ElementOfSeq
    <3> QED BY <2>1, <3>2 DEF Octet
  <2>2. CASE ~(j < Len(m)) BY <2>2 DEF Octet, Bytes
  <2> QED BY <2>1, <2>2
<1> DEFINE a == Octet(m, i)
           b == Octet(m, i + 1)
<1>2. i + 1 \in Nat OBVIOUS
<1>3. a \in Nat /\ b \in Nat BY <1>1, <1>2, BytesAreNat
<1>4. Word(m, i) = 256 * a + b BY DEF Word
<1> HIDE DEF a, b
<1>5. 256 * a + b \in Nat BY <1>3
<1> QED BY <1>1, <1>4, <1>5, BytesAreNat

LEMMA ByteTyped == ASSUME ParserTyped, NEW i \in Nat PROVE Byte(i) \in Nat /\ U16(i) \in Nat
  BY OctetTyped DEF ParserTyped, Byte, U16

LEMMA ReadsTyped ==
  ASSUME NEW i \in Nat, reach \in Nat, Reads(i)
  PROVE  reach' \in Nat /\ reach' >= i /\ reach' >= reach /\ (reach' = i \/ reach' = reach)
  BY DEF Reads

LEMMA InitParser == Init => ParserInv
<1> SUFFICES ASSUME Init PROVE ParserInv OBVIOUS
<1>1. message \in Seq(Bytes)
  <2>1. <<>> \in Seq(Bytes) OBVIOUS
  <2>2. CASE NameOk(name)
    <3>1. PICK r \in Responses(build_https_query(name)) : message = r.bytes BY <2>2 DEF Init
    <3> QED BY <2>2, <3>1, ResponsesAssumption DEF Init
  <2>3. CASE ~NameOk(name) BY <2>1, <2>3 DEF Init
  <2> QED BY <2>2, <2>3
<1>2. Len(message) \in Nat BY <1>1, LenProperties
<1>3. /\ pc = "query" /\ left = [questions |-> 0, answers |-> 0] /\ offset = 0 /\ pos = 0
      /\ rr.end = 0 /\ reach = 0 /\ result.is = "none"
  BY DEF Init, NoRecord, Pending
<1>4. ParserTyped BY <1>1, <1>3 DEF ParserTyped, Stages
<1>5. ReadsBehind BY <1>2, <1>3 DEF ReadsBehind
<1>6. ReadsInside BY <1>2, <1>3 DEF ReadsInside
<1> QED BY <1>4, <1>5, <1>6 DEF ParserInv

-----------------------------------------------------------------------------
(***************************************************************************)
(* One lemma per step of the parser.                                       *)
(***************************************************************************)
LEMMA FailStep == ParserInv /\ pc # "done" /\ Fail => ParserInv'
<1> SUFFICES ASSUME ParserInv, Fail PROVE ParserInv' OBVIOUS
<1>1. /\ pc' = "done" /\ result'.is = "error"
      /\ UNCHANGED <<name, message, said, left, offset, pos, rr, reach>>
  BY DEF Fail, Finish, Error, Pending
<1>2. ParserTyped' BY <1>1 DEF ParserInv, ParserTyped, Stages
<1>3. ReadsBehind' BY <1>1 DEF ParserInv, ReadsBehind
<1>4. ReadsInside' BY <1>1 DEF ParserInv, ReadsInside
<1> QED BY <1>2, <1>3, <1>4 DEF ParserInv

LEMMA QueryStep == ParserInv /\ Query => ParserInv'
<1> SUFFICES ASSUME ParserInv, Query PROVE ParserInv' OBVIOUS
<1>1. CASE ~Fail
  <2>1. /\ pc = "query" /\ pc' = "header"
        /\ UNCHANGED <<name, message, said, left, offset, pos, rr, reach, result>>
    BY <1>1 DEF Query
  <2>2. ParserTyped' BY <2>1 DEF ParserInv, ParserTyped, Stages
  <2>3. ReadsBehind' BY <2>1 DEF ParserInv, ReadsBehind
  <2>4. ReadsInside' BY <2>1 DEF ParserInv, ReadsInside
  <2> QED BY <2>2, <2>3, <2>4 DEF ParserInv
<1>2. CASE Fail BY <1>2, FailStep DEF Query
<1> QED BY <1>1, <1>2

LEMMA HeaderStep == ParserInv /\ ParseHeader => ParserInv'
<1> SUFFICES ASSUME ParserInv, ParseHeader PROVE ParserInv' OBVIOUS
<1>t. ParserTyped BY DEF ParserInv
<1>1. CASE ~Fail
  <2>1. /\ pc = "header" /\ pc' = "next" /\ ~(Len(message) < 12) /\ offset' = 12 /\ Reads(8)
        /\ left' = [questions |-> U16(4), answers |-> U16(6)]
        /\ UNCHANGED <<name, message, said, pos, rr, result>>
    BY <1>1 DEF ParseHeader
  <2>2. left' \in [questions : Nat, answers : Nat] BY <1>t, <2>1, ByteTyped
  <2>3. offset = 0 /\ reach = 0 /\ Len(message) \in Nat
    BY <1>t, <2>1, MessageLen DEF ParserInv, ParserTyped, ReadsBehind
  <2>4. reach' = 8 BY <2>1, <2>3 DEF Reads
  <2>5. ParserTyped' BY <1>t, <2>1, <2>2, <2>4 DEF ParserTyped, Stages
  <2>6. ReadsBehind' BY <2>1, <2>4 DEF ParserInv, ReadsBehind
  <2>7. ReadsInside' BY <2>1, <2>3, <2>4 DEF ParserInv, ReadsInside, ReadsBehind
  <2> QED BY <2>5, <2>6, <2>7 DEF ParserInv
<1>2. CASE Fail BY <1>2, FailStep DEF ParseHeader
<1> QED BY <1>1, <1>2

LEMMA NextRecordStep == ParserInv /\ NextRecord => ParserInv'
<1> SUFFICES ASSUME ParserInv, NextRecord PROVE ParserInv' OBVIOUS
<1>t. ParserTyped BY DEF ParserInv
<1>1. CASE ~Fail
  <2>1. /\ pc = "next" /\ pc' \in {"question_name", "answer_name"} /\ pos' = offset
        /\ UNCHANGED <<name, message, said, offset, rr, reach, result>>
    BY <1>1 DEF NextRecord
  <2>2. left' \in [questions : Nat, answers : Nat]
    <3>1. left \in [questions : Nat, answers : Nat] BY <1>t DEF ParserTyped
    <3>2. CASE left.questions > 0
      BY <1>1, <3>1, <3>2 DEF NextRecord
    <3>3. CASE left.questions = 0
      <4>1. left' = [left EXCEPT !.answers = @ - 1] BY <1>1, <3>3 DEF NextRecord
      <4>2. left.answers # 0
        <5>1. left # [questions |-> 0, answers |-> 0] BY <1>1 DEF NextRecord
        <5> QED BY <3>1, <3>3, <5>1
      <4> QED BY <3>1, <4>1, <4>2
    <3> QED BY <3>1, <3>2, <3>3
  <2>3. ParserTyped' BY <1>t, <2>1, <2>2 DEF ParserTyped, Stages
  <2>4. ReadsBehind' BY <2>1 DEF ParserInv, ReadsBehind
  <2>5. ReadsInside' BY <2>1 DEF ParserInv, ReadsInside, ReadsBehind
  <2> QED BY <2>3, <2>4, <2>5 DEF ParserInv
<1>2. CASE Fail BY <1>2, FailStep DEF NextRecord
<1> QED BY <1>1, <1>2

\* skip_name and skip_name_bounded: a label or a pointer is read only when it is
\* below the limit they were given.
LEMMA SkipLabelStep == ParserInv /\ SkipLabel => ParserInv'
<1> SUFFICES ASSUME ParserInv, SkipLabel PROVE ParserInv' OBVIOUS
<1>t. ParserTyped BY DEF ParserInv
<1>p. pc \in {"question_name", "answer_name", "target_name"} BY DEF SkipLabel, After
<1>n. Len(message) \in Nat /\ pos \in Nat /\ reach \in Nat /\ rr.end \in Nat /\ reach <= pos
  BY <1>t, <1>p, MessageLen DEF ParserTyped, ParserInv, ReadsBehind
<1>l. Limit \in Nat /\ Limit <= Len(message) /\ (pc = "target_name" => Limit <= rr.end)
  BY <1>n DEF Limit
<1>b. Byte(pos) \in Nat BY <1>t, <1>n, ByteTyped
<1>r. rr.end <= Len(message) /\ result.is # "ech" BY <1>p DEF ParserInv, ReadsBehind
<1> HIDE DEF Limit
<1>1. CASE ~Fail
  <2>1. /\ pos < Limit
        /\ \/ pos + 1 < Limit /\ NameEnds(pos + 2, pos + 1)
           \/ NameEnds(pos + 1, pos + 1)
           \/ /\ pos' = pos + 1 + Byte(pos) /\ Reads(pos + 1)
              /\ UNCHANGED <<pc, name, message, said, left, offset, rr, result>>
    <3>1. /\ ~(pos >= Limit) /\ ~(Byte(pos) >= 192 /\ pos + 1 >= Limit)
          /\ CASE Byte(pos) >= 192 -> NameEnds(pos + 2, pos + 1)
               [] Byte(pos) = 0    -> NameEnds(pos + 1, pos + 1)
               [] OTHER            -> /\ pos' = pos + 1 + Byte(pos) /\ Reads(pos + 1)
                                      /\ UNCHANGED <<pc, name, message, said, left, offset, rr, result>>
      BY <1>1 DEF SkipLabel
    <3> QED BY <3>1, <1>n, <1>l, <1>b
  <2>2. ASSUME NEW at \in {pos + 1, pos + 2}, at <= Limit, NameEnds(at, pos + 1) PROVE ParserInv'
    <3>1. /\ offset' = at /\ pc' = After[pc] /\ Reads(pos + 1)
          /\ UNCHANGED <<name, message, said, left, pos, rr, result>>
      BY <2>2 DEF NameEnds
    <3>2. reach' = pos + 1 /\ at \in Nat /\ reach' <= at BY <1>n, <3>1 DEF Reads
    <3>3. pc' \in {"question", "answer", "param"} /\ (pc' = "param" => pc = "target_name")
      BY <1>p, <3>1 DEF After
    <3>4. ParserTyped' BY <1>t, <1>n, <3>1, <3>2, <3>3 DEF ParserTyped, Stages
    <3>5. ReadsBehind' BY <1>r, <3>1, <3>2, <3>3 DEF ReadsBehind
    <3>6. ReadsInside' BY <1>n, <1>l, <1>r, <2>2, <3>1, <3>2, <3>3 DEF ReadsInside
    <3> QED BY <3>4, <3>5, <3>6 DEF ParserInv
  <2>3. ASSUME pos' = pos + 1 + Byte(pos), Reads(pos + 1),
               UNCHANGED <<pc, name, message, said, left, offset, rr, result>>
        PROVE  ParserInv'
    <3>1. reach' = pos + 1 /\ pos' \in Nat /\ reach' <= pos' BY <1>n, <1>b, <2>3 DEF Reads
    <3>2. ParserTyped' BY <1>t, <1>n, <2>3, <3>1 DEF ParserTyped
    <3>3. ReadsBehind' BY <1>p, <1>r, <2>3, <3>1 DEF ReadsBehind
    <3>4. ReadsInside' BY <1>p, <1>n, <1>l, <1>r, <2>1, <2>3, <3>1 DEF ParserInv, ReadsInside
    <3> QED BY <3>2, <3>3, <3>4 DEF ParserInv
  <2> QED BY <1>n, <1>l, <2>1, <2>2, <2>3
<1>2. CASE Fail BY <1>p, <1>2, FailStep
<1> QED BY <1>1, <1>2

LEMMA QuestionStep == ParserInv /\ QuestionTail => ParserInv'
<1> SUFFICES ASSUME ParserInv, QuestionTail PROVE ParserInv' OBVIOUS
<1>t. ParserTyped BY DEF ParserInv
<1>1. CASE ~Fail
  <2>1. /\ pc = "question" /\ pc' = "next" /\ ~(offset + 4 > Len(message)) /\ offset' = offset + 4
        /\ UNCHANGED <<name, message, said, left, pos, rr, reach, result>>
    BY <1>1 DEF QuestionTail
  <2>2. offset \in Nat /\ reach \in Nat /\ Len(message) \in Nat /\ reach <= offset
    BY <1>t, <2>1, MessageLen DEF ParserTyped, ParserInv, ReadsBehind
  <2>3. ParserTyped' BY <1>t, <2>1 DEF ParserTyped, Stages
  <2>4. ReadsBehind' BY <2>1, <2>2 DEF ParserInv, ReadsBehind
  <2>5. ReadsInside' BY <2>1, <2>2 DEF ParserInv, ReadsInside, ReadsBehind
  <2> QED BY <2>3, <2>4, <2>5 DEF ParserInv
<1>2. CASE Fail BY <1>2, FailStep DEF QuestionTail
<1> QED BY <1>1, <1>2

LEMMA AnswerStep == ParserInv /\ AnswerHead => ParserInv'
<1> SUFFICES ASSUME ParserInv, AnswerHead PROVE ParserInv' OBVIOUS
<1>t. ParserTyped BY DEF ParserInv
<1> DEFINE end == offset + 10 + U16(offset + 8)
<1>p. pc = "answer" BY DEF AnswerHead
<1>1. CASE ~Fail
  <2>1. /\ pc = "answer" /\ ~(offset + 10 > Len(message)) /\ end <= Len(message)
        /\ rr'.end = end /\ Reads(offset + 10) /\ UNCHANGED <<name, message, said, left, result>>
        /\ \/ /\ ~(offset + 12 > Len(message))
              /\ pc' = "target_name" /\ pos' = offset + 12 /\ offset' = offset + 12
           \/ pc' = "next" /\ pos' = pos /\ offset' = end
    BY <1>1 DEF AnswerHead, Fits
  <2>2. /\ offset \in Nat /\ pos \in Nat /\ reach \in Nat /\ Len(message) \in Nat /\ reach <= offset
        /\ result.is # "ech"
    BY <1>t, <2>1, MessageLen DEF ParserTyped, ParserInv, ReadsBehind
  <2>3. end \in Nat /\ end >= offset + 10
    <3>0. offset + 8 \in Nat BY <2>2
    <3>1. U16(offset + 8) \in Nat BY <1>t, <3>0, ByteTyped
    <3> QED BY <2>2, <3>1
  <2> HIDE DEF end
  <2>4. reach' = offset + 10 BY <2>1, <2>2 DEF Reads
  <2>5. ParserTyped' BY <1>t, <2>1, <2>2, <2>3, <2>4 DEF ParserTyped, Stages
  <2>6. ReadsBehind' BY <2>1, <2>2, <2>3, <2>4 DEF ReadsBehind
  <2>7. ReadsInside' BY <2>1, <2>2, <2>3, <2>4 DEF ReadsInside
  <2> QED BY <2>5, <2>6, <2>7 DEF ParserInv
<1>2. CASE Fail BY <1>p, <1>2, FailStep
<1> QED BY <1>1, <1>2

LEMMA ParamStep == ParserInv /\ Param => ParserInv'
<1> SUFFICES ASSUME ParserInv, Param PROVE ParserInv' OBVIOUS
<1>t. ParserTyped BY DEF ParserInv
<1> DEFINE value_end == offset + 4 + U16(offset + 2)
<1>1. /\ pc = "param" /\ offset \in Nat /\ pos \in Nat /\ reach \in Nat /\ rr.end \in Nat
      /\ Len(message) \in Nat /\ reach <= offset /\ offset <= rr.end /\ rr.end <= Len(message)
      /\ result.is # "ech"
  BY <1>t, MessageLen DEF Param, ParserTyped, ParserInv, ReadsBehind, ReadsInside
<1>2. value_end \in Nat /\ value_end >= offset + 4
  <2>0. offset + 2 \in Nat BY <1>1
  <2>1. U16(offset + 2) \in Nat BY <1>t, <2>0, ByteTyped
  <2> QED BY <1>1, <2>1
<1>3. \/ /\ offset' = rr.end /\ pc' = "next"
         /\ UNCHANGED <<name, message, said, left, pos, rr, reach, result>>
      \/ Fail
      \/ /\ value_end <= rr.end /\ Reads(value_end)
         /\ Finish([is |-> "ech", from |-> offset + 4, to |-> value_end, ttl |-> RecordTtl(rr.ttl)])
      \/ /\ value_end <= rr.end /\ offset' = value_end /\ Reads(offset + 4)
         /\ UNCHANGED <<pc, name, message, said, left, pos, rr, result>>
  BY <1>1, <1>2 DEF Param, SkipParam
<1> HIDE DEF value_end
<1>4. ASSUME offset' = rr.end, pc' = "next",
             UNCHANGED <<name, message, said, left, pos, rr, reach, result>>
      PROVE  ParserInv'
  <2>1. ParserTyped' BY <1>t, <1>1, <1>4 DEF ParserTyped, Stages
  <2>2. ReadsBehind' BY <1>1, <1>4 DEF ReadsBehind
  <2>3. ReadsInside' BY <1>1, <1>4 DEF ReadsInside
  <2> QED BY <2>1, <2>2, <2>3 DEF ParserInv
<1>5. ASSUME value_end <= rr.end, Reads(value_end),
             Finish([is |-> "ech", from |-> offset + 4, to |-> value_end, ttl |-> RecordTtl(rr.ttl)])
      PROVE  ParserInv'
  <2>1. /\ pc' = "done" /\ UNCHANGED <<name, message, said, left, offset, pos, rr>>
        /\ result'.from = offset + 4 /\ result'.to = value_end
    BY <1>5 DEF Finish
  <2>2. reach' = value_end BY <1>1, <1>2, <1>5 DEF Reads
  <2>3. ParserTyped' BY <1>t, <1>2, <2>1, <2>2 DEF ParserTyped, Stages
  <2>4. ReadsBehind' BY <1>1, <2>1 DEF ReadsBehind
  <2>5. ReadsInside' BY <1>1, <1>2, <1>5, <2>1, <2>2 DEF ReadsInside
  <2> QED BY <2>3, <2>4, <2>5 DEF ParserInv
<1>6. ASSUME value_end <= rr.end, offset' = value_end, Reads(offset + 4),
             UNCHANGED <<pc, name, message, said, left, pos, rr, result>>
      PROVE  ParserInv'
  <2>1. reach' = offset + 4 BY <1>1, <1>6 DEF Reads
  <2>2. ParserTyped' BY <1>t, <1>1, <1>2, <1>6, <2>1 DEF ParserTyped
  <2>3. ReadsBehind' BY <1>1, <1>2, <1>6, <2>1 DEF ReadsBehind
  <2>4. ReadsInside' BY <1>1, <1>2, <1>6, <2>1 DEF ReadsInside
  <2> QED BY <2>2, <2>3, <2>4 DEF ParserInv
<1> QED BY <1>1, <1>3, <1>4, <1>5, <1>6, FailStep

LEMMA NextParser == ParserInv /\ [Next]_vars => ParserInv'
<1> SUFFICES ASSUME ParserInv, [Next]_vars PROVE ParserInv' OBVIOUS
<1>1. CASE UNCHANGED vars
  BY <1>1 DEF vars, ParserInv, ParserTyped, ReadsBehind, ReadsInside
<1> QED BY <1>1, QueryStep, HeaderStep, NextRecordStep, SkipLabelStep, QuestionStep, AnswerStep, ParamStep
  DEF Next

\* No message of a resolver, however it is cut or forged, makes the parser read
\* outside it, read a parameter outside its record or return a slice outside it.
THEOREM ParserStaysInside == Spec => []ReadsInside
<1>1. ParserInv => ReadsInside BY DEF ParserInv
<1> QED BY <1>1, InitParser, NextParser, PTL DEF Spec

-----------------------------------------------------------------------------
(***************************************************************************)
(* What the parser finds in an honest response.                            *)
(***************************************************************************)
\* The bounds of the name in the question the response repeats.
QuestionBounds(starts) ==
  [i \in 1..Len(starts) + 1 |-> IF i = Len(starts) + 1 THEN 13 + Last(starts) ELSE 12 + starts[i]]

AnswerNo == Len(said.answers) - left.answers

Answer == said.answers[AnswerNo]

AtName(b) == \E j \in 1..Len(b) - 1 : pos = b[j]

NoEch(k) == \A h \in 1..k : ~CarriesEch(said.full, said.answers[h])

InQuestion == left = [questions |-> 0, answers |-> Len(said.answers)]

InAnswer == left.questions = 0 /\ left.answers < Len(said.answers) /\ NoEch(AnswerNo - 1)

InHttps ==
  /\ InAnswer /\ IsHttps(said.full, Answer)
  /\ rr = [ttl |-> Ttl(said.full, Answer), end |-> RdataEnd(said.full, Answer)]

\* The message is an honest response to the query, or the beginning of one.
Honest ==
  /\ name \in NAMES /\ NameOk(name)
  /\ IsResponse(said.full, build_https_query(name), said.answers)
  /\ IsPrefix(message, said.full)

\* The parser is always at a bound of the part it believes to read, and what it
\* left behind carries no ech.
OnTrack ==
  /\ pc = "next" =>
       \/ left = [questions |-> 1, answers |-> Len(said.answers)] /\ offset = 12
       \/ /\ left.questions = 0 /\ left.answers <= Len(said.answers) /\ NoEch(AnswerNo)
          /\ offset = RecordFrom(said.full, Len(build_https_query(name)), said.answers, AnswerNo + 1)
  /\ pc = "question_name" => InQuestion /\ AtName(QuestionBounds(name.starts))
  /\ pc = "question" => InQuestion /\ offset = 13 + Last(name.starts)
  /\ pc = "answer_name" => InAnswer /\ AtName(Answer.owner)
  /\ pc = "answer" => InAnswer /\ offset = Fixed(Answer)
  /\ pc = "target_name" => InHttps /\ AtName(Answer.target)
  /\ pc = "param" =>
       /\ InHttps
       /\ \E j \in DOMAIN Answer.params :
            offset = Answer.params[j] /\ \A i \in 1..j - 1 : Word(said.full, Answer.params[i]) # 5

HonestInv == said # <<>> => Honest /\ OnTrack /\ EchExact

-----------------------------------------------------------------------------
LEMMA HonestTyped ==
  ASSUME Honest
  PROVE  /\ said.full \in Seq(Bytes) /\ Len(said.full) \in Nat
         /\ said.answers \in Seq(Range(said.answers)) /\ Len(said.answers) \in Nat
         /\ DOMAIN said.answers = 1..Len(said.answers)
<1>1. said.full \in Seq(Bytes) /\ said.answers \in Seq(Range(said.answers))
  BY DEF Honest, IsResponse
<1> QED BY <1>1, LenProperties

\* A byte of the message that is read is the byte of the whole response.
LEMMA SameByte ==
  ASSUME Honest, ParserTyped, NEW i \in Nat
  PROVE  /\ i < Len(message) => Byte(i) = Octet(said.full, i)
         /\ i + 1 < Len(message) => U16(i) = Word(said.full, i)
<1>t. Len(message) \in Nat /\ Len(said.full) \in Nat /\ Len(message) <= Len(said.full)
      /\ message \in Seq(Bytes) /\ said.full \in Seq(Bytes)
  BY HonestTyped, MessageLen DEF Honest, IsPrefix, ParserTyped
<1>1. ASSUME NEW j \in Nat, j < Len(message) PROVE Octet(message, j) = Octet(said.full, j)
  <2>1. SubSeq(message, 1, Len(message)) = SubSeq(said.full, 1, Len(message))
    BY DEF Honest, IsPrefix
  <2>2. j + 1 \in 1..Len(message) BY <1>1, <1>t
  <2>3. SubSeq(message, 1, Len(message))[j + 1] = message[j + 1] BY <1>t, <2>2
  <2>4. SubSeq(said.full, 1, Len(message))[j + 1] = said.full[j + 1] BY <1>t, <2>2
  <2> QED BY <1>t, <1>1, <2>1, <2>3, <2>4 DEF Octet
<1>2. i + 1 \in Nat /\ (i + 1 < Len(message) => i < Len(message)) BY <1>t
<1> QED BY <1>1, <1>2 DEF Byte, U16, Word

LEMMA BoundsTyped ==
  ASSUME NEW b, NEW from, Bounds(b, from)
  PROVE  /\ b \in Seq(Nat) /\ Len(b) \in Nat \ {0} /\ DOMAIN b = 1..Len(b)
         /\ \A i \in 1..Len(b) : b[i] \in Nat /\ b[i] <= Last(b)
         /\ Last(b) \in Nat /\ from \in Nat /\ from <= Last(b)
<1>1. b \in Seq(Nat) /\ Len(b) > 0 /\ b[1] = from /\ \A i \in DOMAIN b : b[i] <= Last(b)
  BY DEF Bounds
<1>2. Len(b) \in Nat \ {0} /\ DOMAIN b = 1..Len(b) BY <1>1, LenProperties
<1>3. \A i \in 1..Len(b) : b[i] \in Nat BY <1>1, <1>2, ElementOfSeq
<1>4. 1 \in 1..Len(b) /\ Len(b) \in 1..Len(b) BY <1>2
<1> QED BY <1>1, <1>2, <1>3, <1>4 DEF Last

-----------------------------------------------------------------------------
(***************************************************************************)
(* build_https_query: the name of a query that is written is a DNS name.   *)
(***************************************************************************)
LEMMA StartsTyped ==
  ASSUME NEW n \in NAMES
  PROVE  /\ n.starts \in Seq(Nat) /\ Len(n.starts) \in Nat /\ Len(n.starts) > 1
         /\ DOMAIN n.starts = 1..Len(n.starts) /\ n.starts[1] = 0
         /\ Last(n.starts) = n.starts[Len(n.starts)] /\ Last(n.starts) \in Nat
         /\ \A i \in 1..Len(n.starts) : n.starts[i] \in Nat /\ n.starts[i] <= Last(n.starts)
         /\ \A i, j \in 1..Len(n.starts) : i < j => n.starts[i] < n.starts[j]
<1>1. /\ n.starts \in Seq(Nat) /\ Len(n.starts) > 1 /\ n.starts[1] = 0
      /\ \A i, j \in DOMAIN n.starts : i < j => n.starts[i] < n.starts[j]
  BY NamesAssumption
<1>2. Len(n.starts) \in Nat /\ DOMAIN n.starts = 1..Len(n.starts) BY <1>1, LenProperties
<1>3. \A i \in 1..Len(n.starts) : n.starts[i] \in Nat BY <1>1, <1>2, ElementOfSeq
<1>4. Len(n.starts) \in 1..Len(n.starts) BY <1>1, <1>2
<1>5. ASSUME NEW i \in 1..Len(n.starts) PROVE n.starts[i] <= n.starts[Len(n.starts)]
  <2>1. CASE i = Len(n.starts) BY <1>3, <2>1
  <2>2. CASE i < Len(n.starts) BY <1>1, <1>2, <1>3, <1>4, <2>2
  <2> QED BY <1>2, <2>1, <2>2
<1> QED BY <1>1, <1>2, <1>3, <1>4, <1>5 DEF Last

LEMMA WireNameLabels ==
  ASSUME NEW n \in NAMES
  PROVE  /\ WireName(n.starts) \in [1..Last(n.starts) + 1 -> Int]
         /\ WireName(n.starts)[Last(n.starts) + 1] = 0
         /\ \A i \in 1..Len(n.starts) - 1 :
              WireName(n.starts)[n.starts[i] + 1] = LabelLen(n.starts, i)
<1> DEFINE s == n.starts
           last == Last(s)
<1>t. /\ Len(s) \in Nat /\ Len(s) > 1 /\ DOMAIN s = 1..Len(s) /\ last = s[Len(s)] /\ last \in Nat
      /\ \A i \in 1..Len(s) : s[i] \in Nat /\ s[i] <= last
      /\ \A i, j \in 1..Len(s) : i < j => s[i] < s[j]
  BY StartsTyped
<1> HIDE DEF s, last
<1>w. WireName(s) =
        [p \in 1..last + 1 |->
           IF p = last + 1 THEN 0
           ELSE IF \E i \in DOMAIN s : s[i] = p - 1
                THEN LabelLen(s, CHOOSE i \in DOMAIN s : s[i] = p - 1)
                ELSE 97]
  BY DEF WireName, last
<1>1. ASSUME NEW i \in 1..Len(s) - 1
      PROVE  /\ s[i] + 1 \in 1..last + 1 /\ s[i] + 1 # last + 1
             /\ (CHOOSE k \in DOMAIN s : s[k] = (s[i] + 1) - 1) = i
             /\ LabelLen(s, i) \in Int /\ i \in DOMAIN s
  <2>1. i \in 1..Len(s) /\ i + 1 \in 1..Len(s) /\ Len(s) \in 1..Len(s) /\ i < Len(s) BY <1>t
  <2>2. s[i] < last /\ s[i] \in Nat /\ s[i + 1] \in Nat BY <1>t, <2>1
  <2>3. (s[i] + 1) - 1 = s[i] BY <2>2
  <2>4. \A k \in DOMAIN s : s[k] = s[i] => k = i BY <1>t, <2>1
  <2> QED BY <1>t, <2>1, <2>2, <2>3, <2>4 DEF LabelLen
<1>2. ASSUME NEW i \in 1..Len(s) - 1 PROVE WireName(s)[s[i] + 1] = LabelLen(s, i)
  <2>0. i \in DOMAIN s /\ s[i] = (s[i] + 1) - 1
    <3>1. i \in DOMAIN s /\ s[i] \in Nat BY <1>t, <1>1
    <3> QED BY <3>1
  <2>1. \E k \in DOMAIN s : s[k] = (s[i] + 1) - 1 BY <2>0
  <2> QED BY <1>w, <1>1, <2>1
<1>3. last + 1 \in 1..last + 1 BY <1>t
<1>4. WireName(s)[last + 1] = 0 BY <1>w, <1>3
<1>5. ASSUME NEW p \in 1..last + 1 PROVE WireName(s)[p] \in Int
  <2>1. CASE p = last + 1 BY <1>4, <2>1
  <2>2. CASE p # last + 1 /\ \E i \in DOMAIN s : s[i] = p - 1
    <3>1. PICK i \in DOMAIN s : s[i] = p - 1 BY <2>2
    <3>2. i # Len(s) BY <1>t, <2>2, <3>1
    <3>3. i \in 1..Len(s) - 1 /\ p = s[i] + 1 BY <1>t, <3>1, <3>2
    <3> QED BY <1>1, <1>2, <3>3
  <2>3. CASE p # last + 1 /\ ~\E i \in DOMAIN s : s[i] = p - 1
    <3>1. WireName(s)[p] = 97 BY <1>w, <2>3
    <3> QED BY <3>1
  <2> QED BY <2>1, <2>2, <2>3
<1>6. WireName(s) \in [1..last + 1 -> Int] BY <1>w, <1>5
<1> QED BY <1>2, <1>4, <1>6 DEF s, last

LEMMA Concat ==
  ASSUME NEW x \in Seq(Int), NEW y \in Seq(Int)
  PROVE  /\ x \o y \in Seq(Int) /\ Len(x \o y) = Len(x) + Len(y)
         /\ \A i \in 1..Len(x) : (x \o y)[i] = x[i]
         /\ \A i \in 1..Len(y) : (x \o y)[Len(x) + i] = y[i]
<1>1. Len(x) \in Nat /\ Len(y) \in Nat BY LenProperties
<1>2. x \o y \in Seq(Int) OBVIOUS
<1>3. Len(x \o y) = Len(x) + Len(y) OBVIOUS
<1>4. \A i \in 1..Len(x) : (x \o y)[i] = x[i] BY <1>1
<1>5. ASSUME NEW i \in 1..Len(y) PROVE (x \o y)[Len(x) + i] = y[i] BY <1>1
<1> QED BY <1>2, <1>3, <1>4, <1>5

\* Where the parts of the query are: the count of questions, the name, its tail.
LEMMA QueryLayout ==
  ASSUME NEW n \in NAMES
  PROVE  /\ Len(build_https_query(n)) = Last(n.starts) + 17
         /\ Word(build_https_query(n), 4) = 1
         /\ \A p \in 0..Last(n.starts) :
              Octet(build_https_query(n), 12 + p) = WireName(n.starts)[p + 1]
<1> DEFINE h == <<69, 67, 1, 0, 0, 1, 0, 0, 0, 0, 0, 0>>
           w == WireName(n.starts)
           t == <<0, 65, 0, 1>>
           hw == h \o w
           last == Last(n.starts)
           q == build_https_query(n)
<1>1. last \in Nat /\ w \in [1..last + 1 -> Int] BY StartsTyped, WireNameLabels
<1>2. h \in Seq(Int) /\ Len(h) = 12 /\ t \in Seq(Int) /\ Len(t) = 4 OBVIOUS
<1>3. w \in Seq(Int) /\ Len(w) = last + 1
  <2> HIDE DEF w, last
  <2>1. last + 1 \in Nat BY <1>1
  <2> QED BY <1>1, <2>1
<1>4. q = hw \o t BY DEF build_https_query
<1>h. h[5] = 0 /\ h[6] = 1 OBVIOUS
<1>c. /\ hw \in Seq(Int) /\ Len(hw) = Len(h) + Len(w)
      /\ \A i \in 1..Len(h) : hw[i] = h[i]
      /\ \A i \in 1..Len(w) : hw[Len(h) + i] = w[i]
  <2> HIDE DEF h, w
  <2> QED BY <1>2, <1>3, Concat
<1> HIDE DEF h, w, t, hw, last, q
<1>5. hw \in Seq(Int) /\ Len(hw) = last + 13 BY <1>1, <1>2, <1>3, <1>c
<1>6. Len(q) = last + 17
  <2>1. Len(q) = Len(hw) + Len(t) BY <1>2, <1>4, <1>5, Concat
  <2> QED BY <1>1, <1>2, <1>5, <2>1
<1>7. \A i \in 1..last + 13 : q[i] = hw[i]
  <2>1. \A i \in 1..Len(hw) : (hw \o t)[i] = hw[i] BY <1>2, <1>5, Concat
  <2> QED BY <1>4, <1>5, <2>1
<1>8. \A i \in 1..12 : hw[i] = h[i] BY <1>2, <1>c
<1>9. \A p \in 0..last : hw[12 + p + 1] = w[p + 1]
  <2> SUFFICES ASSUME NEW p \in 0..last PROVE hw[12 + p + 1] = w[p + 1] OBVIOUS
  <2>1. p + 1 \in 1..Len(w) /\ 12 + p + 1 = 12 + (p + 1) BY <1>1, <1>3
  <2> QED BY <1>2, <1>c, <2>1
<1>10. Word(q, 4) = 1
  <2>1. Octet(q, 4) = q[5] /\ Octet(q, 5) = q[6] BY <1>1, <1>6 DEF Octet
  <2>2. 5 \in 1..last + 13 /\ 6 \in 1..last + 13 BY <1>1
  <2>3. q[5] = 0 /\ q[6] = 1
    <3>1. q[5] = hw[5] /\ q[6] = hw[6] BY <1>7, <2>2
    <3>2. hw[5] = h[5] /\ hw[6] = h[6] BY <1>8
    <3> QED BY <1>h, <3>1, <3>2
  <2>4. 4 + 1 = 5 OBVIOUS
  <2> QED BY <2>1, <2>3, <2>4 DEF Word
<1>11. ASSUME NEW p \in 0..last PROVE Octet(q, 12 + p) = w[p + 1]
  <2>1. 12 + p < Len(q) /\ 12 + p + 1 \in 1..last + 13 BY <1>1, <1>6
  <2>2. q[12 + p + 1] = hw[12 + p + 1] BY <1>7, <2>1
  <2>3. hw[12 + p + 1] = w[p + 1] BY <1>9
  <2> QED BY <2>1, <2>2, <2>3 DEF Octet
<1> QED BY <1>6, <1>10, <1>11 DEF w, last, q

\* The name of the question is read to its end by whoever reads DNS names.
LEMMA QuestionName ==
  ASSUME Honest
  PROVE  /\ Bounds(QuestionBounds(name.starts), 12)
         /\ IsName(said.full, QuestionBounds(name.starts))
         /\ Last(QuestionBounds(name.starts)) = 13 + Last(name.starts)
         /\ Len(build_https_query(name)) = Last(name.starts) + 17
         /\ Word(said.full, 4) = 1 /\ Last(name.starts) \in Nat
<1> DEFINE s == name.starts
           last == Last(s)
           b == QuestionBounds(s)
           q == build_https_query(name)
           m == said.full
<1>n. name \in NAMES /\ NameOk(name) BY DEF Honest
<1>t. /\ Len(s) \in Nat /\ Len(s) > 1 /\ last = s[Len(s)] /\ last \in Nat /\ s[1] = 0
      /\ \A i \in 1..Len(s) : s[i] \in Nat /\ s[i] <= last
  BY <1>n, StartsTyped
<1>q. /\ Len(q) = last + 17 /\ Word(q, 4) = 1
      /\ \A p \in 0..last : Octet(q, 12 + p) = WireName(s)[p + 1]
  BY <1>n, QueryLayout
<1>m. Word(m, 4) = Word(q, 4) /\ \A i \in 12..Len(q) - 1 : Octet(m, i) = Octet(q, i)
  BY DEF Honest, IsResponse
<1>b. b = [i \in 1..Len(s) + 1 |-> IF i = Len(s) + 1 THEN 13 + last ELSE 12 + s[i]]
  BY DEF QuestionBounds
<1>w. /\ WireName(s)[last + 1] = 0
      /\ \A i \in 1..Len(s) - 1 : WireName(s)[s[i] + 1] = LabelLen(s, i)
  BY <1>n, WireNameLabels
<1>l. \A i \in 1..Len(s) - 1 : LabelLen(s, i) # 0 /\ LabelLen(s, i) <= 63
  BY <1>n DEF NameOk, LabelOk
<1>i. \A i \in 1..Len(s) - 1 : s[i] < s[i + 1]
  <2> SUFFICES ASSUME NEW i \in 1..Len(s) - 1 PROVE s[i] < s[i + 1] OBVIOUS
  <2>1. i \in 1..Len(s) /\ i + 1 \in 1..Len(s) /\ i < i + 1 BY <1>t
  <2> QED BY <1>n, <2>1, StartsTyped
<1> HIDE DEF s, last, b, q, m
<1>1. Len(s) + 1 \in Nat BY <1>t
<1>2. ASSUME NEW i \in 1..Len(s) + 1 PROVE b[i] \in Nat /\ b[i] <= 13 + last
  <2>1. CASE i = Len(s) + 1 BY <1>t, <1>b, <2>1
  <2>2. CASE i # Len(s) + 1
    <3>1. i \in 1..Len(s) BY <1>t, <2>2
    <3>2. b[i] = 12 + s[i] BY <1>b, <2>2
    <3> QED BY <1>t, <3>1, <3>2
  <2> QED BY <2>1, <2>2
<1>3. b \in [1..Len(s) + 1 -> Nat] BY <1>b, <1>2
<1>4. b \in Seq(Nat) /\ Len(b) = Len(s) + 1 /\ DOMAIN b = 1..Len(s) + 1 BY <1>1, <1>3
<1>5. Last(b) = 13 + last
  <2>1. Len(s) + 1 \in 1..Len(s) + 1 BY <1>t
  <2> QED BY <1>b, <1>4, <2>1 DEF Last
<1>6. b[1] = 12 
  <2>1. 1 \in 1..Len(s) + 1 /\ 1 # Len(s) + 1 BY <1>t
  <2> QED BY <1>t, <1>b, <2>1
<1>7. Bounds(b, 12) BY <1>t, <1>2, <1>4, <1>5, <1>6 DEF Bounds
<1>8. ASSUME NEW p \in 0..last PROVE Octet(m, 12 + p) = WireName(s)[p + 1]
  <2>1. 12 + p \in 12..Len(q) - 1 BY <1>t, <1>q
  <2> QED BY <1>q, <1>m, <2>1
<1>9. ASSUME NEW i \in 1..Len(s) - 1
      PROVE  Octet(m, b[i]) \in 1..63 /\ b[i + 1] = b[i] + 1 + Octet(m, b[i])
  <2>1. i \in 1..Len(s) /\ i + 1 \in 1..Len(s) BY <1>t
  <2>2. s[i] \in 0..last /\ s[i] \in Nat /\ s[i + 1] \in Nat BY <1>t, <2>1
  <2>3. b[i] = 12 + s[i] /\ b[i + 1] = 12 + s[i + 1] BY <1>t, <1>b, <2>1
  <2>4. Octet(m, b[i]) = LabelLen(s, i) BY <1>8, <1>w, <2>2, <2>3
  <2>5. LabelLen(s, i) = s[i + 1] - s[i] - 1 BY DEF LabelLen
  <2>6. LabelLen(s, i) # 0 /\ LabelLen(s, i) <= 63 /\ s[i] < s[i + 1] BY <1>l, <1>i
  <2> DEFINE u == s[i]
             v == s[i + 1]
             l == LabelLen(s, i)
  <2>7. u \in Nat /\ v \in Nat /\ l = v - u - 1 /\ l # 0 /\ l <= 63 /\ u < v BY <2>2, <2>5, <2>6
  <2> HIDE DEF u, v, l
  <2>8. l \in 1..63 /\ 12 + v = 12 + u + 1 + l BY <2>7
  <2> QED BY <2>3, <2>4, <2>8 DEF u, v, l
<1>10. Octet(m, b[Len(b) - 1]) = 0 /\ Last(b) = b[Len(b) - 1] + 1
  <2>1. Len(b) - 1 = Len(s) /\ Len(s) \in 1..Len(s) + 1 /\ Len(s) # Len(s) + 1 BY <1>t, <1>4
  <2>2. b[Len(s)] = 12 + last BY <1>t, <1>b, <2>1
  <2>3. last \in 0..last BY <1>t
  <2> QED BY <1>t, <1>5, <1>8, <1>w, <2>1, <2>2, <2>3
<1>11. IsName(m, b)
  <2>1. Len(b) > 1 /\ Len(b) - 2 = Len(s) - 1 BY <1>t, <1>4
  <2> QED BY <1>9, <1>10, <2>1 DEF IsName
<1> QED BY <1>t, <1>5, <1>7, <1>11, <1>q, <1>m DEF s, last, b, q, m

-----------------------------------------------------------------------------
(***************************************************************************)
(* One lemma per step of the parser, on an honest response.                *)
(***************************************************************************)
LEMMA HonestStays == ASSUME Honest, UNCHANGED <<name, message, said>> PROVE Honest'
  BY DEF Honest

\* A failure takes nothing from the response: it was cut.
LEMMA HonestFail ==
  ASSUME Honest, Fail, message # said.full
  PROVE  Honest' /\ OnTrack' /\ EchExact'
<1>1. /\ pc' = "done" /\ result'.is = "error" /\ UNCHANGED <<name, message, said>>
  BY DEF Fail, Finish, Error, Pending
<1>2. OnTrack' BY <1>1 DEF OnTrack
<1>3. EchExact' BY <1>1 DEF EchExact
<1> QED BY <1>1, <1>2, <1>3, HonestStays

\* The record being read: where its parts are in the response.
LEMMA AnswerFacts ==
  ASSUME Honest, ParserTyped, InAnswer
  PROVE  /\ AnswerNo \in 1..Len(said.answers) /\ Len(said.answers) \in Nat
         /\ Bounds(Answer.owner, RecordFrom(said.full, Len(build_https_query(name)), said.answers, AnswerNo))
         /\ IsName(said.full, Answer.owner)
         /\ Fixed(Answer) \in Nat /\ RdataEnd(said.full, Answer) \in Nat
         /\ Fixed(Answer) = Last(Answer.owner)
         /\ Fixed(Answer) + 10 <= RdataEnd(said.full, Answer)
         /\ RdataEnd(said.full, Answer) <= Len(said.full)
         /\ IsHttps(said.full, Answer) => IsSvcb(said.full, Answer)
<1> DEFINE m == said.full
           a == Answer
           from == RecordFrom(m, Len(build_https_query(name)), said.answers, AnswerNo)
<1>1. AnswerNo \in 1..Len(said.answers) /\ Len(said.answers) \in Nat
  <2>1. left.answers \in Nat /\ left.answers < Len(said.answers) BY DEF ParserTyped, InAnswer
  <2> QED BY <2>1, HonestTyped DEF AnswerNo
<1>2. IsRecord(m, a, from)
  BY <1>1, HonestTyped DEF Honest, IsResponse, Answer
<1>3. /\ Bounds(a.owner, from) /\ IsName(m, a.owner) /\ RdataEnd(m, a) <= Len(m)
      /\ IsHttps(m, a) => IsSvcb(m, a)
  BY <1>2 DEF IsRecord
<1>4. Fixed(a) \in Nat /\ Fixed(a) = Last(a.owner) BY <1>3, BoundsTyped DEF Fixed
<1>5. Word(m, Fixed(a) + 8) \in Nat
  <2>1. Fixed(a) + 8 \in Nat BY <1>4
  <2> QED BY <2>1, HonestTyped, OctetTyped
<1>6. RdataEnd(m, a) = Fixed(a) + 10 + Word(m, Fixed(a) + 8) BY DEF RdataEnd
<1> HIDE DEF m, a, from
<1>7. RdataEnd(m, a) \in Nat /\ Fixed(a) + 10 <= RdataEnd(m, a) BY <1>4, <1>5, <1>6
<1> QED BY <1>1, <1>3, <1>4, <1>7 DEF m, a, from

\* skip_name_inner on a name of the response: it fails only where the response was
\* cut, and else goes from one label to the next and from the last one to the end.
LEMMA SkipNameOn ==
  ASSUME ParserTyped, Honest, SkipLabel, NEW b, NEW from, Bounds(b, from), IsName(said.full, b),
         AtName(b), Last(b) <= Len(said.full), pc = "target_name" => Last(b) <= rr.end
  PROVE  \/ Fail /\ message # said.full
         \/ /\ offset' = Last(b) /\ pc' = After[pc]
            /\ UNCHANGED <<name, message, said, left, rr, result>>
         \/ /\ \E j \in 1..Len(b) - 1 : pos' = b[j]
            /\ UNCHANGED <<pc, name, message, said, left, rr, result>>
<1> DEFINE m == said.full
           o == Octet(m, pos)
           last == Last(b)
<1>1. PICK j \in 1..Len(b) - 1 : pos = b[j] BY DEF AtName
<1>2. /\ Len(b) \in Nat /\ last \in Nat /\ last = b[Len(b)]
      /\ \A i \in 1..Len(b) : b[i] \in Nat /\ b[i] <= last
  BY BoundsTyped DEF Last
<1>3. j \in 1..Len(b) /\ j + 1 \in 1..Len(b) /\ (j \in 1..Len(b) - 2 \/ j = Len(b) - 1) BY <1>2
<1>4. pos \in Nat /\ Len(message) \in Nat /\ rr.end \in Nat /\ o \in Nat
  BY MessageLen, HonestTyped, OctetTyped DEF ParserTyped
<1>5. \/ o \in 1..63 /\ b[j + 1] = pos + 1 + o /\ j + 1 \in 1..Len(b) - 1
      \/ o = 0 /\ last = pos + 1
      \/ o >= 192 /\ last = pos + 2
  <2>1. CASE j \in 1..Len(b) - 2
    <3>1. o \in 1..63 /\ b[j + 1] = pos + 1 + o BY <1>1, <2>1 DEF IsName
    <3>2. j + 1 \in 1..Len(b) - 1 BY <1>2, <2>1
    <3> QED BY <3>1, <3>2
  <2>2. CASE j = Len(b) - 1 BY <1>1, <2>2 DEF IsName
  <2> QED BY <1>3, <2>1, <2>2
<1>6. pos < last
  <2>1. CASE o \in 1..63 /\ b[j + 1] = pos + 1 + o /\ j + 1 \in 1..Len(b) - 1
    <3>1. b[j + 1] <= last /\ b[j + 1] \in Nat BY <1>2, <1>3
    <3> QED BY <1>2, <1>4, <2>1, <3>1
  <2>2. CASE o = 0 /\ last = pos + 1 BY <1>4, <2>2
  <2>3. CASE o >= 192 /\ last = pos + 2 BY <1>4, <2>3
  <2> QED BY <1>5, <2>1, <2>2, <2>3
<1>7. /\ Limit \in Nat /\ Limit <= Len(message) /\ (message = m => last <= Limit)
  <2>1. last <= Len(m) /\ (pc = "target_name" => last <= rr.end) OBVIOUS
  <2> HIDE DEF m, last
  <2> QED BY <1>2, <1>4, <2>1 DEF Limit
<1>8. pos < Limit => Byte(pos) = o BY <1>4, <1>7, SameByte
<1>p. pc \in DOMAIN After BY DEF SkipLabel
<1>s. IF pos >= Limit \/ Byte(pos) \in 64..191 \/ (Byte(pos) >= 192 /\ pos + 1 >= Limit)
      THEN Fail
      ELSE CASE Byte(pos) >= 192 -> NameEnds(pos + 2, pos + 1)
             [] Byte(pos) = 0    -> NameEnds(pos + 1, pos + 1)
             [] OTHER            -> /\ pos' = pos + 1 + Byte(pos) /\ Reads(pos + 1)
                                    /\ UNCHANGED <<pc, name, message, said, left, offset, rr, result>>
  BY DEF SkipLabel
<1> HIDE DEF m, o, last
<1>9. CASE pos >= Limit \/ Byte(pos) \in 64..191 \/ (Byte(pos) >= 192 /\ pos + 1 >= Limit)
  <2>1. Fail BY <1>s, <1>9
  <2>2. ASSUME message = m PROVE FALSE
    <3>1. last <= Limit /\ pos < Limit BY <1>2, <1>4, <1>6, <1>7, <2>2
    <3>2. Byte(pos) = o BY <1>8, <3>1
    <3> QED BY <1>2, <1>4, <1>5, <1>7, <1>9, <3>1, <3>2
  <2> QED BY <2>1, <2>2 DEF m
<1>10. CASE ~(pos >= Limit \/ Byte(pos) \in 64..191 \/ (Byte(pos) >= 192 /\ pos + 1 >= Limit))
  <2>1. Byte(pos) = o BY <1>4, <1>7, <1>8, <1>10
  <2>2. CASE o >= 192 /\ last = pos + 2
    <3>1. NameEnds(pos + 2, pos + 1) BY <1>s, <1>4, <1>10, <2>1, <2>2
    <3> QED BY <2>2, <3>1 DEF NameEnds, last
  <2>3. CASE o = 0 /\ last = pos + 1
    <3>1. NameEnds(pos + 1, pos + 1) BY <1>s, <1>4, <1>10, <2>1, <2>3
    <3> QED BY <2>3, <3>1 DEF NameEnds, last
  <2>4. CASE o \in 1..63 /\ b[j + 1] = pos + 1 + o /\ j + 1 \in 1..Len(b) - 1
    <3>0. ~(Byte(pos) >= 192) /\ Byte(pos) # 0 BY <2>1, <2>4
    <3>1. /\ pos' = pos + 1 + o /\ UNCHANGED <<pc, name, message, said, left, offset, rr, result>>
      <4>2. /\ pos' = pos + 1 + Byte(pos)
            /\ UNCHANGED <<pc, name, message, said, left, offset, rr, result>>
        BY <1>s, <1>10, <3>0
      <4> QED BY <2>1, <4>2
    <3>2. pos' = b[j + 1] BY <2>4, <3>1
    <3>3. \E i \in 1..Len(b) - 1 : pos' = b[i] BY <2>4, <3>2
    <3> QED BY <3>1, <3>3
  <2> QED BY <1>5, <2>2, <2>3, <2>4
<1> QED BY <1>9, <1>10

LEMMA HonestQuery ==
  ASSUME Honest, Query
  PROVE  Honest' /\ OnTrack' /\ EchExact'
<1>1. pc' = "header" /\ UNCHANGED <<name, message, said>> BY DEF Query, Honest
<1>2. OnTrack' /\ EchExact' BY <1>1 DEF OnTrack, EchExact
<1> QED BY <1>1, <1>2, HonestStays

LEMMA HonestHeader ==
  ASSUME ParserTyped, Honest, ParseHeader
  PROVE  Honest' /\ OnTrack' /\ EchExact'
<1>1. /\ Octet(said.full, 2) >= 128 /\ Octet(said.full, 3) % 16 = 0
      /\ Word(said.full, 4) = 1 /\ Word(said.full, 6) = Len(said.answers)
      /\ Len(said.full) >= Last(name.starts) + 17 /\ Last(name.starts) \in Nat
  BY QuestionName DEF Honest, IsResponse
<1>2. Len(message) \in Nat /\ Len(said.full) \in Nat BY MessageLen, HonestTyped
<1>3. CASE Len(message) >= 12
  <2>1. Byte(2) = Octet(said.full, 2) /\ Byte(3) = Octet(said.full, 3)
    BY <1>2, <1>3, SameByte
  <2>2. U16(4) = 1 /\ U16(6) = Len(said.answers)
    <3>1. 4 + 1 < Len(message) /\ 6 + 1 < Len(message) BY <1>2, <1>3
    <3>2. U16(4) = Word(said.full, 4) /\ U16(6) = Word(said.full, 6) BY <3>1, SameByte
    <3> QED BY <1>1, <3>2
  <2>3. Byte(2) \in Nat /\ Octet(said.full, 2) \in Nat BY HonestTyped, OctetTyped, ByteTyped
  <2>4. ~(Len(message) < 12 \/ Byte(2) < 128 \/ Byte(3) % 16 # 0)
    BY <1>1, <1>2, <1>3, <2>1, <2>3
  <2>5. /\ left' = [questions |-> 1, answers |-> Len(said.answers)]
        /\ offset' = 12 /\ pc' = "next" /\ UNCHANGED <<name, message, said>>
    BY <2>2, <2>4 DEF ParseHeader
  <2>6. OnTrack' BY <2>5 DEF OnTrack
  <2>7. EchExact' BY <2>5 DEF EchExact
  <2> QED BY <2>5, <2>6, <2>7, HonestStays
<1>4. CASE Len(message) < 12
  <2>1. Fail BY <1>4 DEF ParseHeader
  <2>2. message # said.full BY <1>1, <1>2, <1>4
  <2> QED BY <2>1, <2>2, HonestFail
<1> QED BY <1>2, <1>3, <1>4

LEMMA HonestNext ==
  ASSUME ParserTyped, Honest, OnTrack, NextRecord
  PROVE  Honest' /\ OnTrack' /\ EchExact'
<1> DEFINE n == Len(said.answers)
           q == Len(build_https_query(name))
<1>t. /\ n \in Nat /\ left \in [questions : Nat, answers : Nat]
      /\ DOMAIN said.answers = 1..n
  BY HonestTyped DEF ParserTyped
<1>1. \/ left = [questions |-> 1, answers |-> n] /\ offset = 12
      \/ /\ left.questions = 0 /\ left.answers <= n /\ NoEch(AnswerNo)
         /\ offset = RecordFrom(said.full, q, said.answers, AnswerNo + 1)
  BY DEF NextRecord, OnTrack
<1>2. CASE left = [questions |-> 1, answers |-> n] /\ offset = 12
  <2>1. left # [questions |-> 0, answers |-> 0] /\ left.questions > 0 BY <1>2
  <2>2. /\ pc' = "question_name" /\ left' = [left EXCEPT !.questions = @ - 1] /\ pos' = offset
        /\ UNCHANGED <<name, message, said>>
    BY <2>1 DEF NextRecord
  <2>3. left' = [questions |-> 0, answers |-> Len(said'.answers)] BY <1>2, <2>2
  <2>4. AtName(QuestionBounds(name.starts))'
    <3>1. PICK b : b = QuestionBounds(name.starts) OBVIOUS
    <3>2. Bounds(b, 12) /\ IsName(said.full, b) BY <3>1, QuestionName
    <3>3. b[1] = 12 /\ 1 \in 1..Len(b) - 1 BY <3>2, BoundsTyped DEF Bounds, IsName
    <3>4. b = QuestionBounds(name.starts)' BY <2>2, <3>1
    <3>5. \E j \in 1..Len(b) - 1 : pos' = b[j] BY <1>2, <2>2, <3>3
    <3> QED BY <3>4, <3>5 DEF AtName
  <2>5. OnTrack' BY <2>2, <2>3, <2>4 DEF OnTrack, InQuestion
  <2>6. EchExact' BY <2>2 DEF EchExact
  <2> QED BY <2>2, <2>5, <2>6, HonestStays
<1>3. CASE /\ left.questions = 0 /\ left.answers <= n /\ NoEch(AnswerNo)
           /\ offset = RecordFrom(said.full, q, said.answers, AnswerNo + 1)
  <2>1. CASE left.answers = 0
    <3>1. left = [questions |-> 0, answers |-> 0] BY <1>t, <1>3, <2>1
    <3>2. Fail BY <3>1 DEF NextRecord
    <3>3. /\ pc' = "done" /\ result'.is = "error" /\ UNCHANGED <<name, message, said>>
      BY <3>2 DEF Fail, Finish, Error, Pending
    <3>4. \A i \in DOMAIN said.answers : ~CarriesEch(said.full, said.answers[i])
      <4>1. AnswerNo = n BY <1>t, <2>1 DEF AnswerNo
      <4> QED BY <1>t, <1>3, <4>1 DEF NoEch
    <3>5. EchExact' BY <3>3, <3>4 DEF EchExact
    <3>6. OnTrack' BY <3>3 DEF OnTrack
    <3> QED BY <3>3, <3>5, <3>6, HonestStays
  <2>2. CASE left.answers # 0
    <3>1. left # [questions |-> 0, answers |-> 0] /\ ~(left.questions > 0) BY <1>t, <1>3, <2>2
    <3>2. /\ pc' = "answer_name" /\ left' = [left EXCEPT !.answers = @ - 1] /\ pos' = offset
          /\ UNCHANGED <<name, message, said>>
      BY <3>1 DEF NextRecord
    <3>3. left'.questions = 0 /\ left'.answers = left.answers - 1 BY <1>t, <1>3, <3>2
    <3>4. PICK k \in Nat : k = AnswerNo /\ k < n
      <4>1. left.answers \in Nat /\ left.answers <= n BY <1>t, <1>3
      <4> QED BY <1>t, <2>2, <4>1 DEF AnswerNo
    <3>5. AnswerNo' = k + 1
      <4>1. left.answers \in Nat /\ k = n - left.answers BY <1>t, <3>4 DEF AnswerNo
      <4>2. AnswerNo' = n - (left.answers - 1) BY <3>2, <3>3 DEF AnswerNo
      <4> QED BY <1>t, <4>1, <4>2
    <3>6. InAnswer'
      <4>1. left'.answers < n BY <1>t, <1>3, <3>3
      <4>2. \A h \in 1..k : ~CarriesEch(said.full, said.answers[h]) BY <1>3, <3>4 DEF NoEch
      <4>3. (k + 1) - 1 = k BY <3>4
      <4> QED BY <3>2, <3>3, <3>5, <4>1, <4>2, <4>3 DEF InAnswer, NoEch
    <3>7. AtName(Answer.owner)'
      <4>1. PICK b : b = said.answers[k + 1].owner OBVIOUS
      <4>2. k + 1 \in DOMAIN said.answers BY <1>t, <3>4
      <4>3. Bounds(b, offset) /\ IsName(said.full, b)
        BY <1>3, <3>4, <4>1, <4>2 DEF Honest, IsResponse, IsRecord
      <4>4. b[1] = offset /\ 1 \in 1..Len(b) - 1 BY <4>3, BoundsTyped DEF Bounds, IsName
      <4>5. \E j \in 1..Len(b) - 1 : pos' = b[j] BY <3>2, <4>4
      <4>6. Answer.owner' = b BY <3>2, <3>5, <4>1 DEF Answer
      <4> QED BY <4>5, <4>6 DEF AtName
    <3>8. OnTrack' BY <3>2, <3>6, <3>7 DEF OnTrack
    <3>9. EchExact' BY <3>2 DEF EchExact
    <3> QED BY <3>2, <3>8, <3>9, HonestStays
  <2> QED BY <2>1, <2>2
<1> QED BY <1>1, <1>2, <1>3

LEMMA HonestQuestionTail ==
  ASSUME ParserTyped, Honest, OnTrack, QuestionTail
  PROVE  Honest' /\ OnTrack' /\ EchExact'
<1> DEFINE q == Len(build_https_query(name))
           last == Last(name.starts)
<1>1. /\ left = [questions |-> 0, answers |-> Len(said.answers)] /\ offset = 13 + last
  BY DEF QuestionTail, OnTrack, InQuestion
<1>2. q = last + 17 /\ last \in Nat /\ Len(said.full) >= q
  BY QuestionName DEF Honest, IsResponse
<1>3. Len(said.answers) \in Nat /\ Len(message) \in Nat BY HonestTyped, MessageLen
<1>4. CASE offset + 4 > Len(message)
  <2>1. Fail BY <1>4 DEF QuestionTail
  <2>2. message # said.full BY <1>1, <1>2, <1>3, <1>4
  <2> QED BY <2>1, <2>2, HonestFail
<1>5. CASE ~(offset + 4 > Len(message))
  <2>1. offset' = offset + 4 /\ pc' = "next" /\ UNCHANGED <<name, message, said, left>>
    BY <1>5 DEF QuestionTail
  <2>2. offset' = q BY <1>1, <1>2, <2>1
  <2>3. left.questions = 0 /\ left.answers = Len(said.answers) BY <1>1
  <2>4. AnswerNo' = 0 BY <1>3, <2>1, <2>3 DEF AnswerNo
  <2>5. NoEch(AnswerNo)' BY <2>4 DEF NoEch
  <2>6. 0 + 1 = 1 OBVIOUS
  <2>7. RecordFrom(said.full, q, said.answers, AnswerNo + 1)' = q BY <2>1, <2>4, <2>6 DEF RecordFrom
  <2>8. left'.questions = 0 /\ left'.answers <= Len(said'.answers) BY <1>3, <2>1, <2>3
  <2>9. OnTrack' BY <2>1, <2>2, <2>5, <2>7, <2>8 DEF OnTrack
  <2>10. EchExact' BY <2>1 DEF EchExact
  <2> QED BY <2>1, <2>9, <2>10, HonestStays
<1> QED BY <1>4, <1>5

\* An HTTPS record that is being read: where its target and its parameters are.
LEMMA SvcbFacts ==
  ASSUME Honest, ParserTyped, InAnswer, IsHttps(said.full, Answer)
  PROVE  /\ Bounds(Answer.target, Fixed(Answer) + 12) /\ IsName(said.full, Answer.target)
         /\ Bounds(Answer.params, Last(Answer.target)) /\ IsParams(said.full, Answer.params)
         /\ Last(Answer.params) = RdataEnd(said.full, Answer)
         /\ Last(Answer.target) <= RdataEnd(said.full, Answer)
         /\ Fixed(Answer) + 12 <= RdataEnd(said.full, Answer)
<1>1. /\ Bounds(Answer.target, Fixed(Answer) + 12) /\ IsName(said.full, Answer.target)
      /\ Bounds(Answer.params, Last(Answer.target)) /\ IsParams(said.full, Answer.params)
      /\ Last(Answer.params) = RdataEnd(said.full, Answer)
  BY AnswerFacts DEF IsSvcb
<1>2. Last(Answer.target) \in Nat /\ Fixed(Answer) + 12 <= Last(Answer.target) BY <1>1, BoundsTyped
<1>3. Last(Answer.target) <= Last(Answer.params) /\ Last(Answer.params) \in Nat BY <1>1, BoundsTyped
<1>4. Fixed(Answer) \in Nat BY AnswerFacts
<1> DEFINE f == Fixed(Answer)
           t == Last(Answer.target)
           e == RdataEnd(said.full, Answer)
<1>5. f \in Nat /\ t \in Nat /\ e \in Nat /\ f + 12 <= t /\ t <= e BY <1>1, <1>2, <1>3, <1>4
<1> HIDE DEF f, t, e
<1>6. f + 12 <= e BY <1>5
<1> QED BY <1>1, <1>5, <1>6 DEF f, t, e

LEMMA AnswerStays ==
  ASSUME UNCHANGED <<said, left>>
  PROVE  /\ InAnswer => InAnswer' /\ Answer' = Answer /\ AnswerNo' = AnswerNo
         /\ InHttps /\ UNCHANGED rr => InHttps'
         /\ InQuestion => InQuestion'
  BY DEF InAnswer, InHttps, InQuestion, Answer, AnswerNo, NoEch

LEMMA HonestSkipLabel ==
  ASSUME ParserInv, Honest, OnTrack, SkipLabel
  PROVE  Honest' /\ OnTrack' /\ EchExact'
<1>t. ParserTyped BY DEF ParserInv
<1>p. pc \in {"question_name", "answer_name", "target_name"} BY DEF SkipLabel, After
<1>1. CASE pc = "question_name"
  <2>1. InQuestion /\ AtName(QuestionBounds(name.starts)) BY <1>1 DEF OnTrack
  <2>2. PICK b : b = QuestionBounds(name.starts) OBVIOUS
  <2>3. Bounds(b, 12) /\ IsName(said.full, b) /\ AtName(b) /\ Last(b) = 13 + Last(name.starts)
    BY <2>1, <2>2, QuestionName
  <2>4. Last(b) <= Len(said.full)
    <3>1. Len(said.full) >= Last(name.starts) + 17 /\ Last(name.starts) \in Nat
      BY QuestionName DEF Honest, IsResponse
    <3> QED BY <2>3, <3>1, HonestTyped
  <2>5. \/ Fail /\ message # said.full
        \/ /\ offset' = Last(b) /\ pc' = After[pc] /\ UNCHANGED <<name, message, said, left, rr, result>>
        \/ /\ \E j \in 1..Len(b) - 1 : pos' = b[j]
           /\ UNCHANGED <<pc, name, message, said, left, rr, result>>
    BY <1>t, <1>1, <2>3, <2>4, SkipNameOn
  <2>6. CASE Fail /\ message # said.full BY <2>6, HonestFail
  <2>7. CASE /\ offset' = Last(b) /\ pc' = After[pc] /\ UNCHANGED <<name, message, said, left, rr, result>>
    <3>1. pc' = "question" BY <1>1, <2>7 DEF After
    <3>2. InQuestion' BY <2>1, <2>7, AnswerStays
    <3>3. offset' = 13 + Last(name'.starts) BY <2>3, <2>7
    <3>4. OnTrack' BY <3>1, <3>2, <3>3 DEF OnTrack
    <3>5. EchExact' BY <3>1 DEF EchExact
    <3> QED BY <2>7, <3>4, <3>5, HonestStays
  <2>8. CASE /\ \E j \in 1..Len(b) - 1 : pos' = b[j]
             /\ UNCHANGED <<pc, name, message, said, left, rr, result>>
    <3>1. b = QuestionBounds(name.starts)' BY <2>2, <2>8
    <3>2. AtName(QuestionBounds(name.starts))' BY <2>8, <3>1 DEF AtName
    <3>3. InQuestion' BY <2>1, <2>8, AnswerStays
    <3>4. pc' = "question_name" BY <1>1, <2>8
    <3>5. OnTrack' BY <3>2, <3>3, <3>4 DEF OnTrack
    <3>6. EchExact' BY <3>4 DEF EchExact
    <3> QED BY <2>8, <3>5, <3>6, HonestStays
  <2> QED BY <2>5, <2>6, <2>7, <2>8
<1>2. CASE pc = "answer_name"
  <2>1. InAnswer /\ AtName(Answer.owner) BY <1>2 DEF OnTrack
  <2>2. PICK b, from : b = Answer.owner /\ from = RecordFrom(said.full, Len(build_https_query(name)), said.answers, AnswerNo)
    OBVIOUS
  <2>3. Bounds(b, from) /\ IsName(said.full, b) /\ AtName(b) /\ Last(b) = Fixed(Answer)
    BY <1>t, <2>1, <2>2, AnswerFacts
  <2>4. Last(b) <= Len(said.full)
    <3>1. /\ Fixed(Answer) \in Nat /\ RdataEnd(said.full, Answer) \in Nat
          /\ Fixed(Answer) + 10 <= RdataEnd(said.full, Answer)
          /\ RdataEnd(said.full, Answer) <= Len(said.full)
      BY <1>t, <2>1, AnswerFacts
    <3> QED BY <2>3, <3>1, HonestTyped
  <2>5. \/ Fail /\ message # said.full
        \/ /\ offset' = Last(b) /\ pc' = After[pc] /\ UNCHANGED <<name, message, said, left, rr, result>>
        \/ /\ \E j \in 1..Len(b) - 1 : pos' = b[j]
           /\ UNCHANGED <<pc, name, message, said, left, rr, result>>
    BY <1>t, <1>2, <2>3, <2>4, SkipNameOn
  <2>6. CASE Fail /\ message # said.full BY <2>6, HonestFail
  <2>7. CASE /\ offset' = Last(b) /\ pc' = After[pc] /\ UNCHANGED <<name, message, said, left, rr, result>>
    <3>1. pc' = "answer" BY <1>2, <2>7 DEF After
    <3>2. InAnswer' /\ Answer' = Answer BY <2>1, <2>7, AnswerStays
    <3>3. offset' = Fixed(Answer)' BY <2>3, <2>7, <3>2 DEF Fixed
    <3>4. OnTrack' BY <3>1, <3>2, <3>3 DEF OnTrack
    <3>5. EchExact' BY <3>1 DEF EchExact
    <3> QED BY <2>7, <3>4, <3>5, HonestStays
  <2>8. CASE /\ \E j \in 1..Len(b) - 1 : pos' = b[j]
             /\ UNCHANGED <<pc, name, message, said, left, rr, result>>
    <3>1. InAnswer' /\ Answer' = Answer BY <2>1, <2>8, AnswerStays
    <3>2. Answer.owner' = b BY <2>2, <3>1
    <3>3. AtName(Answer.owner)' BY <2>8, <3>2 DEF AtName
    <3>4. pc' = "answer_name" BY <1>2, <2>8
    <3>5. OnTrack' BY <3>1, <3>3, <3>4 DEF OnTrack
    <3>6. EchExact' BY <3>4 DEF EchExact
    <3> QED BY <2>8, <3>5, <3>6, HonestStays
  <2> QED BY <2>5, <2>6, <2>7, <2>8
<1>3. CASE pc = "target_name"
  <2>1. InHttps /\ AtName(Answer.target) BY <1>3 DEF OnTrack
  <2>2. PICK b, from : b = Answer.target /\ from = Fixed(Answer) + 12 OBVIOUS
  <2>3. /\ InAnswer /\ IsHttps(said.full, Answer) /\ rr.end = RdataEnd(said.full, Answer)
    BY <2>1 DEF InHttps
  <2>4. /\ Bounds(b, from) /\ IsName(said.full, b) /\ AtName(b)
        /\ Last(b) <= rr.end /\ rr.end <= Len(said.full)
    BY <1>t, <2>1, <2>2, <2>3, SvcbFacts, AnswerFacts
  <2>5. Last(b) <= Len(said.full)
    <3>1. Last(b) \in Nat BY <2>4, BoundsTyped
    <3> QED BY <1>t, <2>4, <3>1, HonestTyped DEF ParserTyped
  <2>6. \/ Fail /\ message # said.full
        \/ /\ offset' = Last(b) /\ pc' = After[pc] /\ UNCHANGED <<name, message, said, left, rr, result>>
        \/ /\ \E j \in 1..Len(b) - 1 : pos' = b[j]
           /\ UNCHANGED <<pc, name, message, said, left, rr, result>>
    BY <1>t, <2>4, <2>5, SkipNameOn
  <2>7. CASE Fail /\ message # said.full BY <2>7, HonestFail
  <2>8. CASE /\ offset' = Last(b) /\ pc' = After[pc] /\ UNCHANGED <<name, message, said, left, rr, result>>
    <3>1. pc' = "param" BY <1>3, <2>8 DEF After
    <3>2. InHttps' /\ Answer' = Answer BY <2>1, <2>3, <2>8, AnswerStays
    <3>3. Bounds(Answer.params, Last(b)) BY <1>t, <2>2, <2>3, SvcbFacts
    <3>4. 1 \in DOMAIN Answer.params /\ Answer.params[1] = Last(b) BY <3>3, BoundsTyped DEF Bounds
    <3>5. /\ offset' = Answer.params[1] /\ 1 \in DOMAIN Answer.params
          /\ \A i \in 1..1 - 1 : Word(said.full, Answer.params[i]) # 5
      BY <2>8, <3>4
    <3>6. \E j \in DOMAIN Answer'.params :
            offset' = Answer'.params[j] /\ \A i \in 1..j - 1 : Word(said'.full, Answer'.params[i]) # 5
      BY <2>8, <3>2, <3>5
    <3>7. OnTrack' BY <3>1, <3>2, <3>6 DEF OnTrack
    <3>8. EchExact' BY <3>1 DEF EchExact
    <3> QED BY <2>8, <3>7, <3>8, HonestStays
  <2>9. CASE /\ \E j \in 1..Len(b) - 1 : pos' = b[j]
             /\ UNCHANGED <<pc, name, message, said, left, rr, result>>
    <3>1. InHttps' /\ Answer' = Answer BY <2>1, <2>3, <2>9, AnswerStays
    <3>2. Answer.target' = b BY <2>2, <3>1
    <3>3. AtName(Answer.target)' BY <2>9, <3>2 DEF AtName
    <3>4. pc' = "target_name" BY <1>3, <2>9
    <3>5. OnTrack' BY <3>1, <3>3, <3>4 DEF OnTrack
    <3>6. EchExact' BY <3>4 DEF EchExact
    <3> QED BY <2>9, <3>5, <3>6, HonestStays
  <2> QED BY <2>6, <2>7, <2>8, <2>9
<1> QED BY <1>p, <1>1, <1>2, <1>3

\* A record that is left behind without ech: the next one begins at its end.
LEMMA NextAnswer ==
  ASSUME Honest, ParserTyped, InAnswer, ~CarriesEch(said.full, Answer),
         pc' = "next", offset' = RdataEnd(said.full, Answer),
         UNCHANGED <<name, message, said, left>>
  PROVE  Honest' /\ OnTrack' /\ EchExact'
<1> DEFINE n == Len(said.answers)
<1>1. PICK k : k = AnswerNo OBVIOUS
<1>2. k \in 1..n /\ n \in Nat BY <1>1, AnswerFacts
<1>3. AnswerNo' = k BY <1>1, AnswerStays
<1>4. \A h \in 1..k : ~CarriesEch(said.full, said.answers[h])
  <2>1. \A h \in 1..k - 1 : ~CarriesEch(said.full, said.answers[h]) BY <1>1 DEF InAnswer, NoEch
  <2>2. ~CarriesEch(said.full, said.answers[k]) BY <1>1 DEF Answer
  <2> SUFFICES ASSUME NEW h \in 1..k PROVE ~CarriesEch(said.full, said.answers[h]) OBVIOUS
  <2>3. CASE h = k BY <2>2, <2>3
  <2>4. CASE h # k
    <3>1. h \in 1..k - 1 BY <1>2, <2>4
    <3> QED BY <2>1, <3>1
  <2> QED BY <2>3, <2>4
<1>5. NoEch(AnswerNo)' BY <1>3, <1>4 DEF NoEch
<1>6. k + 1 # 1 /\ (k + 1) - 1 = k BY <1>2
<1>7. RecordFrom(said.full, Len(build_https_query(name)), said.answers, AnswerNo + 1)'
        = RdataEnd(said.full, said.answers[k])
  BY <1>3, <1>6 DEF RecordFrom
<1>8. offset' = RdataEnd(said.full, said.answers[k]) BY <1>1 DEF Answer
<1>9. left'.questions = 0 /\ left'.answers <= Len(said'.answers)
  <2>1. left.answers \in Nat /\ left.answers < n /\ left.questions = 0 BY DEF ParserTyped, InAnswer
  <2> QED BY <1>2, <2>1
<1>10. OnTrack' BY <1>5, <1>7, <1>8, <1>9 DEF OnTrack
<1>11. EchExact' BY DEF EchExact
<1> QED BY <1>10, <1>11, HonestStays

LEMMA HonestAnswerHead ==
  ASSUME ParserTyped, Honest, OnTrack, AnswerHead
  PROVE  Honest' /\ OnTrack' /\ EchExact'
<1> DEFINE m == said.full
           f == Fixed(Answer)
           e == RdataEnd(m, Answer)
           end == offset + 10 + U16(offset + 8)
           short == offset + 10 > Len(message) \/ ~Fits(end) \/ (U16(offset) = 65 /\ offset + 12 > Len(message))
<1>1. InAnswer /\ offset = f BY DEF AnswerHead, OnTrack
<1>2. f \in Nat /\ e \in Nat /\ f + 10 <= e /\ e <= Len(m) /\ Len(message) \in Nat /\ Len(m) \in Nat
  BY <1>1, AnswerFacts, MessageLen, HonestTyped
<1>3. ASSUME offset + 10 <= Len(message)
      PROVE  /\ end = e /\ (U16(offset) = 65 <=> IsHttps(m, Answer))
             /\ <<U16(offset + 4), U16(offset + 6)>> = Ttl(m, Answer)
  <2>1. /\ f + 1 < Len(message) /\ f + 4 \in Nat /\ (f + 4) + 1 < Len(message)
        /\ f + 6 \in Nat /\ (f + 6) + 1 < Len(message) /\ f + 8 \in Nat /\ (f + 8) + 1 < Len(message)
    BY <1>1, <1>2, <1>3
  <2>2. /\ U16(f) = Word(m, f) /\ U16(f + 4) = Word(m, f + 4) /\ U16(f + 6) = Word(m, f + 6)
        /\ U16(f + 8) = Word(m, f + 8)
    BY <1>2, <2>1, SameByte
  <2> QED BY <1>1, <2>2 DEF RdataEnd, IsHttps, Ttl
<1>a. pc = "answer" /\ (short => Fail)
      /\ (~short => /\ rr' = [ttl |-> <<U16(offset + 4), U16(offset + 6)>>, end |-> end]
                    /\ IF U16(offset) = 65
                       THEN pc' = "target_name" /\ pos' = offset + 12 /\ offset' = offset + 12
                       ELSE pc' = "next" /\ pos' = pos /\ offset' = end
                    /\ UNCHANGED <<name, message, said, left>>)
  BY DEF AnswerHead
<1>4. CASE short
  <2>1. ASSUME message = m PROVE FALSE
    <3>1. offset + 10 <= Len(message)
      <4> HIDE DEF m, f, e
      <4> QED BY <1>1, <1>2, <2>1
    <3>2. end = e /\ (U16(offset) = 65 <=> IsHttps(m, Answer)) BY <1>3, <3>1
    <3>3. IsHttps(m, Answer) => f + 12 <= e BY <1>1, SvcbFacts
    <3>4. Fits(end) BY <1>2, <2>1, <3>2 DEF Fits
    <3> HIDE DEF m, f, e, end
    <3>5. IsHttps(m, Answer) => ~(offset + 12 > Len(message)) BY <1>1, <1>2, <2>1, <3>3
    <3> QED BY <1>1, <1>2, <1>4, <3>1, <3>2, <3>4, <3>5
  <2> QED BY <1>a, <1>4, <2>1, HonestFail
<1>5. CASE ~short
  <2>1. offset + 10 <= Len(message) BY <1>1, <1>2, <1>5
  <2>2. /\ end = e /\ (U16(offset) = 65 <=> IsHttps(m, Answer))
        /\ <<U16(offset + 4), U16(offset + 6)>> = Ttl(m, Answer)
    BY <1>3, <2>1
  <2>3. /\ rr' = [ttl |-> Ttl(m, Answer), end |-> e] /\ UNCHANGED <<name, message, said, left>>
    BY <1>a, <1>5, <2>2
  <2>4. InAnswer' /\ Answer' = Answer BY <1>1, <2>3, AnswerStays
  <2>5. CASE IsHttps(m, Answer)
    <3>1. pc' = "target_name" /\ pos' = f + 12 BY <1>a, <1>1, <1>5, <2>2, <2>5
    <3>2. Bounds(Answer.target, f + 12) /\ IsName(m, Answer.target) BY <1>1, <2>5, SvcbFacts
    <3>3. Answer.target[1] = f + 12 /\ 1 \in 1..Len(Answer.target) - 1
      BY <3>2, BoundsTyped DEF Bounds, IsName
    <3>4. \E j \in 1..Len(Answer'.target) - 1 : pos' = Answer'.target[j] BY <2>4, <3>1, <3>3
    <3>5. InHttps' BY <2>3, <2>4, <2>5 DEF InHttps
    <3>6. OnTrack' BY <3>1, <3>4, <3>5 DEF OnTrack, AtName
    <3>7. EchExact' BY <3>1 DEF EchExact
    <3> QED BY <2>3, <3>6, <3>7, HonestStays
  <2>6. CASE ~IsHttps(m, Answer)
    <3>1. pc' = "next" /\ offset' = e BY <1>a, <1>5, <2>2, <2>6
    <3>2. ~CarriesEch(m, Answer) BY <2>6 DEF CarriesEch, EchAt
    <3> QED BY <1>1, <2>3, <3>1, <3>2, NextAnswer
  <2> QED BY <2>5, <2>6
<1> QED BY <1>4, <1>5

\* The bytes of a slice of the message are those of the response.
LEMMA SameSlice ==
  ASSUME Honest, ParserTyped, NEW i \in Nat \ {0}, NEW j \in Nat, j <= Len(message)
  PROVE  SubSeq(message, i, j) = SubSeq(said.full, i, j)
<1>t. Len(message) \in Nat /\ Len(said.full) \in Nat /\ Len(message) <= Len(said.full)
      /\ message \in Seq(Bytes) /\ said.full \in Seq(Bytes)
  BY HonestTyped, MessageLen DEF Honest, IsPrefix, ParserTyped
<1>1. \A k \in i..j : message[k] = said.full[k]
  <2> SUFFICES ASSUME NEW k \in i..j PROVE message[k] = said.full[k] OBVIOUS
  <2>1. k \in 1..Len(message) BY <1>t
  <2>2. SubSeq(message, 1, Len(message)) = SubSeq(said.full, 1, Len(message)) BY DEF Honest, IsPrefix
  <2>3. SubSeq(message, 1, Len(message))[k] = message[k] BY <1>t, <2>1
  <2>4. SubSeq(said.full, 1, Len(message))[k] = said.full[k] BY <1>t, <2>1
  <2> QED BY <2>2, <2>3, <2>4
<1>2. SubSeq(message, i, j) = [k \in 1..(j - i + 1) |-> message[i + k - 1]] BY <1>t
<1>3. SubSeq(said.full, i, j) = [k \in 1..(j - i + 1) |-> said.full[i + k - 1]] BY <1>t
<1>4. \A k \in 1..(j - i + 1) : i + k - 1 \in i..j OBVIOUS
<1>5. \A k \in 1..(j - i + 1) : message[i + k - 1] = said.full[i + k - 1] BY <1>1, <1>4
<1>6. [k \in 1..(j - i + 1) |-> message[i + k - 1]] = [k \in 1..(j - i + 1) |-> said.full[i + k - 1]]
  BY <1>5
<1> QED BY <1>2, <1>3, <1>6

\* The parameters of the record are read one after the other, whole, up to the
\* first whose key is ech.
LEMMA HonestParam ==
  ASSUME ParserInv, Honest, OnTrack, Param
  PROVE  Honest' /\ OnTrack' /\ EchExact'
<1> DEFINE m == said.full
           e == rr.end
           value_end == offset + 4 + U16(offset + 2)
<1>t. ParserTyped BY DEF ParserInv
<1>1. /\ pc = "param" /\ InHttps /\ InAnswer /\ IsHttps(m, Answer)
      /\ rr = [ttl |-> Ttl(m, Answer), end |-> RdataEnd(m, Answer)]
  BY DEF Param, OnTrack, InHttps
<1>2. PICK b : b = Answer.params OBVIOUS
<1>3. PICK j \in DOMAIN b : offset = b[j] /\ \A i \in 1..j - 1 : Word(m, b[i]) # 5
  BY <1>1, <1>2 DEF OnTrack
<1>4. /\ b \in Seq(Nat) /\ Len(b) \in Nat \ {0} /\ DOMAIN b = 1..Len(b)
      /\ \A i \in 1..Len(b) : b[i] \in Nat /\ b[i] <= e
      /\ e = b[Len(b)] /\ IsParams(m, b)
  <2>1. Bounds(b, Last(Answer.target)) /\ IsParams(m, b) /\ Last(b) = e
    BY <1>t, <1>1, <1>2, SvcbFacts
  <2>2. /\ b \in Seq(Nat) /\ Len(b) \in Nat \ {0} /\ DOMAIN b = 1..Len(b)
        /\ \A i \in 1..Len(b) : b[i] \in Nat /\ b[i] <= Last(b)
    BY <2>1, BoundsTyped
  <2> QED BY <2>1, <2>2 DEF Last
<1>5. e \in Nat /\ e <= Len(message) /\ Len(message) \in Nat /\ offset \in Nat
  BY <1>t, MessageLen DEF ParserInv, ReadsBehind, ParserTyped
<1>6. ASSUME j # Len(b)
      PROVE  /\ j \in 1..Len(b) - 1 /\ j + 1 \in 1..Len(b) /\ b[j + 1] \in Nat /\ b[j + 1] <= e
             /\ offset + 4 <= b[j + 1] /\ b[j + 1] = offset + 4 + Word(m, offset + 2)
  <2>1. j \in 1..Len(b) - 1 /\ j + 1 \in 1..Len(b) BY <1>3, <1>4, <1>6
  <2>2. b[j + 1] = offset + 4 + Word(m, offset + 2) BY <1>3, <1>4, <2>1 DEF IsParams
  <2>3. offset + 2 \in Nat BY <1>5
  <2>4. Word(m, offset + 2) \in Nat BY <2>3, HonestTyped, OctetTyped
  <2>5. b[j + 1] \in Nat /\ b[j + 1] <= e BY <1>4, <2>1
  <2>6. offset + 4 <= b[j + 1]
    <3> HIDE DEF m
    <3> QED BY <1>5, <2>2, <2>4
  <2> QED BY <2>1, <2>2, <2>5, <2>6
<1>7. CASE j = Len(b)
  <2>1. offset = e /\ offset >= e BY <1>3, <1>4, <1>5, <1>7
  <2>2. pc' = "next" /\ offset' = e /\ UNCHANGED <<name, message, said, left>>
    BY <1>5, <2>1 DEF Param
  <2>3. ~CarriesEch(m, Answer) BY <1>2, <1>3, <1>7 DEF CarriesEch, EchAt
  <2>4. offset' = RdataEnd(m, Answer) BY <1>1, <2>2
  <2> QED BY <1>t, <1>1, <2>2, <2>3, <2>4, NextAnswer
<1>8. CASE j # Len(b)
  <2>0. /\ j \in 1..Len(b) - 1 /\ j + 1 \in 1..Len(b) /\ b[j + 1] \in Nat /\ b[j + 1] <= e
        /\ offset + 4 <= b[j + 1] /\ b[j + 1] = offset + 4 + Word(m, offset + 2)
    BY <1>6, <1>8
  <2>1. U16(offset) = Word(m, offset) /\ U16(offset + 2) = Word(m, offset + 2)
    <3>1. offset + 1 < Len(message) /\ offset + 2 \in Nat /\ (offset + 2) + 1 < Len(message)
      BY <1>5, <2>0
    <3> QED BY <1>t, <1>5, <3>1, SameByte
  <2>2. value_end = b[j + 1] BY <2>0, <2>1
  <2>3. ~(offset >= e) /\ ~(e - offset < 4 \/ value_end > e) BY <1>5, <2>0, <2>2
  <2>4. IF U16(offset) = 5
        THEN Finish([is |-> "ech", from |-> offset + 4, to |-> value_end, ttl |-> RecordTtl(rr.ttl)])
        ELSE offset' = value_end /\ UNCHANGED <<pc, name, message, said, left, pos, rr, result>>
    BY <2>3 DEF Param, SkipParam
  <2>5. CASE Word(m, offset) = 5
    <3>1. /\ pc' = "done" /\ UNCHANGED <<name, message, said, left>> /\ result'.is = "ech"
          /\ result'.from = offset + 4 /\ result'.to = b[j + 1] /\ result'.ttl = RecordTtl(rr.ttl)
      BY <2>1, <2>2, <2>4, <2>5 DEF Finish
    <3>2. EchAt(m, Answer, j) /\ j \in DOMAIN Answer.params
      BY <1>1, <1>2, <1>3, <2>0, <2>5 DEF EchAt
    <3>3. SubSeq(message, result'.from + 1, result'.to) = EchValue(m, Answer, j)
      <4>1. offset + 4 + 1 = offset + 5 /\ offset + 5 \in Nat \ {0} BY <1>5
      <4>2. b[j + 1] \in Nat /\ b[j + 1] <= Len(message) BY <1>5, <2>0
      <4>3. SubSeq(message, offset + 5, b[j + 1]) = SubSeq(m, offset + 5, b[j + 1])
        BY <1>t, <4>1, <4>2, SameSlice
      <4> QED BY <1>2, <1>3, <3>1, <4>1, <4>3 DEF EchValue
    <3>4. result'.ttl = IF Ttl(m, Answer) = <<0, 0>> THEN DEFAULT_TTL ELSE Ttl(m, Answer)
      BY <1>1, <3>1 DEF RecordTtl
    <3>5. PICK k : k = AnswerNo OBVIOUS
    <3>6. k \in DOMAIN said.answers /\ Answer = said.answers[k]
      BY <1>t, <1>1, <3>5, AnswerFacts, HonestTyped DEF Answer
    <3>7. \A h \in 1..k - 1 : ~CarriesEch(m, said.answers[h]) BY <1>1, <3>5 DEF InAnswer, NoEch
    <3>8. EchExact' BY <3>1, <3>2, <3>3, <3>4, <3>6, <3>7 DEF EchExact
    <3>9. OnTrack' BY <3>1 DEF OnTrack
    <3> QED BY <3>1, <3>8, <3>9, HonestStays
  <2>6. CASE Word(m, offset) # 5
    <3>1. /\ pc' = "param" /\ offset' = b[j + 1] /\ UNCHANGED <<name, message, said, left, rr>>
      BY <1>1, <2>1, <2>2, <2>4, <2>6
    <3>2. InHttps' /\ Answer' = Answer BY <1>1, <3>1, AnswerStays
    <3>3. \A i \in 1..(j + 1) - 1 : Word(m, b[i]) # 5
      <4> SUFFICES ASSUME NEW i \in 1..(j + 1) - 1 PROVE Word(m, b[i]) # 5 OBVIOUS
      <4>1. i \in 1..j - 1 \/ i = j BY <2>0
      <4> QED BY <1>3, <2>6, <4>1
    <3>4. \E k \in DOMAIN b : offset' = b[k] /\ \A i \in 1..k - 1 : Word(m, b[i]) # 5
      BY <1>4, <2>0, <3>1, <3>3
    <3>5. \E k \in DOMAIN Answer'.params :
            offset' = Answer'.params[k] /\ \A i \in 1..k - 1 : Word(said'.full, Answer'.params[i]) # 5
      BY <1>2, <3>1, <3>2, <3>4
    <3>6. OnTrack' BY <3>1, <3>2, <3>5 DEF OnTrack
    <3>7. EchExact' BY <3>1 DEF EchExact
    <3> QED BY <3>1, <3>6, <3>7, HonestStays
  <2> QED BY <2>5, <2>6
<1> QED BY <1>7, <1>8

-----------------------------------------------------------------------------
LEMMA InitHonest == Init => HonestInv
<1> SUFFICES ASSUME Init, said # <<>> PROVE Honest /\ OnTrack /\ EchExact BY DEF HonestInv
<1>1. NameOk(name) /\ name \in NAMES /\ pc = "query" BY DEF Init
<1>2. PICK r \in Responses(build_https_query(name)) : message = r.bytes /\ said = r.said
  BY <1>1 DEF Init
<1>3. IsResponse(said.full, build_https_query(name), said.answers) /\ IsPrefix(message, said.full)
  BY <1>1, <1>2, ResponsesAssumption
<1> QED BY <1>1, <1>3 DEF Honest, OnTrack, EchExact

LEMMA NextHonest == ParserInv /\ HonestInv /\ [Next]_vars => HonestInv'
<1> SUFFICES ASSUME ParserInv, HonestInv, [Next]_vars PROVE HonestInv' OBVIOUS
<1>1. said' = said
  BY DEF vars, Next, Query, ParseHeader, NextRecord, SkipLabel, NameEnds, QuestionTail, AnswerHead,
         Param, Fail, Finish
<1>2. CASE said = <<>> BY <1>1, <1>2 DEF HonestInv
<1>3. CASE said # <<>>
  <2>1. ParserTyped /\ Honest /\ OnTrack /\ EchExact BY <1>3 DEF ParserInv, HonestInv
  <2>2. CASE UNCHANGED vars
    <3>1. UNCHANGED <<pc, name, message, said, left, offset, pos, rr, result>> BY <2>2 DEF vars
    <3>2. Honest' BY <2>1, <3>1, HonestStays
    <3>3. OnTrack' BY <2>1, <3>1 DEF OnTrack, InQuestion, InAnswer, InHttps, AtName, NoEch, AnswerNo, Answer
    <3>4. EchExact' BY <2>1, <3>1 DEF EchExact
    <3> QED BY <3>2, <3>3, <3>4 DEF HonestInv
  <2>3. CASE Next
    <3>1. Honest' /\ OnTrack' /\ EchExact'
      BY <2>1, <2>3, HonestQuery, HonestHeader, HonestNext, HonestSkipLabel, HonestQuestionTail,
         HonestAnswerHead, HonestParam DEF Next
    <3> QED BY <3>1 DEF HonestInv
  <2> QED BY <2>2, <2>3
<1> QED BY <1>2, <1>3

\* From every honest answer to every query the client can write it takes exactly
\* the ech value of the first HTTPS record that carries one, with that record's
\* lifetime, however many records, parameters and labels there are; a response
\* that was cut anywhere yields the same value or none, never another one.
THEOREM EchIsExact == Spec => []EchExact
<1>1. HonestInv => EchExact BY DEF HonestInv, EchExact
<1>2. Spec => []ParserInv BY InitParser, NextParser, PTL DEF Spec
<1>3. Spec => []HonestInv
  <2>1. Spec => Init /\ [][Next]_vars BY DEF Spec
  <2> QED BY <1>2, <2>1, InitHonest, NextHonest, PTL
<1> QED BY <1>1, <1>3, PTL

-----------------------------------------------------------------------------
(***************************************************************************)
(* Why the parser ends: what ParseEnds rests on besides fairness.          *)
(***************************************************************************)
Scanning == pc \notin {"query", "header", "done"}

\* Records the header still promises.
Owed == left.questions + left.answers

\* Where the parser stands in the message.
Place == IF pc \in DOMAIN After THEN pos ELSE offset

\* A step ends the parse, goes on to the header or past it, begins one of the
\* records still owed, or moves forward in the message; only the step that leaves
\* the parameters of a record does neither, and it leads to one that does.
Advances ==
  /\ pc # "done" /\ message' = message
  /\ \/ pc' = "done"
     \/ pc = "query" /\ pc' = "header"
     \/ pc = "header" /\ pc' = "next"
     \/ /\ Scanning /\ Scanning'
        /\ \/ Owed' < Owed
           \/ Owed' = Owed /\ Place' > Place
           \/ Owed' = Owed /\ Place' = Place /\ pc = "param" /\ pc' = "next"

\* A label's length is below 64: a name leaves the message by that much at most.
PlaceInv == pc \in DOMAIN After => pos <= Len(message) + 63

\* The variant of the parser: no step goes back in the message or asks for more
\* records, and the place has an upper bound.
Terminating == [][Advances /\ Place' <= Len(message) + 63]_vars

LEMMA FailAdvances ==
  ASSUME ParserInv, pc # "done", pc' = "done",
         UNCHANGED <<message, left, offset, pos>>
  PROVE  Advances /\ Place' <= Len(message) + 63 /\ PlaceInv'
<1>1. offset \in Nat /\ Len(message) \in Nat /\ offset <= Len(message)
  BY MessageLen DEF ParserInv, ParserTyped, ReadsInside
<1>2. pc' \notin DOMAIN After BY DEF After
<1> QED BY <1>1, <1>2 DEF Advances, Place, PlaceInv

\* The loop heads: a record is begun only while one is owed.
LEMMA NextRecordAdvances ==
  ASSUME ParserInv, NextRecord, ~Fail
  PROVE  Advances /\ Place' <= Len(message) + 63 /\ PlaceInv'
<1>1. /\ pc = "next" /\ pc' \in {"question_name", "answer_name"} /\ pos' = offset /\ message' = message
      /\ left # [questions |-> 0, answers |-> 0]
      /\ IF left.questions > 0 THEN left' = [left EXCEPT !.questions = @ - 1]
                               ELSE left' = [left EXCEPT !.answers = @ - 1]
  BY DEF NextRecord
<1>2. /\ left \in [questions : Nat, answers : Nat] /\ offset \in Nat /\ Len(message) \in Nat
      /\ offset <= Len(message)
  BY MessageLen DEF ParserInv, ParserTyped, ReadsInside
<1>3. left'.questions + left'.answers < left.questions + left.answers
  <2>1. CASE left.questions > 0
    <3>1. left'.questions = left.questions - 1 /\ left'.answers = left.answers BY <1>1, <1>2, <2>1
    <3> QED BY <1>2, <3>1
  <2>2. CASE left.questions = 0
    <3>1. left'.questions = left.questions /\ left'.answers = left.answers - 1 BY <1>1, <1>2, <2>2
    <3> QED BY <1>2, <3>1
  <2> QED BY <1>2, <2>1, <2>2
<1>4. pc' \in DOMAIN After BY <1>1 DEF After
<1> QED BY <1>1, <1>2, <1>3, <1>4 DEF Advances, Scanning, Owed, Place, PlaceInv

\* skip_name: a pointer is two bytes further, never a jump, and a label is not empty.
LEMMA SkipLabelAdvances ==
  ASSUME ParserInv, PlaceInv, SkipLabel, ~Fail
  PROVE  Advances /\ Place' <= Len(message) + 63 /\ PlaceInv'
<1>t. ParserTyped BY DEF ParserInv
<1>p. pc \in {"question_name", "answer_name", "target_name"} /\ pc \in DOMAIN After BY DEF SkipLabel, After
<1>n. /\ Len(message) \in Nat /\ pos \in Nat /\ rr.end \in Nat
      /\ left \in [questions : Nat, answers : Nat]
  BY <1>t, MessageLen DEF ParserTyped
<1>l. Limit \in Nat /\ Limit <= Len(message) BY <1>n DEF Limit
<1>b. Byte(pos) \in Nat BY <1>t, <1>n, ByteTyped
<1> HIDE DEF Limit
<1>1. /\ pos < Limit
      /\ \/ NameEnds(pos + 2, pos + 1)
         \/ NameEnds(pos + 1, pos + 1)
         \/ /\ Byte(pos) < 64 /\ pos' = pos + 1 + Byte(pos)
            /\ UNCHANGED <<pc, message, left>>
  <2>1. /\ ~(pos >= Limit) /\ Byte(pos) \notin 64..191
        /\ CASE Byte(pos) >= 192 -> NameEnds(pos + 2, pos + 1)
             [] Byte(pos) = 0    -> NameEnds(pos + 1, pos + 1)
             [] OTHER            -> /\ pos' = pos + 1 + Byte(pos) /\ Reads(pos + 1)
                                    /\ UNCHANGED <<pc, name, message, said, left, offset, rr, result>>
    BY DEF SkipLabel
  <2>2. pos < Limit
    <3>1. ~(pos >= Limit) BY <2>1
    <3> QED BY <3>1, <1>n, <1>l
  <2>3. CASE Byte(pos) >= 192 BY <2>1, <2>2, <2>3
  <2>4. CASE Byte(pos) = 0 BY <2>1, <2>2, <2>4
  <2>5. CASE ~(Byte(pos) >= 192) /\ Byte(pos) # 0
    <3>1. Byte(pos) < 64 BY <1>b, <2>1, <2>5
    <3> QED BY <2>1, <2>2, <2>5, <3>1
  <2> QED BY <2>3, <2>4, <2>5
<1>2. ASSUME NEW at \in {pos + 1, pos + 2}, NameEnds(at, pos + 1)
      PROVE  Advances /\ Place' <= Len(message) + 63 /\ PlaceInv'
  <2>1. offset' = at /\ pc' = After[pc] /\ UNCHANGED <<message, left>> BY <1>2 DEF NameEnds
  <2>2. pc' \in {"question", "answer", "param"} /\ pc' \notin DOMAIN After BY <1>p, <2>1 DEF After
  <2>3. at > pos /\ at <= Len(message) + 63 BY <1>n, <1>l, <1>1
  <2> QED BY <1>p, <2>1, <2>2, <2>3 DEF Advances, Scanning, Owed, Place, PlaceInv
<1>3. ASSUME Byte(pos) < 64, pos' = pos + 1 + Byte(pos), UNCHANGED <<pc, message, left>>
      PROVE  Advances /\ Place' <= Len(message) + 63 /\ PlaceInv'
  <2>1. pos' > pos /\ pos' <= Len(message) + 63 BY <1>n, <1>l, <1>b, <1>1, <1>3
  <2> QED BY <1>p, <1>3, <2>1 DEF Advances, Scanning, Owed, Place, PlaceInv
<1> QED BY <1>1, <1>2, <1>3

LEMMA AnswerAdvances ==
  ASSUME ParserInv, AnswerHead, ~Fail
  PROVE  Advances /\ Place' <= Len(message) + 63 /\ PlaceInv'
<1>t. ParserTyped BY DEF ParserInv
<1> DEFINE end == offset + 10 + U16(offset + 8)
<1>1. /\ pc = "answer" /\ end <= Len(message) /\ UNCHANGED <<message, left>>
      /\ \/ /\ ~(offset + 12 > Len(message))
            /\ pc' = "target_name" /\ pos' = offset + 12
         \/ pc' = "next" /\ offset' = end
  BY DEF AnswerHead, Fits
<1>2. offset \in Nat /\ offset + 8 \in Nat /\ Len(message) \in Nat
  BY <1>t, MessageLen DEF ParserTyped
<1>3. U16(offset + 8) \in Nat BY <1>t, <1>2, ByteTyped
<1>4. end \in Nat /\ end > offset BY <1>2, <1>3
<1> HIDE DEF end
<1>5. "answer" \notin DOMAIN After /\ "next" \notin DOMAIN After /\ "target_name" \in DOMAIN After BY DEF After
<1>6. CASE pc' = "next" /\ offset' = end
  BY <1>1, <1>2, <1>4, <1>5, <1>6 DEF Advances, Scanning, Owed, Place, PlaceInv
<1>7. CASE ~(offset + 12 > Len(message)) /\ pc' = "target_name" /\ pos' = offset + 12
  BY <1>1, <1>2, <1>5, <1>7 DEF Advances, Scanning, Owed, Place, PlaceInv
<1> QED BY <1>1, <1>6, <1>7

\* A parameter is at least its key and length, so the loop over them moves too.
LEMMA ParamAdvances ==
  ASSUME ParserInv, Param, ~(pc' = "done")
  PROVE  Advances /\ Place' <= Len(message) + 63 /\ PlaceInv'
<1>t. ParserTyped BY DEF ParserInv
<1> DEFINE value_end == offset + 4 + U16(offset + 2)
<1>1. /\ pc = "param" /\ offset \in Nat /\ offset + 2 \in Nat /\ rr.end \in Nat
      /\ Len(message) \in Nat /\ offset <= rr.end /\ rr.end <= Len(message)
  BY <1>t, MessageLen DEF Param, ParserTyped, ParserInv, ReadsBehind, ReadsInside
<1>2. value_end \in Nat /\ value_end > offset
  <2>1. U16(offset + 2) \in Nat BY <1>t, <1>1, ByteTyped
  <2> QED BY <1>1, <2>1
<1>3. /\ UNCHANGED <<message, left>>
      /\ \/ offset >= rr.end /\ offset' = rr.end /\ pc' = "next"
         \/ value_end <= rr.end /\ offset' = value_end /\ pc' = pc
  BY <1>1, <1>2 DEF Param, SkipParam, Fail, Finish
<1> HIDE DEF value_end
<1>4. "param" \notin DOMAIN After /\ "next" \notin DOMAIN After BY DEF After
<1> QED BY <1>1, <1>2, <1>3, <1>4 DEF Advances, Scanning, Owed, Place, PlaceInv

LEMMA NextAdvances ==
  ASSUME ParserInv, PlaceInv, Next
  PROVE  Advances /\ Place' <= Len(message) + 63 /\ PlaceInv'
<1>t. offset \in Nat /\ Len(message) \in Nat /\ offset <= Len(message)
  BY MessageLen DEF ParserInv, ParserTyped, ReadsInside
<1>a. {"header", "next", "question"} \cap DOMAIN After = {} BY DEF After
<1>1. CASE pc' = "done"
  <2>1. pc # "done"
    BY DEF Next, Query, ParseHeader, NextRecord, SkipLabel, After, QuestionTail, AnswerHead, Param
  <2>2. UNCHANGED <<message, left, offset, pos>>
    <3>1. Query \/ ParseHeader \/ NextRecord \/ QuestionTail \/ AnswerHead => Fail
      BY <1>1 DEF Query, ParseHeader, NextRecord, QuestionTail, AnswerHead
    <3>2. SkipLabel => Fail
      <4>1. pc \in DOMAIN After => After[pc] # "done" BY DEF After
      <4> QED BY <1>1, <2>1, <4>1 DEF SkipLabel, NameEnds
    <3>3. Param => UNCHANGED <<message, left, offset, pos>>
      BY <1>1 DEF Param, Fail, Finish
    <3>4. Fail => UNCHANGED <<message, left, offset, pos>> BY DEF Fail, Finish
    <3> QED BY <3>1, <3>2, <3>3, <3>4 DEF Next
  <2> QED BY <1>1, <2>1, <2>2, FailAdvances
<1>2. CASE ~(pc' = "done")
  <2>f. ~Fail BY <1>2 DEF Fail, Finish
  <2>1. CASE Query
    <3>1. pc = "query" /\ pc' = "header" /\ UNCHANGED <<message, offset>> BY <2>f, <2>1 DEF Query
    <3> QED BY <1>t, <1>a, <3>1 DEF Advances, Place, PlaceInv
  <2>2. CASE ParseHeader
    <3>1. pc = "header" /\ pc' = "next" /\ message' = message /\ offset' = 12
      BY <2>f, <2>2 DEF ParseHeader
    <3> QED BY <1>t, <1>a, <3>1 DEF Advances, Place, PlaceInv
  <2>3. CASE QuestionTail
    <3>1. /\ pc = "question" /\ pc' = "next" /\ UNCHANGED <<message, left>> /\ offset' = offset + 4
          /\ ~(offset + 4 > Len(message))
      BY <2>f, <2>3 DEF QuestionTail
    <3> QED BY <1>t, <1>a, <3>1 DEF Advances, Scanning, Owed, Place, PlaceInv
  <2> QED BY <1>2, <2>f, <2>1, <2>2, <2>3, NextRecordAdvances, SkipLabelAdvances, AnswerAdvances,
            ParamAdvances DEF Next
<1> QED BY <1>1, <1>2

\* Whatever bytes the resolver sent, no pointer, length or count sends the parser
\* back: with every step it owes fewer records or stands further in the message,
\* and the place is bounded, so it can take only finitely many steps.
THEOREM ParserAdvances == Spec => Terminating
<1>1. Init => PlaceInv BY DEF Init, PlaceInv, After
<1>2. ParserInv /\ PlaceInv /\ [Next]_vars => PlaceInv'
  <2>1. PlaceInv /\ UNCHANGED vars => PlaceInv' BY DEF PlaceInv, vars
  <2> QED BY <2>1, NextAdvances
<1>3. ParserInv /\ PlaceInv /\ [Next]_vars => [Advances /\ Place' <= Len(message) + 63]_vars
  BY NextAdvances
<1>4. Spec => [](ParserInv /\ PlaceInv)
  BY <1>1, <1>2, InitParser, NextParser, PTL DEF Spec
<1>5. Spec => [][Next]_vars BY PTL DEF Spec
<1> QED BY <1>3, <1>4, <1>5, PTL DEF Terminating
=============================================================================
