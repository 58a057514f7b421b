---------------------------- MODULE MCHttpsRecord ----------------------------
(***************************************************************************)
(* HttpsRecord with a DoH server that answers with none, one or two        *)
(* records: whole, cut anywhere, or with one byte changed.  The names are  *)
(* at the limits of build_https_query; only the short one is also cut and  *)
(* changed.                                                                *)
(***************************************************************************)
EXTENDS HttpsRecord

Name(starts, dots) == [starts |-> starts, dots |-> dots]

\* Labels of 0, 1, 63 and 64 bytes, texts of 0, 253 and 254.
MCNames ==
  { Name(<<0, 1>>, 0), Name(<<0, 1>>, 1), Name(<<0, 2>>, 0), Name(<<0, 2>>, 2), Name(<<0, 2, 3, 5>>, 0),
    Name(<<0, 64, 67>>, 0), Name(<<0, 65>>, 0),
    Name(<<0, 64, 128, 192, 254>>, 0), Name(<<0, 64, 128, 192, 254>>, 1),
    Name(<<0, 64, 128, 192, 255>>, 0) }

\* The bytes that mean something in a name or a length.
CHANGES == {0, 1, 5, 63, 64, 191, 192, 255}

\* Names on the wire, with their bounds.
ROOT == [wire |-> <<0>>, bounds |-> <<0, 1>>]

POINTER == [wire |-> <<192, 12>>, bounds |-> <<0, 2>>]

LABEL == [wire |-> WireName(<<0, 3>>), bounds |-> <<0, 3, 4>>]

Param16(key, value) == <<0, key, 0, Len(value)>> \o value

Alpn == Param16(1, <<2, 104, 50>>)

Ech(b) == Param16(5, <<b, 13>>)

Shifted(bounds, by) == [i \in DOMAIN bounds |-> bounds[i] + by]

\* A record that begins at offset 0, with its bounds.
Record(owner, type, ttl, rdata, target, params) ==
  LET at == Len(owner.wire) + 12 IN
  [wire |-> owner.wire \o <<0, type, 0, 1, 0, ttl[1], 0, ttl[2], 0, Len(rdata)>> \o rdata,
   owner |-> owner.bounds,
   target |-> Shifted(target.bounds, at),
   params |-> [i \in 1..Len(params) + 1 |->
                 at + Len(target.wire) + Len(FlattenSeq(SubSeq(params, 1, i - 1)))]]

Https(ttl, target, params) ==
  Record(POINTER, 65, ttl, <<0, 1>> \o target.wire \o FlattenSeq(params), target, params)

RECORDS ==
  { Https(<<0, 9>>, ROOT, <<Alpn, Ech(254)>>),
    Https(<<7, 0>>, LABEL, <<Ech(192)>>),
    Https(<<0, 0>>, POINTER, <<Ech(5), Alpn>>),
    Https(<<0, 9>>, ROOT, <<Alpn>>),
    Record(LABEL, 1, <<0, 3>>, <<0, 5, 0, 2>>, ROOT, <<>>) }

Answers == {<<>>} \cup [1..1 -> RECORDS] \cup [1..2 -> RECORDS]

Wires(answers) == FlattenSeq([i \in DOMAIN answers |-> answers[i].wire])

\* The response, and where its records are.
Response(query, answers) ==
  [full |-> [query EXCEPT ![3] = 129, ![4] = 128, ![8] = Len(answers)] \o Wires(answers),
   answers |->
     [i \in DOMAIN answers |->
        LET at == Len(query) + Len(Wires(SubSeq(answers, 1, i - 1)))
        IN  [owner |-> Shifted(answers[i].owner, at), target |-> Shifted(answers[i].target, at),
             params |-> Shifted(answers[i].params, at)]]]

Cut(response, n) == [bytes |-> SubSeq(response.full, 1, n), said |-> response]

Changed(response, i, b) == [bytes |-> [response.full EXCEPT ![i] = b], said |-> <<>>]

MCResponses(query) ==
  UNION { LET response == Response(query, answers) IN
          {Cut(response, Len(response.full))} \cup
          (IF Len(query) > 20 THEN {}
           ELSE {Cut(response, n) : n \in 0..Len(response.full) - 1} \cup
                {Changed(response, i, b) : i \in DOMAIN response.full, b \in CHANGES})
        : answers \in Answers }

MCDefaultTtl == <<0, 300>>
=============================================================================
