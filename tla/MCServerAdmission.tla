------------------------- MODULE MCServerAdmission -------------------------
(***************************************************************************)
(* ServerAdmission with an allowed and a denied V4 address, a denied V6    *)
(* address, a private V4 address in mapped form, and answers of up to      *)
(* three addresses.  The settings vary the tokens with an otherwise good   *)
(* configuration, the policy with a good token, and everything that can    *)
(* stop the server.                                                        *)
(***************************************************************************)
EXTENDS ServerAdmission

MCAddrs ==
  { [fam |-> "V4", class |-> "public"], [fam |-> "V4", class |-> "private"],
    [fam |-> "V6", class |-> "unique_local"], [fam |-> "mapped", class |-> "private"] }

Header(scheme, text, pad) == [scheme |-> scheme, text |-> text, pad |-> pad]

MCHeaders ==
  { Header("missing", "", FALSE), Header("binary", "", FALSE), Header("Bearer", "", TRUE),
    Header("Bearer", "old", FALSE), Header("Bearer", "new", TRUE), Header("bearer", "new", FALSE),
    Header("BEARER", "new", FALSE), Header("bare", "new", TRUE) }

Good ==
  [file |-> "ok", listen |-> "ok", tokens |-> {[text |-> "old", pad |-> FALSE]},
   cert |-> TRUE, key |-> TRUE, deny_private_ip |-> TRUE, allowed_ports |-> {443},
   LISTEN |-> "unset", TOKENS |-> <<>>]

SomeTokens ==
  { {}, {[text |-> "", pad |-> TRUE]},
    {[text |-> "new", pad |-> TRUE]},
    {[text |-> "new", pad |-> FALSE], [text |-> "", pad |-> FALSE]} }

MCSettings ==
  { [Good EXCEPT !.tokens = t, !.TOKENS = e, !.file = f] :
      t \in SomeTokens \cup {Good.tokens}, e \in {<<>>} \cup [1..1 -> SomeTokens], f \in {"none", "ok"} }
  \cup { [Good EXCEPT !.deny_private_ip = d, !.allowed_ports = p, !.cert = c, !.key = ~d] :
      d \in BOOLEAN, p \in {{}, {443}, {0, 443}}, c \in BOOLEAN }
  \cup { [Good EXCEPT !.file = f, !.listen = l, !.LISTEN = e] :
      f \in {"bad", "ok"}, l \in {"bad", "ok"}, e \in {"unset", "blank", "bad", "ok"} }
=============================================================================
