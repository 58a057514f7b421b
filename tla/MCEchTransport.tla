--------------------------- MODULE MCEchTransport ---------------------------
(***************************************************************************)
(* EchTransport with up to two channels: of one pool, of two backends that *)
(* share a name, a resolver or neither, with and without ECH or a CA file  *)
(* of their own, strict or not, with endpoints that do not fit.  The TTLs  *)
(* are 0, below, between and above the scaled limits.                      *)
(***************************************************************************)
EXTENDS EchTransport

Strict ==
  [scheme |-> "https", host |-> "a", tls_domain |-> NONE, ech_name |-> NONE, ech |-> TRUE,
   ech_policy |-> NONE, ech_bootstrap_doh |-> NONE, ca_cert |-> NONE]

Fallback == [Strict EXCEPT !.ech_policy = "fallback_plain_tls"]

Plan(policy, channels) == [bootstrap_doh |-> "doh1", policy |-> policy, channels |-> channels]

MCPlans ==
  { Plan("strict", <<Strict, Strict>>),
    Plan("strict", <<Strict, [Strict EXCEPT !.tls_domain = "b", !.ech_name = "a", !.ca_cert = "ca1"]>>),
    Plan("strict", <<Fallback, [Strict EXCEPT !.ech_bootstrap_doh = "doh2"]>>),
    Plan("strict", <<[Strict EXCEPT !.ca_cert = "ca1"], [Strict EXCEPT !.ech = FALSE]>>),
    Plan("typo", <<[Strict EXCEPT !.scheme = "http"]>>),
    Plan("typo", <<[Strict EXCEPT !.scheme = "bad"]>>),
    Plan("typo", <<[Strict EXCEPT !.scheme = "bad", !.ech_name = "b"]>>) }
=============================================================================
