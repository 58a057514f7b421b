----------------------------- MODULE MCIngress -----------------------------
(***************************************************************************)
(* Ingress with two users on different backends, two addresses (one        *)
(* listed), two names, one of them empty, and ports at both ends of the    *)
(* range a u16 accepts.                                                    *)
(***************************************************************************)
EXTENDS Ingress

MCPassword == [u \in USERS |-> IF u = "alice" THEN "pa" ELSE "pb"]

MCBackendOf == [u \in USERS |-> IF u = "alice" THEN "cf-edge-a" ELSE "vps-b"]

MCHeaderLists ==
  { <<"Other">>,
    <<"Host", "Proxy-Authorization", "Other">>,
    <<"Proxy-Authorization", "Proxy-Connection", "Other", "Proxy-Authorization">> }
=============================================================================
