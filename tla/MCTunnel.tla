------------------------------ MODULE MCTunnel ------------------------------
(***************************************************************************)
(* The composed tunnel for TLC: its configurations give small values to    *)
(* the bounds and choose what is checked.                                  *)
(***************************************************************************)
EXTENDS TunnelInvariant
=============================================================================
