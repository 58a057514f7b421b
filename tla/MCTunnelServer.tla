--------------------------- MODULE MCTunnelServer ---------------------------
(***************************************************************************)
(* The instance of AnyClient for TLC; its bounds are in the configuration. *)
(***************************************************************************)
EXTENDS AnyClient
=============================================================================
