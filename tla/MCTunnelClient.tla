--------------------------- MODULE MCTunnelClient ---------------------------
(***************************************************************************)
(* The instance of AnyServer for TLC; its bounds are in the configuration. *)
(***************************************************************************)
EXTENDS AnyServer
=============================================================================
