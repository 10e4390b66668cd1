--------------------------- MODULE MCGatewayMove ---------------------------
(***************************************************************************)
(* Two sites, the second of which runs a monitor, so that a move and its   *)
(* rollback leave one of each kind.                                        *)
(***************************************************************************)
EXTENDS GatewayMove

CONSTANTS n, h1, h2, o1, o2
=============================================================================
