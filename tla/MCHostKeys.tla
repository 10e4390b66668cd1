----------------------------- MODULE MCHostKeys -----------------------------
(* The keys of a host, alone: MCClusters checks them beside other commands. *)
EXTENDS HostKeys

CONSTANTS a, b    \* deployments
=============================================================================
