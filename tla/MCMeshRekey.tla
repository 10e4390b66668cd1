---------------------------- MODULE MCMeshRekey ----------------------------
(***************************************************************************)
(* A deployment of three sites, one of them dialled and the relay between  *)
(* the other two, which is the smallest in which a swap cuts others apart. *)
(***************************************************************************)
EXTENDS MeshRekey

(* Every step of a run. *)
Anywhere == Steps \ {"idle"}
=============================================================================
