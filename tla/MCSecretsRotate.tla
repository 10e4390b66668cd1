-------------------------- MODULE MCSecretsRotate --------------------------
(***************************************************************************)
(* A deployment of two or three data sites, with two cluster roles, so     *)
(* that the rotation of one moves the leader before the other's, and an    *)
(* app with a login of its own and a pasted secret in the same stack.      *)
(***************************************************************************)
EXTENDS SecretsRotate

CONSTANTS d1, d2, d3, standby, superuser, login, token, app

AppHost == [s \in Secrets \ Roles |-> {d1}]
OneApp  == [s \in Secrets \ Roles |-> app]

(* How often each may be rotated. *)
Times == [s \in Secrets |-> IF s = standby THEN 3 ELSE 2]

(* One of two secrets, beside --all. *)
OneOrOther == {{s} : s \in {superuser, token}}
=============================================================================
