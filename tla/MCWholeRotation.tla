-------------------------- MODULE MCWholeRotation --------------------------
(***************************************************************************)
(* An app on two sites, with an S3 key and an OIDC client.                 *)
(***************************************************************************)
EXTENDS WholeRotation

CONSTANTS s3, oidc, a, b
=============================================================================
