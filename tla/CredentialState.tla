--------------------------- MODULE CredentialState ---------------------------
(***************************************************************************)
(* An app's S3 keys and OIDC client secrets: what the secrets file, Garage *)
(* and Pocket ID, and the app on each site have of them, and what the      *)
(* commands that rotate them (WholeRotation) promise about it.             *)
(***************************************************************************)
EXTENDS Naturals

CONSTANTS
    Keys,          \* S3 keys, which Garage issues
    Clients,       \* OIDC client secrets, which Pocket ID issues
    AppSites       \* the sites the app runs on

Creds == Keys \cup Clients

VARIABLES
    cur,       \* the secrets file: the credential's value
    prev,      \* the secrets file: the retiring S3 key beside it, 0 for none
    holds,     \* the values the issuer holds
    grants,    \* those it lets the app in with
    env,       \* the value each site's app was last started with
    rotating,  \* the run under way: its stage, credential and sites to do
    stops      \* runs that stopped

credentials == <<cur, prev, holds, grants, env, rotating, stops>>

(* The app on site u gets in with credential c.                            *)
Works(c, u) == env[c][u] \in grants[c]

(* No step of a rotation takes away what the app gets in with on any site: *)
(* neither by starting it with a value the issuer does not let in, nor by  *)
(* retiring one it runs with, wherever earlier runs stopped and whatever   *)
(* was applied between them. *)
OwnStepsKeepWorking ==
    [][\A c \in Creds, u \in AppSites :
          rotating.at = c /\ Works(c, u) => Works(c, u)']_credentials

(* Garage holds no key of the app's that the secrets file does not name:   *)
(* an old key cannot outlive the rotation that replaced it. *)
NoForgottenKey == \A k \in Keys : holds[k] \subseteq {cur[k], prev[k]}

(* Whoever rotates a client's secret to the end leaves it the only one     *)
(* Pocket ID holds, and every site on it, whatever the runs that stopped   *)
(* before it had added. *)
OldSecretsGone ==
    [][\A c \in Clients :
          rotating.pc = "switch" /\ rotating.at = c /\ rotating'.pc = "idle" /\ stops' = stops
             => holds'[c] = {cur[c]} /\ \A u \in AppSites : env[c][u] = cur[c]]_credentials
=============================================================================
