------------------------------ MODULE MCStaged ------------------------------
(***************************************************************************)
(* The staged commands of one deployment that touch nothing of each        *)
(* other's: a gateway move, and the rotations of an app's S3 key and OIDC  *)
(* client.  A behaviour is of one or of the other, as chosen at the start, *)
(* so that the run explores the states of both and no product of them.     *)
(***************************************************************************)
EXTENDS MCGatewayMove, CredentialState

CONSTANTS s3, oidc, a, b,    \* a key, a client, and the sites the app runs on
          Commands, MaxHeld, MaxValue, MaxStops

VARIABLES made,
          procedure   \* the command explored

rotationVars == <<credentials, made>>

W == INSTANCE WholeRotation

ASSUME RotationAssumption == W!ConstantsHold

StagedInit == Init /\ W!Init /\ procedure \in {"move", "rotation"}

MoveNext     == procedure = "move" /\ Next /\ UNCHANGED <<rotationVars, procedure>>
RotationNext == procedure = "rotation" /\ W!Next /\ UNCHANGED <<vars, procedure>>

StagedSpec == /\ StagedInit
              /\ [][MoveNext \/ RotationNext]_<<vars, rotationVars, procedure>>
              /\ MoveFairness
              /\ W!Fairness

(* The rotation of a key comes to its end.                                 *)
KeyRotationFinishes == W!KeyRotationFinishes
=============================================================================
