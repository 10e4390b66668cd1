------------------------------ MODULE HostState ------------------------------
(***************************************************************************)
(* What a host that several deployments share keeps about the keys of its  *)
(* login user, and what a run of host prepare (HostKeys) promises its      *)
(* owner and the others.                                                   *)
(***************************************************************************)

CONSTANTS
    Deployments,   \* those that share the login user
    Owner,         \* whoever manages the host
    NoList         \* no allowlist

VARIABLES
    lines,     \* the plain lines of authorized_keys: a key, and who wrote it
    sidecar,   \* each deployment's claims: "no", "added" or "shared", per key
    allow,     \* the keys the owner's list holds, or NoList
    preparing  \* each deployment's run of host prepare

Allowed(k) == allow = NoList \/ k \in allow

ClaimedBy(d, k) == \E o \in Deployments \ {d} : sidecar[o][k] # "no"

(* What a run takes away the host's owner did not write, whatever was      *)
(* there before, and no other deployment claims, though the claims were    *)
(* read before the first step;                                             *)
TakesOwn ==
    \A d \in Deployments : preparing[d].pc = "steps" /\ preparing'[d] # preparing[d] =>
        \A l \in lines \ lines' : l.by # Owner /\ ~ClaimedBy(d, l.key)

(* what one adds the owner's list allows, whatever it was when planned.    *)
AddsAllowed == \A l \in lines' \ lines : Allowed(l.key)

(* host prepare "deletes a line only when it wrote that line itself and no *)
(* other deployment claims it" (README.md:5284), and adds no key that the  *)
(* host's owner does not allow (allowGuard).                               *)
HostRespected == [][TakesOwn /\ AddsAllowed]_lines
=============================================================================
