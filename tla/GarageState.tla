----------------------------- MODULE GarageState -----------------------------
(***************************************************************************)
(* What the sites of a deployment have of its Garage cluster, each in its  *)
(* files and its node, and what storage add (StorageAdd) promises of them. *)
(***************************************************************************)

VARIABLES
    factor,     \* the factor in each site's garage.toml, None for no file
    garage,     \* each site's Garage: "up", "down" till it recovers, "stopped", "refused"
    layout,     \* the layout each site's Garage has stored
    aside,      \* the factors of the layouts each site has set aside
    met,        \* the sites whose nodes know each other
    behind,     \* the sites that have data to receive since the layout changed
    counts,     \* the object count recorded on each site's host
    missing,    \* objects the cluster held before a reset are not to be found
    joined      \* the last run went past its provision gate

Answers(s) == garage[s] = "up"

(* One factor: no Garage is ever started on a layout of another factor,    *)
(* which it refuses, and no two that run and know each other have          *)
(* different ones, at which the lower one exits for safety. *)
OneFactor ==
    /\ \A s \in DOMAIN garage : garage[s] # "refused"
    /\ \A s, t \in met : Answers(s) /\ Answers(t) => factor[s] = factor[t]

(* A join that comes to its end after a reset has found every object the   *)
(* cluster held before it. *)
NothingMissing == joined => ~missing
=============================================================================
