--------------------------- MODULE MCConfigStore ---------------------------
(***************************************************************************)
(* Small deployments for ConfigStore.  Each workstation w has the key      *)
(* named after it; the first one created the deployment.                   *)
(***************************************************************************)
EXTENDS ConfigStore

CONSTANTS w1, w2,        \* workstations
          both, only1,   \* paisans-stack.yaml listing both keys, or w1's only
          s1, s2, s3     \* values of a secret

(* A workstation's agent holds its own key. *)
OwnKey == [w \in Workstations |-> w]

ListBoth == [c \in Confs |-> IF c = only1 THEN {w1} ELSE {w1, w2}]

Created == [w \in Workstations |-> IF w = w1 THEN [conf |-> both, sec |-> s1] ELSE None]

(* The second operator has a copy of the files, from a repository shared   *)
(* outside the store.                                                      *)
Shared == [w \in Workstations |-> [conf |-> both, sec |-> s1]]

(* The steps of a command that read and write its own workstation only.    *)
Local(w) == \/ run[w].pc \in {"prepare", "attest", "raise", "sethead", "setroot", "setkey",
                              "compare", "choose", "writeconf", "writesec", "record"}
            \/ run[w].pc = "gather" /\ run[w].todo = {}

(* They commute with every step elsewhere and no property sees them from   *)
(* elsewhere, so they are explored in one order: a workstation that is at  *)
(* such a step takes it, stops or is edited before anything else happens.  *)
LocalFirst == \A w \in Workstations :
                 Local(w) => run'[w] # run[w] \/ files'[w] # files[w]
=============================================================================
