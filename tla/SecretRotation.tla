---------------------------- MODULE SecretRotation ----------------------------
(***************************************************************************)
(* What rotating secrets promises, whatever stages a rotation is made of,  *)
(* wherever its runs stop and whatever else the deployment does meanwhile. *)
(* Each secret has one value, which every host that uses it runs with, and *)
(* one of them may have a next value, which the secrets file names.  A     *)
(* host moves from the first to the second and never back, and the second  *)
(* becomes the secret's own only when every host that uses it has moved.   *)
(***************************************************************************)
EXTENDS Naturals

CONSTANTS
    Secrets,            \* the secrets
    UsersOf(_)          \* the hosts that run something using each

VARIABLES
    cur,                \* the value the secrets file holds of each secret
    next,               \* the next value it holds of it, 0 for none
    runs                \* the value of it each of its users runs with

vars == <<cur, next, runs>>

Init ==
    /\ cur \in [Secrets -> Nat \ {0}]
    /\ next = [s \in Secrets |-> 0]
    /\ runs = [s \in Secrets |-> [u \in UsersOf(s) |-> cur[s]]]

(* A secret is given a next value while no secret has one.                *)
Begin(s) ==
    /\ \A t \in Secrets : next[t] = 0
    /\ next'[s] \in Nat \ {0, cur[s]}
    /\ next' = [next EXCEPT ![s] = next'[s]]
    /\ UNCHANGED <<cur, runs>>

(* A user is handed the next value.                                       *)
Hand(s, u) ==
    /\ next[s] # 0
    /\ runs' = [runs EXCEPT ![s][u] = next[s]]
    /\ UNCHANGED <<cur, next>>

(* The next value becomes the secret's own once nobody runs the old one.  *)
Promote(s) ==
    /\ next[s] # 0
    /\ \A u \in UsersOf(s) : runs[s][u] = next[s]
    /\ cur' = [cur EXCEPT ![s] = next[s]]
    /\ next' = [next EXCEPT ![s] = 0]
    /\ UNCHANGED runs

Next == \E s \in Secrets : Begin(s) \/ Promote(s) \/ \E u \in UsersOf(s) : Hand(s, u)

Spec == Init /\ [][Next]_vars
=============================================================================
