------------------------------ MODULE MCTrust ------------------------------
(***************************************************************************)
(* Every version graph of at most MaxVersions versions over Keys, grown    *)
(* one version at a time, judged from every anchor.                        *)
(*                                                                         *)
(* Ids are given in the order of creation.  Hashes are compared only       *)
(* between versions of one revision, none of which is an ancestor of       *)
(* another, so every order of their hashes is some order of creation.      *)
(***************************************************************************)
EXTENDS Verdicts, TLC

CONSTANTS Keys,          \* the signing keys
          Own,           \* the key the judging operator signs with, one of Keys
          MaxVersions    \* versions in a graph, each flawed one counted twice

vars == <<graph, anchor>>

(* What the tool commits on the held versions ps: it lists the keys its    *)
(* parents list, less at most one, and is signed by any key.               *)
Made(ps) ==
    LET listed == IF ps = {} THEN Keys ELSE UNION {graph[p].lists : p \in ps}
    IN  [parents : {ps}, rev : {n \in 1..MaxVersions : Numbered(graph, ps, n)}, signer : Keys,
         lists : {listed} \cup {listed \ {k} : k \in listed},
         sound : {TRUE}, readable : {TRUE}]

(* A version no tool makes: of another shape, or with operators that       *)
(* cannot be read.                                                         *)
Flawed(x) == {[x EXCEPT !.rev = @ + 1], [x EXCEPT !.sound = FALSE],
              [x EXCEPT !.readable = FALSE, !.lists = {}]}

(* The sets of versions a version may be committed on: heads, of which     *)
(* none is an ancestor of another.                                         *)
Bases == {ps \in SUBSET DOMAIN graph :
             \A p, q \in ps : <<p, q>> \notin Ancestry(graph)}

NFlawed == Cardinality({v \in DOMAIN graph :
               \/ ~graph[v].sound
               \/ ~graph[v].readable
               \/ ~Numbered(graph, graph[v].parents, graph[v].rev)})

Add(x) == LET v == Cardinality(DOMAIN graph) + 1
          IN  graph' = [w \in 1..v |-> IF w = v THEN x ELSE graph[w]]

(* An anchor whose key has signed nothing yet is judged from its root, as   *)
(* one without a key, so the first version may be Own's.                   *)
Init == /\ graph = [v \in {1} |-> [parents |-> {}, rev |-> 1, signer |-> Own,
                                   lists |-> Keys, sound |-> TRUE, readable |-> TRUE]]
        /\ anchor \in [signer : {Own, NoKey}, root : {None, 1}]
        /\ anchor # [signer |-> NoKey, root |-> None]

Commit == /\ Cardinality(DOMAIN graph) + NFlawed < MaxVersions
          /\ \E ps \in Bases : \E x \in Made(ps) : Add(x)
          /\ UNCHANGED anchor

CommitFlawed == /\ Cardinality(DOMAIN graph) + NFlawed + 1 < MaxVersions
                /\ \E ps \in Bases : \E x \in Made(ps) :
                       \E y \in Flawed(x) : Add(y)
                /\ UNCHANGED anchor

Next == Commit \/ CommitFlawed

Spec == Init /\ [][Next]_vars

Symmetry == Permutations(Keys \ {Own})
=============================================================================
