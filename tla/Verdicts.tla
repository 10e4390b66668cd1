------------------------------ MODULE Verdicts ------------------------------
(***************************************************************************)
(* What the verdicts of Judge promise, of any graph g of versions and any  *)
(* anchor a, and as versions are fetched.                                  *)
(***************************************************************************)
EXTENDS Trust

VARIABLES graph,         \* the versions held
          anchor         \* what the workstation holds that nobody can forge

(* What a verdict is made from. *)
At(g, a)   == AnchorAt(g, Ancestry(g), a)
Hist(g, a) == IF At(g, a) = None THEN {} ELSE History(Ancestry(g), At(g, a))
Cand(g, a) == Candidates(g, Ancestry(g), Hist(g, a))
Att(g, a)  == Attacks(g, Ancestry(g), Cand(g, a))

(* The same decision stated without an algorithm.  A set of candidates is  *)
(* complete when it holds exactly the candidates it defends: those each of *)
(* whose attackers one of its members attacks.                             *)
CompleteSets(cand, att) ==
    LET attackers(d) == {r \in cand : <<r, d>> \in att}
    IN  {S \in SUBSET cand :
            S = {d \in cand : \A r \in attackers(d) : attackers(r) \cap S # {}}}

(* The candidates in every complete set. *)
Kept(g, a) == {d \in Cand(g, a) : \A S \in CompleteSets(Cand(g, a), Att(g, a)) : d \in S}

Grounded(g, a) ==
    LET v == Judge(g, a)
    IN  /\ v.ok => v.trusted = Hist(g, a) \cup Kept(g, a)
        /\ \A w \in v.trusted : g[w].parents \cap DOMAIN g \subseteq v.trusted
        /\ v.ok <=> /\ Hist(g, a) # {}
                    /\ \A w \in Hist(g, a) : g[w].readable
                    /\ \A d \in Cand(g, a) \ Kept(g, a) :
                           \E r \in Kept(g, a) : <<r, d>> \in Att(g, a)

NoneRemoved(g, a) ==
    LET trusted == Judge(g, a).trusted
    IN  \A v \in trusted \ Hist(g, a) : \A r \in trusted : ~Bars(g, Ancestry(g), r, v)

AllTrusted(g, a) ==
    (/\ g[1].readable
     /\ \A v \in DOMAIN g \ {1} : Extends(g, v, DOMAIN g)
     /\ \A v \in DOMAIN g : \A p \in g[v].parents : g[p].lists \subseteq g[v].lists
     /\ At(g, a) # None)
    => Judge(g, a).ok /\ Judge(g, a).trusted = DOMAIN g

JudgedAsBefore(g, h, a) ==
    LET new == DOMAIN h \ DOMAIN g
    IN  (/\ Judge(g, a).ok
         /\ At(h, a) = At(g, a)
         /\ \/ new \cap Cand(h, a) = {}
            \/ Judge(h, a).ok /\ new \cap Judge(h, a).trusted = {})
        => Judge(h, a).ok /\ Judge(h, a).trusted = Judge(g, a).trusted

(* A graph is finite, and its ids and revisions are numbers.               *)
GraphOK(g) ==
    /\ IsFiniteSet(DOMAIN g) /\ DOMAIN g \subseteq Nat /\ None \notin DOMAIN g
    /\ \A v \in DOMAIN g : g[v].rev \in Nat

(* Fetching adds versions, none of which an old one was built on: a store  *)
(* has no holes.                                                           *)
Grows(g, h) ==
    /\ DOMAIN g \subseteq DOMAIN h
    /\ \A v \in DOMAIN g : h[v] = g[v] /\ g[v].parents \cap DOMAIN h \subseteq DOMAIN g

Fetching == GraphOK(graph) /\ [][GraphOK(graph') /\ Grows(graph, graph')]_<<graph, anchor>>

-----------------------------------------------------------------------------
(* Judge's rounds over the candidates (trust.go, the loop on status) reach *)
(* exactly the smallest set of candidates that defends itself, so no order *)
(* of evaluation decides who is trusted, and Judge refuses only when that  *)
(* set leaves a candidate it neither holds nor attacks.  What is trusted   *)
(* is built on trusted versions only, although a removal is judged against *)
(* each version and not against its descendants.                           *)
VerdictIsGrounded == Grounded(graph, anchor)

(* Removal is final: no trusted version outside the anchor's history is    *)
(* signed by a key that a trusted version not built on it removed.         *)
RemovalIsFinal == NoneRemoved(graph, anchor)

(* Operators whose versions the tool made, on one root, none removing a    *)
(* key, trust the same versions whichever of them judges.                  *)
OperatorsAgree == AllTrusted(graph, anchor)

(* A version that Judge does not trust removes nothing: when one arrives   *)
(* that is no candidate, or that a trusted removal bars, every other       *)
(* version is judged as before.                                            *)
UntrustedChangesNothing == [][JudgedAsBefore(graph, graph', anchor)]_<<graph, anchor>>
=============================================================================
