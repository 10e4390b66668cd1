------------------------------- MODULE Trust -------------------------------
(***************************************************************************)
(* Which configuration versions a workstation trusts: Judge of             *)
(* internal/configstore/trust.go as operators over a version graph.        *)
(*                                                                         *)
(* A graph g is a function from the ids of the versions a workstation      *)
(* holds to records                                                        *)
(*                                                                         *)
(*   parents   the ids the version was committed on, {} for a root         *)
(*   rev       its Paisans-Revision                                        *)
(*   signer    the key its signature verifies with                         *)
(*   lists     the keys its paisans-stack.yaml lists under operators       *)
(*   sound     its tree is exactly the files of a version and its          *)
(*             signature is good                                           *)
(*   readable  its operators can be read                                   *)
(*                                                                         *)
(* An id stands for a commit hash: it is a natural number, and its order   *)
(* is the order of the hashes.  An anchor is [signer, root], each NoKey or *)
(* None when the workstation has none.                                     *)
(***************************************************************************)
EXTENDS Integers, FiniteSets

CONSTANTS NoKey,   \* the signer of an anchor without a signing key
          None     \* no version: an unset head, root or seen record

(* What k applications of F make of x: the state of a loop after k rounds. *)
Iterated(F, x, k) ==
    LET f[n \in 0..k] == IF n = 0 THEN x ELSE F[f[n - 1]]
    IN  f[k]

(* The pairs <<v, a>> of held versions with a reachable from v through      *)
(* parents: each round goes on to the parents of what is reached.          *)
Ancestry(g) ==
    LET held    == DOMAIN g
        onward  == [S \in SUBSET held |-> S \cup (held \cap UNION {g[v].parents : v \in S})]
        from(v) == Iterated(onward, g[v].parents \cap held, Cardinality(held))
    IN  UNION {{v} \X from(v) : v \in held}

Ancestors(anc, v) == {x[2] : x \in {y \in anc : y[1] = v}}

(* The roots among v and its ancestors. *)
RootsOf(g, v) ==
    {r \in DOMAIN g : g[r].parents = {} /\ r \in {v} \cup Ancestors(Ancestry(g), v)}

(* n is the revision of a version on ps: one above the highest of theirs,   *)
(* 1 for none.                                                             *)
Numbered(g, ps, n) ==
    IF ps = {} THEN n = 1
    ELSE (\E p \in ps : n = g[p].rev + 1) /\ (\A p \in ps : g[p].rev < n)

(* Rule 1: a sound commit on held parents, numbered one above them. *)
ShapeOK(g, v) ==
    /\ g[v].sound
    /\ g[v].parents \subseteq DOMAIN g
    /\ Numbered(g, g[v].parents, g[v].rev)

(* A pinned root can anchor when it is a root in good shape, signed by an  *)
(* operator it lists itself.                                               *)
GoodRoot(g, r) ==
    /\ r \in DOMAIN g
    /\ g[r].parents = {}
    /\ ShapeOK(g, r)
    /\ g[r].readable
    /\ g[r].signer \in g[r].lists

(* v comes first among vs as Judge sorts its heads: the highest revision,   *)
(* then the lowest hash.                                                   *)
IsFirst(g, vs, v) ==
    \A w \in vs : \/ g[w].rev < g[v].rev
                  \/ g[w].rev = g[v].rev /\ v <= w

(* The newest version in good shape the operator signed: the highest       *)
(* revision, and of those the lowest hash.                                 *)
OwnNewest(g, a) ==
    LET own == {v \in DOMAIN g : g[v].signer = a.signer /\ ShapeOK(g, v)}
    IN  IF a.signer = NoKey \/ own = {} THEN None
        ELSE CHOOSE v \in own : IsFirst(g, own, v)

(* Where trust starts, or None: judgement.anchor. *)
AnchorAt(g, anc, a) ==
    LET own == OwnNewest(g, a)
    IN  IF a.root = None THEN own
        ELSE IF ~GoodRoot(g, a.root) THEN None
        ELSE IF own = None THEN a.root
        ELSE IF a.root = own \/ <<own, a.root>> \in anc THEN own
        ELSE None

History(anc, at) == {at} \cup Ancestors(anc, at)

(* Mutant: every key a parent lists is removed. *)
BarsListed(g, anc, r, v) ==
    /\ r # v
    /\ <<r, v>> \notin anc
    /\ g[r].readable
    /\ \E p \in g[r].parents \cap DOMAIN g : g[p].readable /\ g[v].signer \in g[p].lists

(* The removals of r bar v: v is signed by a key that a parent of r lists  *)
(* and r does not, and v is neither r nor one of r's ancestors.            *)
Bars(g, anc, r, v) ==
    /\ r # v
    /\ <<r, v>> \notin anc
    /\ g[r].readable
    /\ g[v].signer \notin g[r].lists
    /\ \E p \in g[r].parents \cap DOMAIN g : g[p].readable /\ g[v].signer \in g[p].lists

(* v can follow versions of base: rules 1 and 2. *)
Extends(g, v, base) ==
    /\ ShapeOK(g, v)
    /\ g[v].parents # {}
    /\ g[v].parents \subseteq base
    /\ g[v].readable
    /\ \A p \in g[v].parents : g[p].readable /\ g[v].signer \in g[p].lists

(* What is left of base once the versions that extend nothing left are      *)
(* dropped.  No version is its own ancestor, so this is what the loop over *)
(* order, parents before their children, collects.                         *)
Following(g, base, hist) ==
    LET kept == [C \in SUBSET base |-> {v \in C : Extends(g, v, hist \cup C)}]
    IN  Iterated(kept, base, Cardinality(base))

(* Mutant: removals in the history bar nothing. *)
CandidatesUnbarred(g, anc, hist) == Following(g, DOMAIN g \ hist, hist)

(* The versions outside the history that extend it and that no removal in  *)
(* it bars.                                                                *)
Candidates(g, anc, hist) ==
    Following(g, {v \in DOMAIN g \ hist : \A r \in hist : ~Bars(g, anc, r, v)}, hist)

(* The pairs <<r, d>> of candidates where the removals of r bar d or a      *)
(* candidate d is built on.                                                *)
Attacks(g, anc, cand) ==
    LET direct == {x \in cand \X cand : Bars(g, anc, x[1], x[2])}
    IN  {x \in cand \X cand :
            \E y \in direct : y[1] = x[1] /\ (y[2] = x[2] \/ <<x[2], y[2]>> \in anc)}

Statuses(cand)  == [in : SUBSET cand, out : SUBSET cand]
Undecided       == [in |-> {}, out |-> {}]

(* Mutants: a candidate is in while none of its attackers is, and out when *)
(* any candidate attacks it.                                               *)
DecidedEarly(cand, att) ==
    LET decide == [s \in Statuses(cand) |->
                      [in  |-> {d \in cand : \A r \in s.in : <<r, d>> \notin att},
                       out |-> {d \in cand : \E r \in s.in : <<r, d>> \in att}]]
    IN  Iterated(decide, Undecided, 2 * Cardinality(cand))
DecidedByAny(cand, att) ==
    [in  |-> {d \in cand : \A r \in cand : <<r, d>> \notin att},
     out |-> {d \in cand : \E r \in cand : <<r, d>> \in att}]

(* The candidates decided: a candidate all of whose attackers are out is   *)
(* in, one with an attacker in is out, until nothing changes.              *)
Decided(cand, att) ==
    LET decide == [s \in Statuses(cand) |->
                      [in  |-> {d \in cand : \A r \in cand : <<r, d>> \in att => r \in s.out},
                       out |-> {d \in cand : \E r \in s.in : <<r, d>> \in att}]]
    IN  Iterated(decide, Undecided, 2 * Cardinality(cand))

(* The versions of trusted that none of trusted is built on. *)
HeadsOf(g, trusted) ==
    {v \in trusted : \A w \in trusted : v \notin g[w].parents}

Refused == [ok |-> FALSE, trusted |-> {}, heads |-> {}]

(* What Judge decides.  Refused is any of its errors: no anchor, operators *)
(* in the history that cannot be read, or removals that bar each other in  *)
(* a loop.                                                                 *)
Judge(g, a) ==
    LET anc     == Ancestry(g)
        at      == AnchorAt(g, anc, a)
        hist    == History(anc, at)
        cand    == Candidates(g, anc, hist)
        d       == Decided(cand, Attacks(g, anc, cand))
        trusted == {v \in DOMAIN g : v \in hist \cup d.in}
    IN  IF \/ at = None
           \/ \E v \in hist : ~g[v].readable
           \/ d.in \cup d.out # cand
        THEN Refused
        ELSE [ok |-> TRUE, trusted |-> trusted, heads |-> HeadsOf(g, trusted)]
=============================================================================
