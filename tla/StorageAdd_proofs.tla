-------------------------- MODULE StorageAdd_proofs --------------------------
(***************************************************************************)
(* Proofs about storage add, for any sites, in any order, any of them the  *)
(* cluster at first, any factors, and any mishaps.                         *)
(***************************************************************************)
EXTENDS StorageAdd, FiniteSetTheorems, TLAPS

Running(s) == garage[s] \in {"up", "down"}

(* A site without a garage.toml never ran Garage.                          *)
Undeployed == \A s \in Sites : factor[s] = None =>
                 garage[s] = "stopped" /\ layout[s] = None /\ s \notin met

(* Every layout stored is of the factor of its site's garage.toml.         *)
LayoutsFit ==
    \A s \in Sites : /\ garage[s] # "refused"
                     /\ Running(s) => layout[s] # None
                     /\ layout[s] # None => layout[s].factor = factor[s]

(* What runs, or will do when its site is applied, and is known to the     *)
(* others that run, has their factor.                                      *)
MetAgree == \A s, t \in met : Running(s) /\ (Running(t) \/ factor[t] = want)
                                  => factor[s] = factor[t]

(* The configuration's factor is only ever raised.                         *)
NotAbove == \A s \in Sites : factor[s] # None => factor[s] <= want

(* What a run knows, and what it has done to the sites it changes.         *)
Changes(S) == \A s \in Sites : s \in S <=> factor[s] # want

RunSound ==
    /\ run.pc # "idle" => run.anchor \in Sites /\ run.want = want /\ \A s \in Sites : Deployed(s)
    /\ run.pc \in {"stop", "aside", "write", "start"} => run.todo # {}
    /\ run.pc \in {"stop", "aside"} => run.todo \subseteq run.changing
    /\ run.pc \in {"settle", "count", "stop", "aside"} => Changes(run.changing)
    /\ run.pc = "stop"  => \A s \in run.changing \ run.todo : garage[s] = "stopped"
    /\ run.pc = "aside" => /\ \A s \in run.changing : garage[s] = "stopped"
                           /\ \A s \in run.changing \ run.todo : layout[s] = None
    /\ run.pc = "write" => /\ Changes(run.todo)
                           /\ \A s \in run.todo : garage[s] = "stopped" /\ layout[s] = None
    /\ run.pc \in {"start", "started", "connect", "assign", "agree", "sync", "provision"} =>
           \A s \in Sites : factor[s] = want

IInv == TypeOK /\ Undeployed /\ LayoutsFit /\ MetAgree /\ NotAbove /\ RunSound

-----------------------------------------------------------------------------
(* The sites in order.                                                     *)

LEMMA Constants ==
    ASSUME ConstantsHold
    PROVE  /\ Factors \subseteq Nat /\ None \notin Factors /\ None \notin Sites
           /\ DOMAIN Order \subseteq Nat /\ \A i \in DOMAIN Order : Order[i] \in Sites
           /\ OldSites \subseteq Sites /\ OldSites # {} /\ FirstFactor \in Factors
           /\ MaxMishaps \in Nat /\ All # None /\ Fewer # None /\ All # Fewer
<1>1. Len(Order) \in Nat /\ DOMAIN Order = 1..Len(Order)
  BY DEF ConstantsHold
<1>2. \A i \in DOMAIN Order : Order[i] \in Sites
  BY DEF Sites
<1>3. Factors \subseteq Nat /\ None \notin Nat
  <2>1. Cardinality(Sites) \in Nat
    BY <1>1 DEF ConstantsHold
  <2>. QED
    BY <2>1 DEF ConstantsHold
<1>4. All # None /\ Fewer # None /\ All # Fewer
  BY <1>3 DEF All, Fewer
<1>5. None \notin Sites /\ OldSites \subseteq Sites /\ OldSites # {} /\ FirstFactor \in Factors /\ MaxMishaps \in Nat
  BY DEF ConstantsHold
<1>6. DOMAIN Order \subseteq Nat
  BY <1>1
<1>7. None \notin Factors
  BY <1>3, Zenon
<1>. QED
  BY <1>2, <1>3, <1>4, <1>5, <1>6, <1>7, Zenon

(* Every set of numbers that is not empty has a least one: of the sets of  *)
(* those up to each of them one contains no other.                         *)
LEMMA LeastOf ==
    ASSUME NEW T \in SUBSET Nat, T # {}
    PROVE  \E i \in T : \A j \in T : i <= j
<1> DEFINE U == {0..i : i \in T}
           R == StrictSubsetOrdering(Nat)
           S == FiniteSubsetsOf(Nat)
<1>1. IsWellFoundedOn(R, S)
  BY FS_StrictSubsetOrderingWellFounded
<1>2. U \subseteq S /\ U # {}
  <2>1. \A i \in T : IsFiniteSet(0..i) /\ 0..i \subseteq Nat
    BY FS_Interval
  <2>. QED
    BY <2>1 DEF FiniteSubsetsOf
<1>. HIDE DEF U, R, S
<1>3. PICK u \in U : \A v \in U : ~ (<<v, u>> \in R)
  BY <1>1, <1>2, WFMin
<1>4. PICK i \in T : u = 0..i
  BY <1>3 DEF U
<1>5. ASSUME NEW j \in T PROVE i <= j
  <2>1. 0..j \in U
    BY DEF U
  <2>2. <<0..j, 0..i>> \notin R
    BY <1>3, <1>4, <2>1
  <2>3. SUFFICES ASSUME j < i PROVE FALSE
    OBVIOUS
  <2>4. 0..j \subseteq 0..i /\ i \in 0..i /\ i \notin 0..j
    BY <2>3
  <2>5. 0..j \in SUBSET Nat /\ 0..i \in SUBSET Nat
    OBVIOUS
  <2>. QED
    BY <2>2, <2>4, <2>5 DEF R, StrictSubsetOrdering
<1>. QED
  BY <1>5

(* The first of some sites is one of them.                                 *)
LEMMA FirstIsOne ==
    ASSUME ConstantsHold, NEW S \in SUBSET Sites, S # {}
    PROVE  First(S) \in S
<1> DEFINE T == {i \in DOMAIN Order : Order[i] \in S}
<1>1. T \in SUBSET Nat /\ T # {}
  <2>1. PICK s \in S : TRUE
    OBVIOUS
  <2>2. PICK i \in DOMAIN Order : s = Order[i]
    BY <2>1 DEF Sites
  <2>. QED
    BY <2>1, <2>2, Constants
<1>2. PICK i \in T : \A j \in T : i <= j
  BY <1>1, LeastOf
<1>3. Len(Order) \in Nat /\ DOMAIN Order = 1..Len(Order)
  BY DEF ConstantsHold
<1>4. Order[i] \in S /\ \A j \in 1..(i - 1) : Order[j] \notin S
  BY <1>2, <1>3
<1>. QED
  BY <1>2, <1>4 DEF First

-----------------------------------------------------------------------------
(* Runs.                                                                   *)

LEMMA IdleRun == Idle \in Runs /\ Idle.pc = "idle"
  BY DEF Idle, Runs, Pcs

SameOtherwise ==
    /\ run'.anchor = run.anchor /\ run'.want = run.want /\ run'.changing = run.changing
    /\ run'.saw = run.saw /\ run'.counted = run.counted

LEMMA ToRun ==
    ASSUME TypeOK, NEW pc \in Pcs, NEW S \in SUBSET Sites, To(pc, S)
    PROVE  run' \in Runs /\ run'.pc = pc /\ run'.todo = S /\ SameOtherwise
<1>1. run \in Runs
  BY DEF TypeOK
<1>. QED
  BY <1>1 DEF To, Runs, SameOtherwise

LEMMA PastRun ==
    ASSUME TypeOK, NEW s \in run.todo, NEW pc \in Pcs, NEW S \in SUBSET Sites, Past(s, pc, S)
    PROVE  /\ run' \in Runs /\ SameOtherwise
           /\ \/ run.todo = {s} /\ run'.pc = pc /\ run'.todo = S
              \/ run'.pc = run.pc /\ run'.todo = run.todo \ {s} /\ run'.todo # {}
<1>1. run \in Runs
  BY DEF TypeOK
<1>2. CASE run.todo = {s}
  BY <1>2, ToRun DEF Past
<1>3. CASE run.todo # {s}
  BY <1>1, <1>3 DEF Past, Runs, SameOtherwise
<1>. QED
  BY <1>2, <1>3

LEMMA EndRun == ASSUME End PROVE run' \in Runs /\ RunSound'
  BY IdleRun DEF End, RunSound

(* The sites are as they were.                                             *)
LEMMA SitesKept ==
    ASSUME Undeployed, LayoutsFit, MetAgree, NotAbove,
           UNCHANGED <<want, factor, garage, layout, met>>
    PROVE  Undeployed' /\ LayoutsFit' /\ MetAgree' /\ NotAbove'
  BY DEF Undeployed, LayoutsFit, MetAgree, NotAbove, Running

(* A step of a run that changes no site.                                   *)
LEMMA RunMoved ==
    ASSUME IInv, UNCHANGED <<want, factor, cluster, aside>>, run' \in Runs, RunSound',
           counts' \in [Sites -> {All, Fewer, None}], joined' \in BOOLEAN,
           mishaps' \in 0..MaxMishaps
    PROVE  IInv'
<1>1. UNCHANGED <<want, factor, garage, layout, met, behind, missing, aside>>
  BY DEF cluster
<1>2. TypeOK'
  BY <1>1 DEF IInv, TypeOK
<1>. QED
  BY <1>1, <1>2, SitesKept DEF IInv

-----------------------------------------------------------------------------
(* At first.                                                               *)

LEMMA FreshLayout ==
    ASSUME NEW f \in Factors
    PROVE  Fresh(f) \in Layout /\ Fresh(f).factor = f
  BY DEF Fresh, Layout

LEMMA InitIInv == ASSUME ConstantsHold, Init PROVE IInv
<1> DEFINE old == [Fresh(FirstFactor) EXCEPT !.version = 1, !.roles = OldSites]
<1>1. old \in Layout /\ old.factor = FirstFactor
  BY Constants DEF Fresh, Layout
<1>2. layout = [s \in Sites |-> IF s \in OldSites THEN old ELSE None]
  BY DEF Init
<1>. HIDE DEF old
<1>3. None \notin Layout
  BY DEF ConstantsHold
<1>4. run \in Runs /\ RunSound
  BY IdleRun DEF Init, RunSound
<1>5. factor = [s \in Sites |-> IF s \in OldSites THEN FirstFactor ELSE None]
      /\ garage = [s \in Sites |-> IF s \in OldSites THEN "up" ELSE "stopped"]
      /\ met = OldSites /\ want = FirstFactor
  BY DEF Init
<1>6. TypeOK
  <2>1. layout \in [Sites -> Layout \cup {None}]
    BY <1>1, <1>2
  <2>2. factor \in [Sites -> Factors \cup {None}] /\ want \in Factors /\ met \subseteq Sites
        /\ garage \in [Sites -> {"up", "down", "stopped", "refused"}]
    BY <1>5, Constants
  <2>3. aside \in [Sites -> SUBSET Factors] /\ counts \in [Sites -> {All, Fewer, None}]
    BY DEF Init
  <2>4. behind \subseteq Sites /\ mishaps \in 0..MaxMishaps
    BY Constants DEF Init
  <2>5. missing \in BOOLEAN /\ joined \in BOOLEAN
    BY DEF Init
  <2>. QED
    BY <1>4, <2>1, <2>2, <2>3, <2>4, <2>5 DEF TypeOK
<1>7. Undeployed
  BY <1>2, <1>5, Constants DEF Undeployed
<1>8. LayoutsFit
  BY <1>1, <1>2, <1>3, <1>5 DEF LayoutsFit, Running
<1>9. MetAgree /\ NotAbove
  BY <1>5, Constants DEF MetAgree, NotAbove
<1>. QED
  BY <1>4, <1>6, <1>7, <1>8, <1>9 DEF IInv

-----------------------------------------------------------------------------
(* The steps of a run that change no site.                                 *)

LEMMA PlanIInv == ASSUME ConstantsHold, IInv, Plan PROVE IInv'
<1> DEFINE a == ChooseAnchor
           changing == {s \in Sites : Deployed(s) /\ factor[s] # want}
           reset == changing # {} \/ Unfinished(a)
<1>1. \A s \in Sites : Deployed(s)
  BY DEF Plan
<1>2. a \in Sites
  <2>1. Sites # {}
    BY Constants
  <2>. QED
    BY <2>1, FirstIsOne DEF ChooseAnchor
<1>3. Changes(changing)
  BY <1>1 DEF Changes
<1>4. ~reset => \A s \in Sites : factor[s] = want
  BY <1>1
<1>5. run' = [pc |-> IF reset THEN "settle" ELSE "connect", anchor |-> a, want |-> want,
              reset |-> reset, counted |-> counts[a] # None, changing |-> changing,
              settling |-> {s \in Sites : HasRole(s)},
              assigning |-> reset \/ \E s \in Sites : ~HasRole(s),
              todo |-> IF reset THEN {} ELSE Sites \ {a}, saw |-> None]
  BY DEF Plan
<1>6. UNCHANGED <<want, factor, cluster, aside, counts, mishaps>> /\ joined' = FALSE
  BY DEF Plan
<1>. HIDE DEF a, changing
<1>7. changing \in SUBSET Sites
  BY DEF changing
<1>8. run' \in Runs
  <2>1. want \in Factors
    BY DEF IInv, TypeOK
  <2>2. (reset \/ \E s \in Sites : ~HasRole(s)) \in BOOLEAN /\ (counts[a] # None) \in BOOLEAN
    OBVIOUS
  <2>. QED
    BY <1>2, <1>5, <1>7, <2>1, <2>2 DEF Runs, Pcs
<1>9. RunSound'
  <2>1. /\ run'.anchor = a /\ run'.want = want /\ run'.changing = changing
        /\ run'.pc = IF reset THEN "settle" ELSE "connect"
    BY <1>5
  <2>. HIDE DEF reset
  <2>2. \A s \in Sites : Deployed(s)'
    BY <1>1, <1>6 DEF Deployed
  <2>3. \A s \in Sites : s \in run'.changing <=> factor'[s] # want'
    BY <1>3, <1>6, <2>1 DEF Changes
  <2>. QED
    BY <1>2, <1>3, <1>4, <1>6, <2>1, <2>2, <2>3 DEF RunSound, Changes
<1>. QED
  BY <1>6, <1>8, <1>9, RunMoved DEF IInv, TypeOK

(* A run that goes on to a stage with the sites as they were.              *)
LEMMA ToIIn ==
    ASSUME IInv, NEW pc \in Pcs, NEW S \in SUBSET Sites, To(pc, S),
           UNCHANGED <<want, factor, cluster, aside, joined, mishaps>>,
           counts' \in [Sites -> {All, Fewer, None}], RunSound'
    PROVE  IInv'
<1>1. run' \in Runs
  BY ToRun DEF IInv
<1>. QED
  BY <1>1, RunMoved DEF IInv, TypeOK

LEMMA EndIInv ==
    ASSUME IInv, End, UNCHANGED <<want, factor, cluster, aside>>,
           counts' \in [Sites -> {All, Fewer, None}], joined' \in BOOLEAN,
           mishaps' \in 0..MaxMishaps
    PROVE  IInv'
  BY EndRun, RunMoved

LEMMA CountsType ==
    ASSUME IInv, NEW a \in Sites
    PROVE  [counts EXCEPT ![a] = Count(a)] \in [Sites -> {All, Fewer, None}]
  BY DEF IInv, TypeOK, Count

LEMMA GatesIInv ==
    ASSUME ConstantsHold, IInv, Settle \/ Started \/ Agree \/ Synced
    PROVE  IInv'
<1>1. /\ UNCHANGED <<want, factor, cluster, aside, joined, mishaps>> /\ UNCHANGED counts
      /\ counts' \in [Sites -> {All, Fewer, None}] /\ joined' \in BOOLEAN
      /\ mishaps' \in 0..MaxMishaps
  <2>1. UNCHANGED <<want, factor, cluster, aside, joined, mishaps, counts>>
    BY DEF Settle, Started, Agree, Synced
  <2>. QED
    BY <2>1 DEF IInv, TypeOK
<1>2. CASE End
  BY <1>1, <1>2, EndIInv
<1>3. CASE Settle /\ To("count", {})
  <2>1. RunSound'
    BY <1>1, <1>3, ToRun DEF Settle, At, IInv, RunSound, Changes, Deployed, SameOtherwise, Pcs
  <2>. QED
    BY <1>1, <1>3, <2>1, ToIIn DEF Pcs
<1>4. CASE Started /\ To("connect", Sites \ {run.anchor}) /\ \A s \in Sites : factor[s] = run.want
  <2>1. RunSound'
    BY <1>1, <1>4, ToRun DEF Started, At, IInv, RunSound, Deployed, SameOtherwise, Pcs
  <2>. QED
    BY <1>1, <1>4, <2>1, ToIIn DEF Pcs
<1>5. CASE Agree /\ To("sync", {})
  <2>1. RunSound'
    BY <1>1, <1>5, ToRun DEF Agree, At, IInv, RunSound, Deployed, SameOtherwise, Pcs
  <2>. QED
    BY <1>1, <1>5, <2>1, ToIIn DEF Pcs
<1>6. CASE Synced /\ To("provision", {})
  <2>1. RunSound'
    BY <1>1, <1>6, ToRun DEF Synced, At, IInv, RunSound, Deployed, SameOtherwise, Pcs
  <2>. QED
    BY <1>1, <1>6, <2>1, ToIIn DEF Pcs
<1>. QED
  BY <1>2, <1>3, <1>4, <1>5, <1>6 DEF Settle, Started, Agree, Synced

LEMMA CountIInv == ASSUME ConstantsHold, IInv, RecordCounts PROVE IInv'
<1>1. /\ UNCHANGED <<want, factor, cluster, aside, joined, mishaps>>
      /\ joined' \in BOOLEAN /\ mishaps' \in 0..MaxMishaps
  <2>1. UNCHANGED <<want, factor, cluster, aside, joined, mishaps>>
    BY DEF RecordCounts
  <2>. QED
    BY <2>1 DEF IInv, TypeOK
<1>2. At("count") /\ run.anchor \in Sites /\ run.changing \in SUBSET Sites
  BY DEF RecordCounts, At, IInv, RunSound, TypeOK, Runs
<1>3. counts' \in [Sites -> {All, Fewer, None}]
  BY <1>2, CountsType DEF RecordCounts, IInv, TypeOK
<1>4. CASE End
  BY <1>1, <1>3, <1>4, EndIInv
<1>5. CASE run.changing = {} /\ To("start", Sites)
  <2>1. Sites # {}
    BY Constants
  <2>2. RunSound'
    BY <1>1, <1>2, <1>5, <2>1, ToRun
    DEF At, IInv, RunSound, Changes, Deployed, SameOtherwise, Pcs
  <2>. QED
    BY <1>1, <1>3, <1>5, <2>2, ToIIn DEF Pcs
<1>6. CASE run.changing # {} /\ To("stop", run.changing)
  <2>1. RunSound'
    BY <1>1, <1>2, <1>6, ToRun DEF At, IInv, RunSound, Changes, Deployed, SameOtherwise, Pcs
  <2>. QED
    BY <1>1, <1>2, <1>3, <1>6, <2>1, ToIIn DEF Pcs
<1>. QED
  BY <1>4, <1>5, <1>6 DEF RecordCounts

LEMMA ConnectedIInv == ASSUME ConstantsHold, IInv, Connected PROVE IInv'
<1>1. /\ UNCHANGED <<want, factor, cluster, aside, joined, mishaps>> /\ UNCHANGED counts
      /\ counts' \in [Sites -> {All, Fewer, None}] /\ joined' \in BOOLEAN
      /\ mishaps' \in 0..MaxMishaps
  <2>1. UNCHANGED <<want, factor, cluster, aside, joined, mishaps, counts>>
    BY DEF Connected
  <2>. QED
    BY <2>1 DEF IInv, TypeOK
<1>2. CASE End
  BY <1>1, <1>2, EndIInv
<1>3. CASE ~End
  <2>1. run \in Runs /\ run.anchor \in Sites /\ At("connect")
    BY DEF Connected, IInv, TypeOK, At, RunSound
  <2>2. \/ run' = [run EXCEPT !.pc = "assign", !.todo = Sites, !.saw = layout[run.anchor]]
        \/ run' = [run EXCEPT !.pc = "agree"]
    BY <1>3 DEF Connected
  <2>3. layout[run.anchor] \in Layout \cup {None}
    BY <2>1 DEF IInv, TypeOK
  <2>4. run' \in Runs
    BY <2>1, <2>2, <2>3 DEF Runs, Pcs
  <2>5. /\ run'.pc \in {"assign", "agree"} /\ run'.anchor = run.anchor /\ run'.want = run.want
    BY <2>1, <2>2 DEF Runs
  <2>6. RunSound'
    BY <1>1, <2>1, <2>5 DEF IInv, RunSound, Deployed, At
  <2>. QED
    BY <1>1, <2>4, <2>6, RunMoved
<1>. QED
  BY <1>2, <1>3

LEMMA ProvisionedIInv == ASSUME ConstantsHold, IInv, Provisioned PROVE IInv'
<1>1. End /\ UNCHANGED <<want, factor, cluster, aside, mishaps>>
  BY DEF Provisioned
<1>2. joined' \in BOOLEAN
  BY DEF Provisioned, IInv, TypeOK
<1>3. counts' \in [Sites -> {All, Fewer, None}]
  BY DEF Provisioned, IInv, TypeOK
<1>. QED
  BY <1>1, <1>2, <1>3, EndIInv DEF IInv, TypeOK

LEMMA StopIInv == ASSUME ConstantsHold, IInv, Stop PROVE IInv'
<1>1. End /\ UNCHANGED <<want, factor, cluster, aside, counts, joined>>
  BY DEF Stop
<1>2. mishaps' \in 0..MaxMishaps
  BY Constants DEF Stop, Mishap, IInv, TypeOK
<1>. QED
  BY <1>1, <1>2, EndIInv DEF IInv, TypeOK

-----------------------------------------------------------------------------
(* The steps of a reset.                                                   *)

LEMMA StopNodeIInv == ASSUME ConstantsHold, IInv, StopNode PROVE IInv'
<1> DEFINE s == First(run.todo)
<1>1. /\ UNCHANGED <<want, factor, layout, aside, met, behind, counts, missing, joined, mishaps>>
      /\ At("stop") /\ garage' = [garage EXCEPT ![s] = "stopped"] /\ Past(s, "aside", run.changing)
  BY DEF StopNode
<1>2. run.todo \in SUBSET Sites /\ run.changing \in SUBSET Sites /\ run.todo # {}
  BY <1>1 DEF IInv, TypeOK, Runs, RunSound, At
<1>3. s \in run.todo
  BY <1>2, FirstIsOne
<1>. HIDE DEF s
<1>4. /\ run' \in Runs /\ SameOtherwise
      /\ \/ run.todo = {s} /\ run'.pc = "aside" /\ run'.todo = run.changing
         \/ run'.pc = "stop" /\ run'.todo = run.todo \ {s} /\ run'.todo # {}
  BY <1>1, <1>2, <1>3, PastRun DEF IInv, At, Pcs
<1>5. TypeOK'
  BY <1>1, <1>4 DEF IInv, TypeOK
<1>6. \A t \in Sites : garage'[t] = IF t = s THEN "stopped" ELSE garage[t]
  BY <1>1, <1>2, <1>3 DEF IInv, TypeOK
<1>7. Undeployed' /\ LayoutsFit' /\ MetAgree' /\ NotAbove'
  <2>1. Undeployed' /\ LayoutsFit' /\ NotAbove'
    BY <1>1, <1>6 DEF IInv, Undeployed, LayoutsFit, NotAbove, Running
  <2>2. met \subseteq Sites
    BY DEF IInv, TypeOK
  <2>. QED
    BY <1>1, <1>6, <2>1, <2>2 DEF IInv, MetAgree, Running
<1>8. RunSound'
  <2>1. \A t \in Sites : Deployed(t)' = Deployed(t)
    BY <1>1 DEF Deployed
  <2>2. /\ run.anchor \in Sites /\ run.want = want /\ \A t \in Sites : Deployed(t)
        /\ run.todo \subseteq run.changing /\ Changes(run.changing)
        /\ \A t \in run.changing \ run.todo : garage[t] = "stopped"
    BY <1>1 DEF IInv, RunSound, At
  <2>3. \A t \in run.changing : t \notin run.todo \/ t = s => garage'[t] = "stopped"
    BY <1>2, <1>6, <2>2
  <2>4. \A t \in Sites : t \in run'.changing <=> factor'[t] # want'
    BY <1>1, <1>4, <2>2 DEF Changes, SameOtherwise
  <2>5. CASE run.todo = {s} /\ run'.pc = "aside" /\ run'.todo = run.changing
    BY <1>1, <1>2, <1>4, <2>1, <2>2, <2>3, <2>4, <2>5 DEF RunSound, Changes, SameOtherwise
  <2>6. CASE run'.pc = "stop" /\ run'.todo = run.todo \ {s} /\ run'.todo # {}
    BY <1>1, <1>2, <1>4, <2>1, <2>2, <2>3, <2>4, <2>6 DEF RunSound, Changes, SameOtherwise
  <2>. QED
    BY <1>4, <2>5, <2>6
<1>. QED
  BY <1>5, <1>7, <1>8 DEF IInv

LEMMA SetAsideIInv == ASSUME ConstantsHold, IInv, SetAside PROVE IInv'
<1> DEFINE s == First(run.todo)
<1>1. /\ UNCHANGED <<want, factor, garage, met, counts, missing, joined, mishaps>>
      /\ At("aside")
  BY DEF SetAside
<1>2. /\ run.todo \in SUBSET Sites /\ run.changing \in SUBSET Sites /\ run.todo # {}
      /\ run.anchor \in Sites /\ run.want = want /\ \A t \in Sites : Deployed(t)
      /\ run.todo \subseteq run.changing /\ Changes(run.changing)
      /\ \A t \in run.changing : garage[t] = "stopped"
      /\ \A t \in run.changing \ run.todo : layout[t] = None
  BY <1>1 DEF IInv, TypeOK, Runs, RunSound, At
<1>3. s \in run.todo
  BY <1>2, FirstIsOne
<1> DEFINE Away == \/ UNCHANGED <<layout, aside, behind>> /\ layout[s] = None
                   \/ /\ aside' = [aside EXCEPT ![s] = @ \cup {factor[s]}]
                      /\ layout' = [layout EXCEPT ![s] = None] /\ behind' = behind \ {s}
<1>4. \/ Past(s, "write", run.changing) /\ Away
      \/ End /\ UNCHANGED <<layout, aside, behind>>
  BY DEF SetAside
<1>. HIDE DEF s
<1>5. CASE End /\ UNCHANGED <<layout, aside, behind>>
  <2>1. UNCHANGED <<want, factor, cluster, aside, joined, mishaps, counts>>
    BY <1>1, <1>5 DEF cluster
  <2>. QED
    BY <1>5, <2>1, EndIInv DEF IInv, TypeOK
<1>6. CASE Past(s, "write", run.changing) /\ Away
  <2>1. /\ run' \in Runs /\ SameOtherwise
        /\ \/ run.todo = {s} /\ run'.pc = "write" /\ run'.todo = run.changing
           \/ run'.pc = "aside" /\ run'.todo = run.todo \ {s} /\ run'.todo # {}
    BY <1>1, <1>2, <1>3, <1>6, PastRun DEF IInv, At, Pcs
  <2>2. /\ \A t \in Sites : layout'[t] = IF t = s THEN None ELSE layout[t]
        /\ layout' \in [Sites -> Layout \cup {None}]
    BY <1>2, <1>3, <1>6 DEF IInv, TypeOK
  <2>3. aside' \in [Sites -> SUBSET Factors] /\ behind' \subseteq Sites
    <3>1. factor[s] \in Factors
      BY <1>2, <1>3 DEF IInv, TypeOK, Deployed
    <3>. QED
      BY <1>2, <1>3, <1>6, <3>1 DEF IInv, TypeOK
  <2>4. TypeOK'
    BY <1>1, <2>1, <2>2, <2>3 DEF IInv, TypeOK
  <2>5. Undeployed' /\ LayoutsFit' /\ NotAbove'
    <3>1. garage[s] = "stopped"
      BY <1>2, <1>3
    <3>. QED
      BY <1>1, <2>2, <3>1 DEF IInv, Undeployed, LayoutsFit, NotAbove, Running
  <2>6. MetAgree'
    BY <1>1 DEF IInv, MetAgree, Running
  <2>7. RunSound'
    <3>1. \A t \in Sites : Deployed(t)' = Deployed(t)
      BY <1>1 DEF Deployed
    <3>2. \A t \in run.changing : t \notin run.todo \/ t = s => layout'[t] = None
      BY <1>2, <2>2
    <3>3. \A t \in Sites : t \in run'.changing <=> factor'[t] # want'
      BY <1>1, <1>2, <2>1 DEF Changes, SameOtherwise
    <3>4. CASE run.todo = {s} /\ run'.pc = "write" /\ run'.todo = run.changing
      BY <1>1, <1>2, <2>1, <3>1, <3>2, <3>3, <3>4 DEF RunSound, Changes, SameOtherwise
    <3>5. CASE run'.pc = "aside" /\ run'.todo = run.todo \ {s} /\ run'.todo # {}
      BY <1>1, <1>2, <2>1, <3>1, <3>2, <3>3, <3>5 DEF RunSound, Changes, SameOtherwise
    <3>. QED
      BY <2>1, <3>4, <3>5
  <2>. QED
    BY <2>4, <2>5, <2>6, <2>7 DEF IInv
<1>. QED
  BY <1>4, <1>5, <1>6

LEMMA WriteTomlIInv == ASSUME ConstantsHold, IInv, WriteToml PROVE IInv'
<1> DEFINE s == First(run.todo)
<1>1. /\ UNCHANGED <<want, cluster, aside, counts, joined, mishaps>>
      /\ At("write") /\ factor' = [factor EXCEPT ![s] = run.want] /\ Past(s, "start", Sites)
  BY DEF WriteToml
<1>2. /\ run.todo \in SUBSET Sites /\ run.todo # {}
      /\ run.anchor \in Sites /\ run.want = want /\ \A t \in Sites : Deployed(t)
      /\ Changes(run.todo)
      /\ \A t \in run.todo : garage[t] = "stopped" /\ layout[t] = None
  BY <1>1 DEF IInv, TypeOK, Runs, RunSound, At
<1>3. s \in run.todo
  BY <1>2, FirstIsOne
<1>. HIDE DEF s
<1>4. /\ run' \in Runs /\ SameOtherwise
      /\ \/ run.todo = {s} /\ run'.pc = "start" /\ run'.todo = Sites
         \/ run'.pc = "write" /\ run'.todo = run.todo \ {s} /\ run'.todo # {}
  BY <1>1, <1>2, <1>3, PastRun DEF IInv, At, Pcs
<1>5. UNCHANGED <<garage, layout, met, behind, missing>>
  BY <1>1 DEF cluster
<1>6. /\ \A t \in Sites : factor'[t] = IF t = s THEN want ELSE factor[t]
      /\ factor' \in [Sites -> Factors \cup {None}] /\ want \in Factors
  BY <1>1, <1>2, <1>3 DEF IInv, TypeOK
<1>7. TypeOK'
  BY <1>1, <1>4, <1>5, <1>6 DEF IInv, TypeOK
<1>8. \A t \in Sites : factor'[t] # want <=> t \in run.todo /\ t # s
  BY <1>2, <1>6 DEF Changes
<1>9. Undeployed' /\ LayoutsFit'
  BY <1>2, <1>3, <1>5, <1>6, Constants DEF IInv, Undeployed, LayoutsFit, Running
<1>10. NotAbove'
  BY <1>1, <1>6, Constants DEF IInv, NotAbove
<1>11. MetAgree'
  <2>1. met \subseteq Sites
    BY DEF IInv, TypeOK
  <2>2. \A t \in met : Running(t)' => factor'[t] = want
    BY <1>2, <1>5, <1>8, <2>1 DEF Running
  <2>. QED
    BY <1>1, <1>5, <2>2 DEF MetAgree
<1>12. RunSound'
  <2>1. \A t \in Sites : factor'[t] # None
    BY <1>2, <1>6, Constants DEF Deployed
  <2>2. CASE run.todo = {s} /\ run'.pc = "start" /\ run'.todo = Sites
    BY <1>1, <1>2, <1>4, <1>8, <2>1, <2>2 DEF RunSound, Deployed, SameOtherwise
  <2>3. CASE run'.pc = "write" /\ run'.todo = run.todo \ {s} /\ run'.todo # {}
    BY <1>1, <1>2, <1>4, <1>5, <1>8, <2>1, <2>3 DEF RunSound, Changes, Deployed, SameOtherwise
  <2>. QED
    BY <1>4, <2>2, <2>3
<1>. QED
  BY <1>7, <1>9, <1>10, <1>11, <1>12 DEF IInv

-----------------------------------------------------------------------------
(* Garage starting, on the layout of its factor or without one.            *)

LEMMA StartsFits ==
    ASSUME ConstantsHold, IInv, NEW s \in Sites, NEW f \in Factors, Starts(s, f),
           layout[s] # None => layout[s].factor = f
    PROVE  /\ garage' = [garage EXCEPT ![s] = "up"]
           /\ layout' \in [Sites -> Layout \cup {None}]
           /\ \A t \in Sites : t # s \/ layout[s] # None => layout'[t] = layout[t]
           /\ layout'[s] # None /\ layout'[s].factor = f
<1>1. Fresh(f) \in Layout /\ Fresh(f).factor = f /\ Fresh(f) # None
  BY FreshLayout DEF ConstantsHold
<1>2. garage' = [garage EXCEPT ![s] = "up"]
  BY DEF Starts
<1>3. layout' = IF layout[s] = None THEN [layout EXCEPT ![s] = Fresh(f)] ELSE layout
  BY DEF Starts
<1>. QED
  BY <1>1, <1>2, <1>3 DEF IInv, TypeOK

(* Whoever acts beside a run, it goes on from what it knew: the sites it   *)
(* has stopped and set aside are still not those of the new factor.        *)
LEMMA RunBeside ==
    ASSUME IInv, UNCHANGED <<run, want>>,
           run.pc # "idle" =>
               /\ UNCHANGED factor
               /\ \A s \in Sites : factor[s] # want /\ garage[s] = "stopped"
                     => garage'[s] = "stopped" /\ (layout[s] = None => layout'[s] = None)
    PROVE  RunSound'
<1>1. CASE run.pc = "idle"
  BY <1>1 DEF RunSound
<1>2. CASE run.pc # "idle"
  <2>1. run.changing \subseteq Sites /\ run.todo \subseteq Sites
    BY DEF IInv, TypeOK, Runs
  <2>. QED
    BY <1>2, <2>1 DEF IInv, RunSound, Changes, Deployed
<1>. QED
  BY <1>1, <1>2

LEMMA StartNodeIInv == ASSUME ConstantsHold, IInv, StartNode PROVE IInv'
<1> DEFINE s == First(run.todo)
<1>1. /\ UNCHANGED <<want, factor, aside, met, behind, counts, missing, joined, mishaps>>
      /\ At("start") /\ Past(s, "started", {})
      /\ UNCHANGED <<garage, layout>> \/ Starts(s, factor[s])
  BY DEF StartNode
<1>2. /\ run.todo \in SUBSET Sites /\ run.todo # {} /\ run.want = want /\ run.anchor \in Sites
      /\ \A t \in Sites : factor[t] = want
  BY <1>1 DEF IInv, TypeOK, Runs, RunSound, At
<1>3. s \in run.todo /\ s \in Sites /\ want \in Factors
  BY <1>2, FirstIsOne DEF IInv, TypeOK
<1>. HIDE DEF s
<1>4. /\ run' \in Runs /\ SameOtherwise
      /\ \/ run'.pc = "started"
         \/ run'.pc = "start" /\ run'.todo # {}
  BY <1>1, <1>2, <1>3, PastRun DEF IInv, At, Pcs
<1>5. /\ layout' \in [Sites -> Layout \cup {None}]
      /\ garage' \in [Sites -> {"up", "down", "stopped", "refused"}]
      /\ LayoutsFit'
  <2>1. CASE UNCHANGED <<garage, layout>>
    BY <1>1, <2>1 DEF IInv, TypeOK, LayoutsFit, Running
  <2>2. CASE Starts(s, factor[s])
    <3>1. layout[s] # None => layout[s].factor = want
      BY <1>2, <1>3 DEF IInv, LayoutsFit
    <3>2. /\ garage' = [garage EXCEPT ![s] = "up"]
          /\ layout' \in [Sites -> Layout \cup {None}]
          /\ \A t \in Sites : t # s => layout'[t] = layout[t]
          /\ layout'[s] # None /\ layout'[s].factor = want
      BY <1>2, <1>3, <2>2, <3>1, StartsFits
    <3>3. \A t \in Sites : garage'[t] = IF t = s THEN "up" ELSE garage[t]
      BY <1>3, <3>2 DEF IInv, TypeOK
    <3>. QED
      BY <1>1, <1>2, <3>2, <3>3 DEF IInv, TypeOK, LayoutsFit, Running
  <2>. QED
    BY <1>1, <2>1, <2>2
<1>6. TypeOK'
  BY <1>1, <1>4, <1>5 DEF IInv, TypeOK
<1>7. Undeployed' /\ NotAbove' /\ MetAgree'
  BY <1>1, <1>2, <1>3, <1>6, Constants DEF IInv, TypeOK, Undeployed, NotAbove, MetAgree
<1>8. RunSound'
  BY <1>1, <1>2, <1>3, <1>4, Constants DEF RunSound, Deployed, SameOtherwise
<1>. QED
  BY <1>5, <1>6, <1>7, <1>8 DEF IInv

-----------------------------------------------------------------------------
(* Joining the nodes.                                                      *)

LEMMA ConnectIInv == ASSUME ConstantsHold, IInv, Connect PROVE IInv'
<1> DEFINE s == First(run.todo)
<1>1. /\ UNCHANGED <<want, factor, garage, layout, aside, behind, counts, missing, joined, mishaps>>
      /\ At("connect") /\ run.todo # {}
      /\ \/ met' = met \cup {run.anchor, s} /\ Past(s, "connect", {})
         \/ End /\ UNCHANGED met
  BY DEF Connect
<1>2. /\ run.todo \in SUBSET Sites /\ run.anchor \in Sites /\ run.want = want
      /\ \A t \in Sites : factor[t] = want
  BY <1>1 DEF IInv, TypeOK, Runs, RunSound, At
<1>3. s \in run.todo /\ want \in Factors
  BY <1>1, <1>2, FirstIsOne DEF IInv, TypeOK
<1>. HIDE DEF s
<1>4. run' \in Runs /\ RunSound' /\ met' \subseteq Sites
  <2>1. CASE End /\ UNCHANGED met
    BY <2>1, EndRun DEF IInv, TypeOK
  <2>2. CASE met' = met \cup {run.anchor, s} /\ Past(s, "connect", {})
    <3>1. run' \in Runs /\ SameOtherwise /\ run'.pc = "connect"
      BY <1>1, <1>3, <2>2, PastRun DEF IInv, At, Pcs
    <3>. QED
      BY <1>1, <1>2, <1>3, <2>2, <3>1, Constants
      DEF IInv, TypeOK, RunSound, Deployed, SameOtherwise
  <2>. QED
    BY <1>1, <2>1, <2>2
<1>5. TypeOK'
  BY <1>1, <1>4 DEF IInv, TypeOK
<1>6. Undeployed' /\ LayoutsFit' /\ NotAbove' /\ MetAgree'
  BY <1>1, <1>2, <1>3, <1>4, Constants
  DEF IInv, Undeployed, LayoutsFit, NotAbove, MetAgree, Running
<1>. QED
  BY <1>4, <1>5, <1>6 DEF IInv

(* A layout that changes while it stays, with its factor.                  *)
LEMMA LayoutMoved ==
    ASSUME IInv, UNCHANGED <<want, factor, garage, met>>,
           layout' \in [Sites -> Layout \cup {None}],
           \A s \in Sites : /\ layout'[s] = None <=> layout[s] = None
                            /\ layout[s] # None => layout'[s].factor = layout[s].factor
    PROVE  Undeployed' /\ LayoutsFit' /\ MetAgree' /\ NotAbove'
  BY DEF IInv, Undeployed, LayoutsFit, MetAgree, NotAbove, Running

LEMMA AnsweringLayout ==
    ASSUME ConstantsHold, IInv, NEW a \in Sites, Answers(a)
    PROVE  layout[a] \in Layout /\ layout[a] # None
  BY DEF IInv, TypeOK, LayoutsFit, Running, Answers

LEMMA AssignIInv == ASSUME ConstantsHold, IInv, Assign PROVE IInv'
<1> DEFINE a == run.anchor
           s == First(run.todo)
           new == [layout EXCEPT ![a].staged = @ \cup {s}]
<1>1. /\ UNCHANGED <<want, factor, garage, aside, met, behind, counts, missing, joined, mishaps>>
      /\ At("assign") /\ run.todo # {}
      /\ \/ layout' = layout /\ (Past(s, "assign", {}) \/ End)
         \/ Answers(a) /\ layout' = new /\ Past(s, "assign", {})
  BY DEF Assign
<1>2. /\ run.todo \in SUBSET Sites /\ run.anchor \in Sites /\ run.want = want
      /\ \A t \in Sites : factor[t] = want
  BY <1>1 DEF IInv, TypeOK, Runs, RunSound, At
<1>3. s \in run.todo /\ want \in Factors
  BY <1>1, <1>2, FirstIsOne DEF IInv, TypeOK
<1>. HIDE DEF s
<1>4. run' \in Runs /\ RunSound'
  <2>1. CASE End
    BY <2>1, EndRun
  <2>2. CASE Past(s, "assign", {})
    <3>1. run' \in Runs /\ SameOtherwise /\ run'.pc = "assign"
      BY <1>1, <1>3, <2>2, PastRun DEF IInv, At, Pcs
    <3>. QED
      BY <1>1, <1>2, <1>3, <3>1, Constants DEF RunSound, Deployed, SameOtherwise
  <2>. QED
    BY <1>1, <2>1, <2>2
<1>5. /\ layout' \in [Sites -> Layout \cup {None}]
      /\ \A t \in Sites : /\ layout'[t] = None <=> layout[t] = None
                          /\ layout[t] # None => layout'[t].factor = layout[t].factor
  <2>1. CASE layout' = layout
    BY <2>1 DEF IInv, TypeOK
  <2>2. CASE Answers(a) /\ layout' = new
    <3>1. layout[a] \in Layout /\ layout[a] # None
      BY <1>2, <2>2, AnsweringLayout
    <3>2. [layout[a] EXCEPT !.staged = @ \cup {s}] \in Layout
          /\ [layout[a] EXCEPT !.staged = @ \cup {s}].factor = layout[a].factor
      BY <1>2, <1>3, <3>1 DEF Layout
    <3>3. None \notin Layout
      BY DEF ConstantsHold
    <3>. QED
      BY <1>2, <2>2, <3>1, <3>2, <3>3 DEF IInv, TypeOK
  <2>. QED
    BY <1>1, <2>1, <2>2
<1>6. TypeOK'
  BY <1>1, <1>4, <1>5 DEF IInv, TypeOK
<1>. QED
  BY <1>1, <1>4, <1>5, <1>6, LayoutMoved DEF IInv

LEMMA AppliedLayout ==
    ASSUME NEW l \in Layout, NEW S \in SUBSET Sites
    PROVE  LET applied == [l EXCEPT !.version = @ + 1, !.roles = @ \cup S, !.staged = {}]
           IN  applied \in Layout /\ applied.factor = l.factor
<1>1. /\ l.version \in Nat /\ l.roles \in SUBSET Sites
      /\ l = [factor |-> l.factor, version |-> l.version, roles |-> l.roles, staged |-> l.staged]
  BY DEF Layout
<1>2. l.roles \cup S \in SUBSET Sites /\ l.version + 1 \in Nat
  BY <1>1
<1>. QED
  BY <1>1, <1>2 DEF Layout

LEMMA ApplyLayoutIInv == ASSUME ConstantsHold, IInv, ApplyLayout PROVE IInv'
<1> DEFINE a == run.anchor
           l == layout[a]
           new == [layout EXCEPT ![a].version = @ + 1,
                                 ![a].roles = @ \cup l.staged, ![a].staged = {}]
<1>1. /\ UNCHANGED <<want, factor, garage, aside, met, counts, joined, mishaps>>
      /\ At("assign") /\ (To("agree", {}) \/ End)
      /\ \/ layout' = layout /\ UNCHANGED <<behind, missing>>
         \/ /\ Answers(a) /\ layout' = new /\ behind' = behind \cup {a}
            /\ missing' \in BOOLEAN \/ UNCHANGED missing
  BY DEF ApplyLayout
<1>2. /\ run.anchor \in Sites /\ run.want = want /\ \A t \in Sites : factor[t] = want
      /\ want \in Factors
  BY <1>1 DEF IInv, TypeOK, Runs, RunSound, At
<1>3. run' \in Runs /\ RunSound'
  <2>1. CASE End
    BY <2>1, EndRun
  <2>2. CASE To("agree", {})
    BY <1>1, <1>2, <2>2, ToRun, Constants DEF IInv, RunSound, Deployed, SameOtherwise, Pcs
  <2>. QED
    BY <1>1, <2>1, <2>2
<1>4. /\ layout' \in [Sites -> Layout \cup {None}]
      /\ \A t \in Sites : /\ layout'[t] = None <=> layout[t] = None
                          /\ layout[t] # None => layout'[t].factor = layout[t].factor
  <2>1. CASE layout' = layout
    BY <2>1 DEF IInv, TypeOK
  <2>2. CASE Answers(a) /\ layout' = new
    <3> DEFINE l2 == [l EXCEPT !.version = @ + 1, !.roles = @ \cup l.staged, !.staged = {}]
    <3>1. l \in Layout /\ l # None
      BY <1>2, <2>2, AnsweringLayout
    <3>2. l2 \in Layout /\ l2.factor = l.factor
      <4>1. l.staged \in SUBSET Sites
        BY <3>1 DEF Layout
      <4>. HIDE DEF l
      <4>. QED
        BY <3>1, <4>1, AppliedLayout
    <3>3. None \notin Layout
      BY DEF ConstantsHold
    <3>4. layout' = [layout EXCEPT ![a] = l2]
      BY <1>2, <2>2 DEF IInv, TypeOK
    <3>. HIDE DEF l2
    <3>. QED
      BY <1>2, <3>1, <3>2, <3>3, <3>4 DEF IInv, TypeOK
  <2>. QED
    BY <1>1, <2>1, <2>2
<1>5. behind' \subseteq Sites
  BY <1>1, <1>2 DEF IInv, TypeOK
<1>6. missing' \in BOOLEAN
  BY <1>1 DEF IInv, TypeOK
<1>7. TypeOK'
  BY <1>1, <1>3, <1>4, <1>5, <1>6 DEF IInv, TypeOK
<1>. QED
  BY <1>1, <1>3, <1>4, <1>7, LayoutMoved DEF IInv

-----------------------------------------------------------------------------
(* What happens beside a run.                                              *)

LEMMA DownIInv == ASSUME ConstantsHold, IInv, NEW s \in Sites, Down(s) PROVE IInv'
<1>1. /\ UNCHANGED <<want, factor, layout, aside, met, behind, counts, missing, joined, run>>
      /\ garage[s] = "up" /\ garage' = [garage EXCEPT ![s] = "down"]
  BY DEF Down
<1>2. mishaps' \in 0..MaxMishaps
  BY Constants DEF Down, Mishap, IInv, TypeOK
<1>3. \A t \in Sites : garage'[t] = IF t = s THEN "down" ELSE garage[t]
  BY <1>1 DEF IInv, TypeOK
<1>4. TypeOK'
  BY <1>1, <1>2 DEF IInv, TypeOK
<1>5. Undeployed' /\ LayoutsFit' /\ NotAbove'
  BY <1>1, <1>3 DEF IInv, Undeployed, LayoutsFit, NotAbove, Running
<1>6. MetAgree'
  BY <1>1, <1>3 DEF IInv, TypeOK, MetAgree, Running
<1>7. RunSound'
  BY <1>1, <1>3, RunBeside
<1>. QED
  BY <1>4, <1>5, <1>6, <1>7 DEF IInv

(* Garage starts on a site, at the factor the site has or is given.        *)
LEMMA StartingIInv ==
    ASSUME ConstantsHold, IInv, NEW s \in Sites, NEW f \in Factors, Starts(s, f),
           factor' = [factor EXCEPT ![s] = f], factor[s] \in {None, f},
           factor[s] = None => f = want,
           garage[s] = "down" \/ (garage[s] = "stopped" /\ f = want),
           UNCHANGED <<want, aside, met, behind, counts, missing, joined, run, mishaps>>
    PROVE  IInv'
<1>1. layout[s] # None => layout[s].factor = f
  BY DEF IInv, LayoutsFit, Undeployed
<1>2. /\ garage' = [garage EXCEPT ![s] = "up"]
      /\ layout' \in [Sites -> Layout \cup {None}]
      /\ \A t \in Sites : t # s \/ layout[s] # None => layout'[t] = layout[t]
      /\ layout'[s] # None /\ layout'[s].factor = f
  BY <1>1, StartsFits
<1>3. \A t \in Sites : /\ garage'[t] = IF t = s THEN "up" ELSE garage[t]
                       /\ factor'[t] = IF t = s THEN f ELSE factor[t]
  BY <1>2 DEF IInv, TypeOK
<1>4. TypeOK'
  BY <1>2 DEF IInv, TypeOK
<1>5. Undeployed' /\ LayoutsFit'
  BY <1>2, <1>3, Constants DEF IInv, Undeployed, LayoutsFit, Running
<1>6. NotAbove'
  BY <1>3, Constants DEF IInv, TypeOK, NotAbove
<1>7. MetAgree'
  <2>1. s \in met => factor[s] = f
    BY DEF IInv, Undeployed
  <2>2. \A t \in met : t \in Sites
    BY DEF IInv, TypeOK
  <2>3. Running(s) \/ f = want
    BY DEF Running
  <2>. QED
    BY <1>3, <2>1, <2>2, <2>3 DEF IInv, MetAgree, Running
<1>8. RunSound'
  <2>1. ASSUME run.pc # "idle" PROVE factor[s] = f /\ UNCHANGED factor
    BY <2>1 DEF IInv, TypeOK, RunSound, Deployed
  <2>2. ASSUME run.pc # "idle", NEW t \in Sites, factor[t] # want, garage[t] = "stopped"
        PROVE  garage'[t] = "stopped" /\ (layout[t] = None => layout'[t] = None)
    BY <1>2, <1>3, <2>1, <2>2
  <2>. QED
    BY <2>1, <2>2, RunBeside
<1>. QED
  BY <1>4, <1>5, <1>6, <1>7, <1>8 DEF IInv

LEMMA RecoverIInv == ASSUME ConstantsHold, IInv, NEW s \in Sites, Recover(s) PROVE IInv'
<1>1. /\ UNCHANGED <<want, factor, aside, met, behind, counts, missing, joined, run, mishaps>>
      /\ garage[s] = "down" /\ Starts(s, factor[s])
  BY DEF Recover
<1>2. factor[s] \in Factors /\ factor[s] # None /\ factor' = [factor EXCEPT ![s] = factor[s]]
  BY <1>1 DEF IInv, TypeOK, Undeployed
<1>. QED
  BY <1>1, <1>2, StartingIInv

LEMMA ApplyIInv == ASSUME ConstantsHold, IInv, NEW s \in Sites, Apply(s) PROVE IInv'
<1>1. want \in Factors
  BY DEF IInv, TypeOK
<1>. QED
  BY <1>1, StartingIInv DEF Apply

LEMMA RaiseIInv == ASSUME ConstantsHold, IInv, Raise PROVE IInv'
<1>1. /\ UNCHANGED <<factor, cluster, aside, counts, run, mishaps>> /\ UNCHANGED missing
      /\ run = Idle /\ want' \in Factors /\ want' > want /\ joined' = FALSE
  BY DEF Raise, cluster
<1>2. UNCHANGED <<garage, layout, met, behind>>
  BY <1>1 DEF cluster
<1>3. TypeOK'
  BY <1>1, <1>2 DEF IInv, TypeOK
<1>4. \A s \in Sites : factor[s] # None => factor[s] <= want' /\ factor[s] # want'
  BY <1>1, Constants DEF IInv, TypeOK, NotAbove
<1>5. Undeployed' /\ LayoutsFit' /\ NotAbove'
  BY <1>1, <1>2, <1>4 DEF IInv, Undeployed, LayoutsFit, NotAbove, Running
<1>6. MetAgree'
  BY <1>1, <1>2, <1>4 DEF IInv, TypeOK, Undeployed, MetAgree, Running
<1>7. RunSound'
  BY <1>1, IdleRun DEF RunSound
<1>. QED
  BY <1>3, <1>5, <1>6, <1>7 DEF IInv

LEMMA SpreadIInv ==
    ASSUME ConstantsHold, IInv, NEW s \in Sites, NEW t \in Sites, Spread(s, t) PROVE IInv'
<1>1. /\ UNCHANGED <<want, factor, garage, aside, met, counts, missing, joined, run, mishaps>>
      /\ {s, t} \subseteq met /\ Answers(s) /\ Answers(t)
      /\ layout' = [layout EXCEPT ![s] = layout[t]]
      /\ behind' = behind \cup {s} \/ behind' = behind
  BY DEF Spread
<1>2. /\ layout[s] # None /\ layout[t] # None /\ layout[t] \in Layout
      /\ layout[s].factor = layout[t].factor /\ garage[s] # "stopped"
  BY <1>1 DEF IInv, TypeOK, LayoutsFit, MetAgree, Running, Answers
<1>3. layout' \in [Sites -> Layout \cup {None}] /\ behind' \subseteq Sites
  BY <1>1, <1>2 DEF IInv, TypeOK
<1>4. \A u \in Sites : layout'[u] = IF u = s THEN layout[t] ELSE layout[u]
  BY <1>1 DEF IInv, TypeOK
<1>5. TypeOK'
  BY <1>1, <1>3 DEF IInv, TypeOK
<1>6. Undeployed' /\ LayoutsFit' /\ MetAgree' /\ NotAbove'
  BY <1>1, <1>2, <1>3, <1>4, LayoutMoved
<1>7. RunSound'
  BY <1>1, <1>2, <1>4, RunBeside
<1>. QED
  BY <1>5, <1>6, <1>7 DEF IInv

LEMMA DataIInv ==
    ASSUME ConstantsHold, IInv, Converge \/ \E s \in Sites : Receive(s) PROVE IInv'
<1>1. UNCHANGED <<want, factor, garage, layout, aside, met, counts, joined, run, mishaps>>
  BY DEF Converge, Receive
<1>2. behind' \subseteq Sites
  BY DEF Converge, Receive, IInv, TypeOK
<1>3. missing' \in BOOLEAN
  BY DEF Converge, Receive, IInv, TypeOK
<1>4. TypeOK'
  BY <1>1, <1>2, <1>3 DEF IInv, TypeOK
<1>5. RunSound'
  BY <1>1, RunBeside
<1>. QED
  BY <1>1, <1>4, <1>5, SitesKept DEF IInv

-----------------------------------------------------------------------------
LEMMA NextIInv == ConstantsHold /\ IInv /\ [Next]_vars => IInv'
<1> SUFFICES ASSUME ConstantsHold, IInv, [Next]_vars PROVE IInv'
  OBVIOUS
<1>1. CASE UNCHANGED vars
  <2>1. UNCHANGED <<want, factor, cluster, aside, counts, joined, run, mishaps>>
    BY <1>1 DEF vars, cluster
  <2>2. UNCHANGED <<want, factor, garage, layout, met>>
    BY <2>1 DEF cluster
  <2>3. RunSound'
    BY <2>1, <2>2, RunBeside
  <2>. QED
    BY <2>1, <2>3, RunMoved DEF IInv, TypeOK
<1>2. CASE RunStep
  BY <1>2, GatesIInv, CountIInv, StopNodeIInv, SetAsideIInv, WriteTomlIInv, StartNodeIInv,
     ConnectIInv, ConnectedIInv, AssignIInv, ApplyLayoutIInv, ProvisionedIInv DEF RunStep
<1>3. CASE Garages
  BY <1>3, RecoverIInv, SpreadIInv, DataIInv DEF Garages
<1>4. CASE Plan \/ Stop \/ Raise \/ \E s \in Sites : Down(s) \/ Apply(s)
  BY <1>4, PlanIInv, StopIInv, RaiseIInv, DownIInv, ApplyIInv
<1>. QED
  BY <1>1, <1>2, <1>3, <1>4 DEF Next

THEOREM Invariance == ASSUME ConstantsHold PROVE Spec => []IInv
  BY InitIInv, NextIInv, PTL DEF Spec

(* Every variable keeps its type. *)
THEOREM TypeCorrect == ASSUME ConstantsHold PROVE Spec => []TypeOK
<1>1. IInv => TypeOK
  BY DEF IInv
<1>. QED
  BY <1>1, Invariance, PTL

(* Wherever runs stop, whichever Garage stops by itself meanwhile, and     *)
(* however often the factor is raised between two runs, no Garage is ever  *)
(* started on a layout of another factor, and no two that run and know     *)
(* each other have different ones.                                         *)
THEOREM FactorsAgree == ASSUME ConstantsHold PROVE Spec => []OneFactor
<1>1. IInv => OneFactor
  BY DEF IInv, TypeOK, LayoutsFit, MetAgree, OneFactor, Running, Answers
<1>. QED
  BY <1>1, Invariance, PTL

-----------------------------------------------------------------------------
(* NothingMissing, with the one anchor that OneAnchor assumes.             *)
Has(s) == layout[s] # None
Old(s) == factor[s] = FirstFactor
Raised == want # FirstFactor
Mixed  == \E s \in Sites : factor[s] # want

Values ==
    /\ want >= FirstFactor
    /\ \A s \in Sites : factor[s] \in {None, FirstFactor, want}

(* A node's first layout has no role,                                      *)
Blank == \A s \in Sites : Has(s) /\ layout[s].version = 0 => layout[s].roles = {}

(* and a newer layout of the cluster as it was all those of an older one,  *)
Grown ==
    \A s, t \in Sites : Old(s) /\ Old(t) /\ Has(s) /\ Has(t) /\ layout[s].version <= layout[t].version
                          => layout[s].roles \subseteq layout[t].roles

(* of which the foremost site has the newest.                              *)
Newest ==
    Old(Foremost) /\ Has(Foremost) =>
        \A s \in Sites : Old(s) /\ Has(s) => layout[s].version <= layout[Foremost].version

Layouts == Values /\ Blank /\ Grown /\ Newest

(* The foremost site is as it was before the reset.                        *)
InPlace == garage[Foremost] = "up" /\ Old(Foremost) /\ Has(Foremost) /\ Foremost \in layout[Foremost].roles

Agreed ==
    /\ \A s \in Sites : Has(s) /\ layout[s].roles = Sites
    /\ \A s, t \in Sites : layout[s].version = layout[t].version

Late == {"start", "started", "connect", "assign", "agree", "sync", "provision"}

(* A run that ends sets joined, and every count is of all objects.         *)
Ended == NothingMissing /\ (run.pc # "idle" => ~joined)
Counted == \A s \in Sites : counts[s] # Fewer

(* Until the factor is raised nothing is reset.                            *)
BeforeRaise ==
    ~Raised => /\ \A s \in Sites : counts[s] = None
               /\ ~missing /\ InPlace
               /\ run.pc \in {"idle", "connect", "assign", "agree", "sync", "provision"}
               /\ run.pc # "idle" => run.anchor = Foremost

(* While sites have the old factor or none, nothing is missing, no node    *)
(* that has the new one has a role, and the foremost site has counted by   *)
(* the time it is stopped. *)
WhileMixed ==
    Raised /\ Mixed => /\ ~missing
                       /\ \A s \in Sites : factor[s] = want /\ Has(s) => layout[s].version = 0
                       /\ counts[Foremost] = All \/ InPlace

(* When it has no count any more the join has come to its end.             *)
Rejoined ==
    Raised /\ ~Mixed /\ counts[Foremost] = None =>
        Agreed /\ ~missing /\ (run.pc = "assign" => run.saw.roles = Sites)

(* A run's anchor counts before it stops a site.                           *)
RunKnows ==
    Raised =>
    /\ run.pc \in {"settle", "count"} =>
         /\ run.counted => counts[run.anchor] # None
         /\ ~run.counted => /\ Mixed /\ Old(run.anchor) /\ Has(run.anchor)
                            /\ run.anchor \in layout[run.anchor].roles
         /\ Mixed => run.anchor = Foremost \/ counts[Foremost] = All
    /\ run.pc \in {"stop", "aside", "write"} => counts[run.anchor] # None /\ counts[Foremost] = All
    /\ run.pc \in Late => counts[run.anchor] # None \/ counts[Foremost] = None

Agreeing == run.pc \in {"sync", "provision"} => Agreed

Knows == Ended /\ Counted /\ BeforeRaise /\ WhileMixed /\ Rejoined /\ RunKnows /\ Agreeing

MInv == IInv /\ Layouts /\ Knows

LEMMA ForemostIs ==
    ASSUME ConstantsHold, OneAnchor
    PROVE  /\ Foremost \in Sites /\ Foremost \notin Failing /\ Foremost \in OldSites
           /\ \A S \in SUBSET Sites : Foremost \in S => First(S) = Foremost
<1>1. Foremost \in Sites /\ Foremost \notin Failing /\ Foremost \in OldSites
  BY Constants DEF OneAnchor
<1>2. Len(Order) \in Nat /\ DOMAIN Order = 1..Len(Order)
  BY DEF ConstantsHold
<1>3. 1 \in DOMAIN Order
  <2>1. PICK i \in DOMAIN Order : Order[i] = Foremost
    BY <1>1 DEF Sites
  <2>. QED
    BY <1>2, <2>1
<1>4. ASSUME NEW S \in SUBSET Sites, Foremost \in S
      PROVE  First(S) = Foremost
  <2> DEFINE P(i) == Order[i] \in S /\ \A j \in 1..(i - 1) : Order[j] \notin S
             c == CHOOSE i \in DOMAIN Order : P(i)
  <2>1. P(1)
    BY <1>4 DEF Foremost
  <2>2. c \in DOMAIN Order /\ P(c)
    BY <1>3, <2>1
  <2>. HIDE DEF c
  <2>3. c = 1
    <3>1. c \in Nat /\ c >= 1
      BY <1>2, <2>2
    <3>2. ASSUME c # 1
          PROVE  FALSE
      <4>1. 1 \in 1..(c - 1)
        BY <3>1, <3>2
      <4>. QED
        BY <1>4, <2>2, <4>1 DEF Foremost
    <3>. QED
      BY <3>2
  <2>. QED
    BY <2>3 DEF First, Foremost, c
<1>. QED
  BY <1>1, <1>4

(* What is on the sites as it was leaves these as they were.               *)
LEMMA SitesAsWere ==
    ASSUME Layouts, UNCHANGED <<want, factor, garage, layout>>
    PROVE  Layouts' /\ (InPlace' <=> InPlace) /\ (Mixed' <=> Mixed) /\ (Agreed' <=> Agreed)
           /\ (Raised' <=> Raised)
BY DEF Layouts, Values, Blank, Grown, Newest, InPlace, Mixed, Agreed, Raised, Has, Old

(* A run that ends.                                                        *)
LEMMA EndKnows ==
    ASSUME Layouts, Knows, End, UNCHANGED <<want, factor, garage, layout, counts, missing, joined>>
    PROVE  Layouts' /\ Knows'
<1>1. run'.pc = "idle"
  BY IdleRun DEF End
<1>2. /\ Layouts' /\ (InPlace' <=> InPlace) /\ (Mixed' <=> Mixed) /\ (Agreed' <=> Agreed)
      /\ (Raised' <=> Raised)
  BY SitesAsWere
<1>3. Ended' /\ Counted'
  BY <1>1 DEF Knows, Ended, Counted, NothingMissing
<1>4. BeforeRaise' /\ WhileMixed'
  BY <1>1, <1>2 DEF Knows, BeforeRaise, WhileMixed, Has
<1>5. Rejoined' /\ RunKnows' /\ Agreeing'
  BY <1>1, <1>2 DEF Knows, Rejoined, RunKnows, Agreeing, Late
<1>. QED
  BY <1>2, <1>3, <1>4, <1>5 DEF Knows

(* A run that goes on after its reset, or had none.                        *)
LEMMA LateKnows ==
    ASSUME Layouts, Knows, UNCHANGED <<want, factor, garage, layout, counts, missing, joined>>,
           run.pc \in Late, run'.anchor = run.anchor,
           run'.pc \in {"connect", "assign", "agree", "sync", "provision"},
           run'.pc \in {"sync", "provision"} => Agreed,
           run'.pc = "assign" => \/ Agreed => run'.saw.roles = Sites
                                 \/ run.pc = "assign" /\ run'.saw = run.saw
    PROVE  Layouts' /\ Knows'
<1>1. run.pc # "idle" /\ run'.pc # "idle" /\ run'.pc \in Late /\ run'.pc \notin {"settle", "count", "stop", "aside", "write"}
  BY DEF Late
<1>2. /\ Layouts' /\ (InPlace' <=> InPlace) /\ (Mixed' <=> Mixed) /\ (Agreed' <=> Agreed)
      /\ (Raised' <=> Raised)
  BY SitesAsWere
<1>3. Ended' /\ Counted'
  BY <1>1 DEF Knows, Ended, Counted, NothingMissing
<1>4. BeforeRaise' /\ WhileMixed'
  BY <1>1, <1>2 DEF Knows, BeforeRaise, WhileMixed, Has
<1>5. Rejoined'
  BY <1>1, <1>2 DEF Knows, Rejoined
<1>6. RunKnows' /\ Agreeing'
  BY <1>1, <1>2 DEF Knows, RunKnows, Agreeing
<1>. QED
  BY <1>2, <1>3, <1>4, <1>5, <1>6 DEF Knows

LEMMA GatesKnow ==
    ASSUME ConstantsHold, MInv, Settle \/ Started \/ Agree \/ Synced \/ Stop
    PROVE  Layouts' /\ Knows'
<1>t. TypeOK /\ IInv /\ Layouts /\ Knows /\ run \in Runs
  BY DEF MInv, IInv, TypeOK
<1>1. UNCHANGED <<want, factor, garage, layout, counts, missing, joined>>
  BY DEF Settle, Started, Agree, Synced, Stop, cluster
<1>2. CASE End
  BY <1>1, <1>2, <1>t, EndKnows
<1>3. CASE Settle /\ To("count", {})
  <2>1. run'.pc = "count" /\ run.pc = "settle" /\ run'.anchor = run.anchor /\ run'.counted = run.counted
    BY <1>3, <1>t, ToRun DEF Settle, At, SameOtherwise, Pcs
  <2>2. /\ Layouts' /\ (InPlace' <=> InPlace) /\ (Mixed' <=> Mixed) /\ (Agreed' <=> Agreed)
        /\ (Raised' <=> Raised)
    BY <1>1, <1>t, SitesAsWere
  <2>3. Ended' /\ Counted'
    BY <1>1, <1>t, <2>1 DEF Knows, Ended, Counted, NothingMissing
  <2>4. BeforeRaise' /\ WhileMixed'
    BY <1>1, <1>t, <2>1, <2>2 DEF Knows, BeforeRaise, WhileMixed, Has
  <2>5. Rejoined' /\ RunKnows' /\ Agreeing'
    BY <1>1, <1>t, <2>1, <2>2 DEF Knows, Rejoined, RunKnows, Agreeing, Late, Old, Has
  <2>. QED
    BY <2>2, <2>3, <2>4, <2>5 DEF Knows
<1>4. CASE Started /\ To("connect", Sites \ {run.anchor})
  <2>1. run'.pc = "connect" /\ run.pc \in Late /\ run'.anchor = run.anchor
    BY <1>4, <1>t, ToRun DEF Started, At, SameOtherwise, Pcs, Late
  <2>. QED
    BY <1>1, <1>t, <2>1, LateKnows
<1>5. CASE Agree /\ To("sync", {}) /\ ~End
  <2>1. run'.pc = "sync" /\ run.pc \in Late /\ run'.anchor = run.anchor
    BY <1>5, <1>t, ToRun DEF Agree, At, SameOtherwise, Pcs, Late
  <2>2. Agreed
    <3>1. /\ \A s \in Sites : Answers(s) /\ layout[s].roles = Sites
          /\ \A s, t \in Sites : layout[s].version = layout[t].version
      BY <1>5 DEF Agree
    <3>. QED
      BY <1>t, <3>1, AnsweringLayout DEF Agreed, Has
  <2>. QED
    BY <1>1, <1>t, <2>1, <2>2, LateKnows
<1>6. CASE Synced /\ To("provision", {})
  <2>1. run'.pc = "provision" /\ run.pc = "sync" /\ run.pc \in Late /\ run'.anchor = run.anchor
    BY <1>6, <1>t, ToRun DEF Synced, At, SameOtherwise, Pcs, Late
  <2>2. Agreed
    BY <1>t, <2>1 DEF Knows, Agreeing
  <2>. QED
    BY <1>1, <1>t, <2>1, <2>2, LateKnows
<1>. QED
  BY <1>2, <1>3, <1>4, <1>5, <1>6 DEF Settle, Started, Agree, Synced, Stop

LEMMA ConnectKnows ==
    ASSUME ConstantsHold, MInv, Connect \/ Connected
    PROVE  Layouts' /\ Knows'
<1>t. TypeOK /\ IInv /\ Layouts /\ Knows /\ run \in Runs
  BY DEF MInv, IInv, TypeOK
<1>1. /\ UNCHANGED <<want, factor, garage, layout, counts, missing, joined>>
      /\ run.pc = "connect" /\ run.pc \in Late
  BY DEF Connect, Connected, cluster, At, Late
<1>2. CASE End
  BY <1>1, <1>2, <1>t, EndKnows
<1>3. CASE Connect /\ Past(First(run.todo), "connect", {})
  <2>1. First(run.todo) \in run.todo
    BY <1>3, <1>t, FirstIsOne DEF Connect, Runs
  <2>2. run'.pc = "connect" /\ run'.anchor = run.anchor
    BY <1>1, <1>3, <1>t, <2>1, PastRun DEF SameOtherwise, Pcs
  <2>. QED
    BY <1>1, <1>t, <2>2, LateKnows
<1>4. CASE Connected /\ ~End
  <2>1. /\ run'.pc \in {"assign", "agree"} /\ run'.anchor = run.anchor
        /\ run'.pc = "assign" => run'.saw = layout[run.anchor]
    BY <1>4, <1>t DEF Connected, Runs
  <2>2. Agreed => layout[run.anchor].roles = Sites
    BY <1>1, <1>t DEF Agreed, IInv, RunSound
  <2>. QED
    BY <1>1, <1>t, <2>1, <2>2, LateKnows
<1>. QED
  BY <1>2, <1>3, <1>4 DEF Connect, Connected

LEMMA CountKnows ==
    ASSUME ConstantsHold, OneAnchor, MInv, RecordCounts
    PROVE  Layouts' /\ Knows'
<1>t. TypeOK /\ IInv /\ Layouts /\ Knows /\ run \in Runs
  BY DEF MInv, IInv, TypeOK
<1> DEFINE a == run.anchor
<1>1. /\ UNCHANGED <<want, factor, garage, layout, missing, joined>>
      /\ run.pc = "count" /\ a \in Sites
  BY <1>t DEF RecordCounts, cluster, At, IInv, RunSound
<1>2. /\ Layouts' /\ (InPlace' <=> InPlace) /\ (Mixed' <=> Mixed) /\ (Agreed' <=> Agreed)
      /\ (Raised' <=> Raised)
  BY <1>1, <1>t, SitesAsWere
<1>3. Raised
  BY <1>1, <1>t DEF Knows, BeforeRaise
<1>4. CASE ~run.counted /\ ~Answers(a)
  <2>1. End /\ counts' = counts
    BY <1>4 DEF RecordCounts
  <2>. QED
    BY <1>1, <1>t, <2>1, EndKnows
<1>5. CASE run.counted \/ Answers(a)
  <2>1. run'.pc \in {"start", "stop"} /\ run'.anchor = a /\ (run'.pc = "start" <=> run.changing = {})
    <3>1. run.changing \in SUBSET Sites
      BY <1>t DEF Runs
    <3>. QED
      BY <1>5, <1>t, <3>1, ToRun DEF RecordCounts, SameOtherwise, Pcs
  <2>2. Mixed <=> run.changing # {}
    BY <1>1, <1>t DEF IInv, RunSound, Changes, Mixed, Runs
  <2>3. /\ counts'[a] # None /\ \A s \in Sites : counts'[s] = counts[s] \/ (s = a /\ counts'[s] = All)
        /\ \A s \in Sites : counts[s] # None => counts'[s] # None
    <3>1. CASE run.counted
      BY <1>1, <1>3, <1>t, <3>1 DEF RecordCounts, Knows, RunKnows, TypeOK
    <3>2. CASE ~run.counted
      <4>1. Mixed /\ Has(a) /\ a \in layout[a].roles
        BY <1>1, <1>3, <1>t, <3>2 DEF Knows, RunKnows
      <4>2. ~missing
        BY <1>3, <1>t, <4>1 DEF Knows, WhileMixed
      <4>3. Count(a) = All
        BY <1>5, <3>2, <4>1, <4>2 DEF Count, HasRole
      <4>4. All # None
        BY Constants
      <4>. QED
        BY <1>1, <1>5, <1>t, <3>2, <4>3, <4>4 DEF RecordCounts, TypeOK
    <3>. QED
      BY <3>1, <3>2
  <2>4. counts'[Foremost] = None => counts[Foremost] = None /\ a # Foremost
    BY <1>t, <2>3, ForemostIs
  <2>5. Mixed => counts'[Foremost] = All
    <3>1. ASSUME Mixed
          PROVE  a = Foremost \/ counts[Foremost] = All
      BY <1>1, <1>3, <1>t, <3>1 DEF Knows, RunKnows
    <3>. QED
      BY <1>1, <1>t, <2>3, <3>1, ForemostIs, Constants DEF TypeOK, Knows, Counted
  <2>6. Ended' /\ Counted'
    BY <1>1, <1>t, <2>3 DEF Knows, Ended, Counted, NothingMissing, All, Fewer
  <2>7. BeforeRaise' /\ WhileMixed'
    BY <1>1, <1>2, <1>3, <1>t, <2>5 DEF Knows, BeforeRaise, WhileMixed, Has
  <2>8. Rejoined'
    BY <1>1, <1>2, <1>t, <2>1, <2>4 DEF Knows, Rejoined
  <2>9. RunKnows' /\ Agreeing'
    BY <1>1, <1>2, <1>t, <2>1, <2>2, <2>3, <2>5, ForemostIs DEF Knows, RunKnows, Agreeing, Late
  <2>. QED
    BY <1>2, <2>6, <2>7, <2>8, <2>9 DEF Knows
<1>. QED
  BY <1>4, <1>5

LEMMA ProvisionedKnows ==
    ASSUME ConstantsHold, OneAnchor, MInv, Provisioned
    PROVE  Layouts' /\ Knows'
<1>t. TypeOK /\ IInv /\ Layouts /\ Knows /\ run \in Runs
  BY DEF MInv, IInv, TypeOK
<1> DEFINE a == run.anchor
<1>1. /\ UNCHANGED <<want, factor, garage, layout, missing>> /\ End
      /\ run.pc = "provision" /\ a \in Sites /\ run'.pc = "idle"
  BY <1>t, IdleRun DEF Provisioned, cluster, At, IInv, RunSound, End
<1>2. CASE UNCHANGED <<counts, joined>>
  BY <1>1, <1>2, <1>t, EndKnows
<1>3. CASE ~UNCHANGED <<counts, joined>>
  <2>1. Compared(a) /\ counts' = [counts EXCEPT ![a] = None]
    BY <1>3 DEF Provisioned
  <2>2. /\ Layouts' /\ (InPlace' <=> InPlace) /\ (Mixed' <=> Mixed) /\ (Agreed' <=> Agreed)
        /\ (Raised' <=> Raised)
    BY <1>1, <1>t, SitesAsWere
  <2>3. Agreed /\ ~Mixed
    BY <1>1, <1>t DEF Knows, Agreeing, IInv, RunSound, Mixed
  <2>4. ~missing
    <3>1. CASE ~Raised
      BY <1>t, <3>1 DEF Knows, BeforeRaise
    <3>2. CASE Raised /\ counts[a] # None
      <4>1. counts[a] = All
        BY <1>1, <1>t, <3>2 DEF Knows, Counted, TypeOK
      <4>. QED
        BY <2>1, <3>2, <4>1 DEF Compared, All, Fewer
    <3>3. CASE Raised /\ counts[Foremost] = None
      BY <1>t, <2>3, <3>3 DEF Knows, Rejoined
    <3>. QED
      BY <1>1, <1>t, <3>1, <3>2, <3>3 DEF Knows, RunKnows, Late
  <2>5. \A s \in Sites : counts'[s] \in {counts[s], None}
    BY <1>1, <1>t, <2>1 DEF TypeOK
  <2>6. Ended' /\ Counted'
    BY <1>1, <1>t, <2>4, <2>5, Constants DEF Knows, Ended, Counted, NothingMissing
  <2>7. BeforeRaise' /\ WhileMixed'
    BY <1>1, <1>t, <2>2, <2>3, <2>5 DEF Knows, BeforeRaise, WhileMixed
  <2>8. Rejoined' /\ RunKnows' /\ Agreeing'
    BY <1>1, <2>2, <2>3, <2>4 DEF Rejoined, RunKnows, Agreeing, Late
  <2>. QED
    BY <2>2, <2>6, <2>7, <2>8 DEF Knows
<1>. QED
  BY <1>2, <1>3

(* What a run plans from.                                                  *)
LEMMA AnchorIs ==
    ASSUME ConstantsHold, OneAnchor, TypeOK
    PROVE  LET a == ChooseAnchor IN
           /\ a \in Sites
           /\ HasRole(Foremost) => a = Foremost
           /\ a # Foremost => HasRole(a)
<1> DEFINE R == {s \in Sites : HasRole(s)}
<1>1. ChooseAnchor = First(IF R = {} THEN Sites ELSE R)
  BY DEF ChooseAnchor
<1>. HIDE DEF R
<1>2. R \in SUBSET Sites /\ Foremost \in Sites /\ (Foremost \in R <=> HasRole(Foremost))
  BY ForemostIs DEF R
<1>3. CASE R = {}
  BY <1>1, <1>2, <1>3, ForemostIs
<1>4. CASE R # {}
  <2>1. First(R) \in R
    BY <1>2, <1>4, FirstIsOne
  <2>. QED
    BY <1>1, <1>2, <1>4, <2>1, ForemostIs DEF R
<1>. QED
  BY <1>3, <1>4

LEMMA PlanKnows ==
    ASSUME ConstantsHold, OneAnchor, MInv, Plan
    PROVE  Layouts' /\ Knows'
<1>t. TypeOK /\ IInv /\ Layouts /\ Knows
  BY DEF MInv, IInv
<1> DEFINE a == ChooseAnchor
           changing == {s \in Sites : Deployed(s) /\ factor[s] # want}
           reset == changing # {} \/ Unfinished(a)
<1>1. /\ UNCHANGED <<want, factor, garage, layout, counts, missing>> /\ ~joined'
      /\ run.pc = "idle" /\ \A s \in Sites : Deployed(s)
      /\ reset \/ (RolesFirst /\ \A s \in Sites : Answers(s))
  BY IdleRun DEF Plan, cluster
<1>2. /\ run'.pc = IF reset THEN "settle" ELSE "connect"
      /\ run'.anchor = a /\ run'.counted = (counts[a] # None)
  BY DEF Plan
<1>3. a \in Sites /\ (HasRole(Foremost) => a = Foremost) /\ (a # Foremost => HasRole(a))
  BY <1>t, AnchorIs
<1>4. changing # {} <=> Mixed
  BY <1>1 DEF Mixed
<1>. HIDE DEF a, changing
<1>5. /\ Layouts' /\ (InPlace' <=> InPlace) /\ (Mixed' <=> Mixed) /\ (Agreed' <=> Agreed)
      /\ (Raised' <=> Raised)
  BY <1>1, <1>t, SitesAsWere
<1>6. InPlace => a = Foremost
  BY <1>3 DEF InPlace, HasRole, Answers
<1>7. Ended' /\ Counted'
  BY <1>1, <1>t DEF Knows, Ended, Counted, NothingMissing
<1>8. WhileMixed' /\ Rejoined'
  BY <1>1, <1>2, <1>5, <1>t DEF Knows, WhileMixed, Rejoined, Has
<1>9. Agreeing'
  BY <1>2 DEF Agreeing
<1>10. BeforeRaise'
  <2>1. SUFFICES ASSUME ~Raised
                 PROVE  BeforeRaise'
    BY <1>5 DEF BeforeRaise
  <2>2. /\ \A s \in Sites : counts[s] = None
        /\ ~missing /\ InPlace
    BY <1>t, <2>1 DEF Knows, BeforeRaise
  <2>3. ~Mixed
    BY <1>1, <1>t, <2>1 DEF Layouts, Values, Mixed, Raised, Deployed
  <2>4. ~reset
    BY <1>3, <1>4, <2>2, <2>3 DEF Unfinished
  <2>. QED
    BY <1>1, <1>2, <1>5, <1>6, <2>2, <2>4 DEF BeforeRaise
<1>11. RunKnows'
  <2>1. SUFFICES ASSUME Raised
                 PROVE  RunKnows'
    BY <1>5 DEF RunKnows
  <2>2. Mixed => /\ a = Foremost \/ counts[Foremost] = All
                 /\ counts[a] = None => Old(a) /\ Has(a) /\ a \in layout[a].roles
    <3>1. SUFFICES ASSUME Mixed
                   PROVE  /\ a = Foremost \/ counts[Foremost] = All
                          /\ counts[a] = None => Old(a) /\ Has(a) /\ a \in layout[a].roles
      OBVIOUS
    <3>2. /\ \A s \in Sites : factor[s] = want /\ Has(s) => layout[s].version = 0
          /\ counts[Foremost] = All \/ InPlace
      BY <1>t, <2>1, <3>1 DEF Knows, WhileMixed
    <3>3. CASE InPlace
      BY <1>6, <3>3 DEF InPlace
    <3>4. CASE ~InPlace /\ counts[a] = None
      <4>1. HasRole(a)
        BY <1>3, <3>2, <3>4, Constants
      <4>2. Has(a) /\ a \in layout[a].roles
        BY <1>3, <1>t, <4>1 DEF HasRole, Answers, Has, IInv, LayoutsFit, Running
      <4>3. layout[a].version # 0
        BY <1>3, <1>t, <4>2 DEF Layouts, Blank
      <4>4. Old(a)
        BY <1>1, <1>3, <1>t, <3>2, <4>2, <4>3 DEF Layouts, Values, Old, Deployed
      <4>. QED
        BY <3>2, <3>4, <4>2, <4>4
    <3>. QED
      BY <3>2, <3>3, <3>4
  <2>3. ~Mixed /\ ~reset => a = Foremost
    <3>1. SUFFICES ASSUME ~reset, a # Foremost
                   PROVE  FALSE
      OBVIOUS
    <3>2. RolesFirst /\ HasRole(a) /\ ~HasRole(Foremost)
      BY <1>1, <1>3, <3>1
    <3>3. PICK i \in DOMAIN Order : a = Order[i]
      BY <1>3 DEF Sites
    <3>4. i \in Nat /\ 1 \in 1..i
      BY <3>3 DEF ConstantsHold
    <3>. QED
      BY <3>2, <3>3, <3>4 DEF RolesFirst, Foremost
  <2>4. CASE reset
    <3>1. run'.pc = "settle" /\ (counts[a] = None => Mixed)
      BY <1>2, <1>4, <2>4 DEF Unfinished
    <3>. QED
      BY <1>1, <1>2, <1>5, <2>2, <3>1 DEF RunKnows, Late, Old, Has
  <2>5. CASE ~reset
    <3>1. run'.pc = "connect" /\ a = Foremost
      BY <1>2, <1>4, <2>3, <2>5
    <3>. QED
      BY <1>1, <1>2, <1>5, <3>1 DEF RunKnows, Late
  <2>. QED
    BY <2>4, <2>5
<1>. QED
  BY <1>5, <1>7, <1>8, <1>9, <1>10, <1>11 DEF Knows

-----------------------------------------------------------------------------
(* A reset, from the first site it stops to the last it writes.            *)

(* Layouts are set aside, and the factor of sites that have none written.  *)
LEMMA LayoutsKept ==
    ASSUME ConstantsHold, OneAnchor, Layouts, want' = want,
           \A s \in Sites : factor'[s] \in {factor[s], want},
           \A s \in Sites : Has(s)' => Has(s) /\ layout'[s] = layout[s] /\ factor'[s] = factor[s]
    PROVE  Layouts'
<1>1. Values'
  BY DEF Layouts, Values
<1>2. Blank' /\ Grown'
  BY DEF Layouts, Blank, Grown, Old
<1>3. Newest'
  BY ForemostIs DEF Layouts, Newest, Old
<1>. QED
  BY <1>1, <1>2, <1>3 DEF Layouts

LEMMA ResetKnows ==
    ASSUME ConstantsHold, OneAnchor, MInv, run.pc \in {"stop", "aside", "write"},
           UNCHANGED <<want, counts, missing, joined>>,
           \A s \in Sites : factor'[s] \in {factor[s], want},
           \A s \in Sites : Has(s)' => Has(s) /\ layout'[s] = layout[s] /\ factor'[s] = factor[s],
           \/ run'.pc = "idle"
           \/ run'.pc \in {"stop", "aside", "write", "start"} /\ run'.anchor = run.anchor
    PROVE  Layouts' /\ Knows'
<1>t. TypeOK /\ IInv /\ Layouts /\ Knows /\ run \in Runs
  BY DEF MInv, IInv, TypeOK
<1>1. Layouts'
  BY <1>t, LayoutsKept
<1>2. Raised /\ Raised'
  BY <1>t DEF Knows, BeforeRaise, Raised
<1>3. Mixed
  <2>1. PICK s \in run.todo : factor[s] # want
    BY <1>t DEF IInv, RunSound, Changes, Runs
  <2>. QED
    BY <1>t, <2>1 DEF Runs, Mixed
<1>4. counts[run.anchor] # None /\ counts[Foremost] = All /\ ~joined
  BY <1>2, <1>t DEF Knows, RunKnows, Ended
<1>5. Ended' /\ Counted' /\ BeforeRaise'
  BY <1>2, <1>4, <1>t DEF Knows, Ended, Counted, BeforeRaise, NothingMissing
<1>6. WhileMixed'
  BY <1>2, <1>3, <1>4, <1>t DEF Knows, WhileMixed
<1>7. Rejoined' /\ RunKnows' /\ Agreeing'
  BY <1>4, Constants DEF Rejoined, RunKnows, Agreeing, Late
<1>. QED
  BY <1>1, <1>5, <1>6, <1>7 DEF Knows

LEMMA StopNodeKnows ==
    ASSUME ConstantsHold, OneAnchor, MInv, StopNode
    PROVE  Layouts' /\ Knows'
<1>t. TypeOK /\ IInv /\ run \in Runs
  BY DEF MInv, IInv, TypeOK
<1>1. UNCHANGED <<want, factor, layout, counts, missing, joined>> /\ run.pc = "stop"
  BY DEF StopNode, At
<1>2. First(run.todo) \in run.todo /\ run.changing \in SUBSET Sites
  BY <1>1, <1>t, FirstIsOne DEF IInv, RunSound, Runs
<1>3. run'.pc \in {"stop", "aside"} /\ run'.anchor = run.anchor
  BY <1>1, <1>2, <1>t, PastRun DEF StopNode, SameOtherwise, Pcs
<1>. QED
  BY <1>1, <1>3, ResetKnows DEF Has

LEMMA SetAsideKnows ==
    ASSUME ConstantsHold, OneAnchor, MInv, SetAside
    PROVE  Layouts' /\ Knows'
<1>t. TypeOK /\ IInv /\ run \in Runs
  BY DEF MInv, IInv, TypeOK
<1>1. UNCHANGED <<want, factor, counts, missing, joined>> /\ run.pc = "aside"
  BY DEF SetAside, At
<1> DEFINE s == First(run.todo)
<1>2. s \in run.todo /\ run.changing \in SUBSET Sites
  BY <1>1, <1>t, FirstIsOne DEF IInv, RunSound, Runs
<1>. HIDE DEF s
<1>3. layout' = layout \/ layout' = [layout EXCEPT ![s] = None]
  BY DEF SetAside, s
<1>4. \A t \in Sites : Has(t)' => Has(t) /\ layout'[t] = layout[t]
  BY <1>3, <1>t DEF Has, TypeOK
<1>5. CASE End
  BY <1>1, <1>4, <1>5, ResetKnows, IdleRun DEF End
<1>6. CASE Past(s, "write", run.changing)
  <2>1. run'.pc \in {"aside", "write"} /\ run'.anchor = run.anchor
    BY <1>1, <1>2, <1>6, <1>t, PastRun DEF SameOtherwise, Pcs
  <2>. QED
    BY <1>1, <1>4, <2>1, ResetKnows
<1>. QED
  BY <1>5, <1>6 DEF SetAside, s

LEMMA WriteTomlKnows ==
    ASSUME ConstantsHold, OneAnchor, MInv, WriteToml
    PROVE  Layouts' /\ Knows'
<1>t. TypeOK /\ IInv /\ run \in Runs
  BY DEF MInv, IInv, TypeOK
<1>1. UNCHANGED <<want, layout, counts, missing, joined>> /\ run.pc = "write"
  BY DEF WriteToml, At, cluster
<1> DEFINE s == First(run.todo)
<1>2. s \in run.todo /\ s \in Sites /\ layout[s] = None /\ run.want = want
  BY <1>1, <1>t, FirstIsOne DEF IInv, RunSound, Runs
<1>3. run'.pc \in {"write", "start"} /\ run'.anchor = run.anchor
  BY <1>1, <1>2, <1>t, PastRun DEF WriteToml, SameOtherwise, Pcs
<1>. HIDE DEF s
<1>4. factor' = [factor EXCEPT ![s] = want]
  BY <1>2 DEF WriteToml, s
<1>5. \A t \in Sites : /\ factor'[t] \in {factor[t], want}
                       /\ Has(t)' => Has(t) /\ layout'[t] = layout[t] /\ factor'[t] = factor[t]
  BY <1>1, <1>2, <1>4, <1>t DEF Has, TypeOK
<1>. QED
  BY <1>1, <1>3, <1>5, ResetKnows

-----------------------------------------------------------------------------
(* Garages that start and stop.                                            *)

(* A node's first layout, at the factor of the configuration.              *)
LEMMA FirstLayout ==
    ASSUME ConstantsHold, OneAnchor, TypeOK, Layouts, NEW s \in Sites, layout[s] = None,
           s # Foremost \/ Raised, want' = want, factor' = [factor EXCEPT ![s] = want],
           layout' = [layout EXCEPT ![s] = Fresh(want)]
    PROVE  /\ Layouts'
           /\ layout'[s].version = 0 /\ factor'[s] = want
           /\ \A t \in Sites : t # s => layout'[t] = layout[t] /\ factor'[t] = factor[t]
<1>1. /\ layout'[s].version = 0 /\ layout'[s].roles = {} /\ factor'[s] = want
      /\ \A t \in Sites : t # s => layout'[t] = layout[t] /\ factor'[t] = factor[t]
  BY DEF TypeOK, Fresh
<1>2. \A t \in Sites : Has(t) => layout[t].version \in Nat
  BY DEF TypeOK, Has, Layout
<1>3. Values' /\ Blank'
  BY <1>1 DEF Layouts, Values, Blank, Has
<1>4. Grown'
  <2>1. SUFFICES ASSUME NEW t \in Sites, NEW u \in Sites, Old(t)', Old(u)', Has(t)', Has(u)',
                        layout'[t].version <= layout'[u].version
                 PROVE  layout'[t].roles \subseteq layout'[u].roles
    BY DEF Grown
  <2>2. CASE t = s
    BY <1>1, <2>2
  <2>3. CASE t # s /\ u = s
    BY <1>1, <1>2, <2>1, <2>3 DEF Layouts, Blank, Has
  <2>4. CASE t # s /\ u # s
    BY <1>1, <2>1, <2>4 DEF Layouts, Grown, Has, Old
  <2>. QED
    BY <2>2, <2>3, <2>4
<1>5. Newest'
  <2>1. SUFFICES ASSUME Old(Foremost)', Has(Foremost)', NEW t \in Sites, Old(t)', Has(t)'
                 PROVE  layout'[t].version <= layout'[Foremost].version
    BY DEF Newest
  <2>2. s # Foremost
    BY <1>1, <2>1 DEF Old, Raised
  <2>3. CASE t = s
    BY <1>1, <1>2, <2>1, <2>2, <2>3, ForemostIs DEF Has
  <2>4. CASE t # s
    BY <1>1, <2>1, <2>2, <2>4, ForemostIs DEF Layouts, Newest, Has, Old
  <2>. QED
    BY <2>3, <2>4
<1>. QED
  BY <1>1, <1>3, <1>4, <1>5 DEF Layouts

(* Neither a factor nor a layout changes.                                  *)
LEMMA BesideKnows ==
    ASSUME Layouts, Knows, UNCHANGED <<want, factor, layout, counts, joined, run>>,
           missing' => missing, InPlace => garage'[Foremost] = "up"
    PROVE  Layouts' /\ Knows'
<1>1. Layouts'
  BY DEF Layouts, Values, Blank, Grown, Newest, Has, Old
<1>2. /\ InPlace => InPlace'
      /\ (Mixed' <=> Mixed) /\ (Agreed' <=> Agreed) /\ (Raised' <=> Raised)
  BY DEF InPlace, Mixed, Agreed, Raised, Has, Old
<1>3. Ended' /\ Counted' /\ BeforeRaise' /\ WhileMixed'
  BY <1>2 DEF Knows, Ended, Counted, NothingMissing, BeforeRaise, WhileMixed, Has
<1>4. Rejoined' /\ Agreeing'
  BY <1>2 DEF Knows, Rejoined, Agreeing
<1>5. RunKnows'
  BY <1>2 DEF Knows, RunKnows, Has, Old
<1>. QED
  BY <1>1, <1>3, <1>4, <1>5 DEF Knows

LEMMA GaragesKnow ==
    ASSUME ConstantsHold, OneAnchor, MInv, NEW s \in Sites,
           Recover(s) \/ Down(s) \/ Receive(s) \/ Converge
    PROVE  Layouts' /\ Knows'
<1>t. TypeOK /\ IInv /\ Layouts /\ Knows
  BY DEF MInv, IInv
<1>1. CASE Receive(s) \/ Converge
  BY <1>1, <1>t, BesideKnows DEF Receive, Converge, InPlace
<1>2. CASE Down(s)
  <2>1. UNCHANGED <<want, factor, layout, counts, joined, run, missing>>
    BY <1>2 DEF Down
  <2>2. InPlace => garage'[Foremost] = "up"
    BY <1>2, <1>t, ForemostIs DEF Down, InPlace, TypeOK
  <2>. QED
    BY <1>t, <2>1, <2>2, BesideKnows
<1>3. CASE Recover(s)
  <2>1. UNCHANGED <<want, factor, counts, joined, run, missing>> /\ Starts(s, factor[s]) /\ garage[s] = "down"
    BY <1>3 DEF Recover
  <2>2. layout' = layout
    BY <1>t, <2>1 DEF Starts, IInv, LayoutsFit, Running
  <2>3. InPlace => garage'[Foremost] = "up"
    BY <1>t, <2>1, ForemostIs DEF Starts, InPlace, TypeOK
  <2>. QED
    BY <1>t, <2>1, <2>2, <2>3, BesideKnows
<1>. QED
  BY <1>1, <1>2, <1>3

LEMMA StartNodeKnows ==
    ASSUME ConstantsHold, OneAnchor, MInv, StartNode
    PROVE  Layouts' /\ Knows'
<1>t. TypeOK /\ IInv /\ Layouts /\ Knows /\ run \in Runs
  BY DEF MInv, IInv, TypeOK
<1> DEFINE s == First(run.todo)
<1>1. UNCHANGED <<want, factor, counts, missing, joined>> /\ run.pc = "start" /\ run.pc \in Late
  BY DEF StartNode, At, Late
<1>2. s \in run.todo /\ s \in Sites /\ \A t \in Sites : factor[t] = want
  BY <1>1, <1>t, FirstIsOne DEF IInv, RunSound, Runs
<1>3. run'.pc \in {"start", "started"} /\ run'.anchor = run.anchor
  BY <1>1, <1>2, <1>t, PastRun DEF StartNode, SameOtherwise, Pcs
<1>4. Raised /\ ~Mixed /\ Raised' /\ ~Mixed'
  BY <1>1, <1>2, <1>t DEF Knows, BeforeRaise, Raised, Mixed
<1>. HIDE DEF s
<1>5. layout' = layout \/ (layout[s] = None /\ layout' = [layout EXCEPT ![s] = Fresh(want)])
  BY <1>2 DEF StartNode, Starts, s
<1>6. Layouts'
  <2>1. CASE layout' = layout
    BY <1>1, <1>t, <2>1, LayoutsKept DEF Has
  <2>2. CASE layout[s] = None /\ layout' = [layout EXCEPT ![s] = Fresh(want)]
    <3>1. factor' = [factor EXCEPT ![s] = want]
      BY <1>1, <1>2, <1>t DEF TypeOK
    <3>. QED
      BY <1>1, <1>2, <1>4, <1>t, <2>2, <3>1, FirstLayout
  <2>. QED
    BY <1>5, <2>1, <2>2
<1>7. Agreed => layout' = layout /\ Agreed'
  BY <1>2, <1>5 DEF Agreed, Has
<1>8. Ended' /\ Counted' /\ BeforeRaise' /\ WhileMixed'
  BY <1>1, <1>3, <1>4, <1>t DEF Knows, Ended, Counted, NothingMissing, BeforeRaise, WhileMixed
<1>9. Rejoined' /\ RunKnows' /\ Agreeing'
  BY <1>1, <1>3, <1>4, <1>7, <1>t DEF Knows, Rejoined, RunKnows, Agreeing, Late
<1>. QED
  BY <1>6, <1>8, <1>9 DEF Knows

LEMMA ApplyKnows ==
    ASSUME ConstantsHold, OneAnchor, MInv, NEW s \in Sites, Apply(s)
    PROVE  Layouts' /\ Knows'
<1>t. TypeOK /\ IInv /\ Layouts /\ Knows
  BY DEF MInv, IInv
<1>1. /\ UNCHANGED <<want, counts, missing, joined, run>> /\ factor' = [factor EXCEPT ![s] = want]
      /\ Starts(s, want) /\ garage[s] = "stopped" /\ factor[s] \in {None, want}
  BY DEF Apply
<1>2. InPlace => s # Foremost /\ garage'[Foremost] = "up"
  BY <1>1, <1>t, ForemostIs DEF InPlace, Starts, TypeOK
<1>3. CASE layout[s] # None
  <2>1. factor[s] = want
    BY <1>1, <1>3, <1>t DEF IInv, Undeployed
  <2>2. factor' = factor /\ layout' = layout
    BY <1>1, <1>3, <1>t, <2>1 DEF TypeOK, Starts
  <2>. QED
    BY <1>1, <1>2, <1>t, <2>2, BesideKnows
<1>4. CASE layout[s] = None
  <2>1. s # Foremost \/ Raised
    BY <1>2, <1>t DEF Knows, BeforeRaise
  <2>2. /\ Layouts'
        /\ layout'[s].version = 0 /\ factor'[s] = want
        /\ \A t \in Sites : t # s => layout'[t] = layout[t] /\ factor'[t] = factor[t]
    BY <1>1, <1>4, <1>t, <2>1, FirstLayout DEF Starts
  <2>3. InPlace => InPlace'
    BY <1>2, <2>2, ForemostIs DEF InPlace, Has, Old
  <2>4. (Raised' <=> Raised) /\ (Mixed' => Mixed)
    BY <1>1, <2>2 DEF Raised, Mixed
  <2>5. ~Agreed
    BY <1>4 DEF Agreed, Has
  <2>6. Raised /\ counts[Foremost] = None => Mixed'
    <3>1. SUFFICES ASSUME Raised, counts[Foremost] = None
                   PROVE  Mixed'
      OBVIOUS
    <3>2. InPlace
      BY <1>t, <2>5, <3>1, Constants DEF Knows, Rejoined, WhileMixed
    <3>3. factor'[Foremost] # want'
      BY <1>1, <1>2, <2>2, <3>1, <3>2, ForemostIs DEF InPlace, Old, Raised
    <3>. QED
      BY <3>3, ForemostIs DEF Mixed
  <2>7. Ended' /\ Counted' /\ BeforeRaise'
    BY <1>1, <1>t, <2>3, <2>4 DEF Knows, Ended, Counted, NothingMissing, BeforeRaise
  <2>8. WhileMixed'
    BY <1>1, <1>t, <2>2, <2>3, <2>4 DEF Knows, WhileMixed, Has
  <2>9. Rejoined' /\ Agreeing'
    BY <1>1, <1>t, <2>4, <2>5, <2>6 DEF Knows, Rejoined, Agreeing
  <2>10. RunKnows'
    <3>1. SUFFICES ASSUME Raised
                   PROVE  RunKnows'
      BY <2>4 DEF RunKnows
    <3>2. ASSUME NEW a \in Sites, Old(a), Has(a), a \in layout[a].roles
          PROVE  /\ Mixed' /\ Old(a)' /\ Has(a)' /\ a \in layout'[a].roles
      BY <1>1, <1>4, <2>2, <3>1, <3>2 DEF Mixed, Old, Has, Raised
    <3>3. run.pc # "idle" => run.anchor \in Sites
      BY <1>t DEF IInv, RunSound
    <3>4. \A a \in Sites : Old(a) /\ Has(a) /\ a \in layout[a].roles =>
             Mixed' /\ Old(a)' /\ Has(a)' /\ a \in layout'[a].roles
      BY <3>2
    <3>. QED
      BY <1>1, <1>t, <2>4, <3>1, <3>3, <3>4 DEF Knows, RunKnows, Old, Has
  <2>. QED
    BY <2>2, <2>7, <2>8, <2>9, <2>10 DEF Knows
<1>. QED
  BY <1>3, <1>4

LEMMA RaiseKnows ==
    ASSUME ConstantsHold, OneAnchor, MInv, Raise
    PROVE  Layouts' /\ Knows'
<1>t. TypeOK /\ IInv /\ Layouts /\ Knows
  BY DEF MInv, IInv
<1>1. /\ UNCHANGED <<factor, garage, layout, counts, missing, run>> /\ ~joined' /\ run.pc = "idle"
      /\ want' \in Factors /\ want' > want
  BY IdleRun DEF Raise, cluster
<1>2. /\ want \in Nat /\ want' \in Nat /\ FirstFactor \in Nat /\ want' # None
      /\ want \in Factors /\ want >= FirstFactor
  BY <1>1, <1>t, Constants DEF TypeOK, Layouts, Values
<1>3. ~Raised /\ Raised'
  <2>1. want' > FirstFactor
    BY <1>1, <1>2
  <2>2. want > FirstFactor => want = want'
    BY <1>1, <1>2, <2>1 DEF OneAnchor
  <2>. QED
    BY <1>1, <1>2, <2>1, <2>2 DEF Raised
<1>4. \A s \in Sites : factor[s] \in {None, FirstFactor} /\ factor[s] # want'
  BY <1>2, <1>3, <1>t DEF Layouts, Values, Raised
<1>5. Layouts'
  <2>1. Values'
    BY <1>1, <1>2, <1>4 DEF Values
  <2>2. Blank' /\ Grown' /\ Newest'
    BY <1>1, <1>t DEF Layouts, Blank, Grown, Newest, Has, Old
  <2>. QED
    BY <2>1, <2>2 DEF Layouts
<1>6. ~missing /\ InPlace /\ InPlace'
  BY <1>1, <1>3, <1>t DEF Knows, BeforeRaise, InPlace, Old, Has
<1>7. Mixed'
  BY <1>1, <1>4, ForemostIs DEF Mixed
<1>8. Ended' /\ Counted' /\ BeforeRaise' /\ WhileMixed'
  BY <1>1, <1>3, <1>4, <1>6, <1>t DEF Knows, Ended, Counted, NothingMissing, BeforeRaise, WhileMixed
<1>9. Rejoined' /\ RunKnows' /\ Agreeing'
  BY <1>1, <1>7, <1>t DEF Rejoined, RunKnows, Agreeing, Late
<1>. QED
  BY <1>5, <1>8, <1>9 DEF Knows

-----------------------------------------------------------------------------
(* Layouts that change and spread.                                         *)

LEMMA SpreadKnows ==
    ASSUME ConstantsHold, OneAnchor, MInv, NEW s \in Sites, NEW t \in Sites, Spread(s, t)
    PROVE  Layouts' /\ Knows'
<1>t. TypeOK /\ IInv /\ Layouts /\ Knows
  BY DEF MInv, IInv
<1>1. /\ UNCHANGED <<want, factor, garage, counts, missing, joined, run>>
      /\ {s, t} \subseteq met /\ Answers(s) /\ Answers(t)
      /\ layout[t].version > layout[s].version
      /\ layout' = [layout EXCEPT ![s] = layout[t]]
  BY DEF Spread
<1>2. /\ Has(s) /\ Has(t) /\ factor[s] = factor[t]
      /\ layout[s].version \in Nat /\ layout[t].version \in Nat
  <2>1. Has(s) /\ Has(t) /\ layout[s] \in Layout /\ layout[t] \in Layout
    BY <1>1, <1>t, AnsweringLayout DEF Has
  <2>2. factor[s] = factor[t]
    BY <1>1, <1>t DEF IInv, MetAgree, Running, Answers
  <2>. QED
    BY <2>1, <2>2 DEF Layout
<1> DEFINE Of(u) == IF u = s THEN t ELSE u
<1>3. \A u \in Sites : /\ Of(u) \in Sites /\ layout'[u] = layout[Of(u)]
                       /\ factor[Of(u)] = factor[u] /\ factor' = factor
                       /\ (Has(u) <=> Has(Of(u))) /\ (Has(u)' <=> Has(u))
                       /\ (Old(u) <=> Old(Of(u))) /\ (Old(u)' <=> Old(u))
  BY <1>1, <1>2, <1>t DEF TypeOK, Has, Old
<1>4. Old(Foremost) /\ Has(Foremost) => s # Foremost
  BY <1>1, <1>2, <1>t DEF Layouts, Newest, Old
<1>5. layout[s].roles \subseteq layout[t].roles \/ ~Old(s)
  BY <1>1, <1>2, <1>t DEF Layouts, Grown, Old
<1>6. ~Agreed
  BY <1>1, <1>2 DEF Agreed
<1>7. (Raised' <=> Raised) /\ (Mixed' <=> Mixed)
  BY <1>1 DEF Raised, Mixed
<1>8. \A u \in Sites : u # s => layout'[u] = layout[u]
  BY <1>1, <1>t DEF TypeOK
<1>. HIDE DEF Of
<1>9. Layouts'
  <2>1. Values'
    BY <1>1, <1>t DEF Layouts, Values
  <2>2. Blank' /\ Grown'
    BY <1>3, <1>t DEF Layouts, Blank, Grown
  <2>3. Newest'
    BY <1>3, <1>4, <1>8, <1>t, ForemostIs DEF Layouts, Newest
  <2>. QED
    BY <2>1, <2>2, <2>3 DEF Layouts
<1>10. InPlace => InPlace'
  BY <1>1, <1>3, <1>4, <1>8, ForemostIs DEF InPlace
<1>11. Ended' /\ Counted' /\ BeforeRaise'
  BY <1>1, <1>7, <1>10, <1>t DEF Knows, Ended, Counted, NothingMissing, BeforeRaise
<1>12. WhileMixed'
  BY <1>1, <1>3, <1>7, <1>10, <1>t DEF Knows, WhileMixed
<1>13. Rejoined' /\ Agreeing'
  BY <1>1, <1>6, <1>7, <1>t DEF Knows, Rejoined, Agreeing
<1>14. RunKnows'
  <2>1. \A a \in Sites : Old(a) /\ Has(a) /\ a \in layout[a].roles =>
           Old(a)' /\ Has(a)' /\ a \in layout'[a].roles
    BY <1>2, <1>3, <1>5, <1>8, <1>1, <1>t DEF TypeOK
  <2>2. run.pc # "idle" => run.anchor \in Sites
    BY <1>t DEF IInv, RunSound
  <2>. QED
    BY <1>1, <1>7, <1>t, <2>1, <2>2 DEF Knows, RunKnows
<1>. QED
  BY <1>9, <1>11, <1>12, <1>13, <1>14 DEF Knows

LEMMA AssignKnows ==
    ASSUME ConstantsHold, OneAnchor, MInv, Assign
    PROVE  Layouts' /\ Knows'
<1>t. TypeOK /\ IInv /\ Layouts /\ Knows /\ run \in Runs
  BY DEF MInv, IInv, TypeOK
<1> DEFINE a == run.anchor
           s == First(run.todo)
<1>1. /\ UNCHANGED <<want, factor, garage, counts, missing, joined>>
      /\ run.pc = "assign" /\ run.pc \in Late /\ run.todo # {}
      /\ \/ layout' = layout /\ (Past(s, "assign", {}) \/ End)
         \/ Answers(a) /\ layout' = [layout EXCEPT ![a].staged = @ \cup {s}] /\ Past(s, "assign", {})
  BY DEF Assign, At, Late
<1>2. s \in run.todo /\ a \in Sites
  BY <1>1, <1>t, FirstIsOne DEF IInv, RunSound, Runs
<1>. HIDE DEF s
<1>3. CASE End /\ layout' = layout
  BY <1>1, <1>3, <1>t, EndKnows
<1>4. CASE Past(s, "assign", {})
  <2>1. run'.pc = "assign" /\ run'.anchor = a /\ run'.saw = run.saw
    BY <1>1, <1>2, <1>4, <1>t, PastRun DEF SameOtherwise, Pcs
  <2>2. CASE layout' = layout
    BY <1>1, <1>t, <2>1, <2>2, LateKnows
  <2>3. CASE Answers(a) /\ layout' = [layout EXCEPT ![a].staged = @ \cup {s}]
    <3>1. layout[a] \in Layout /\ Has(a)
      BY <1>2, <1>t, <2>3, AnsweringLayout DEF Has
    <3>2. [layout[a] EXCEPT !.staged = @ \cup {s}] \in Layout
          /\ [layout[a] EXCEPT !.staged = @ \cup {s}].version = layout[a].version
          /\ [layout[a] EXCEPT !.staged = @ \cup {s}].roles = layout[a].roles
      BY <1>2, <1>t, <3>1 DEF Layout, Runs
    <3>3. None \notin Layout
      BY DEF ConstantsHold
    <3>4. \A t \in Sites : /\ Has(t)' <=> Has(t)
                           /\ layout'[t].version = layout[t].version
                           /\ layout'[t].roles = layout[t].roles
      BY <1>2, <1>t, <2>3, <3>1, <3>2, <3>3 DEF Has, TypeOK
    <3>5. /\ Values' /\ Blank' /\ Grown' /\ Newest' /\ (InPlace' <=> InPlace)
          /\ (Mixed' <=> Mixed) /\ (Agreed' <=> Agreed) /\ (Raised' <=> Raised)
      <4>1. Values' /\ (Mixed' <=> Mixed) /\ (Raised' <=> Raised)
        BY <1>1, <1>t DEF Layouts, Values, Mixed, Raised
      <4>2. Blank' /\ Grown'
        BY <1>1, <1>t, <3>4 DEF Layouts, Blank, Grown, Old
      <4>3. Newest' /\ (InPlace' <=> InPlace)
        BY <1>1, <1>t, <3>4, ForemostIs DEF Layouts, Newest, InPlace, Old
      <4>4. Agreed' <=> Agreed
        BY <3>4 DEF Agreed
      <4>. QED
        BY <4>1, <4>2, <4>3, <4>4
    <3>6. Ended' /\ Counted' /\ BeforeRaise' /\ Agreeing'
      BY <1>1, <1>t, <2>1, <3>5 DEF Knows, Ended, Counted, NothingMissing, BeforeRaise, Agreeing
    <3>7. WhileMixed' /\ Rejoined'
      BY <1>1, <1>t, <2>1, <3>4, <3>5 DEF Knows, WhileMixed, Rejoined
    <3>8. RunKnows'
      BY <1>1, <1>t, <2>1, <3>5 DEF Knows, RunKnows, Late
    <3>. QED
      BY <3>5, <3>6, <3>7, <3>8 DEF Layouts, Knows
  <2>. QED
    BY <1>1, <2>2, <2>3
<1>. QED
  BY <1>1, <1>3, <1>4

LEMMA ApplyLayoutKnows ==
    ASSUME ConstantsHold, OneAnchor, MInv, ApplyLayout
    PROVE  Layouts' /\ Knows'
<1>t. TypeOK /\ IInv /\ Layouts /\ Knows /\ run \in Runs
  BY DEF MInv, IInv, TypeOK
<1> DEFINE a == run.anchor
           l == layout[a]
<1>1. UNCHANGED <<want, factor, garage, counts, joined>> /\ run.pc = "assign" /\ run.pc \in Late
  BY DEF ApplyLayout, At, Late
<1>2. a \in Sites /\ \A s \in Sites : factor[s] = want
  BY <1>1, <1>t DEF IInv, RunSound
<1>3. To("agree", {}) => run'.pc = "agree" /\ run'.anchor = a
  BY <1>t, ToRun DEF SameOtherwise, Pcs
<1>4. CASE UNCHANGED <<layout, missing>>
  <2>1. CASE End
    BY <1>1, <1>4, <1>t, <2>1, EndKnows
  <2>2. CASE To("agree", {})
    BY <1>1, <1>3, <1>4, <1>t, <2>2, LateKnows
  <2>. QED
    BY <2>1, <2>2 DEF ApplyLayout
<1>5. CASE ~UNCHANGED <<layout, missing>>
  <2>1. /\ run.saw.roles # Sites /\ Answers(a) /\ To("agree", {})
        /\ layout' = [layout EXCEPT ![a].version = @ + 1, ![a].roles = @ \cup l.staged, ![a].staged = {}]
        /\ l.version # 0 => UNCHANGED missing
    BY <1>5 DEF ApplyLayout
  <2> DEFINE l2 == [l EXCEPT !.version = @ + 1, !.roles = @ \cup l.staged, !.staged = {}]
  <2>2. l \in Layout /\ Has(a)
    BY <1>2, <1>t, <2>1, AnsweringLayout DEF Has
  <2>3. /\ l2 \in Layout /\ l2.version = l.version + 1 /\ l.roles \subseteq l2.roles
        /\ l.version \in Nat
    <3>1. l.staged \in SUBSET Sites
      BY <2>2 DEF Layout
    <3>. HIDE DEF l
    <3>2. l2 \in Layout
      BY <2>2, <3>1, AppliedLayout
    <3>3. /\ l.version \in Nat
          /\ l = [factor |-> l.factor, version |-> l.version, roles |-> l.roles, staged |-> l.staged]
      BY <2>2 DEF Layout
    <3>. QED
      BY <3>2, <3>3
  <2>4. layout' = [layout EXCEPT ![a] = l2]
    BY <1>2, <1>t, <2>1 DEF TypeOK
  <2>. HIDE DEF l2
  <2>5. None \notin Layout
    BY DEF ConstantsHold
  <2>6. /\ layout'[a] = l2 /\ layout'[a] # None
        /\ \A s \in Sites : /\ s # a => layout'[s] = layout[s]
                            /\ Has(s)' <=> Has(s)
                            /\ Has(s) => layout[s].version \in Nat
    <3>1. layout'[a] = l2 /\ \A s \in Sites : s # a => layout'[s] = layout[s]
      BY <1>2, <1>t, <2>4 DEF TypeOK
    <3>2. \A s \in Sites : Has(s) => layout[s].version \in Nat
      BY <1>t DEF TypeOK, Has, Layout
    <3>. QED
      BY <1>2, <2>2, <2>3, <2>5, <3>1, <3>2 DEF Has
  <2>7. /\ (Mixed' <=> Mixed) /\ (Raised' <=> Raised) /\ ~Mixed /\ Values'
        /\ \A s \in Sites : Old(s)' <=> ~Raised
    BY <1>1, <1>2, <1>t DEF Mixed, Raised, Layouts, Values, Old
  <2>. HIDE DEF l
  <2>8. run'.pc = "agree" /\ run'.anchor = a
    BY <1>3, <2>1
  <2>9. l = layout[a]
    BY DEF l
  <2>10. Blank'
    BY <1>t, <2>2, <2>3, <2>6, <2>9 DEF Layouts, Blank
  <2>11. CASE Raised
    <3>1. Grown' /\ Newest'
      BY <2>7, <2>11, ForemostIs DEF Grown, Newest
    <3>2. counts[Foremost] # None
      BY <1>1, <1>t, <2>1, <2>7, <2>11 DEF Knows, Rejoined
    <3>3. Ended' /\ Counted' /\ BeforeRaise' /\ WhileMixed'
      BY <1>1, <1>t, <2>7, <2>11 DEF Knows, Ended, Counted, NothingMissing, BeforeRaise, WhileMixed
    <3>4. Rejoined' /\ RunKnows' /\ Agreeing'
      BY <1>1, <1>t, <2>7, <2>8, <2>11, <3>2 DEF Knows, Rejoined, RunKnows, Agreeing, Late
    <3>. QED
      BY <2>7, <2>10, <3>1, <3>3, <3>4 DEF Layouts, Knows
  <2>12. CASE ~Raised
    <3>1. a = Foremost /\ ~missing /\ InPlace
      BY <1>1, <1>t, <2>12 DEF Knows, BeforeRaise
    <3>2. \A s \in Sites : Old(s) /\ (Has(s) => layout[s].version <= l.version /\ layout[s].roles \subseteq l.roles)
      <4>1. \A s \in Sites : Old(s)
        BY <1>2, <2>12 DEF Raised, Old
      <4>. QED
        BY <1>2, <1>t, <2>2, <2>9, <3>1, <4>1 DEF Layouts, Newest, Grown
    <3>3. l.version # 0
      BY <1>2, <1>t, <2>2, <2>9, <3>1 DEF InPlace, Layouts, Blank
    <3>4. ~missing'
      BY <2>1, <3>1, <3>3
    <3>5. Grown'
      <4>1. SUFFICES ASSUME NEW s \in Sites, NEW t \in Sites, Has(s)', Has(t)',
                            layout'[s].version <= layout'[t].version
                     PROVE  layout'[s].roles \subseteq layout'[t].roles
        BY DEF Grown
      <4>2. CASE t = a /\ s # a
        BY <2>3, <2>6, <3>2, <4>1, <4>2
      <4>3. CASE t # a /\ s = a
        BY <2>3, <2>6, <3>2, <4>1, <4>3
      <4>4. CASE t # a /\ s # a
        BY <1>t, <2>6, <3>2, <4>1, <4>4 DEF Layouts, Grown
      <4>. QED
        BY <4>2, <4>3, <4>4
    <3>6. Newest'
      BY <1>2, <2>3, <2>6, <3>1, <3>2 DEF Newest
    <3>7. InPlace'
      BY <1>1, <2>3, <2>6, <2>9, <3>1 DEF InPlace, Old, Has
    <3>8. Ended' /\ Counted' /\ BeforeRaise' /\ WhileMixed'
      BY <1>1, <1>t, <2>7, <2>8, <2>12, <3>1, <3>4, <3>7
      DEF Knows, Ended, Counted, NothingMissing, BeforeRaise, WhileMixed
    <3>9. Rejoined' /\ RunKnows' /\ Agreeing'
      BY <2>7, <2>8, <2>12 DEF Rejoined, RunKnows, Agreeing
    <3>. QED
      BY <2>7, <2>10, <3>5, <3>6, <3>8, <3>9 DEF Layouts, Knows
  <2>. QED
    BY <2>11, <2>12
<1>. QED
  BY <1>4, <1>5

-----------------------------------------------------------------------------
LEMMA InitKnows == ASSUME ConstantsHold, OneAnchor, Init PROVE Layouts /\ Knows
<1>1. /\ want = FirstFactor /\ ~missing /\ ~joined /\ run.pc = "idle"
      /\ \A s \in Sites : /\ factor[s] = IF s \in OldSites THEN FirstFactor ELSE None
                          /\ counts[s] = None
                          /\ garage[s] = IF s \in OldSites THEN "up" ELSE "stopped"
                          /\ s \in OldSites => layout[s].version = 1 /\ layout[s].roles = OldSites
                          /\ Has(s) => s \in OldSites
      /\ FirstFactor \in Nat
  BY Constants, IdleRun DEF Init, Fresh, Has
<1>2. \A s \in OldSites : Has(s)
  <2>1. /\ \A f \in Factors : [Fresh(f) EXCEPT !.version = 1, !.roles = OldSites] \in Layout
        /\ None \notin Layout
    BY Constants DEF ConstantsHold, Fresh, Layout
  <2>. QED
    BY <2>1, Constants DEF Init, Has
<1>3. Layouts
  <2>1. \A s \in Sites : Has(s) => layout[s].version = 1 /\ layout[s].roles = OldSites
    BY <1>1
  <2>2. Values /\ Blank
    BY <1>1, <2>1 DEF Values, Blank
  <2>3. Grown /\ Newest
    BY <2>1, ForemostIs DEF Grown, Newest
  <2>. QED
    BY <2>2, <2>3 DEF Layouts
<1>4. InPlace
  BY <1>1, <1>2, ForemostIs DEF InPlace, Old
<1>5. Knows
  BY <1>1, <1>4, Constants DEF Knows, Ended, Counted, NothingMissing, BeforeRaise, WhileMixed, Rejoined, RunKnows,
     Agreeing, Raised, Late
<1>. QED
  BY <1>3, <1>5

LEMMA NextKnows == ConstantsHold /\ OneAnchor /\ MInv /\ [Next]_vars => MInv'
<1> SUFFICES ASSUME ConstantsHold, OneAnchor, MInv, [Next]_vars PROVE MInv'
  OBVIOUS
<1>t. IInv /\ Layouts /\ Knows
  BY DEF MInv
<1>1. IInv'
  BY <1>t, NextIInv
<1>2. CASE UNCHANGED vars
  <2>1. UNCHANGED <<want, factor, garage, layout, counts, missing, joined, run>>
    BY <1>2 DEF vars
  <2>2. InPlace => garage'[Foremost] = "up"
    BY <2>1 DEF InPlace
  <2>. QED
    BY <1>1, <1>t, <2>1, <2>2, BesideKnows DEF MInv
<1>3. CASE RunStep
  BY <1>1, <1>3, GatesKnow, CountKnows, StopNodeKnows, SetAsideKnows, WriteTomlKnows, StartNodeKnows,
     ConnectKnows, AssignKnows, ApplyLayoutKnows, ProvisionedKnows DEF RunStep, MInv
<1>4. CASE Garages
  <2>1. Foremost \in Sites
    BY ForemostIs
  <2>. QED
    BY <1>1, <1>4, <2>1, GaragesKnow, SpreadKnows DEF Garages, MInv
<1>5. CASE Plan \/ Stop \/ Raise \/ \E s \in Sites : Down(s) \/ Apply(s)
  BY <1>1, <1>5, PlanKnows, GatesKnow, RaiseKnows, GaragesKnow, ApplyKnows DEF MInv
<1>. QED
  BY <1>2, <1>3, <1>4, <1>5 DEF Next

(* NothingMissing: whatever stops it, and however often, a join that comes *)
(* to its end after a reset has found every object.                        *)
THEOREM NothingIsMissing == ASSUME ConstantsHold, OneAnchor PROVE Spec => []NothingMissing
<1>1. Init => MInv
  BY InitIInv, InitKnows DEF MInv
<1>2. MInv => NothingMissing
  BY DEF MInv, Knows, Ended
<1>. QED
  BY <1>1, <1>2, NextKnows, PTL DEF Spec
=============================================================================
