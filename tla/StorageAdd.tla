----------------------------- MODULE StorageAdd -----------------------------
(***************************************************************************)
(* storage add: every site of storage.garage.sites joined into one Garage  *)
(* cluster, and Garage's reset for another replication factor.             *)
(*                                                                         *)
(*   internal/storageadd/storageadd.go   Build and Execute                 *)
(*   internal/storageadd/stages.go       the stages and their gates        *)
(*   internal/storageadd/node.go         what a node says                  *)
(*   internal/apply/apply.go             garageReplicationGuard            *)
(*                                                                         *)
(* A run plans from what the nodes say and takes one step at a time.  It   *)
(* may stop between any two, wait on Garage and end, or have a node fail   *)
(* under it; a later run goes on from what is on the hosts.  Meanwhile     *)
(* Garage spreads a layout and moves data, and the operator applies sites  *)
(* and raises the factor.  Garage is modelled by what these files and      *)
(* their tests say it does.                                                *)
(***************************************************************************)
EXTENDS GarageState, Naturals, FiniteSets, Sequences

CONSTANTS
    Order,         \* storage.garage.sites, as listed
    OldSites,      \* the sites that make up the cluster at first
    FirstFactor,   \* its replication factor
    Factors,       \* the factors the configuration may name
    Failing,       \* the sites whose Garage may stop by itself
    Mishaps,       \* what may go wrong: "stop" of a run, "down" of a Garage
    None,          \* no file
    MaxMishaps     \* bound: things that go wrong

Sites == {Order[i] : i \in DOMAIN Order}

(* A layout of the cluster, as a node stores it.                           *)
Layout == [factor : Factors, version : Nat, roles : SUBSET Sites, staged : SUBSET Sites]

(* Assumed of the constants wherever the module is used.  Validation       *)
(* refuses a factor above the number of Garage sites.                      *)
ConstantsHold ==
    /\ Order \in Seq(Sites) /\ Cardinality(Sites) = Len(Order)
    /\ OldSites \subseteq Sites /\ OldSites # {} /\ Failing \subseteq Sites
    /\ Factors \subseteq 1..Cardinality(Sites) /\ FirstFactor \in Factors
    /\ Mishaps \subseteq {"stop", "down"} /\ None \notin Sites \cup Nat \cup Layout
    /\ MaxMishaps \in Nat

Foremost == Order[1]

(* Assumed where nothing is to be missing.  A run compares with what its   *)
(* own anchor has counted, and has the anchor of the run before where the  *)
(* site listed first was in the cluster and does not stop by itself; and   *)
(* the configuration raises the factor once.                               *)
OneAnchor ==
    /\ Foremost \in OldSites \ Failing
    /\ \A f, g \in Factors : f > FirstFactor /\ g > FirstFactor => f = g

VARIABLES
    want,       \* the replication factor of the configuration
    run,        \* the run under way
    mishaps     \* things that went wrong

cluster == <<garage, layout, met, behind, missing>>
vars == <<want, factor, garage, layout, aside, met, behind, counts, missing, joined, run, mishaps>>

(* Objects, by what a count can tell: all of them, or fewer.               *)
All == 1
Fewer == 0

Fresh(f) == [factor |-> f, version |-> 0, roles |-> {}, staged |-> {}]

Idle == [pc |-> "idle", anchor |-> None, want |-> None, reset |-> FALSE, counted |-> FALSE,
         changing |-> {}, settling |-> {}, assigning |-> FALSE, todo |-> {}, saw |-> None]

At(pc) == run.pc = pc

(* The sites still to do, in the order listed.                             *)
First(S) == Order[CHOOSE i \in DOMAIN Order :
                    Order[i] \in S /\ \A j \in 1..(i - 1) : Order[j] \notin S]

(* The run goes on to a stage, of the sites S,                             *)
To(pc, S) == run' = [run EXCEPT !.pc = pc, !.todo = S]

(* or past the site s, to the next stage when s is the last of this one;   *)
Past(s, pc, S) == IF run.todo = {s} THEN To(pc, S) ELSE run' = [run EXCEPT !.todo = @ \ {s}]

(* it fails, or waits on Garage, and ends.                                 *)
End == run' = Idle

Init ==
    /\ want = FirstFactor
    /\ factor = [s \in Sites |-> IF s \in OldSites THEN FirstFactor ELSE None]
    /\ garage = [s \in Sites |-> IF s \in OldSites THEN "up" ELSE "stopped"]
    /\ layout = [s \in Sites |-> IF s \in OldSites
                                 THEN [Fresh(FirstFactor) EXCEPT !.version = 1, !.roles = OldSites]
                                 ELSE None]
    /\ aside = [s \in Sites |-> {}]
    /\ met = OldSites
    /\ behind = {}
    /\ counts = [s \in Sites |-> None]
    /\ missing = FALSE
    /\ joined = FALSE
    /\ run = Idle
    /\ mishaps = 0

-----------------------------------------------------------------------------
(* What the nodes say.                                                     *)
HasRole(s) == Answers(s) /\ s \in layout[s].roles
Deployed(s) == factor[s] # None

(* The first site listed whose node has a role, or the first listed.       *)
ChooseAnchor == LET R == {s \in Sites : HasRole(s)} IN First(IF R = {} THEN Sites ELSE R)

(* Mutant: a node's silence alone does not resume a reset. *)
UnfinishedByFactor(a) == FALSE

(* A reset stopped before it started every node: no factor differs any     *)
(* more, and the counts file says so.                                      *)
Unfinished(a) == counts[a] # None /\ \E s \in Sites : Deployed(s) /\ ~Answers(s)

(* No site without a role is listed ahead of one with a role.              *)
RolesFirst == \A i \in DOMAIN Order : \A j \in 1..i : HasRole(Order[i]) => HasRole(Order[j])

(* Build and stage 1, with --change-replication.  A dry run, or a run that *)
(* is refused here, changes nothing.                                       *)
Plan ==
    LET a == ChooseAnchor
        changing == {s \in Sites : Deployed(s) /\ factor[s] # want}
        reset == changing # {} \/ Unfinished(a)
    IN  /\ run = Idle
        /\ \A s \in Sites : Deployed(s)
        /\ reset \/ (RolesFirst /\ \A s \in Sites : Answers(s))
        /\ run' = [pc |-> IF reset THEN "settle" ELSE "connect", anchor |-> a, want |-> want,
                   reset |-> reset, counted |-> counts[a] # None, changing |-> changing,
                   settling |-> {s \in Sites : HasRole(s)},
                   assigning |-> reset \/ \E s \in Sites : ~HasRole(s),
                   todo |-> IF reset THEN {} ELSE Sites \ {a}, saw |-> None]
        /\ joined' = FALSE
        /\ UNCHANGED <<want, factor, cluster, aside, counts, mishaps>>

(* A node reports one live version of the layout, and no data to receive.  *)
Settled(s) == Answers(s) /\ behind \cap layout[s].roles = {}

(* Stage 2, before a reset.                                                *)
Settle ==
    /\ At("settle")
    /\ IF \A s \in run.settling : Settled(s) THEN To("count", {}) ELSE End
    /\ UNCHANGED <<want, factor, cluster, aside, counts, joined, mishaps>>

-----------------------------------------------------------------------------
(* Stage 3, the reset.                                                     *)

(* What the anchor's node counts: a node without a role answers every      *)
(* bucket as missing, which is not counted.                                *)
Count(a) == IF HasRole(a) THEN IF missing THEN Fewer ELSE All ELSE Fewer

RecordCounts ==
    /\ At("count")
    /\ IF run.counted \/ Answers(run.anchor)
       THEN IF run.changing = {} THEN To("start", Sites) ELSE To("stop", run.changing)
       ELSE End
    /\ counts' = IF run.counted \/ ~Answers(run.anchor) THEN counts
                 ELSE [counts EXCEPT ![run.anchor] = Count(run.anchor)]
    /\ UNCHANGED <<want, factor, cluster, aside, joined, mishaps>>

StopNode ==
    LET s == First(run.todo) IN
    /\ At("stop")
    /\ garage' = [garage EXCEPT ![s] = "stopped"]
    /\ Past(s, "aside", run.changing)
    /\ UNCHANGED <<want, factor, layout, aside, met, behind, counts, missing, joined, mishaps>>

(* mv -n: the layout moves to a name with its factor, unless that name is  *)
(* taken, and a layout left in place ends the run.                         *)
SetAside ==
    LET s == First(run.todo) IN
    /\ At("aside")
    /\ \/ /\ layout[s] = None
          /\ Past(s, "write", run.changing)
          /\ UNCHANGED <<layout, aside, behind>>
       \/ /\ layout[s] # None /\ factor[s] \notin aside[s]
          /\ aside' = [aside EXCEPT ![s] = @ \cup {factor[s]}]
          /\ layout' = [layout EXCEPT ![s] = None]
          /\ behind' = behind \ {s}
          /\ Past(s, "write", run.changing)
       \/ /\ layout[s] # None /\ factor[s] \in aside[s]
          /\ End
          /\ UNCHANGED <<layout, aside, behind>>
    /\ UNCHANGED <<want, factor, garage, met, counts, missing, joined, mishaps>>

WriteToml ==
    LET s == First(run.todo) IN
    /\ At("write")
    /\ factor' = [factor EXCEPT ![s] = run.want]
    /\ Past(s, "start", Sites)
    /\ UNCHANGED <<want, cluster, aside, counts, joined, mishaps>>

(* Garage starts on s, at the factor f: it refuses a stored layout of      *)
(* another factor, and without one has none to show.                       *)
Starts(s, f) ==
    LET fits == layout[s] = None \/ layout[s].factor = f IN
    /\ garage' = [garage EXCEPT ![s] = IF fits THEN "up" ELSE "refused"]
    /\ layout' = IF layout[s] = None THEN [layout EXCEPT ![s] = Fresh(f)] ELSE layout

StartNode ==
    LET s == First(run.todo) IN
    /\ At("start")
    /\ IF Answers(s) THEN UNCHANGED <<garage, layout>> ELSE Starts(s, factor[s])
    /\ Past(s, "started", {})
    /\ UNCHANGED <<want, factor, aside, met, behind, counts, missing, joined, mishaps>>

Started ==
    /\ At("started")
    /\ IF \A s \in Sites : factor[s] = run.want /\ Answers(s)
       THEN To("connect", Sites \ {run.anchor}) ELSE End
    /\ UNCHANGED <<want, factor, cluster, aside, counts, joined, mishaps>>

-----------------------------------------------------------------------------
(* Stage 4: the anchor dials every node it does not see.                   *)
Connect ==
    /\ At("connect") /\ run.todo # {}
    /\ LET s == First(run.todo) IN
       IF Answers(run.anchor) /\ Answers(s)
       THEN met' = met \cup {run.anchor, s} /\ Past(s, "connect", {})
       ELSE End /\ UNCHANGED met
    /\ UNCHANGED <<want, factor, garage, layout, aside, behind, counts, missing, joined, mishaps>>

(* Its gate: every node sees every other.  The layout stage that follows   *)
(* reads the anchor's layout, when it has anything to do.                  *)
Connected ==
    /\ At("connect") /\ run.todo = {}
    /\ IF \A s \in Sites : Answers(s) /\ s \in met
       THEN run' = IF run.assigning
                   THEN [run EXCEPT !.pc = "assign", !.todo = Sites, !.saw = layout[run.anchor]]
                   ELSE [run EXCEPT !.pc = "agree"]
       ELSE End
    /\ UNCHANGED <<want, factor, cluster, aside, counts, joined, mishaps>>

(* Stage 5: a role staged for every node without one,                      *)
Assign ==
    LET a == run.anchor
        s == First(run.todo)
    IN  /\ At("assign") /\ run.todo # {}
        /\ IF Answers(s) /\ (s \in run.saw.roles \/ Answers(a))
           THEN /\ layout' = IF s \in run.saw.roles THEN layout
                             ELSE [layout EXCEPT ![a].staged = @ \cup {s}]
                /\ Past(s, "assign", {})
           ELSE End /\ UNCHANGED layout
        /\ UNCHANGED <<want, factor, garage, aside, met, behind, counts, missing, joined, mishaps>>

(* and all of them applied as one version, the one read plus one, which    *)
(* Garage refuses if it is not its own plus one.  The first layout after a *)
(* reset may not find every object at once.                                *)
ApplyLayout ==
    LET a == run.anchor
        l == layout[a]
        applies == Answers(a) /\ l.version = run.saw.version
    IN  /\ At("assign") /\ run.todo = {}
        /\ IF run.saw.roles = Sites
           THEN To("agree", {}) /\ UNCHANGED <<layout, behind, missing>>
           ELSE IF applies
           THEN /\ layout' = [layout EXCEPT ![a].version = @ + 1,
                                            ![a].roles = @ \cup l.staged, ![a].staged = {}]
                /\ behind' = behind \cup {a}
                /\ IF l.version = 0 THEN missing' \in BOOLEAN ELSE UNCHANGED missing
                /\ To("agree", {})
           ELSE End /\ UNCHANGED <<layout, behind, missing>>
        /\ UNCHANGED <<want, factor, garage, aside, met, counts, joined, mishaps>>

(* Its gate: one version everywhere, with a role for every site.           *)
Agree ==
    /\ At("agree")
    /\ IF /\ \A s \in Sites : Answers(s) /\ layout[s].roles = Sites
          /\ \A s, t \in Sites : layout[s].version = layout[t].version
       THEN To("sync", {}) ELSE End
    /\ UNCHANGED <<want, factor, cluster, aside, counts, joined, mishaps>>

(* Stage 6: Garage has moved the data.                                     *)
Synced ==
    /\ At("sync")
    /\ IF \A s \in Sites : Settled(s) THEN To("provision", {}) ELSE End
    /\ UNCHANGED <<want, factor, cluster, aside, counts, joined, mishaps>>

(* Mutant: the counts are removed once read. *)
ComparedAnyhow(a) == TRUE

(* Stage 7's gate: no fewer objects than were recorded before the reset.   *)
Compared(a) == counts[a] = None \/ (IF missing THEN Fewer ELSE All) >= counts[a]

Provisioned ==
    LET a == run.anchor
        passes == Answers(a) /\ Compared(a)
    IN  /\ At("provision")
        /\ End
        /\ IF passes THEN counts' = [counts EXCEPT ![a] = None] /\ joined' = TRUE
                     ELSE UNCHANGED <<counts, joined>>
        /\ UNCHANGED <<want, factor, cluster, aside, mishaps>>

-----------------------------------------------------------------------------
Mishap(what) ==
    /\ what \in Mishaps /\ mishaps < MaxMishaps
    /\ mishaps' = mishaps + 1

(* A run is interrupted, or a step of it fails on the host.                *)
Stop ==
    /\ run # Idle /\ Mishap("stop")
    /\ End
    /\ UNCHANGED <<want, factor, cluster, aside, counts, joined>>

(* Garage stops on a site, and Docker starts it again after a while: a     *)
(* container that a command stopped it does not.                           *)
Down(s) ==
    /\ garage[s] = "up" /\ s \in Failing /\ Mishap("down")
    /\ garage' = [garage EXCEPT ![s] = "down"]
    /\ UNCHANGED <<want, factor, layout, aside, met, behind, counts, missing, joined, run>>

Recover(s) ==
    /\ garage[s] = "down"
    /\ Starts(s, factor[s])
    /\ UNCHANGED <<want, factor, aside, met, behind, counts, missing, joined, run, mishaps>>

(* Mutant: apply changes the factor. *)
ApplyAnyFactor(s) ==
    /\ garage[s] = "stopped"
    /\ factor' = [factor EXCEPT ![s] = want]
    /\ Starts(s, want)
    /\ UNCHANGED <<want, aside, met, behind, counts, missing, joined, run, mishaps>>

(* apply --site: it writes garage.toml where there is none, and starts     *)
(* Garage where it is stopped, but refuses to change the factor.           *)
Apply(s) ==
    /\ factor[s] \in {None, want} /\ garage[s] = "stopped"
    /\ factor' = [factor EXCEPT ![s] = want]
    /\ Starts(s, want)
    /\ UNCHANGED <<want, aside, met, behind, counts, missing, joined, run, mishaps>>

(* The operator raises the replication factor between two runs.            *)
Raise ==
    /\ run = Idle
    /\ \E f \in Factors : f > want /\ want' = f
    /\ joined' = FALSE
    /\ UNCHANGED <<factor, cluster, aside, counts, missing, run, mishaps>>

(* Garage: a node takes the newest layout of those it knows,               *)
Spread(s, t) ==
    /\ {s, t} \subseteq met /\ Answers(s) /\ Answers(t)
    /\ layout[t].version > layout[s].version
    /\ layout' = [layout EXCEPT ![s] = layout[t]]
    /\ behind' = IF s \in layout[t].roles THEN behind \cup {s} ELSE behind
    /\ UNCHANGED <<want, factor, garage, aside, met, counts, missing, joined, run, mishaps>>

(* receives its data from the others with a role,                          *)
Receive(s) ==
    /\ s \in behind /\ \A t \in layout[s].roles : Answers(t) /\ layout[t].version = layout[s].version
    /\ behind' = behind \ {s}
    /\ UNCHANGED <<want, factor, garage, layout, aside, met, counts, missing, joined, run, mishaps>>

(* and the object counters converge.                                       *)
Converge ==
    /\ missing /\ behind = {}
    /\ missing' = FALSE
    /\ UNCHANGED <<want, factor, garage, layout, aside, met, behind, counts, joined, run, mishaps>>

-----------------------------------------------------------------------------
FirstApply == \E s \in Sites : factor[s] = None /\ Apply(s)

RunStep ==
    \/ Settle \/ RecordCounts \/ StopNode \/ SetAside \/ WriteToml \/ StartNode \/ Started
    \/ Connect \/ Connected \/ Assign \/ ApplyLayout \/ Agree \/ Synced \/ Provisioned

Garages ==
    \/ \E s \in Sites : Recover(s) \/ Receive(s)
    \/ \E s, t \in Sites : Spread(s, t)
    \/ Converge

Next ==
    \/ Plan \/ RunStep \/ Stop
    \/ \E s \in Sites : Down(s) \/ Apply(s)
    \/ Raise
    \/ Garages

(* A run goes on and the operator runs the command again, after an apply   *)
(* of the sites without a Garage; Docker restarts what stopped by itself,  *)
(* and Garage goes on spreading its layout and moving its data.            *)
Fairness ==
    /\ WF_vars(RunStep)
    /\ WF_vars(Plan)
    /\ WF_vars(FirstApply)
    /\ WF_vars(Garages)

Spec == Init /\ [][Next]_vars /\ Fairness

-----------------------------------------------------------------------------
Pcs    == {"idle", "settle", "count", "stop", "aside", "write", "start", "started", "connect",
           "assign", "agree", "sync", "provision"}
Runs   == [pc : Pcs, anchor : Sites \cup {None}, want : Factors \cup {None}, reset : BOOLEAN,
           counted : BOOLEAN, changing : SUBSET Sites, settling : SUBSET Sites,
           assigning : BOOLEAN, todo : SUBSET Sites, saw : Layout \cup {None}]

TypeOK ==
    /\ want \in Factors
    /\ factor \in [Sites -> Factors \cup {None}]
    /\ garage \in [Sites -> {"up", "down", "stopped", "refused"}]
    /\ layout \in [Sites -> Layout \cup {None}]
    /\ aside \in [Sites -> SUBSET Factors]
    /\ met \subseteq Sites /\ behind \subseteq Sites
    /\ counts \in [Sites -> {All, Fewer, None}]
    /\ missing \in BOOLEAN /\ joined \in BOOLEAN
    /\ run \in Runs
    /\ mishaps \in 0..MaxMishaps

(* A join comes to its end, whatever stops it on the way. *)
JoinFinishes == ~joined ~> joined
=============================================================================
