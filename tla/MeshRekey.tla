----------------------------- MODULE MeshRekey -----------------------------
(***************************************************************************)
(* mesh rekey: the sites' WireGuard keys replaced, one site at a time.     *)
(*                                                                         *)
(*   internal/meshrekey/meshrekey.go  the plan, its stages and their gates *)
(*   internal/meshkey/meshkey.go      which key a site is rendered with    *)
(*   internal/apply/apply.go          a host's mesh file, its manifest and *)
(*                                    what the interface is handed         *)
(*                                                                         *)
(* A site's key has a next key beside it in the secrets file while it is   *)
(* replaced.  Every peer's mesh file gets the next key, then the site's    *)
(* own, each file written, recorded in the host's manifest and handed to   *)
(* the interface.  A run may stop between any two of these steps; the next *)
(* run goes on from the secrets file and from what the hosts run.          *)
(*                                                                         *)
(* One operator runs the command at a time.  Keys are numbers, in the      *)
(* order they are generated, and a site's public key is its private one's  *)
(* name.  Sites not brought up yet are left out: a run neither writes to   *)
(* them nor renders them.                                                  *)
(***************************************************************************)
EXTENDS Naturals, FiniteSets

CONSTANTS
    NSites,        \* how many sites the configuration declares
    Dialled,       \* those with an address the others dial
    None,          \* no key, nobody
    StopAt,        \* the steps an interrupt may end a run at
    MaxKeys,       \* bound: keys ever generated, the sites' first ones included
    MaxMishaps     \* bound: interrupts, sick clusters and other maintenance

Sites == 1..NSites
Keys  == 1..MaxKeys

Steps == {"idle", "record", "pick", "check", "newkey", "pause", "plan", "hand", "manifest",
          "sync", "health", "resume", "promote"}

ASSUME ConstantsAssumption ==
    /\ NSites \in Nat /\ MaxKeys \in Nat /\ MaxMishaps \in Nat
    /\ NSites <= MaxKeys
    /\ Dialled \subseteq Sites
    /\ None \notin Nat /\ None \notin {"rekey", "others"}
    /\ StopAt \subseteq Steps \ {"idle"}

VARIABLES
    cur,       \* the secrets file: each site's current key
    next,      \* the secrets file: each site's next key, or None
    left,      \* the secrets file: the sites an --all run has left
    conf,      \* each host's mesh file: its own key, and each peer's it lists
    known,     \* whether the host's manifest records that file
    iface,     \* what each host's interface runs, as conf
    paused,    \* who paused Patroni: "rekey", "others" or None
    sick,      \* whether the cluster is unhealthy for another reason
    run,       \* the run under way
    minted,    \* keys generated so far
    done,      \* history: the sites promoted since an --all run recorded its sites
    mishaps    \* mishaps so far

file == <<cur, next, left>>
host == <<conf, known, iface>>
vars == <<file, host, paused, sick, run, minted, done, mishaps>>

-----------------------------------------------------------------------------
(* Two sites list each other as peers when either is dialled.              *)
PeersDirectly(h, s) == h # s /\ (h \in Dialled \/ s \in Dialled)

(* Mutant: a dialled site's peers are the dialled ones. *)
PeersDialled(s) == {h \in Dialled : PeersDirectly(h, s)}

Peers(s) == {h \in Sites : PeersDirectly(h, s)}

(* The mesh file of host h: its own key and those of the peers it lists.   *)
Render(h, keys) == [s \in Sites |-> IF s = h \/ PeersDirectly(h, s) THEN keys[s] ELSE None]

(* Sites with no address send what they list no peer for through the first *)
(* dialled site.  The sites whose traffic to another goes through s:       *)
Relay(s)  == s \in Dialled /\ \A t \in Dialled : s <= t
Relays(s) == {h \in Sites \ Dialled :
                 Relay(s) /\ \E o \in Sites \ {h, s} : ~PeersDirectly(h, o)}

Pending == {s \in Sites : next[s] # None}

(* AsRunning: each site's key as the mesh runs it. *)
AsRunning == [s \in Sites |-> IF next[s] # None /\ iface[s][s] = next[s] THEN next[s] ELSE cur[s]]

(* What the swap of s renders: the next key for s. *)
Swapped(s) == [AsRunning EXCEPT ![s] = next[s]]

(* A tunnel is up when each side runs the key the other knows it by.       *)
Up(h, s) == iface[h][s] = iface[s][s] /\ iface[s][h] = iface[h][h]

Reach(h, s) == \/ PeersDirectly(h, s) /\ Up(h, s)
               \/ /\ ~PeersDirectly(h, s)
                  /\ \E r \in Dialled : Relay(r) /\ Up(h, r) /\ Up(r, s)

(* The cluster's health: what a cut mesh does to it depends on where its   *)
(* members are.                                                            *)
Healthy   == ~sick
Unhealthy == sick \/ \E h, s \in Sites : h # s /\ ~Reach(h, s)

(* Mutant: Patroni's pause is not read. *)
ReadyPaused == Healthy

Ready == Healthy /\ paused = None

Idle == [pc |-> "idle", all |-> FALSE, todo |-> {}, ran |-> {}, site |-> None,
         hand |-> {}, host |-> None]

Init ==
    /\ cur     = [s \in Sites |-> s]
    /\ next    = [s \in Sites |-> None]
    /\ left    = {}
    /\ conf    = [h \in Sites |-> Render(h, cur)]
    /\ known   = [h \in Sites |-> TRUE]
    /\ iface   = conf
    /\ paused  = None
    /\ sick    = FALSE
    /\ run     = Idle
    /\ minted  = NSites
    /\ done    = {}
    /\ mishaps = 0

Goto(pc) == run' = [run EXCEPT !.pc = pc]

-----------------------------------------------------------------------------
(* The sites a run rekeys: those left part way, named or not, and those    *)
(* named.                                                                  *)
Planned(named) == Pending \cup named

(* Build and BuildAll: every site answers, and a run with nothing to       *)
(* finish needs a healthy cluster that nobody paused.                      *)
Start ==
    /\ run.pc = "idle"
    /\ \E all \in BOOLEAN, named \in SUBSET Sites :
          /\ IF all THEN named = IF left # {} THEN left ELSE Sites
                    ELSE named # {}
          /\ Pending = {} => Ready
          /\ minted + Cardinality(named \ Pending) <= MaxKeys
          /\ run' = [Idle EXCEPT !.pc = IF all /\ left = {} THEN "record" ELSE "pick",
                                 !.all = all,
                                 !.todo = Planned(named),
                                 !.ran = {s \in Pending : iface[s][s] = next[s]}]
    /\ UNCHANGED <<file, host, paused, sick, minted, done, mishaps>>

(* An --all run records the sites it has left. *)
Record ==
    /\ run.pc = "record"
    /\ left' = run.todo
    /\ done' = {}
    /\ Goto("pick")
    /\ UNCHANGED <<cur, next, host, paused, sick, minted, mishaps>>

(* The step after a site's next key is in the secrets file: a relay that   *)
(* does not run it yet has Patroni paused first.                           *)
AfterKey(s) == IF Relays(s) # {} /\ s \notin run.ran THEN "pause" ELSE "plan"

(* Mutant: a site part way through its rekey gets another next key. *)
PickAnew ==
    /\ run.pc = "pick"
    /\ \E s \in run.todo :
          /\ s \in Pending \/ run.todo \cap Pending = {}
          /\ run' = [run EXCEPT !.pc = "check", !.todo = @ \ {s}, !.site = s]
    /\ UNCHANGED <<file, host, paused, sick, minted, done, mishaps>>

(* The next site: one part way through its rekey, then the others, for an  *)
(* --all run in the configuration's order.                                 *)
Pick ==
    /\ run.pc = "pick"
    /\ \E s \in run.todo :
          /\ s \in Pending \/ run.todo \cap Pending = {}
          /\ run.all /\ s \notin Pending => \A t \in run.todo : s <= t
          /\ run' = [run EXCEPT !.pc = IF s \in Pending THEN AfterKey(s) ELSE "check",
                                !.todo = @ \ {s}, !.site = s]
    /\ UNCHANGED <<file, host, paused, sick, minted, done, mishaps>>

CheckReady ==
    /\ run.pc = "check"
    /\ Ready
    /\ Goto("newkey")
    /\ UNCHANGED <<file, host, paused, sick, minted, done, mishaps>>

NewKey ==
    /\ run.pc = "newkey" /\ minted < MaxKeys
    /\ next' = [next EXCEPT ![run.site] = minted + 1]
    /\ minted' = minted + 1
    /\ Goto(AfterKey(run.site))
    /\ UNCHANGED <<cur, left, host, paused, sick, done, mishaps>>

(* pause: a Patroni already paused is left as it is. *)
Pause ==
    /\ run.pc = "pause"
    /\ paused' = IF paused = None THEN "rekey" ELSE paused
    /\ Goto("plan")
    /\ UNCHANGED <<file, host, sick, minted, done, mishaps>>

-----------------------------------------------------------------------------
(* The swap.                                                               *)

(* A file that is to change is a conflict when the manifest does not       *)
(* record what is on the host.                                             *)
Conflict(h, keys) == conf[h] # Render(h, keys) /\ ~known[h]

(* Every host is planned before the first is changed. *)
PlanSwap ==
    /\ run.pc = "plan"
    /\ LET s == run.site
           hosts == Peers(s) \cup {s}
       IN  /\ \A h \in hosts : ~Conflict(h, Swapped(s))
           /\ run' = [run EXCEPT !.pc = "hand", !.hand = hosts]
    /\ UNCHANGED <<file, host, paused, sick, minted, done, mishaps>>

(* The next host: the peers in the configuration's order, the site last. *)
NextHost(h) == /\ h \in run.hand
               /\ \A t \in run.hand : t = h \/ h = run.site \/ t = run.site \/ h < t
               /\ h = run.site => run.hand = {h}

(* A mesh file that changes is written. *)
HandWrite(h) ==
    /\ run.pc = "hand" /\ NextHost(h)
    /\ conf[h] # Render(h, Swapped(run.site))
    /\ conf' = [conf EXCEPT ![h] = Render(h, Swapped(run.site))]
    /\ known' = [known EXCEPT ![h] = FALSE]
    /\ run' = [run EXCEPT !.pc = "manifest", !.host = h]
    /\ UNCHANGED <<file, iface, paused, sick, minted, done, mishaps>>

(* writeManifest. *)
HandRecord ==
    /\ run.pc = "manifest"
    /\ known' = [known EXCEPT ![run.host] = TRUE]
    /\ Goto("sync")
    /\ UNCHANGED <<file, conf, iface, paused, sick, minted, done, mishaps>>

(* wg syncconf. *)
HandSync ==
    /\ run.pc = "sync"
    /\ iface' = [iface EXCEPT ![run.host] = conf[run.host]]
    /\ run' = [run EXCEPT !.pc = "hand", !.hand = @ \ {run.host}, !.host = None]
    /\ UNCHANGED <<file, conf, known, paused, sick, minted, done, mishaps>>

(* Mutant: a file already written is not handed over again. *)
HandWrittenOnce(h) ==
    /\ run.pc = "hand" /\ NextHost(h)
    /\ conf[h] = Render(h, Swapped(run.site))
    /\ run' = [run EXCEPT !.hand = @ \ {h}]
    /\ UNCHANGED <<file, host, paused, sick, minted, done, mishaps>>

(* A file already written is handed over again when the interface does not *)
(* run it yet.                                                             *)
HandWritten(h) ==
    /\ run.pc = "hand" /\ NextHost(h)
    /\ conf[h] = Render(h, Swapped(run.site))
    /\ run' = IF iface[h][run.site] = next[run.site]
              THEN [run EXCEPT !.hand = @ \ {h}]
              ELSE [run EXCEPT !.pc = "sync", !.host = h]
    /\ UNCHANGED <<file, host, paused, sick, minted, done, mishaps>>

(* A peer has had a handshake with the site under its next key. *)
Handshake(h, s) == iface[h][s] = next[s] /\ Up(h, s)

(* The gate: every peer has. *)
Handshakes ==
    /\ run.pc = "hand" /\ run.hand = {}
    /\ \A h \in Peers(run.site) : Handshake(h, run.site)
    /\ Goto("health")
    /\ UNCHANGED <<file, host, paused, sick, minted, done, mishaps>>

(* Mutant: only the run that paused Patroni resumes it. *)
HealthResumesOwn ==
    /\ run.pc = "health"
    /\ Healthy
    /\ Goto(IF Relays(run.site) # {} /\ run.site \notin run.ran THEN "resume" ELSE "promote")
    /\ UNCHANGED <<file, host, paused, sick, minted, done, mishaps>>

HealthGate ==
    /\ run.pc = "health"
    /\ Healthy
    /\ Goto(IF Relays(run.site) # {} THEN "resume" ELSE "promote")
    /\ UNCHANGED <<file, host, paused, sick, minted, done, mishaps>>

Resume ==
    /\ run.pc = "resume"
    /\ paused' = None
    /\ Goto("promote")
    /\ UNCHANGED <<file, host, sick, minted, done, mishaps>>

(* Mutant: a promoted site stays among those an --all run has left. *)
PromoteLeft ==
    /\ run.pc = "promote"
    /\ cur' = [cur EXCEPT ![run.site] = next[run.site]]
    /\ next' = [next EXCEPT ![run.site] = None]
    /\ done' = done \cup {run.site}
    /\ run' = [run EXCEPT !.pc = "pick", !.site = None]
    /\ UNCHANGED <<left, host, paused, sick, minted, mishaps>>

Promote ==
    /\ run.pc = "promote"
    /\ cur' = [cur EXCEPT ![run.site] = next[run.site]]
    /\ next' = [next EXCEPT ![run.site] = None]
    /\ left' = left \ {run.site}
    /\ done' = done \cup {run.site}
    /\ run' = [run EXCEPT !.pc = "pick", !.site = None]
    /\ UNCHANGED <<host, paused, sick, minted, mishaps>>

Finish ==
    /\ run.pc = "pick" /\ run.todo = {}
    /\ run' = Idle
    /\ UNCHANGED <<file, host, paused, sick, minted, done, mishaps>>

-----------------------------------------------------------------------------
(* A gate fails and the run stops: the cluster is not ready, a mesh file   *)
(* was edited on its host, a handshake is missing, the cluster is          *)
(* unhealthy.                                                              *)
Refuse ==
    /\ \/ run.pc = "check" /\ (Unhealthy \/ paused # None)
       \/ run.pc = "plan" /\ \E h \in Peers(run.site) \cup {run.site} :
                                 Conflict(h, Swapped(run.site))
       \/ run.pc = "hand" /\ run.hand = {} /\ \E h \in Peers(run.site) : ~Handshake(h, run.site)
       \/ run.pc = "health" /\ Unhealthy
    /\ run' = Idle
    /\ UNCHANGED <<file, host, paused, sick, minted, done, mishaps>>

Mishap == mishaps < MaxMishaps /\ mishaps' = mishaps + 1

(* An interrupt, a host that stops answering, a failed write. *)
Stop ==
    /\ run.pc \in StopAt
    /\ Mishap
    /\ run' = Idle
    /\ UNCHANGED <<file, host, paused, sick, minted, done>>

(* Something else makes the cluster unhealthy, and passes. *)
Sicken ==
    /\ ~sick /\ Mishap
    /\ sick' = TRUE
    /\ UNCHANGED <<file, host, paused, run, minted, done>>

Heal ==
    /\ sick /\ sick' = FALSE
    /\ UNCHANGED <<file, host, paused, run, minted, done, mishaps>>

(* Someone pauses Patroni for other work while no site's rekey has begun,  *)
(* and resumes it.  A pause between the check that a run makes before a    *)
(* site's rekey and the saving of the site's next key is left out.         *)
Maintain ==
    /\ run.pc # "newkey" /\ Pending = {} /\ paused = None
    /\ Mishap
    /\ paused' = "others"
    /\ UNCHANGED <<file, host, sick, run, minted, done>>

EndMaintenance ==
    /\ paused = "others"
    /\ paused' = None
    /\ UNCHANGED <<file, host, sick, run, minted, done, mishaps>>

(* Mutant: apply goes on while a rekey is unfinished. *)
ApplyAnyway(h) ==
    /\ run.pc = "idle"
    /\ ~Conflict(h, cur)
    /\ conf' = [conf EXCEPT ![h] = Render(h, cur)]
    /\ known' = [known EXCEPT ![h] = TRUE]
    /\ iface' = [iface EXCEPT ![h] = IF conf[h] = Render(h, cur) THEN @ ELSE Render(h, cur)]
    /\ UNCHANGED <<file, paused, sick, run, minted, done, mishaps>>

(* apply of a host, which refuses while a site has a next key: it renders  *)
(* the current keys, and records the file though it is unchanged.          *)
Apply(h) ==
    /\ run.pc = "idle" /\ Pending = {}
    /\ ~Conflict(h, cur)
    /\ conf' = [conf EXCEPT ![h] = Render(h, cur)]
    /\ known' = [known EXCEPT ![h] = TRUE]
    /\ iface' = [iface EXCEPT ![h] = IF conf[h] = Render(h, cur) THEN @ ELSE Render(h, cur)]
    /\ UNCHANGED <<file, paused, sick, run, minted, done, mishaps>>

-----------------------------------------------------------------------------
Step ==
    \/ Record \/ Pick \/ CheckReady \/ NewKey \/ Pause \/ PlanSwap
    \/ \E h \in Sites : HandWrite(h) \/ HandWritten(h)
    \/ HandRecord \/ HandSync \/ Handshakes \/ HealthGate \/ Resume \/ Promote \/ Finish

Next ==
    \/ Start \/ Step \/ Refuse \/ Stop
    \/ Sicken \/ Heal \/ Maintain \/ EndMaintenance
    \/ \E h \in Sites : Apply(h)

Spec == Init /\ [][Next]_vars

(* A run goes on until a gate refuses or it is interrupted, operators run  *)
(* the command again, and what else is wrong with the cluster passes.      *)
FairSpec ==
    Spec /\ WF_vars(Step) /\ WF_vars(Start) /\ WF_vars(Heal) /\ WF_vars(EndMaintenance)

-----------------------------------------------------------------------------
(* A host's mesh file and interface hold a key for the host itself and for *)
(* each peer it has, and none for a site it reaches through a relay.       *)
TypeOK ==
    /\ cur \in [Sites -> Keys]
    /\ next \in [Sites -> Keys \cup {None}]
    /\ left \subseteq Sites
    /\ \A m \in {conf, iface} :
          /\ m \in [Sites -> [Sites -> Keys \cup {None}]]
          /\ \A h, s \in Sites : m[h][s] # None <=> s = h \/ PeersDirectly(h, s)
    /\ known \in [Sites -> BOOLEAN]
    /\ paused \in {None, "rekey", "others"}
    /\ sick \in BOOLEAN
    /\ run \in [pc : Steps, all : BOOLEAN, todo : SUBSET Sites, ran : SUBSET Sites,
                site : Sites \cup {None}, hand : SUBSET Sites, host : Sites \cup {None}]
    /\ minted \in NSites..MaxKeys
    /\ done \subseteq Sites
    /\ mishaps \in 0..MaxMishaps

(* No key in use is lost: whatever key a host runs or is known by on a     *)
(* peer, in its file or its interface, the secrets file holds it as that   *)
(* site's current or next one, wherever a run stopped.                     *)
KeysHeld ==
    \A h, s \in Sites : s = h \/ PeersDirectly(h, s) =>
        {conf[h][s], iface[h][s]} \subseteq {cur[s], next[s]}

(* One site at a time (TestOneSiteAtATime, over any number of runs that    *)
(* stop and of sites named).                                               *)
OnePending == \A s, t \in Pending : s = t

(* But for a site part way through its rekey, every host knows every       *)
(* peer by the key that peer runs, which is the one apply would render.    *)
PeersAgree ==
    \A h, s \in Sites : next[s] = None /\ (s = h \/ PeersDirectly(h, s)) =>
        iface[h][s] = cur[s] /\ conf[h][s] = cur[s]

(* Patroni is paused whenever a swap cuts apart sites that it does not     *)
(* replace the key of: unpaused, the sites that cannot reach each other    *)
(* all lost the same one.                                                  *)
SplitOnlyPaused ==
    \/ paused # None
    \/ \E s \in Sites : \A h, t \in Sites \ {s} : h # t => Reach(h, t)

(* A Patroni that mesh rekey paused is one that mesh rekey resumes: a      *)
(* relay is part way through its rekey, and goes first in the next run.    *)
PauseIsOwed == paused = "rekey" => \E s \in Pending : Relays(s) # {}

(* mesh rekey does not resume a Patroni that someone else paused before    *)
(* the rekey began.                                                        *)
MaintenanceKept == [][paused = "others" /\ paused' # "others" => run' = run]_vars

(* An --all run, however often it stops, does not rekey again a site that  *)
(* was promoted since it recorded its sites.                               *)
NotAgain ==
    [][\A s \in Sites : run.all /\ next[s] = None /\ next'[s] # None => s \notin done]_vars

(* A stopped run resumes, as the error of one that stops says: a rekey     *)
(* once begun is finished by the runs after it.                            *)
StoppedRunResumes == \A s \in Sites : next[s] # None ~> next[s] = None

(* A run stopped between writing a mesh file and recording it.             *)
Unrecorded == run.pc # "manifest" /\ \E h \in Sites : ~known[h]

(* A rekey once begun is finished by the runs after it, whatever they are  *)
(* stopped at, unless a mesh file was left unrecorded.                     *)
RekeyFinishes == \A s \in Sites : next[s] # None ~> next[s] = None \/ Unrecorded
=============================================================================
