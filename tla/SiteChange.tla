----------------------------- MODULE SiteChange -----------------------------
(***************************************************************************)
(* site add and site remove: a data site joins or leaves the etcd and      *)
(* Patroni clusters, with the witness that keeps the voters from being two.*)
(*                                                                         *)
(*   internal/siteremove/{siteremove,data,cluster}.go   site remove        *)
(*   internal/siteadd/{siteadd,etcd,patroni}.go         site add           *)
(*   internal/apply/patronienv.go    a replica's etcd hosts, for both      *)
(*                                                                         *)
(* A command is planned by Build, which reads every site, and then runs    *)
(* its stages; a step is run if it was planned, a gate always.  It may     *)
(* stop anywhere and is run again.  Hosts fail and come back at any time.  *)
(*                                                                         *)
(* A gate either passes or ends the run: the time it waits is the time     *)
(* until its step is taken.  Left out: the mesh, but that a removed site   *)
(* is cut off it; HAProxy, Garage, DNS and the host's files; --evict.  A   *)
(* Patroni member key is its Patroni running: its TTL is left out.         *)
(***************************************************************************)
EXTENDS ClusterState

CONSTANTS
    Sites,         \* hosts that are, were or may be an etcd member's
    Founder,       \* the data site the deployment begins with
    Synchronous,   \* the cluster is to keep a Sync Standby, strictly: its
                   \* leader takes no write without one
    Declared,      \* bound: the sets of members the configuration ever declares
    MaxDeclares,   \* bound: edits of the configuration that declare members
    MaxMishaps     \* bound: hosts that fail and runs that stop

ConstantsHold ==
    /\ IsFiniteSet(Sites) /\ DataSites \subseteq Sites
    /\ Founder \in DataSites /\ Nobody \notin Sites
    /\ Synchronous \in BOOLEAN
    /\ Declared \subseteq SUBSET Sites
    /\ MaxDeclares \in Nat /\ MaxMishaps \in Nat

VARIABLES
    config,    \* etcd.members: the data sites and witnesses declared
    learner,   \* etcd's learner, which it has at most one of
    started,   \* the learner's etcd runs and has joined
    spent,     \* hosts whose etcd data is of a member removed since
    goal,      \* the command that was begun and has not finished
    declares,  \* edits so far
    mishaps    \* mishaps so far

etcdVars == <<voters, learner, started, spent>>
pgVars   == <<leader, patroni, hosts, sync>>
worldVars == <<down, unwell, declares, mishaps>>
vars == <<config, etcdVars, pgVars, changing, goal, worldVars>>

NoGoal == [cmd |-> "none", site |-> Nobody]
Idle == [cmd |-> "none", site |-> Nobody, steps |-> {}, gone |-> FALSE, to |-> Nobody,
         joiners |-> {}, replicas |-> {}, at |-> Nobody, calm |-> TRUE]

(* The steps and gates of both commands, in their order.                   *)
Rank == [switch |-> 1, async |-> 2, stop |-> 3, moved |-> 4, member |-> 5, witness |-> 6, cut |-> 7,
         join |-> 8, joined |-> 9, clone |-> 10, streams |-> 11, sync |-> 12, standby |-> 13,
         replicas |-> 14, left |-> 15, host |-> 16, config |-> 17]

Steps == DOMAIN Rank

At(x) == x \in changing.steps /\ \A y \in changing.steps : Rank[x] <= Rank[y]

Done(x) == changing' = [changing EXCEPT !.steps = @ \ {x}]

(* A step that is refused and a gate that does not pass end the run.       *)
Gate(x, passes) == At(x) /\ IF passes THEN Done(x) ELSE changing' = Idle

-----------------------------------------------------------------------------
Members   == voters \cup ({learner} \ {Nobody})

(* Sites a command reaches: those declared, and a witness's host stays a   *)
(* site of the deployment whether it is a member or not.                   *)
Reached == config \cup (Sites \ DataSites)

(* Two voters are worse than one.                                          *)
Valid(c) == c \cap DataSites # {} /\ Cardinality(c) # 2

Init ==
    /\ config = {Founder} /\ voters = {Founder}
    /\ learner = Nobody /\ started = FALSE /\ spent = {}
    /\ leader = Founder
    /\ patroni = [s \in DataSites |-> IF s = Founder THEN "copy" ELSE "off"]
    /\ hosts = [s \in DataSites |-> IF s = Founder THEN {Founder} ELSE {}]
    /\ sync = FALSE
    /\ changing = Idle /\ goal = NoGoal
    /\ down = {} /\ unwell = {} /\ declares = 0 /\ mishaps = 0

-----------------------------------------------------------------------------
(* site remove: Refusal, EndState and Build.                               *)

(* With one data site left, the witness leaves with the site.              *)
End(s) ==
    LET rest == config \ {s} IN
    IF Cardinality(rest) = 2 /\ Cardinality(rest \cap DataSites) = 1 THEN rest \cap DataSites ELSE rest

(* The witness that leaves with it, if one does.                           *)
Leaving(s) == (config \ {s}) \ End(s)

(* Mutant: that etcd answers is enough. *)
QuorumBefore(s) ==
    /\ Members \ {s} \subseteq config
    /\ learner \in {Nobody, s}
    /\ End(s) \subseteq Members
    /\ Quorum

(* Every other member is a voter, healthy and one that is declared, and    *)
(* every member the end state keeps is one of them.                        *)
EtcdReady(s) ==
    /\ Quorum
    /\ Members \ {s} \subseteq config
    /\ learner \in {Nobody, s}
    /\ End(s) \subseteq Members
    /\ voters \ {s} \subseteq Up(voters)
    /\ Majority(Up(voters) \ {s}, voters \ {s})

(* Mutant: a leader is enough. *)
LeadOnly(s) == Leads

(* Every other Patroni runs and streams, or leads.                         *)
PatroniReady(s) ==
    /\ Leads
    /\ End(s) \cap DataSites \subseteq Running
    /\ Running \ {s} \subseteq Streaming \cup {leader}

WantsSync(s) == Synchronous /\ Cardinality(End(s) \cap DataSites) > 1

(* Replicas, but for the site and whoever will lead, whose Patronis were   *)
(* started with other etcd members.                                        *)
Owed(want, but) == {r \in (want \cap DataSites) \ but : hosts[r] # want}

RemovePlan(s, gone) ==
    {x \in Steps :
        \/ x \in {"cut", "replicas", "left", "config"}
        \/ x = "switch" /\ leader = s
        \/ x = "async"  /\ s \in DataSites /\ sync /\ Cardinality(End(s) \cap DataSites) < 2
        \/ x = "stop"   /\ s \in Running
        \/ x = "moved"  /\ s \in DataSites
        \/ x = "member" /\ s \in Members
        \/ x = "witness" /\ Leaving(s) \cap voters # {}
        \/ x = "host"   /\ ~gone}

(* --host-gone is given for a host that does not answer.                   *)
Remove(s) ==
    LET gone == s \in down IN
    /\ changing = Idle
    /\ s \in config /\ Valid(End(s))
    /\ (Reached \ {s}) \cap down = {}
    /\ EtcdReady(s) /\ PatroniReady(s)
    /\ \E to \in IF leader = s THEN Standbys \cap End(s) ELSE {leader} :
         changing' = [Idle EXCEPT
             !.cmd = "remove", !.site = s, !.gone = gone, !.to = to, !.steps = RemovePlan(s, gone),
             !.replicas = Owed(End(s), {to})]
    /\ goal' = [cmd |-> "remove", site |-> s]
    /\ UNCHANGED <<config, etcdVars, pgVars, worldVars>>

(* Stage 1: the leadership, synchronous mode and Patroni off the site.     *)
Switch ==
    /\ Gate("switch", leader = changing.site /\ changing.to \in Streaming /\ Quorum)
    /\ leader' = IF leader = changing.site /\ changing.to \in Streaming /\ Quorum THEN changing.to ELSE leader
    /\ UNCHANGED <<config, etcdVars, patroni, hosts, sync, goal, worldVars>>

Async ==
    /\ Gate("async", Quorum /\ Leads)
    /\ sync' = (sync /\ ~(Quorum /\ Leads))
    /\ UNCHANGED <<config, etcdVars, leader, patroni, hosts, goal, worldVars>>

(* Patroni stopped cleanly gives up the leader key it may hold by now.     *)
Stopped(s) ==
    /\ patroni' = [patroni EXCEPT ![s] = "off"]
    /\ leader' = IF leader = s THEN Nobody ELSE leader

Reachable == changing.gone \/ changing.site \notin down

(* Its Patroni is stopped, and its key deleted from etcd.                  *)
StopPatroni ==
    /\ Gate("stop", Reachable /\ Quorum)
    /\ IF changing.site \notin down THEN Stopped(changing.site) ELSE UNCHANGED <<leader, patroni>>
    /\ UNCHANGED <<config, etcdVars, hosts, sync, goal, worldVars>>

(* Its gate: the site is not listed, another leads, with a Sync Standby if *)
(* the end state keeps one.                                                *)
DataMoved ==
    /\ Gate("moved", /\ changing.site \notin Running /\ Leads
                     /\ WantsSync(changing.site) => Standbys # {})
    /\ UNCHANGED <<config, etcdVars, pgVars, goal, worldVars>>

-----------------------------------------------------------------------------
(* Stage 2.  The member is looked for again, removed by the voters, and    *)
(* then stopped; it cannot start on its data again.  That etcd itself may  *)
(* refuse a removal it finds unsafe is not relied on.                      *)

Expel(S) ==
    /\ voters' = voters \ S
    /\ learner' = IF learner \in S THEN Nobody ELSE learner
    /\ started' = (started /\ learner \notin S)
    /\ spent' = spent \cup (S \cap voters) \cup (IF started THEN S \cap {learner} ELSE {})

RemoveMember ==
    /\ Gate("member", Quorum /\ Reachable)
    /\ IF Quorum THEN Expel({changing.site}) ELSE UNCHANGED etcdVars
    /\ UNCHANGED <<config, pgVars, goal, worldVars>>

(* etcd's voters are exactly S and healthy.                                *)
VotersAre(S) == voters = S /\ learner = Nobody /\ Up(voters) = voters

(* Both voters have to agree that one of them goes.                        *)
BothHealthy(s) == VotersAre(End(s) \cup Leaving(s))

RemoveWitness ==
    /\ Gate("witness", BothHealthy(changing.site))
    /\ IF BothHealthy(changing.site) THEN Expel(Leaving(changing.site)) ELSE UNCHANGED etcdVars
    /\ UNCHANGED <<config, pgVars, goal, worldVars>>

(* The remaining sites drop the site's tunnel, so nothing it still runs    *)
(* reaches the cluster.                                                    *)
Cut ==
    /\ Gate("cut", (Reached \ {changing.site}) \cap down = {})
    /\ IF (Reached \ {changing.site}) \cap down = {} /\ changing.site \in DataSites
       THEN Stopped(changing.site) ELSE UNCHANGED <<leader, patroni>>
    /\ UNCHANGED <<config, etcdVars, hosts, sync, goal, worldVars>>

(* A Patroni started, or recreated, with these etcd members.  What was a   *)
(* copy misses what is written until it runs again, and what led does not. *)
Started(s, members) ==
    /\ hosts' = [hosts EXCEPT ![s] = members]
    /\ patroni' = [patroni EXCEPT ![s] = IF @ = "off" \/ leader \notin {s, Nobody} THEN "behind" ELSE @]
    /\ leader' = IF leader = s THEN Nobody ELSE leader

Wanted == IF changing.cmd = "remove" THEN End(changing.site) ELSE config

(* The next replica is recreated with the etcd members there are now, if   *)
(* it does not lead by now, and streams again before the one after it.     *)
Recreate(r) ==
    /\ At("replicas") /\ changing.at = Nobody
    /\ r \in changing.replicas /\ hosts[r] # Wanted
    /\ IF leader = r \/ {r, changing.to} \cap down # {}
       THEN changing' = Idle /\ UNCHANGED <<leader, patroni, hosts>>
       ELSE changing' = [changing EXCEPT !.at = r] /\ Started(r, Wanted)
    /\ UNCHANGED <<config, etcdVars, sync, goal, worldVars>>

StreamsAgain ==
    LET wants == IF changing.cmd = "remove" THEN WantsSync(changing.site) ELSE Synchronous IN
    /\ At("replicas") /\ changing.at # Nobody
    /\ changing' = IF changing.at \in Streaming /\ (wants => Standbys # {} /\ changing.to \notin down)
              THEN [changing EXCEPT !.at = Nobody] ELSE Idle
    /\ UNCHANGED <<config, etcdVars, pgVars, goal, worldVars>>

(* A command whose last step is done has done what it was run for.         *)
Finish(x) ==
    IF changing.steps = {x} THEN changing' = Idle /\ goal' = NoGoal ELSE Done(x) /\ UNCHANGED goal

(* site add looks at every replica it recreated once more.                 *)
ReplicasDone ==
    /\ At("replicas") /\ changing.at = Nobody
    /\ \A r \in changing.replicas : hosts[r] = Wanted
    /\ IF changing.cmd = "add" /\ ~(changing.replicas \subseteq Streaming)
       THEN changing' = Idle /\ UNCHANGED goal
       ELSE Finish("replicas")
    /\ UNCHANGED <<config, etcdVars, pgVars, worldVars>>

Left ==
    /\ Gate("left", VotersAre(End(changing.site)))
    /\ UNCHANGED <<config, etcdVars, pgVars, goal, worldVars>>

(* Stage 3: what the host runs goes, and with --delete-data what it kept.  *)
CleanHost ==
    /\ Gate("host", changing.site \notin down)
    /\ \E deleteData \in BOOLEAN :
         spent' = IF deleteData /\ changing.site \notin down THEN spent \ {changing.site} ELSE spent
    /\ UNCHANGED <<config, voters, learner, started, pgVars, goal, worldVars>>

(* Stage 5: the site out of the configuration, with the witness's role.    *)
EditConfig ==
    /\ At("config")
    /\ config' = End(changing.site)
    /\ Finish("config")
    /\ UNCHANGED <<etcdVars, pgVars, worldVars>>

-----------------------------------------------------------------------------
(* site add: checkScope and Build.  The site holds data and nothing else,  *)
(* which the founder, with the gateway and the apps, does not; and members *)
(* the configuration does not list are refused.                            *)

AddPlan(s) ==
    {x \in Steps :
        \/ x \in {"join", "joined", "streams", "replicas"}
        \/ x = "clone" /\ s \notin Streaming
        \/ x = "sync"  /\ Synchronous /\ ~sync
        \/ x = "standby" /\ Synchronous}

Add(s) ==
    /\ changing = Idle
    /\ s \in (config \cap DataSites) \ {Founder}
    /\ Reached \cap down = {}
    /\ Quorum /\ Members \subseteq config
    /\ Running \cap (config \ {s}) # {}
    /\ changing' = [Idle EXCEPT
         !.cmd = "add", !.site = s, !.to = leader, !.steps = AddPlan(s), !.joiners = config \ voters,
         !.replicas = IF leader = Nobody THEN {} ELSE Owed(config, {s, leader})]
    /\ goal' = [cmd |-> "add", site |-> s]
    /\ UNCHANGED <<config, etcdVars, pgVars, worldVars>>

(* Witnesses join first, and the site itself last.                         *)
Firsts(s, S) ==
    IF S \ DataSites # {} THEN S \ DataSites ELSE IF S \ {s} # {} THEN S \ {s} ELSE S

(* Stage 3.  The next joiner; one that is a voter by now has joined.       *)
NextJoiner(j) ==
    /\ At("join") /\ changing.at = Nobody /\ j \in Firsts(changing.site, changing.joiners)
    /\ changing' = IF j \in voters THEN [changing EXCEPT !.joiners = @ \ {j}] ELSE [changing EXCEPT !.at = j]
    /\ UNCHANGED <<config, etcdVars, pgVars, goal, worldVars>>

Joining == At("join") /\ changing.at # Nobody

(* etcd has one learner at a time, and takes none while a voter of its is  *)
(* not connected.                                                          *)

(* Mutant: a run that is resumed adds the learner there is. *)
AddLearnerAgain ==
    /\ Joining /\ (changing.at # learner \/ ~started)
    /\ IF learner = Nobody /\ Up(voters) = voters
       THEN learner' = changing.at /\ started' = FALSE /\ UNCHANGED changing
       ELSE changing' = Idle /\ UNCHANGED <<learner, started>>
    /\ UNCHANGED <<config, voters, spent, pgVars, goal, worldVars>>

AddLearner ==
    /\ Joining /\ changing.at # learner
    /\ IF learner = Nobody /\ Up(voters) = voters
       THEN learner' = changing.at /\ started' = FALSE /\ UNCHANGED changing
       ELSE changing' = Idle /\ UNCHANGED <<learner, started>>
    /\ UNCHANGED <<config, voters, spent, pgVars, goal, worldVars>>

(* Its etcd starts, unless its host keeps the data of a member removed.    *)
StartLearner ==
    /\ Joining /\ changing.at = learner /\ ~started
    /\ IF learner \notin Up({learner} \ spent) \/ ~Quorum
       THEN changing' = Idle /\ UNCHANGED started
       ELSE started' = TRUE /\ UNCHANGED changing
    /\ UNCHANGED <<config, voters, learner, spent, pgVars, goal, worldVars>>

CaughtUp == learner \in Up({learner})

Promote ==
    /\ Joining /\ changing.at = learner /\ started
    /\ IF CaughtUp /\ Quorum
       THEN /\ voters' = voters \cup {learner}
            /\ learner' = Nobody /\ started' = FALSE
            /\ changing' = [changing EXCEPT !.at = Nobody, !.joiners = @ \ {learner}]
       ELSE changing' = Idle /\ UNCHANGED <<voters, learner, started>>
    /\ UNCHANGED <<config, spent, pgVars, goal, worldVars>>

JoinDone ==
    /\ At("join") /\ changing.joiners = {}
    /\ Done("join")
    /\ UNCHANGED <<config, etcdVars, pgVars, goal, worldVars>>

Joined ==
    /\ Gate("joined", VotersAre(config))
    /\ UNCHANGED <<config, etcdVars, pgVars, goal, worldVars>>

(* Stage 4: Patroni starts, clones the leader and streams.                 *)
StartPatroni ==
    /\ Gate("clone", changing.site \notin down)
    /\ IF changing.site \notin down /\ (patroni[changing.site] = "off" \/ hosts[changing.site] # config)
       THEN Started(changing.site, config)
       ELSE UNCHANGED <<leader, patroni, hosts>>
    /\ UNCHANGED <<config, etcdVars, sync, goal, worldVars>>

Streams ==
    /\ Gate("streams", changing.site \in Streaming)
    /\ UNCHANGED <<config, etcdVars, pgVars, goal, worldVars>>

(* Stage 5: synchronous mode, once a replica streams.                      *)
SetSync ==
    /\ Gate("sync", Quorum /\ Leads)
    /\ sync' = (sync \/ (Quorum /\ Leads))
    /\ UNCHANGED <<config, etcdVars, leader, patroni, hosts, goal, worldVars>>

HasStandby ==
    /\ Gate("standby", Standbys # {})
    /\ UNCHANGED <<config, etcdVars, pgVars, goal, worldVars>>

-----------------------------------------------------------------------------
(* What else happens.                                                      *)

Mishap == mishaps < MaxMishaps /\ mishaps' = mishaps + 1

Stop ==
    /\ changing # Idle /\ Mishap
    /\ changing' = Idle
    /\ UNCHANGED <<config, etcdVars, pgVars, goal, down, unwell, declares>>

Fail(h) ==
    /\ Mishap
    /\ \/ h \notin down /\ down' = down \cup {h} /\ UNCHANGED unwell
       \/ h \in Members /\ h \in Up({h}) /\ unwell' = unwell \cup {h} /\ UNCHANGED down
    /\ changing' = IF changing = Idle THEN Idle ELSE [changing EXCEPT !.calm = FALSE]
    /\ UNCHANGED <<config, etcdVars, pgVars, goal, declares>>

Recover(h) ==
    /\ h \notin Up({h})
    /\ down' = down \ {h} /\ unwell' = unwell \ {h}
    /\ UNCHANGED <<config, etcdVars, pgVars, changing, goal, declares, mishaps>>

(* A leader that fails, or cannot renew its key, loses it; a copy takes it.*)
Release ==
    /\ leader # Nobody /\ (leader \in down \/ ~Quorum)
    /\ leader' = Nobody
    /\ UNCHANGED <<config, etcdVars, patroni, hosts, sync, changing, goal, worldVars>>

Elect(s) ==
    /\ leader = Nobody /\ Quorum
    /\ s \in Running /\ patroni[s] = "copy"
    /\ leader' = s
    /\ UNCHANGED <<config, etcdVars, patroni, hosts, sync, changing, goal, worldVars>>

CatchUp(s) ==
    /\ s \in Running /\ patroni[s] = "behind" /\ Leads
    /\ patroni' = [patroni EXCEPT ![s] = "copy"]
    /\ UNCHANGED <<config, etcdVars, leader, hosts, sync, changing, goal, worldVars>>

(* The operator switches the leader over, though not to a site that is     *)
(* being changed.                                                          *)
Failover(s) ==
    /\ changing = Idle /\ Quorum /\ s \in Streaming /\ s # goal.site
    /\ leader' = s
    /\ UNCHANGED <<config, etcdVars, patroni, hosts, sync, changing, goal, worldVars>>

(* The configuration declares more members.                                *)
Declare(c) ==
    /\ changing = Idle /\ declares < MaxDeclares
    /\ config \subseteq c /\ config # c /\ Valid(c)
    /\ config' = c /\ goal' = NoGoal
    /\ declares' = declares + 1
    /\ UNCHANGED <<etcdVars, pgVars, changing, down, unwell, mishaps>>

(* apply starts what does not run on a data site, or runs with other etcd  *)
(* members; it is refused while etcd's members are not those declared.     *)
Apply(s) ==
    /\ changing = Idle
    /\ s \in (config \cap DataSites) \ down
    /\ Quorum /\ learner = Nobody /\ voters = config
    /\ patroni[s] = "off" \/ hosts[s] # config
    /\ Started(s, config)
    /\ UNCHANGED <<config, etcdVars, sync, changing, goal, worldVars>>

RunStep ==
    \/ Switch \/ Async \/ StopPatroni \/ DataMoved
    \/ RemoveMember \/ RemoveWitness \/ Cut
    \/ \E r \in DataSites : Recreate(r)
    \/ StreamsAgain \/ ReplicasDone
    \/ Left \/ CleanHost \/ EditConfig
    \/ \E j \in Sites : NextJoiner(j)
    \/ AddLearner \/ StartLearner \/ Promote \/ JoinDone \/ Joined
    \/ StartPatroni \/ Streams \/ SetSync \/ HasStandby

Patronis == Release \/ \E s \in DataSites : Elect(s) \/ CatchUp(s)

Next ==
    \/ \E s \in Sites : Remove(s) \/ Add(s) \/ Fail(s) \/ Recover(s)
    \/ RunStep
    \/ Stop
    \/ Patronis
    \/ \E s \in DataSites : Failover(s) \/ Apply(s)
    \/ \E c \in Declared : Declare(c)

Spec == Init /\ [][Next]_vars

(* A run goes on, Patroni elects and catches up, hosts come back.  The     *)
(* operator runs a command that stopped again, as its error says, and      *)
(* switches the leader off a site that is not to lead meanwhile.           *)
Rerun ==
    /\ changing = Idle
    /\ \E s \in Sites : \/ goal = [cmd |-> "remove", site |-> s] /\ Remove(s)
                        \/ goal = [cmd |-> "add", site |-> s] /\ Add(s)

SwitchAway ==
    /\ changing = Idle /\ leader = goal.site
    /\ \E s \in DataSites : Failover(s)

Recovery == \E h \in Sites : Recover(h)

Fairness ==
    /\ WF_vars(RunStep) /\ WF_vars(Patronis)
    /\ WF_vars(Recovery)
    /\ SF_vars(Rerun) /\ SF_vars(SwitchAway)

FairSpec == Spec /\ Fairness

-----------------------------------------------------------------------------
(* Properties.                                                             *)

(* Every variable keeps its type; a learner is no voter, and only a member *)
(* of the cluster that has the data leads. *)
TypeOK ==
    /\ config \subseteq Sites /\ voters \subseteq Sites
    /\ learner \in (Sites \ voters) \cup {Nobody}
    /\ started \in BOOLEAN /\ (started => learner # Nobody)
    /\ spent \subseteq Sites /\ down \subseteq Sites /\ unwell \subseteq Sites
    /\ leader \in DataSites \cup {Nobody}
    /\ patroni \in [DataSites -> {"off", "behind", "copy"}]
    /\ leader # Nobody => patroni[leader] = "copy"
    /\ hosts \in [DataSites -> SUBSET Sites]
    /\ sync \in BOOLEAN
    /\ changing \in [cmd : {"none", "remove", "add"}, site : Sites \cup {Nobody}, steps : SUBSET Steps,
                gone : BOOLEAN, to : DataSites \cup {Nobody}, joiners : SUBSET Sites,
                replicas : SUBSET DataSites, at : Sites \cup {Nobody}, calm : BOOLEAN]
    /\ goal \in [cmd : {"none", "remove", "add"}, site : Sites \cup {Nobody}]
    /\ declares \in 0..MaxDeclares /\ mishaps \in 0..MaxMishaps

(* A removal that waits for no Sync Standby, or for one that Patroni's     *)
(* configuration asks for; a join that needs no member whose host has the  *)
(* data of one removed, nor a place a learner of another site's join has.  *)
CanFinish ==
    \/ goal.cmd = "remove" /\ (WantsSync(goal.site) => sync)
    \/ /\ goal.cmd = "add" /\ config \cap spent = {}
       /\ learner # Nobody => learner \in Firsts(goal.site, config \ voters)

(* A command that was begun and is only run again comes to its end,        *)
(* however often it stopped and whoever failed or led meanwhile: the       *)
(* operator's goal changes again and again, or there is none left that can *)
(* be finished. *)
ChangesFinish == []<><<goal' # goal>>_goal \/ <>[]~CanFinish
=============================================================================
