-------------------------- MODULE SiteChange_proofs --------------------------
(***************************************************************************)
(* Proofs about site add and site remove, for any data sites, witnesses    *)
(* and declared members, and any mishaps.                                  *)
(***************************************************************************)
EXTENDS SiteChange, FiniteSetTheorems, TLAPS

Runs == [cmd : {"none", "remove", "add"}, site : Sites \cup {Nobody}, steps : SUBSET Steps,
         gone : BOOLEAN, to : DataSites \cup {Nobody}, joiners : SUBSET Sites,
         replicas : SUBSET DataSites, at : Sites \cup {Nobody}, calm : BOOLEAN]

Removing == changing.cmd = "remove"
Adding   == changing.cmd = "add"
Has(x)   == x \in changing.steps

AddSteps == {"join", "joined", "clone", "streams", "sync", "standby", "replicas"}

(* The steps after which a removal may have recreated a replica.           *)
Early == {"switch", "stop", "cut"}

(* The plan of a run: which steps it may have, and that a site which is    *)
(* added streams before what waits for a replica.                          *)
Planned ==
    /\ changing.cmd = "none" => changing = Idle
    /\ Removing => /\ changing.site \in config
                   /\ changing.steps \cap AddSteps \subseteq {"replicas"}
                   /\ Has("stop") => changing.site \in DataSites
    /\ Adding => /\ changing.site \in DataSites
                 /\ changing.steps \subseteq AddSteps
                 /\ Has("join") \/ Has("joined") \/ Has("clone") => Has("streams")
    /\ Has("join") /\ changing.at # Nobody => changing.at \notin voters

(* While no host has failed since it looked, a run knows that the voters   *)
(* which stay in a removal are all up, and that a data site stays.         *)
QuorumSound ==
    /\ QuorumKept
    /\ Removing /\ changing.calm =>
          /\ voters \ {changing.site} \subseteq Up(voters)
          /\ voters \ {changing.site} # {}
          /\ End(changing.site) \cap DataSites # {}

(* Then it also knows who leads, and in a removal that every data site     *)
(* that stays runs as a copy until one is recreated; where synchronous     *)
(* mode is on, one of them does not lead.                                  *)
Leader == IF Has("switch") THEN changing.site ELSE changing.to

Stays == End(changing.site) \cap DataSites

LeaderSound ==
    /\ Removing /\ changing.calm =>
          /\ leader = Leader /\ leader # Nobody /\ leader \notin down
          /\ changing.to # Nobody /\ changing.to # changing.site
          /\ changing.steps \cap Early # {} =>
                \A s \in Stays : patroni[s] = "copy" /\ s \notin down
          /\ changing.site \in DataSites /\ sync /\ ~Has("async") => Stays \ {changing.to} # {}
    /\ Adding /\ changing.calm /\ Has("sync") /\ ~Has("streams") => changing.site \in Streaming

IInv == TypeOK /\ Planned /\ QuorumSound /\ LeaderSound
-----------------------------------------------------------------------------
(* Types, in four parts.                                                   *)

EtcdOK ==
    /\ voters \subseteq Sites
    /\ learner \in (Sites \ voters) \cup {Nobody}
    /\ started \in BOOLEAN /\ (started => learner # Nobody)
    /\ spent \subseteq Sites

PgOK ==
    /\ leader \in DataSites \cup {Nobody}
    /\ patroni \in [DataSites -> {"off", "behind", "copy"}]
    /\ leader # Nobody => patroni[leader] = "copy"
    /\ hosts \in [DataSites -> SUBSET Sites]
    /\ sync \in BOOLEAN

RestOK ==
    /\ config \subseteq Sites /\ down \subseteq Sites /\ unwell \subseteq Sites
    /\ goal \in [cmd : {"none", "remove", "add"}, site : Sites \cup {Nobody}]
    /\ declares \in 0..MaxDeclares /\ mishaps \in 0..MaxMishaps

LEMMA TypeIs == TypeOK <=> EtcdOK /\ PgOK /\ RestOK /\ changing \in Runs
BY DEF TypeOK, EtcdOK, PgOK, RestOK, Runs

LEMMA TypeIsNext == TypeOK' <=> EtcdOK' /\ PgOK' /\ RestOK' /\ (changing \in Runs)'
BY DEF TypeOK, EtcdOK, PgOK, RestOK, Runs

LEMMA SameEtcd == ASSUME EtcdOK, UNCHANGED etcdVars PROVE EtcdOK'
BY DEF EtcdOK, etcdVars

LEMMA SamePg == ASSUME PgOK, UNCHANGED pgVars PROVE PgOK'
BY DEF PgOK, pgVars

LEMMA SameRest == ASSUME RestOK, UNCHANGED <<config, goal, worldVars>> PROVE RestOK'
BY DEF RestOK, worldVars

LEMMA SitesAre ==
    ASSUME ConstantsHold
    PROVE  IsFiniteSet(Sites) /\ DataSites \subseteq Sites /\ Nobody \notin Sites
BY DEF ConstantsHold

(* Steps and their order.                                                  *)
LEMMA RankIs ==
    /\ Steps = {"switch", "async", "stop", "moved", "member", "witness", "cut", "join", "joined",
                "clone", "streams", "sync", "standby", "replicas", "left", "host", "config"}
    /\ Rank["switch"] = 1 /\ Rank["async"] = 2 /\ Rank["stop"] = 3 /\ Rank["moved"] = 4
    /\ Rank["member"] = 5 /\ Rank["witness"] = 6 /\ Rank["cut"] = 7 /\ Rank["join"] = 8
    /\ Rank["joined"] = 9 /\ Rank["clone"] = 10 /\ Rank["streams"] = 11 /\ Rank["sync"] = 12
    /\ Rank["standby"] = 13 /\ Rank["replicas"] = 14 /\ Rank["left"] = 15 /\ Rank["host"] = 16
    /\ Rank["config"] = 17
BY DEF Rank, Steps

LEMMA Before ==
    ASSUME NEW x \in Steps, At(x), NEW y \in Steps, Rank[y] < Rank[x]
    PROVE  ~Has(y)
<1>1. Rank[x] \in Nat /\ Rank[y] \in Nat
  BY RankIs
<1>. QED
  BY <1>1 DEF At, Has

LEMMA IdleIsOne ==
    /\ Idle \in Runs /\ Idle.cmd = "none" /\ Idle.steps = {} /\ Idle.calm /\ Idle.at = Nobody
BY RankIs DEF Idle, Runs

(* A run that ends leaves nothing to know.                                 *)
LEMMA Ends ==
    ASSUME changing' = Idle
    PROVE  (changing \in Runs)' /\ Planned' /\ QuorumSound' /\ LeaderSound'
BY IdleIsOne DEF Planned, QuorumSound, QuorumKept, LeaderSound, Removing, Adding, Has

(* A run that goes on is the same but for its steps and what it is at.     *)
GoesOn ==
    /\ (changing \in Runs)'
    /\ changing'.cmd = changing.cmd /\ changing'.site = changing.site
    /\ changing'.to = changing.to /\ changing'.calm = changing.calm

LEMMA DoneGoes ==
    ASSUME changing \in Runs, NEW x, Done(x)
    PROVE  GoesOn /\ changing'.steps = changing.steps \ {x} /\ changing'.at = changing.at
BY DEF Done, GoesOn, Runs

LEMMA GatePasses ==
    ASSUME changing \in Runs, NEW x, NEW p \in BOOLEAN, Gate(x, p)
    PROVE  At(x) /\ ((p /\ Done(x)) \/ (~p /\ changing' = Idle))
BY DEF Gate

LEMMA AtIsOn ==
    ASSUME TypeOK, Planned, NEW x, At(x)
    PROVE  x \in Steps /\ changing # Idle /\ changing.cmd \in {"remove", "add"} /\ Has(x)
BY TypeIs, IdleIsOne DEF At, Has, Planned, Runs
-----------------------------------------------------------------------------
(* Types of what a step changes.                                           *)

(* A Patroni that is started or stopped. *)
LEMMA StartedTypes ==
    ASSUME ConstantsHold, PgOK, NEW s \in DataSites, NEW m \in SUBSET Sites,
           Started(s, m), sync' = sync
    PROVE  PgOK'
<1>1. Nobody \notin DataSites
  BY SitesAre
<1>2. leader' \in DataSites \cup {Nobody} /\ hosts' \in [DataSites -> SUBSET Sites] /\ sync' \in BOOLEAN
  BY DEF PgOK, Started
<1>3. patroni' \in [DataSites -> {"off", "behind", "copy"}]
  BY DEF PgOK, Started
<1>4. leader' # Nobody => patroni'[leader'] = "copy"
  BY <1>1 DEF PgOK, Started
<1>. QED
  BY <1>2, <1>3, <1>4 DEF PgOK

LEMMA StoppedTypes ==
    ASSUME ConstantsHold, PgOK, NEW s \in DataSites, Stopped(s), UNCHANGED <<hosts, sync>>
    PROVE  PgOK'
<1>1. Nobody \notin DataSites
  BY SitesAre
<1>. QED
  BY <1>1 DEF PgOK, Stopped

(* A leader that changes is a site with a copy, or nobody. *)
LEMMA LeaderTypes ==
    ASSUME PgOK, leader' = Nobody \/ (leader' \in DataSites /\ patroni[leader'] = "copy"),
           UNCHANGED <<patroni, hosts>>, sync' \in BOOLEAN
    PROVE  PgOK'
BY DEF PgOK

LEMMA StreamingIs ==
    /\ Streaming \subseteq Running \ {leader} /\ Running \subseteq DataSites \ down
    /\ \A s \in Streaming : patroni[s] = "copy"
    /\ Streaming # {} => Leads
    /\ Leads => Streaming = {s \in Running \ {leader} : patroni[s] = "copy"}
BY DEF Streaming, Running, Leads

LEMMA ExpelTypes ==
    ASSUME EtcdOK, NEW S \in SUBSET Sites, Expel(S)
    PROVE  EtcdOK'
BY DEF EtcdOK, Expel

LEMMA EndsIn == ASSUME NEW s PROVE End(s) \subseteq config \ {s} /\ Leaving(s) \subseteq config \ {s}
BY DEF End, Leaving

(* Which actions change which part. *)
EtcdActions == RemoveMember \/ RemoveWitness \/ CleanHost \/ AddLearner \/ StartLearner \/ Promote

PgActions ==
    \/ Switch \/ Async \/ StopPatroni \/ Cut \/ StartPatroni \/ SetSync \/ Release
    \/ \E s \in DataSites : Recreate(s) \/ Elect(s) \/ CatchUp(s) \/ Failover(s) \/ Apply(s)

LEMMA EtcdIsOf == ASSUME Next PROVE EtcdActions \/ UNCHANGED etcdVars
<1>1. CASE RunStep
  BY <1>1 DEF RunStep, EtcdActions, Switch, Async, StopPatroni, DataMoved, Cut, Recreate, StreamsAgain,
       ReplicasDone, Left, EditConfig, NextJoiner, JoinDone, Joined, StartPatroni, Streams, SetSync,
       HasStandby
<1>2. CASE Stop \/ Patronis
  BY <1>2 DEF Stop, Patronis, Release, Elect, CatchUp
<1>3. CASE \E s \in Sites : Remove(s) \/ Add(s) \/ Fail(s) \/ Recover(s)
  BY <1>3 DEF Remove, Add, Fail, Recover
<1>4. CASE \E s \in DataSites : Failover(s) \/ Apply(s)
  BY <1>4 DEF Failover, Apply
<1>5. CASE \E c \in Declared : Declare(c)
  BY <1>5 DEF Declare
<1>. QED
  BY <1>1, <1>2, <1>3, <1>4, <1>5 DEF Next

LEMMA PgIsOf == ASSUME Next PROVE PgActions \/ UNCHANGED pgVars
<1>1. CASE RunStep
  BY <1>1 DEF RunStep, PgActions, DataMoved, RemoveMember, RemoveWitness, StreamsAgain, ReplicasDone,
       Left, CleanHost, EditConfig, NextJoiner, AddLearner, StartLearner, Promote, JoinDone, Joined,
       Streams, HasStandby
<1>2. CASE Stop \/ Patronis
  BY <1>2 DEF Stop, Patronis, PgActions
<1>3. CASE \E s \in Sites : Remove(s) \/ Add(s) \/ Fail(s) \/ Recover(s)
  BY <1>3 DEF Remove, Add, Fail, Recover
<1>4. CASE \E s \in DataSites : Failover(s) \/ Apply(s)
  BY <1>4 DEF PgActions
<1>5. CASE \E c \in Declared : Declare(c)
  BY <1>5 DEF Declare
<1>. QED
  BY <1>1, <1>2, <1>3, <1>4, <1>5 DEF Next

LEMMA EtcdStep ==
    ASSUME ConstantsHold, TypeOK, Planned, Next
    PROVE  EtcdOK'
<1>t. EtcdOK /\ changing \in Runs
  BY TypeIs
<1>n. Nobody \notin Sites
  BY SitesAre
<1>c. config \subseteq Sites
  BY DEF TypeOK
<1>1. CASE UNCHANGED etcdVars
  BY <1>1, <1>t, SameEtcd
<1>2. CASE RemoveMember
  <2>1. changing.site \in Sites
    <3>1. At("member")
      BY <1>2 DEF RemoveMember, Gate
    <3>2. changing.cmd \in {"remove", "add"} /\ Has("member")
      BY <3>1, AtIsOn
    <3>. QED
      BY <3>2, <1>c DEF Planned, Removing, Adding, Has, AddSteps
  <2>2. CASE Expel({changing.site})
    BY <1>t, <2>1, <2>2, ExpelTypes
  <2>3. CASE UNCHANGED etcdVars
    BY <2>3, <1>1
  <2>. QED
    BY <1>2, <2>2, <2>3 DEF RemoveMember
<1>3. CASE RemoveWitness
  <2>1. Leaving(changing.site) \in SUBSET Sites
    BY <1>c DEF Leaving
  <2>2. CASE Expel(Leaving(changing.site))
    BY <1>t, <2>1, <2>2, ExpelTypes
  <2>. QED
    BY <1>3, <1>1, <2>2 DEF RemoveWitness
<1>4. CASE CleanHost
  BY <1>4, <1>t DEF CleanHost, EtcdOK
<1>5. CASE AddLearner
  <2>1. changing.at \in Sites \ voters
    BY <1>5, <1>t DEF AddLearner, Joining, At, Planned, Has, Runs
  <2>. QED
    BY <1>5, <1>t, <1>n, <2>1 DEF AddLearner, EtcdOK
<1>6. CASE StartLearner
  BY <1>6, <1>t DEF StartLearner, Joining, EtcdOK
<1>7. CASE Promote
  <2>1. learner \in Sites
    BY <1>7, <1>t DEF Promote, Joining, EtcdOK
  <2>. QED
    BY <1>7, <1>t, <1>n, <2>1 DEF Promote, EtcdOK
<1>. QED
  BY <1>1, <1>2, <1>3, <1>4, <1>5, <1>6, <1>7, EtcdIsOf DEF EtcdActions

LEMMA PgStep ==
    ASSUME ConstantsHold, TypeOK, Planned, Next
    PROVE  PgOK'
<1>t. PgOK /\ changing \in Runs
  BY TypeIs
<1>n. Nobody \notin DataSites
  BY SitesAre
<1>c. config \subseteq Sites
  BY DEF TypeOK
<1>1. CASE UNCHANGED pgVars
  BY <1>1, <1>t, SamePg
<1>2. CASE Switch
  BY <1>2, <1>t, StreamingIs, LeaderTypes DEF Switch, PgOK
<1>3. CASE Async \/ SetSync
  <2>1. sync' \in BOOLEAN /\ UNCHANGED <<leader, patroni, hosts>>
    BY <1>3, <1>t DEF Async, SetSync, PgOK
  <2>. QED
    BY <2>1, <1>t DEF PgOK
<1>4. CASE StopPatroni
  <2>1. CASE changing.site \notin down
    <3>1. At("stop")
      BY <1>4 DEF StopPatroni, Gate
    <3>2. changing.cmd \in {"remove", "add"} /\ Has("stop")
      BY <3>1, AtIsOn
    <3>3. changing.site \in DataSites
      BY <3>2 DEF Planned, Removing, Adding, Has, AddSteps
    <3>. QED
      BY <1>4, <1>t, <2>1, <3>3, StoppedTypes DEF StopPatroni
  <2>2. CASE changing.site \in down
    BY <1>4, <1>1, <2>2 DEF StopPatroni, pgVars
  <2>. QED
    BY <2>1, <2>2
<1>5. CASE Cut
  <2>1. CASE (Reached \ {changing.site}) \cap down = {} /\ changing.site \in DataSites
    BY <1>5, <1>t, <2>1, StoppedTypes DEF Cut
  <2>. QED
    BY <1>5, <1>1, <2>1 DEF Cut, pgVars
<1>6. CASE StartPatroni
  <2>1. changing.site \in DataSites
    <3>1. At("clone")
      BY <1>6 DEF StartPatroni, Gate
    <3>2. changing.cmd \in {"remove", "add"} /\ Has("clone")
      BY <3>1, AtIsOn
    <3>. QED
      BY <3>2 DEF Planned, Removing, Adding, Has, AddSteps
  <2>2. CASE Started(changing.site, config)
    BY <1>6, <1>t, <1>c, <2>1, <2>2, StartedTypes DEF StartPatroni
  <2>. QED
    BY <1>6, <1>1, <2>2 DEF StartPatroni, pgVars
<1>7. CASE Release
  BY <1>7, <1>t, LeaderTypes DEF Release, PgOK
<1>8. ASSUME NEW s \in DataSites, Recreate(s)
      PROVE  PgOK'
  <2>1. Wanted \in SUBSET Sites
    BY <1>c DEF Wanted, End
  <2>2. CASE Started(s, Wanted)
    BY <1>8, <1>t, <2>1, <2>2, StartedTypes DEF Recreate
  <2>. QED
    BY <1>8, <1>1, <2>2 DEF Recreate, pgVars
<1>9. ASSUME NEW s \in DataSites, Elect(s)
      PROVE  PgOK'
  BY <1>9, <1>t, LeaderTypes DEF Elect, PgOK
<1>10. ASSUME NEW s \in DataSites, CatchUp(s)
       PROVE  PgOK'
  BY <1>10, <1>t, <1>n DEF CatchUp, PgOK
<1>11. ASSUME NEW s \in DataSites, Failover(s)
       PROVE  PgOK'
  BY <1>11, <1>t, StreamingIs, LeaderTypes DEF Failover, PgOK
<1>12. ASSUME NEW s \in DataSites, Apply(s)
       PROVE  PgOK'
  BY <1>12, <1>t, <1>c, StartedTypes DEF Apply
<1>. QED
  BY <1>1, <1>2, <1>3, <1>4, <1>5, <1>6, <1>7, <1>8, <1>9, <1>10, <1>11, <1>12, PgIsOf
     DEF PgActions

LEMMA RestStep ==
    ASSUME ConstantsHold, TypeOK, Next
    PROVE  RestOK'
<1>t. RestOK /\ changing \in Runs
  BY TypeIs
<1>c. Declared \subseteq SUBSET Sites /\ MaxDeclares \in Nat /\ MaxMishaps \in Nat
  BY DEF ConstantsHold
<1>0. CASE UNCHANGED <<config, goal, worldVars>>
  BY <1>0, <1>t, SameRest
<1>1. CASE RunStep
  <2>1. CASE EditConfig
    BY <2>1, <1>t DEF EditConfig, Finish, RestOK, NoGoal, End, worldVars
  <2>2. CASE ReplicasDone
    BY <2>2, <1>t DEF ReplicasDone, Finish, RestOK, NoGoal, worldVars
  <2>3. CASE ~EditConfig /\ ~ReplicasDone
    BY <1>1, <1>0, <2>3 DEF RunStep, Switch, Async, StopPatroni, DataMoved, RemoveMember,
         RemoveWitness, Cut, Recreate, StreamsAgain, Left, CleanHost, NextJoiner, AddLearner,
         StartLearner, Promote, JoinDone, Joined, StartPatroni, Streams, SetSync, HasStandby
  <2>. QED
    BY <2>1, <2>2, <2>3
<1>2. CASE Stop
  BY <1>2, <1>t, <1>c DEF Stop, Mishap, RestOK
<1>3. CASE Patronis
  BY <1>3, <1>0 DEF Patronis, Release, Elect, CatchUp
<1>4. ASSUME NEW s \in Sites, Remove(s) \/ Add(s)
      PROVE  RestOK'
  <2>1. goal' \in [cmd : {"none", "remove", "add"}, site : Sites \cup {Nobody}]
    <3>1. goal' = [cmd |-> "remove", site |-> s] \/ goal' = [cmd |-> "add", site |-> s]
      BY <1>4, Zenon DEF Remove, Add
    <3>. QED
      BY <3>1
  <2>2. UNCHANGED <<config, down, unwell, declares, mishaps>>
    BY <1>4 DEF Remove, Add, worldVars
  <2>. QED
    BY <2>1, <2>2, <1>t DEF RestOK
<1>5. ASSUME NEW s \in Sites, Fail(s)
      PROVE  RestOK'
  BY <1>5, <1>t, <1>c DEF Fail, Mishap, RestOK
<1>6. ASSUME NEW s \in Sites, Recover(s)
      PROVE  RestOK'
  BY <1>6, <1>t DEF Recover, RestOK
<1>7. CASE \E s \in DataSites : Failover(s) \/ Apply(s)
  BY <1>7, <1>0 DEF Failover, Apply
<1>8. ASSUME NEW c \in Declared, Declare(c)
      PROVE  RestOK'
  BY <1>8, <1>t, <1>c DEF Declare, RestOK, NoGoal
<1>. QED
  BY <1>1, <1>2, <1>3, <1>4, <1>5, <1>6, <1>7, <1>8 DEF Next

LEMMA RunTypes ==
    ASSUME ConstantsHold, TypeOK, Next
    PROVE  (changing \in Runs)'
<1>t. EtcdOK /\ PgOK /\ RestOK /\ changing \in Runs
  BY TypeIs
<1>n. DataSites \subseteq Sites /\ Nobody \notin Sites
  BY SitesAre
<1>0. Idle \in Runs
  BY IdleIsOne
<1>g. ASSUME NEW x, NEW p, Gate(x, p) \/ Done(x) \/ Finish(x)
      PROVE  (changing \in Runs)'
  BY <1>g, <1>t, <1>0, DoneGoes DEF Gate, Finish, GoesOn
<1>1. CASE RunStep
  <2>1. ASSUME NEW r \in DataSites, Recreate(r)
        PROVE  (changing \in Runs)'
    BY <2>1, <1>t, <1>0, <1>n DEF Recreate, Runs
  <2>2. CASE StreamsAgain
    BY <2>2, <1>t, <1>0 DEF StreamsAgain, Runs
  <2>3. CASE ReplicasDone
    BY <2>3, <1>0, <1>g DEF ReplicasDone
  <2>4. CASE EditConfig
    BY <2>4, <1>g DEF EditConfig
  <2>5. ASSUME NEW j \in Sites, NextJoiner(j)
        PROVE  (changing \in Runs)'
    BY <2>5, <1>t DEF NextJoiner, Runs
  <2>6. CASE AddLearner \/ StartLearner
    BY <2>6, <1>t, <1>0 DEF AddLearner, StartLearner
  <2>7. CASE Promote
    <3>1. CASE CaughtUp /\ Quorum
      <4>1. changing' = [changing EXCEPT !.at = Nobody, !.joiners = @ \ {learner}]
        BY <2>7, <3>1 DEF Promote
      <4>. QED
        BY <4>1, <1>t DEF Runs
    <3>2. CASE ~(CaughtUp /\ Quorum)
      BY <2>7, <3>2, <1>0 DEF Promote
    <3>. QED
      BY <3>1, <3>2
  <2>8. CASE JoinDone
    BY <2>8, <1>g DEF JoinDone
  <2>9. CASE Switch \/ Async \/ StopPatroni \/ DataMoved \/ RemoveMember \/ RemoveWitness \/ Cut
    BY <2>9, <1>g DEF Switch, Async, StopPatroni, DataMoved, RemoveMember, RemoveWitness, Cut
  <2>10. CASE Left \/ CleanHost \/ Joined \/ StartPatroni \/ Streams \/ SetSync \/ HasStandby
    BY <2>10, <1>g DEF Left, CleanHost, Joined, StartPatroni, Streams, SetSync, HasStandby
  <2>. QED
    BY <1>1, <2>1, <2>2, <2>3, <2>4, <2>5, <2>6, <2>7, <2>8, <2>9, <2>10 DEF RunStep
<1>2. CASE Stop
  BY <1>2, <1>0 DEF Stop
<1>3. CASE Patronis
  BY <1>3, <1>t DEF Patronis, Release, Elect, CatchUp
<1>4. ASSUME NEW s \in Sites, Remove(s)
      PROVE  (changing \in Runs)'
  <2>1. PICK to \in (IF leader = s THEN Standbys \cap End(s) ELSE {leader}) :
          changing' = [Idle EXCEPT
             !.cmd = "remove", !.site = s, !.gone = (s \in down), !.to = to,
             !.steps = RemovePlan(s, s \in down), !.replicas = Owed(End(s), {to})]
    BY <1>4 DEF Remove
  <2>2. to \in DataSites \cup {Nobody}
    BY <1>t, StreamingIs DEF Standbys, PgOK
  <2>3. RemovePlan(s, s \in down) \subseteq Steps /\ Owed(End(s), {to}) \subseteq DataSites
    BY DEF RemovePlan, Owed
  <2>4. (s \in down) \in BOOLEAN
    OBVIOUS
  <2>. QED
    BY <2>1, <2>2, <2>3, <2>4, <1>0 DEF Runs
<1>5. ASSUME NEW s \in Sites, Add(s)
      PROVE  (changing \in Runs)'
  <2>1. changing' = [Idle EXCEPT
         !.cmd = "add", !.site = s, !.to = leader, !.steps = AddPlan(s), !.joiners = config \ voters,
         !.replicas = IF leader = Nobody THEN {} ELSE Owed(config, {s, leader})]
    BY <1>5 DEF Add
  <2>2. AddPlan(s) \subseteq Steps /\ Owed(config, {s, leader}) \subseteq DataSites
    BY DEF AddPlan, Owed
  <2>. QED
    BY <2>1, <2>2, <1>0, <1>t DEF Runs, PgOK, RestOK
<1>6. ASSUME NEW s \in Sites, Fail(s) \/ Recover(s)
      PROVE  (changing \in Runs)'
  BY <1>6, <1>t, <1>0 DEF Fail, Recover, Runs
<1>7. CASE \E s \in DataSites : Failover(s) \/ Apply(s)
  BY <1>7, <1>t DEF Failover, Apply
<1>8. CASE \E c \in Declared : Declare(c)
  BY <1>8, <1>t DEF Declare
<1>. QED
  BY <1>1, <1>2, <1>3, <1>4, <1>5, <1>6, <1>7, <1>8 DEF Next

LEMMA TypeStep ==
    ASSUME ConstantsHold, TypeOK, Planned, Next
    PROVE  TypeOK'
BY EtcdStep, PgStep, RestStep, RunTypes, TypeIsNext
-----------------------------------------------------------------------------
(* What a step leaves true that takes nothing from the clusters.           *)

(* WritesGoOn, of one step.                                                *)
GoOn ==
    changing.cmd # "none" /\ changing.calm /\ changing'.calm
    /\ Writes /\ ~(changing.cmd = "add" /\ leader = changing.site)
     => Writes' \/ (hosts' # hosts /\ Leads')

(* Nothing that ran or was up is less so. *)
Better ==
    /\ down' \subseteq down /\ leader' = leader /\ (sync' => sync)
    /\ \A s \in DataSites : patroni[s] = "copy" => patroni'[s] = "copy"

LEMMA BetterStreams ==
    ASSUME Better
    PROVE  (Streaming \subseteq Streaming') /\ (Leads => Leads') /\ GoOn
<1>1. Streaming \subseteq Streaming'
  BY DEF Better, Streaming, Running
<1>2. Leads => Leads'
  BY DEF Better, Leads
<1>3. Writes => Writes'
  BY <1>1, <1>2 DEF Better, Writes, Standbys
<1>. QED
  BY <1>1, <1>2, <1>3 DEF GoOn

(* The members of etcd and their hosts are as they were, or better. *)
Steady ==
    /\ UNCHANGED <<config, voters>>
    /\ down' \subseteq down /\ unwell' \subseteq unwell

LEMMA VotersFinite ==
    ASSUME ConstantsHold, TypeOK
    PROVE  /\ IsFiniteSet(voters) /\ \A S \in SUBSET voters : IsFiniteSet(S)
           /\ \A S \in SUBSET voters : Cardinality(S) \in Nat
<1>1. IsFiniteSet(voters)
  BY SitesAre, FS_Subset DEF TypeOK
<1>2. \A S \in SUBSET voters : IsFiniteSet(S)
  BY <1>1, FS_Subset
<1>. QED
  BY <1>1, <1>2, FS_CardinalityType

LEMMA QuorumStays ==
    ASSUME ConstantsHold, TypeOK, QuorumSound, GoesOn, Steady
    PROVE  QuorumSound'
<1>1. Up(voters) \subseteq Up(voters)' /\ Up(voters)' \subseteq voters
  BY DEF Steady, Up
<1>2. voters' = voters
  BY DEF Steady
<1>3. Cardinality(Up(voters)) <= Cardinality(Up(voters)')
  BY <1>1, VotersFinite, FS_Subset
<1>4. /\ Cardinality(Up(voters)) \in Nat /\ Cardinality(Up(voters)') \in Nat
      /\ Cardinality(voters) \in Nat
  BY <1>1, VotersFinite DEF Up
<1>5. Quorum => Quorum'
  BY <1>2, <1>3, <1>4 DEF Quorum, Majority
<1>6. QuorumKept'
  BY <1>5 DEF QuorumSound, QuorumKept, GoesOn
<1>7. End(changing.site)' = End(changing.site)
  BY DEF End, Steady, GoesOn
<1>. QED
  BY <1>1, <1>2, <1>6, <1>7 DEF QuorumSound, Removing, GoesOn

LEMMA PlannedStays ==
    ASSUME Planned, GoesOn, changing.cmd # "none", config' = config,
           changing'.steps \subseteq changing.steps,
           Has("streams") =>
             Has("streams")' \/ ~(Has("join") \/ Has("joined") \/ Has("clone"))',
           Has("join")' /\ changing'.at # Nobody => changing'.at \notin voters'
    PROVE  Planned'
<1>1. /\ changing'.cmd = changing.cmd /\ changing'.site = changing.site /\ changing'.cmd # "none"
  BY DEF GoesOn
<1>2. Removing' => /\ changing'.site \in config'
                   /\ changing'.steps \cap AddSteps \subseteq {"replicas"}
                   /\ Has("stop")' => changing'.site \in DataSites
  BY <1>1 DEF Planned, Removing, Has
<1>3. Adding' => /\ changing'.site \in DataSites
                 /\ changing'.steps \subseteq AddSteps
                 /\ (Has("join") \/ Has("joined") \/ Has("clone"))' => Has("streams")'
  BY <1>1 DEF Planned, Adding, Has
<1>. QED
  BY <1>1, <1>2, <1>3 DEF Planned

LEMMA LeaderStays ==
    ASSUME LeaderSound, GoesOn, Better, config' = config,
           changing'.steps \subseteq changing.steps,
           Has("switch") => Has("switch")',
           Has("async") => Has("async")' \/ ~sync',
           Has("streams") => Has("streams")' \/ changing.site \in Streaming
    PROVE  LeaderSound'
<1>1. /\ changing'.cmd = changing.cmd /\ changing'.site = changing.site
      /\ changing'.to = changing.to /\ changing'.calm = changing.calm
  BY DEF GoesOn
<1>2. Stays' = Stays /\ Stays \subseteq DataSites
  BY <1>1 DEF Stays, End
<1>3. Leader' = Leader
  BY <1>1 DEF Leader, Has
<1>4. ASSUME Removing', changing'.calm
      PROVE  /\ leader' = Leader' /\ leader' # Nobody /\ leader' \notin down'
             /\ changing'.to # Nobody /\ changing'.to # changing'.site
             /\ changing'.steps \cap Early # {} =>
                   \A s \in Stays' : patroni'[s] = "copy" /\ s \notin down'
             /\ changing'.site \in DataSites /\ sync' /\ ~Has("async")' => Stays' \ {changing'.to} # {}
  <2>1. Removing /\ changing.calm
    BY <1>1, <1>4 DEF Removing
  <2>2. /\ leader' = Leader' /\ leader' # Nobody /\ leader' \notin down'
        /\ changing'.to # Nobody /\ changing'.to # changing'.site
    BY <2>1, <1>1, <1>3 DEF LeaderSound, Better
  <2>3. changing'.steps \cap Early # {} =>
          \A s \in Stays' : patroni'[s] = "copy" /\ s \notin down'
    BY <2>1, <1>2 DEF LeaderSound, Better
  <2>4. changing'.site \in DataSites /\ sync' /\ ~Has("async")' => Stays' \ {changing'.to} # {}
    BY <2>1, <1>1, <1>2 DEF LeaderSound, Better
  <2>. QED
    BY <2>2, <2>3, <2>4
<1>5. ASSUME Adding', changing'.calm, Has("sync")', ~Has("streams")'
      PROVE  changing'.site \in Streaming'
  <2>1. Adding /\ changing.calm /\ Has("sync")
    BY <1>1, <1>5 DEF Adding, Has
  <2>2. changing.site \in Streaming
    BY <2>1, <1>5 DEF LeaderSound
  <2>. QED
    BY <2>2, <1>1, BetterStreams
<1>. QED
  BY <1>4, <1>5 DEF LeaderSound

(* The invariant after a step, and what the step promises. *)
Sound == Planned' /\ QuorumSound' /\ LeaderSound' /\ GoOn

LEMMA Onwards ==
    ASSUME ConstantsHold, IInv, changing.cmd # "none", GoesOn, Better, Steady,
           changing'.steps \subseteq changing.steps,
           Has("switch") => Has("switch")',
           Has("async") => Has("async")' \/ ~sync',
           Has("streams") =>
             Has("streams")' \/ (changing.site \in Streaming
                                 /\ ~(Has("join") \/ Has("joined") \/ Has("clone"))'),
           Has("join")' /\ changing'.at # Nobody => changing'.at \notin voters
    PROVE  Sound
<1>1. Planned'
  BY PlannedStays DEF IInv, Steady
<1>2. QuorumSound'
  BY QuorumStays DEF IInv
<1>3. LeaderSound'
  BY LeaderStays DEF IInv, Steady
<1>. QED
  BY <1>1, <1>2, <1>3, BetterStreams DEF Sound

(* A run that stops or is refused, with the clusters no worse. *)
LEMMA Refused ==
    ASSUME Better, changing' = Idle
    PROVE  Sound
BY Ends, BetterStreams DEF Sound

(* A step that is done and is none of the three others wait for. *)
LEMMA Passes ==
    ASSUME ConstantsHold, IInv, NEW x \in Steps \ {"switch", "async", "streams"},
           At(x), Done(x), Better, Steady
    PROVE  Sound
<1>1. TypeOK /\ Planned /\ changing \in Runs
  BY TypeIs DEF IInv
<1>2. GoesOn /\ changing'.steps = changing.steps \ {x} /\ changing'.at = changing.at
  BY <1>1, DoneGoes
<1>3. changing.cmd # "none"
  BY <1>1, AtIsOn
<1>4. Has("join")' /\ changing'.at # Nobody => changing'.at \notin voters
  BY <1>1, <1>2 DEF Planned, Has
<1>. QED
  BY <1>2, <1>3, <1>4, Onwards DEF Has

LEMMA Gated ==
    ASSUME ConstantsHold, IInv, NEW x \in Steps \ {"switch", "async", "streams"},
           NEW p \in BOOLEAN, Gate(x, p), Better, Steady
    PROVE  Sound
BY Passes, Refused DEF Gate

(* Nothing happens to the clusters or their hosts. *)
LEMMA SameIsBetter ==
    ASSUME UNCHANGED <<pgVars, worldVars>>
    PROVE  Better /\ (UNCHANGED <<config, voters>> => Steady)
BY DEF Better, Steady, pgVars, worldVars

-----------------------------------------------------------------------------
(* The actions of a removal.                                               *)

LEMMA RemovalOnly ==
    ASSUME IInv, NEW x \in {"switch", "async", "stop", "moved", "member", "witness", "cut", "left",
                            "host", "config"}, At(x)
    PROVE  Removing /\ changing.site \in config
BY AtIsOn DEF IInv, Planned, Removing, Adding, Has, AddSteps

LEMMA AdditionOnly ==
    ASSUME IInv, NEW x \in AddSteps \ {"replicas"}, At(x)
    PROVE  Adding /\ changing.site \in DataSites
BY AtIsOn DEF IInv, Planned, Removing, Adding, Has

LEMMA SwitchSound ==
    ASSUME ConstantsHold, IInv, Switch
    PROVE  Sound
<1>t. TypeOK /\ PgOK /\ Planned /\ changing \in Runs
  BY TypeIs DEF IInv
<1>1. At("switch")
  BY DEF Switch, Gate
<1>2. Removing /\ changing.site \in config /\ changing.cmd # "none"
  BY <1>1, RemovalOnly DEF Removing
<1>3. UNCHANGED <<config, voters, down, unwell, patroni, hosts, sync>> /\ Steady
  BY DEF Switch, etcdVars, worldVars, Steady
<1>4. CASE leader = changing.site /\ changing.to \in Streaming /\ Quorum
  <2>1. Done("switch") /\ leader' = changing.to
    BY <1>4 DEF Switch, Gate
  <2>2. GoesOn /\ changing'.steps = changing.steps \ {"switch"} /\ changing'.at = changing.at
    BY <2>1, <1>t, DoneGoes
  <2>3. Planned'
    BY <1>2, <1>3, <1>t, <2>2, PlannedStays DEF Planned, Has
  <2>4. QuorumSound'
    BY <1>t, <1>3, <2>2, QuorumStays DEF IInv
  <2>5. changing.to \in DataSites \ down /\ changing.to # Nobody
    BY <1>4, StreamingIs, SitesAre
  <2>6. Stays' = Stays
    BY <1>3, <2>2 DEF Stays, End, GoesOn
  <2>7. LeaderSound'
    <3>1. /\ Leader' = changing.to /\ (Removing <=> Removing') /\ ~Adding'
          /\ changing'.to = changing.to /\ changing'.site = changing.site /\ changing'.calm = changing.calm
      BY <1>2, <2>2 DEF GoesOn, Leader, Has, Removing, Adding
    <3>2. ASSUME changing.calm
          PROVE  /\ \A s \in Stays : patroni[s] = "copy" /\ s \notin down
                 /\ changing.to # changing.site
                 /\ changing.site \in DataSites /\ sync /\ ~Has("async") => Stays \ {changing.to} # {}
      BY <1>1, <1>2, <3>2 DEF IInv, LeaderSound, At, Early
    <3>3. Has("async") <=> Has("async")'
      BY <2>2 DEF Has
    <3>. QED
      BY <1>3, <2>1, <2>5, <2>6, <3>1, <3>2, <3>3 DEF LeaderSound
  <2>8. GoOn
    <3>. SUFFICES ASSUME changing.calm, Writes
                  PROVE  Writes'
      BY DEF GoOn
    <3>1. leader' \notin down' /\ leader' # Nobody /\ Leads'
      BY <1>3, <2>1, <2>5 DEF Leads
    <3>2. leader \in DataSites /\ leader \notin down /\ patroni[leader] = "copy" /\ leader # leader'
      BY <1>1, <1>2, <1>4, <1>t, <2>1 DEF IInv, LeaderSound, PgOK
    <3>3. leader \in Streaming'
      BY <1>3, <3>1, <3>2 DEF Streaming, Running
    <3>. QED
      BY <3>1, <3>3 DEF Writes, Standbys
  <2>. QED
    BY <2>3, <2>4, <2>7, <2>8 DEF Sound
<1>5. CASE ~(leader = changing.site /\ changing.to \in Streaming /\ Quorum)
  <2>1. leader' = leader /\ changing' = Idle
    BY <1>5 DEF Switch, Gate
  <2>. QED
    BY <1>3, <2>1, Refused DEF Better
<1>. QED
  BY <1>4, <1>5

LEMMA AsyncSound ==
    ASSUME ConstantsHold, IInv, Async
    PROVE  Sound
<1>t. TypeOK /\ PgOK /\ Planned /\ changing \in Runs
  BY TypeIs DEF IInv
<1>1. At("async")
  BY DEF Async, Gate
<1>2. changing.cmd # "none"
  BY <1>1, RemovalOnly DEF Removing
<1>3. Better /\ Steady
  BY DEF Async, etcdVars, worldVars, Steady, Better
<1>4. CASE Quorum /\ Leads
  <2>1. Done("async") /\ sync' = FALSE
    BY <1>4 DEF Async, Gate
  <2>2. GoesOn /\ changing'.steps = changing.steps \ {"async"} /\ changing'.at = changing.at
    BY <2>1, <1>t, DoneGoes
  <2>3. Has("join")' /\ changing'.at # Nobody => changing'.at \notin voters
    BY <2>2, <1>t DEF Planned, Has
  <2>. QED
    BY <1>2, <1>3, <2>1, <2>2, <2>3, Onwards DEF Has
<1>5. CASE ~(Quorum /\ Leads)
  BY <1>3, <1>5, Refused DEF Async, Gate
<1>. QED
  BY <1>4, <1>5

(* A Patroni of the site that leaves goes once another leads, and one that *)
(* streams is left where synchronous mode is on. *)
LEMMA SiteStops ==
    ASSUME ConstantsHold, IInv, NEW x \in {"stop", "cut"}, At(x), changing.site \in DataSites,
           Stopped(changing.site), UNCHANGED <<config, voters, down, unwell, hosts, sync>>,
           Done(x) \/ changing' = Idle
    PROVE  Sound
<1>t. TypeOK /\ PgOK /\ Planned /\ changing \in Runs
  BY TypeIs DEF IInv
<1>1. Removing /\ changing.site \in config /\ changing.cmd # "none"
  BY RemovalOnly DEF Removing
<1>2. ~Has("switch") /\ ~Has("async") /\ Has(x) /\ x \in Early /\ x \in Steps
  BY Before, RankIs DEF At, Has, Early
<1>3. Stays \subseteq DataSites \ {changing.site}
  BY DEF Stays, End
<1>4. ASSUME changing.calm
      PROVE  /\ leader = changing.to /\ leader' = leader /\ leader # changing.site
             /\ leader # Nobody /\ leader \notin down
             /\ \A s \in Stays : patroni[s] = "copy" /\ patroni'[s] = "copy" /\ s \notin down
             /\ sync => Stays \ {leader} # {}
  <2>1. /\ leader = changing.to /\ leader # Nobody /\ leader \notin down /\ leader # changing.site
        /\ \A s \in Stays : patroni[s] = "copy" /\ s \notin down
        /\ sync => Stays \ {leader} # {}
    BY <1>1, <1>2, <1>4 DEF IInv, LeaderSound, Leader, Has
  <2>2. leader' = leader /\ \A s \in Stays : patroni'[s] = "copy"
    BY <1>3, <1>t, <2>1 DEF Stopped, PgOK
  <2>. QED
    BY <2>1, <2>2
<1>5. GoOn
  <2>. SUFFICES ASSUME changing.calm
                PROVE  Writes'
    BY DEF GoOn
  <2>1. Leads'
    BY <1>4 DEF Leads
  <2>2. sync' => Streaming' # {}
    BY <1>3, <1>4 DEF Streaming, Running
  <2>. QED
    BY <2>1, <2>2 DEF Writes, Standbys
<1>6. CASE Done(x)
  <2>1. GoesOn /\ changing'.steps = changing.steps \ {x} /\ changing'.at = changing.at
    BY <1>6, <1>t, DoneGoes
  <2>2. Planned'
    BY <1>1, <1>t, <2>1, PlannedStays DEF Planned, Has
  <2>3. QuorumSound'
    BY <1>t, <2>1, QuorumStays DEF IInv, Steady
  <2>4. Stays' = Stays /\ ~Has("switch")' /\ ~Adding' /\ Leader' = changing.to
    BY <1>1, <1>2, <2>1 DEF Stays, End, GoesOn, Has, Removing, Adding, Leader
  <2>5. ASSUME changing'.calm
        PROVE  /\ leader' = Leader' /\ leader' # Nobody /\ leader' \notin down'
               /\ changing'.to # Nobody /\ changing'.to # changing'.site
               /\ \A s \in Stays' : patroni'[s] = "copy" /\ s \notin down'
               /\ sync' => Stays' \ {changing'.to} # {}
    BY <1>4, <2>1, <2>4, <2>5 DEF GoesOn
  <2>6. LeaderSound'
    BY <2>4, <2>5 DEF LeaderSound
  <2>. QED
    BY <1>5, <2>2, <2>3, <2>6 DEF Sound
<1>7. CASE changing' = Idle
  BY <1>5, <1>7, Ends DEF Sound
<1>. QED
  BY <1>6, <1>7

LEMMA StopPatroniSound ==
    ASSUME ConstantsHold, IInv, StopPatroni
    PROVE  Sound
<1>1. At("stop") /\ (Done("stop") \/ changing' = Idle)
  BY DEF StopPatroni, Gate
<1>2. UNCHANGED <<config, voters, down, unwell, hosts, sync>>
  BY DEF StopPatroni, etcdVars, worldVars
<1>3. changing.site \in DataSites
  BY <1>1, RemovalOnly DEF IInv, Planned, At, Has
<1>4. CASE changing.site \notin down
  BY <1>1, <1>2, <1>3, <1>4, SiteStops DEF StopPatroni
<1>5. CASE changing.site \in down
  <2>1. Better /\ Steady
    BY <1>2, <1>5 DEF StopPatroni, Better, Steady
  <2>2. "stop" \in Steps \ {"switch", "async", "streams"}
    BY RankIs
  <2>. QED
    BY <1>1, <2>1, <2>2, Passes, Refused
<1>. QED
  BY <1>4, <1>5

LEMMA CutSound ==
    ASSUME ConstantsHold, IInv, Cut
    PROVE  Sound
<1>1. At("cut") /\ (Done("cut") \/ changing' = Idle)
  BY DEF Cut, Gate
<1>2. UNCHANGED <<config, voters, down, unwell, hosts, sync>>
  BY DEF Cut, etcdVars, worldVars
<1>3. CASE Stopped(changing.site) /\ changing.site \in DataSites
  BY <1>1, <1>2, <1>3, SiteStops
<1>4. CASE UNCHANGED <<leader, patroni>>
  <2>1. Better /\ Steady
    BY <1>2, <1>4 DEF Better, Steady
  <2>2. "cut" \in Steps \ {"switch", "async", "streams"}
    BY RankIs
  <2>. QED
    BY <1>1, <2>1, <2>2, Passes, Refused
<1>. QED
  BY <1>3, <1>4 DEF Cut

(* Voters that go and leave others that are all up leave a quorum. *)
LEMMA VotersGo ==
    ASSUME ConstantsHold, IInv, NEW x \in {"member", "witness"}, At(x), Done(x),
           NEW S, voters' = voters \ S, UNCHANGED <<config, pgVars, worldVars>>,
           changing.calm => /\ voters \ S \subseteq Up(voters)
                            /\ (voters \ S) \ {changing.site} # {}
    PROVE  Sound
<1>t. TypeOK /\ Planned /\ changing \in Runs
  BY TypeIs DEF IInv
<1>1. Removing /\ changing.site \in config /\ changing.cmd # "none"
  BY RemovalOnly DEF Removing
<1>2. GoesOn /\ changing'.steps = changing.steps \ {x} /\ changing'.at = changing.at
  BY <1>t, DoneGoes
<1>3. Better
  BY SameIsBetter
<1>4. Planned'
  BY <1>1, <1>2, <1>t, PlannedStays DEF Planned, Has
<1>5. LeaderSound'
  BY <1>2, <1>3, LeaderStays DEF IInv, Has
<1>6. End(changing.site)' = End(changing.site)
  BY <1>2 DEF End, GoesOn
<1>7. ASSUME changing.calm
      PROVE  Up(voters)' = voters' /\ Quorum'
  <2>1. Up(voters)' = voters'
    BY <1>7 DEF Up, worldVars
  <2>2. voters' \subseteq voters /\ voters' # {}
    <3>1. (voters \ S) \ {changing.site} # {}
      BY <1>7
    <3>. QED
      BY <3>1
  <2>3. IsFiniteSet(voters') /\ Cardinality(voters') \in Nat
    BY <2>2, <1>t, VotersFinite
  <2>4. Cardinality(voters') # 0
    BY <2>2, <2>3, FS_EmptySet
  <2>5. 2 * Cardinality(voters') > Cardinality(voters')
    BY <2>3, <2>4
  <2>. QED
    BY <2>1, <2>5 DEF Quorum, Majority
<1>8. QuorumSound'
  <2>1. QuorumKept'
    BY <1>2, <1>7 DEF QuorumKept, GoesOn
  <2>2. ASSUME changing'.calm
        PROVE  /\ voters' \ {changing'.site} \subseteq Up(voters)'
               /\ voters' \ {changing'.site} # {}
               /\ End(changing.site)' \cap DataSites # {}
    <3>1. changing.calm
      BY <1>2, <2>2 DEF GoesOn
    <3>2. voters' \ {changing'.site} # {} /\ Up(voters)' = voters'
      <4>1. (voters \ S) \ {changing.site} # {} /\ changing'.site = changing.site
        BY <1>2, <3>1 DEF GoesOn
      <4>. QED
        BY <1>7, <3>1, <4>1
    <3>3. End(changing.site) \cap DataSites # {}
      BY <1>1, <3>1 DEF IInv, QuorumSound
    <3>. QED
      BY <1>6, <3>2, <3>3
  <2>. QED
    BY <1>6, <2>1, <2>2 DEF QuorumSound
<1>. QED
  BY <1>3, <1>4, <1>5, <1>8, BetterStreams DEF Sound

LEMMA RemoveMemberSound ==
    ASSUME ConstantsHold, IInv, RemoveMember
    PROVE  Sound
<1>1. At("member") /\ UNCHANGED <<config, pgVars, worldVars>>
  BY DEF RemoveMember, Gate
<1>2. Better
  BY <1>1, SameIsBetter
<1>3. CASE Quorum /\ Reachable
  <2>1. voters' = voters \ {changing.site} /\ Done("member")
    BY <1>3 DEF RemoveMember, Gate, Expel
  <2>2. changing.calm => /\ voters \ {changing.site} \subseteq Up(voters)
                         /\ (voters \ {changing.site}) \ {changing.site} # {}
    BY <1>1, RemovalOnly DEF IInv, QuorumSound
  <2>. QED
    BY <1>1, <2>1, <2>2, VotersGo
<1>4. CASE ~(Quorum /\ Reachable)
  BY <1>2, <1>4, Refused DEF RemoveMember, Gate
<1>. QED
  BY <1>3, <1>4

LEMMA RemoveWitnessSound ==
    ASSUME ConstantsHold, IInv, RemoveWitness
    PROVE  Sound
<1>1. At("witness") /\ UNCHANGED <<config, pgVars, worldVars>>
  BY DEF RemoveWitness, Gate
<1>2. Better
  BY <1>1, SameIsBetter
<1>3. CASE BothHealthy(changing.site)
  <2>1. voters' = voters \ Leaving(changing.site) /\ Done("witness")
    BY <1>3 DEF RemoveWitness, Gate, Expel
  <2>2. voters = End(changing.site) \cup Leaving(changing.site) /\ Up(voters) = voters
    BY <1>3 DEF BothHealthy, VotersAre
  <2>3. voters \ Leaving(changing.site) = End(changing.site)
    BY <2>2 DEF Leaving
  <2>4. changing.site \notin End(changing.site)
    BY EndsIn
  <2>5. changing.calm => /\ voters \ Leaving(changing.site) \subseteq Up(voters)
                         /\ (voters \ Leaving(changing.site)) \ {changing.site} # {}
    <3>1. changing.calm => End(changing.site) \cap DataSites # {}
      BY <1>1, RemovalOnly DEF IInv, QuorumSound
    <3>. QED
      BY <2>2, <2>3, <2>4, <3>1
  <2>. QED
    BY <1>1, <2>1, <2>5, VotersGo
<1>4. CASE ~BothHealthy(changing.site)
  BY <1>2, <1>4, Refused DEF RemoveWitness, Gate
<1>. QED
  BY <1>3, <1>4

(* Steps and gates of a removal that take nothing from the clusters. *)
LEMMA RemovalGates ==
    ASSUME ConstantsHold, IInv, DataMoved \/ Left \/ CleanHost
    PROVE  Sound
<1>1. UNCHANGED <<config, voters, pgVars, worldVars>>
  BY DEF DataMoved, Left, CleanHost, etcdVars
<1>2. Better /\ Steady
  BY <1>1, SameIsBetter
<1>3. {"moved", "left", "host"} \subseteq Steps \ {"switch", "async", "streams"}
  BY RankIs
<1>4. \E x \in {"moved", "left", "host"} : At(x) /\ (Done(x) \/ changing' = Idle)
  BY DEF DataMoved, Left, CleanHost, Gate
<1>. QED
  BY <1>2, <1>3, <1>4, Passes, Refused

(* The configuration is the last step: nothing of the run is left. *)
LEMMA EditConfigSound ==
    ASSUME ConstantsHold, IInv, EditConfig
    PROVE  Sound
<1>1. At("config") /\ changing \in Runs
  BY TypeIs DEF EditConfig, IInv
<1>2. changing.steps = {"config"}
  <2>1. ASSUME NEW y \in changing.steps, y # "config"
        PROVE  FALSE
    <3>1. y \in Steps /\ "config" \in Steps
      BY <1>1 DEF Runs, At
    <3>2. Rank[y] < Rank["config"]
      BY <2>1, <3>1, RankIs
    <3>. QED
      BY <1>1, <2>1, <3>1, <3>2, Before DEF Has
  <2>. QED
    BY <1>1, <2>1 DEF At
<1>3. changing' = Idle
  BY <1>2 DEF EditConfig, Finish
<1>4. Better
  BY SameIsBetter DEF EditConfig
<1>. QED
  BY <1>3, <1>4, Refused

-----------------------------------------------------------------------------
(* What both commands do to the replicas that stay.                        *)

LEMMA RecreateSound ==
    ASSUME ConstantsHold, IInv, NEW r \in DataSites, Recreate(r)
    PROVE  Sound
<1>t. TypeOK /\ PgOK /\ Planned /\ changing \in Runs
  BY TypeIs DEF IInv
<1>n. DataSites \subseteq Sites
  BY SitesAre
<1>1. At("replicas") /\ "replicas" \in Steps /\ hosts[r] # Wanted
  BY RankIs DEF Recreate
<1>2. changing.cmd # "none"
  BY <1>1, <1>t, AtIsOn
<1>3. UNCHANGED <<config, voters, sync, down, unwell>>
  BY DEF Recreate, etcdVars, worldVars
<1>4. ~Has("switch") /\ ~Has("stop") /\ ~Has("cut") /\ ~Has("sync") /\ ~Has("join")
  BY <1>1, Before, RankIs
<1>5. CASE leader = r \/ {r, changing.to} \cap down # {}
  <2>1. Better /\ changing' = Idle
    BY <1>3, <1>5 DEF Recreate, Better
  <2>. QED
    BY <2>1, Refused
<1>6. CASE leader # r /\ {r, changing.to} \cap down = {}
  <2>1. changing' = [changing EXCEPT !.at = r] /\ Started(r, Wanted)
    BY <1>6 DEF Recreate
  <2>2. GoesOn /\ changing'.steps = changing.steps
    BY <1>n, <1>t, <2>1 DEF GoesOn, Runs
  <2>3. leader' = leader /\ hosts' # hosts
    BY <1>1, <1>6, <1>t, <2>1 DEF Started, PgOK
  <2>4. Planned'
    BY <1>2, <1>3, <1>4, <1>t, <2>2, PlannedStays DEF Has
  <2>5. QuorumSound'
    BY <1>3, <1>t, <2>2, QuorumStays DEF IInv, Steady
  <2>6. LeaderSound'
    <3>1. /\ changing'.cmd = changing.cmd /\ changing'.site = changing.site
          /\ changing'.to = changing.to /\ changing'.calm = changing.calm
      BY <2>2 DEF GoesOn
    <3>2. changing'.steps \cap Early = {} /\ ~Has("sync")'
      BY <1>4, <2>2 DEF Early, Has
    <3>3. Stays' = Stays /\ Leader' = Leader /\ (Has("async")' <=> Has("async"))
      BY <1>3, <2>2, <3>1 DEF Stays, End, Leader, Has
    <3>. QED
      BY <1>3, <2>3, <3>1, <3>2, <3>3 DEF IInv, LeaderSound, Removing
  <2>7. GoOn
    BY <1>3, <2>3 DEF GoOn, Writes, Leads
  <2>. QED
    BY <2>4, <2>5, <2>6, <2>7 DEF Sound
<1>. QED
  BY <1>5, <1>6

LEMMA ReplicasSound ==
    ASSUME ConstantsHold, IInv, StreamsAgain \/ ReplicasDone
    PROVE  Sound
<1>t. TypeOK /\ Planned /\ changing \in Runs
  BY TypeIs DEF IInv
<1>1. At("replicas") /\ "replicas" \in Steps \ {"switch", "async", "streams"}
  BY RankIs DEF StreamsAgain, ReplicasDone
<1>2. UNCHANGED <<config, voters, pgVars, worldVars>>
  BY DEF StreamsAgain, ReplicasDone, etcdVars
<1>3. Better /\ Steady
  BY <1>2, SameIsBetter
<1>4. CASE changing' = Idle
  BY <1>3, <1>4, Refused
<1>5. CASE Done("replicas")
  BY <1>1, <1>3, <1>5, Passes
<1>6. CASE changing' = [changing EXCEPT !.at = Nobody]
  <2>1. GoesOn /\ changing'.steps = changing.steps /\ changing'.at = Nobody
    BY <1>6, <1>t DEF GoesOn, Runs
  <2>2. changing.cmd # "none"
    BY <1>1, <1>t, AtIsOn
  <2>. QED
    BY <1>3, <2>1, <2>2, Onwards DEF Has
<1>. QED
  BY <1>4, <1>5, <1>6 DEF StreamsAgain, ReplicasDone, Finish

-----------------------------------------------------------------------------
(* The actions of an addition.                                             *)

LEMMA JoinSound ==
    ASSUME ConstantsHold, IInv,
           (\E j \in Sites : NextJoiner(j)) \/ AddLearner \/ StartLearner \/ JoinDone
    PROVE  Sound
<1>t. TypeOK /\ Planned /\ changing \in Runs
  BY TypeIs DEF IInv
<1>1. At("join") /\ "join" \in Steps \ {"switch", "async", "streams"}
  BY RankIs DEF NextJoiner, AddLearner, StartLearner, JoinDone, Joining
<1>2. changing.cmd # "none" /\ Has("join")
  BY <1>1, <1>t, AtIsOn
<1>3. UNCHANGED <<config, voters, pgVars, worldVars>>
  BY DEF NextJoiner, AddLearner, StartLearner, JoinDone, etcdVars
<1>4. Better /\ Steady
  BY <1>3, SameIsBetter
<1>5. CASE changing' = Idle
  BY <1>4, <1>5, Refused
<1>6. CASE UNCHANGED changing
  <2>1. GoesOn
    BY <1>6, <1>t DEF GoesOn
  <2>2. changing'.at # Nobody => changing'.at \notin voters
    BY <1>2, <1>6, <1>t DEF Planned
  <2>. QED
    BY <1>2, <1>4, <1>6, <2>1, <2>2, Onwards DEF Has
<1>7. CASE JoinDone
  BY <1>1, <1>4, <1>7, Passes DEF JoinDone
<1>8. ASSUME NEW j \in Sites, NextJoiner(j)
      PROVE  Sound
  <2>1. changing.at = Nobody
    BY <1>8 DEF NextJoiner
  <2>2. GoesOn /\ changing'.steps = changing.steps
    BY <1>8, <1>t DEF NextJoiner, GoesOn, Runs
  <2>3. changing'.at # Nobody => changing'.at \notin voters
    BY <1>8, <1>t, <2>1 DEF NextJoiner, Runs
  <2>. QED
    BY <1>2, <1>4, <2>2, <2>3, Onwards DEF Has
<1>. QED
  BY <1>5, <1>6, <1>7, <1>8 DEF AddLearner, StartLearner

(* A learner that is promoted is up: most voters are, with it too. *)
LEMMA PromoteSound ==
    ASSUME ConstantsHold, IInv, Promote
    PROVE  Sound
<1>t. TypeOK /\ EtcdOK /\ Planned /\ changing \in Runs
  BY TypeIs DEF IInv
<1>1. At("join") /\ "join" \in Steps
  BY RankIs DEF Promote, Joining
<1>2. Adding /\ changing.cmd # "none"
  BY <1>1, AdditionOnly DEF AddSteps, Adding
<1>3. UNCHANGED <<config, pgVars, worldVars>>
  BY DEF Promote
<1>4. Better
  BY <1>3, SameIsBetter
<1>5. CASE ~(CaughtUp /\ Quorum)
  BY <1>4, <1>5, Refused DEF Promote
<1>6. CASE CaughtUp /\ Quorum
  <2>1. /\ voters' = voters \cup {learner}
        /\ changing' = [changing EXCEPT !.at = Nobody, !.joiners = @ \ {learner}]
    BY <1>6 DEF Promote
  <2>2. GoesOn /\ changing'.steps = changing.steps /\ changing'.at = Nobody
    <3>1. changing' \in Runs
      BY <1>t, <2>1 DEF Runs
    <3>. QED
      BY <1>t, <2>1, <3>1 DEF GoesOn, Runs
  <2>3. Planned'
    BY <1>2, <1>3, <1>t, <2>2, PlannedStays DEF Has
  <2>4. LeaderSound'
    BY <1>3, <1>4, <2>2, LeaderStays DEF IInv, Has
  <2>5. learner \notin voters /\ learner \notin down \cup unwell
    <3>1. learner # Nobody
      BY <1>t DEF Promote, EtcdOK
    <3>. QED
      BY <1>6, <1>t, <3>1 DEF CaughtUp, Up, EtcdOK
  <2>6. Up(voters)' = Up(voters) \cup {learner} /\ learner \notin Up(voters)
    BY <1>3, <2>1, <2>5 DEF Up, worldVars
  <2>7. /\ Cardinality(voters') = Cardinality(voters) + 1
        /\ Cardinality(Up(voters)') = Cardinality(Up(voters)) + 1
        /\ Cardinality(voters) \in Nat /\ Cardinality(Up(voters)) \in Nat
    <3>1. Up(voters) \subseteq voters
      BY DEF Up
    <3>2. /\ IsFiniteSet(voters) /\ IsFiniteSet(Up(voters))
          /\ Cardinality(voters) \in Nat /\ Cardinality(Up(voters)) \in Nat
      BY <1>t, <3>1, VotersFinite
    <3>. QED
      BY <2>1, <2>5, <2>6, <3>2, FS_AddElement
  <2>8. Quorum'
    BY <1>6, <2>7 DEF Quorum, Majority
  <2>9. QuorumSound'
    BY <1>2, <2>2, <2>8 DEF QuorumSound, QuorumKept, Removing, Adding, GoesOn
  <2>. QED
    BY <1>4, <2>3, <2>4, <2>9, BetterStreams DEF Sound
<1>. QED
  BY <1>5, <1>6

LEMMA AdditionGates ==
    ASSUME ConstantsHold, IInv, Joined \/ HasStandby
    PROVE  Sound
<1>1. UNCHANGED <<config, voters, pgVars, worldVars>>
  BY DEF Joined, HasStandby, etcdVars
<1>2. Better /\ Steady
  BY <1>1, SameIsBetter
<1>3. {"joined", "standby"} \subseteq Steps \ {"switch", "async", "streams"}
  BY RankIs
<1>4. \E x \in {"joined", "standby"} : At(x) /\ (Done(x) \/ changing' = Idle)
  BY DEF Joined, HasStandby, Gate
<1>. QED
  BY <1>2, <1>3, <1>4, Passes, Refused

LEMMA StreamsSound ==
    ASSUME ConstantsHold, IInv, Streams
    PROVE  Sound
<1>t. TypeOK /\ Planned /\ changing \in Runs
  BY TypeIs DEF IInv
<1>1. At("streams") /\ "streams" \in Steps
  BY RankIs DEF Streams, Gate
<1>2. changing.cmd # "none"
  BY <1>1, <1>t, AtIsOn
<1>3. UNCHANGED <<config, voters, pgVars, worldVars>>
  BY DEF Streams, etcdVars
<1>4. Better /\ Steady
  BY <1>3, SameIsBetter
<1>5. CASE changing.site \in Streaming
  <2>1. Done("streams")
    BY <1>5 DEF Streams, Gate
  <2>2. GoesOn /\ changing'.steps = changing.steps \ {"streams"} /\ changing'.at = changing.at
    BY <1>t, <2>1, DoneGoes
  <2>3. ~Has("join") /\ ~Has("joined") /\ ~Has("clone")
    BY <1>1, Before, RankIs
  <2>. QED
    BY <1>2, <1>4, <1>5, <2>2, <2>3, Onwards DEF Has
<1>6. CASE changing.site \notin Streaming
  BY <1>4, <1>6, Refused DEF Streams, Gate
<1>. QED
  BY <1>5, <1>6

(* A Patroni that is started anew while another leads: it did not run, or  *)
(* ran with other etcd members. *)
LEMMA StartPatroniSound ==
    ASSUME ConstantsHold, IInv, StartPatroni
    PROVE  Sound
<1>t. TypeOK /\ PgOK /\ Planned /\ changing \in Runs
  BY TypeIs DEF IInv
<1>1. At("clone") /\ "clone" \in Steps /\ (Done("clone") \/ changing' = Idle)
  BY RankIs DEF StartPatroni, Gate
<1>2. Adding /\ changing.site \in DataSites /\ changing.cmd # "none" /\ Has("clone")
  BY <1>1, AdditionOnly DEF AddSteps, Adding, At, Has
<1>3. UNCHANGED <<config, voters, sync, down, unwell>> /\ Steady
  BY DEF StartPatroni, etcdVars, worldVars, Steady
<1>4. GoOn
  <2>1. CASE UNCHANGED <<leader, patroni, hosts>>
    BY <1>3, <2>1, BetterStreams DEF Better
  <2>2. CASE leader = changing.site
    BY <1>2, <2>2 DEF GoOn, Adding
  <2>3. CASE leader # changing.site /\ Started(changing.site, config)
    <3>1. leader' = leader
      BY <2>3 DEF Started
    <3>2. CASE hosts[changing.site] # config
      <4>1. hosts' # hosts
        BY <1>2, <1>t, <2>3, <3>2 DEF Started, PgOK
      <4>. QED
        BY <1>3, <3>1, <4>1 DEF GoOn, Writes, Leads
    <3>3. CASE patroni[changing.site] = "off"
      <4>1. \A s \in DataSites : patroni[s] = "copy" => patroni'[s] = "copy"
        BY <1>2, <1>t, <2>3, <3>3 DEF Started, PgOK
      <4>. QED
        BY <1>3, <3>1, <4>1, BetterStreams DEF Better
    <3>4. hosts[changing.site] # config \/ patroni[changing.site] = "off" \/ UNCHANGED <<leader, patroni, hosts>>
      BY DEF StartPatroni
    <3>. QED
      BY <2>1, <3>2, <3>3, <3>4
  <2>. QED
    BY <2>1, <2>2, <2>3 DEF StartPatroni
<1>5. CASE Done("clone")
  <2>1. GoesOn /\ changing'.steps = changing.steps \ {"clone"} /\ changing'.at = changing.at
    BY <1>5, <1>t, DoneGoes
  <2>2. Has("streams")'
    BY <1>2, <1>t, <2>1 DEF Planned, Has
  <2>3. Planned'
    BY <1>2, <1>3, <1>t, <2>1, <2>2, PlannedStays DEF Planned, Has
  <2>4. QuorumSound'
    BY <1>3, <1>t, <2>1, QuorumStays DEF IInv
  <2>5. LeaderSound'
    BY <1>2, <2>1, <2>2 DEF LeaderSound, Removing, Adding, GoesOn
  <2>. QED
    BY <1>4, <2>3, <2>4, <2>5 DEF Sound
<1>6. CASE changing' = Idle
  BY <1>4, <1>6, Ends DEF Sound
<1>. QED
  BY <1>1, <1>5, <1>6

(* Synchronous mode is set once the site streams: there is a standby. *)
LEMMA SetSyncSound ==
    ASSUME ConstantsHold, IInv, SetSync
    PROVE  Sound
<1>t. TypeOK /\ PgOK /\ Planned /\ changing \in Runs
  BY TypeIs DEF IInv
<1>1. At("sync") /\ "sync" \in Steps /\ (Done("sync") \/ changing' = Idle)
  BY RankIs DEF SetSync, Gate
<1>2. Adding /\ changing.cmd # "none" /\ Has("sync") /\ ~Has("streams")
  BY <1>1, AdditionOnly, Before, RankIs DEF AddSteps, Adding, At, Has
<1>3. UNCHANGED <<config, voters, leader, patroni, hosts, down, unwell>> /\ Steady
  BY DEF SetSync, etcdVars, worldVars, Steady
<1>4. Streaming' = Streaming /\ (Leads <=> Leads')
  BY <1>3 DEF Streaming, Running, Leads
<1>5. GoOn
  <2>1. changing.calm => Streaming # {}
    BY <1>2 DEF IInv, LeaderSound
  <2>. QED
    BY <1>4, <2>1 DEF GoOn, Writes, Standbys
<1>6. CASE Done("sync")
  <2>1. GoesOn /\ changing'.steps = changing.steps \ {"sync"} /\ changing'.at = changing.at
    BY <1>6, <1>t, DoneGoes
  <2>2. Planned'
    BY <1>2, <1>3, <1>t, <2>1, PlannedStays DEF Planned, Has
  <2>3. QuorumSound'
    BY <1>3, <1>t, <2>1, QuorumStays DEF IInv
  <2>4. LeaderSound'
    BY <1>2, <2>1 DEF LeaderSound, Removing, Adding, GoesOn, Has
  <2>. QED
    BY <1>5, <2>2, <2>3, <2>4 DEF Sound
<1>7. CASE changing' = Idle
  BY <1>5, <1>7, Ends DEF Sound
<1>. QED
  BY <1>1, <1>6, <1>7

-----------------------------------------------------------------------------
(* A run that begins.                                                      *)

LEMMA RemoveSound ==
    ASSUME ConstantsHold, IInv, NEW s \in Sites, Remove(s)
    PROVE  Sound
<1>t. TypeOK /\ PgOK
  BY TypeIs DEF IInv
<1>n. Nobody \notin DataSites
  BY SitesAre
<1>1. /\ changing = Idle /\ s \in config /\ Valid(End(s)) /\ EtcdReady(s) /\ PatroniReady(s)
      /\ UNCHANGED <<config, etcdVars, pgVars, worldVars>>
  BY DEF Remove
<1>2. PICK to \in (IF leader = s THEN Standbys \cap End(s) ELSE {leader}) :
        changing' = [Idle EXCEPT
           !.cmd = "remove", !.site = s, !.gone = (s \in down), !.to = to,
           !.steps = RemovePlan(s, s \in down), !.replicas = Owed(End(s), {to})]
  BY DEF Remove
<1>3. /\ changing'.cmd = "remove" /\ changing'.site = s /\ changing'.to = to
      /\ changing'.at = Nobody /\ changing'.steps = RemovePlan(s, s \in down)
  BY <1>2 DEF Idle
<1>4. /\ End(s) \subseteq config \ {s} /\ End(s)' = End(s) /\ voters' = voters
      /\ Up(voters)' = Up(voters) /\ Stays' = End(s) \cap DataSites
  BY <1>1, <1>3, EndsIn DEF End, Up, etcdVars, worldVars, Stays
<1>5. Planned'
  <2>1. changing'.steps \cap AddSteps \subseteq {"replicas"}
    BY <1>3 DEF RemovePlan, AddSteps
  <2>2. "stop" \in changing'.steps => s \in DataSites
    BY <1>3, StreamingIs DEF RemovePlan
  <2>. QED
    BY <1>1, <1>3, <2>1, <2>2 DEF Planned, Removing, Adding, Has
<1>6. QuorumSound'
  <2>1. Quorum'
    BY <1>1, <1>4 DEF EtcdReady, Quorum
  <2>2. voters \ {s} \subseteq Up(voters) /\ voters \ {s} # {} /\ End(s) \cap DataSites # {}
    <3>1. voters \ {s} \subseteq Up(voters) /\ Majority(Up(voters) \ {s}, voters \ {s})
      BY <1>1 DEF EtcdReady
    <3>2. Up(voters) \ {s} \subseteq voters \ {s}
      BY DEF Up
    <3>3. ASSUME voters \ {s} = {}
          PROVE  FALSE
      <4>1. Up(voters) \ {s} = {}
        BY <3>2, <3>3
      <4>2. 2 * Cardinality({}) > Cardinality({})
        BY <3>1, <3>3, <4>1 DEF Majority
      <4>. QED
        BY <4>2, FS_EmptySet
    <3>4. End(s) \cap DataSites # {}
      BY <1>1 DEF Valid
    <3>. QED
      BY <3>1, <3>3, <3>4
  <2>. QED
    BY <1>3, <1>4, <2>1, <2>2 DEF QuorumSound, QuorumKept, Removing
<1>7. LeaderSound'
  <2>1. Leads /\ leader \in DataSites /\ leader \notin down
    BY <1>1, <1>t DEF PatroniReady, Leads, PgOK
  <2>2. /\ to \in DataSites /\ to # Nobody /\ to # s
        /\ leader = s \/ to = leader
    <3>1. CASE leader = s
      BY <1>2, <1>4, <1>n, <3>1, StreamingIs DEF Standbys
    <3>2. CASE leader # s
      BY <1>2, <2>1, <1>n, <3>2
    <3>. QED
      BY <3>1, <3>2
  <2>3. leader' = leader /\ leader' = Leader'
    <3>1. "switch" \in RemovePlan(s, s \in down) <=> leader = s
      BY RankIs DEF RemovePlan
    <3>. QED
      BY <1>1, <1>3, <2>2, <3>1 DEF Leader, Has, pgVars
  <2>4. \A x \in End(s) \cap DataSites : patroni[x] = "copy" /\ x \notin down
    <3>. SUFFICES ASSUME NEW x \in End(s) \cap DataSites
                  PROVE  patroni[x] = "copy" /\ x \notin down
      OBVIOUS
    <3>1. x \in Running \ {s}
      BY <1>1, <1>4 DEF PatroniReady
    <3>2. x \in Streaming \cup {leader}
      BY <1>1, <3>1 DEF PatroniReady
    <3>. QED
      BY <1>t, <2>1, <3>1, <3>2, StreamingIs DEF PgOK, Leads
  <2>5. ASSUME s \in DataSites, sync, ~Has("async")'
        PROVE  (End(s) \cap DataSites) \ {to} # {}
    <3>1. ~(Cardinality(End(s) \cap DataSites) < 2)
      BY <1>3, <2>5, RankIs DEF RemovePlan, Has
    <3>2. ASSUME End(s) \cap DataSites \subseteq {to}
          PROVE  FALSE
      <4>1. IsFiniteSet({to}) /\ Cardinality({to}) = 1
        BY FS_Singleton
      <4>2. /\ Cardinality(End(s) \cap DataSites) <= 1
            /\ IsFiniteSet(End(s) \cap DataSites)
        BY <3>2, <4>1, FS_Subset
      <4>3. Cardinality(End(s) \cap DataSites) \in Nat
        BY <4>2, FS_CardinalityType
      <4>. QED
        BY <3>1, <4>2, <4>3
    <3>. QED
      BY <3>2
  <2>6. UNCHANGED <<patroni, sync, down>>
    BY <1>1 DEF pgVars, worldVars
  <2>7. /\ leader' # Nobody /\ leader' \notin down'
        /\ changing'.to # Nobody /\ changing'.to # changing'.site
    BY <1>3, <1>n, <2>1, <2>2, <2>3, <2>6
  <2>8. \A x \in Stays' : patroni'[x] = "copy" /\ x \notin down'
    BY <1>4, <2>4, <2>6
  <2>9. changing'.site \in DataSites /\ sync' /\ ~Has("async")' => Stays' \ {changing'.to} # {}
    BY <1>3, <1>4, <2>5, <2>6
  <2>10. ~Adding'
    BY <1>3 DEF Adding
  <2>. QED
    BY <2>3, <2>7, <2>8, <2>9, <2>10 DEF LeaderSound
<1>8. GoOn
  BY <1>1, IdleIsOne DEF GoOn
<1>. QED
  BY <1>5, <1>6, <1>7, <1>8 DEF Sound

LEMMA AddSound ==
    ASSUME ConstantsHold, IInv, NEW s \in Sites, Add(s)
    PROVE  Sound
<1>1. /\ changing = Idle /\ s \in DataSites /\ Quorum
      /\ UNCHANGED <<config, etcdVars, pgVars, worldVars>>
  BY DEF Add
<1>2. changing' = [Idle EXCEPT
         !.cmd = "add", !.site = s, !.to = leader, !.steps = AddPlan(s), !.joiners = config \ voters,
         !.replicas = IF leader = Nobody THEN {} ELSE Owed(config, {s, leader})]
  BY DEF Add
<1>3. /\ changing'.cmd = "add" /\ changing'.site = s /\ changing'.at = Nobody
      /\ changing'.steps = AddPlan(s)
  BY <1>2 DEF Idle
<1>4. AddPlan(s) \subseteq AddSteps /\ "streams" \in AddPlan(s)
  BY RankIs DEF AddPlan, AddSteps
<1>5. Planned'
  BY <1>1, <1>3, <1>4 DEF Planned, Removing, Adding, Has
<1>6. Quorum'
  BY <1>1 DEF Quorum, Up, etcdVars, worldVars
<1>7. QuorumSound'
  BY <1>3, <1>6 DEF QuorumSound, QuorumKept, Removing
<1>8. LeaderSound'
  BY <1>3, <1>4 DEF LeaderSound, Removing, Has
<1>9. GoOn
  BY <1>1, IdleIsOne DEF GoOn
<1>. QED
  BY <1>5, <1>7, <1>8, <1>9 DEF Sound

-----------------------------------------------------------------------------
(* What else happens.                                                      *)

LEMMA FailSound ==
    ASSUME ConstantsHold, IInv, NEW h \in Sites, Fail(h)
    PROVE  Sound
<1>1. CASE changing = Idle
  <2>1. changing' = Idle
    BY <1>1 DEF Fail
  <2>. QED
    BY <1>1, <2>1, Ends, IdleIsOne DEF Sound, GoOn
<1>2. CASE changing # Idle
  <2>1. changing' = [changing EXCEPT !.calm = FALSE] /\ changing \in Runs /\ Planned
    BY <1>2, TypeIs DEF Fail, IInv
  <2>2. /\ changing'.cmd = changing.cmd /\ changing'.site = changing.site /\ ~changing'.calm
        /\ changing'.steps = changing.steps /\ changing'.at = changing.at /\ changing.cmd # "none"
    BY <1>2, <2>1 DEF Runs, Planned
  <2>3. UNCHANGED <<config, voters>>
    BY DEF Fail, etcdVars
  <2>4. Planned'
    BY <2>1, <2>2, <2>3 DEF Planned, Removing, Adding, Has
  <2>. QED
    BY <2>2, <2>4 DEF Sound, QuorumSound, QuorumKept, LeaderSound, GoOn
<1>. QED
  BY <1>1, <1>2

(* Nothing but the clusters or their hosts changes, and is no worse. *)
LEMMA Improves ==
    ASSUME ConstantsHold, IInv, Better, Steady, UNCHANGED changing
    PROVE  Sound
<1>t. TypeOK /\ Planned /\ changing \in Runs
  BY TypeIs DEF IInv
<1>1. CASE changing.cmd = "none"
  BY <1>1, <1>t, Refused DEF Planned
<1>2. CASE changing.cmd # "none"
  <2>1. GoesOn
    BY <1>t DEF GoesOn
  <2>2. Has("join")' /\ changing'.at # Nobody => changing'.at \notin voters
    BY <1>t DEF Planned, Has
  <2>. QED
    BY <1>2, <2>1, <2>2, Onwards DEF Has
<1>. QED
  BY <1>1, <1>2

(* The leader key changes only where no run counts on it: nobody that is up*)
(* holds it, or etcd has no quorum. *)
LEMMA KeyMoves ==
    ASSUME ConstantsHold, IInv, Release \/ (\E s \in DataSites : Elect(s))
    PROVE  Sound
<1>t. TypeOK /\ Planned /\ changing \in Runs
  BY TypeIs DEF IInv
<1>1. UNCHANGED <<config, voters, patroni, hosts, sync, changing, down, unwell>> /\ Steady
  BY DEF Release, Elect, etcdVars, worldVars, Steady
<1>2. leader = Nobody \/ leader \in down \/ ~Quorum
  BY DEF Release, Elect
<1>3. CASE changing.cmd = "none"
  <2>1. changing = Idle /\ changing' = Idle
    BY <1>1, <1>3, <1>t DEF Planned
  <2>. QED
    BY <1>3, <2>1, Ends DEF Sound, GoOn
<1>4. CASE changing.cmd # "none"
  <2>1. GoesOn
    BY <1>1, <1>t DEF GoesOn
  <2>2. Planned'
    BY <1>1, <1>t DEF Planned, Removing, Adding, Has
  <2>3. QuorumSound'
    BY <1>1, <1>t, <2>1, QuorumStays DEF IInv
  <2>4. changing.calm => ~Leads /\ Streaming = {} /\ ~Removing
    <3>1. changing.calm => Quorum
      BY <1>4 DEF IInv, QuorumSound, QuorumKept
    <3>2. changing.calm => leader = Nobody \/ leader \in down
      BY <1>2, <3>1
    <3>. QED
      BY <3>2 DEF Leads, Streaming, IInv, LeaderSound
  <2>5. LeaderSound'
    BY <1>1, <2>4 DEF IInv, LeaderSound, Removing, Adding, Has
  <2>6. GoOn
    BY <2>4 DEF GoOn, Writes
  <2>. QED
    BY <2>2, <2>3, <2>5, <2>6 DEF Sound
<1>. QED
  BY <1>3, <1>4

LEMMA OtherSound ==
    ASSUME ConstantsHold, IInv,
           \/ Stop
           \/ \E s \in Sites : Recover(s)
           \/ \E s \in DataSites : CatchUp(s) \/ Failover(s) \/ Apply(s)
           \/ \E c \in Declared : Declare(c)
    PROVE  Sound
<1>t. TypeOK /\ PgOK
  BY TypeIs DEF IInv
<1>1. CASE Stop
  BY <1>1, Refused DEF Stop, Better, pgVars
<1>2. ASSUME NEW s \in Sites, Recover(s)
      PROVE  Sound
  BY <1>2, Improves DEF Recover, Better, Steady, pgVars, etcdVars
<1>3. ASSUME NEW s \in DataSites, CatchUp(s)
      PROVE  Sound
  <2>1. Better
    BY <1>3, <1>t DEF CatchUp, Better, PgOK, worldVars
  <2>. QED
    BY <1>3, <2>1, Improves DEF CatchUp, Steady, etcdVars, worldVars
<1>4. ASSUME changing = Idle, changing' = Idle
      PROVE  Sound
  BY <1>4, Ends, IdleIsOne DEF Sound, GoOn
<1>5. CASE \E s \in DataSites : Failover(s) \/ Apply(s)
  BY <1>4, <1>5 DEF Failover, Apply
<1>6. CASE \E c \in Declared : Declare(c)
  BY <1>4, <1>6 DEF Declare
<1>. QED
  BY <1>1, <1>2, <1>3, <1>5, <1>6
-----------------------------------------------------------------------------
(* Every step.                                                             *)

LEMMA RunStepSound == ASSUME ConstantsHold, IInv, RunStep PROVE Sound
<1>1. CASE Switch \/ Async \/ StopPatroni \/ DataMoved
  BY <1>1, SwitchSound, AsyncSound, StopPatroniSound, RemovalGates
<1>2. CASE RemoveMember \/ RemoveWitness \/ Cut
  BY <1>2, RemoveMemberSound, RemoveWitnessSound, CutSound
<1>3. CASE (\E r \in DataSites : Recreate(r)) \/ StreamsAgain \/ ReplicasDone
  BY <1>3, RecreateSound, ReplicasSound
<1>4. CASE Left \/ CleanHost \/ EditConfig
  BY <1>4, RemovalGates, EditConfigSound
<1>5. CASE (\E j \in Sites : NextJoiner(j)) \/ AddLearner \/ StartLearner \/ Promote \/ JoinDone
  BY <1>5, JoinSound, PromoteSound
<1>6. CASE Joined \/ StartPatroni \/ Streams \/ SetSync \/ HasStandby
  BY <1>6, AdditionGates, StartPatroniSound, StreamsSound, SetSyncSound
<1>. QED
  BY <1>1, <1>2, <1>3, <1>4, <1>5, <1>6 DEF RunStep

LEMMA StepSound == ASSUME ConstantsHold, IInv, Next PROVE IInv' /\ Sound
<1>1. TypeOK'
  BY TypeStep DEF IInv
<1>2. Sound
  BY RunStepSound, RemoveSound, AddSound, FailSound, OtherSound, KeyMoves DEF Next, Patronis
<1>. QED
  BY <1>1, <1>2 DEF Sound, IInv

LEMMA InitSound == ASSUME ConstantsHold, Init PROVE IInv
<1>1. changing = Idle
  BY DEF Init
<1>2. Planned /\ QuorumSound /\ LeaderSound
  BY <1>1, IdleIsOne DEF Planned, QuorumSound, QuorumKept, LeaderSound, Removing, Adding, Has
<1>3. TypeOK
  <2>1. EtcdOK
    BY SitesAre DEF Init, EtcdOK, ConstantsHold
  <2>2. PgOK
    BY DEF Init, PgOK, ConstantsHold
  <2>3. RestOK
    BY DEF Init, RestOK, ConstantsHold, NoGoal
  <2>. QED
    BY <1>1, <2>1, <2>2, <2>3, IdleIsOne, TypeIs
<1>. QED
  BY <1>2, <1>3 DEF IInv

LEMMA Stutters == ASSUME IInv, UNCHANGED vars PROVE IInv'
<1>1. TypeOK'
  BY TypeIs, TypeIsNext, SameEtcd, SamePg, SameRest DEF IInv, vars
<1>2. Planned' /\ QuorumSound' /\ LeaderSound'
  BY DEF vars, etcdVars, pgVars, worldVars, IInv, Planned, QuorumSound, QuorumKept, LeaderSound, Removing,
     Adding, Has, Leader, Stays, End, Quorum, Up, Streaming, Running
<1>. QED
  BY <1>1, <1>2 DEF IInv

(* The inductive invariant: what a run planned still holds, at every step  *)
(* of it and through what the sites and Patroni do meanwhile, while no     *)
(* host has failed since Build looked. *)
THEOREM Invariant == ASSUME ConstantsHold PROVE Spec => []IInv
<1>1. Init => IInv
  BY InitSound
<1>2. IInv /\ [Next]_vars => IInv'
  BY StepSound, Stutters
<1>. QED
  BY <1>1, <1>2, PTL DEF Spec

(* Type correctness of site add and site remove: among others, a learner is*)
(* never a voter too, and only a copy of the database ever leads. *)
THEOREM TypeCorrect == ASSUME ConstantsHold PROVE Spec => []TypeOK
<1>1. IInv => TypeOK
  BY DEF IInv
<1>. QED
  BY <1>1, Invariant, PTL

(* A membership change of site add or site remove never costs etcd its     *)
(* quorum, for any number of voters: while no host has failed since the    *)
(* command looked, most voters are up after each of its steps. *)
THEOREM QuorumIsKept == ASSUME ConstantsHold PROVE Spec => []QuorumKept
<1>1. IInv => QuorumKept
  BY DEF IInv, QuorumSound
<1>. QED
  BY <1>1, Invariant, PTL

(* No step of a command, and none of Patroni's or the hosts' meanwhile,    *)
(* stops the database's writes while no host has failed: where a site led, *)
(* with a Sync Standby if it needs one, it is so after the step, or a      *)
(* replica was recreated and the leader goes on. *)
THEOREM WritesAreKept == ASSUME ConstantsHold PROVE Spec => WritesGoOn
<1>1. ASSUME IInv, [Next]_vars
      PROVE  [changing.cmd # "none" /\ changing.calm /\ changing'.calm
              /\ Writes /\ ~(changing.cmd = "add" /\ leader = changing.site)
               => Writes' \/ (hosts' # hosts /\ Leads')]_clusters
  <2>1. CASE Next
    BY <1>1, <2>1, StepSound DEF Sound, GoOn
  <2>2. CASE UNCHANGED vars
    BY <2>2 DEF vars, etcdVars, pgVars, worldVars, clusters
  <2>. QED
    BY <1>1, <2>1, <2>2
<1>. QED
  BY <1>1, Invariant, PTL DEF Spec, WritesGoOn
=============================================================================
