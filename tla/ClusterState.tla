----------------------------- MODULE ClusterState -----------------------------
(***************************************************************************)
(* The etcd and Patroni clusters of a deployment's sites, and what a       *)
(* command that changes their members (SiteChange) promises of them.       *)
(***************************************************************************)
EXTENDS Naturals, FiniteSets

CONSTANTS
    DataSites,     \* the sites that hold the database; the others are witnesses
    Nobody         \* no site

VARIABLES
    voters,    \* etcd's voting members
    down,      \* hosts that do not answer
    unwell,    \* hosts whose etcd does not
    leader,    \* the site that holds Patroni's leader key
    patroni,   \* each data site's Patroni: off, behind, or a copy of the leader
    hosts,     \* the etcd members each Patroni was started with
    sync,      \* Patroni's dynamic configuration: synchronous mode
    changing   \* the run under way of site add or site remove

clusters == <<voters, down, unwell, leader, patroni, hosts, sync, changing>>

Up(S)     == S \ (down \cup unwell)
Majority(S, of) == 2 * Cardinality(S) > Cardinality(of)
Quorum    == Majority(Up(voters), voters)

(* patronictl list: the Patronis that run, and the replicas that stream.   *)
Running == {s \in DataSites : patroni[s] # "off"} \ down

Streaming ==
    IF leader = Nobody \/ leader \in down THEN {}
    ELSE {s \in Running \ {leader} : patroni[s] = "copy"}

Standbys == IF sync THEN Streaming ELSE {}

Leads == leader # Nobody /\ leader \notin down

(* A membership change of a command's never costs etcd its quorum: while   *)
(* no host has failed since the command looked, most voters are up,        *)
(* whichever half done change it began from, at two voters too, and with   *)
(* the host of the site that leaves gone. *)
QuorumKept == changing.cmd # "none" /\ changing.calm => Quorum

(* Nor do the database's writes stop while a command runs and no host has  *)
(* failed since it looked: where a site led, with a Sync Standby if it     *)
(* needs one, it is so after any step, or a replica was recreated and the  *)
(* leader goes on.  A site that leads when it is added again is excepted:  *)
(* the apply in it recreates the leader if the etcd members changed. *)
Writes == Leads /\ (sync => Standbys # {})

WritesGoOn ==
    [][changing.cmd # "none" /\ changing.calm /\ changing'.calm
       /\ Writes /\ ~(changing.cmd = "add" /\ leader = changing.site)
        => Writes' \/ (hosts' # hosts /\ Leads')]_clusters
=============================================================================
