----------------------------- MODULE MCClusters -----------------------------
(***************************************************************************)
(* The two commands that take every host of a cluster apart and bring it   *)
(* together again, host by host: mesh rekey and the join of the Garage     *)
(* sites; and the runs of host prepare on a host of several deployments.   *)
(* A behaviour is of one of them, as chosen at the start, so that the run  *)
(* explores the states of each and no product of them.                     *)
(***************************************************************************)
EXTENDS MCMeshRekey, GarageState, HostState

CONSTANTS g1, g2, g3,    \* the sites with a Garage, in the order listed
          OldSites, FirstFactor, Factors, Failing, JoinMishaps, MaxJoinMishaps,
          NKeys, Found, Restricted, ByHand, Leaving, Lists,
          MaxHostEdits, MaxHostStops,
          da, db          \* deployments

VARIABLES want, joining, joinMishaps,
          listed, owner, hostEdits, hostStops,
          procedure   \* the command explored

joinVars == <<want, factor, garage, layout, aside, met, behind, counts, missing, joined,
              joining, joinMishaps>>

hostVars == <<lines, sidecar, allow, listed, preparing, owner, hostEdits, hostStops>>

S == INSTANCE StorageAdd WITH Order <- <<g1, g2, g3>>, Mishaps <- JoinMishaps,
                              MaxMishaps <- MaxJoinMishaps,
                              run <- joining, mishaps <- joinMishaps

H == INSTANCE HostKeys WITH MaxEdits <- MaxHostEdits, MaxStops <- MaxHostStops,
                            edits <- hostEdits, stops <- hostStops

ASSUME JoinAssumption == S!ConstantsHold /\ S!OneAnchor
ASSUME HostAssumption == H!ConstantsHold

(* What is not explored starts in one state only.                          *)
ClustersInit ==
    /\ Init /\ S!Init /\ H!Init /\ procedure \in {"rekey", "join", "keys"}
    /\ procedure # "keys" => listed = [d \in Deployments |-> CHOOSE list \in Lists : TRUE]

RekeyNext == procedure = "rekey" /\ Next /\ UNCHANGED <<joinVars, hostVars, procedure>>
JoinNext  == procedure = "join" /\ S!Next /\ UNCHANGED <<vars, hostVars, procedure>>
KeysNext  == procedure = "keys" /\ H!Next /\ UNCHANGED <<vars, joinVars, procedure>>

(* The fairness of each.  Naming the procedure first spares evaluating it  *)
(* in the behaviours of the other, where it says nothing.                  *)
ClustersFairness ==
    /\ WF_vars(procedure = "rekey" /\ Step)
    /\ WF_vars(procedure = "rekey" /\ Start)
    /\ WF_vars(procedure = "rekey" /\ Heal)
    /\ WF_vars(procedure = "rekey" /\ EndMaintenance)
    /\ WF_joinVars(procedure = "join" /\ S!RunStep)
    /\ WF_joinVars(procedure = "join" /\ S!Plan)
    /\ WF_joinVars(procedure = "join" /\ S!FirstApply)
    /\ WF_joinVars(procedure = "join" /\ S!Garages)
    /\ \A d \in Deployments : WF_hostVars(procedure = "keys" /\ H!Run(d))

ClustersSpec == /\ ClustersInit
                /\ [][RekeyNext \/ JoinNext \/ KeysNext]_<<vars, joinVars, hostVars, procedure>>
                /\ ClustersFairness

(* Every join ends. *)
JoinFinishes == procedure = "join" /\ ~joined ~> joined

(* What every deployment gets on a host that is shared.                    *)
ListedGetIn ==
    <>[](procedure = "keys" =>
            \A d \in Deployments : H!IsRefused(d) \/ \A k \in listed[d] : H!Authorized(k))
=============================================================================
