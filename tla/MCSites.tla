------------------------------ MODULE MCSites ------------------------------
(***************************************************************************)
(* The two commands that look at every site of a deployment before they    *)
(* change any: apply, by the records the hosts hold, and the change of a   *)
(* data site.  A behaviour is of one or of the other, as chosen at the     *)
(* start, so that the run explores the states of both and no product of    *)
(* them.  The change has three data sites and a witness, which is the      *)
(* smallest in which a replica outlives a removal and is recreated.        *)
(***************************************************************************)
EXTENDS MCConfigStore, ClusterState

CONSTANTS d1, d2, d3, tie,    \* the data sites and the witness
          Founder, Declared, Synchronous, MaxDeclares, MaxChangeMishaps

VARIABLES config, learner, started, spent, goal, declares, changeMishaps,
          procedure   \* the command explored

changeVars == <<clusters, config, learner, started, spent, goal, declares, changeMishaps>>

C == INSTANCE SiteChange WITH Sites <- {d1, d2, d3, tie}, MaxMishaps <- MaxChangeMishaps,
                              mishaps <- changeMishaps

ASSUME ChangeAssumption == C!ConstantsHold

SitesInit == Init /\ C!Init /\ procedure \in {"apply", "change"}

ApplyNext  == procedure = "apply" /\ Next /\ LocalFirst /\ UNCHANGED <<changeVars, procedure>>
ChangeNext == procedure = "change" /\ C!Next /\ UNCHANGED <<vars, procedure>>

(* A cluster that has changed for the last time may stay as it is. *)
Rest == procedure = "change" /\ changing = C!Idle /\ UNCHANGED <<vars, changeVars, procedure>>

(* SiteChange's fairness.  Naming the procedure first spares evaluating it *)
(* in the behaviours of apply, where it says nothing.                      *)
SitesFairness ==
    /\ WF_changeVars(procedure = "change" /\ C!RunStep)
    /\ WF_changeVars(procedure = "change" /\ C!Patronis)
    /\ WF_changeVars(procedure = "change" /\ C!Recovery)
    /\ SF_changeVars(procedure = "change" /\ C!Rerun)
    /\ SF_changeVars(procedure = "change" /\ C!SwitchAway)

SitesSpec == /\ SitesInit
             /\ [][ApplyNext \/ ChangeNext \/ Rest]_<<vars, changeVars, procedure>>
             /\ SitesFairness

(* A change once begun comes to its end.                                   *)
ChangesFinish == C!ChangesFinish
=============================================================================
