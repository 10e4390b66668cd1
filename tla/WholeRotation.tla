---------------------------- MODULE WholeRotation ----------------------------
(***************************************************************************)
(* The rotations that are commands of their own: an app's Garage S3 key    *)
(* and its OIDC client secret, each issued beside the one before it, which *)
(* is retired when the app runs on the new one.                            *)
(*                                                                         *)
(*   internal/rotatekey/rotatekey.go      storage rotate-key, five stages  *)
(*   internal/oidcclient/oidcclient.go    oidc client create --rotate and  *)
(*                                        the retirement of old secrets    *)
(*   internal/secretsrotate/wrapped.go    secrets rotate around the second *)
(*                                                                         *)
(* One app, whose sites' stacks are rendered with all its credentials at   *)
(* once; one operator, one command at a time.  Values are numbers, in the  *)
(* order they are generated.  Beside the rotations the model has the       *)
(* commands that render or repair a credential meanwhile: apply, storage   *)
(* init and oidc client create without --rotate-secret.                    *)
(***************************************************************************)
EXTENDS CredentialState, FiniteSets

CONSTANTS
    Commands,      \* what the operator runs beside the rotations
    MaxHeld,       \* how many secrets Pocket ID keeps for a client
    None,          \* no credential
    MaxValue,      \* bound: values generated of each credential
    MaxStops       \* bound: runs that stop

(* Assumed of the constants wherever the module is used. *)
ConstantsHold ==
    /\ Keys \cap Clients = {} /\ None \notin Creds
    /\ Commands \subseteq {"apply", "init", "create"}
    /\ MaxHeld \in Nat /\ MaxValue \in Nat \ {0} /\ MaxStops \in Nat

VARIABLE made    \* values generated so far

vars == <<credentials, made>>

Idle == [pc |-> "idle", at |-> None, todo |-> {}]

At(pc) == rotating.pc = pc
To(pc) == rotating' = [rotating EXCEPT !.pc = pc]

Init ==
    /\ cur = [c \in Creds |-> 1]
    /\ prev = [c \in Creds |-> 0]
    /\ holds = [c \in Creds |-> {1}]
    /\ grants = [c \in Creds |-> {1}]
    /\ env = [c \in Creds |-> [u \in AppSites |-> 1]]
    /\ rotating = Idle
    /\ made = [c \in Creds |-> 1]
    /\ stops = 0

-----------------------------------------------------------------------------
(* Mutant: a rotation is in progress once Garage holds the new key. *)
InProgressInGarage(k) == prev[k] # 0 /\ cur[k] \in holds[k]

(* Mutant: every run generates a key. *)
NeverInProgress(k) == FALSE

(* storage rotate-key.  A previous pair means a rotation is in progress,   *)
(* and the run goes on from it rather than generating a second key.        *)

InProgress(k) == prev[k] # 0

(* The sites an apply of the app has something left to do on.              *)
Behind(k) == {u \in AppSites : env[k][u] # cur[k]}

PlanKey(k) ==
    /\ rotating = Idle
    /\ IF InProgress(k)
       THEN /\ {prev[k], cur[k]} \cap holds[k] # {}
            /\ rotating' = [pc |-> "import", at |-> k, todo |-> Behind(k)]
       ELSE /\ cur[k] \in holds[k] /\ made[k] < MaxValue
            /\ rotating' = [pc |-> "pair", at |-> k, todo |-> AppSites]
    /\ UNCHANGED <<cur, prev, holds, grants, env, made, stops>>

(* Stage 1: the new pair, with the retiring one kept beside it.            *)
WritePair ==
    LET k == rotating.at IN
    /\ At("pair")
    /\ made' = [made EXCEPT ![k] = @ + 1]
    /\ prev' = [prev EXCEPT ![k] = cur[k]]
    /\ cur' = [cur EXCEPT ![k] = made'[k]]
    /\ To("import")
    /\ UNCHANGED <<holds, grants, env, stops>>

(* Stage 2: the new key in Garage, and then its grant on the bucket.       *)
Import ==
    LET k == rotating.at IN
    /\ At("import")
    /\ holds' = [holds EXCEPT ![k] = @ \cup {cur[k]}]
    /\ To("grant")
    /\ UNCHANGED <<cur, prev, grants, env, made, stops>>

Grant ==
    LET k == rotating.at IN
    /\ At("grant")
    /\ grants' = [grants EXCEPT ![k] = @ \cup {cur[k]}]
    /\ To("switch")
    /\ UNCHANGED <<cur, prev, holds, env, made, stops>>

(* The app applied alone on a site, with every credential of it the file   *)
(* holds.                                                                  *)
Rendered(u) == [c \in Creds |-> [env[c] EXCEPT ![u] = cur[c]]]

(* Stage 3: each site still behind when the run was planned.               *)
SwitchSite(u) ==
    /\ At("switch") /\ u \in rotating.todo
    /\ env' = Rendered(u)
    /\ rotating' = [rotating EXCEPT !.todo = @ \ {u}]
    /\ UNCHANGED <<cur, prev, holds, grants, made, stops>>

(* Its gate asks again, of every site; a key run stops where one is behind. *)
SwitchGate ==
    /\ At("switch") /\ rotating.todo = {} /\ rotating.at \in Keys
    /\ IF Behind(rotating.at) = {} THEN To("prove") ELSE rotating' = Idle
    /\ UNCHANGED <<cur, prev, holds, grants, env, made, stops>>

(* Stage 4: the new key writes, reads and deletes from every site.         *)
Prove ==
    /\ At("prove")
    /\ IF cur[rotating.at] \in grants[rotating.at] THEN To("delete") ELSE rotating' = Idle
    /\ UNCHANGED <<cur, prev, holds, grants, env, made, stops>>

(* Stage 5: the old key out of Garage, then out of the secrets.            *)
OldKey(k) == prev[k]

DeleteKey ==
    LET k == rotating.at IN
    /\ At("delete")
    /\ holds' = [holds EXCEPT ![k] = @ \ {OldKey(k)}]
    /\ grants' = [grants EXCEPT ![k] = @ \ {OldKey(k)}]
    /\ To("unpair")
    /\ UNCHANGED <<cur, prev, env, made, stops>>

Unpair ==
    /\ At("unpair")
    /\ prev' = [prev EXCEPT ![rotating.at] = 0]
    /\ rotating' = Idle
    /\ UNCHANGED <<cur, holds, grants, env, made, stops>>

-----------------------------------------------------------------------------
(* The OIDC client secret.  A run that stopped is run again whole: it adds *)
(* another secret.                                                         *)

PlanClient(c) ==
    /\ rotating = Idle
    /\ Cardinality(holds[c]) < MaxHeld /\ made[c] < MaxValue
    /\ rotating' = [pc |-> "record", at |-> c, todo |-> AppSites]
    /\ UNCHANGED <<cur, prev, holds, grants, env, made, stops>>

(* The new secret is recorded before Pocket ID is sent it.                 *)
Record ==
    LET c == rotating.at IN
    /\ At("record")
    /\ made' = [made EXCEPT ![c] = @ + 1]
    /\ cur' = [cur EXCEPT ![c] = made'[c]]
    /\ To("send")
    /\ UNCHANGED <<prev, holds, grants, env, stops>>

Sent(c) ==
    /\ holds' = [holds EXCEPT ![c] = @ \cup {cur[c]}]
    /\ grants' = [grants EXCEPT ![c] = @ \cup {cur[c]}]

Send ==
    /\ At("send")
    /\ Sent(rotating.at)
    /\ To("switch")
    /\ UNCHANGED <<cur, prev, env, made, stops>>

(* Mutant: once some site of the app runs on it. *)
SomeSwitched == rotating.todo # AppSites

(* Each site is applied, and healthy, before the old secrets are deleted.  *)
AllSwitched == rotating.todo = {}

(* Mutant: only the one recorded before it. *)
Previous(c) == holds[c] \cap {cur[c] - 1}

(* Every secret but the recorded one is deleted, one at a time, and none   *)
(* where Pocket ID does not hold that one.                                 *)
Old(c) == holds[c] \ {cur[c]}

Retire ==
    LET c == rotating.at IN
    /\ At("switch") /\ c \in Clients /\ AllSwitched
    /\ IF Old(c) = {} \/ cur[c] \notin holds[c]
       THEN /\ rotating' = Idle
            /\ UNCHANGED <<holds, grants>>
       ELSE \E v \in Old(c) :
              /\ holds' = [holds EXCEPT ![c] = @ \ {v}]
              /\ grants' = [grants EXCEPT ![c] = @ \ {v}]
              /\ UNCHANGED rotating
    /\ UNCHANGED <<cur, prev, env, made, stops>>

-----------------------------------------------------------------------------
(* A run stops: an interrupt, a gate that fails, a host out of reach.      *)
Stop ==
    /\ rotating # Idle /\ stops < MaxStops
    /\ rotating' = Idle
    /\ stops' = stops + 1
    /\ UNCHANGED <<cur, prev, holds, grants, env, made>>

(* apply looks for pending rotations of the engine's, never for these.     *)
Apply(u) ==
    /\ "apply" \in Commands /\ rotating = Idle
    /\ env' = Rendered(u)
    /\ UNCHANGED <<cur, prev, holds, grants, rotating, made, stops>>

(* storage init imports and grants the key the secrets hold.               *)
StorageInit(k) ==
    /\ "init" \in Commands /\ rotating = Idle
    /\ Sent(k)
    /\ UNCHANGED <<cur, prev, env, rotating, made, stops>>

(* oidc client create sends the recorded secret where Pocket ID does not   *)
(* hold it.                                                                *)
ClientCreate(c) ==
    /\ "create" \in Commands /\ rotating = Idle
    /\ cur[c] \notin holds[c] /\ Cardinality(holds[c]) < MaxHeld
    /\ Sent(c)
    /\ UNCHANGED <<cur, prev, env, rotating, made, stops>>

KeyStep ==
    \/ WritePair \/ Import \/ Grant
    \/ SwitchGate \/ Prove \/ DeleteKey \/ Unpair

ClientStep == Record \/ Send \/ Retire

RunStep == KeyStep \/ ClientStep \/ \E u \in AppSites : SwitchSite(u)

Next ==
    \/ \E k \in Keys : PlanKey(k) \/ StorageInit(k)
    \/ \E c \in Clients : PlanClient(c) \/ ClientCreate(c)
    \/ \E u \in AppSites : Apply(u)
    \/ RunStep
    \/ Stop

Spec == Init /\ [][Next]_vars

(* A run goes on by itself, and the operator runs a rotation that stopped  *)
(* again, as its error says.                                               *)
Rerun(k) == prev[k] # 0 /\ PlanKey(k)

Fairness == WF_vars(RunStep) /\ \A k \in Keys : SF_vars(Rerun(k))

FairSpec == Spec /\ Fairness

-----------------------------------------------------------------------------
(* Properties.                                                             *)

(* Every variable keeps its type. *)
TypeOK ==
    /\ cur \in [Creds -> Nat \ {0}]
    /\ prev \in [Creds -> Nat]
    /\ holds \in [Creds -> SUBSET (Nat \ {0})]
    /\ grants \in [Creds -> SUBSET (Nat \ {0})]
    /\ env \in [Creds -> [AppSites -> Nat \ {0}]]
    /\ rotating \in [pc : {"idle", "pair", "import", "grant", "switch", "prove", "delete", "unpair",
                      "record", "send"},
                at : Creds \cup {None}, todo : SUBSET AppSites]
    /\ made \in [Creds -> Nat \ {0}]
    /\ stops \in 0..MaxStops

(* A rotation of a key in progress comes to its end, with the app working  *)
(* everywhere on the new key. *)
KeyRotationFinishes ==
    \A k \in Keys : prev[k] # 0 ~> prev[k] = 0 /\ \A u \in AppSites : Works(k, u)

(* README.md:3867-3871: the app keeps a working key the whole time. *)
AppHasWorkingKey == \A k \in Keys, u \in AppSites : Works(k, u)
=============================================================================
