------------------------ MODULE WholeRotation_proofs ------------------------
(***************************************************************************)
(* Proofs about the rotations that are commands of their own, for any      *)
(* sites, keys, clients, commands beside them and bounds.                  *)
(***************************************************************************)
EXTENDS WholeRotation, TLAPS

(* Where a run generates a value, and where every site is known to run on  *)
(* the recorded one.                                                       *)
Generating == {"pair", "record"}
Rotated    == {"prove", "delete", "unpair"}

(* Values are generated in order: the recorded one after the retiring one. *)
ValuesFresh == \A c \in Creds : cur[c] <= made[c] /\ prev[c] < cur[c]

(* A run of each kind is at a stage of that kind.                          *)
RunKind ==
    /\ rotating = Idle \/ (rotating.pc # "idle" /\ rotating.at \in Creds)
    /\ rotating.pc \in {"pair", "import", "grant"} \cup Rotated => rotating.at \in Keys
    /\ rotating.pc \in {"record", "send"} => rotating.at \in Clients

(* What a run knows of the credential it rotates, at each stage.           *)
RunKnows ==
    /\ rotating.pc \in Generating => rotating.todo = AppSites
    /\ rotating.pc = "pair" => prev[rotating.at] = 0
    /\ rotating.pc \in {"grant", "switch"} => cur[rotating.at] \in holds[rotating.at]
    /\ rotating.pc \in {"switch", "delete", "unpair"} => cur[rotating.at] \in grants[rotating.at]
    /\ rotating.pc \in {"import", "grant", "send", "switch"} =>
           \A u \in AppSites \ rotating.todo : env[rotating.at][u] = cur[rotating.at]
    /\ rotating.pc \in Rotated => \A u \in AppSites : env[rotating.at][u] = cur[rotating.at]
    /\ rotating.pc = "unpair" => prev[rotating.at] \notin holds[rotating.at]

IInv == TypeOK /\ NoForgottenKey /\ ValuesFresh /\ RunKind /\ RunKnows
-----------------------------------------------------------------------------
(* Runs and values.                                                        *)

Pcs == {"idle", "pair", "import", "grant", "switch", "prove", "delete", "unpair", "record", "send"}

Runs == [pc : Pcs, at : Creds \cup {None}, todo : SUBSET AppSites]

LEMMA Typed ==
    ASSUME IInv
    PROVE  /\ cur \in [Creds -> Nat \ {0}] /\ prev \in [Creds -> Nat]
           /\ holds \in [Creds -> SUBSET (Nat \ {0})] /\ grants \in [Creds -> SUBSET (Nat \ {0})]
           /\ env \in [Creds -> [AppSites -> Nat \ {0}]] /\ made \in [Creds -> Nat \ {0}]
           /\ rotating \in Runs /\ stops \in 0..MaxStops
BY DEF IInv, TypeOK, Runs, Pcs

LEMMA TypedNext ==
    ASSUME cur' \in [Creds -> Nat \ {0}], prev' \in [Creds -> Nat],
           holds' \in [Creds -> SUBSET (Nat \ {0})], grants' \in [Creds -> SUBSET (Nat \ {0})],
           env' \in [Creds -> [AppSites -> Nat \ {0}]], made' \in [Creds -> Nat \ {0}],
           rotating' \in Runs, stops' \in 0..MaxStops
    PROVE  TypeOK'
BY DEF TypeOK, Runs, Pcs

LEMMA KeyIsOne == ASSUME NEW k \in Keys PROVE k \in Creds
BY DEF Creds

LEMMA ClientIsOne == ASSUME NEW c \in Clients PROVE c \in Creds
BY DEF Creds

LEMMA IdleIsOne == Idle \in Runs /\ Idle.pc = "idle"
BY DEF Idle, Runs, Pcs

(* A run at a stage is of one credential, and goes on with it.             *)
LEMMA Active ==
    ASSUME IInv, rotating.pc # "idle"
    PROVE  rotating \in Runs /\ rotating.at \in Creds /\ rotating # Idle
BY Typed DEF IInv, RunKind, Idle

LEMMA GoesTo ==
    ASSUME IInv, rotating.pc # "idle", NEW pc \in Pcs, To(pc)
    PROVE  rotating' \in Runs /\ rotating'.pc = pc /\ rotating'.at = rotating.at /\ rotating'.todo = rotating.todo
BY Active DEF To, Runs

(* A run that ends leaves nothing to know.                                 *)
LEMMA Ends ==
    ASSUME rotating' = Idle
    PROVE  rotating' \in Runs /\ RunKind' /\ RunKnows'
BY IdleIsOne DEF Idle, RunKind, RunKnows, Generating, Rotated

-----------------------------------------------------------------------------
(* The rotation of a key.                                                  *)

LEMMA PlanKeyKeeps ==
    ASSUME IInv, NEW k \in Keys, PlanKey(k)
    PROVE  IInv'
<1>1. /\ UNCHANGED <<cur, prev, holds, grants, env, made, stops>> /\ k \in Creds
      /\ \/ rotating' = [pc |-> "import", at |-> k, todo |-> Behind(k)]
         \/ rotating' = [pc |-> "pair", at |-> k, todo |-> AppSites] /\ prev[k] = 0
  BY KeyIsOne DEF PlanKey, InProgress
<1>2. Behind(k) \in SUBSET AppSites /\ \A u \in AppSites \ Behind(k) : env[k][u] = cur[k]
  BY DEF Behind
<1>. HIDE DEF Behind
<1>3. rotating' \in Runs
  BY <1>1, <1>2 DEF Runs, Pcs
<1>4. TypeOK'
  BY <1>1, <1>3, Typed, TypedNext
<1>5. NoForgottenKey' /\ ValuesFresh'
  BY <1>1 DEF IInv, NoForgottenKey, ValuesFresh
<1>6. RunKind' /\ RunKnows'
  BY <1>1, <1>2 DEF RunKind, RunKnows, Generating, Rotated
<1>. QED
  BY <1>4, <1>5, <1>6 DEF IInv

LEMMA WritePairKeeps ==
    ASSUME IInv, WritePair
    PROVE  IInv'
<1>1. rotating.pc = "pair"
  BY DEF WritePair, At
<1>2. PICK k \in Keys : /\ k = rotating.at /\ k \in Creds /\ rotating.todo = AppSites /\ prev[k] = 0
                        /\ rotating.pc = "pair"
  BY <1>1, Active DEF IInv, RunKind, RunKnows, Generating
<1>3. /\ made' = [made EXCEPT ![k] = made[k] + 1] /\ prev' = [prev EXCEPT ![k] = cur[k]]
      /\ cur' = [cur EXCEPT ![k] = made'[k]] /\ UNCHANGED <<holds, grants, env, stops>>
      /\ rotating'.pc = "import" /\ rotating'.at = k /\ rotating'.todo = AppSites /\ rotating' \in Runs
  BY <1>2, GoesTo DEF WritePair, Pcs
<1>4. /\ made'[k] = made[k] + 1 /\ prev'[k] = cur[k] /\ cur'[k] = made[k] + 1
      /\ made[k] \in Nat \ {0} /\ cur[k] \in Nat \ {0}
      /\ \A c \in Creds : c # k => made'[c] = made[c] /\ prev'[c] = prev[c] /\ cur'[c] = cur[c]
  BY <1>2, <1>3, Typed
<1>5. TypeOK'
  <2>1. made[k] + 1 \in Nat \ {0} /\ cur[k] \in Nat
    BY <1>4
  <2>2. made' \in [Creds -> Nat \ {0}] /\ prev' \in [Creds -> Nat] /\ cur' \in [Creds -> Nat \ {0}]
    BY <1>3, <1>4, <2>1, Typed
  <2>. QED
    BY <1>3, <2>2, Typed, TypedNext
<1>6. NoForgottenKey'
  <2>1. holds[k] \subseteq {cur[k]}
    BY <1>2, Typed DEF IInv, NoForgottenKey
  <2>. QED
    BY <1>3, <1>4, <2>1, KeyIsOne DEF IInv, NoForgottenKey
<1>7. ValuesFresh'
  <2>1. ASSUME NEW c \in Creds PROVE cur'[c] <= made'[c] /\ prev'[c] < cur'[c]
    <3>1. cur[c] <= made[c] /\ prev[c] < cur[c]
      BY DEF IInv, ValuesFresh
    <3>2. CASE c = k
      <4>1. cur[k] <= made[k]
        BY <3>1, <3>2
      <4>. QED
        BY <1>4, <3>2, <4>1
    <3>3. CASE c # k
      BY <1>4, <3>1, <3>3
    <3>. QED
      BY <3>2, <3>3
  <2>. QED
    BY <2>1 DEF ValuesFresh
<1>8. RunKind' /\ RunKnows'
  BY <1>2, <1>3 DEF RunKind, RunKnows, Generating, Rotated
<1>. QED
  BY <1>5, <1>6, <1>7, <1>8 DEF IInv

(* What the issuer is sent is the recorded value.                          *)
LEMMA SentTyped ==
    ASSUME IInv, NEW c \in Creds, NEW S,
           S = holds \/ S = grants
    PROVE  /\ [S EXCEPT ![c] = @ \cup {cur[c]}] \in [Creds -> SUBSET (Nat \ {0})]
           /\ \A d \in Creds : [S EXCEPT ![c] = @ \cup {cur[c]}][d] =
                  IF d = c THEN S[c] \cup {cur[c]} ELSE S[d]
<1>1. S \in [Creds -> SUBSET (Nat \ {0})] /\ cur[c] \in Nat \ {0}
  BY Typed
<1>2. S[c] \cup {cur[c]} \in SUBSET (Nat \ {0})
  BY <1>1
<1>. QED
  BY <1>1, <1>2

LEMMA ImportKeeps ==
    ASSUME IInv, Import
    PROVE  IInv'
<1>1. rotating.pc = "import"
  BY DEF Import, At
<1>2. PICK k \in Keys : k = rotating.at /\ k \in Creds
  BY <1>1, Active DEF IInv, RunKind
<1>3. /\ holds' = [holds EXCEPT ![k] = @ \cup {cur[k]}]
      /\ UNCHANGED <<cur, prev, grants, env, made, stops>>
      /\ rotating'.pc = "grant" /\ rotating'.at = k /\ rotating'.todo = rotating.todo /\ rotating' \in Runs
  BY <1>1, <1>2, GoesTo DEF Import, Pcs
<1>4. /\ holds' \in [Creds -> SUBSET (Nat \ {0})]
      /\ \A d \in Creds : holds'[d] = IF d = k THEN holds[k] \cup {cur[k]} ELSE holds[d]
  BY <1>2, <1>3, SentTyped
<1>5. TypeOK'
  BY <1>3, <1>4, Typed, TypedNext
<1>6. NoForgottenKey' /\ ValuesFresh'
  BY <1>3, <1>4, KeyIsOne DEF IInv, NoForgottenKey, ValuesFresh
<1>7. RunKind' /\ RunKnows'
  BY <1>1, <1>2, <1>3, <1>4 DEF IInv, RunKind, RunKnows, Generating, Rotated
<1>. QED
  BY <1>5, <1>6, <1>7 DEF IInv

LEMMA GrantKeeps ==
    ASSUME IInv, Grant
    PROVE  IInv'
<1>1. rotating.pc = "grant"
  BY DEF Grant, At
<1>2. PICK k \in Keys : k = rotating.at /\ k \in Creds
  BY <1>1, Active DEF IInv, RunKind
<1>3. /\ grants' = [grants EXCEPT ![k] = @ \cup {cur[k]}]
      /\ UNCHANGED <<cur, prev, holds, env, made, stops>>
      /\ rotating'.pc = "switch" /\ rotating'.at = k /\ rotating'.todo = rotating.todo /\ rotating' \in Runs
  BY <1>1, <1>2, GoesTo DEF Grant, Pcs
<1>4. /\ grants' \in [Creds -> SUBSET (Nat \ {0})]
      /\ \A d \in Creds : grants'[d] = IF d = k THEN grants[k] \cup {cur[k]} ELSE grants[d]
  BY <1>2, <1>3, SentTyped
<1>5. TypeOK'
  BY <1>3, <1>4, Typed, TypedNext
<1>6. NoForgottenKey' /\ ValuesFresh'
  BY <1>3 DEF IInv, NoForgottenKey, ValuesFresh
<1>7. RunKind' /\ RunKnows'
  BY <1>1, <1>2, <1>3, <1>4 DEF IInv, RunKind, RunKnows, Generating, Rotated
<1>. QED
  BY <1>5, <1>6, <1>7 DEF IInv

(* The steps that change nothing but the run.                              *)
OnlyRun == UNCHANGED <<cur, prev, holds, grants, env, made, stops>>

LEMMA OnlyRunKeeps ==
    ASSUME IInv, OnlyRun, rotating' \in Runs, RunKind', RunKnows'
    PROVE  IInv'
<1>1. TypeOK'
  BY Typed, TypedNext DEF OnlyRun
<1>2. NoForgottenKey' /\ ValuesFresh'
  BY DEF OnlyRun, IInv, NoForgottenKey, ValuesFresh
<1>. QED
  BY <1>1, <1>2 DEF IInv

LEMMA GatesKeep ==
    ASSUME IInv, SwitchGate \/ Prove
    PROVE  IInv'
<1>1. OnlyRun
  BY DEF SwitchGate, Prove, OnlyRun
<1>2. CASE rotating' = Idle
  BY <1>1, <1>2, Ends, OnlyRunKeeps
<1>3. CASE SwitchGate /\ To("prove")
  <2>1. rotating.pc = "switch" /\ rotating.at \in Keys /\ \A u \in AppSites : env[rotating.at][u] = cur[rotating.at]
    BY <1>3 DEF SwitchGate, At, IInv, RunKnows
  <2>2. rotating'.pc = "prove" /\ rotating'.at = rotating.at /\ rotating' \in Runs /\ rotating.at \in Creds
    BY <1>3, <2>1, GoesTo, Active DEF Pcs
  <2>3. RunKind' /\ RunKnows'
    BY <1>1, <2>1, <2>2 DEF OnlyRun, RunKind, RunKnows, Generating, Rotated
  <2>. QED
    BY <1>1, <2>2, <2>3, OnlyRunKeeps
<1>4. CASE Prove /\ To("delete") /\ cur[rotating.at] \in grants[rotating.at]
  <2>1. rotating.pc = "prove" /\ rotating.at \in Keys /\ \A u \in AppSites : env[rotating.at][u] = cur[rotating.at]
    BY <1>4 DEF Prove, At, IInv, RunKind, RunKnows, Rotated
  <2>2. rotating'.pc = "delete" /\ rotating'.at = rotating.at /\ rotating' \in Runs /\ rotating.at \in Creds
    BY <1>4, <2>1, GoesTo, Active DEF Pcs
  <2>3. RunKind' /\ RunKnows'
    BY <1>1, <1>4, <2>1, <2>2 DEF OnlyRun, RunKind, RunKnows, Generating, Rotated
  <2>. QED
    BY <1>1, <2>2, <2>3, OnlyRunKeeps
<1>. QED
  BY <1>2, <1>3, <1>4 DEF SwitchGate, Prove

(* What the issuer gives up leaves its other values.                       *)
LEMMA LessTyped ==
    ASSUME IInv, NEW c \in Creds, NEW v, NEW S,
           S = holds \/ S = grants
    PROVE  /\ [S EXCEPT ![c] = @ \ {v}] \in [Creds -> SUBSET (Nat \ {0})]
           /\ \A d \in Creds : [S EXCEPT ![c] = @ \ {v}][d] = IF d = c THEN S[c] \ {v} ELSE S[d]
<1>1. S \in [Creds -> SUBSET (Nat \ {0})]
  BY Typed
<1>2. S[c] \ {v} \in SUBSET (Nat \ {0})
  BY <1>1
<1>. QED
  BY <1>1, <1>2

LEMMA DeleteKeyKeeps ==
    ASSUME IInv, DeleteKey
    PROVE  IInv'
<1>1. rotating.pc = "delete"
  BY DEF DeleteKey, At
<1>2. PICK k \in Keys : k = rotating.at /\ k \in Creds
  BY <1>1, Active DEF IInv, RunKind, Rotated
<1>3. /\ holds' = [holds EXCEPT ![k] = @ \ {prev[k]}] /\ grants' = [grants EXCEPT ![k] = @ \ {prev[k]}]
      /\ UNCHANGED <<cur, prev, env, made, stops>>
      /\ rotating'.pc = "unpair" /\ rotating'.at = k /\ rotating' \in Runs
  BY <1>1, <1>2, GoesTo DEF DeleteKey, OldKey, Pcs
<1>4. /\ holds' \in [Creds -> SUBSET (Nat \ {0})] /\ grants' \in [Creds -> SUBSET (Nat \ {0})]
      /\ \A d \in Creds : holds'[d] = IF d = k THEN holds[k] \ {prev[k]} ELSE holds[d]
      /\ \A d \in Creds : grants'[d] = IF d = k THEN grants[k] \ {prev[k]} ELSE grants[d]
  BY <1>2, <1>3, LessTyped
<1>5. TypeOK'
  BY <1>3, <1>4, Typed, TypedNext
<1>6. NoForgottenKey' /\ ValuesFresh'
  BY <1>3, <1>4, KeyIsOne DEF IInv, NoForgottenKey, ValuesFresh
<1>7. RunKind' /\ RunKnows'
  <2>0. prev[k] < cur[k] /\ prev[k] \in Nat /\ cur[k] \in Nat
    BY <1>2, Typed DEF IInv, ValuesFresh
  <2>1. cur[k] \in grants[k] /\ prev[k] # cur[k] /\ \A u \in AppSites : env[k][u] = cur[k]
    BY <1>1, <1>2, <2>0 DEF IInv, RunKnows, Rotated
  <2>2. cur'[k] \in grants'[k] /\ prev'[k] \notin holds'[k] /\ \A u \in AppSites : env'[k][u] = cur'[k]
    BY <1>2, <1>3, <1>4, <2>1
  <2>. QED
    BY <1>2, <1>3, <2>2 DEF RunKind, RunKnows, Generating, Rotated
<1>. QED
  BY <1>5, <1>6, <1>7 DEF IInv

LEMMA UnpairKeeps ==
    ASSUME IInv, Unpair
    PROVE  IInv'
<1>1. rotating.pc = "unpair"
  BY DEF Unpair, At
<1>2. PICK k \in Keys : k = rotating.at /\ k \in Creds
  BY <1>1, Active DEF IInv, RunKind, Rotated
<1>3. /\ prev' = [prev EXCEPT ![k] = 0] /\ rotating' = Idle
      /\ UNCHANGED <<cur, holds, grants, env, made, stops>>
      /\ prev[k] \notin holds[k]
  BY <1>1, <1>2 DEF Unpair, IInv, RunKnows
<1>4. \A c \in Creds : prev'[c] = IF c = k THEN 0 ELSE prev[c]
  BY <1>2, <1>3, Typed
<1>5. TypeOK'
  <2>1. prev' \in [Creds -> Nat]
    BY <1>3, Typed
  <2>. QED
    BY <1>3, <2>1, Ends, Typed, TypedNext
<1>6. NoForgottenKey'
  BY <1>3, <1>4, KeyIsOne DEF IInv, NoForgottenKey
<1>7. ValuesFresh'
  BY <1>3, <1>4, Typed DEF IInv, ValuesFresh
<1>. QED
  BY <1>3, <1>5, <1>6, <1>7, Ends DEF IInv

-----------------------------------------------------------------------------
(* The rotation of a client.                                               *)

LEMMA PlanClientKeeps ==
    ASSUME IInv, NEW c \in Clients, PlanClient(c)
    PROVE  IInv'
<1>1. /\ OnlyRun /\ c \in Creds
      /\ rotating' = [pc |-> "record", at |-> c, todo |-> AppSites]
  BY ClientIsOne DEF PlanClient, OnlyRun
<1>2. rotating' \in Runs
  BY <1>1 DEF Runs, Pcs
<1>3. RunKind' /\ RunKnows'
  BY <1>1 DEF RunKind, RunKnows, Generating, Rotated
<1>. QED
  BY <1>1, <1>2, <1>3, OnlyRunKeeps

LEMMA RecordKeeps ==
    ASSUME ConstantsHold, IInv, Record
    PROVE  IInv'
<1>1. rotating.pc = "record"
  BY DEF Record, At
<1>2. PICK c \in Clients : c = rotating.at /\ c \in Creds /\ c \notin Keys /\ rotating.todo = AppSites
  BY <1>1, Active DEF IInv, RunKind, RunKnows, Generating, ConstantsHold
<1>3. /\ made' = [made EXCEPT ![c] = made[c] + 1] /\ cur' = [cur EXCEPT ![c] = made'[c]]
      /\ UNCHANGED <<prev, holds, grants, env, stops>>
      /\ rotating'.pc = "send" /\ rotating'.at = c /\ rotating'.todo = AppSites /\ rotating' \in Runs
  BY <1>1, <1>2, GoesTo DEF Record, Pcs
<1>4. /\ made'[c] = made[c] + 1 /\ cur'[c] = made[c] + 1 /\ made[c] \in Nat \ {0}
      /\ \A d \in Creds : d # c => made'[d] = made[d] /\ cur'[d] = cur[d]
  BY <1>2, <1>3, Typed
<1>5. TypeOK'
  <2>1. made[c] + 1 \in Nat \ {0}
    BY <1>4
  <2>2. made' \in [Creds -> Nat \ {0}] /\ cur' \in [Creds -> Nat \ {0}]
    BY <1>3, <1>4, <2>1, Typed
  <2>. QED
    BY <1>3, <2>2, Typed, TypedNext
<1>6. NoForgottenKey'
  BY <1>2, <1>3, <1>4, KeyIsOne DEF IInv, NoForgottenKey
<1>7. ValuesFresh'
  <2>1. ASSUME NEW d \in Creds PROVE cur'[d] <= made'[d] /\ prev'[d] < cur'[d]
    <3>1. /\ cur[d] <= made[d] /\ prev[d] < cur[d] /\ prev'[d] = prev[d]
          /\ cur[d] \in Nat /\ made[d] \in Nat /\ prev[d] \in Nat
      BY <1>3, Typed DEF IInv, ValuesFresh
    <3>. QED
      BY <1>4, <3>1
  <2>. QED
    BY <2>1 DEF ValuesFresh
<1>8. RunKind' /\ RunKnows'
  BY <1>2, <1>3 DEF RunKind, RunKnows, Generating, Rotated
<1>. QED
  BY <1>5, <1>6, <1>7, <1>8 DEF IInv

(* The issuer is sent the value recorded, beside those it holds.           *)
LEMMA SentKeeps ==
    ASSUME IInv, NEW c \in Creds, Sent(c), UNCHANGED <<cur, prev, env, made, stops>>,
           rotating' \in Runs
    PROVE  /\ TypeOK' /\ NoForgottenKey' /\ ValuesFresh'
           /\ cur'[c] \in holds'[c] /\ cur'[c] \in grants'[c]
<1>1. /\ holds' \in [Creds -> SUBSET (Nat \ {0})] /\ grants' \in [Creds -> SUBSET (Nat \ {0})]
      /\ \A d \in Creds : holds'[d] = IF d = c THEN holds[c] \cup {cur[c]} ELSE holds[d]
      /\ \A d \in Creds : grants'[d] = IF d = c THEN grants[c] \cup {cur[c]} ELSE grants[d]
  BY SentTyped DEF Sent
<1>2. TypeOK'
  BY <1>1, Typed, TypedNext
<1>3. NoForgottenKey' /\ ValuesFresh'
  BY <1>1, KeyIsOne DEF IInv, NoForgottenKey, ValuesFresh
<1>. QED
  BY <1>1, <1>2, <1>3

LEMMA SendKeeps ==
    ASSUME IInv, Send
    PROVE  IInv'
<1>1. rotating.pc = "send"
  BY DEF Send, At
<1>2. PICK c \in Clients : c = rotating.at /\ c \in Creds
  BY <1>1, Active DEF IInv, RunKind
<1>3. /\ Sent(c) /\ UNCHANGED <<cur, prev, env, made, stops>>
      /\ rotating'.pc = "switch" /\ rotating'.at = c /\ rotating'.todo = rotating.todo /\ rotating' \in Runs
  BY <1>1, <1>2, GoesTo DEF Send, Pcs
<1>4. /\ TypeOK' /\ NoForgottenKey' /\ ValuesFresh'
      /\ cur'[c] \in holds'[c] /\ cur'[c] \in grants'[c]
  BY <1>2, <1>3, SentKeeps
<1>5. RunKind' /\ RunKnows'
  BY <1>1, <1>2, <1>3, <1>4 DEF IInv, RunKind, RunKnows, Generating, Rotated
<1>. QED
  BY <1>4, <1>5 DEF IInv

LEMMA RetireKeeps ==
    ASSUME IInv, Retire
    PROVE  IInv'
<1>1. /\ rotating.pc = "switch" /\ rotating.at \in Clients /\ rotating.at \in Creds
      /\ UNCHANGED <<cur, prev, env, made, stops>>
  BY ClientIsOne DEF Retire, At
<1>2. CASE rotating' = Idle /\ UNCHANGED <<holds, grants>>
  BY <1>1, <1>2, Ends, OnlyRunKeeps DEF OnlyRun
<1>3. ASSUME NEW v \in Old(rotating.at), rotating' = rotating,
             holds' = [holds EXCEPT ![rotating.at] = @ \ {v}],
             grants' = [grants EXCEPT ![rotating.at] = @ \ {v}]
      PROVE  IInv'
  <2>1. PICK c \in Clients : c = rotating.at /\ c \in Creds
    BY <1>1
  <2>2. /\ holds' \in [Creds -> SUBSET (Nat \ {0})] /\ grants' \in [Creds -> SUBSET (Nat \ {0})]
        /\ \A d \in Creds : holds'[d] = IF d = c THEN holds[c] \ {v} ELSE holds[d]
        /\ \A d \in Creds : grants'[d] = IF d = c THEN grants[c] \ {v} ELSE grants[d]
    BY <1>3, <2>1, LessTyped
  <2>3. TypeOK'
    BY <1>1, <1>3, <2>2, Typed, TypedNext
  <2>4. NoForgottenKey' /\ ValuesFresh'
    BY <1>1, <2>2, KeyIsOne DEF IInv, NoForgottenKey, ValuesFresh
  <2>5. v # cur[c]
    BY <2>1 DEF Old
  <2>6. RunKind' /\ RunKnows'
    BY <1>1, <1>3, <2>1, <2>2, <2>5 DEF IInv, RunKind, RunKnows, Generating, Rotated
  <2>. QED
    BY <2>3, <2>4, <2>6 DEF IInv
<1>. QED
  BY <1>2, <1>3 DEF Retire

-----------------------------------------------------------------------------
(* Applies, and what else happens.                                         *)

(* An app applied on a site runs there with every recorded value.          *)
LEMMA RenderedTyped ==
    ASSUME IInv, NEW u \in AppSites
    PROVE  /\ Rendered(u) \in [Creds -> [AppSites -> Nat \ {0}]]
           /\ \A c \in Creds, x \in AppSites :
                  Rendered(u)[c][x] = IF x = u THEN cur[c] ELSE env[c][x]
BY Typed DEF Rendered

LEMMA AppliedKeeps ==
    ASSUME IInv, NEW u \in AppSites, env' = Rendered(u), rotating' \in Runs,
           UNCHANGED <<cur, prev, holds, grants, made, stops>>
    PROVE  TypeOK' /\ NoForgottenKey' /\ ValuesFresh'
<1>1. TypeOK'
  BY RenderedTyped, Typed, TypedNext
<1>. QED
  BY <1>1 DEF IInv, NoForgottenKey, ValuesFresh

LEMMA SwitchSiteKeeps ==
    ASSUME IInv, NEW u \in AppSites, SwitchSite(u)
    PROVE  IInv'
<1>1. rotating.pc = "switch" /\ rotating \in Runs /\ rotating.at \in Creds
  BY Active DEF SwitchSite, At
<1>2. /\ env' = Rendered(u) /\ UNCHANGED <<cur, prev, holds, grants, made, stops>>
      /\ rotating' \in Runs /\ rotating'.pc = "switch" /\ rotating'.at = rotating.at /\ rotating'.todo = rotating.todo \ {u}
  BY <1>1 DEF SwitchSite, Runs
<1>3. \A x \in AppSites \ rotating'.todo : env'[rotating.at][x] = cur[rotating.at]
  BY <1>1, <1>2, RenderedTyped DEF IInv, RunKnows
<1>4. RunKind'
  BY <1>1, <1>2 DEF IInv, RunKind, Rotated
<1>5. RunKnows'
  BY <1>1, <1>2, <1>3 DEF IInv, RunKnows, Generating, Rotated
<1>. QED
  BY <1>2, <1>4, <1>5, AppliedKeeps DEF IInv

LEMMA ApplyKeeps ==
    ASSUME IInv, NEW u \in AppSites, Apply(u)
    PROVE  IInv'
<1>1. /\ env' = Rendered(u) /\ rotating' = Idle
      /\ UNCHANGED <<cur, prev, holds, grants, made, stops>>
  BY DEF Apply
<1>. QED
  BY <1>1, AppliedKeeps, Ends DEF IInv

LEMMA CommandKeeps ==
    ASSUME IInv, NEW c \in Creds, Sent(c), UNCHANGED <<cur, prev, env, made, stops>>, rotating' = Idle
    PROVE  IInv'
BY SentKeeps, Ends DEF IInv

LEMMA StopKeeps ==
    ASSUME ConstantsHold, IInv, Stop
    PROVE  IInv'
<1>1. rotating' = Idle /\ UNCHANGED <<cur, prev, holds, grants, env, made>> /\ stops' \in 0..MaxStops
  BY Typed DEF Stop, ConstantsHold
<1>2. TypeOK'
  BY <1>1, Ends, Typed, TypedNext
<1>. QED
  BY <1>1, <1>2, Ends DEF IInv, NoForgottenKey, ValuesFresh

LEMMA InitHolds ==
    ASSUME ConstantsHold, Init
    PROVE  IInv
<1>1. TypeOK
  BY IdleIsOne DEF Init, TypeOK, ConstantsHold, Runs, Pcs
<1>2. NoForgottenKey
  BY KeyIsOne DEF Init, NoForgottenKey
<1>3. ValuesFresh
  BY DEF Init, ValuesFresh
<1>4. RunKind /\ RunKnows
  BY DEF Init, Idle, RunKind, RunKnows, Generating, Rotated
<1>. QED
  BY <1>1, <1>2, <1>3, <1>4 DEF IInv

LEMMA NextKeeps ==
    ASSUME ConstantsHold, IInv, [Next]_vars
    PROVE  IInv'
<1>1. CASE UNCHANGED vars
  BY <1>1 DEF vars, credentials, IInv, TypeOK, NoForgottenKey, ValuesFresh, RunKind, RunKnows
<1>2. ASSUME NEW k \in Keys, PlanKey(k) \/ StorageInit(k) PROVE IInv'
  BY <1>2, PlanKeyKeeps, CommandKeeps, KeyIsOne DEF StorageInit
<1>3. ASSUME NEW c \in Clients, PlanClient(c) \/ ClientCreate(c) PROVE IInv'
  BY <1>3, PlanClientKeeps, CommandKeeps, ClientIsOne DEF ClientCreate
<1>4. ASSUME NEW u \in AppSites, Apply(u) \/ SwitchSite(u) PROVE IInv'
  BY <1>4, ApplyKeeps, SwitchSiteKeeps
<1>5. CASE KeyStep
  BY <1>5, WritePairKeeps, ImportKeeps, GrantKeeps, GatesKeep, DeleteKeyKeeps, UnpairKeeps
     DEF KeyStep
<1>6. CASE ClientStep
  BY <1>6, RecordKeeps, SendKeeps, RetireKeeps DEF ClientStep
<1>7. CASE Stop
  BY <1>7, StopKeeps
<1>. QED
  BY <1>1, <1>2, <1>3, <1>4, <1>5, <1>6, <1>7 DEF Next, RunStep

-----------------------------------------------------------------------------
(* What every behaviour keeps.                                             *)

THEOREM Invariance == ASSUME ConstantsHold PROVE Spec => []IInv
<1>1. Init => IInv
  BY InitHolds
<1>2. IInv /\ [Next]_vars => IInv'
  BY NextKeeps
<1>. QED
  BY <1>1, <1>2, PTL DEF Spec

(* Every variable keeps its type.                                          *)
THEOREM TypeCorrect == ASSUME ConstantsHold PROVE Spec => []TypeOK
<1>1. IInv => TypeOK
  BY DEF IInv
<1>. QED
  BY <1>1, Invariance, PTL

(* Garage never holds a key of the app's that the secrets file no longer   *)
(* names, wherever runs stop and whatever is repaired between them.        *)
THEOREM KeysNamed == ASSUME ConstantsHold PROVE Spec => []NoForgottenKey
<1>1. IInv => NoForgottenKey
  BY DEF IInv
<1>. QED
  BY <1>1, Invariance, PTL

(* A rotation's step takes nothing away that the app gets in with: it      *)
(* starts the app only with a value the issuer lets in, and retires only   *)
(* values that no site runs with by then.                                  *)
THEOREM RotationsKeepWorking == ASSUME ConstantsHold PROVE Spec => OwnStepsKeepWorking
<1>1. ASSUME ConstantsHold, IInv, [Next]_vars, NEW c \in Creds, NEW u \in AppSites,
             rotating.at = c, Works(c, u)
      PROVE  Works(c, u)'
  <2>1. rotating.at # None /\ rotating # Idle
    BY <1>1 DEF ConstantsHold, Idle
  <2>2. CASE env' = env /\ grants' = grants
    BY <1>1, <2>2 DEF Works
  <2>3. CASE Grant
    <3>1. grants' = [grants EXCEPT ![c] = @ \cup {cur[c]}] /\ env' = env
      BY <1>1, <2>3 DEF Grant
    <3>. QED
      BY <1>1, <3>1, Typed DEF Works
  <2>4. CASE Send
    <3>1. grants' = [grants EXCEPT ![c] = @ \cup {cur[c]}] /\ env' = env
      BY <1>1, <2>4 DEF Send, Sent
    <3>. QED
      BY <1>1, <3>1, Typed DEF Works
  <2>5. ASSUME NEW x \in AppSites, SwitchSite(x) PROVE Works(c, u)'
    <3>1. cur[c] \in grants[c] /\ env' = Rendered(x) /\ grants' = grants
      BY <1>1, <2>5 DEF SwitchSite, At, IInv, RunKnows
    <3>. QED
      BY <1>1, <3>1, RenderedTyped DEF Works
  <2>6. CASE DeleteKey
    <3>1. /\ cur[c] \in grants[c] /\ env[c][u] = cur[c] /\ env' = env
          /\ grants' = [grants EXCEPT ![c] = @ \ {prev[c]}]
      BY <1>1, <2>6 DEF DeleteKey, OldKey, At, IInv, RunKnows, Rotated
    <3>2. prev[c] < cur[c] /\ prev[c] \in Nat /\ cur[c] \in Nat
      BY <1>1, Typed DEF IInv, ValuesFresh
    <3>. QED
      BY <1>1, <3>1, <3>2, Typed DEF Works
  <2>7. CASE Retire
    <3>1. /\ cur[c] \in grants[c] /\ env[c][u] = cur[c] /\ env' = env
      BY <1>1, <2>7 DEF Retire, AllSwitched, At, IInv, RunKnows
    <3>2. grants' = grants \/ \E v \in Old(c) : grants' = [grants EXCEPT ![c] = @ \ {v}]
      BY <1>1, <2>7 DEF Retire
    <3>. QED
      BY <1>1, <3>1, <3>2, Typed DEF Works, Old
  <2>8. CASE KeyStep
    <3>1. CASE WritePair \/ Import \/ SwitchGate \/ Prove \/ Unpair
      BY <2>2, <3>1 DEF WritePair, Import, SwitchGate, Prove, Unpair
    <3>. QED
      BY <2>3, <2>6, <2>8, <3>1 DEF KeyStep
  <2>9. CASE ClientStep
    <3>1. CASE Record
      BY <2>2, <3>1 DEF Record
    <3>. QED
      BY <2>4, <2>7, <2>9, <3>1 DEF ClientStep
  <2>10. CASE Stop \/ UNCHANGED vars
    BY <2>2, <2>10 DEF Stop, vars, credentials
  <2>11. ASSUME NEW x \in Creds, PlanKey(x) \/ StorageInit(x) \/ PlanClient(x) \/ ClientCreate(x)
         PROVE  FALSE
    BY <2>1, <2>11 DEF PlanKey, StorageInit, PlanClient, ClientCreate
  <2>12. ASSUME NEW x \in AppSites, Apply(x) PROVE FALSE
    BY <2>1, <2>12 DEF Apply
  <2>. QED
    BY <1>1, <2>5, <2>8, <2>9, <2>10, <2>11, <2>12, KeyIsOne, ClientIsOne DEF Next, RunStep
<1>2. ConstantsHold /\ IInv /\ [Next]_vars
          => [\A c \in Creds, u \in AppSites :
                 rotating.at = c /\ Works(c, u) => Works(c, u)']_credentials
  BY <1>1
<1>. QED
  BY <1>2, Invariance, PTL DEF Spec, OwnStepsKeepWorking

(* A client rotated to the end has one secret at Pocket ID, the one every  *)
(* site runs with, however many the runs that stopped before it had added. *)
THEOREM OldSecretsAreGone == ASSUME ConstantsHold PROVE Spec => OldSecretsGone
<1>1. ASSUME ConstantsHold, IInv, [Next]_vars, NEW c \in Clients,
             rotating.pc = "switch", rotating.at = c, rotating'.pc = "idle", stops' = stops
      PROVE  holds'[c] = {cur[c]} /\ \A u \in AppSites : env[c][u] = cur[c]
  <2>1. rotating # Idle /\ c \notin Keys /\ stops + 1 # stops
    BY <1>1, Typed DEF Idle, ConstantsHold
  <2>2. Retire
    <3>1. CASE WritePair \/ Import \/ Grant \/ SwitchGate \/ Prove \/ DeleteKey \/ Unpair
      BY <1>1, <2>1, <3>1 DEF WritePair, Import, Grant, SwitchGate, Prove, DeleteKey, Unpair, At
    <3>2. CASE Record \/ Send
      BY <1>1, <3>2 DEF Record, Send, At
    <3>3. ASSUME NEW u \in AppSites, SwitchSite(u) PROVE FALSE
      BY <1>1, <3>3, Typed DEF SwitchSite, Runs
    <3>4. CASE Stop \/ UNCHANGED vars
      BY <1>1, <2>1, <3>4 DEF Stop, vars, credentials
    <3>5. ASSUME NEW x \in Creds, PlanKey(x) \/ StorageInit(x) \/ PlanClient(x) \/ ClientCreate(x)
          PROVE  FALSE
      BY <2>1, <3>5 DEF PlanKey, StorageInit, PlanClient, ClientCreate
    <3>6. ASSUME NEW u \in AppSites, Apply(u) PROVE FALSE
      BY <2>1, <3>6 DEF Apply
    <3>. QED
      BY <1>1, <3>1, <3>2, <3>3, <3>4, <3>5, <3>6, KeyIsOne, ClientIsOne
         DEF Next, RunStep, KeyStep, ClientStep
  <2>3. cur[c] \in holds[c] /\ \A u \in AppSites : env[c][u] = cur[c]
    BY <1>1, <2>2 DEF Retire, AllSwitched, IInv, RunKnows
  <2>4. Old(c) = {} /\ holds' = holds
    BY <1>1, <2>1, <2>2, <2>3 DEF Retire
  <2>. QED
    BY <2>3, <2>4 DEF Old
<1>2. ConstantsHold /\ IInv /\ [Next]_vars
          => [\A c \in Clients :
                 rotating.pc = "switch" /\ rotating.at = c /\ rotating'.pc = "idle" /\ stops' = stops
                    => holds'[c] = {cur[c]} /\ \A u \in AppSites : env[c][u] = cur[c]]_credentials
  BY <1>1
<1>. QED
  BY <1>2, Invariance, PTL DEF Spec, OldSecretsGone

=============================================================================
