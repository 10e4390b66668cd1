------------------------------ MODULE HostKeys ------------------------------
(***************************************************************************)
(* The login user's authorized_keys on a host that several deployments     *)
(* share: host prepare makes the keys each one lists authorized, and takes *)
(* away what it wrote itself once no deployment claims it.                 *)
(*                                                                         *)
(*   internal/hostprep/authorized_keys.go   the plan and its commands      *)
(*   internal/hostprep/hostprep.go          Execute                        *)
(*   internal/hostprep/allow.go, cmd/paisans/hostallow.go                  *)
(*                                          the owner's list of keys       *)
(*   internal/siteremove/host.go            the claims a removal deletes   *)
(*                                                                         *)
(* host prepare reads the files one after another and then runs its steps, *)
(* each one command under the host's lock.  One run of a deployment is     *)
(* under way at a time; runs of different deployments are interleaved with *)
(* each other and with what the host's owner does.  Left out: the names of *)
(* keys, and a command that stops half way.                                *)
(***************************************************************************)
EXTENDS HostState, Naturals

CONSTANTS
    NKeys,         \* the public keys are 1..NKeys, in the order of fingerprints
    Found,         \* the keys the owner authorized before, by plain lines
    Restricted,    \* those the owner authorized with options
    ByHand,        \* the keys whose lines the owner may delete by hand
    Leaving,       \* the deployments whose site may be removed
    Lists,         \* what ssh.keys may list
    MaxEdits,      \* bound: edits of ssh.keys, of the list, by hand; sites removed
    MaxStops       \* bound: runs that are interrupted

Keys == 1..NKeys

ConstantsHold ==
    /\ NKeys \in Nat /\ MaxEdits \in Nat /\ MaxStops \in Nat
    /\ Found \subseteq Keys /\ Restricted \subseteq Keys /\ Found \cap Restricted = {}
    /\ Lists \subseteq (SUBSET Keys) \ {{}} /\ Lists # {}
    /\ Leaving \subseteq Deployments /\ ByHand \subseteq Keys
    /\ Owner \notin Deployments /\ \A set \in SUBSET Keys : set # NoList

VARIABLES
    listed,    \* ssh.keys of each deployment
    owner,     \* the owner's run of host allow or host disallow
    edits, stops

vars == <<lines, sidecar, allow, listed, preparing, owner, edits, stops>>

Line(k, by) == [key |-> k, by |-> by]

NoClaims == [k \in Keys |-> "no"]
NothingToDo == [k \in Keys |-> "none"]

(* A run: the keys it is to authorize, the lines it saw, what is left to   *)
(* do about each key, and the claims the step about it writes.             *)
Idle == [pc |-> "idle", want |-> {}, saw |-> {}, op |-> NothingToDo,
         writes |-> [k \in Keys |-> NoClaims]]
NotWriting == [pc |-> "idle", was |-> NoList, next |-> NoList]

Init ==
    /\ lines = {Line(k, Owner) : k \in Found}
    /\ sidecar = [d \in Deployments |-> NoClaims]
    /\ allow = NoList
    /\ listed \in [Deployments -> Lists]
    /\ preparing = [d \in Deployments |-> Idle]
    /\ owner = NotWriting
    /\ edits = 0 /\ stops = 0

Authorized(k) == k \in Restricted \/ \E l \in lines : l.key = k
Claimed == {k \in Keys : \E d \in Deployments : sidecar[d][k] # "no"}

-----------------------------------------------------------------------------
(* The plan.                                                               *)

(* The plain lines of a key that the run saw.                              *)
Seen(d, k) == {l \in preparing[d].saw : l.key = k}

(* Mutant: a key that is recorded is not looked for. *)
OpOnce(d, k) ==
    LET wanted == k \in preparing[d].want
        there  == Seen(d, k) # {}
        mine   == sidecar[d][k] # "no"
        held   == sidecar[d][k] = "shared" \/ ClaimedBy(d, k)
        absent == ~there /\ ~mine /\ k \notin Restricted
    IN CASE wanted /\ there /\ ~mine /\ ClaimedBy(d, k) -> "share"
         [] wanted /\ absent /\ Allowed(k)    -> "add"
         [] wanted /\ absent /\ ~Allowed(k)   -> "refused"
         [] ~wanted /\ mine /\ ~there         -> "forget"
         [] ~wanted /\ mine /\ there /\ held  -> "release"
         [] ~wanted /\ mine /\ there /\ ~held -> "remove"
         [] OTHER -> "none"

(* What planAuthorizedKeys makes of one key.                               *)
Op(d, k) ==
    LET wanted == k \in preparing[d].want
        there  == Seen(d, k) # {}
        mine   == sidecar[d][k] # "no"
        held   == sidecar[d][k] = "shared" \/ ClaimedBy(d, k)
        absent == ~there /\ k \notin Restricted
    IN CASE wanted /\ there /\ ~mine /\ ClaimedBy(d, k) -> "share"
         [] wanted /\ absent /\ Allowed(k)    -> "add"
         [] wanted /\ absent /\ ~Allowed(k)   -> "refused"
         [] ~wanted /\ mine /\ ~there         -> "forget"
         [] ~wanted /\ mine /\ there /\ held  -> "release"
         [] ~wanted /\ mine /\ there /\ ~held -> "remove"
         [] OTHER -> "none"

(* Mutant: a listed key that is there is recorded too. *)
WritesListed(d, k) ==
    [j \in Keys |-> IF j \in preparing[d].want THEN "added"
                   ELSE IF k \notin preparing[d].want /\ j <= k THEN "no" ELSE sidecar[d][j]]

(* The claims a step writes: the plan's, as they were when it came to k.   *)
(* It goes through the listed keys first, then through its own claims.     *)
Writes(d, k) ==
    [j \in Keys |->
        CASE j \in preparing[d].want /\ Op(d, j) = "add" /\ (j <= k \/ k \notin preparing[d].want) -> "added"
          [] j \in preparing[d].want /\ Op(d, j) = "share" /\ (j <= k \/ k \notin preparing[d].want) -> "shared"
          [] j \notin preparing[d].want /\ k \notin preparing[d].want /\ j <= k -> "no"
          [] OTHER -> sidecar[d][j]]

Over(r) == \A k \in Keys : r.op[k] = "none"

(* authorized_keys is read first, *)
Start(d) ==
    /\ preparing[d].pc = "idle"
    /\ preparing' = [preparing EXCEPT ![d] = [Idle EXCEPT !.pc = "claims", !.want = listed[d], !.saw = lines]]
    /\ UNCHANGED <<lines, sidecar, allow, listed, owner, edits, stops>>

(* and then the list and every sidecar.  A key that is refused stops the   *)
(* run before its first step.                                              *)
ReadClaims(d) ==
    /\ preparing[d].pc = "claims"
    /\ LET r == [preparing[d] EXCEPT !.pc = "steps", !.op = [k \in Keys |-> Op(d, k)],
                               !.writes = [k \in Keys |-> Writes(d, k)]]
       IN preparing' = [preparing EXCEPT ![d] = IF Over(r) \/ \E k \in Keys : r.op[k] = "refused"
                                    THEN Idle ELSE r]
    /\ UNCHANGED <<lines, sidecar, allow, listed, owner, edits, stops>>

-----------------------------------------------------------------------------
(* The steps, each one command under the lock: keys are added and shared   *)
(* first, and lines are taken away last.                                   *)
Rank(op) == CASE op \in {"add", "share"}      -> 1
              [] op \in {"forget", "release"} -> 2
              [] op = "remove"                -> 3
              [] OTHER                        -> 4

Turn(d, k) ==
    /\ preparing[d].pc = "steps" /\ preparing[d].op[k] # "none"
    /\ \A j \in Keys :
          \/ Rank(preparing[d].op[k]) < Rank(preparing[d].op[j])
          \/ Rank(preparing[d].op[k]) = Rank(preparing[d].op[j]) /\ k <= j

Done(d, k) ==
    LET r == [preparing[d] EXCEPT !.op[k] = "none"]
    IN preparing' = [preparing EXCEPT ![d] = IF Over(r) THEN Idle ELSE r]

(* The sidecar is written whole.                                           *)
Record(d, claims) == sidecar' = [sidecar EXCEPT ![d] = claims]

Fails(d) == preparing' = [preparing EXCEPT ![d] = Idle] /\ UNCHANGED <<lines, sidecar>>

(* Mutant: the list is not looked at again. *)
AnyKey(k) == TRUE

(* allowGuard                                                              *)
Guard(k) == Allowed(k)

(* The key is appended, unless the list has come to refuse it.             *)
Append(d, k) ==
    IF Guard(k)
    THEN /\ lines' = lines \cup {Line(k, d)}
         /\ Record(d, [preparing[d].writes[k] EXCEPT ![k] = "added"])
         /\ Done(d, k)
    ELSE Fails(d)

Add(d, k) ==
    /\ Turn(d, k) /\ preparing[d].op[k] = "add"
    /\ Append(d, k)
    /\ UNCHANGED <<allow, listed, owner, edits, stops>>

(* A line that has gone since the plan is appended after all.              *)
Share(d, k) ==
    /\ Turn(d, k) /\ preparing[d].op[k] = "share"
    /\ IF Seen(d, k) \cap lines # {}
       THEN Record(d, preparing[d].writes[k]) /\ Done(d, k) /\ UNCHANGED lines
       ELSE Append(d, k)
    /\ UNCHANGED <<allow, listed, owner, edits, stops>>

(* Forgetting and releasing a key only drop the claim.                     *)
Drop(d, k) ==
    /\ Turn(d, k) /\ preparing[d].op[k] \in {"forget", "release"}
    /\ Record(d, preparing[d].writes[k]) /\ Done(d, k)
    /\ UNCHANGED <<lines, allow, listed, owner, edits, stops>>

(* Mutant: the claims are not looked at again. *)
NotAsked(d, k) == FALSE

(* What keeps the line when it is about to go.                             *)
StillClaimed(d, k) == ClaimedBy(d, k)

Remove(d, k) ==
    /\ Turn(d, k) /\ preparing[d].op[k] = "remove"
    /\ lines' = IF StillClaimed(d, k) THEN lines ELSE lines \ Seen(d, k)
    /\ Record(d, preparing[d].writes[k]) /\ Done(d, k)
    /\ UNCHANGED <<allow, listed, owner, edits, stops>>

Stop(d) ==
    /\ preparing[d].pc # "idle" /\ stops < MaxStops
    /\ stops' = stops + 1
    /\ preparing' = [preparing EXCEPT ![d] = Idle]
    /\ UNCHANGED <<lines, sidecar, allow, listed, owner, edits>>

-----------------------------------------------------------------------------
(* What others do.                                                         *)

Edit == edits < MaxEdits /\ edits' = edits + 1

(* site remove deletes the deployment's claims and no key.                 *)
SiteRemove(d) ==
    /\ d \in Leaving /\ preparing[d].pc = "idle" /\ sidecar[d] # NoClaims
    /\ Edit /\ Record(d, NoClaims)
    /\ UNCHANGED <<lines, allow, listed, preparing, owner, stops>>

ListOthers(d, list) ==
    /\ list # listed[d]
    /\ Edit /\ listed' = [listed EXCEPT ![d] = list]
    /\ UNCHANGED <<lines, sidecar, allow, preparing, owner, stops>>

(* The owner deletes the lines of a key by hand, or the list.              *)
Take(k) ==
    /\ \E l \in lines : l.key = k
    /\ Edit /\ lines' = {l \in lines : l.key # k}
    /\ UNCHANGED <<sidecar, allow, listed, preparing, owner, stops>>

Unlist ==
    /\ allow # NoList
    /\ Edit /\ allow' = NoList
    /\ UNCHANGED <<lines, sidecar, listed, preparing, owner, stops>>

(* host allow and host disallow read the list, and the claims when there   *)
(* is none, and ask the owner.                                             *)
ToWrite(next) ==
    /\ owner.pc = "idle" /\ Edit
    /\ owner' = [pc |-> "write", was |-> allow, next |-> next]
    /\ UNCHANGED <<lines, sidecar, allow, listed, preparing, stops>>

HostAllow(k) ==
    LET from == IF allow = NoList THEN Claimed ELSE allow
    IN (k \notin from \/ allow = NoList) /\ ToWrite(from \cup {k})

HostDisallow(k) == allow # NoList /\ Allowed(k) /\ ToWrite(allow \ {k})

(* The list is written only if it is still the one read.                   *)
WriteList ==
    /\ owner.pc = "write"
    /\ allow' = IF allow = owner.was THEN owner.next ELSE allow
    /\ owner' = NotWriting
    /\ UNCHANGED <<lines, sidecar, listed, preparing, edits, stops>>

StepAbout(d, k) == Add(d, k) \/ Share(d, k) \/ Drop(d, k) \/ Remove(d, k)
Step(d) == \E k \in Keys : StepAbout(d, k)

Run(d) == Start(d) \/ ReadClaims(d) \/ Step(d)

Next ==
    \/ \E d \in Deployments :
          \/ Run(d) \/ Stop(d) \/ SiteRemove(d)
          \/ \E list \in Lists : ListOthers(d, list)
    \/ \E k \in Keys : HostAllow(k) \/ HostDisallow(k)
    \/ (\E k \in ByHand : Take(k)) \/ Unlist \/ WriteList

Spec == Init /\ [][Next]_vars

(* Each deployment's operators run host prepare again and again.           *)
Fairness == \A d \in Deployments : WF_vars(Run(d))
FairSpec == Spec /\ Fairness

-----------------------------------------------------------------------------
Marks == {"no", "added", "shared"}
Ops == {"none", "add", "share", "refused", "forget", "release", "remove"}
LinesOf == [key : Keys, by : Deployments \cup {Owner}]
ListsOf == (SUBSET Keys) \cup {NoList}

TypeOK ==
    /\ lines \subseteq LinesOf
    /\ sidecar \in [Deployments -> [Keys -> Marks]]
    /\ allow \in ListsOf
    /\ listed \in [Deployments -> Lists]
    /\ preparing \in [Deployments -> [pc : {"idle", "claims", "steps"}, want : SUBSET Keys,
                                saw : SUBSET LinesOf, op : [Keys -> Ops],
                                writes : [Keys -> [Keys -> Marks]]]]
    /\ owner \in [pc : {"idle", "write"}, was : ListsOf, next : ListsOf]
    /\ edits \in 0..MaxEdits /\ stops \in 0..MaxStops

IsRefused(d) == \E k \in listed[d] : ~Authorized(k) /\ ~Allowed(k)

(* Every deployment's listed keys get in, and stay in, once nobody edits   *)
(* anything, unless one of them is refused: whatever runs of the others    *)
(* took away between this one's plan and its steps (the share that looks   *)
(* again, authorized_keys.go:290).                                         *)
ListedGetIn ==
    <>[](\A d \in Deployments : IsRefused(d) \/ \A k \in listed[d] : Authorized(k))

(* "Each step rewrites the sidecar along with its change, so a stopped run *)
(* resumes" (README.md:5351): on a host of one deployment whose site stays *)
(* every line that host prepare wrote and ssh.keys no longer lists is gone *)
(* in the end.  The code does not hold to it, see the README.              *)
StoppedRunResumes ==
    <>[](\A d \in Deployments :
            IsRefused(d) \/ \A l \in lines : l.by = d => l.key \in listed[d])

(* A listed key is authorized when a run takes away another, "only taken   *)
(* away once every listed key is in place" (authorized_keys.go:171).  The  *)
(* code does not hold to it, see the README.                               *)
TakenLast ==
    [][\A d \in Deployments : preparing[d].pc = "steps" /\ preparing'[d] # preparing[d] /\ lines \ lines' # {}
          => \A k \in preparing[d].want : Authorized(k)]_vars
=============================================================================
