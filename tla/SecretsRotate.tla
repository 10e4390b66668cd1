---------------------------- MODULE SecretsRotate ----------------------------
(***************************************************************************)
(* secrets rotate: the engine that replaces the deployment's secrets.      *)
(*                                                                         *)
(*   internal/secretsrotate/secretsrotate.go  the plan and the four stages *)
(*   internal/secretsrotate/postgres.go       cluster roles and app logins *)
(*   internal/secretsrotate/wrapped.go        secrets pasted by a person   *)
(*   cmd/paisans/secretsrotate.go             the command and its refusals *)
(*                                                                         *)
(* A secret's next value is written to the secrets file, the side that     *)
(* checks it is told, each host that uses it is handed it in turn, and it  *)
(* becomes the file's own value.  A run may stop between any two of these  *)
(* steps; the next run goes on from the file.                              *)
(*                                                                         *)
(* Values are numbers, per secret, in the order they are made.  One        *)
(* operator runs one command at a time.  The order --all takes secrets in  *)
(* is left open, but for pending ones, which go first.  Rotations that are *)
(* commands of their own (Whole) are module WholeRotation's.               *)
(***************************************************************************)
EXTENDS Naturals, FiniteSets

CONSTANTS
    Sites,         \* the deployment's sites
    DataSites,     \* those that run a Patroni, in the infra stack
    Roles,         \* cluster role passwords: Postgres checks them, Patronis use them
    Logins,        \* app database passwords: Postgres checks them, the app uses them
    Inner,         \* secrets an app alone checks
    Pasted,        \* secrets issued elsewhere and given by a person
    AppSites,      \* the sites that run the app using each secret not a role's
    AppOf,         \* that app, whose stack an apply hands a host in one piece
    Synchronous,   \* whether the cluster keeps a Sync Standby
    NamedSets,     \* what a run that is not --all may name
    None,          \* nobody
    MaxValue,      \* bound: values made of each secret
    MaxMishaps     \* bound: interrupts, failovers and failed reads

Generated == Roles \cup Logins \cup Inner
Secrets   == Generated \cup Pasted
Value     == Nat \ {0}
UsersOf(s) == IF s \in Roles THEN DataSites ELSE AppSites[s]
StackOf(s) == IF s \in Roles THEN "infra" ELSE AppOf[s]

ASSUME ConstantsAssumption ==
    /\ DataSites \subseteq Sites /\ None \notin Sites
    /\ None \notin Secrets
    /\ Roles \cap (Logins \cup Inner \cup Pasted) = {}
    /\ Logins \cap (Inner \cup Pasted) = {} /\ Inner \cap Pasted = {}
    /\ \A s \in Secrets \ Roles : AppSites[s] \subseteq Sites /\ AppOf[s] # "infra"
    /\ NamedSets \subseteq SUBSET Secrets
    /\ Synchronous \in BOOLEAN
    /\ MaxValue \in [Secrets -> Nat \ {0}] /\ MaxMishaps \in Nat

VARIABLES
    val,       \* the secrets file: each secret's value
    next,      \* the secrets file: each secret's entry under rotations, 0 for none
    left,      \* the secrets file: the secrets an --all run has left
    held,      \* the value each host's stack runs with, 0 where nothing uses it
    takes,     \* the values the side that checks a secret accepts
    leader,    \* the site whose Patroni leads
    run,       \* the run under way
    made,      \* how many values of each secret were ever made
    began,     \* history: each secret's value when the --all list was made, 0 if not on it
    mishaps    \* mishaps so far

file    == <<val, next, left>>
vars    == <<file, held, takes, leader, run, made, began, mishaps>>

Idle == [pc |-> "idle", all |-> FALSE, todo |-> {}, at |-> None, uses |-> {},
         led |-> None, site |-> None, saw |-> None, asked |-> [s \in Pasted |-> 0]]

Pending == {s \in Secrets : next[s] # 0}

Accepts(s, v) == s \in Inner \/ v \in takes[s]

(* What the file says with s promoted in a copy of it, which is what s's   *)
(* users are rendered with while the file still names the old value.       *)
Shown(s) == [val EXCEPT ![s] = next[s]]

(* Site u's stack, applied with the values of that copy.                   *)
Given(stack, u, values) ==
    [t \in Secrets |-> IF StackOf(t) = stack /\ u \in UsersOf(t)
                       THEN [held[t] EXCEPT ![u] = values[t]] ELSE held[t]]

Mishap == mishaps < MaxMishaps /\ mishaps' = mishaps + 1

(* The leader as a command reads it, or None where it cannot be read.      *)
Read(l) == \/ l = leader /\ UNCHANGED mishaps
           \/ l = None /\ Mishap

-----------------------------------------------------------------------------
Init ==
    /\ val = [s \in Secrets |-> 1]
    /\ next = [s \in Secrets |-> 0]
    /\ left = {}
    /\ held = [s \in Secrets |-> [u \in Sites |-> IF u \in UsersOf(s) THEN 1 ELSE 0]]
    /\ takes = [s \in Secrets |-> IF s \in Inner THEN {} ELSE {1}]
    /\ leader \in DataSites
    /\ run = Idle
    /\ made = [s \in Secrets |-> 1]
    /\ began = [s \in Secrets |-> 0]
    /\ mishaps = 0

-----------------------------------------------------------------------------
(* Planning.                                                               *)

(* Every host using a pasted secret runs the value the file holds, so its  *)
(* next one has to be asked for.                                           *)
Asks(s) == \A u \in UsersOf(s) : held[s][u] = val[s]

(* A value pasted at the terminal: not empty, not the one in use, and      *)
(* accepted where it is checked.                                           *)
Answer(s, v) == v # val[s] /\ Accepts(s, v)

(* What --execute is given for the pasted secrets of a run: the ones set   *)
(* before are checked as they are planned.                                 *)
Answers(new) ==
    {a \in [Pasted -> {0} \cup UNION {takes[s] : s \in Pasted}] : \A s \in Pasted :
        IF s \in new /\ Asks(s) THEN a[s] # 0 /\ Answer(s, a[s]) ELSE a[s] = 0}

(* An --all run that stopped resumes with the secrets it had left.         *)
Resumes(restart) == ~restart /\ left # {}

Targets(all, restart, named) ==
    IF ~all THEN named ELSE IF Resumes(restart) THEN left ELSE Secrets

(* A run is planned and confirmed, its pasted secrets asked for, and the   *)
(* secrets an --all run rotates recorded.                                  *)
Start(all, restart, named) ==
    LET todo == Pending \cup Targets(all, restart, named)
        new  == todo \ Pending
    IN
    /\ run = Idle
    /\ restart => Pending = {}
    /\ \A s \in new \cap Generated : made[s] < MaxValue[s]
    /\ \A s \in new \cap Pasted : Asks(s) \/ Accepts(s, val[s])
    /\ \E a \in Answers(new) :
         run' = [Idle EXCEPT !.pc = "begin", !.all = all, !.todo = todo, !.asked = a]
    /\ left' = IF all THEN todo ELSE left
    /\ IF all /\ (left = {} \/ restart)
       THEN began' = [s \in Secrets |-> IF s \in todo THEN val[s] ELSE 0]
       ELSE UNCHANGED began
    /\ UNCHANGED <<val, next, held, takes, leader, made, mishaps>>

-----------------------------------------------------------------------------
(* Stage 1.  Pending rotations first; their next value is kept.            *)

FirstOf(todo) == IF todo \cap Pending # {} THEN todo \cap Pending ELSE todo

(* Mutant: it is made again unless the run is an --all run. *)
KeptByAll(s) == s \in Pending /\ run.all

(* A value a stopped run left is kept: a host may already run with it.     *)
Kept(s) == s \in Pending

NextValue(s) ==
    IF s \in Generated THEN made[s] + 1
    ELSE IF run.asked[s] # 0 THEN run.asked[s] ELSE val[s]

WriteNext(s) ==
    /\ run.pc = "begin" /\ s \in FirstOf(run.todo)
    /\ IF Kept(s)
       THEN UNCHANGED <<next, made>>
       ELSE /\ next' = [next EXCEPT ![s] = NextValue(s)]
            /\ made' = IF s \in Generated THEN [made EXCEPT ![s] = @ + 1] ELSE made
    /\ run' = [run EXCEPT !.pc = "check", !.at = s]
    /\ UNCHANGED <<val, left, held, takes, leader, began, mishaps>>

-----------------------------------------------------------------------------
(* Stage 2.  The side that checks the secret is told, unless it accepts    *)
(* the next value already: Postgres by ALTER ROLE on the leader.  A pasted *)
(* one it refuses stops the run.                                           *)

(* Mutant: the checking side is left as it is. *)
Untold(s) == takes

Told(s) == IF s \in Roles \cup Logins THEN [takes EXCEPT ![s] = {next[s]}] ELSE takes

Check ==
    LET s == run.at IN
    /\ run.pc = "check"
    /\ takes' = IF Accepts(s, next[s]) THEN takes ELSE Told(s)
    /\ run' = IF s \in Pasted /\ ~Accepts(s, next[s]) THEN Idle
              ELSE [run EXCEPT !.pc = "users"]
    /\ UNCHANGED <<file, held, leader, made, began, mishaps>>

-----------------------------------------------------------------------------
(* Stage 3.  The users are read now rather than as planned: the replicas   *)
(* of a cluster role before the leader.                                    *)

ReadUsers ==
    /\ run.pc = "users"
    /\ \E l \in DataSites \cup {None} :
         /\ IF run.at \in Roles THEN Read(l) ELSE l = None /\ UNCHANGED mishaps
         /\ run' = [run EXCEPT !.pc = "hand", !.uses = UsersOf(run.at), !.led = l]
    /\ UNCHANGED <<file, held, takes, leader, made, began>>

(* Mutant: the sites are taken as the configuration lists them. *)
AnyTurn == run.uses

(* The next of a role's users: the leader, as read, last.                  *)
Turns == IF run.uses \ {run.led} # {} THEN run.uses \ {run.led} ELSE run.uses

(* A user whose stack is applied and becomes healthy.                      *)
Hand(u) ==
    /\ run.pc = "hand" /\ run.at \notin Roles /\ u \in run.uses
    /\ held' = Given(StackOf(run.at), u, Shown(run.at))
    /\ run' = [run EXCEPT !.uses = @ \ {u}]
    /\ UNCHANGED <<file, takes, leader, made, began, mishaps>>

(* Starting the leader's Patroni again would be a failover, where another  *)
(* member could take over.                                                 *)
MustSwitch(u) == leader = u /\ DataSites # {u}

(* A Patroni that runs with the next value already is only waited for;     *)
(* for another, the command reads who leads.                               *)
Present(u) ==
    /\ run.pc = "hand" /\ run.at \in Roles /\ u \in Turns
    /\ IF held[run.at][u] = next[run.at]
       THEN run' = [run EXCEPT !.uses = @ \ {u}]
       ELSE run' = [run EXCEPT !.pc = IF MustSwitch(u) THEN "switch" ELSE "restart",
                               !.site = u, !.saw = leader]
    /\ UNCHANGED <<file, held, takes, leader, made, began, mishaps>>

(* Mutant: members that still run with the old value. *)
Unhanded == {m \in DataSites \ {run.site} : held[run.at][m] # next[run.at]}

(* Members the leader may be switched to: streaming, and running with the  *)
(* next value.                                                             *)
Candidates == {m \in DataSites \ {run.site} : held[run.at][m] = next[run.at]}

(* The leader is moved off the site, or the run stops when no member (or   *)
(* not the Sync Standby, whichever that is) runs with the next value, or   *)
(* the site does not lead any more.                                        *)
Switch ==
    /\ run.pc = "switch"
    /\ \/ /\ leader = run.site
          /\ leader' \in Candidates
          /\ run' = [run EXCEPT !.pc = "restart"]
       \/ /\ \/ leader # run.site
             \/ Candidates = {}
             \/ Synchronous /\ DataSites \ {run.site} # Candidates
          /\ run' = Idle
          /\ UNCHANGED leader
    /\ UNCHANGED <<file, held, takes, made, began, mishaps>>

(* The infra stack is applied and Patroni started again.  Where it leads   *)
(* that is a failover, which another member may win.                       *)
Restart ==
    LET u == run.site IN
    /\ run.pc = "restart"
    /\ held' = Given("infra", u, Shown(run.at))
    /\ run' = [run EXCEPT !.pc = "hand", !.uses = @ \ {u}, !.site = None, !.saw = None]
    /\ IF leader = u THEN leader' \in DataSites ELSE UNCHANGED leader
    /\ UNCHANGED <<file, takes, made, began, mishaps>>

-----------------------------------------------------------------------------
(* Stage 4.  The next value becomes the secret's own, and the secret       *)
(* leaves the list of an --all run.                                        *)

(* Mutant: any rotation that finishes clears the list. *)
Cleared(s) == {}

Delisted(s) == left \ {s}

Promote ==
    LET s == run.at IN
    /\ run.pc = "hand" /\ run.uses = {}
    /\ val' = Shown(s)
    /\ next' = [next EXCEPT ![s] = 0]
    /\ left' = Delisted(s)
    /\ run' = IF run.todo = {s} THEN Idle
              ELSE [Idle EXCEPT !.pc = "begin", !.all = run.all, !.todo = run.todo \ {s},
                                !.asked = run.asked]
    /\ UNCHANGED <<held, takes, leader, made, began, mishaps>>

-----------------------------------------------------------------------------
(* What else happens.                                                      *)

(* A run stops: an interrupt, a gate that fails, a host out of reach.      *)
Stop ==
    /\ run # Idle
    /\ Mishap
    /\ run' = Idle
    /\ UNCHANGED <<file, held, takes, leader, made, began>>

(* A failover no command asked for.                                        *)
LeaderMoves ==
    /\ Mishap
    /\ leader' \in DataSites \ {leader}
    /\ UNCHANGED <<file, held, takes, run, made, began>>

(* Mutant: it is refused only while an --all run has secrets left. *)
RefuseMidList == left # {}

(* A command that renders the deployment from the file and reaches hosts   *)
(* is refused while a rotation is unfinished.                              *)
RefuseMidRotation == Pending # {}

Apply(u) ==
    /\ run = Idle /\ ~RefuseMidRotation
    /\ held' = [t \in Secrets |-> IF u \in UsersOf(t) THEN [held[t] EXCEPT ![u] = val[t]] ELSE held[t]]
    /\ UNCHANGED <<file, takes, leader, run, made, began, mishaps>>

(* The issuer of a pasted secret makes another value, and may keep the old *)
(* ones valid beside it.                                                   *)
Issue(s, keep) ==
    /\ made[s] < MaxValue[s]
    /\ made' = [made EXCEPT ![s] = @ + 1]
    /\ takes' = [takes EXCEPT ![s] = (IF keep THEN @ ELSE {}) \cup {made'[s]}]
    /\ UNCHANGED <<file, held, leader, run, began, mishaps>>

(* secrets set: a pasted value goes into the file, and nowhere else.       *)
SecretsSet(s, v) ==
    /\ run = Idle
    /\ v # val[s] /\ v \in takes[s]
    /\ val' = [val EXCEPT ![s] = v]
    /\ UNCHANGED <<next, left, held, takes, leader, run, made, began, mishaps>>

-----------------------------------------------------------------------------
RunStep ==
    \/ \E s \in Secrets : WriteNext(s)
    \/ Check
    \/ ReadUsers
    \/ \E u \in Sites : Hand(u) \/ Present(u)
    \/ Switch
    \/ Restart
    \/ Promote

(* The operator runs the command again, naming what it says to name.       *)
Rerun == Pending # {} /\ Start(FALSE, FALSE, Pending)

Next ==
    \/ \E restart \in BOOLEAN : Start(TRUE, restart, {})
    \/ \E named \in NamedSets : Start(FALSE, FALSE, named)
    \/ Rerun
    \/ RunStep
    \/ Stop
    \/ LeaderMoves
    \/ \E u \in Sites : Apply(u)
    \/ \E s \in Pasted :
          (\E v \in takes[s] : SecretsSet(s, v)) \/ \E keep \in BOOLEAN : Issue(s, keep)

Spec == Init /\ [][Next]_vars

(* A run goes on by itself, and an operator whose run stopped starts it    *)
(* again, as its error says.                                               *)
FairSpec == Spec /\ WF_vars(RunStep) /\ WF_vars(Rerun)

-----------------------------------------------------------------------------
(* Properties.                                                             *)

(* Every variable keeps its type. *)
TypeOK ==
    /\ val \in [Secrets -> Value]
    /\ next \in [Secrets -> Value \cup {0}]
    /\ left \in SUBSET Secrets
    /\ held \in [Secrets -> [Sites -> Value \cup {0}]]
    /\ takes \in [Secrets -> SUBSET Value]
    /\ leader \in DataSites
    /\ run \in [pc : {"idle", "begin", "check", "users", "hand", "switch", "restart"},
                all : BOOLEAN, todo : SUBSET Secrets, at : Secrets \cup {None},
                uses : SUBSET Sites, led : DataSites \cup {None},
                site : Sites \cup {None}, saw : DataSites \cup {None},
                asked : [Pasted -> Value \cup {0}]]
    /\ made \in [Secrets -> Value]
    /\ began \in [Secrets -> Value \cup {0}]
    /\ mishaps \in 0..MaxMishaps

(* Wherever a run stops, the secrets file names every value a host runs    *)
(* with and every one the checking side accepts, so the next run can       *)
(* finish; and a generated secret with no rotation under way has its one   *)
(* value everywhere. *)
Recoverable ==
    \A s \in Generated :
        /\ \A u \in UsersOf(s) : held[s][u] \in {val[s], next[s]} \ {0}
        /\ takes[s] \subseteq {val[s], next[s]} \ {0}

(* No rotation starts while another is unfinished, whatever runs stopped   *)
(* and were started since: the hosts never disagree about two secrets. *)
OnePending == Cardinality(Pending) <= 1

(* A host is never handed a password that Postgres would refuse, by a      *)
(* rotation, by an apply between its stages, or by the rotation of another *)
(* secret in the same stack. *)
HandedIsAccepted ==
    [][\A s \in Roles \cup Logins : \A u \in UsersOf(s) :
         held'[s][u] # held[s][u] => held'[s][u] \in takes[s]]_vars

(* A step that finds the leader where the order of its stage was read      *)
(* always has a member to switch it to: only a failover in between, or a   *)
(* leader that could not be read, ends a run there.  It takes the order    *)
(* being read again after the rotations before it moved the leader. *)
LeaderIsLast ==
    run.pc = "switch" /\ run.saw = run.led => Candidates # {}

(* A secret an --all run has taken off its list has been given a value     *)
(* since the list was made, however many runs it took. *)
AllMeansAll ==
    \A s \in Generated : began[s] # 0 /\ s \notin left => val[s] # began[s]

(* For the generated secrets, the stages, the stops and the resumed runs   *)
(* come to no more than SecretRotation: in particular a value is made a    *)
(* secret's own only when every host that uses it runs with it, and no     *)
(* host is taken back to the value before. *)
Rotation == INSTANCE SecretRotation WITH
    Secrets <- Generated, UsersOf <- UsersOf,
    cur  <- [s \in Generated |-> val[s]],
    next <- [s \in Generated |-> next[s]],
    runs <- [s \in Generated |-> [u \in UsersOf(s) |-> held[s][u]]]

RotatesOneByOne == Rotation!Spec

(* A rotation under way finishes, given an operator who runs the command   *)
(* again when it stops. *)
RotationFinishes == \A s \in Generated : next[s] # 0 ~> next[s] = 0
=============================================================================
