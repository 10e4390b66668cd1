---------------------------- MODULE GatewayMove ----------------------------
(***************************************************************************)
(* gateway move: the gateway role leaves one site for another while both   *)
(* serve, and the old gateway's Caddy is stopped, or handed off where the  *)
(* site runs it for a monitor, once no resolver can hold its address.      *)
(*                                                                         *)
(*   internal/gatewaymove/gatewaymove.go   the plan and the seven stages   *)
(*   internal/dns/move.go                  the address records             *)
(*   cmd/paisans/main.go                   what an apply renders meanwhile *)
(*                                                                         *)
(* The stages are planned by Build, and the gate of each is run whether or *)
(* not it had anything left to do.  A run may stop between any two reads   *)
(* or writes, and the configuration may then name another gateway, or the  *)
(* old one again.  Beside the move, operators apply gateways and remove    *)
(* names, each changing the deployment record (module DeployRecord).       *)
(*                                                                         *)
(* Every address record at a hostname is one dns init or a move made, with *)
(* the provider's automatic TTL, which is TTL ticks.  A record by hand, a  *)
(* conflict or files of the host's owner stop the run as Stop does.        *)
(***************************************************************************)
EXTENDS DeployRecord

CONSTANTS
    Hostnames,     \* the hostnames the gateway serves
    Monitors,      \* the sites that run Caddy for a monitor
    Mover,         \* the operator who runs gateway move
    TTL,           \* how long a resolver may keep a deleted record
    Mishaps,       \* what may go wrong: a run stops ("stop"), a gateway does not
                   \* answer an update ("miss"), the old one does not answer the
                   \* record stage's gate ("unread")
    MaxDeclares,   \* bound: edits of the configuration
    MaxEvents      \* bound: mishaps, and commands beside the move

ASSUME ConstantsAssumption ==
    /\ Monitors \subseteq Sites /\ Mover \in Operators
    /\ None \notin Sites \cup Doc \cup [to : Sites, left : Nat]
    /\ TTL \in Nat \ {0} /\ MaxDeclares \in Nat /\ MaxEvents \in Nat
    /\ Mishaps \subseteq {"stop", "miss", "unread"}

VARIABLES
    config,    \* the sites the configuration gives the gateway role
    caddy,     \* what each site's Caddy serves
    points,    \* the sites whose address each hostname's records hold
    cached,    \* how long a resolver may still hold each site's address
    marker,    \* on each host, the move whose records went and the wait left
    run,       \* the move under way
    late,      \* history: sites left with a marker by a move that was rolled back,
               \* and not marked since while they served
    declares,  \* edits of the configuration so far
    events     \* mishaps and other commands so far

gatewayVars == <<config, caddy, points, cached, marker, run, late, declares>>
vars == <<recordVars, gatewayVars, events>>

Idle == [pc |-> "idle", from |-> None, to |-> None, steps |-> {}, todo |-> {}, deleted |-> FALSE]

Init ==
    /\ RecordInit({1})
    /\ config = {1}
    /\ caddy  = [s \in Sites |-> IF s = 1 THEN "gateway"
                                 ELSE IF s \in Monitors THEN "monitor" ELSE "none"]
    /\ points = [h \in Hostnames |-> {1}]
    /\ cached = [s \in Sites |-> IF s = 1 THEN TTL ELSE 0]
    /\ marker = [s \in Sites |-> None]
    /\ run    = Idle
    /\ late   = {}
    /\ declares = 0
    /\ events   = 0

Serves(s) == caddy[s] = "gateway"
Pointed(s) == \E h \in Hostnames : s \in points[h]

Event ==
    /\ events < MaxEvents
    /\ events' = events + 1

-----------------------------------------------------------------------------
(* Build: the old gateway is found from what is left of it.                *)

(* What a site's host holds of a gateway; its routes where its Caddy is a  *)
(* monitor's too.                                                          *)
Holds(s) == docs[s] # None \/ marker[s] # None \/ Serves(s)

Candidates(to) == {s \in Sites \ {to} : Holds(s) \/ Pointed(s)}

(* A marker says nothing of another move's records.                        *)
Ours(s, to) == marker[s] # None /\ marker[s].to = to

(* Every name the old gateway's record lists is listed by the new one's,   *)
(* which a record there is none of, or that cannot be read, satisfies.     *)
Carried(from, to) ==
    \/ docs[from] = None
    \/ docs[to] # None /\ Listed(docs[from]) \subseteq Listed(docs[to])

(* Mutant: while the old gateway has address records. *)
PointedStill(from, to) == Pointed(from)

(* Records that went on a run that stopped before it marked when.          *)
Unmarked(from, to) == Pointed(from) \/ ~Ours(from, to)

(* The stages that have something left to do.                              *)
Planned(from, to) ==
    {x \in {"record", "remove", "wait", "handoff"} :
        \/ x = "record"  /\ ~Carried(from, to)
        \/ x = "remove"  /\ Unmarked(from, to)
        \/ x = "wait"    /\ (Ours(from, to) => marker[from].left > 0)
        \/ x = "handoff" /\ Serves(from)}

(* A site that keeps the monitor and was released already is only handed   *)
(* off; one without a record has none to carry.                            *)
Released(from, to) ==
    from \in Monitors /\ docs[from] = None /\ ~Ours(from, to) /\ ~Pointed(from)

FirstStage(from, to) ==
    IF Released(from, to) THEN "handoff"
    ELSE IF docs[from] = None THEN "serve" ELSE "record"

Build ==
    /\ run = Idle /\ upd[Mover].pc = "idle" /\ Cardinality(config) = 1
    /\ \E to \in config, from \in Sites :
         /\ Candidates(to) = {from}
         /\ run' = [Idle EXCEPT !.pc = FirstStage(from, to), !.from = from, !.to = to,
                                !.steps = Planned(from, to)]
    /\ UNCHANGED <<recordVars, config, caddy, points, cached, marker, late, declares, events>>

At(pc) == run.pc = pc
Do(stage) == stage \in run.steps
Goes(pc) == run' = [run EXCEPT !.pc = pc]

(* A gate that fails stops the run.                                        *)
Gate(passes, pc) == IF passes THEN Goes(pc) ELSE run' = Idle

(* Nothing but the run and what is written after it here changes.          *)
OnlyRun == UNCHANGED <<config, caddy, points, cached, marker, late, declares>>

-----------------------------------------------------------------------------
(* Stage 1, record.  It is one Update of both gateways' records; a gateway *)
(* missed is an error only when it is the new one.                         *)

RecordStage ==
    /\ At("record") /\ Do("record")
    /\ Begin(Mover, {run.from, run.to}, {}, {})
    /\ Goes("recording")
    /\ OnlyRun /\ UNCHANGED <<docs, tags, due, events>>

Recorded ==
    /\ At("recording")
    /\ Report(Mover)
    /\ Gate(run.to \notin upd[Mover].missed, "carried")
    /\ OnlyRun /\ UNCHANGED events

(* The gate, which a record that cannot be read passes.                    *)
RecordGate ==
    /\ At("carried") \/ (At("record") /\ ~Do("record"))
    /\ \/ Gate(Carried(run.from, run.to), "serve") /\ UNCHANGED events
       \/ "unread" \in Mishaps /\ Event /\ Goes("serve")
    /\ OnlyRun /\ UNCHANGED recordVars

-----------------------------------------------------------------------------
(* Stages 2 and 3: the new gateway serves, and its records join the old.   *)

ServeGate ==
    /\ At("serve")
    /\ Gate(Serves(run.to), "add")
    /\ OnlyRun /\ UNCHANGED <<recordVars, events>>

Missing == {h \in Hostnames : run.to \notin points[h]}

AddRecord(h) ==
    /\ At("add") /\ h \in Missing
    /\ points' = [points EXCEPT ![h] = @ \cup {run.to}]
    /\ cached' = [cached EXCEPT ![run.to] = TTL]
    /\ UNCHANGED <<recordVars, config, caddy, marker, run, late, declares, events>>

(* Mutant: once one hostname has the new gateway's address. *)
SomeReady == Missing # Hostnames

Ready == Missing = {}

AddGate ==
    /\ At("add") /\ Ready
    /\ Goes("remove")
    /\ OnlyRun /\ UNCHANGED <<recordVars, events>>

-----------------------------------------------------------------------------
(* Stage 4: the new gateway is verified again, the old one's records go    *)
(* one by one, and when they went is written on its host.                  *)

Remove ==
    /\ At("remove") /\ Do("remove")
    /\ IF Serves(run.to)
       THEN run' = [run EXCEPT !.pc = "deleting", !.deleted = Pointed(run.from),
                               !.todo = {h \in Hostnames : run.from \in points[h]}]
       ELSE run' = Idle
    /\ OnlyRun /\ UNCHANGED <<recordVars, events>>

DeleteRecord(h) ==
    /\ At("deleting") /\ h \in run.todo
    /\ points' = [points EXCEPT ![h] = @ \ {run.from}]
    /\ cached' = [cached EXCEPT ![run.from] = TTL]
    /\ run' = [run EXCEPT !.todo = @ \ {h}]
    /\ UNCHANGED <<recordVars, config, caddy, marker, late, declares, events>>

(* Records deleted on this run restart the wait.                           *)
Keeps == ~run.deleted /\ Ours(run.from, run.to)

Mark ==
    /\ At("deleting") /\ run.todo = {}
    /\ IF Keeps
       THEN UNCHANGED <<marker, late>>
       ELSE /\ marker' = [marker EXCEPT ![run.from] = [to |-> run.to, left |-> TTL]]
            /\ late' = IF Serves(run.from) THEN late \ {run.from} ELSE late
    /\ Goes("wait")
    /\ UNCHANGED <<recordVars, config, caddy, points, cached, declares, events>>

RemoveGate ==
    /\ At("remove") /\ ~Do("remove")
    /\ Gate(~Pointed(run.from) /\ Ours(run.from, run.to), "wait")
    /\ OnlyRun /\ UNCHANGED <<recordVars, events>>

-----------------------------------------------------------------------------
(* Stage 5: the wait the marker says, slept through when it was planned.   *)

Waited == marker[run.from].left = 0

Wait ==
    /\ At("wait")
    /\ Do("wait") => Waited
    /\ Gate(Waited, "stop")
    /\ OnlyRun /\ UNCHANGED <<recordVars, events>>

(* Stage 6: verified a third time, the old Caddy is stopped, unless it     *)
(* serves a monitor, and then what marks the site goes.                    *)
StopCaddy ==
    /\ At("stop")
    /\ Gate(Serves(run.to), "forget")
    /\ caddy' = IF Serves(run.to) /\ run.from \notin Monitors
                THEN [caddy EXCEPT ![run.from] = "none"] ELSE caddy
    /\ UNCHANGED <<recordVars, config, points, cached, marker, late, declares, events>>

Forget ==
    /\ At("forget")
    /\ docs'   = [docs EXCEPT ![run.from] = None]
    /\ marker' = [marker EXCEPT ![run.from] = None]
    /\ IF run.from \in Monitors THEN Goes("handoff") ELSE run' = Idle
    /\ UNCHANGED <<upd, tags, due, config, caddy, points, cached, late, declares, events>>

(* Mutant: a site that only runs a monitor is rendered as one. *)
RenderedAlone(s) == "monitor"

(* What a monitor's Caddy serves after an apply of its site: every route   *)
(* of the gateway's while its host holds the record or a marker.           *)
Rendered(s) == IF docs[s] # None \/ marker[s] # None THEN "gateway" ELSE "monitor"

(* Stage 7: a monitor's site is applied.                                   *)
HandOff ==
    /\ At("handoff")
    /\ caddy' = IF Do("handoff") THEN [caddy EXCEPT ![run.from] = Rendered(run.from)] ELSE caddy
    /\ run' = Idle
    /\ UNCHANGED <<recordVars, config, points, cached, marker, late, declares, events>>

-----------------------------------------------------------------------------
(* What else happens.                                                      *)

(* The configuration gives other sites the role, with no command under way. *)
Declare(gateways) ==
    /\ run = Idle /\ \A w \in Operators : upd[w].pc = "idle"
    /\ declares < MaxDeclares
    /\ gateways # config
    /\ config' = gateways
    /\ late' = late \cup {s \in gateways : marker[s] # None}
    /\ declares' = declares + 1
    /\ UNCHANGED <<recordVars, caddy, points, cached, marker, run, events>>

(* A gateway is applied, and the names declared then recorded on each one. *)
ApplyGateway(w, s, names) ==
    /\ s \in config
    /\ w = Mover => run = Idle
    /\ caddy' = [caddy EXCEPT ![s] = "gateway"]
    /\ Begin(w, config, names, {})
    /\ UNCHANGED <<docs, tags, due, config, points, cached, marker, run, late, declares>>

(* A monitor's site without the role is applied.                           *)
ApplyMonitor(s) ==
    /\ s \in Monitors \ config
    /\ Event
    /\ caddy' = [caddy EXCEPT ![s] = Rendered(s)]
    /\ UNCHANGED <<recordVars, config, points, cached, marker, run, late, declares>>

(* A removal takes names out of the record, on the gateways declared.      *)
RemoveNames(w, names) ==
    /\ w = Mover => run = Idle
    /\ Event
    /\ Begin(w, config, {}, names)
    /\ UNCHANGED <<docs, tags, due, gatewayVars>>

(* Time passes.                                                            *)
Tick ==
    /\ \E s \in Sites : (cached[s] > 0 /\ ~Pointed(s)) \/ (marker[s] # None /\ marker[s].left > 0)
    /\ cached' = [s \in Sites |-> IF cached[s] > 0 /\ ~Pointed(s) THEN cached[s] - 1 ELSE cached[s]]
    /\ marker' = [s \in Sites |-> IF marker[s] # None /\ marker[s].left > 0
                                  THEN [marker[s] EXCEPT !.left = @ - 1] ELSE marker[s]]
    /\ UNCHANGED <<recordVars, config, caddy, points, run, late, declares, events>>

Stop ==
    /\ run # Idle /\ "stop" \in Mishaps /\ Event
    /\ run' = Idle
    /\ upd' = [upd EXCEPT ![Mover] = IF At("recording") THEN NoUpdate ELSE @]
    /\ UNCHANGED <<docs, tags, due, config, caddy, points, cached, marker, late, declares>>

(* The updates of commands other than the move.                            *)
OwnUpdate(w) == ~(w = Mover /\ At("recording"))

Update(w) ==
    /\ UpdateStep(w) \/ (OwnUpdate(w) /\ Report(w))
    /\ UNCHANGED <<gatewayVars, events>>

UpdateMishap(w) ==
    /\ \/ "miss" \in Mishaps /\ Miss(w)
       \/ "stop" \in Mishaps /\ OwnUpdate(w) /\ Abandon(w)
    /\ Event
    /\ UNCHANGED gatewayVars

RunStep ==
    \/ RecordStage \/ Recorded \/ RecordGate
    \/ ServeGate
    \/ \E h \in Hostnames : AddRecord(h) \/ DeleteRecord(h)
    \/ AddGate
    \/ Remove \/ Mark \/ RemoveGate
    \/ Wait
    \/ StopCaddy \/ Forget
    \/ HandOff

(* A gateway that does not serve yet is applied.                           *)
ApplyNew == \E s \in config : ~Serves(s) /\ ApplyGateway(Mover, s, {}) /\ UNCHANGED events

Next ==
    \/ \E G \in (SUBSET Sites) \ {{}} : Declare(G)
    \/ ApplyNew
    \/ \E w \in Operators, s \in Sites, names \in SUBSET Names : Event /\ ApplyGateway(w, s, names)
    \/ \E w \in Operators, names \in (SUBSET Names) \ {{}} : RemoveNames(w, names)
    \/ \E s \in Monitors : ApplyMonitor(s)
    \/ \E w \in Operators : Update(w) \/ UpdateMishap(w)
    \/ Build
    \/ RunStep
    \/ Tick
    \/ Stop

Spec == Init /\ [][Next]_vars

(* Time passes, commands go on, and a move that is unfinished is run       *)
(* again.  A gateway declared that does not serve is applied between two   *)
(* runs of the move, however soon each stops there: its gate says to.      *)
MoveFairness ==
    /\ WF_vars(Tick) /\ WF_vars(RunStep) /\ WF_vars(Build)
    /\ SF_vars(ApplyNew)
    /\ \A w \in Operators : WF_vars(Update(w))

FairSpec == Spec /\ MoveFairness

-----------------------------------------------------------------------------
(* Properties.                                                             *)

(* Every variable keeps its type. *)
TypeOK ==
    /\ RecordTypeOK
    /\ config \in (SUBSET Sites) \ {{}}
    /\ caddy \in [Sites -> {"none", "monitor", "gateway"}]
    /\ points \in [Hostnames -> SUBSET Sites]
    /\ cached \in [Sites -> 0..TTL]
    /\ marker \in [Sites -> {None} \cup [to : Sites, left : 0..TTL]]
    /\ run \in [pc : {"idle", "record", "recording", "carried", "serve", "add", "remove",
                      "deleting", "wait", "stop", "forget", "handoff"},
                from : Sites \cup {None}, to : Sites \cup {None},
                steps : SUBSET {"record", "remove", "wait", "handoff"},
                todo : SUBSET Hostnames, deleted : BOOLEAN]
    /\ run # Idle => run.from \in Sites /\ run.to \in Sites \ {run.from}
    /\ late \in SUBSET Sites
    /\ declares \in 0..MaxDeclares
    /\ events \in 0..MaxEvents

(* Every hostname always has the address of a site that serves it, through *)
(* moves that stop anywhere, are run again or rolled back, and applies of  *)
(* the sites meanwhile. *)
AlwaysPublished == \A h \in Hostnames : \E s \in points[h] : Serves(s)

(* A visitor whose resolver still holds a gateway's address reaches a      *)
(* Caddy that serves it, so long as no marker of a move that was rolled    *)
(* back is on its host. *)
StragglersServed == \A s \in Sites \ late : cached[s] > 0 => Serves(s)

(* gatewaymove.go:450: not even then: such a marker says nothing of when   *)
(* this move's records went. *)
StragglersAlwaysServed == \A s \in Sites : cached[s] > 0 => Serves(s)

(* An old gateway is found and finished with, however often the move       *)
(* stopped: nothing of a gateway's stays on a site that is none.  With two *)
(* old gateways the move is refused, until the configuration names one.    *)
MoveFinishes ==
    \A s \in Sites :
        config = {s} /\ Cardinality(Candidates(s)) = 1
            ~> config # {s} \/ Candidates(s) = {} \/ Cardinality(Candidates(s)) > 1
=============================================================================
