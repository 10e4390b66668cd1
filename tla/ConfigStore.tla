---------------------------- MODULE ConfigStore ----------------------------
(***************************************************************************)
(* The configuration store: signed versions of a deployment's files, kept  *)
(* by every site and by each operator's workstation, and the commands that *)
(* publish, pull, register, apply and recover them.                        *)
(*                                                                         *)
(*   internal/configstore/local.go   the workstation's files and state     *)
(*   cmd/paisans/config.go           config publish, pull, recover         *)
(*   cmd/paisans/config_merge.go     a pull over edited secrets            *)
(*   cmd/paisans/config_apply.go     apply: gather, witness, publish       *)
(*   cmd/paisans/operatorregister.go operator register                     *)
(*                                                                         *)
(* A workstation runs one command at a time.  A command is a sequence of   *)
(* steps, each one read or write of the code, and Stop ends it between any *)
(* two of them: a refusal, a word the operator does not type, an interrupt *)
(* and a crash all leave what the steps before wrote.  Operators edit, and *)
(* sites sync, at any time in between.                                     *)
(***************************************************************************)
EXTENDS Trust

CONSTANTS
    Workstations,   \* the operators' workstations
    NSites,         \* how many sites the configuration declares
    Keys, KeyOf,    \* signing keys, and the one each workstation's agent holds
    Confs, Listed,  \* paisans-stack.yaml contents, and the keys each one lists
    Secrets,        \* contents of secrets.enc.yaml, as the value of one key
    FirstFiles,     \* the files each workstation starts with, None for none
    Commands,       \* the commands operators run
    EditWhile,      \* the commands during which an operator edits the files
    Mishaps,        \* what may go wrong: a command interrupted between two of its
                    \* writes ("stop"), an older copy restored on a site ("site"),
                    \* a workstation, its cache or its files lost
    MaxVersions,    \* bound: versions ever committed
    MaxEdits,       \* bound: edits ever made to local files
    MaxMishaps      \* bound: mishaps

Sites == 1..NSites
Ids   == 1..MaxVersions
Files == [conf : Confs, sec : Secrets]

AllCommands == {"publish", "merge", "pull", "recover", "register", "apply", "apply --site"}

ASSUME ConstantsAssumption ==
    /\ NSites \in Nat /\ MaxVersions \in Nat /\ MaxEdits \in Nat /\ MaxMishaps \in Nat
    /\ KeyOf \in [Workstations -> Keys]
    /\ Listed \in [Confs -> SUBSET Keys]
    /\ FirstFiles \in [Workstations -> Files \cup {None}]
    /\ Commands \subseteq AllCommands
    /\ EditWhile \subseteq AllCommands \cup {"none"}
    /\ Mishaps \subseteq {"stop", "site", "workstation", "cache", "files"}
    /\ NoKey \notin Keys
    /\ None \notin Ids \cup Files \cup [conf : Confs, sec : {None}]
    /\ None \notin Secrets

VARIABLES
    version,   \* the commits that exist, by id: what a hash names
    store,     \* the versions each site's repository holds
    cache,     \* the versions each workstation's .paisans/store.git holds
    files,     \* paisans-stack.yaml and the files beside it, None for none
    head,      \* .paisans/config-head
    root,      \* .paisans/config-root
    seen,      \* .paisans/config-seen: a revision and the version that had it
    signing,   \* whether .paisans/signing-key is recorded
    record,    \* the configuration part of each host's grant record
    run,       \* the command each workstation is running
    origin,    \* history: the version the files on disk were made from
    edits,     \* edits made so far
    mishaps    \* mishaps so far

disk   == <<files, head, root, seen, signing, origin>>
bounds == <<edits, mishaps>>
vars   == <<version, store, cache, disk, record, run, bounds>>

Unseen   == [rev |-> 0, id |-> None]
NoChange == [rev |-> 0, id |-> None, lower |-> FALSE]

(* A workstation's run: the command and its next step, the sites still to   *)
(* do, the hosts an apply changes, the sites reached directly, the root     *)
(* given or to be pinned, the verdict of its gather and the change to the   *)
(* seen record it carries, the version in hand with the files and the       *)
(* parents it is made from, and why the operator typed rollback.            *)
Idle == [cmd |-> "none", pc |-> "idle", todo |-> {}, hosts |-> {}, direct |-> {},
         pin |-> None, trusted |-> {}, heads |-> {}, change |-> NoChange,
         sha |-> None, files |-> None, from |-> None, parents |-> {}, words |-> {}]

Init ==
    /\ version = [v \in {} |-> None]
    /\ store   = [s \in Sites |-> {}]
    /\ cache   = [w \in Workstations |-> {}]
    /\ files   = FirstFiles
    /\ head    = [w \in Workstations |-> None]
    /\ root    = [w \in Workstations |-> None]
    /\ seen    = [w \in Workstations |-> Unseen]
    /\ signing = [w \in Workstations |-> FALSE]
    /\ record  = [s \in Sites |-> Unseen]
    /\ run     = [w \in Workstations |-> Idle]
    /\ origin  = [w \in Workstations |-> None]
    /\ edits   = 0
    /\ mishaps = 0

-----------------------------------------------------------------------------
(* Whether the workstation's files can be read: a recovery that stopped     *)
(* after paisans-stack.yaml left it without its secrets.                   *)
Complete(w) == files[w] # None /\ files[w].sec # None

(* The versions of held as Judge's graph.  Every commit here is one the    *)
(* tool made, so its tree, its signature and its operators are good.       *)
Graph(held) ==
    [v \in held |-> [parents  |-> version[v].parents,
                     rev      |-> version[v].rev,
                     signer   |-> version[v].signer,
                     lists    |-> Listed[version[v].files.conf],
                     sound    |-> TRUE,
                     readable |-> TRUE]]

(* The anchor of a command: register judges by the key it registers.       *)
Anchor(w, cmd, pin) ==
    [signer |-> IF signing[w] \/ cmd = "register" THEN KeyOf[w] ELSE NoKey,
     root   |-> IF root[w] # None THEN root[w] ELSE pin]

Judged(held, anchor) ==
    IF held = {} THEN [ok |-> TRUE, trusted |-> {}, heads |-> {}]
                 ELSE Judge(Graph(held), anchor)

Roots == {v \in DOMAIN version : version[v].parents = {}}

(* The root to pin beside the head v when none is pinned or given: the one *)
(* it descends from, if there is only one.                                 *)
PinFor(w, given, v) ==
    LET roots == RootsOf(Graph(cache[w]), v)
    IN  IF root[w] # None THEN root[w]
        ELSE IF given = None /\ Cardinality(roots) = 1 THEN CHOOSE r \in roots : TRUE
        ELSE given

(* Mutant: files whose base is not the sites' head are published on it. *)
ParentsOfAnyBase(w, merge) ==
    IF run[w].heads = {} THEN head[w] = None /\ ~merge
    ELSE IF merge THEN head[w] \in run[w].trusted
    ELSE Cardinality(run[w].heads) = 1

(* Whether Parents of local.go returns the heads, for a version to build   *)
(* on, or an error: a fork, or files whose base is not the one head.       *)
ParentsGiven(w, merge) ==
    IF run[w].heads = {} THEN head[w] = None /\ ~merge
    ELSE IF merge THEN head[w] \in run[w].trusted
    ELSE run[w].heads = {head[w]}

(* Mutant: only a first version's signer is checked. *)
SignerOfFirst(w, parents, f) == parents = {} => KeyOf[w] \in Listed[f.conf]

(* CheckSigner: the key is listed by every parent, or by the files of a    *)
(* first version.                                                          *)
SignerGiven(w, parents, f) ==
    IF parents = {} THEN KeyOf[w] \in Listed[f.conf]
    ELSE \A p \in parents : KeyOf[w] \in Listed[version[p].files.conf]

(* signingKeyFor: the recorded key, or an agent key that an operator of    *)
(* the base lists.                                                         *)
KeyGiven(w, f) ==
    \/ signing[w]
    \/ head[w] = None /\ KeyOf[w] \in Listed[f.conf]
    \/ head[w] \in cache[w] /\ KeyOf[w] \in Listed[version[head[w]].files.conf]

(* Mutant: the record keeps the first version seen. *)
RaiseOnce(old, rev, v) == IF old.id = None THEN [rev |-> rev, id |-> v] ELSE old

(* What raiseSeen leaves of a record, and RecordSeen of the workstation's  *)
(* for the change its gather carries.                                      *)
Raise(old, rev, v) == IF rev > old.rev THEN [rev |-> rev, id |-> v] ELSE old
AfterRecordSeen(w) ==
    LET c == run[w].change
    IN  IF c.id = None THEN seen[w]
        ELSE IF c.lower THEN [rev |-> c.rev, id |-> c.id]
        ELSE Raise(seen[w], c.rev, c.id)

(* MergeSecrets for one key, and whether the key conflicts. *)
MergedSecret(b, o, t)   == IF o = t \/ o = b THEN t ELSE o
SecretConflict(b, o, t) == o # t /\ o # b /\ t # b

Goto(w, pc) == run' = [run EXCEPT ![w].pc = pc]
End(w)      == run' = [run EXCEPT ![w] = Idle]

(* The next of the sites still to do, in name order. *)
Next1(w, s) == s \in run[w].todo /\ \A t \in run[w].todo : s <= t

-----------------------------------------------------------------------------
(* Starting a command.                                                     *)

Begin(w, r) == /\ run[w].pc = "idle"
               /\ r.cmd \in Commands
               /\ run' = [run EXCEPT ![w] = [r EXCEPT !.pc = "gather"]]
               /\ UNCHANGED <<version, store, cache, disk, record, bounds>>

(* config publish, and with --merge. *)
StartPublish(w) ==
    \E cmd \in {"publish", "merge"} :
        /\ files[w] # None
        /\ KeyGiven(w, files[w])
        /\ Begin(w, [Idle EXCEPT !.cmd = cmd, !.todo = Sites])

(* The roots --root may name: on a workstation that pinned one, no other. *)
PinGiven(w, pin) == pin \in {None} \cup Roots /\ (pin # None => root[w] = None)

StartPull(w) ==
    \E pin \in {None} \cup Roots :
        /\ files[w] # None
        /\ PinGiven(w, pin)
        /\ Begin(w, [Idle EXCEPT !.cmd = "pull", !.todo = Sites, !.pin = pin])

(* operator register, with files beside it or with a pin the cache leads   *)
(* to one head from (registerConfig).                                      *)
StartRegister(w) ==
    \E pin \in {None} \cup Roots :
        /\ PinGiven(w, pin)
        /\ \/ files[w] # None
           \/ LET v == Judged(cache[w], [Anchor(w, "", pin) EXCEPT !.signer = NoKey])
              IN  v.ok /\ Cardinality(v.heads) = 1
        /\ Begin(w, [Idle EXCEPT !.cmd = "register", !.todo = Sites, !.pin = pin])

(* apply of every site, and of one.  It loads the files it applies first.  *)
StartApply(w) ==
    /\ Complete(w)
    /\ \E cmd \in {"apply", "apply --site"}, hosts \in {Sites} \cup {{s} : s \in Sites} :
           /\ cmd = "apply" <=> hosts = Sites
           /\ Begin(w, [Idle EXCEPT !.cmd = cmd, !.todo = Sites, !.hosts = hosts,
                                    !.files = files[w], !.from = origin[w]])

(* config recover --from some hosts, onto a workstation with no files. *)
StartRecover(w) ==
    \E from \in (SUBSET Sites) \ {{}}, pin \in {None} \cup Roots :
        /\ files[w] = None
        /\ PinGiven(w, pin)
        /\ Begin(w, [Idle EXCEPT !.cmd = "recover", !.todo = from, !.hosts = from, !.pin = pin])

-----------------------------------------------------------------------------
(* Gathering.                                                              *)

(* One site is asked: it answers and its versions join the cache, or it    *)
(* does not.                                                               *)
AskSite(w) ==
    /\ run[w].pc = "gather"
    /\ \E s \in Sites :
          /\ Next1(w, s)
          /\ \/ /\ cache' = [cache EXCEPT ![w] = @ \cup store[s]]
                /\ run' = [run EXCEPT ![w].todo = @ \ {s}, ![w].direct = @ \cup {s}]
             \/ /\ run' = [run EXCEPT ![w].todo = @ \ {s}]
                /\ UNCHANGED cache
    /\ UNCHANGED <<version, store, disk, record, bounds>>

(* The step a command goes on with once it has a verdict. *)
AfterGather(w) ==
    CASE run[w].cmd = "pull"     -> "compare"
      [] run[w].cmd = "register" -> "attest"
      [] run[w].cmd = "recover"  -> "choose"
      [] run[w].cmd \in {"apply", "apply --site"} -> "review"
      [] OTHER -> "prepare"

(* All asked: the whole cache is judged.  A newest version older than one  *)
(* this workstation has seen goes on only once the operator types          *)
(* rollback; a newer one is carried as the change to the seen record.      *)
JudgeGathered(w) ==
    /\ run[w].pc = "gather" /\ run[w].todo = {}
    /\ LET v == Judged(cache[w], Anchor(w, run[w].cmd, run[w].pin))
           goOn(change) ==
               run' = [run EXCEPT ![w].pc = AfterGather(w),
                                  ![w].trusted = v.trusted, ![w].heads = v.heads,
                                  ![w].change = change,
                                  ![w].words = IF change.lower THEN {"seen"} ELSE {}]
       IN  /\ v.ok
           /\ IF v.heads = {} THEN goOn(NoChange)
              ELSE \E top \in v.heads :
                      LET rev == version[top].rev
                      IN  /\ IsFirst(version, v.heads, top)
                          /\ goOn(IF rev = seen[w].rev THEN NoChange
                                  ELSE [rev |-> rev, id |-> top, lower |-> rev < seen[w].rev])
    /\ UNCHANGED <<version, store, cache, disk, record, bounds>>

-----------------------------------------------------------------------------
(* Publishing: publishFiles and attestFrom of local.go.                    *)

(* Settle the parents and the signer and record what the gather saw.       *)
(* Files unchanged since the head make no new version.                     *)
Prepare(w) ==
    /\ run[w].pc = "prepare" /\ run[w].direct # {}
    /\ LET merge   == run[w].cmd = "merge"
           loaded  == run[w].files # None
           f       == IF loaded THEN run[w].files ELSE files[w]
           from    == IF loaded THEN run[w].from ELSE origin[w]
           parents == run[w].heads
           same    == ~merge /\ parents = {head[w]} /\ version[head[w]].files = f
       IN  /\ loaded \/ Complete(w)
           /\ ParentsGiven(w, merge)
           /\ SignerGiven(w, parents, f)
           /\ seen' = [seen EXCEPT ![w] = AfterRecordSeen(w)]
           /\ run' = [run EXCEPT ![w].pc = IF same THEN "sethead" ELSE "commit",
                                 ![w].sha = IF same THEN head[w] ELSE None,
                                 ![w].files = f, ![w].from = from, ![w].parents = parents]
    /\ UNCHANGED <<version, store, cache, files, head, root, signing, origin, record, bounds>>

(* The single head is attested when the local files equal it, or when      *)
(* there are none and the pin leads to it.  One the key signed already is  *)
(* attested as it is.                                                      *)
Attest(w) ==
    /\ run[w].pc = "attest" /\ run[w].direct # {}
    /\ \E top \in run[w].heads :
          LET f   == version[top].files
              own == version[top].signer = KeyOf[w]
              pin == PinFor(w, run[w].pin, top)
          IN  /\ run[w].heads = {top}
              /\ IF files[w] # None THEN files[w] = f
                 ELSE Anchor(w, "", run[w].pin).root \in RootsOf(Graph(cache[w]), top)
              /\ SignerGiven(w, {top}, f)
              /\ seen' = [seen EXCEPT ![w] = AfterRecordSeen(w)]
              /\ origin' = [origin EXCEPT ![w] = IF files[w] = f THEN top ELSE @]
              /\ run' = [run EXCEPT ![w].pc = IF ~own THEN "commit"
                                              ELSE IF files[w] = None THEN "writeconf" ELSE "setkey",
                                    ![w].sha = IF own THEN top ELSE None,
                                    ![w].files = f, ![w].from = top, ![w].parents = {top},
                                    ![w].pin = pin]
    /\ UNCHANGED <<version, store, cache, files, head, root, signing, record, bounds>>

(* Commit the version into the cache. *)
Commit(w) ==
    /\ run[w].pc = "commit"
    /\ \E v \in Ids \ DOMAIN version, rev \in 1..MaxVersions :
          LET made == [parents |-> run[w].parents, rev |-> rev, signer |-> KeyOf[w],
                       files |-> run[w].files, from |-> run[w].from,
                       merge |-> run[w].cmd = "merge"]
          IN  /\ \A u \in Ids \ DOMAIN version : v <= u
              /\ Numbered(version, run[w].parents, rev)
              /\ version' = [u \in DOMAIN version \cup {v} |->
                                IF u = v THEN made ELSE version[u]]
              /\ cache' = [cache EXCEPT ![w] = @ \cup {v}]
              /\ origin' = [origin EXCEPT ![w] = IF files[w] = None THEN None ELSE v]
              /\ run' = [run EXCEPT ![w].pc = "raise", ![w].sha = v]
    /\ UNCHANGED <<store, files, head, root, seen, signing, record, bounds>>

RaiseSeen(w) ==
    /\ run[w].pc = "raise"
    /\ LET v == run[w].sha
       IN  seen' = [seen EXCEPT ![w] = Raise(@, version[v].rev, v)]
    /\ Goto(w, IF run[w].cmd # "register" THEN "sethead"
               ELSE IF files[w] = None THEN "writeconf" ELSE "setkey")
    /\ UNCHANGED <<version, store, cache, files, head, root, signing, origin, record, bounds>>

(* The version becomes the head: the last write of a checkout. *)
SetHead(w) ==
    /\ run[w].pc = "sethead"
    /\ head' = [head EXCEPT ![w] = run[w].sha]
    /\ Goto(w, IF run[w].cmd \in {"pull", "recover"} THEN "record" ELSE "setroot")
    /\ UNCHANGED <<version, store, cache, files, root, seen, signing, origin, record, bounds>>

(* The pushes come last: the cache is pushed to the sites that answered.   *)
ToPush(w) == run' = [run EXCEPT ![w].pc = "push", ![w].todo = run[w].direct, ![w].direct = {}]

(* A first version is pinned as the root, and a registration's root when   *)
(* none is.                                                                *)
SetRoot(w) ==
    /\ run[w].pc = "setroot"
    /\ root' = [root EXCEPT ![w] = IF run[w].parents = {} THEN run[w].sha
                                   ELSE IF run[w].cmd = "register" THEN run[w].pin ELSE @]
    /\ IF run[w].cmd = "register" THEN ToPush(w) ELSE Goto(w, "setkey")
    /\ UNCHANGED <<version, store, cache, files, head, seen, signing, origin, record, bounds>>

SetSigningKey(w) ==
    /\ run[w].pc = "setkey"
    /\ signing' = [signing EXCEPT ![w] = TRUE]
    /\ IF run[w].cmd = "register" THEN Goto(w, "sethead") ELSE ToPush(w)
    /\ UNCHANGED <<version, store, cache, files, head, root, seen, origin, record, bounds>>

(* Mutant: the version is pushed without what it is built on. *)
PushVersionOnly(w) ==
    /\ run[w].pc = "push"
    /\ \E s \in Sites :
          /\ Next1(w, s)
          /\ \/ /\ store' = [store EXCEPT ![s] = @ \cup {run[w].sha}]
                /\ run' = [run EXCEPT ![w].todo = @ \ {s}, ![w].direct = @ \cup {s}]
             \/ /\ run' = [run EXCEPT ![w].todo = @ \ {s}]
                /\ UNCHANGED store
    /\ UNCHANGED <<version, cache, disk, record, bounds>>

(* The next site takes what the cache holds, or does not. *)
PushSite(w) ==
    /\ run[w].pc = "push"
    /\ \E s \in Sites :
          /\ Next1(w, s)
          /\ \/ /\ store' = [store EXCEPT ![s] = @ \cup cache[w]]
                /\ run' = [run EXCEPT ![w].todo = @ \ {s}, ![w].direct = @ \cup {s}]
             \/ /\ run' = [run EXCEPT ![w].todo = @ \ {s}]
                /\ UNCHANGED store
    /\ UNCHANGED <<version, cache, disk, record, bounds>>

(* Mutant: an apply goes on when no site took the version. *)
PushedAnywhere(w) ==
    /\ run[w].pc = "push" /\ run[w].todo = {}
    /\ IF run[w].cmd \in {"apply", "apply --site"}
       THEN run' = [run EXCEPT ![w].pc = "apply", ![w].todo = run[w].hosts]
       ELSE End(w)
    /\ UNCHANGED <<version, store, cache, disk, record, bounds>>

(* A publish is done.  An apply goes on to its hosts, unless no site took  *)
(* the version.                                                            *)
Pushed(w) ==
    /\ run[w].pc = "push" /\ run[w].todo = {}
    /\ IF run[w].cmd \in {"apply", "apply --site"} /\ run[w].direct # {}
       THEN run' = [run EXCEPT ![w].pc = "apply", ![w].todo = run[w].hosts]
       ELSE End(w)
    /\ UNCHANGED <<version, store, cache, disk, record, bounds>>

-----------------------------------------------------------------------------
(* Applying.                                                               *)

(* Mutant: a version just one revision newer is no witness. *)
WitnessesMuchNewer(s, rev, v) ==
    record[s].rev > rev + 1 \/ (record[s].rev = rev /\ record[s].id # v)

(* The witness: host s had a newer revision than the one about to be       *)
(* applied, or another version at the same one.                            *)
Witnesses(s, rev, v) ==
    record[s].rev > rev \/ (record[s].rev = rev /\ record[s].id # v)

(* What gatherForApply refuses, then the hosts' records against the        *)
(* version, whose revision is known before it is committed.                *)
Review(w) ==
    /\ run[w].pc = "review" /\ run[w].direct # {}
    /\ ParentsGiven(w, FALSE)
    /\ KeyGiven(w, run[w].files)
    /\ SignerGiven(w, run[w].heads, run[w].files)
    /\ LET parents == run[w].heads
           same    == {p \in parents : version[p].files = run[w].files}
       IN  \E rev \in 1..(MaxVersions + 1), v \in {None} \cup parents :
              LET warned == \E s \in run[w].hosts : Witnesses(s, rev, v)
              IN  /\ IF same = {} THEN v = None /\ Numbered(version, parents, rev)
                                  ELSE v \in same /\ rev = version[v].rev
                  /\ run' = [run EXCEPT ![w].pc = "prepare",
                                        ![w].words = IF warned THEN @ \cup {"host"} ELSE @]
    /\ UNCHANGED <<version, store, cache, disk, record, bounds>>

(* The next host's steps succeed and its record is written.  A step of     *)
(* apply for every site loads the files again, and stops if they changed.  *)
ApplySite(w) ==
    /\ run[w].pc = "apply"
    /\ run[w].cmd = "apply" => files[w] = run[w].files
    /\ \E s \in Sites :
          /\ Next1(w, s)
          /\ record' = [record EXCEPT ![s] = [rev |-> version[run[w].sha].rev, id |-> run[w].sha]]
          /\ run' = [run EXCEPT ![w].todo = @ \ {s}]
    /\ UNCHANGED <<version, store, cache, disk, bounds>>

Applied(w) ==
    /\ run[w].pc = "apply" /\ run[w].todo = {}
    /\ End(w)
    /\ UNCHANGED <<version, store, cache, disk, record, bounds>>

-----------------------------------------------------------------------------
(* Pulling and recovering.                                                 *)

(* Mutant: edits of the secrets do not count. *)
EditedConf(w, ours, theirs) ==
    /\ ours.conf # theirs.conf
    /\ head[w] \in cache[w] => ours.conf # version[head[w]].files.conf

(* Whether the files differ from the head's, and from the base's when it   *)
(* can be read.                                                            *)
Edited(w, ours, theirs) ==
    ours # theirs /\ (head[w] \in cache[w] => ours # version[head[w]].files)

(* runConfigPull once it has gathered: a fork is refused, files edited     *)
(* since an older base are merged when only the secrets were, and files    *)
(* with no edits are replaced by the head's.                               *)
Compare(w) ==
    /\ run[w].pc = "compare" /\ run[w].direct # {}
    /\ \E top \in run[w].heads :
          LET base   == head[w]
              theirs == version[top].files
              ours   == files[w]
              edited == Edited(w, ours, theirs)
              merged == [conf |-> theirs.conf,
                         sec  |-> MergedSecret(version[base].files.sec, ours.sec, theirs.sec)]
              write(f) == run' = [run EXCEPT ![w].pc = "writeconf", ![w].sha = top, ![w].files = f]
          IN  /\ run[w].heads = {top}
              /\ Complete(w)
              /\ \/ base = top /\ Goto(w, "record")
                 \/ base # top /\ ~edited /\ write(theirs)
                 \/ /\ base # top /\ edited /\ base \in cache[w]
                    /\ ours.conf \in {version[base].files.conf, theirs.conf}
                    /\ ~SecretConflict(version[base].files.sec, ours.sec, theirs.sec)
                    /\ write(merged)
    /\ UNCHANGED <<version, store, cache, disk, record, bounds>>

(* config recover: the heads found at the hosts named are gathered for     *)
(* again from every site, and then the head is checked out, unless there   *)
(* is a fork.                                                              *)
Choose(w) ==
    /\ run[w].pc = "choose"
    /\ \/ /\ run[w].hosts # {} /\ run[w].heads # {}
          /\ run' = [run EXCEPT ![w].pc = "gather", ![w].todo = Sites,
                                ![w].hosts = {}, ![w].direct = {}]
       \/ /\ run[w].hosts = {}
          /\ \E top \in run[w].heads :
                /\ run[w].heads = {top}
                /\ run' = [run EXCEPT ![w].pc = "writeconf", ![w].sha = top,
                                      ![w].pin = PinFor(w, @, top),
                                      ![w].files = version[top].files]
    /\ UNCHANGED <<version, store, cache, disk, record, bounds>>

(* WriteFiles replaces the files one by one, paisans-stack.yaml first. *)
WriteConf(w) ==
    /\ run[w].pc = "writeconf"
    /\ files' = [files EXCEPT ![w] = [conf |-> run[w].files.conf,
                                      sec  |-> IF @ = None THEN None ELSE @.sec]]
    /\ Goto(w, "writesec")
    /\ UNCHANGED <<version, store, cache, head, root, seen, signing, origin, record, bounds>>

WriteSecrets(w) ==
    /\ run[w].pc = "writesec"
    /\ files' = [files EXCEPT ![w] = [conf |-> @.conf, sec |-> run[w].files.sec]]
    /\ origin' = [origin EXCEPT ![w] = run[w].sha]
    /\ Goto(w, IF run[w].cmd = "register" THEN "setkey" ELSE "sethead")
    /\ UNCHANGED <<version, store, cache, head, root, seen, signing, record, bounds>>

(* recordPull. *)
RecordPull(w) ==
    /\ run[w].pc = "record"
    /\ seen' = [seen EXCEPT ![w] = AfterRecordSeen(w)]
    /\ root' = [root EXCEPT ![w] = IF run[w].pin # None THEN run[w].pin ELSE @]
    /\ End(w)
    /\ UNCHANGED <<version, store, cache, files, head, signing, origin, record, bounds>>

-----------------------------------------------------------------------------
(* The steps before a command's first write on its workstation's disk, but *)
(* for the cache and the seen record.  Signing comes last of them.         *)
Reading == {"gather", "prepare", "attest", "review", "compare", "choose", "commit"}

(* Something goes wrong. *)
Mishap(what) == what \in Mishaps /\ mishaps < MaxMishaps /\ mishaps' = mishaps + 1

(* The command ends here: while it only read, refused, not confirmed or    *)
(* interrupted, and after that interrupted or failed.                      *)
Stop(w) ==
    /\ run[w].pc # "idle"
    /\ End(w)
    /\ IF run[w].pc \in Reading THEN UNCHANGED mishaps ELSE Mishap("stop")
    /\ UNCHANGED <<version, store, cache, disk, record, edits>>

(* An operator edits the files. *)
Edit(w) ==
    /\ edits < MaxEdits
    /\ Complete(w)
    /\ run[w].cmd \in EditWhile
    /\ \E f \in Files \ {files[w]} : files' = [files EXCEPT ![w] = f]
    /\ edits' = edits + 1
    /\ UNCHANGED <<version, store, cache, head, root, seen, signing, origin, record, run, mishaps>>

(* An idle workstation loses its cache, its files, or everything on it. *)
Lose(w) ==
    /\ run[w].pc = "idle"
    /\ \E what \in {"workstation", "cache", "files"} :
          LET lost(kinds, f, none) == IF what \in kinds THEN [f EXCEPT ![w] = none] ELSE f
          IN  /\ Mishap(what)
              /\ cache'   = lost({"workstation", "cache"}, cache, {})
              /\ files'   = lost({"workstation", "files"}, files, None)
              /\ origin'  = lost({"workstation", "files"}, origin, None)
              /\ head'    = lost({"workstation"}, head, None)
              /\ root'    = lost({"workstation"}, root, None)
              /\ seen'    = lost({"workstation"}, seen, Unseen)
              /\ signing' = lost({"workstation"}, signing, FALSE)
    /\ UNCHANGED <<version, store, record, run, edits>>

(* The sets of versions that hold what each of them builds on. *)
Closed(S) == \A v \in S : version[v].parents \subseteq S

(* A site is restored from an older copy: its repository holds fewer       *)
(* versions.                                                               *)
SiteLoses(s) ==
    /\ Mishap("site")
    /\ \E S \in (SUBSET store[s]) \ {store[s]} :
           Closed(S) /\ store' = [store EXCEPT ![s] = S]
    /\ UNCHANGED <<version, cache, disk, record, run, edits>>

(* Mutant: the site mirrors its peer, and drops what the peer lacks. *)
SiteMirror(s, t) ==
    /\ s # t
    /\ store' = [store EXCEPT ![s] = store[t]]
    /\ UNCHANGED <<version, cache, disk, record, run, bounds>>

(* config-sync: site s fetches what its peer t holds, and drops nothing. *)
SiteSync(s, t) ==
    /\ s # t
    /\ store' = [store EXCEPT ![s] = @ \cup store[t]]
    /\ UNCHANGED <<version, cache, disk, record, run, bounds>>

-----------------------------------------------------------------------------
Command(w) ==
    \/ StartPublish(w) \/ StartPull(w) \/ StartRegister(w) \/ StartApply(w) \/ StartRecover(w)
    \/ AskSite(w) \/ JudgeGathered(w)
    \/ Prepare(w) \/ Attest(w) \/ Commit(w) \/ RaiseSeen(w) \/ SetHead(w) \/ SetRoot(w)
    \/ SetSigningKey(w) \/ PushSite(w) \/ Pushed(w)
    \/ Review(w) \/ ApplySite(w) \/ Applied(w)
    \/ Compare(w) \/ Choose(w) \/ WriteConf(w) \/ WriteSecrets(w) \/ RecordPull(w)
    \/ Stop(w)

Next ==
    \/ \E w \in Workstations : Command(w) \/ Edit(w) \/ Lose(w)
    \/ \E s \in Sites : SiteLoses(s)
    \/ \E s, t \in Sites : SiteSync(s, t)

Spec == Init /\ [][Next]_vars

(* Every site's timer keeps starting its sync, and a peer that answers is  *)
(* fetched from (config-sync.sh.tmpl).                                     *)
FairSpec == Spec /\ \A s, t \in Sites : WF_vars(SiteSync(s, t))

-----------------------------------------------------------------------------
Version == [parents : SUBSET Ids, rev : 1..MaxVersions, signer : Keys, files : Files,
            from : Ids \cup {None}, merge : BOOLEAN]
Seen    == [rev : 0..MaxVersions, id : Ids \cup {None}]
Change  == [rev : 0..MaxVersions, id : Ids \cup {None}, lower : BOOLEAN]
Steps   == {"idle", "gather", "prepare", "attest", "commit", "raise", "sethead", "setroot",
            "setkey", "push", "review", "apply", "compare", "choose", "writeconf", "writesec",
            "record"}
Run     == [cmd : AllCommands \cup {"none"}, pc : Steps, todo : SUBSET Sites,
            hosts : SUBSET Sites, direct : SUBSET Sites, pin : Ids \cup {None},
            trusted : SUBSET Ids, heads : SUBSET Ids,
            change : Change,
            sha : Ids \cup {None}, files : Files \cup {None}, from : Ids \cup {None},
            parents : SUBSET Ids, words : SUBSET {"seen", "host"}]

TypeOK ==
    /\ DOMAIN version \subseteq Ids
    /\ version \in [DOMAIN version -> Version]
    /\ store \in [Sites -> SUBSET DOMAIN version]
    /\ cache \in [Workstations -> SUBSET DOMAIN version]
    /\ files \in [Workstations -> Files \cup [conf : Confs, sec : {None}] \cup {None}]
    /\ head \in [Workstations -> Ids \cup {None}]
    /\ root \in [Workstations -> Ids \cup {None}]
    /\ seen \in [Workstations -> Seen]
    /\ signing \in [Workstations -> BOOLEAN]
    /\ record \in [Sites -> Seen]
    /\ run \in [Workstations -> Run]
    /\ origin \in [Workstations -> Ids \cup {None}]
    /\ edits \in 0..MaxEdits
    /\ mishaps \in 0..MaxMishaps

(* No store has a hole: a site or a cache that holds a version holds all   *)
(* it is built on, whatever was pushed, synced, lost or interrupted, so    *)
(* Judge never rejects an honest version for a parent it cannot see.       *)
HeldClosed ==
    /\ \A s \in Sites : Closed(store[s])
    /\ \A w \in Workstations : Closed(cache[w])

(* No version silently undoes one it is built on (Parents' stale refusal): *)
(* but for a merge by hand, the files a version is made from came from     *)
(* each parent itself or from something built on it.                       *)
NoStaleOverwrite ==
    [][\A v \in DOMAIN version' \ DOMAIN version :
          LET made == version'[v]
          IN  made.merge \/ made.parents \subseteq
                  {made.from} \cup Ancestors(Ancestry(version), made.from)]_vars

(* The version a command pushes is the one head of the cache it is pushed  *)
(* with, on the workstation that pushes it and on one that pins the root.  *)
HeadForAll ==
    \A w \in Workstations : run[w].pc = "push" =>
        \A a \in {Anchor(w, run[w].cmd, None)}
                  \cup {[signer |-> NoKey, root |-> r] : r \in Roots \cap cache[w]} :
            Judged(cache[w], a).heads = {run[w].sha}

(* Some version lists a key that a version it is built on removed.         *)
KeyReturned ==
    \E v \in DOMAIN version : \E r \in Ancestors(Ancestry(version), v) : \E p \in version[r].parents :
        LET removed == Listed[version[p].files.conf] \ Listed[version[r].files.conf]
        IN  removed \cap Listed[version[v].files.conf] # {}

(* What the checks before a publish promise (Parents and CheckSigner, in   *)
(* four commands) is what Judge decides of the version they let through.   *)
(* The promise is kept until a removed key is listed again: CheckSigner    *)
(* then lets through what every other workstation's Judge bars for good.   *)
PublishedIsHead == HeadForAll \/ KeyReturned

(* What an operator signed and any site holds, that workstation remembers: *)
(* config-seen is raised before the version can leave the workstation.     *)
OwnIsSeen ==
    \A w \in Workstations, s \in Sites : \A v \in store[s] :
        version[v].signer = KeyOf[w] => version[v].rev <= seen[w].rev

(* A version on a host is in the store: some site holds what each host's   *)
(* record says was applied there, wherever the apply or the push stopped.  *)
AppliedIsStored ==
    \A s \in Sites : record[s].id # None => \E t \in Sites : record[s].id \in store[t]

(* An edit is never lost: what a command writes over in the local files is *)
(* a value some version in the workstation's store has.                    *)
EditsSurvive ==
    [][\A w \in Workstations :
          run[w].pc \in {"writeconf", "writesec"} /\ Complete(w) =>
              /\ files'[w].conf # files[w].conf =>
                     \E v \in cache[w] : version[v].files.conf = files[w].conf
              /\ files'[w].sec # files[w].sec =>
                     \E v \in cache[w] : version[v].files.sec = files[w].sec]_vars

(* The hosts are witnesses: a host's record goes to an older revision, or  *)
(* to another version at the same one, only in an apply whose operator     *)
(* typed rollback for it.                                                  *)
WitnessHolds ==
    [][\A s \in Sites :
          record'[s] # record[s] /\ record'[s].rev <= record[s].rev =>
              \E w \in Workstations : run[w].pc = "apply" /\ "host" \in run[w].words]_vars

(* A version any site took reaches every site by the sites' own syncs,     *)
(* however the publish that pushed it ended.                               *)
EverySiteLearns ==
    \A v \in Ids :
        (\E s \in Sites : v \in store[s]) ~> (\A s \in Sites : v \in store[s])
=============================================================================
