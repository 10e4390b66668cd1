------------------------- MODULE ConfigStore_proofs -------------------------
(***************************************************************************)
(* Proofs about ConfigStore, for any workstations, sites, keys, files and  *)
(* bounds: its types, that no store has a hole, that a version on a host   *)
(* is in the store, and that no edit is written over.  Each lemma about an *)
(* action also says which step it leads to and what it leaves alone, for   *)
(* the last two.                                                           *)
(*                                                                         *)
(* Then proofs about Judge, for any graph of versions and any anchor: what *)
(* each of its loops ends with (Loops, by induction over the rounds), that *)
(* it trusts the smallest set that defends itself, and what follows for    *)
(* every graph fetched and for every workstation's cache.                  *)
(*                                                                         *)
(* Then proofs about whole runs of commands: the hosts are witnesses while *)
(* one operator applies at a time; every version is made on what its       *)
(* publisher held; and, where no key was removed and one first version was *)
(* made, what is published is the head its publisher had, an operator sees *)
(* what that operator signed, nothing is undone, and nobody is asked to    *)
(* accept an older version.                                                *)
(***************************************************************************)
EXTENDS ConfigStore, Verdicts, FiniteSetTheorems, WellFoundedInduction, TLAPS

(* The steps at which a command has a version in hand, and those at which  *)
(* it has files to commit or to write.                                     *)
WithVersion == {"raise", "sethead", "setroot", "setkey", "push", "apply", "writeconf", "writesec"}
WithFiles   == {"commit", "raise", "writeconf", "writesec"}

(* What a run of a workstation that holds these versions and these files   *)
(* has in hand: nothing when idle, and otherwise versions the cache has,   *)
(* so that one committed on them, pushed or checked out never misses a     *)
(* parent.                                                                 *)
Sound(r, held, mine) ==
    /\ r.pc = "idle" => r = Idle
    /\ r.heads \subseteq held
    /\ r.parents \subseteq held
    /\ r.pc \in WithVersion => r.sha \in held
    /\ r.pc \in WithFiles => r.files \in Files
    /\ r.pc = "writesec" => mine # None

RunSound == \A w \in Workstations : Sound(run[w], cache[w], files[w])

IInv == TypeOK /\ HeldClosed /\ RunSound

-----------------------------------------------------------------------------
(* What Judge trusts is among the versions it is given, and the heads are  *)
(* among what it trusts.                                                   *)
LEMMA JudgeHolds ==
    ASSUME NEW g, NEW a
    PROVE  /\ Judge(g, a).trusted \subseteq DOMAIN g
           /\ Judge(g, a).heads \subseteq Judge(g, a).trusted
  BY DEF Judge, Refused, HeadsOf

LEMMA JudgedHolds ==
    ASSUME NEW held, NEW a
    PROVE  /\ Judged(held, a).trusted \subseteq held
           /\ Judged(held, a).heads \subseteq held
<1>1. DOMAIN Graph(held) = held
  BY DEF Graph
<1>. QED
  BY <1>1, JudgeHolds DEF Judged

(* The root a command pins is the one given, the one pinned before, or one *)
(* that exists.                                                            *)
LEMMA PinForType ==
    ASSUME IInv, NEW w \in Workstations, NEW given \in Ids \cup {None}, NEW v
    PROVE  PinFor(w, given, v) \in Ids \cup {None}
<1>. DEFINE roots == RootsOf(Graph(cache[w]), v)
<1>1. roots \subseteq Ids
  BY DEF RootsOf, Graph, IInv, TypeOK
<1>2. Cardinality(roots) = 1 => (CHOOSE r \in roots : TRUE) \in Ids
  BY <1>1, FS_EmptySet
<1>3. root[w] \in Ids \cup {None}
  BY DEF IInv, TypeOK
<1>. QED
  BY <1>2, <1>3 DEF PinFor

-----------------------------------------------------------------------------
LEMMA IdleType == Idle \in Run /\ Idle.heads = {} /\ Idle.parents = {} /\ Idle.pc = "idle"
  BY ConstantsAssumption DEF Idle, Run, Steps, NoChange, Change

LEMMA InitIInv == Init => IInv
<1>. SUFFICES ASSUME Init PROVE IInv
  OBVIOUS
<1>1. TypeOK
  BY ConstantsAssumption, IdleType
  DEF Init, TypeOK, Seen, Unseen, Ids
<1>2. HeldClosed
  BY DEF Init, HeldClosed, Closed
<1>3. RunSound
  BY IdleType DEF Init, RunSound, Sound, WithVersion, WithFiles
<1>. QED
  BY <1>1, <1>2, <1>3 DEF IInv

(* A step of workstation w leaves the others' runs, files and caches alone,*)
(* and takes its command on to one of these steps.                         *)
Elsewhere(w) ==
    \A u \in Workstations \ {w} :
        run'[u] = run[u] /\ files'[u] = files[u] /\ cache'[u] = cache[u]
Turns(w, pcs) == Elsewhere(w) /\ run'[w].pc \in pcs

(* One workstation's run goes on, in step with its cache and its files.    *)
LEMMA RunUpdate ==
    ASSUME IInv, NEW w \in Workstations, NEW r \in Run,
           run' = [run EXCEPT ![w] = r],
           Sound(r, cache'[w], files'[w]),
           \A u \in Workstations \ {w} : cache'[u] = cache[u] /\ files'[u] = files[u]
    PROVE  run' \in [Workstations -> Run] /\ RunSound' /\ run'[w] = r /\ Elsewhere(w)
  BY DEF IInv, TypeOK, RunSound, Elsewhere

(* A step that leaves every store and every version as they are leaves no  *)
(* hole.                                                                   *)
LEMMA StoresUnchanged ==
    ASSUME IInv, UNCHANGED <<version, store, cache>>
    PROVE  HeldClosed'
  BY DEF IInv, HeldClosed, Closed

(* Every command begins with nothing in hand. *)
LEMMA BeginIInv ==
    ASSUME IInv, NEW w \in Workstations, NEW r \in Run, r.heads = {}, r.parents = {},
           Begin(w, r)
    PROVE  IInv' /\ Turns(w, {"gather"}) /\ run'[w].cmd = r.cmd
<1>. DEFINE q == [r EXCEPT !.pc = "gather"]
<1>1. q \in Run /\ q.heads = {} /\ q.parents = {} /\ q.pc = "gather"
  BY DEF Run, Steps
<1>2. Sound(q, cache'[w], files'[w])
  BY <1>1 DEF Sound, WithVersion, WithFiles
<1>3. run' \in [Workstations -> Run] /\ RunSound' /\ run'[w] = q /\ Elsewhere(w)
  BY <1>1, <1>2, RunUpdate DEF Begin, disk
<1>4. HeldClosed'
  BY StoresUnchanged DEF Begin
<1>5. q.cmd = r.cmd
  BY DEF Run
<1>. QED
  BY <1>1, <1>3, <1>4, <1>5 DEF Begin, IInv, TypeOK, Turns, disk, bounds

(* A step of a command that writes neither the stores, the cache nor the   *)
(* files: what is left to show is what its run holds and what it records.  *)
LEMMA QuietStep ==
    ASSUME IInv, NEW w \in Workstations, NEW r \in Run,
           run' = [run EXCEPT ![w] = r],
           UNCHANGED <<version, store, cache, files>>,
           Sound(r, cache[w], files[w]),
           head' \in [Workstations -> Ids \cup {None}],
           root' \in [Workstations -> Ids \cup {None}],
           origin' \in [Workstations -> Ids \cup {None}],
           seen' \in [Workstations -> Seen],
           signing' \in [Workstations -> BOOLEAN],
           record' \in [Sites -> Seen],
           edits' \in 0..MaxEdits, mishaps' \in 0..MaxMishaps
    PROVE  IInv' /\ run'[w] = r /\ Elsewhere(w)
<1>1. run' \in [Workstations -> Run] /\ RunSound' /\ run'[w] = r /\ Elsewhere(w)
  BY RunUpdate
<1>2. HeldClosed'
  BY StoresUnchanged
<1>. QED
  BY <1>1, <1>2 DEF IInv, TypeOK

(* Going on to another step changes nothing else a run holds. *)
LEMMA GotoType ==
    ASSUME IInv, NEW w \in Workstations, NEW p \in Steps, Goto(w, p)
    PROVE  \E r \in Run : /\ run' = [run EXCEPT ![w] = r]
                          /\ r.cmd = run[w].cmd /\ r.pc = p /\ r.heads = run[w].heads /\ r.parents = run[w].parents
                          /\ r.sha = run[w].sha /\ r.files = run[w].files
<1>. DEFINE r == [run[w] EXCEPT !.pc = p]
<1>1. run \in [Workstations -> Run] /\ run[w] \in Run
  BY DEF IInv, TypeOK
<1>2. r \in Run
  BY <1>1 DEF Run
<1>3. run' = [run EXCEPT ![w] = r]
  BY <1>1 DEF Goto
<1>. QED
  BY <1>1, <1>2, <1>3 DEF Run

(* An interrupted or finished command leaves nothing in hand. *)
LEMMA IdleSound ==
    ASSUME NEW held, NEW mine PROVE Sound(Idle, held, mine)
  BY IdleType DEF Sound, WithVersion, WithFiles

(* What the records hold: revisions and versions within the bounds. *)
LEMMA SeenType ==
    ASSUME IInv, NEW w \in Workstations
    PROVE  /\ AfterRecordSeen(w) \in Seen
           /\ \A v \in DOMAIN version : /\ Raise(seen[w], version[v].rev, v) \in Seen
                                        /\ [rev |-> version[v].rev, id |-> v] \in Seen
<1>1. seen[w] \in Seen /\ run[w].change \in Change
  BY DEF IInv, TypeOK, Run
<1>2. \A v \in DOMAIN version : version[v].rev \in 0..MaxVersions /\ v \in Ids
  BY DEF IInv, TypeOK, Version
<1>. QED
  BY <1>1, <1>2 DEF AfterRecordSeen, Raise, Seen, Change

-----------------------------------------------------------------------------
(* The steps that start a command. *)
LEMMA StartsIInv ==
    ASSUME IInv, NEW w \in Workstations,
           \/ StartPublish(w) \/ StartPull(w) \/ StartRegister(w) \/ StartApply(w)
           \/ StartRecover(w)
    PROVE  IInv' /\ Turns(w, {"gather"}) /\ (run'[w].cmd = "recover" => ~Complete(w))
<1>. USE IdleType
<1>0. Roots \subseteq Ids
  BY DEF Roots, IInv, TypeOK
<1>1. CASE StartPublish(w)
  <2>1. PICK cmd \in {"publish", "merge"} :
            Begin(w, [Idle EXCEPT !.cmd = cmd, !.todo = Sites])
    BY <1>1 DEF StartPublish
  <2>. DEFINE q == [Idle EXCEPT !.cmd = cmd, !.todo = Sites]
  <2>2. q \in Run /\ q.cmd = cmd /\ q.heads = {} /\ q.parents = {}
    BY DEF Run, AllCommands
  <2>. QED
    BY <2>1, <2>2, BeginIInv
<1>2. CASE StartPull(w)
  <2>1. PICK pin \in {None} \cup Roots :
            Begin(w, [Idle EXCEPT !.cmd = "pull", !.todo = Sites, !.pin = pin])
    BY <1>2 DEF StartPull
  <2>. DEFINE q == [Idle EXCEPT !.cmd = "pull", !.todo = Sites, !.pin = pin]
  <2>2. q \in Run /\ q.cmd = "pull" /\ q.heads = {} /\ q.parents = {}
    BY <1>0 DEF Run, AllCommands
  <2>. QED
    BY <2>1, <2>2, BeginIInv
<1>3. CASE StartRegister(w)
  <2>1. PICK pin \in {None} \cup Roots :
            Begin(w, [Idle EXCEPT !.cmd = "register", !.todo = Sites, !.pin = pin])
    BY <1>3 DEF StartRegister
  <2>. DEFINE q == [Idle EXCEPT !.cmd = "register", !.todo = Sites, !.pin = pin]
  <2>2. q \in Run /\ q.cmd = "register" /\ q.heads = {} /\ q.parents = {}
    BY <1>0 DEF Run, AllCommands
  <2>. QED
    BY <2>1, <2>2, BeginIInv
<1>4. CASE StartApply(w)
  <2>1. PICK cmd \in {"apply", "apply --site"}, hosts \in {Sites} \cup {{s} : s \in Sites} :
            Begin(w, [Idle EXCEPT !.cmd = cmd, !.todo = Sites, !.hosts = hosts,
                                  !.files = files[w], !.from = origin[w]])
    BY <1>4 DEF StartApply
  <2>2. files[w] \in Files
    BY <1>4 DEF StartApply, Complete, IInv, TypeOK
  <2>3. origin[w] \in Ids \cup {None}
    BY DEF IInv, TypeOK
  <2>4. hosts \subseteq Sites /\ cmd \in AllCommands
    BY DEF AllCommands
  <2>. DEFINE q == [Idle EXCEPT !.cmd = cmd, !.todo = Sites, !.hosts = hosts,
                                !.files = files[w], !.from = origin[w]]
  <2>5. q \in Run /\ q.cmd = cmd /\ q.heads = {} /\ q.parents = {}
    BY <2>2, <2>3, <2>4 DEF Run
  <2>. QED
    BY <2>1, <2>5, BeginIInv
<1>5. CASE StartRecover(w)
  <2>1. PICK from \in (SUBSET Sites) \ {{}}, pin \in {None} \cup Roots :
            /\ files[w] = None
            /\ Begin(w, [Idle EXCEPT !.cmd = "recover", !.todo = from, !.hosts = from, !.pin = pin])
    BY <1>5 DEF StartRecover
  <2>. DEFINE q == [Idle EXCEPT !.cmd = "recover", !.todo = from, !.hosts = from, !.pin = pin]
  <2>2. q \in Run /\ q.cmd = "recover" /\ q.heads = {} /\ q.parents = {}
    BY <1>0 DEF Run, AllCommands
  <2>. QED
    BY <2>1, <2>2, BeginIInv DEF Complete
<1>. QED
  BY <1>1, <1>2, <1>3, <1>4, <1>5

(* The steps of a gather. *)
LEMMA GatherIInv ==
    ASSUME IInv, NEW w \in Workstations, AskSite(w) \/ JudgeGathered(w)
    PROVE  IInv' /\ Turns(w, {"gather", AfterGather(w)}) /\ run'[w].cmd = run[w].cmd
<1>1. CASE AskSite(w)
  <2>0. run \in [Workstations -> Run] /\ run[w] \in Run
    BY DEF IInv, TypeOK
  <2>1. PICK s \in Sites :
            \/ /\ cache' = [cache EXCEPT ![w] = @ \cup store[s]]
               /\ run' = [run EXCEPT ![w].todo = @ \ {s}, ![w].direct = @ \cup {s}]
            \/ /\ run' = [run EXCEPT ![w].todo = @ \ {s}]
               /\ UNCHANGED cache
    BY <1>1 DEF AskSite
  <2>2. run[w].pc = "gather" /\ UNCHANGED <<version, store, disk, record, bounds>>
    BY <1>1 DEF AskSite
  <2>3. /\ cache' \in [Workstations -> SUBSET DOMAIN version]
        /\ cache[w] \subseteq cache'[w]
        /\ \A u \in Workstations \ {w} : cache'[u] = cache[u]
    BY <2>1 DEF IInv, TypeOK
  <2>4. \E r \in Run : /\ run' = [run EXCEPT ![w] = r]
                       /\ r.pc = "gather" /\ r.cmd = run[w].cmd /\ r.heads = run[w].heads
                       /\ r.parents = run[w].parents
    <3>1. CASE run' = [run EXCEPT ![w].todo = @ \ {s}, ![w].direct = @ \cup {s}]
      <4>. DEFINE r == [run[w] EXCEPT !.todo = @ \ {s}, !.direct = @ \cup {s}]
      <4>1. r \in Run
        BY <2>0 DEF Run
      <4>2. run' = [run EXCEPT ![w] = r]
        BY <3>1, <2>0
      <4>. QED
        BY <4>1, <4>2, <2>0, <2>2 DEF Run
    <3>2. CASE run' = [run EXCEPT ![w].todo = @ \ {s}]
      <4>. DEFINE r == [run[w] EXCEPT !.todo = @ \ {s}]
      <4>1. r \in Run
        BY <2>0 DEF Run
      <4>2. run' = [run EXCEPT ![w] = r]
        BY <3>2, <2>0
      <4>. QED
        BY <4>1, <4>2, <2>0, <2>2 DEF Run
    <3>. QED
      BY <2>1, <3>1, <3>2
  <2>5. PICK r \in Run : /\ run' = [run EXCEPT ![w] = r]
                        /\ r.pc = "gather" /\ r.cmd = run[w].cmd /\ r.heads = run[w].heads
                        /\ r.parents = run[w].parents
    BY <2>4
  <2>6. Sound(r, cache'[w], files'[w])
    BY <2>3, <2>5 DEF Sound, IInv, RunSound, WithVersion, WithFiles
  <2>7. run' \in [Workstations -> Run] /\ RunSound' /\ run'[w] = r /\ Elsewhere(w)
    BY <2>2, <2>3, <2>5, <2>6, RunUpdate DEF disk
  <2>8. HeldClosed'
    BY <2>1, <2>2, <2>3 DEF IInv, TypeOK, HeldClosed, Closed
  <2>. QED
    BY <2>2, <2>3, <2>5, <2>7, <2>8 DEF IInv, TypeOK, Turns, disk, bounds
<1>2. CASE JudgeGathered(w)
  <2>. DEFINE v == Judged(cache[w], Anchor(w, run[w].cmd, run[w].pin))
  <2>0. run \in [Workstations -> Run] /\ run[w] \in Run
    BY DEF IInv, TypeOK
  <2>1. PICK change \in Change :
            run' = [run EXCEPT ![w].pc = AfterGather(w),
                               ![w].trusted = v.trusted, ![w].heads = v.heads,
                               ![w].change = change,
                               ![w].words = IF change.lower THEN {"seen"} ELSE {}]
    <3>1. NoChange \in Change
      BY ConstantsAssumption DEF NoChange, Change
    <3>2. \A top \in v.heads : /\ version[top].rev \in 0..MaxVersions
                               /\ top \in Ids
      BY JudgedHolds DEF IInv, TypeOK, Version
    <3>3. CASE v.heads = {}
      BY <1>2, <3>1, <3>3 DEF JudgeGathered
    <3>4. CASE v.heads # {}
      <4>. DEFINE c(top) == IF version[top].rev = seen[w].rev THEN NoChange
                            ELSE [rev |-> version[top].rev, id |-> top,
                                  lower |-> version[top].rev < seen[w].rev]
      <4>1. PICK top \in v.heads :
                run' = [run EXCEPT ![w].pc = AfterGather(w),
                                   ![w].trusted = v.trusted, ![w].heads = v.heads,
                                   ![w].change = c(top),
                                   ![w].words = IF c(top).lower THEN {"seen"} ELSE {}]
        BY <1>2, <3>4 DEF JudgeGathered
      <4>2. c(top) \in Change
        BY <3>1, <3>2 DEF Change
      <4>. QED
        BY <4>1, <4>2
    <3>. QED
      BY <3>3, <3>4
  <2>2. run[w].pc = "gather" /\ UNCHANGED <<version, store, cache, disk, record, bounds>>
    BY <1>2 DEF JudgeGathered
  <2>. DEFINE r == [run[w] EXCEPT !.pc = AfterGather(w), !.trusted = v.trusted,
                                  !.heads = v.heads, !.change = change,
                                  !.words = IF change.lower THEN {"seen"} ELSE {}]
  <2>3. v.trusted \subseteq cache[w] /\ v.heads \subseteq cache[w] /\ cache[w] \subseteq Ids
    BY JudgedHolds DEF IInv, TypeOK
  <2>4. AfterGather(w) \in {"compare", "attest", "choose", "review", "prepare"}
    BY DEF AfterGather
  <2>5. r \in Run
    <3>. HIDE DEF v
    <3>1. AfterGather(w) \in Steps
      BY <2>4 DEF Steps
    <3>2. v.trusted \in SUBSET Ids /\ v.heads \in SUBSET Ids
      BY <2>3
    <3>3. (IF change.lower THEN {"seen"} ELSE {}) \in SUBSET {"seen", "host"}
      OBVIOUS
    <3>. QED
      BY <2>0, <2>1, <3>1, <3>2, <3>3 DEF Run
  <2>6. run' = [run EXCEPT ![w] = r]
    BY <2>0, <2>1
  <2>7. /\ r.pc = AfterGather(w) /\ r.heads = v.heads /\ r.parents = run[w].parents
        /\ r.cmd = run[w].cmd
    BY <2>0 DEF Run
  <2>8. Sound(r, cache[w], files[w])
    BY <2>3, <2>4, <2>7 DEF Sound, IInv, RunSound, WithVersion, WithFiles
  <2>. QED
    BY <2>2, <2>5, <2>6, <2>7, <2>8, QuietStep DEF disk, bounds, IInv, TypeOK, Turns
<1>. QED
  BY <1>1, <1>2

(* The steps of a publish and of a registration before the commit. *)
LEMMA PrepareIInv ==
    ASSUME IInv, NEW w \in Workstations, Prepare(w)
    PROVE  IInv' /\ Turns(w, {"sethead", "commit"})
<1>. DEFINE merge  == run[w].cmd = "merge"
            loaded == run[w].files # None
            f      == IF loaded THEN run[w].files ELSE files[w]
            from   == IF loaded THEN run[w].from ELSE origin[w]
            same   == ~merge /\ run[w].heads = {head[w]} /\ version[head[w]].files = f
            pc     == IF same THEN "sethead" ELSE "commit"
            sha    == IF same THEN head[w] ELSE None
            r      == [run[w] EXCEPT !.pc = pc, !.sha = sha, !.files = f, !.from = from,
                                     !.parents = run[w].heads]
<1>1. run \in [Workstations -> Run] /\ run[w] \in Run
  BY DEF IInv, TypeOK
<1>2. /\ loaded \/ Complete(w)
      /\ seen' = [seen EXCEPT ![w] = AfterRecordSeen(w)]
      /\ run' = [run EXCEPT ![w].pc = pc, ![w].sha = sha, ![w].files = f, ![w].from = from,
                            ![w].parents = run[w].heads]
      /\ UNCHANGED <<version, store, cache, files, head, root, signing, origin, record, bounds>>
  BY DEF Prepare
<1>3. f \in Files /\ from \in Ids \cup {None}
  <2>1. files[w] \in Files \cup [conf : Confs, sec : {None}] \cup {None}
        /\ origin[w] \in Ids \cup {None}
    BY DEF IInv, TypeOK
  <2>2. run[w].files \in Files \cup {None} /\ run[w].from \in Ids \cup {None}
    BY <1>1 DEF Run
  <2>. QED
    BY <1>2, <2>1, <2>2 DEF Complete
<1>4. run[w].heads \subseteq cache[w] /\ cache[w] \subseteq Ids
  BY DEF IInv, TypeOK, RunSound, Sound
<1>5. pc \in {"sethead", "commit"} /\ sha \in Ids \cup {None} /\ (pc = "sethead" => sha \in cache[w])
  BY <1>4
<1>. HIDE DEF f, from, pc, sha
<1>6. r \in Run
  BY <1>1, <1>3, <1>4, <1>5 DEF Run, Steps
<1>7. run' = [run EXCEPT ![w] = r]
  BY <1>1, <1>2
<1>8. r.pc = pc /\ r.sha = sha /\ r.files = f /\ r.parents = run[w].heads /\ r.heads = run[w].heads
  BY <1>1 DEF Run
<1>9. Sound(r, cache[w], files[w])
  BY <1>3, <1>4, <1>5, <1>8 DEF Sound, WithVersion, WithFiles
<1>10. seen' \in [Workstations -> Seen]
  BY <1>2, SeenType DEF IInv, TypeOK
<1>. HIDE DEF r
<1>. QED
  BY <1>2, <1>5, <1>6, <1>7, <1>8, <1>9, <1>10, QuietStep DEF IInv, TypeOK, Turns, bounds

LEMMA AttestIInv ==
    ASSUME IInv, NEW w \in Workstations, Attest(w)
    PROVE  /\ IInv' /\ Turns(w, {"commit", "writeconf", "setkey"})
           /\ run'[w].pc = "writeconf" => ~Complete(w)
<1>1. run \in [Workstations -> Run] /\ run[w] \in Run
  BY DEF IInv, TypeOK
<1>. DEFINE f(top)   == version[top].files
            own(top) == version[top].signer = KeyOf[w]
            pin(top) == PinFor(w, run[w].pin, top)
            pc(top)  == IF ~own(top) THEN "commit"
                        ELSE IF files[w] = None THEN "writeconf" ELSE "setkey"
            sha(top) == IF own(top) THEN top ELSE None
<1>2. PICK top \in run[w].heads :
          /\ seen' = [seen EXCEPT ![w] = AfterRecordSeen(w)]
          /\ origin' = [origin EXCEPT ![w] = IF files[w] = f(top) THEN top ELSE @]
          /\ run' = [run EXCEPT ![w].pc = pc(top), ![w].sha = sha(top), ![w].files = f(top),
                                ![w].from = top, ![w].parents = {top}, ![w].pin = pin(top)]
  BY DEF Attest
<1>3. UNCHANGED <<version, store, cache, files, head, root, signing, record, bounds>>
  BY DEF Attest
<1>. DEFINE r == [run[w] EXCEPT !.pc = pc(top), !.sha = sha(top), !.files = f(top), !.from = top,
                                !.parents = {top}, !.pin = pin(top)]
<1>4. run[w].heads \subseteq cache[w] /\ cache[w] \subseteq Ids /\ cache[w] \subseteq DOMAIN version
  BY DEF IInv, TypeOK, RunSound, Sound
<1>5. f(top) \in Files
  BY <1>4 DEF IInv, TypeOK, Version
<1>6. pin(top) \in Ids \cup {None}
  BY <1>1, PinForType DEF Run
<1>7. /\ pc(top) \in {"commit", "writeconf", "setkey"}
      /\ sha(top) \in Ids \cup {None}
      /\ pc(top) \in WithVersion => sha(top) \in cache[w]
      /\ pc(top) = "writeconf" => ~Complete(w)
  BY <1>4 DEF WithVersion, Complete
<1>. HIDE DEF f, pin, pc, sha
<1>8. r \in Run
  BY <1>1, <1>4, <1>5, <1>6, <1>7 DEF Run, Steps
<1>9. run' = [run EXCEPT ![w] = r]
  BY <1>1, <1>2
<1>10. /\ r.pc = pc(top) /\ r.sha = sha(top) /\ r.files = f(top) /\ r.parents = {top}
       /\ r.heads = run[w].heads
  BY <1>1 DEF Run
<1>11. Sound(r, cache[w], files[w])
  BY <1>4, <1>5, <1>7, <1>10 DEF Sound
<1>12. seen' \in [Workstations -> Seen] /\ origin' \in [Workstations -> Ids \cup {None}]
  BY <1>2, <1>4, SeenType DEF IInv, TypeOK
<1>. QED
  BY <1>3, <1>7, <1>8, <1>9, <1>10, <1>11, <1>12, QuietStep DEF IInv, TypeOK, Turns, bounds

(* A commit adds a version on parents its own cache holds. *)
LEMMA CommitIInv ==
    ASSUME IInv, NEW w \in Workstations, Commit(w)
    PROVE  /\ IInv' /\ Turns(w, {"raise"})
           /\ \A v \in DOMAIN version : v \in DOMAIN version' /\ version'[v] = version[v]
<1>1. run \in [Workstations -> Run] /\ run[w] \in Run /\ run[w].pc = "commit"
  BY DEF Commit, IInv, TypeOK
<1>. DEFINE made(rev) == [parents |-> run[w].parents, rev |-> rev, signer |-> KeyOf[w],
                          files |-> run[w].files, from |-> run[w].from,
                          merge |-> run[w].cmd = "merge"]
            r(v)      == [run[w] EXCEPT !.pc = "raise", !.sha = v]
<1>2. PICK v \in Ids \ DOMAIN version, rev \in 1..MaxVersions :
          /\ version' = [u \in DOMAIN version \cup {v} |->
                             IF u = v THEN made(rev) ELSE version[u]]
          /\ cache' = [cache EXCEPT ![w] = @ \cup {v}]
          /\ origin' = [origin EXCEPT ![w] = IF files[w] = None THEN None ELSE v]
          /\ run' = [run EXCEPT ![w].pc = "raise", ![w].sha = v]
  BY DEF Commit
<1>3. UNCHANGED <<store, files, head, root, seen, signing, record, bounds>>
  BY DEF Commit
<1>4. Sound(run[w], cache[w], files[w]) /\ cache[w] \subseteq DOMAIN version
  BY DEF IInv, TypeOK, RunSound
<1>5. made(rev) \in Version
  <2>1. run[w].files \in Files /\ run[w].parents \subseteq Ids /\ run[w].from \in Ids \cup {None}
    BY <1>1, <1>4 DEF Sound, WithFiles, Run
  <2>2. KeyOf[w] \in Keys
    BY ConstantsAssumption
  <2>. QED
    BY <2>1, <2>2 DEF Version
<1>6. /\ DOMAIN version' = DOMAIN version \cup {v} /\ DOMAIN version' \subseteq Ids
      /\ version' \in [DOMAIN version' -> Version]
      /\ \A u \in DOMAIN version : version'[u] = version[u]
      /\ version'[v].parents = run[w].parents
  BY <1>2, <1>5 DEF IInv, TypeOK
<1>7. /\ cache' \in [Workstations -> SUBSET DOMAIN version']
      /\ store' \in [Sites -> SUBSET DOMAIN version']
      /\ cache'[w] = cache[w] \cup {v}
      /\ \A u \in Workstations \ {w} : cache'[u] = cache[u]
  BY <1>2, <1>3, <1>6 DEF IInv, TypeOK
<1>8. HeldClosed'
  <2>1. \A S \in SUBSET DOMAIN version : Closed(S) => \A x \in S : version'[x].parents \subseteq S
    BY <1>6 DEF Closed
  <2>2. \A s \in Sites : store'[s] \subseteq DOMAIN version /\ store'[s] = store[s]
    BY <1>3 DEF IInv, TypeOK
  <2>3. \A u \in Workstations \ {w} : cache'[u] \subseteq DOMAIN version /\ cache'[u] = cache[u]
    BY <1>7 DEF IInv, TypeOK
  <2>4. \A x \in cache'[w] : version'[x].parents \subseteq cache'[w]
    BY <1>4, <1>6, <1>7, <2>1 DEF IInv, HeldClosed, Sound
  <2>. QED
    BY <2>1, <2>2, <2>3, <2>4 DEF IInv, HeldClosed, Closed
<1>9. r(v) \in Run /\ run' = [run EXCEPT ![w] = r(v)]
  <2>1. r(v) \in Run
    BY <1>1 DEF Run, Steps
  <2>. QED
    BY <1>1, <1>2, <2>1
<1>10. /\ r(v).pc = "raise" /\ r(v).sha = v /\ r(v).files = run[w].files
       /\ r(v).heads = run[w].heads /\ r(v).parents = run[w].parents
  BY <1>1 DEF Run
<1>11. Sound(r(v), cache'[w], files'[w])
  BY <1>1, <1>3, <1>4, <1>7, <1>10 DEF Sound, WithVersion, WithFiles
<1>12. run' \in [Workstations -> Run] /\ RunSound' /\ run'[w] = r(v) /\ Elsewhere(w)
  BY <1>3, <1>7, <1>9, <1>11, RunUpdate
<1>13. origin' \in [Workstations -> Ids \cup {None}]
  BY <1>2 DEF IInv, TypeOK
<1>. QED
  BY <1>3, <1>6, <1>7, <1>8, <1>10, <1>12, <1>13 DEF IInv, TypeOK, Turns, bounds

(* Going on to a step for which the run has what it needs in hand.         *)
LEMMA GotoIInv ==
    ASSUME IInv, NEW w \in Workstations, NEW p \in Steps \ {"idle"}, Goto(w, p),
           UNCHANGED <<version, store, cache, files, origin, record, bounds>>,
           p \in WithVersion => run[w].sha \in cache[w],
           p \in WithFiles => run[w].files \in Files,
           p = "writesec" => files[w] # None,
           head' \in [Workstations -> Ids \cup {None}],
           root' \in [Workstations -> Ids \cup {None}],
           seen' \in [Workstations -> Seen],
           signing' \in [Workstations -> BOOLEAN]
    PROVE  IInv' /\ Turns(w, {p}) /\ run'[w].cmd = run[w].cmd
<1>1. PICK r \in Run : /\ run' = [run EXCEPT ![w] = r]
                      /\ r.cmd = run[w].cmd /\ r.pc = p /\ r.heads = run[w].heads /\ r.parents = run[w].parents
                      /\ r.sha = run[w].sha /\ r.files = run[w].files
  BY GotoType
<1>2. Sound(run[w], cache[w], files[w])
  BY DEF IInv, RunSound
<1>3. Sound(r, cache[w], files[w])
  BY <1>1, <1>2 DEF Sound
<1>. QED
  BY <1>1, <1>3, QuietStep DEF IInv, TypeOK, Turns, bounds

LEMMA ToPushIInv ==
    ASSUME IInv, NEW w \in Workstations, ToPush(w), run[w].sha \in cache[w],
           UNCHANGED <<version, store, cache, files, origin, record, bounds>>,
           head' \in [Workstations -> Ids \cup {None}],
           root' \in [Workstations -> Ids \cup {None}],
           seen' \in [Workstations -> Seen],
           signing' \in [Workstations -> BOOLEAN]
    PROVE  IInv' /\ Turns(w, {"push"}) /\ run'[w].direct = {}
<1>. DEFINE r == [run[w] EXCEPT !.pc = "push", !.todo = run[w].direct, !.direct = {}]
<1>1. run \in [Workstations -> Run] /\ run[w] \in Run
  BY DEF IInv, TypeOK
<1>2. r \in Run
  BY <1>1 DEF Run, Steps
<1>3. run' = [run EXCEPT ![w] = r]
  BY <1>1 DEF ToPush
<1>4. /\ r.pc = "push" /\ r.heads = run[w].heads /\ r.parents = run[w].parents
      /\ r.sha = run[w].sha /\ r.direct = {}
  BY <1>1 DEF Run
<1>5. Sound(run[w], cache[w], files[w])
  BY DEF IInv, RunSound
<1>6. Sound(r, cache[w], files[w])
  BY <1>4, <1>5 DEF Sound, WithFiles
<1>. QED
  BY <1>2, <1>3, <1>4, <1>6, QuietStep DEF IInv, TypeOK, Turns, bounds

(* The writes after a commit. *)
LEMMA RecordIInv ==
    ASSUME IInv, NEW w \in Workstations,
           \/ RaiseSeen(w) \/ SetHead(w) \/ SetRoot(w) \/ SetSigningKey(w)
    PROVE  /\ IInv'
           /\ Turns(w, {"sethead", "setroot", "setkey", "record", "writeconf", "push"})
           /\ run'[w].pc = "push" => run'[w].direct = {}
           /\ run'[w].pc = "writeconf" => ~Complete(w)
<1>1. run[w] \in Run
  BY DEF IInv, TypeOK
<1>2. /\ Sound(run[w], cache[w], files[w])
      /\ cache[w] \subseteq DOMAIN version /\ DOMAIN version \subseteq Ids
      /\ run[w].pin \in Ids \cup {None}
  BY <1>1 DEF IInv, TypeOK, RunSound, Run
<1>3. run[w].pc \in {"raise", "sethead", "setroot", "setkey"} => run[w].sha \in cache[w]
  BY <1>2 DEF Sound, WithVersion
<1>4. /\ seen \in [Workstations -> Seen]
      /\ head \in [Workstations -> Ids \cup {None}]
      /\ root \in [Workstations -> Ids \cup {None}]
      /\ signing \in [Workstations -> BOOLEAN]
  BY DEF IInv, TypeOK
<1>5. CASE RaiseSeen(w)
  <2>1. seen' \in [Workstations -> Seen]
    BY <1>2, <1>3, <1>4, <1>5, SeenType DEF RaiseSeen
  <2>2. PICK p \in {"sethead", "writeconf", "setkey"} :
            Goto(w, p) /\ (p = "writeconf" => ~Complete(w))
    BY <1>5 DEF RaiseSeen, Complete
  <2>3. run[w].files \in Files
    BY <1>2, <1>5 DEF RaiseSeen, Sound, WithFiles
  <2>. QED
    BY <1>3, <1>4, <1>5, <2>1, <2>2, <2>3, GotoIInv DEF RaiseSeen, Steps, Turns
<1>6. CASE SetHead(w)
  <2>1. head' \in [Workstations -> Ids \cup {None}]
    BY <1>2, <1>3, <1>4, <1>6 DEF SetHead
  <2>2. PICK p \in {"record", "setroot"} : Goto(w, p)
    BY <1>6 DEF SetHead
  <2>. QED
    BY <1>3, <1>4, <1>6, <2>1, <2>2, GotoIInv DEF SetHead, Steps, WithFiles, Turns
<1>7. CASE SetRoot(w)
  <2>1. root' \in [Workstations -> Ids \cup {None}]
    BY <1>2, <1>3, <1>4, <1>7 DEF SetRoot
  <2>2. ToPush(w) \/ Goto(w, "setkey")
    BY <1>7 DEF SetRoot
  <2>. QED
    BY <1>3, <1>4, <1>7, <2>1, <2>2, GotoIInv, ToPushIInv DEF SetRoot, Steps, WithFiles, Turns
<1>8. CASE SetSigningKey(w)
  <2>1. signing' \in [Workstations -> BOOLEAN]
    BY <1>4, <1>8 DEF SetSigningKey
  <2>2. ToPush(w) \/ Goto(w, "sethead")
    BY <1>8 DEF SetSigningKey
  <2>. QED
    BY <1>3, <1>4, <1>8, <2>1, <2>2, GotoIInv, ToPushIInv DEF SetSigningKey, Steps, WithFiles, Turns
<1>. QED
  BY <1>5, <1>6, <1>7, <1>8

(* The pushes: a site takes all a cache holds, which has no hole.          *)
LEMMA PushIInv ==
    ASSUME IInv, NEW w \in Workstations, PushSite(w) \/ Pushed(w)
    PROVE  /\ IInv' /\ Turns(w, {"push", "apply", "idle"})
           /\ \A s \in Sites : store[s] \subseteq store'[s]
           /\ run'[w].pc = "push" =>
                 /\ run[w].pc = "push" /\ run'[w].sha = run[w].sha
                 /\ \A s \in run'[w].direct : s \in run[w].direct \/ run[w].sha \in store'[s]
           /\ run'[w].pc = "apply" =>
                 /\ run[w].pc = "push" /\ run'[w].sha = run[w].sha /\ run[w].direct # {}
<1>1. run \in [Workstations -> Run] /\ run[w] \in Run /\ run[w].pc = "push"
  BY DEF PushSite, Pushed, IInv, TypeOK
<1>2. Sound(run[w], cache[w], files[w])
  BY DEF IInv, RunSound
<1>3. CASE PushSite(w)
  <2>1. PICK s \in Sites :
            \/ /\ store' = [store EXCEPT ![s] = @ \cup cache[w]]
               /\ run' = [run EXCEPT ![w].todo = @ \ {s}, ![w].direct = @ \cup {s}]
            \/ /\ run' = [run EXCEPT ![w].todo = @ \ {s}]
               /\ UNCHANGED store
    BY <1>3 DEF PushSite
  <2>2. UNCHANGED <<version, cache, disk, record, bounds>>
    BY <1>3 DEF PushSite
  <2>3. store' \in [Sites -> SUBSET DOMAIN version]
    BY <2>1 DEF IInv, TypeOK
  <2>4. HeldClosed'
    <3>1. \A x \in Sites : store'[x] = store[x] \/ store'[x] = store[x] \cup cache[w]
      BY <2>1 DEF IInv, TypeOK
    <3>. QED
      BY <2>2, <3>1 DEF IInv, HeldClosed, Closed
  <2>5. PICK d \in SUBSET Sites :
            /\ run' = [run EXCEPT ![w] = [run[w] EXCEPT !.todo = @ \ {s}, !.direct = d]]
            /\ \A x \in d : x \in run[w].direct \/ run[w].sha \in store'[x]
    <3>1. run[w].direct \in SUBSET Sites /\ run[w].sha \in cache[w]
      BY <1>1, <1>2 DEF Run, Sound, WithVersion
    <3>2. CASE run' = [run EXCEPT ![w].todo = @ \ {s}]
      <4>1. [run[w] EXCEPT !.todo = @ \ {s}]
              = [run[w] EXCEPT !.todo = @ \ {s}, !.direct = run[w].direct]
        BY <1>1 DEF Run
      <4>. QED
        BY <1>1, <3>1, <3>2, <4>1
    <3>3. CASE run' = [run EXCEPT ![w].todo = @ \ {s}, ![w].direct = @ \cup {s}]
      <4>1. run' = [run EXCEPT ![w] = [run[w] EXCEPT !.todo = @ \ {s},
                                                     !.direct = run[w].direct \cup {s}]]
        BY <1>1, <3>3
      <4>2. CASE run[w].sha \in store'[s]
        BY <3>1, <4>1, <4>2
      <4>3. CASE UNCHANGED store /\ run' = [run EXCEPT ![w].todo = @ \ {s}]
        BY <3>2, <4>3
      <4>4. store' = [store EXCEPT ![s] = @ \cup cache[w]] => run[w].sha \in store'[s]
        BY <3>1 DEF IInv, TypeOK
      <4>. QED
        BY <2>1, <4>2, <4>3, <4>4
    <3>. QED
      BY <2>1, <3>2, <3>3
  <2>. DEFINE r == [run[w] EXCEPT !.todo = @ \ {s}, !.direct = d]
  <2>6. r \in Run /\ r.pc = "push" /\ r.heads = run[w].heads
        /\ r.parents = run[w].parents /\ r.sha = run[w].sha /\ r.direct = d
    BY <1>1 DEF Run
  <2>7. Sound(r, cache'[w], files'[w])
    BY <1>1, <1>2, <2>2, <2>6 DEF Sound, WithVersion, WithFiles, disk
  <2>8. run' \in [Workstations -> Run] /\ RunSound' /\ run'[w] = r /\ Elsewhere(w)
    BY <2>2, <2>5, <2>6, <2>7, RunUpdate DEF disk
  <2>. QED
    <3>1. \A x \in Sites : store[x] \subseteq store'[x]
      BY <2>1 DEF IInv, TypeOK
    <3>2. IInv'
      BY <2>2, <2>3, <2>4, <2>8 DEF IInv, TypeOK, disk, bounds
    <3>. QED
      BY <1>1, <2>5, <2>6, <2>8, <3>1, <3>2 DEF Turns
<1>4. CASE Pushed(w)
  <2>1. UNCHANGED <<version, store, cache, disk, record, bounds>>
    BY <1>4 DEF Pushed
  <2>2. CASE End(w)
    BY <2>1, <2>2, IdleType, IdleSound, QuietStep DEF End, IInv, TypeOK, Turns, disk, bounds
  <2>3. CASE /\ run[w].direct # {}
             /\ run' = [run EXCEPT ![w].pc = "apply", ![w].todo = run[w].hosts]
    <3>. DEFINE r == [run[w] EXCEPT !.pc = "apply", !.todo = run[w].hosts]
    <3>1. r \in Run /\ r.pc = "apply" /\ r.heads = run[w].heads
          /\ r.parents = run[w].parents /\ r.sha = run[w].sha
      BY <1>1 DEF Run, Steps
    <3>2. run' = [run EXCEPT ![w] = r]
      BY <1>1, <2>3
    <3>3. Sound(r, cache[w], files[w])
      BY <1>1, <1>2, <3>1 DEF Sound, WithVersion, WithFiles
    <3>. HIDE DEF r
    <3>4. IInv' /\ run'[w] = r /\ Elsewhere(w)
      BY <2>1, <3>1, <3>2, <3>3, QuietStep DEF IInv, TypeOK, disk, bounds
    <3>. QED
      BY <1>1, <2>1, <2>3, <3>1, <3>4 DEF Turns
  <2>. QED
    BY <1>4, <2>2, <2>3 DEF Pushed
<1>. QED
  BY <1>3, <1>4

(* The review of an apply, its hosts, and its end.                         *)
LEMMA ApplyIInv ==
    ASSUME IInv, NEW w \in Workstations, Review(w) \/ ApplySite(w) \/ Applied(w)
    PROVE  /\ IInv' /\ Turns(w, {"prepare", "apply", "idle"})
           /\ run'[w].pc = "apply" =>
                 /\ run[w].pc = "apply" /\ run'[w].sha = run[w].sha
                 /\ \A s \in Sites : record'[s].id \in {record[s].id, run[w].sha}
           /\ run'[w].pc # "apply" => UNCHANGED record
<1>1. run \in [Workstations -> Run] /\ run[w] \in Run
  BY DEF IInv, TypeOK
<1>2. Sound(run[w], cache[w], files[w]) /\ cache[w] \subseteq DOMAIN version
  BY DEF IInv, TypeOK, RunSound
<1>3. CASE Review(w)
  <2>1. UNCHANGED <<version, store, cache, disk, record, bounds>>
    BY <1>3 DEF Review
  <2>2. PICK words \in {run[w].words, run[w].words \cup {"host"}} :
            run' = [run EXCEPT ![w].pc = "prepare", ![w].words = words]
    BY <1>3 DEF Review
  <2>. DEFINE r == [run[w] EXCEPT !.pc = "prepare", !.words = words]
  <2>3. r \in Run /\ r.pc = "prepare" /\ r.heads = run[w].heads /\ r.parents = run[w].parents
    BY <1>1, <2>2 DEF Run, Steps
  <2>4. run' = [run EXCEPT ![w] = r]
    BY <1>1, <2>2
  <2>5. Sound(r, cache[w], files[w])
    BY <1>2, <2>3 DEF Sound, WithVersion, WithFiles
  <2>. QED
    BY <2>1, <2>3, <2>4, <2>5, QuietStep DEF IInv, TypeOK, Turns, disk, bounds
<1>4. CASE ApplySite(w)
  <2>1. PICK s \in Sites :
            /\ record' = [record EXCEPT ![s] = [rev |-> version[run[w].sha].rev, id |-> run[w].sha]]
            /\ run' = [run EXCEPT ![w].todo = @ \ {s}]
    BY <1>4 DEF ApplySite
  <2>2. run[w].pc = "apply" /\ UNCHANGED <<version, store, cache, disk, bounds>>
    BY <1>4 DEF ApplySite
  <2>3. record' \in [Sites -> Seen]
    <3>1. [rev |-> version[run[w].sha].rev, id |-> run[w].sha] \in Seen
      BY <1>2, <2>2, SeenType DEF Sound, WithVersion
    <3>. QED
      BY <2>1, <3>1 DEF IInv, TypeOK
  <2>. DEFINE r == [run[w] EXCEPT !.todo = @ \ {s}]
  <2>4. /\ r \in Run /\ r.pc = run[w].pc /\ r.heads = run[w].heads
        /\ r.parents = run[w].parents /\ r.sha = run[w].sha /\ r.files = run[w].files
    BY <1>1 DEF Run
  <2>5. run' = [run EXCEPT ![w] = r]
    BY <1>1, <2>1
  <2>6. Sound(r, cache[w], files[w])
    BY <1>2, <2>2, <2>4 DEF Sound
  <2>. QED
    <3>1. \A x \in Sites : record'[x].id \in {record[x].id, run[w].sha}
      BY <2>1 DEF IInv, TypeOK, Seen
    <3>. QED
      BY <2>2, <2>3, <2>4, <2>5, <2>6, <3>1, QuietStep DEF IInv, TypeOK, Turns, disk, bounds
<1>5. CASE Applied(w)
  BY <1>5, IdleType, IdleSound, QuietStep DEF Applied, End, IInv, TypeOK, Turns, disk, bounds
<1>. QED
  BY <1>3, <1>4, <1>5

(* The version a pull or a recovery is to check out, and its files: the    *)
(* head's, or with the merged secrets.                                     *)
LEMMA CompareIInv ==
    ASSUME IInv, NEW w \in Workstations, Compare(w)
    PROVE  /\ IInv' /\ Turns(w, {"record", "writeconf"}) /\ run'[w].cmd = run[w].cmd
           /\ UNCHANGED <<version, cache, files>>
           /\ run'[w].pc = "writeconf" =>
                 /\ \/ files[w].conf = run'[w].files.conf
                    \/ \E v \in cache[w] : version[v].files.conf = files[w].conf
                 /\ \/ files[w].sec = run'[w].files.sec
                    \/ \E v \in cache[w] : version[v].files.sec = files[w].sec
<1>1. run \in [Workstations -> Run] /\ run[w] \in Run
  BY DEF IInv, TypeOK
<1>2. /\ Sound(run[w], cache[w], files[w])
      /\ cache[w] \subseteq DOMAIN version /\ DOMAIN version \subseteq Ids
      /\ \A v \in DOMAIN version : version[v].files \in Files
  BY DEF IInv, TypeOK, RunSound, Version
<1>3. UNCHANGED <<version, store, cache, disk, record, bounds>>
  BY DEF Compare
<1>. DEFINE merged(top) == [conf |-> version[top].files.conf,
                            sec  |-> MergedSecret(version[head[w]].files.sec, files[w].sec,
                                                  version[top].files.sec)]
<1>4. PICK top \in run[w].heads :
          /\ Complete(w)
          /\ \/ Goto(w, "record")
             \/ /\ \/ files[w] = version[top].files
                   \/ head[w] \in cache[w] /\ files[w] = version[head[w]].files
                /\ run' = [run EXCEPT ![w].pc = "writeconf", ![w].sha = top,
                                      ![w].files = version[top].files]
             \/ /\ head[w] \in cache[w]
                /\ files[w].conf \in {version[head[w]].files.conf, version[top].files.conf}
                /\ run' = [run EXCEPT ![w].pc = "writeconf", ![w].sha = top,
                                      ![w].files = merged(top)]
  BY DEF Compare, Edited
<1>5. top \in cache[w] /\ version[top].files \in Files
  BY <1>2 DEF Sound
<1>6. ASSUME head[w] \in cache[w] PROVE merged(top) \in Files
  <2>1. files[w].sec \in Secrets
    BY <1>4 DEF Complete, IInv, TypeOK, Files
  <2>2. version[head[w]].files.sec \in Secrets /\ version[top].files.sec \in Secrets
    BY <1>2, <1>5, <1>6 DEF Files
  <2>. QED
    BY <1>5, <2>1, <2>2 DEF MergedSecret, Files
<1>. HIDE DEF merged
<1>7. CASE Goto(w, "record")
  BY <1>3, <1>7, GotoIInv DEF Steps, WithVersion, WithFiles, IInv, TypeOK, Turns, disk
<1>8. ASSUME NEW f \in Files,
             run' = [run EXCEPT ![w].pc = "writeconf", ![w].sha = top, ![w].files = f]
      PROVE  /\ IInv' /\ Turns(w, {"record", "writeconf"}) /\ run'[w].cmd = run[w].cmd
             /\ run'[w].files = f
  <2>. DEFINE r == [run[w] EXCEPT !.pc = "writeconf", !.sha = top, !.files = f]
  <2>1. r \in Run
    BY <1>1, <1>2, <1>5 DEF Run, Steps
  <2>2. run' = [run EXCEPT ![w] = r]
    BY <1>1, <1>8
  <2>3. /\ r.pc = "writeconf" /\ r.heads = run[w].heads /\ r.parents = run[w].parents
        /\ r.sha = top /\ r.files = f /\ r.cmd = run[w].cmd
    BY <1>1 DEF Run
  <2>4. Sound(r, cache[w], files[w])
    BY <1>2, <1>5, <2>3 DEF Sound
  <2>. QED
    BY <1>3, <2>1, <2>2, <2>3, <2>4, QuietStep DEF IInv, TypeOK, Turns, disk, bounds
<1>9. CASE /\ \/ files[w] = version[top].files
              \/ head[w] \in cache[w] /\ files[w] = version[head[w]].files
           /\ run' = [run EXCEPT ![w].pc = "writeconf", ![w].sha = top,
                                 ![w].files = version[top].files]
  BY <1>3, <1>5, <1>8, <1>9 DEF disk
<1>10. CASE /\ head[w] \in cache[w]
            /\ files[w].conf \in {version[head[w]].files.conf, version[top].files.conf}
            /\ run' = [run EXCEPT ![w].pc = "writeconf", ![w].sha = top,
                                  ![w].files = merged(top)]
  <2>1. merged(top) \in Files /\ run'[w].files = merged(top)
    BY <1>6, <1>8, <1>10
  <2>2. merged(top).conf = version[top].files.conf
    BY DEF merged
  <2>3. merged(top).sec \in {version[top].files.sec, files[w].sec}
        /\ (merged(top).sec # files[w].sec => files[w].sec = version[head[w]].files.sec)
    BY DEF merged, MergedSecret
  <2>. QED
    BY <1>3, <1>5, <1>6, <1>8, <1>10, <2>1, <2>2, <2>3 DEF disk
<1>. QED
  BY <1>4, <1>3, <1>7, <1>9, <1>10 DEF disk

LEMMA ChooseIInv ==
    ASSUME IInv, NEW w \in Workstations, Choose(w)
    PROVE  /\ IInv' /\ Turns(w, {"gather", "writeconf"}) /\ run'[w].cmd = run[w].cmd
           /\ run[w].pc = "choose"
<1>1. run \in [Workstations -> Run] /\ run[w] \in Run
  BY DEF IInv, TypeOK
<1>2. /\ Sound(run[w], cache[w], files[w])
      /\ cache[w] \subseteq DOMAIN version /\ DOMAIN version \subseteq Ids
      /\ \A v \in DOMAIN version : version[v].files \in Files
  BY DEF IInv, TypeOK, RunSound, Version
<1>3. UNCHANGED <<version, store, cache, disk, record, bounds>>
  BY DEF Choose
<1>4. CASE run' = [run EXCEPT ![w].pc = "gather", ![w].todo = Sites,
                              ![w].hosts = {}, ![w].direct = {}]
  <2>. DEFINE r == [run[w] EXCEPT !.pc = "gather", !.todo = Sites, !.hosts = {}, !.direct = {}]
  <2>1. /\ r \in Run /\ r.pc = "gather" /\ r.cmd = run[w].cmd
        /\ r.heads = run[w].heads /\ r.parents = run[w].parents
    BY <1>1 DEF Run, Steps
  <2>2. run' = [run EXCEPT ![w] = r]
    BY <1>1, <1>4
  <2>3. Sound(r, cache[w], files[w])
    BY <1>2, <2>1 DEF Sound, WithVersion, WithFiles
  <2>. QED
    <3>. HIDE DEF r
    <3>1. IInv' /\ run'[w] = r /\ Elsewhere(w)
      BY <1>3, <2>1, <2>2, <2>3, QuietStep DEF IInv, TypeOK, disk, bounds
    <3>2. run[w].pc = "choose"
      BY DEF Choose
    <3>. QED
      BY <2>1, <3>1, <3>2 DEF Turns
<1>5. ASSUME NEW top \in run[w].heads,
             run' = [run EXCEPT ![w].pc = "writeconf", ![w].sha = top,
                                ![w].pin = PinFor(w, @, top), ![w].files = version[top].files]
      PROVE  IInv' /\ Turns(w, {"writeconf"}) /\ run'[w].cmd = run[w].cmd
  <2>. DEFINE pin == PinFor(w, run[w].pin, top)
              r   == [run[w] EXCEPT !.pc = "writeconf", !.sha = top, !.pin = pin,
                                    !.files = version[top].files]
  <2>0. top \in cache[w] /\ version[top].files \in Files /\ top \in Ids
    BY <1>2 DEF Sound
  <2>1. pin \in Ids \cup {None}
    BY <1>1, PinForType DEF Run
  <2>2. run' = [run EXCEPT ![w] = r]
    BY <1>1, <1>5
  <2>. HIDE DEF pin
  <2>3. r \in Run
    BY <1>1, <2>0, <2>1 DEF Run, Steps
  <2>4. /\ r.pc = "writeconf" /\ r.heads = run[w].heads /\ r.parents = run[w].parents
        /\ r.sha = top /\ r.files = version[top].files /\ r.cmd = run[w].cmd
    BY <1>1 DEF Run
  <2>5. Sound(r, cache[w], files[w])
    BY <1>2, <2>0, <2>4 DEF Sound
  <2>. QED
    BY <1>3, <2>2, <2>3, <2>4, <2>5, QuietStep DEF IInv, TypeOK, Turns, disk, bounds
<1>. QED
  BY <1>4, <1>5 DEF Choose, Turns

(* The writes of a checkout. *)
LEMMA CheckoutIInv ==
    ASSUME IInv, NEW w \in Workstations, WriteConf(w) \/ WriteSecrets(w) \/ RecordPull(w)
    PROVE  /\ IInv' /\ Turns(w, {"writesec", "setkey", "sethead", "idle"})
           /\ run'[w].pc = "writesec" =>
                 /\ run[w].pc = "writeconf" /\ run'[w].cmd = run[w].cmd
                 /\ run'[w].files = run[w].files
                 /\ files'[w] = [conf |-> run[w].files.conf,
                                 sec  |-> IF files[w] = None THEN None ELSE files[w].sec]
<1>1. run[w] \in Run
  BY DEF IInv, TypeOK
<1>2. /\ Sound(run[w], cache[w], files[w])
      /\ cache[w] \subseteq DOMAIN version /\ DOMAIN version \subseteq Ids
      /\ run[w].pin \in Ids \cup {None}
  BY <1>1 DEF IInv, TypeOK, RunSound, Run
<1>3. files[w] \in Files \cup [conf : Confs, sec : {None}] \cup {None}
  BY DEF IInv, TypeOK
<1>4. CASE WriteConf(w)
  <2>1. run[w].pc = "writeconf" /\ run[w].files \in Files /\ run[w].sha \in cache[w]
    BY <1>2, <1>4 DEF WriteConf, Sound, WithFiles, WithVersion
  <2>. DEFINE f == [conf |-> run[w].files.conf,
                    sec  |-> IF files[w] = None THEN None ELSE files[w].sec]
  <2>2. f \in Files \cup [conf : Confs, sec : {None}]
    BY <1>3, <2>1 DEF Files
  <2>3. f # None
    BY <2>2, ConstantsAssumption
  <2>4. files' = [files EXCEPT ![w] = f] /\ Goto(w, "writesec")
    BY <1>4 DEF WriteConf
  <2>. HIDE DEF f
  <2>5. /\ files' \in [Workstations -> Files \cup [conf : Confs, sec : {None}] \cup {None}]
        /\ files'[w] = f /\ \A u \in Workstations \ {w} : files'[u] = files[u]
    BY <2>2, <2>4 DEF IInv, TypeOK
  <2>6. PICK r \in Run : /\ run' = [run EXCEPT ![w] = r]
                        /\ r.cmd = run[w].cmd /\ r.pc = "writesec" /\ r.heads = run[w].heads
                        /\ r.parents = run[w].parents
                        /\ r.sha = run[w].sha /\ r.files = run[w].files
    BY <2>4, GotoType DEF Steps
  <2>7. UNCHANGED <<version, store, cache, head, root, seen, signing, origin, record, bounds>>
    BY <1>4 DEF WriteConf
  <2>8. Sound(r, cache'[w], files'[w])
    BY <1>2, <2>1, <2>3, <2>5, <2>6, <2>7 DEF Sound
  <2>9. run' \in [Workstations -> Run] /\ RunSound' /\ run'[w] = r /\ Elsewhere(w)
    BY <2>5, <2>6, <2>7, <2>8, RunUpdate
  <2>. QED
    <3>1. IInv'
      BY <2>5, <2>7, <2>9, StoresUnchanged DEF IInv, TypeOK, bounds
    <3>. QED
      BY <2>1, <2>5, <2>6, <2>9, <3>1 DEF Turns, f
<1>5. CASE WriteSecrets(w)
  <2>1. /\ run[w].pc = "writesec" /\ run[w].files \in Files /\ run[w].sha \in cache[w]
        /\ files[w] # None
    BY <1>2, <1>5 DEF WriteSecrets, Sound, WithFiles, WithVersion
  <2>. DEFINE f == [conf |-> files[w].conf, sec |-> run[w].files.sec]
  <2>2. f \in Files
    BY <1>3, <2>1 DEF Files
  <2>3. files' = [files EXCEPT ![w] = f]
    BY <1>5 DEF WriteSecrets
  <2>. HIDE DEF f
  <2>4. PICK p \in {"setkey", "sethead"} : Goto(w, p)
    BY <1>5 DEF WriteSecrets
  <2>5. /\ files' \in [Workstations -> Files \cup [conf : Confs, sec : {None}] \cup {None}]
        /\ \A u \in Workstations \ {w} : files'[u] = files[u]
    BY <2>2, <2>3 DEF IInv, TypeOK
  <2>6. PICK r \in Run : /\ run' = [run EXCEPT ![w] = r]
                        /\ r.pc = p /\ r.heads = run[w].heads
                        /\ r.parents = run[w].parents
                        /\ r.sha = run[w].sha /\ r.files = run[w].files
    BY <2>4, GotoType DEF Steps
  <2>7. UNCHANGED <<version, store, cache, head, root, seen, signing, record, bounds>>
    BY <1>5 DEF WriteSecrets
  <2>8. Sound(r, cache'[w], files'[w])
    BY <1>2, <2>1, <2>6, <2>7 DEF Sound
  <2>9. run' \in [Workstations -> Run] /\ RunSound' /\ run'[w] = r /\ Elsewhere(w)
    BY <2>5, <2>6, <2>7, <2>8, RunUpdate
  <2>10. origin' \in [Workstations -> Ids \cup {None}]
    BY <1>2, <1>5, <2>1 DEF WriteSecrets, IInv, TypeOK
  <2>. QED
    <3>1. IInv'
      BY <2>5, <2>7, <2>9, <2>10, StoresUnchanged DEF IInv, TypeOK, bounds
    <3>. QED
      BY <2>6, <2>9, <3>1 DEF Turns
<1>6. CASE RecordPull(w)
  <2>1. seen' \in [Workstations -> Seen] /\ root' \in [Workstations -> Ids \cup {None}]
    BY <1>2, <1>6, SeenType DEF RecordPull, IInv, TypeOK
  <2>. QED
    BY <1>6, <2>1, IdleType, IdleSound, QuietStep DEF RecordPull, End, IInv, TypeOK, Turns, bounds
<1>. QED
  BY <1>4, <1>5, <1>6

(* What goes wrong, and an operator's edits.                               *)
LEMMA MishapIInv ==
    ASSUME IInv, NEW w \in Workstations, Stop(w) \/ Edit(w) \/ Lose(w)
    PROVE  IInv' /\ (Stop(w) => Turns(w, {"idle"}))
<1>0. /\ MaxMishaps \in Nat /\ MaxEdits \in Nat
      /\ edits \in 0..MaxEdits /\ mishaps \in 0..MaxMishaps
  BY ConstantsAssumption DEF IInv, TypeOK
<1>1. CASE Stop(w)
  <2>1. mishaps' \in 0..MaxMishaps
    BY <1>0, <1>1 DEF Stop, Mishap
  <2>. QED
    BY <1>1, <2>1, IdleType, IdleSound, QuietStep DEF Stop, End, IInv, TypeOK, Turns, disk
<1>2. CASE Edit(w) /\ ~Stop(w)
  <2>1. edits' \in 0..MaxEdits
    BY <1>0, <1>2 DEF Edit
  <2>2. PICK f \in Files : files' = [files EXCEPT ![w] = f]
    BY <1>2 DEF Edit
  <2>3. /\ files' \in [Workstations -> Files \cup [conf : Confs, sec : {None}] \cup {None}]
        /\ \A u \in Workstations \ {w} : files'[u] = files[u]
        /\ files'[w] # None
    BY <2>2, ConstantsAssumption DEF IInv, TypeOK
  <2>4. UNCHANGED <<version, store, cache, head, root, seen, signing, origin, record, run, mishaps>>
    BY <1>2 DEF Edit
  <2>5. RunSound'
    BY <2>3, <2>4 DEF IInv, RunSound, Sound
  <2>. QED
    BY <1>2, <2>1, <2>3, <2>4, <2>5, StoresUnchanged DEF IInv, TypeOK
<1>3. CASE Lose(w) /\ ~Stop(w)
  <2>. DEFINE lost(what, kinds, f, none) == IF what \in kinds THEN [f EXCEPT ![w] = none] ELSE f
  <2>1. PICK what \in {"workstation", "cache", "files"} :
            /\ Mishap(what)
            /\ cache'   = lost(what, {"workstation", "cache"}, cache, {})
            /\ files'   = lost(what, {"workstation", "files"}, files, None)
            /\ origin'  = lost(what, {"workstation", "files"}, origin, None)
            /\ head'    = lost(what, {"workstation"}, head, None)
            /\ root'    = lost(what, {"workstation"}, root, None)
            /\ seen'    = lost(what, {"workstation"}, seen, Unseen)
            /\ signing' = lost(what, {"workstation"}, signing, FALSE)
    BY <1>3 DEF Lose
  <2>2. UNCHANGED <<version, store, record, run, edits>> /\ run[w].pc = "idle"
    BY <1>3 DEF Lose
  <2>3. mishaps' \in 0..MaxMishaps
    BY <1>0, <2>1 DEF Mishap
  <2>4. Unseen \in Seen
    BY ConstantsAssumption DEF Unseen, Seen
  <2>5. /\ cache' \in [Workstations -> SUBSET DOMAIN version]
        /\ files' \in [Workstations -> Files \cup [conf : Confs, sec : {None}] \cup {None}]
        /\ origin' \in [Workstations -> Ids \cup {None}]
        /\ head' \in [Workstations -> Ids \cup {None}]
        /\ root' \in [Workstations -> Ids \cup {None}]
        /\ signing' \in [Workstations -> BOOLEAN]
    BY <2>1 DEF IInv, TypeOK
  <2>6. seen' \in [Workstations -> Seen]
    BY <2>1, <2>4 DEF IInv, TypeOK
  <2>7. \A u \in Workstations : cache'[u] = {} \/ cache'[u] = cache[u]
    BY <2>1 DEF IInv, TypeOK
  <2>8. HeldClosed'
    BY <2>2, <2>7 DEF IInv, HeldClosed, Closed
  <2>9. \A u \in Workstations \ {w} : cache'[u] = cache[u] /\ files'[u] = files[u]
    BY <2>1 DEF IInv, TypeOK
  <2>10. run[w] = Idle
    BY <2>2 DEF IInv, RunSound, Sound
  <2>11. RunSound'
    BY <2>2, <2>9, <2>10, IdleSound DEF IInv, RunSound
  <2>. QED
    BY <1>3, <2>2, <2>3, <2>5, <2>6, <2>8, <2>11 DEF IInv, TypeOK
<1>. QED
  BY <1>1, <1>2, <1>3

(* What sites do by themselves: one is restored without a hole, and one    *)
(* fetches from another that has none.                                     *)
LEMMA SitesIInv ==
    ASSUME IInv, NEW s \in Sites,
           SiteLoses(s) \/ (\E t \in Sites : SiteSync(s, t))
    PROVE  IInv'
<1>1. CASE SiteLoses(s)
  <2>1. PICK S \in SUBSET store[s] : Closed(S) /\ store' = [store EXCEPT ![s] = S]
    BY <1>1 DEF SiteLoses
  <2>2. UNCHANGED <<version, cache, disk, record, run, edits>>
    BY <1>1 DEF SiteLoses
  <2>3. mishaps' \in 0..MaxMishaps
    BY <1>1, ConstantsAssumption DEF SiteLoses, Mishap, IInv, TypeOK
  <2>4. store' \in [Sites -> SUBSET DOMAIN version]
    BY <2>1 DEF IInv, TypeOK
  <2>5. HeldClosed'
    <3>1. \A x \in Sites : store'[x] = store[x] \/ store'[x] = S
      BY <2>1 DEF IInv, TypeOK
    <3>. QED
      BY <2>1, <2>2, <3>1 DEF IInv, HeldClosed, Closed
  <2>6. RunSound'
    BY <2>2 DEF IInv, RunSound, disk
  <2>. QED
    BY <2>2, <2>3, <2>4, <2>5, <2>6 DEF IInv, TypeOK, disk
<1>2. CASE \E t \in Sites : SiteSync(s, t)
  <2>1. PICK t \in Sites : store' = [store EXCEPT ![s] = @ \cup store[t]]
    BY <1>2 DEF SiteSync
  <2>2. UNCHANGED <<version, cache, disk, record, run, bounds>>
    BY <1>2 DEF SiteSync
  <2>3. store' \in [Sites -> SUBSET DOMAIN version]
    BY <2>1 DEF IInv, TypeOK
  <2>4. HeldClosed'
    <3>1. \A x \in Sites : store'[x] = store[x] \/ store'[x] = store[x] \cup store[t]
      BY <2>1 DEF IInv, TypeOK
    <3>. QED
      BY <2>2, <3>1 DEF IInv, HeldClosed, Closed
  <2>5. RunSound'
    BY <2>2 DEF IInv, RunSound, disk
  <2>. QED
    BY <2>2, <2>3, <2>4, <2>5 DEF IInv, TypeOK, disk, bounds
<1>. QED
  BY <1>1, <1>2

(* The invariant is inductive. *)
LEMMA NextIInv == IInv /\ [Next]_vars => IInv'
<1>. SUFFICES ASSUME IInv, [Next]_vars PROVE IInv'
  OBVIOUS
<1>1. CASE UNCHANGED vars
  BY <1>1 DEF vars, disk, bounds, IInv, TypeOK, HeldClosed, Closed, RunSound
<1>2. ASSUME NEW w \in Workstations, Command(w) PROVE IInv'
  <2>1. CASE StartPublish(w) \/ StartPull(w) \/ StartRegister(w) \/ StartApply(w) \/ StartRecover(w)
    BY <2>1, StartsIInv
  <2>2. CASE AskSite(w) \/ JudgeGathered(w)
    BY <2>2, GatherIInv
  <2>3. CASE Prepare(w) \/ Attest(w) \/ Commit(w)
    BY <2>3, PrepareIInv, AttestIInv, CommitIInv
  <2>4. CASE RaiseSeen(w) \/ SetHead(w) \/ SetRoot(w) \/ SetSigningKey(w)
    BY <2>4, RecordIInv
  <2>5. CASE PushSite(w) \/ Pushed(w)
    BY <2>5, PushIInv
  <2>6. CASE Review(w) \/ ApplySite(w) \/ Applied(w)
    BY <2>6, ApplyIInv
  <2>7. CASE Compare(w) \/ Choose(w)
    BY <2>7, CompareIInv, ChooseIInv
  <2>8. CASE WriteConf(w) \/ WriteSecrets(w) \/ RecordPull(w)
    BY <2>8, CheckoutIInv
  <2>9. CASE Stop(w)
    BY <2>9, MishapIInv
  <2>. QED
    BY <1>2, <2>1, <2>2, <2>3, <2>4, <2>5, <2>6, <2>7, <2>8, <2>9 DEF Command
<1>3. ASSUME NEW w \in Workstations, Edit(w) \/ Lose(w) PROVE IInv'
  BY <1>3, MishapIInv
<1>4. ASSUME NEW s \in Sites, SiteLoses(s) \/ (\E t \in Sites : SiteSync(s, t)) PROVE IInv'
  BY <1>4, SitesIInv
<1>. QED
  BY <1>1, <1>2, <1>3, <1>4 DEF Next

LEMMA Inductive == Spec => []IInv
<1>. QED
  BY InitIInv, NextIInv, PTL DEF Spec

(* Every variable has its type: in particular the sites and the caches     *)
(* only ever hold commits that exist.                                      *)
THEOREM TypeCorrect == Spec => []TypeOK
<1>1. IInv => TypeOK
  BY DEF IInv
<1>. QED
  BY <1>1, Inductive, PTL

(* No store ever has a hole, whatever was pushed, synced, lost, restored   *)
(* or interrupted: a repository that holds a version holds every version   *)
(* it is built on (pushVersion, Bundle and FetchBundle, config-sync).      *)
THEOREM StoresHaveNoHole == Spec => []HeldClosed
<1>1. IInv => HeldClosed
  BY DEF IInv
<1>. QED
  BY <1>1, Inductive, PTL

-----------------------------------------------------------------------------
(* A command works on its own workstation, adds to what sites hold, and    *)
(* leaves the versions that exist as they are.                             *)
LEMMA CommandKeeps ==
    ASSUME IInv, NEW w \in Workstations, Command(w)
    PROVE  /\ Elsewhere(w)
           /\ \A s \in Sites : store[s] \subseteq store'[s]
           /\ \A v \in DOMAIN version : v \in DOMAIN version' /\ version'[v] = version[v]
<1>. USE DEF Turns, disk
<1>1. CASE StartPublish(w) \/ StartPull(w) \/ StartRegister(w) \/ StartApply(w) \/ StartRecover(w)
  <2>1. UNCHANGED <<version, store>>
    BY <1>1 DEF StartPublish, StartPull, StartRegister, StartApply, StartRecover, Begin
  <2>. QED
    BY <1>1, <2>1, StartsIInv
<1>2. CASE AskSite(w) \/ JudgeGathered(w)
  <2>1. UNCHANGED <<version, store>>
    BY <1>2 DEF AskSite, JudgeGathered
  <2>. QED
    BY <1>2, <2>1, GatherIInv
<1>3. CASE Prepare(w) \/ Attest(w)
  <2>1. UNCHANGED <<version, store>>
    BY <1>3 DEF Prepare, Attest
  <2>. QED
    BY <1>3, <2>1, PrepareIInv, AttestIInv
<1>4. CASE Commit(w)
  <2>1. UNCHANGED store
    BY <1>4 DEF Commit
  <2>. QED
    BY <1>4, <2>1, CommitIInv
<1>5. CASE RaiseSeen(w) \/ SetHead(w) \/ SetRoot(w) \/ SetSigningKey(w)
  <2>1. UNCHANGED <<version, store>>
    BY <1>5 DEF RaiseSeen, SetHead, SetRoot, SetSigningKey
  <2>. QED
    BY <1>5, <2>1, RecordIInv
<1>6. CASE PushSite(w) \/ Pushed(w)
  <2>1. UNCHANGED version
    BY <1>6 DEF PushSite, Pushed
  <2>. QED
    BY <1>6, <2>1, PushIInv
<1>7. CASE Review(w) \/ ApplySite(w) \/ Applied(w)
  <2>1. UNCHANGED <<version, store>>
    BY <1>7 DEF Review, ApplySite, Applied
  <2>. QED
    BY <1>7, <2>1, ApplyIInv
<1>8. CASE Compare(w) \/ Choose(w)
  <2>1. UNCHANGED <<version, store>>
    BY <1>8 DEF Compare, Choose
  <2>. QED
    BY <1>8, <2>1, CompareIInv, ChooseIInv
<1>9. CASE WriteConf(w) \/ WriteSecrets(w) \/ RecordPull(w)
  <2>1. UNCHANGED <<version, store>>
    BY <1>9 DEF WriteConf, WriteSecrets, RecordPull
  <2>. QED
    BY <1>9, <2>1, CheckoutIInv
<1>10. CASE Stop(w)
  <2>1. UNCHANGED <<version, store>>
    BY <1>10 DEF Stop
  <2>. QED
    BY <1>10, <2>1, MishapIInv
<1>. QED
  BY <1>1, <1>2, <1>3, <1>4, <1>5, <1>6, <1>7, <1>8, <1>9, <1>10 DEF Command

-----------------------------------------------------------------------------
(* A version on a host is in the store, while no site is restored from an  *)
(* older copy.                                                             *)

(* The sites a run counts as having its version do have it while it        *)
(* pushes, and one of them does once it applies.                           *)
Delivered(w) ==
    /\ run[w].pc = "push"  => \A s \in run[w].direct : run[w].sha \in store[s]
    /\ run[w].pc = "apply" => \E s \in Sites : run[w].sha \in store[s]

AInv == AppliedIsStored /\ \A w \in Workstations : Delivered(w)

LEMMA InitAInv == Init => AInv
  BY IdleType DEF Init, AInv, AppliedIsStored, Delivered, Unseen

(* Where the sites only ever gain versions, what one had it has.           *)
LEMMA StoredStays ==
    ASSUME AInv, \A s \in Sites : store[s] \subseteq store'[s], UNCHANGED record
    PROVE  AppliedIsStored'
  BY DEF AInv, AppliedIsStored

LEMMA CommandAInv ==
    ASSUME IInv, AInv, NEW w \in Workstations, Command(w)
    PROVE  AInv'
<1>1. /\ Elsewhere(w)
      /\ \A s \in Sites : store[s] \subseteq store'[s]
  BY CommandKeeps
<1>2. \A u \in Workstations \ {w} : run[u] \in Run /\ (Delivered(u) => Delivered(u)')
  BY <1>1 DEF Delivered, Elsewhere, IInv, TypeOK, Run
<1>3. ASSUME UNCHANGED record, Delivered(w)' PROVE AInv'
  BY <1>1, <1>2, <1>3, StoredStays DEF AInv
<1>4. ASSUME NEW pcs, Turns(w, pcs), "push" \notin pcs, "apply" \notin pcs PROVE Delivered(w)'
  BY <1>4 DEF Turns, Delivered
<1>5. CASE StartPublish(w) \/ StartPull(w) \/ StartRegister(w) \/ StartApply(w) \/ StartRecover(w)
  <2>1. UNCHANGED record
    BY <1>5 DEF StartPublish, StartPull, StartRegister, StartApply, StartRecover, Begin
  <2>. QED
    BY <1>3, <1>4, <1>5, <2>1, StartsIInv
<1>6. CASE AskSite(w) \/ JudgeGathered(w)
  <2>1. UNCHANGED record
    BY <1>6 DEF AskSite, JudgeGathered
  <2>2. "push" # AfterGather(w) /\ "apply" # AfterGather(w)
    BY DEF AfterGather
  <2>. QED
    BY <1>3, <1>4, <1>6, <2>1, <2>2, GatherIInv
<1>7. CASE Prepare(w) \/ Attest(w) \/ Commit(w)
  <2>1. UNCHANGED record
    BY <1>7 DEF Prepare, Attest, Commit
  <2>. QED
    BY <1>3, <1>4, <1>7, <2>1, PrepareIInv, AttestIInv, CommitIInv
<1>8. CASE RaiseSeen(w) \/ SetHead(w) \/ SetRoot(w) \/ SetSigningKey(w)
  <2>1. UNCHANGED record
    BY <1>8 DEF RaiseSeen, SetHead, SetRoot, SetSigningKey
  <2>2. Delivered(w)'
    BY <1>8, RecordIInv DEF Turns, Delivered
  <2>. QED
    BY <1>3, <2>1, <2>2
<1>9. CASE PushSite(w) \/ Pushed(w)
  <2>1. UNCHANGED record
    BY <1>9 DEF PushSite, Pushed
  <2>2. run[w] \in Run
    BY DEF IInv, TypeOK
  <2>3. run[w].direct \subseteq Sites
    BY <2>2 DEF Run
  <2>4. Delivered(w)
    BY DEF AInv
  <2>5. CASE run'[w].pc = "push"
    <3>1. run'[w] \in Run
      BY <1>9, PushIInv DEF IInv, TypeOK
    <3>2. run'[w].direct \subseteq Sites
      BY <3>1 DEF Run
    <3>. QED
      BY <1>1, <1>3, <1>9, <2>1, <2>3, <2>4, <2>5, <3>2, PushIInv DEF Delivered
  <2>6. CASE run'[w].pc = "apply"
    BY <1>1, <1>3, <1>9, <2>1, <2>3, <2>4, <2>6, PushIInv DEF Delivered
  <2>7. CASE run'[w].pc = "idle"
    BY <1>3, <2>1, <2>7 DEF Delivered
  <2>. QED
    BY <1>9, <2>5, <2>6, <2>7, PushIInv DEF Turns
<1>10. CASE Review(w) \/ ApplySite(w) \/ Applied(w)
  <2>1. Delivered(w)
    BY DEF AInv
  <2>2. CASE run'[w].pc = "apply"
    <3>1. /\ run[w].pc = "apply" /\ run'[w].sha = run[w].sha
          /\ \A s \in Sites : record'[s].id \in {record[s].id, run[w].sha}
      BY <1>10, <2>2, ApplyIInv
    <3>2. Delivered(w)'
      BY <1>1, <2>1, <2>2, <3>1 DEF Delivered
    <3>3. AppliedIsStored'
      BY <1>1, <2>1, <3>1 DEF AInv, AppliedIsStored, Delivered
    <3>. QED
      BY <1>2, <3>2, <3>3 DEF AInv
  <2>3. CASE run'[w].pc # "apply"
    <3>1. UNCHANGED record /\ run'[w].pc \in {"prepare", "apply", "idle"}
      BY <1>10, <2>3, ApplyIInv DEF Turns
    <3>2. Delivered(w)'
      BY <2>3, <3>1 DEF Delivered
    <3>. QED
      BY <1>3, <3>1, <3>2
  <2>. QED
    BY <2>2, <2>3
<1>11. CASE Compare(w) \/ Choose(w)
  <2>1. UNCHANGED record
    BY <1>11 DEF Compare, Choose
  <2>. QED
    BY <1>3, <1>4, <1>11, <2>1, CompareIInv, ChooseIInv
<1>12. CASE WriteConf(w) \/ WriteSecrets(w) \/ RecordPull(w)
  <2>1. UNCHANGED record
    BY <1>12 DEF WriteConf, WriteSecrets, RecordPull
  <2>. QED
    BY <1>3, <1>4, <1>12, <2>1, CheckoutIInv
<1>13. CASE Stop(w)
  <2>1. UNCHANGED record
    BY <1>13 DEF Stop
  <2>. QED
    BY <1>3, <1>4, <1>13, <2>1, MishapIInv
<1>. QED
  BY <1>5, <1>6, <1>7, <1>8, <1>9, <1>10, <1>11, <1>12, <1>13 DEF Command

LEMMA NextAInv ==
    ASSUME "site" \notin Mishaps
    PROVE  IInv /\ AInv /\ [Next]_vars => AInv'
<1>. SUFFICES ASSUME IInv, AInv, [Next]_vars PROVE AInv'
  OBVIOUS
<1>1. CASE UNCHANGED vars
  BY <1>1 DEF vars, AInv, AppliedIsStored, Delivered
<1>2. ASSUME NEW w \in Workstations, Command(w) PROVE AInv'
  BY <1>2, CommandAInv
<1>3. ASSUME NEW w \in Workstations, Edit(w) \/ Lose(w) PROVE AInv'
  <2>1. UNCHANGED <<store, record, run>>
    BY <1>3 DEF Edit, Lose
  <2>. QED
    BY <2>1 DEF AInv, AppliedIsStored, Delivered
<1>4. ASSUME NEW s \in Sites, NEW t \in Sites, SiteSync(s, t) PROVE AInv'
  <2>1. UNCHANGED <<record, run>>
    BY <1>4 DEF SiteSync
  <2>2. \A x \in Sites : store[x] \subseteq store'[x]
    BY <1>4 DEF SiteSync, IInv, TypeOK
  <2>3. \A w \in Workstations : run[w] \in Run /\ (Delivered(w) => Delivered(w)')
    BY <2>1, <2>2 DEF Delivered, IInv, TypeOK, Run
  <2>. QED
    BY <2>1, <2>2, <2>3, StoredStays DEF AInv
<1>5. ASSUME NEW s \in Sites, SiteLoses(s) PROVE AInv'
  BY <1>5 DEF SiteLoses, Mishap
<1>. QED
  BY <1>1, <1>2, <1>3, <1>4, <1>5 DEF Next

(* A version on a host is in the store: while no site is restored from an  *)
(* older copy, some site holds the version each host's record names,       *)
(* wherever the apply or the push stopped (publish and noSiteTook of       *)
(* config_apply.go: nothing is applied that no site took).                 *)
THEOREM AppliedStored ==
    ASSUME "site" \notin Mishaps
    PROVE  Spec => []AppliedIsStored
<1>1. Spec => [](IInv /\ AInv)
  <2>1. Init => AInv
    BY InitAInv
  <2>2. IInv /\ AInv /\ [Next]_vars => AInv'
    BY NextAInv
  <2>. QED
    BY <2>1, <2>2, InitIInv, NextIInv, PTL DEF Spec
<1>2. AInv => AppliedIsStored
  BY DEF AInv
<1>. QED
  BY <1>1, <1>2, PTL

-----------------------------------------------------------------------------
(* No command writes over an operator's edits, while nobody edits during a *)
(* pull.                                                                   *)

(* What a command is about to write over: nothing that can be edited while *)
(* it recovers or registers, and in a pull files that are the ones to be   *)
(* written or that a version in the cache has.                             *)
InHand(w) ==
    /\ run[w].cmd = "recover" /\ run[w].pc = "gather" => ~Complete(w)
    /\ run[w].pc = "choose" => run[w].cmd = "recover" /\ ~Complete(w)
    /\ run[w].pc = "compare" => run[w].cmd = "pull"
    /\ run[w].pc \in {"writeconf", "writesec"} /\ Complete(w) =>
          /\ run[w].cmd = "pull"
          /\ \/ files[w].conf = run[w].files.conf
             \/ \E v \in cache[w] : version[v].files.conf = files[w].conf
          /\ \/ files[w].sec = run[w].files.sec
             \/ \E v \in cache[w] : version[v].files.sec = files[w].sec

EInv == \A w \in Workstations : InHand(w)

LEMMA InitEInv == Init => EInv
  BY IdleType DEF Init, EInv, InHand

(* What a workstation has in hand is not disturbed from elsewhere.         *)
LEMMA InHandStays ==
    ASSUME IInv, NEW u \in Workstations, InHand(u),
           run'[u] = run[u], files'[u] = files[u], cache'[u] = cache[u],
           \A v \in DOMAIN version : v \in DOMAIN version' /\ version'[v] = version[v]
    PROVE  InHand(u)'
<1>1. cache[u] \subseteq DOMAIN version
  BY DEF IInv, TypeOK
<1>2. Complete(u)' <=> Complete(u)
  BY DEF Complete
<1>. QED
  BY <1>1, <1>2 DEF InHand

LEMMA CommandEInv ==
    ASSUME IInv, EInv, NEW w \in Workstations, Command(w)
    PROVE  EInv'
<1>1. /\ Elsewhere(w)
      /\ \A v \in DOMAIN version : v \in DOMAIN version' /\ version'[v] = version[v]
  BY CommandKeeps
<1>2. ASSUME InHand(w)' PROVE EInv'
  <2>1. \A u \in Workstations \ {w} : InHand(u)'
    BY <1>1, InHandStays DEF EInv, Elsewhere
  <2>. QED
    BY <1>2, <2>1 DEF EInv
<1>3. InHand(w)
  BY DEF EInv
<1>4. ASSUME NEW pcs, Turns(w, pcs),
             pcs \cap {"gather", "choose", "compare", "writeconf", "writesec"} = {}
      PROVE  EInv'
  BY <1>2, <1>4 DEF Turns, InHand
<1>5. CASE StartPublish(w) \/ StartPull(w) \/ StartRegister(w) \/ StartApply(w) \/ StartRecover(w)
  <2>1. UNCHANGED files
    BY <1>5 DEF StartPublish, StartPull, StartRegister, StartApply, StartRecover, Begin, disk
  <2>2. Complete(w)' <=> Complete(w)
    BY <2>1 DEF Complete
  <2>. QED
    BY <1>2, <1>5, <2>2, StartsIInv DEF Turns, InHand
<1>6. CASE AskSite(w) \/ JudgeGathered(w)
  <2>1. run[w].pc = "gather" /\ UNCHANGED files
    BY <1>6 DEF AskSite, JudgeGathered, disk
  <2>2. Complete(w)' <=> Complete(w)
    BY <2>1 DEF Complete
  <2>3. /\ AfterGather(w) = "choose" => run[w].cmd = "recover"
        /\ AfterGather(w) = "compare" => run[w].cmd = "pull"
        /\ AfterGather(w) \notin {"writeconf", "writesec"}
    BY DEF AfterGather
  <2>. QED
    BY <1>2, <1>3, <1>6, <2>1, <2>2, <2>3, GatherIInv DEF Turns, InHand
<1>7. CASE Prepare(w) \/ Commit(w)
  BY <1>4, <1>7, PrepareIInv, CommitIInv
<1>8. CASE Attest(w)
  <2>1. UNCHANGED files
    BY <1>8 DEF Attest
  <2>2. Complete(w)' <=> Complete(w)
    BY <2>1 DEF Complete
  <2>. QED
    BY <1>2, <1>8, <2>2, AttestIInv DEF Turns, InHand
<1>9. CASE RaiseSeen(w) \/ SetHead(w) \/ SetRoot(w) \/ SetSigningKey(w)
  <2>1. UNCHANGED files
    BY <1>9 DEF RaiseSeen, SetHead, SetRoot, SetSigningKey
  <2>2. Complete(w)' <=> Complete(w)
    BY <2>1 DEF Complete
  <2>. QED
    BY <1>2, <1>9, <2>2, RecordIInv DEF Turns, InHand
<1>10. CASE PushSite(w) \/ Pushed(w)
  BY <1>4, <1>10, PushIInv
<1>11. CASE Review(w) \/ ApplySite(w) \/ Applied(w)
  BY <1>4, <1>11, ApplyIInv
<1>12. CASE Compare(w)
  <2>1. run[w].pc = "compare"
    BY <1>12 DEF Compare
  <2>. QED
    BY <1>2, <1>3, <1>12, <2>1, CompareIInv DEF Turns, InHand
<1>13. CASE Choose(w)
  <2>1. UNCHANGED files
    BY <1>13 DEF Choose, disk
  <2>2. Complete(w)' <=> Complete(w)
    BY <2>1 DEF Complete
  <2>. QED
    BY <1>2, <1>3, <1>13, <2>2, ChooseIInv DEF Turns, InHand
<1>14. CASE WriteConf(w) \/ WriteSecrets(w) \/ RecordPull(w)
  <2>1. CASE run'[w].pc # "writesec"
    <3>1. run'[w].pc \in {"setkey", "sethead", "idle"}
      BY <1>14, <2>1, CheckoutIInv DEF Turns
    <3>. QED
      BY <1>2, <3>1 DEF InHand
  <2>2. CASE run'[w].pc = "writesec"
    <3>1. /\ run[w].pc = "writeconf" /\ run'[w].cmd = run[w].cmd
          /\ run'[w].files = run[w].files
          /\ files'[w] = [conf |-> run[w].files.conf,
                          sec  |-> IF files[w] = None THEN None ELSE files[w].sec]
      BY <1>14, <2>2, CheckoutIInv
    <3>2. UNCHANGED <<version, cache>>
      BY <1>14, <2>2, <3>1 DEF WriteConf, WriteSecrets, RecordPull
    <3>3. Complete(w)' => Complete(w) /\ files'[w].sec = files[w].sec
      BY <3>1 DEF Complete
    <3>. QED
      BY <1>2, <1>3, <2>2, <3>1, <3>2, <3>3 DEF InHand
  <2>. QED
    BY <2>1, <2>2
<1>15. CASE Stop(w)
  BY <1>4, <1>15, MishapIInv
<1>. QED
  BY <1>5, <1>6, <1>7, <1>8, <1>9, <1>10, <1>11, <1>12, <1>13, <1>14, <1>15 DEF Command

LEMMA NextEInv ==
    ASSUME "pull" \notin EditWhile
    PROVE  IInv /\ EInv /\ [Next]_vars => EInv'
<1>. SUFFICES ASSUME IInv, EInv, [Next]_vars PROVE EInv'
  OBVIOUS
<1>1. CASE UNCHANGED vars
  <2>1. UNCHANGED <<version, cache, files, run>>
    BY <1>1 DEF vars, disk
  <2>. QED
    BY <2>1, InHandStays DEF EInv
<1>2. ASSUME NEW w \in Workstations, Command(w) PROVE EInv'
  BY <1>2, CommandEInv
<1>3. ASSUME NEW w \in Workstations, Edit(w) PROVE EInv'
  <2>1. /\ Complete(w) /\ run[w].cmd \in EditWhile /\ UNCHANGED <<version, cache, run>>
        /\ \A u \in Workstations \ {w} : files'[u] = files[u]
    BY <1>3 DEF Edit, IInv, TypeOK
  <2>2. InHand(w)'
    BY <2>1 DEF InHand, EInv
  <2>. QED
    BY <2>1, <2>2, InHandStays DEF EInv
<1>4. ASSUME NEW w \in Workstations, Lose(w) PROVE EInv'
  <2>1. run[w].pc = "idle" /\ UNCHANGED <<version, run>>
        /\ \A u \in Workstations \ {w} : files'[u] = files[u] /\ cache'[u] = cache[u]
    BY <1>4 DEF Lose, IInv, TypeOK
  <2>2. InHand(w)'
    BY <2>1 DEF InHand
  <2>. QED
    BY <2>1, <2>2, InHandStays DEF EInv
<1>5. ASSUME NEW s \in Sites, SiteLoses(s) \/ (\E t \in Sites : SiteSync(s, t)) PROVE EInv'
  <2>1. UNCHANGED <<version, cache, files, run>>
    BY <1>5 DEF SiteLoses, SiteSync, disk
  <2>. QED
    BY <2>1, InHandStays DEF EInv
<1>. QED
  BY <1>1, <1>2, <1>3, <1>4, <1>5 DEF Next

(* The action of EditsSurvive. *)
EditKept ==
    \A w \in Workstations :
        run[w].pc \in {"writeconf", "writesec"} /\ Complete(w) =>
            /\ files'[w].conf # files[w].conf =>
                   \E v \in cache[w] : version[v].files.conf = files[w].conf
            /\ files'[w].sec # files[w].sec =>
                   \E v \in cache[w] : version[v].files.sec = files[w].sec

LEMMA KeepsEdits ==
    ASSUME "pull" \notin EditWhile
    PROVE  IInv /\ EInv /\ [Next]_vars => [EditKept]_vars
<1>. SUFFICES ASSUME IInv, EInv, Next, NEW w \in Workstations,
                     run[w].pc \in {"writeconf", "writesec"}, Complete(w)
              PROVE  /\ files'[w].conf # files[w].conf =>
                            \E v \in cache[w] : version[v].files.conf = files[w].conf
                     /\ files'[w].sec # files[w].sec =>
                            \E v \in cache[w] : version[v].files.sec = files[w].sec
  BY DEF EditKept
<1>1. InHand(w) /\ run[w].cmd = "pull"
  BY DEF EInv, InHand
<1>2. CASE files'[w] = files[w]
  BY <1>2
<1>3. ASSUME NEW u \in Workstations, Command(u), u # w PROVE files'[w] = files[w]
  BY <1>3, CommandKeeps DEF Elsewhere
<1>4. CASE Command(w)
  <2>. USE DEF disk
  <2>0. files \in [Workstations -> Files \cup [conf : Confs, sec : {None}] \cup {None}]
    BY DEF IInv, TypeOK
  <2>1. CASE WriteConf(w)
    <3>1. files'[w] = [conf |-> run[w].files.conf,
                       sec  |-> IF files[w] = None THEN None ELSE files[w].sec]
      BY <2>0, <2>1 DEF WriteConf
    <3>. QED
      BY <1>1, <3>1 DEF InHand, Complete
  <2>2. CASE WriteSecrets(w)
    <3>1. files'[w] = [conf |-> files[w].conf, sec |-> run[w].files.sec]
      BY <2>0, <2>2 DEF WriteSecrets
    <3>. QED
      BY <1>1, <3>1 DEF InHand
  <2>3. CASE StartPublish(w) \/ StartPull(w) \/ StartRegister(w) \/ StartApply(w) \/ StartRecover(w)
    BY <2>3 DEF StartPublish, StartPull, StartRegister, StartApply, StartRecover, Begin
  <2>4. CASE AskSite(w) \/ JudgeGathered(w) \/ Prepare(w) \/ Attest(w) \/ Commit(w)
    BY <2>4 DEF AskSite, JudgeGathered, Prepare, Attest, Commit
  <2>5. CASE RaiseSeen(w) \/ SetHead(w) \/ SetRoot(w) \/ SetSigningKey(w)
    BY <2>5 DEF RaiseSeen, SetHead, SetRoot, SetSigningKey
  <2>6. CASE PushSite(w) \/ Pushed(w) \/ Review(w) \/ ApplySite(w) \/ Applied(w)
    BY <2>6 DEF PushSite, Pushed, Review, ApplySite, Applied
  <2>7. CASE Compare(w) \/ Choose(w) \/ RecordPull(w) \/ Stop(w)
    BY <2>7 DEF Compare, Choose, RecordPull, Stop
  <2>. QED
    BY <1>4, <2>1, <2>2, <2>3, <2>4, <2>5, <2>6, <2>7 DEF Command
<1>5. ASSUME NEW u \in Workstations, Edit(u) \/ Lose(u) PROVE files'[w] = files[w]
  BY <1>1, <1>5 DEF Edit, Lose, IInv, TypeOK
<1>6. ASSUME NEW s \in Sites, SiteLoses(s) \/ (\E t \in Sites : SiteSync(s, t))
      PROVE  files'[w] = files[w]
  BY <1>6 DEF SiteLoses, SiteSync, disk
<1>. QED
  BY <1>2, <1>3, <1>4, <1>5, <1>6 DEF Next

(* Where no operator edits the files while a pull runs on the same         *)
(* workstation, no edit is lost: a pull, a recovery or a registration      *)
(* writes over nothing that no version in its cache has (runConfigPull's   *)
(* comparison with the base, MergeSecrets, and the checkouts of recover    *)
(* and register, which only write where there were no files).              *)
THEOREM NoEditLost ==
    ASSUME "pull" \notin EditWhile
    PROVE  Spec => EditsSurvive
<1>1. Init => EInv
  BY InitEInv
<1>2. IInv /\ EInv /\ [Next]_vars => EInv'
  BY NextEInv
<1>3. IInv /\ EInv /\ [Next]_vars => [EditKept]_vars
  BY KeepsEdits
<1>4. Spec => [][EditKept]_vars
  BY <1>1, <1>2, <1>3, InitIInv, NextIInv, PTL DEF Spec
<1>. QED
  BY <1>4 DEF EditsSurvive, EditKept

-----------------------------------------------------------------------------
(* Loops.                                                                  *)

LEMMA LeastOf ==
    ASSUME NEW T \in SUBSET Nat, T # {}
    PROVE  \E i \in T : \A j \in T : i <= j
<1> DEFINE U == {0..i : i \in T}
           R == StrictSubsetOrdering(Nat)
           S == FiniteSubsetsOf(Nat)
<1>1. IsWellFoundedOn(R, S)
  BY FS_StrictSubsetOrderingWellFounded
<1>2. U \subseteq S /\ U # {}
  <2>1. \A i \in T : IsFiniteSet(0..i) /\ 0..i \subseteq Nat
    BY FS_Interval
  <2>. QED
    BY <2>1 DEF FiniteSubsetsOf
<1>. HIDE DEF U, R, S
<1>3. PICK u \in U : \A v \in U : ~ (<<v, u>> \in R)
  BY <1>1, <1>2, WFMin
<1>4. PICK i \in T : u = 0..i
  BY <1>3 DEF U
<1>5. ASSUME NEW j \in T PROVE i <= j
  <2>1. 0..j \in U
    BY DEF U
  <2>2. <<0..j, 0..i>> \notin R
    BY <1>3, <1>4, <2>1
  <2>3. SUFFICES ASSUME j < i PROVE FALSE
    OBVIOUS
  <2>4. 0..j \subseteq 0..i /\ i \in 0..i /\ i \notin 0..j
    BY <2>3
  <2>5. 0..j \in SUBSET Nat /\ 0..i \in SUBSET Nat
    OBVIOUS
  <2>. QED
    BY <2>2, <2>4, <2>5 DEF R, StrictSubsetOrdering
<1>. QED
  BY <1>5

(* Induction over the numbers of a set.                                    *)
LEMMA AllNumbers ==
    ASSUME NEW T \in SUBSET Nat, 0 \in T, \A n \in T : n + 1 \in T
    PROVE  T = Nat
<1>1. SUFFICES ASSUME Nat \ T # {} PROVE FALSE
  OBVIOUS
<1>2. PICK i \in Nat \ T : \A j \in Nat \ T : i <= j
  BY <1>1, LeastOf
<1>3. i # 0 /\ i - 1 \in Nat
  BY <1>2
<1>4. i - 1 \in T
  BY <1>2, <1>3
<1>. QED
  BY <1>2, <1>3, <1>4

(* The loop's states, one after another.                                   *)
LoopOf(F, x, k) == CHOOSE f : f = [n \in 0..k |-> IF n = 0 THEN x ELSE F[f[n - 1]]]

Loops(X, F, x, k) ==
    {f \in [0..k -> X] : f[0] = x /\ \A n \in 1..k : f[n] = F[f[n - 1]]}

LEMMA LoopExists ==
    ASSUME NEW X, NEW F \in [X -> X], NEW x \in X, NEW k \in Nat
    PROVE  LoopOf(F, x, k) \in Loops(X, F, x, k)
<1>. DEFINE Good(f, j) == f[0] = x /\ \A n \in 1..j : f[n] = F[f[n - 1]]
           T == {j \in Nat : \E f \in [0..j -> X] : Good(f, j)}
<1>1. 0 \in T
  <2>1. [n \in 0..0 |-> x] \in [0..0 -> X] /\ Good([n \in 0..0 |-> x], 0)
    OBVIOUS
  <2>. QED
    BY <2>1
<1>2. ASSUME NEW j \in T PROVE j + 1 \in T
  <2>1. PICK f \in [0..j -> X] : Good(f, j)
    OBVIOUS
  <2>. DEFINE h == [n \in 0..(j + 1) |-> IF n = j + 1 THEN F[f[j]] ELSE f[n]]
  <2>2. h \in [0..(j + 1) -> X]
    OBVIOUS
  <2>3. h[0] = x
    BY <2>1
  <2>4. ASSUME NEW n \in 1..(j + 1) PROVE h[n] = F[h[n - 1]]
    BY <2>1
  <2>. HIDE DEF h
  <2>. QED
    BY <2>2, <2>3, <2>4
<1>. HIDE DEF T
<1>3. T = Nat
  BY <1>1, <1>2, AllNumbers DEF T
<1>4. PICK f \in [0..k -> X] : Good(f, k)
  BY <1>3 DEF T
<1>5. f = [n \in 0..k |-> IF n = 0 THEN x ELSE F[f[n - 1]]]
  BY <1>4
<1>6. LoopOf(F, x, k) = [n \in 0..k |-> IF n = 0 THEN x ELSE F[LoopOf(F, x, k)[n - 1]]]
  BY <1>5 DEF LoopOf
<1>7. LoopOf(F, x, k)[0] = x /\ \A n \in 1..k : LoopOf(F, x, k)[n] = F[LoopOf(F, x, k)[n - 1]]
  <2>. DEFINE h == LoopOf(F, x, k)
  <2>1. h = [n \in 0..k |-> IF n = 0 THEN x ELSE F[h[n - 1]]]
    BY <1>6
  <2>. HIDE DEF h
  <2>2. h[0] = x /\ \A n \in 1..k : h[n] = F[h[n - 1]]
    BY <2>1
  <2>. QED
    BY <2>2 DEF h
<1>. DEFINE g == LoopOf(F, x, k)
           V == {n \in Nat : n <= k => g[n] \in X}
<1>8. g = [n \in 0..k |-> IF n = 0 THEN x ELSE F[g[n - 1]]] /\ g[0] = x /\ \A n \in 1..k : g[n] = F[g[n - 1]]
  BY <1>6, <1>7
<1>. HIDE DEF g
<1>9. 0 \in V
  BY <1>8
<1>10. ASSUME NEW n \in V PROVE n + 1 \in V
  <2>1. SUFFICES ASSUME n + 1 <= k PROVE g[n + 1] \in X
    OBVIOUS
  <2>2. g[n] \in X /\ g[n + 1] = F[g[n]]
    BY <1>8, <2>1
  <2>. QED
    BY <2>2
<1>. HIDE DEF V
<1>11. V = Nat
  BY <1>9, <1>10, AllNumbers DEF V
<1>12. g \in [0..k -> X]
  <2>1. \A n \in 0..k : g[n] \in X
    BY <1>11 DEF V
  <2>2. g = [n \in 0..k |-> g[n]]
    BY <1>8
  <2>. QED
    BY <2>1, <2>2
<1>. QED
  BY <1>8, <1>12 DEF g, Loops

LEMMA IteratedIs ==
    ASSUME NEW F, NEW x, NEW k
    PROVE  Iterated(F, x, k) = LoopOf(F, x, k)[k]
BY DEF Iterated, LoopOf

(* Each round applies F once more.                                         *)
LEMMA IteratedStep ==
    ASSUME NEW X, NEW F \in [X -> X], NEW x \in X, NEW k \in Nat
    PROVE  /\ Iterated(F, x, 0) = x
           /\ Iterated(F, x, k) \in X
           /\ Iterated(F, x, k + 1) = F[Iterated(F, x, k)]
<1>1. Iterated(F, x, 0) = x
  BY IteratedIs, LoopExists DEF Loops
<1>2. ASSUME NEW j \in Nat
      PROVE  LoopOf(F, x, j) \in Loops(X, F, x, j)
  BY LoopExists
<1>. DEFINE a == LoopOf(F, x, k)
           b == LoopOf(F, x, k + 1)
           T == {n \in Nat : n <= k => a[n] = b[n]}
<1>3. /\ a \in [0..k -> X]
      /\ a[0] = x
      /\ \A n \in 1..k : a[n] = F[a[n - 1]]
  BY <1>2 DEF Loops
<1>4. /\ b \in [0..(k + 1) -> X]
      /\ b[0] = x
      /\ \A n \in 1..(k + 1) : b[n] = F[b[n - 1]]
  <2>1. k + 1 \in Nat
    OBVIOUS
  <2>. QED
    BY <2>1, <1>2 DEF Loops
<1>5. Iterated(F, x, k) = a[k] /\ Iterated(F, x, k + 1) = b[k + 1]
  BY IteratedIs
<1>. HIDE DEF a, b
<1>6. 0 \in T
  BY <1>3, <1>4
<1>7. ASSUME NEW n \in T PROVE n + 1 \in T
  BY <1>3, <1>4
<1>. HIDE DEF T
<1>8. T = Nat
  BY <1>6, <1>7, AllNumbers DEF T
<1>9. a[k] = b[k] /\ a[k] \in X /\ b[k + 1] = F[b[k]]
  BY <1>3, <1>4, <1>8 DEF T
<1>. QED
  BY <1>1, <1>5, <1>9

(* What holds before a loop and through each round holds after it.         *)
LEMMA IteratedKeeps ==
    ASSUME NEW X, NEW F \in [X -> X], NEW P \in SUBSET X, NEW x \in P, NEW k \in Nat,
           \A y \in P : F[y] \in P
    PROVE  Iterated(F, x, k) \in P
<1>. DEFINE T == {n \in Nat : Iterated(F, x, n) \in P}
<1>1. \A n \in Nat : Iterated(F, x, 0) = x /\ Iterated(F, x, n + 1) = F[Iterated(F, x, n)]
  BY IteratedStep
<1>2. 0 \in T
  BY <1>1
<1>3. ASSUME NEW n \in T PROVE n + 1 \in T
  BY <1>1
<1>. HIDE DEF T
<1>4. T = Nat
  BY <1>2, <1>3, AllNumbers DEF T
<1>. QED
  BY <1>4 DEF T

(* A loop each of whose rounds leaves things as they are or raises a       *)
(* measure is over after as many rounds as the measure is high.            *)
LEMMA IteratedSettles ==
    ASSUME NEW X, NEW F \in [X -> X], NEW P \in SUBSET X, NEW x \in P, NEW k \in Nat,
           NEW m \in [P -> 0..k],
           \A y \in P : F[y] \in P /\ (F[y] = y \/ m[F[y]] > m[y])
    PROVE  F[Iterated(F, x, k)] = Iterated(F, x, k)
<1>a. ASSUME NEW n \in Nat
      PROVE  Iterated(F, x, 0) = x /\ Iterated(F, x, n + 1) = F[Iterated(F, x, n)]
  BY IteratedStep
<1>b. ASSUME NEW n \in Nat
      PROVE  Iterated(F, x, n) \in P
  BY IteratedKeeps
<1>. DEFINE s(n) == Iterated(F, x, n)
           T == {n \in Nat : F[s(n)] = s(n) \/ m[s(n)] >= n}
<1>1. \A n \in Nat : s(n) \in P /\ s(0) = x /\ s(n + 1) = F[s(n)]
  BY <1>a, <1>b
<1>. HIDE DEF s
<1>2. 0 \in T
  BY <1>1
<1>3. ASSUME NEW n \in T PROVE n + 1 \in T
  <2>1. CASE F[s(n)] = s(n)
    BY <1>1, <2>1
  <2>2. CASE F[s(n)] # s(n)
    <3>1. m[s(n)] >= n /\ m[F[s(n)]] > m[s(n)] /\ m[s(n)] \in 0..k /\ m[F[s(n)]] \in 0..k
      BY <1>1, <2>2
    <3>2. m[s(n + 1)] = m[F[s(n)]]
      BY <1>1
    <3>. QED
      BY <3>1, <3>2
  <2>. QED
    BY <2>1, <2>2
<1>. HIDE DEF T
<1>4. T = Nat
  BY <1>2, <1>3, AllNumbers DEF T
<1>5. F[s(k)] = s(k) \/ m[s(k)] >= k
  BY <1>4 DEF T
<1>6. CASE F[s(k)] # s(k)
  <2>1. m[s(k)] >= k /\ m[s(k)] \in 0..k /\ m[F[s(k)]] \in 0..k /\ m[F[s(k)]] > m[s(k)]
    BY <1>1, <1>5, <1>6
  <2>. QED
    BY <2>1
<1>. QED
  BY <1>6 DEF s

(* A loop over sets of a finite set that only adds, or only drops, is over *)
(* after as many rounds as the set has members.                            *)
LEMMA GrowingSettles ==
    ASSUME NEW B, IsFiniteSet(B), NEW F \in [SUBSET B -> SUBSET B], NEW x \in SUBSET B,
           \A S \in SUBSET B : S \subseteq F[S]
    PROVE  /\ Iterated(F, x, Cardinality(B)) \in SUBSET B
           /\ F[Iterated(F, x, Cardinality(B))] = Iterated(F, x, Cardinality(B))
<1>. DEFINE k == Cardinality(B)
           m == [S \in SUBSET B |-> Cardinality(S)]
<1>1. k \in Nat
  BY FS_CardinalityType
<1>2. \A S \in SUBSET B : IsFiniteSet(S) /\ Cardinality(S) \in 0..k
  BY FS_Subset, FS_CardinalityType
<1>3. m \in [SUBSET B -> 0..k]
  BY <1>2
<1>4. ASSUME NEW S \in SUBSET B PROVE F[S] = S \/ m[F[S]] > m[S]
  <2>1. SUFFICES ASSUME F[S] # S PROVE Cardinality(F[S]) > Cardinality(S)
    OBVIOUS
  <2>2. F[S] \in SUBSET B /\ S \subseteq F[S]
    OBVIOUS
  <2>. QED
    BY <1>2, <2>1, <2>2, FS_Subset
<1>. HIDE DEF k, m
<1>5. F[Iterated(F, x, k)] = Iterated(F, x, k)
  <2>. DEFINE P == SUBSET B
  <2>1. F \in [P -> P] /\ P \in SUBSET P /\ x \in P /\ m \in [P -> 0..k]
    BY <1>3
  <2>2. \A y \in P : F[y] \in P /\ (F[y] = y \/ m[F[y]] > m[y])
    BY <1>4
  <2>. HIDE DEF P
  <2>. QED
    BY <1>1, <2>1, <2>2, IteratedSettles
<1>6. Iterated(F, x, k) \in SUBSET B
  BY <1>1, IteratedStep
<1>. QED
  BY <1>5, <1>6 DEF k

LEMMA ShrinkingSettles ==
    ASSUME NEW B, IsFiniteSet(B), NEW F \in [SUBSET B -> SUBSET B], NEW x \in SUBSET B,
           \A S \in SUBSET B : F[S] \subseteq S
    PROVE  /\ Iterated(F, x, Cardinality(B)) \in SUBSET B
           /\ F[Iterated(F, x, Cardinality(B))] = Iterated(F, x, Cardinality(B))
<1>. DEFINE k == Cardinality(B)
           m == [S \in SUBSET B |-> k - Cardinality(S)]
<1>1. k \in Nat
  BY FS_CardinalityType
<1>2. \A S \in SUBSET B : IsFiniteSet(S) /\ Cardinality(S) \in 0..k
  BY FS_Subset, FS_CardinalityType
<1>3. m \in [SUBSET B -> 0..k]
  BY <1>1, <1>2
<1>4. ASSUME NEW S \in SUBSET B PROVE F[S] = S \/ m[F[S]] > m[S]
  <2>1. SUFFICES ASSUME F[S] # S PROVE k - Cardinality(F[S]) > k - Cardinality(S)
    OBVIOUS
  <2>2. F[S] \in SUBSET B /\ F[S] \subseteq S
    OBVIOUS
  <2>3. Cardinality(F[S]) < Cardinality(S)
    BY <1>2, <2>1, <2>2, FS_Subset
  <2>. QED
    BY <1>1, <1>2, <2>2, <2>3
<1>. HIDE DEF k, m
<1>5. F[Iterated(F, x, k)] = Iterated(F, x, k)
  <2>. DEFINE P == SUBSET B
  <2>1. F \in [P -> P] /\ P \in SUBSET P /\ x \in P /\ m \in [P -> 0..k]
    BY <1>3
  <2>2. \A y \in P : F[y] \in P /\ (F[y] = y \/ m[F[y]] > m[y])
    BY <1>4
  <2>. HIDE DEF P
  <2>. QED
    BY <1>1, <2>1, <2>2, IteratedSettles
<1>6. Iterated(F, x, k) \in SUBSET B
  BY <1>1, IteratedStep
<1>. QED
  BY <1>5, <1>6 DEF k

-----------------------------------------------------------------------------
(* Ancestry.                                                               *)

(* What one round reaches from S, and what is reached from v in the end.   *)
Onward(g) == [S \in SUBSET DOMAIN g |->
                 S \cup (DOMAIN g \cap UNION {g[v].parents : v \in S})]
Reached(g, v) == Iterated(Onward(g), g[v].parents \cap DOMAIN g, Cardinality(DOMAIN g))

LEMMA AncestryIs ==
    ASSUME NEW g
    PROVE  /\ Ancestry(g) = UNION {{v} \X Reached(g, v) : v \in DOMAIN g}
           /\ \A v, a : <<v, a>> \in Ancestry(g) <=> v \in DOMAIN g /\ a \in Reached(g, v)
<1>1. Ancestry(g) = UNION {{v} \X Reached(g, v) : v \in DOMAIN g}
  BY DEF Ancestry, Reached, Onward
<1>. QED
  BY <1>1

LEMMA OnwardIs ==
    ASSUME NEW g
    PROVE  /\ Onward(g) \in [SUBSET DOMAIN g -> SUBSET DOMAIN g]
           /\ \A S \in SUBSET DOMAIN g :
                  Onward(g)[S] = S \cup (DOMAIN g \cap UNION {g[v].parents : v \in S})
BY DEF Onward

(* What is reached is held, and goes on to the parents of what is reached. *)
LEMMA ReachedCloses ==
    ASSUME NEW g, IsFiniteSet(DOMAIN g), NEW v \in DOMAIN g
    PROVE  /\ Reached(g, v) \subseteq DOMAIN g
           /\ g[v].parents \cap DOMAIN g \subseteq Reached(g, v)
           /\ \A u \in Reached(g, v) : g[u].parents \cap DOMAIN g \subseteq Reached(g, v)
<1>. DEFINE D == DOMAIN g
           x == g[v].parents \cap D
           F == Onward(g)
           R == Reached(g, v)
           P == {S \in SUBSET D : x \subseteq S}
<1>1. F \in [SUBSET D -> SUBSET D] /\ x \in SUBSET D
  BY OnwardIs
<1>2. \A S \in SUBSET D : F[S] = S \cup (D \cap UNION {g[u].parents : u \in S})
  BY OnwardIs
<1>3. \A S \in SUBSET D : S \subseteq F[S]
  BY <1>2
<1>4. R = Iterated(F, x, Cardinality(D)) /\ IsFiniteSet(D) /\ Cardinality(D) \in Nat
  BY FS_CardinalityType DEF Reached
<1>. HIDE DEF D, x, F, R
<1>5. R \in SUBSET D /\ F[R] = R
  BY <1>1, <1>3, <1>4, GrowingSettles
<1>6. R \in P
  <2>1. P \in SUBSET SUBSET D /\ x \in P /\ \A y \in P : F[y] \in P
    BY <1>1, <1>3
  <2>. HIDE DEF P
  <2>. QED
    BY <1>1, <1>4, <2>1, IteratedKeeps
<1>7. ASSUME NEW u \in R PROVE g[u].parents \cap D \subseteq R
  BY <1>2, <1>5
<1>. QED
  BY <1>5, <1>6, <1>7 DEF D, x, R

(* Nothing else is: a set that holds the parents of v and those of each of *)
(* its own holds what v reaches.                                           *)
LEMMA ReachedLeast ==
    ASSUME NEW g, IsFiniteSet(DOMAIN g), NEW v \in DOMAIN g, NEW T \in SUBSET DOMAIN g,
           g[v].parents \cap DOMAIN g \subseteq T,
           \A u \in T : g[u].parents \cap DOMAIN g \subseteq T
    PROVE  Reached(g, v) \subseteq T
<1>. DEFINE D == DOMAIN g
           x == g[v].parents \cap D
           F == Onward(g)
           P == {S \in SUBSET D : S \subseteq T}
<1>1. F \in [SUBSET D -> SUBSET D] /\ x \in P /\ P \in SUBSET SUBSET D
  BY OnwardIs
<1>2. ASSUME NEW S \in P PROVE F[S] \in P
  <2>1. F[S] = S \cup (D \cap UNION {g[u].parents : u \in S})
    BY OnwardIs
  <2>. QED
    BY <2>1
<1>3. Cardinality(D) \in Nat
  BY FS_CardinalityType
<1>4. Reached(g, v) = Iterated(F, x, Cardinality(D))
  BY DEF Reached
<1>. HIDE DEF D, x, F, P
<1>5. Iterated(F, x, Cardinality(D)) \in P
  BY <1>1, <1>2, <1>3, IteratedKeeps
<1>. QED
  BY <1>4, <1>5 DEF P

(* Ancestry holds between held versions, parents are ancestors, and so are *)
(* ancestors of ancestors.                                                 *)
LEMMA AncestryHolds ==
    ASSUME NEW g, IsFiniteSet(DOMAIN g)
    PROVE  /\ Ancestry(g) \subseteq (DOMAIN g) \X (DOMAIN g)
           /\ \A v \in DOMAIN g : \A p \in g[v].parents \cap DOMAIN g : <<v, p>> \in Ancestry(g)
<1>1. ASSUME NEW x \in Ancestry(g) PROVE x \in (DOMAIN g) \X (DOMAIN g)
  <2>1. PICK v \in DOMAIN g : \E a \in Reached(g, v) : x = <<v, a>>
    BY AncestryIs
  <2>. QED
    BY <2>1, ReachedCloses
<1>2. ASSUME NEW v \in DOMAIN g, NEW p \in g[v].parents \cap DOMAIN g
      PROVE  <<v, p>> \in Ancestry(g)
  BY AncestryIs, ReachedCloses
<1>. QED
  BY <1>1, <1>2

LEMMA AncestryTransitive ==
    ASSUME NEW g, IsFiniteSet(DOMAIN g), NEW a, NEW b, NEW c,
           <<a, b>> \in Ancestry(g), <<b, c>> \in Ancestry(g)
    PROVE  <<a, c>> \in Ancestry(g)
<1>1. a \in DOMAIN g /\ b \in Reached(g, a) /\ b \in DOMAIN g /\ c \in Reached(g, b)
  BY AncestryIs
<1>2. Reached(g, b) \subseteq Reached(g, a)
  BY <1>1, ReachedCloses, ReachedLeast
<1>. QED
  BY <1>1, <1>2, AncestryIs

-----------------------------------------------------------------------------
(* Candidates.                                                             *)

(* What one round drops from C. *)
Trimmed(g, base, hist) == [C \in SUBSET base |-> {v \in C : Extends(g, v, hist \cup C)}]

(* What follows the history is of base and extends the history and itself, *)
(* and it is the most that does.                                           *)
LEMMA FollowingHolds ==
    ASSUME NEW g, NEW base, IsFiniteSet(base), NEW hist
    PROVE  /\ Following(g, base, hist) \subseteq base
           /\ \A v \in Following(g, base, hist) :
                  Extends(g, v, hist \cup Following(g, base, hist))
<1>. DEFINE F == Trimmed(g, base, hist)
           R == Following(g, base, hist)
<1>1. F \in [SUBSET base -> SUBSET base] /\ base \in SUBSET base
  BY DEF Trimmed
<1>2. \A C \in SUBSET base : F[C] = {v \in C : Extends(g, v, hist \cup C)}
  BY DEF Trimmed
<1>3. \A C \in SUBSET base : F[C] \subseteq C
  BY <1>2
<1>4. R = Iterated(F, base, Cardinality(base))
  BY DEF Following, Trimmed
<1>. HIDE DEF F, R
<1>5. R \in SUBSET base /\ F[R] = R
  BY <1>1, <1>3, <1>4, ShrinkingSettles
<1>6. ASSUME NEW v \in R PROVE Extends(g, v, hist \cup R)
  BY <1>2, <1>5
<1>. QED
  BY <1>5, <1>6 DEF R

LEMMA FollowingMost ==
    ASSUME NEW g, NEW base, IsFiniteSet(base), NEW hist, NEW C \in SUBSET base,
           \A v \in C : Extends(g, v, hist \cup C)
    PROVE  C \subseteq Following(g, base, hist)
<1>. DEFINE F == Trimmed(g, base, hist)
           P == {S \in SUBSET base : C \subseteq S}
           k == Cardinality(base)
<1>1. F \in [SUBSET base -> SUBSET base] /\ base \in P /\ P \in SUBSET SUBSET base
  BY DEF Trimmed
<1>2. ASSUME NEW S \in P PROVE F[S] \in P
  <2>1. F[S] = {v \in S : Extends(g, v, hist \cup S)}
    BY DEF Trimmed
  <2>2. ASSUME NEW v \in C PROVE Extends(g, v, hist \cup S)
    <3>1. Extends(g, v, hist \cup C)
      OBVIOUS
    <3>. QED
      BY <3>1 DEF Extends
  <2>. QED
    BY <2>1, <2>2
<1>3. k \in Nat
  BY FS_CardinalityType
<1>4. Following(g, base, hist) = Iterated(F, base, k)
  BY DEF Following, Trimmed
<1>. HIDE DEF F, P, k
<1>5. Iterated(F, base, k) \in P
  BY <1>1, <1>2, <1>3, IteratedKeeps
<1>. QED
  BY <1>4, <1>5 DEF P

-----------------------------------------------------------------------------
(* Deciding the candidates.                                                *)

(* One round over the statuses. *)
Deciding(cand, att) ==
    [s \in Statuses(cand) |->
        [in  |-> {d \in cand : \A r \in cand : <<r, d>> \in att => r \in s.out},
         out |-> {d \in cand : \E r \in s.in : <<r, d>> \in att}]]

LEMMA DecidingIs ==
    ASSUME NEW cand, NEW att
    PROVE  /\ Deciding(cand, att) \in [Statuses(cand) -> Statuses(cand)]
           /\ Undecided \in Statuses(cand)
           /\ Decided(cand, att) =
                  Iterated(Deciding(cand, att), Undecided, 2 * Cardinality(cand))
BY DEF Deciding, Statuses, Undecided, Decided

LEMMA DecidingStep ==
    ASSUME NEW cand, NEW att, NEW s \in Statuses(cand), NEW d
    PROVE  /\ d \in Deciding(cand, att)[s].in <=>
                  d \in cand /\ \A r \in cand : <<r, d>> \in att => r \in s.out
           /\ d \in Deciding(cand, att)[s].out <=>
                  d \in cand /\ \E r \in s.in : <<r, d>> \in att
BY DEF Deciding

(* The statuses Judge's rounds pass through: nothing is both in and out,   *)
(* and the next round takes nothing back.                                  *)
Rising(cand, att) ==
    {s \in Statuses(cand) :
        /\ s.in \cap s.out = {}
        /\ s.in \subseteq Deciding(cand, att)[s].in
        /\ s.out \subseteq Deciding(cand, att)[s].out}

LEMMA RisingGoesOn ==
    ASSUME NEW cand, NEW att
    PROVE  /\ Undecided \in Rising(cand, att)
           /\ \A s \in Rising(cand, att) : Deciding(cand, att)[s] \in Rising(cand, att)
<1>1. Undecided \in Rising(cand, att)
  BY DecidingIs DEF Rising, Undecided
<1>2. ASSUME NEW s \in Rising(cand, att)
      PROVE  Deciding(cand, att)[s] \in Rising(cand, att)
  <2>. DEFINE t == Deciding(cand, att)[s]
             u == Deciding(cand, att)[t]
  <2>1. /\ s \in Statuses(cand) /\ s.in \cap s.out = {}
        /\ s.in \subseteq t.in /\ s.out \subseteq t.out
    BY DEF Rising
  <2>2. t \in Statuses(cand)
    BY <2>1, DecidingIs
  <2>3. ASSUME NEW d
        PROVE  /\ d \in t.in <=> d \in cand /\ \A r \in cand : <<r, d>> \in att => r \in s.out
               /\ d \in t.out <=> d \in cand /\ \E r \in s.in : <<r, d>> \in att
    BY <2>1, DecidingStep
  <2>4. ASSUME NEW d
        PROVE  /\ d \in u.in <=> d \in cand /\ \A r \in cand : <<r, d>> \in att => r \in t.out
               /\ d \in u.out <=> d \in cand /\ \E r \in t.in : <<r, d>> \in att
    BY <2>2, DecidingStep
  <2>5. s.in \subseteq cand
    BY <2>1 DEF Statuses
  <2>. HIDE DEF t, u
  <2>6. t.in \cap t.out = {}
    BY <2>1, <2>3, <2>5
  <2>7. ASSUME NEW d \in t.in PROVE d \in u.in
    <3>1. d \in cand /\ \A r \in cand : <<r, d>> \in att => r \in t.out
      BY <2>1, <2>3
    <3>. QED
      BY <2>4, <3>1
  <2>8. ASSUME NEW d \in t.out PROVE d \in u.out
    <3>1. d \in cand /\ \E r \in t.in : <<r, d>> \in att
      BY <2>1, <2>3
    <3>. QED
      BY <2>4, <3>1
  <2>. QED
    BY <2>2, <2>6, <2>7, <2>8 DEF Rising, t, u
<1>. QED
  BY <1>1, <1>2

(* When the rounds are over a candidate is in exactly when its attackers   *)
(* are out, and out exactly when an attacker is in, and never both.        *)
LEMMA DecidedHolds ==
    ASSUME NEW cand, IsFiniteSet(cand), NEW att
    PROVE  /\ Decided(cand, att).in \subseteq cand
           /\ Decided(cand, att).out \subseteq cand
           /\ Decided(cand, att).in \cap Decided(cand, att).out = {}
           /\ \A d \in cand : d \in Decided(cand, att).in <=>
                  \A r \in cand : <<r, d>> \in att => r \in Decided(cand, att).out
           /\ \A d \in cand : d \in Decided(cand, att).out <=>
                  \E r \in Decided(cand, att).in : <<r, d>> \in att
<1>. DEFINE X == Statuses(cand)
           F == Deciding(cand, att)
           P == Rising(cand, att)
           n == Cardinality(cand)
           m == [s \in P |-> Cardinality(s.in) + Cardinality(s.out)]
           k == 2 * n
           s == Decided(cand, att)
<1>1. F \in [X -> X] /\ P \in SUBSET X /\ Undecided \in P
  BY DecidingIs, RisingGoesOn DEF Rising
<1>2. n \in Nat
  BY FS_CardinalityType
<1>3. \A S \in SUBSET cand : IsFiniteSet(S) /\ Cardinality(S) \in 0..n
  BY FS_Subset, FS_CardinalityType
<1>4. \A t \in P : t.in \in SUBSET cand /\ t.out \in SUBSET cand
  BY DEF Rising, Statuses
<1>5. m \in [P -> 0..k]
  <2>1. ASSUME NEW t \in P PROVE Cardinality(t.in) + Cardinality(t.out) \in 0..k
    <3>1. Cardinality(t.in) \in 0..n /\ Cardinality(t.out) \in 0..n
      BY <1>3, <1>4
    <3>. HIDE DEF n
    <3>. QED
      BY <1>2, <3>1
  <2>. QED
    BY <2>1
<1>6. ASSUME NEW t \in P PROVE F[t] \in P /\ (F[t] = t \/ m[F[t]] > m[t])
  <2>1. F[t] \in P
    BY RisingGoesOn
  <2>2. t.in \subseteq F[t].in /\ t.out \subseteq F[t].out
    BY DEF Rising
  <2>3. SUFFICES ASSUME F[t] # t PROVE m[F[t]] > m[t]
    BY <2>1
  <2>4. t.in # F[t].in \/ t.out # F[t].out
    BY <2>1, <2>3 DEF Rising, Statuses
  <2>5. /\ Cardinality(t.in) \in 0..n /\ Cardinality(t.out) \in 0..n
        /\ Cardinality(F[t].in) \in 0..n /\ Cardinality(F[t].out) \in 0..n
        /\ IsFiniteSet(F[t].in) /\ IsFiniteSet(F[t].out)
    BY <1>3, <1>4, <2>1
  <2>. DEFINE a == Cardinality(t.in)
             b == Cardinality(t.out)
             c == Cardinality(F[t].in)
             d == Cardinality(F[t].out)
  <2>6. a <= c /\ (t.in # F[t].in => a < c)
    BY <2>2, <2>5, FS_Subset
  <2>7. b <= d /\ (t.out # F[t].out => b < d)
    BY <2>2, <2>5, FS_Subset
  <2>8. m[t] = a + b /\ m[F[t]] = c + d
    BY <2>1
  <2>9. a \in Nat /\ b \in Nat /\ c \in Nat /\ d \in Nat
    BY <2>5
  <2>. HIDE DEF a, b, c, d, m
  <2>. QED
    BY <2>4, <2>6, <2>7, <2>8, <2>9
<1>7. s = Iterated(F, Undecided, k)
  BY DecidingIs
<1>8. k \in Nat
  BY <1>2
<1>. HIDE DEF m, k, F, X, P, s
<1>9. F[s] = s
  BY <1>1, <1>5, <1>6, <1>7, <1>8, IteratedSettles
<1>10. s \in P
  BY <1>1, <1>6, <1>7, <1>8, IteratedKeeps
<1>11. s \in X /\ s.in \cap s.out = {} /\ s.in \subseteq cand /\ s.out \subseteq cand
  BY <1>10 DEF P, X, Rising, Statuses
<1>12. ASSUME NEW d \in cand
       PROVE  /\ d \in F[s].in <=> \A r \in cand : <<r, d>> \in att => r \in s.out
              /\ d \in F[s].out <=> \E r \in s.in : <<r, d>> \in att
  BY <1>11, DecidingStep DEF F, X
<1>. QED
  BY <1>9, <1>11, <1>12 DEF s

(* Nothing more is decided: statuses that a round adds nothing to hold     *)
(* every one the rounds reach.                                             *)
LEMMA DecidedLeast ==
    ASSUME NEW cand, IsFiniteSet(cand), NEW att, NEW A, NEW B,
           \A d \in cand : (\A r \in cand : <<r, d>> \in att => r \in B) => d \in A,
           \A d \in cand : (\E r \in A : <<r, d>> \in att) => d \in B
    PROVE  Decided(cand, att).in \subseteq A /\ Decided(cand, att).out \subseteq B
<1>. DEFINE X == Statuses(cand)
           F == Deciding(cand, att)
           P == {s \in X : s.in \subseteq A /\ s.out \subseteq B}
           k == 2 * Cardinality(cand)
<1>1. F \in [X -> X] /\ P \in SUBSET X /\ Undecided \in P
  BY DecidingIs DEF Undecided
<1>2. ASSUME NEW s \in P PROVE F[s] \in P
  <2>1. F[s] \in X
    BY <1>1
  <2>2. ASSUME NEW d
        PROVE  /\ d \in F[s].in => d \in cand /\ \A r \in cand : <<r, d>> \in att => r \in s.out
               /\ d \in F[s].out => d \in cand /\ \E r \in s.in : <<r, d>> \in att
    BY DecidingStep
  <2>3. s.in \subseteq A /\ s.out \subseteq B
    OBVIOUS
  <2>. HIDE DEF F, X
  <2>4. F[s].in \subseteq A
    BY <2>2, <2>3
  <2>5. F[s].out \subseteq B
    BY <2>2, <2>3
  <2>. QED
    BY <2>1, <2>4, <2>5
<1>3. k \in Nat
  BY FS_CardinalityType
<1>4. Decided(cand, att) = Iterated(F, Undecided, k)
  BY DecidingIs
<1>. HIDE DEF X, F, P, k
<1>5. Iterated(F, Undecided, k) \in P
  BY <1>1, <1>2, <1>3, IteratedKeeps
<1>. QED
  BY <1>4, <1>5 DEF P

(* What is in is the smallest complete set.                                *)
LEMMA DecidedIsKept ==
    ASSUME NEW cand, IsFiniteSet(cand), NEW att
    PROVE  Decided(cand, att).in =
               {d \in cand : \A S \in CompleteSets(cand, att) : d \in S}
<1>. DEFINE in == Decided(cand, att).in
           out == Decided(cand, att).out
<1>1. /\ in \subseteq cand /\ out \subseteq cand /\ in \cap out = {}
      /\ \A d \in cand : d \in in <=> \A r \in cand : <<r, d>> \in att => r \in out
      /\ \A d \in cand : d \in out <=> \E r \in in : <<r, d>> \in att
  BY DecidedHolds
<1>2. ASSUME NEW S \in SUBSET cand
      PROVE  S \in CompleteSets(cand, att) <=>
                 \A d \in cand : d \in S <=>
                     \A r \in cand : <<r, d>> \in att => \E z \in S : <<z, r>> \in att
  <2>. DEFINE attackers(d) == {r \in cand : <<r, d>> \in att}
             T == {d \in cand : \A r \in attackers(d) : attackers(r) \cap S # {}}
  <2>1. S \in CompleteSets(cand, att) <=> S = T
    BY DEF CompleteSets
  <2>2. ASSUME NEW r PROVE attackers(r) \cap S # {} <=> \E z \in S : <<z, r>> \in att
    OBVIOUS
  <2>3. ASSUME NEW d \in cand
        PROVE  d \in T <=> \A r \in cand : <<r, d>> \in att => \E z \in S : <<z, r>> \in att
    BY <2>2
  <2>4. T \subseteq cand
    OBVIOUS
  <2>. HIDE DEF attackers, T
  <2>5. S = T <=> \A d \in cand : d \in S <=> d \in T
    BY <2>4
  <2>. QED
    BY <2>1, <2>3, <2>5
<1>. HIDE DEF in, out
<1>3. in \in CompleteSets(cand, att)
  BY <1>1, <1>2
<1>4. ASSUME NEW S \in CompleteSets(cand, att) PROVE in \subseteq S
  <2>. DEFINE B == {d \in cand : \E z \in S : <<z, d>> \in att}
  <2>1. S \in SUBSET cand
    BY DEF CompleteSets
  <2>2. \A d \in cand : d \in S <=>
            \A r \in cand : <<r, d>> \in att => \E z \in S : <<z, r>> \in att
    BY <1>2, <2>1
  <2>3. \A d \in cand : (\A r \in cand : <<r, d>> \in att => r \in B) => d \in S
    BY <2>2
  <2>4. \A d \in cand : (\E r \in S : <<r, d>> \in att) => d \in B
    OBVIOUS
  <2>. HIDE DEF B
  <2>. QED
    BY <2>3, <2>4, DecidedLeast DEF in
<1>. QED
  BY <1>1, <1>3, <1>4 DEF in

-----------------------------------------------------------------------------
(* Where trust starts.                                                     *)

(* Among versions of a graph one comes first.                              *)
LEMMA SomeIsFirst ==
    ASSUME NEW g, GraphOK(g), NEW own \in SUBSET DOMAIN g, own # {}
    PROVE  \E v \in own : IsFirst(g, own, v)
<1>. DEFINE above(v) == {w \in own : \/ g[w].rev > g[v].rev
                                     \/ g[w].rev = g[v].rev /\ w < v}
           U == {above(v) : v \in own}
           R == StrictSubsetOrdering(own)
           S == FiniteSubsetsOf(own)
<1>1. IsFiniteSet(own) /\ own \subseteq Nat /\ \A v \in own : g[v].rev \in Nat
  BY FS_Subset DEF GraphOK
<1>2. IsWellFoundedOn(R, S)
  BY FS_StrictSubsetOrderingWellFounded
<1>3. U \subseteq S /\ U # {}
  <2>1. \A v \in own : above(v) \subseteq own /\ IsFiniteSet(above(v))
    BY <1>1, FS_Subset
  <2>. QED
    BY <2>1 DEF FiniteSubsetsOf
<1>. HIDE DEF U, R, S
<1>4. PICK u \in U : \A t \in U : ~ (<<t, u>> \in R)
  BY <1>2, <1>3, WFMin
<1>5. PICK v \in own : u = above(v)
  BY <1>4 DEF U
<1>6. ASSUME NEW w \in above(v) PROVE FALSE
  <2>1. above(w) \subseteq above(v) /\ w \notin above(w)
    BY <1>1
  <2>2. above(w) \in U
    BY DEF U
  <2>3. above(w) \in SUBSET own /\ above(v) \in SUBSET own
    OBVIOUS
  <2>. HIDE DEF above
  <2>4. <<above(w), above(v)>> \in R
    BY <1>6, <2>1, <2>3 DEF R, StrictSubsetOrdering
  <2>. QED
    BY <1>4, <1>5, <2>2, <2>4
<1>7. IsFirst(g, own, v)
  <2>1. ASSUME NEW w \in own PROVE g[w].rev < g[v].rev \/ (g[w].rev = g[v].rev /\ v <= w)
    <3>1. w \notin above(v)
      BY <1>6
    <3>2. ~(g[w].rev > g[v].rev) /\ ~(g[w].rev = g[v].rev /\ w < v)
      BY <3>1
    <3>. QED
      BY <1>1, <3>2
  <2>. QED
    BY <2>1 DEF IsFirst
<1>. QED
  BY <1>7

LEMMA OwnNewestHeld ==
    ASSUME NEW g, GraphOK(g), NEW a
    PROVE  OwnNewest(g, a) \in DOMAIN g \cup {None}
<1>. DEFINE own == {v \in DOMAIN g : g[v].signer = a.signer /\ ShapeOK(g, v)}
<1>1. CASE a.signer = NoKey \/ own = {}
  BY <1>1 DEF OwnNewest
<1>2. CASE a.signer # NoKey /\ own # {}
  <2>1. OwnNewest(g, a) = CHOOSE v \in own : IsFirst(g, own, v)
    BY <1>2 DEF OwnNewest
  <2>2. own \in SUBSET DOMAIN g
    OBVIOUS
  <2>. HIDE DEF own
  <2>3. \E v \in own : IsFirst(g, own, v)
    BY <1>2, <2>2, SomeIsFirst
  <2>. QED
    BY <2>1, <2>2, <2>3
<1>. QED
  BY <1>1, <1>2

LEMMA AtHeld ==
    ASSUME NEW g, GraphOK(g), NEW a
    PROVE  At(g, a) \in DOMAIN g \cup {None}
BY OwnNewestHeld DEF At, AnchorAt, GoodRoot

LEMMA AncestorsAre ==
    ASSUME NEW g, IsFiniteSet(DOMAIN g), NEW v, NEW x
    PROVE  x \in Ancestors(Ancestry(g), v) <=> <<v, x>> \in Ancestry(g)
<1>. DEFINE anc == Ancestry(g)
<1>1. anc \subseteq (DOMAIN g) \X (DOMAIN g)
  BY AncestryHolds
<1>. HIDE DEF anc
<1>2. x \in Ancestors(anc, v) <=> \E y \in anc : y[1] = v /\ y[2] = x
  BY DEF Ancestors
<1>3. ASSUME NEW y \in anc PROVE y = <<y[1], y[2]>>
  BY <1>1
<1>4. <<v, x>>[1] = v /\ <<v, x>>[2] = x
  OBVIOUS
<1>. QED
  BY <1>2, <1>3, <1>4 DEF anc

(* The history is held, is where trust starts and what that is built on,   *)
(* and is empty when trust starts nowhere.                                 *)
LEMMA HistHolds ==
    ASSUME NEW g, GraphOK(g), NEW a
    PROVE  /\ Hist(g, a) \subseteq DOMAIN g
           /\ \A v \in Hist(g, a) : g[v].parents \cap DOMAIN g \subseteq Hist(g, a)
           /\ Hist(g, a) = {} <=> At(g, a) = None
           /\ At(g, a) # None => Hist(g, a) = History(Ancestry(g), At(g, a))
<1>1. IsFiniteSet(DOMAIN g)
  BY DEF GraphOK
<1>2. Hist(g, a) = {} <=> At(g, a) = None
  BY DEF Hist, History
<1>3. At(g, a) # None => Hist(g, a) = History(Ancestry(g), At(g, a))
  BY DEF Hist
<1>4. CASE At(g, a) = None
  BY <1>2, <1>4
<1>5. CASE At(g, a) # None
  <2>. DEFINE at == At(g, a)
  <2>1. at \in DOMAIN g
    BY <1>5, AtHeld
  <2>2. \A v : v \in Hist(g, a) <=> v = at \/ <<at, v>> \in Ancestry(g)
    BY <1>1, <1>3, <1>5, AncestorsAre DEF History
  <2>. HIDE DEF at
  <2>3. ASSUME NEW v \in Hist(g, a) PROVE v \in DOMAIN g
    BY <2>1, <2>2, <1>1, AncestryIs, ReachedCloses
  <2>4. ASSUME NEW v \in Hist(g, a), NEW p \in g[v].parents \cap DOMAIN g
        PROVE  p \in Hist(g, a)
    <3>1. <<v, p>> \in Ancestry(g)
      BY <2>3, <1>1, AncestryHolds
    <3>. QED
      BY <3>1, <2>2, <1>1, AncestryTransitive
  <2>. QED
    BY <1>2, <1>3, <2>3, <2>4
<1>. QED
  BY <1>4, <1>5

-----------------------------------------------------------------------------
(* What a verdict is made of.                                              *)

(* The versions that can be candidates.                                    *)
Unbarred(g, a) ==
    {v \in DOMAIN g \ Hist(g, a) : \A r \in Hist(g, a) : ~Bars(g, Ancestry(g), r, v)}

LEMMA CandHolds ==
    ASSUME NEW g, GraphOK(g), NEW a
    PROVE  /\ Cand(g, a) = Following(g, Unbarred(g, a), Hist(g, a))
           /\ IsFiniteSet(Unbarred(g, a)) /\ IsFiniteSet(Cand(g, a))
           /\ Cand(g, a) \subseteq Unbarred(g, a)
           /\ \A v \in Cand(g, a) : Extends(g, v, Hist(g, a) \cup Cand(g, a))
<1>1. Cand(g, a) = Following(g, Unbarred(g, a), Hist(g, a))
  BY DEF Cand, Candidates, Unbarred
<1>2. IsFiniteSet(Unbarred(g, a))
  BY FS_Subset DEF Unbarred, GraphOK
<1>3. /\ Cand(g, a) \subseteq Unbarred(g, a)
      /\ \A v \in Cand(g, a) : Extends(g, v, Hist(g, a) \cup Cand(g, a))
  BY <1>1, <1>2, FollowingHolds
<1>4. IsFiniteSet(Cand(g, a))
  BY <1>2, <1>3, FS_Subset
<1>. QED
  BY <1>1, <1>2, <1>3, <1>4

In(g, a)  == Decided(Cand(g, a), Att(g, a)).in
Out(g, a) == Decided(Cand(g, a), Att(g, a)).out

LEMMA InOutHold ==
    ASSUME NEW g, GraphOK(g), NEW a
    PROVE  /\ In(g, a) \subseteq Cand(g, a) /\ Out(g, a) \subseteq Cand(g, a)
           /\ In(g, a) \cap Out(g, a) = {}
           /\ \A d \in Cand(g, a) : d \in In(g, a) <=>
                  \A r \in Cand(g, a) : <<r, d>> \in Att(g, a) => r \in Out(g, a)
           /\ \A d \in Cand(g, a) : d \in Out(g, a) <=>
                  \E r \in In(g, a) : <<r, d>> \in Att(g, a)
           /\ In(g, a) = Kept(g, a)
<1>. DEFINE cand == Cand(g, a)
           att == Att(g, a)
<1>1. IsFiniteSet(cand)
  BY CandHolds
<1>2. Kept(g, a) = {d \in cand : \A S \in CompleteSets(cand, att) : d \in S}
  BY DEF Kept
<1>3. In(g, a) = Decided(cand, att).in /\ Out(g, a) = Decided(cand, att).out
  BY DEF In, Out
<1>. HIDE DEF cand, att
<1>4. In(g, a) = Kept(g, a)
  BY <1>1, <1>2, <1>3, DecidedIsKept
<1>5. /\ In(g, a) \subseteq cand /\ Out(g, a) \subseteq cand
      /\ In(g, a) \cap Out(g, a) = {}
      /\ \A d \in cand : d \in In(g, a) <=>
             \A r \in cand : <<r, d>> \in att => r \in Out(g, a)
      /\ \A d \in cand : d \in Out(g, a) <=>
             \E r \in In(g, a) : <<r, d>> \in att
  BY <1>1, <1>3, DecidedHolds
<1>. QED
  BY <1>4, <1>5 DEF cand, att

(* r attacks d when it bars d or something d is built on.                  *)
LEMMA AttIs ==
    ASSUME NEW g, NEW a, NEW r, NEW d
    PROVE  <<r, d>> \in Att(g, a) <=>
               /\ r \in Cand(g, a) /\ d \in Cand(g, a)
               /\ \E y \in Cand(g, a) : /\ Bars(g, Ancestry(g), r, y)
                                        /\ y = d \/ <<d, y>> \in Ancestry(g)
<1>. DEFINE cand == Cand(g, a)
           anc == Ancestry(g)
           direct == {x \in cand \X cand : Bars(g, anc, x[1], x[2])}
<1>1. <<r, d>> \in Att(g, a) <=>
          /\ r \in cand /\ d \in cand
          /\ \E z \in direct : z[1] = r /\ (z[2] = d \/ <<d, z[2]>> \in anc)
  BY DEF Att, Attacks
<1>. HIDE DEF cand, anc
<1>2. ASSUME NEW y \in cand, Bars(g, anc, r, y), r \in cand
      PROVE  <<r, y>> \in direct /\ <<r, y>>[1] = r /\ <<r, y>>[2] = y
  BY <1>2
<1>3. ASSUME NEW z \in direct
      PROVE  z[1] \in cand /\ z[2] \in cand /\ Bars(g, anc, z[1], z[2])
  OBVIOUS
<1>. HIDE DEF direct
<1>. QED
  BY <1>1, <1>2, <1>3 DEF cand, anc

(* What Judge answers, of these.                                           *)
LEMMA JudgeIs ==
    ASSUME NEW g, GraphOK(g), NEW a
    PROVE  /\ Judge(g, a).ok <=>
                  /\ At(g, a) # None
                  /\ \A v \in Hist(g, a) : g[v].readable
                  /\ In(g, a) \cup Out(g, a) = Cand(g, a)
           /\ Judge(g, a).ok => Judge(g, a).trusted = Hist(g, a) \cup In(g, a)
           /\ ~Judge(g, a).ok => Judge(g, a).trusted = {}
<1>1. CASE At(g, a) = None
  BY <1>1 DEF Judge, At, Refused
<1>2. CASE At(g, a) # None
  <2>. DEFINE d == Decided(Cand(g, a), Att(g, a))
             hist == Hist(g, a)
             cand == Cand(g, a)
             trusted == {v \in DOMAIN g : v \in hist \cup d.in}
  <2>1. Judge(g, a) =
            IF (\E v \in hist : ~g[v].readable) \/ d.in \cup d.out # cand
            THEN Refused
            ELSE [ok |-> TRUE, trusted |-> trusted, heads |-> HeadsOf(g, trusted)]
    BY <1>2, HistHolds, Zenon DEF Judge, At, Cand, Att, Hist
  <2>2. d.in = In(g, a) /\ d.out = Out(g, a)
    BY DEF In, Out
  <2>3. hist \subseteq DOMAIN g /\ In(g, a) \subseteq DOMAIN g
    BY HistHolds, InOutHold, CandHolds DEF Unbarred
  <2>4. trusted = hist \cup In(g, a)
    BY <2>2, <2>3
  <2>. HIDE DEF d, trusted, hist, cand
  <2>. QED
    BY <1>2, <2>1, <2>2, <2>4 DEF Refused, hist, cand
<1>. QED
  BY <1>1, <1>2

-----------------------------------------------------------------------------
(* What the verdicts promise.                                              *)

LEMMA NoneRemovedHolds ==
    ASSUME NEW g, GraphOK(g), NEW a
    PROVE  NoneRemoved(g, a)
<1>. DEFINE anc == Ancestry(g)
           trusted == Judge(g, a).trusted
           hist == Hist(g, a)
<1>1. SUFFICES ASSUME NEW v \in trusted \ hist, NEW r \in trusted, Bars(g, anc, r, v)
               PROVE  FALSE
  BY DEF NoneRemoved
<1>2. trusted = hist \cup In(g, a)
  BY JudgeIs
<1>3. v \in In(g, a) /\ v \in Cand(g, a) /\ v \in Unbarred(g, a)
  BY <1>2, CandHolds, InOutHold
<1>4. CASE r \in hist
  BY <1>1, <1>3, <1>4 DEF Unbarred
<1>5. CASE r \in In(g, a)
  <2>1. <<r, v>> \in Att(g, a)
    BY <1>1, <1>3, <1>5, AttIs, InOutHold
  <2>2. v \in Out(g, a)
    BY <1>3, <1>5, <2>1, InOutHold
  <2>. QED
    BY <1>3, <2>2, InOutHold
<1>. QED
  BY <1>2, <1>4, <1>5

(* A candidate built on another is attacked by all that attack that one.   *)
LEMMA ParentsIn ==
    ASSUME NEW g, GraphOK(g), NEW a, NEW w \in In(g, a), NEW p \in g[w].parents \cap DOMAIN g
    PROVE  p \in Hist(g, a) \cup In(g, a)
<1>1. IsFiniteSet(DOMAIN g)
  BY DEF GraphOK
<1>2. w \in Cand(g, a) /\ w \in DOMAIN g
  BY InOutHold, CandHolds DEF Unbarred
<1>3. p \in Hist(g, a) \cup Cand(g, a)
  BY <1>2, CandHolds DEF Extends
<1>4. SUFFICES ASSUME p \in Cand(g, a) PROVE p \in In(g, a)
  BY <1>3
<1>5. <<w, p>> \in Ancestry(g)
  BY <1>1, <1>2, AncestryHolds
<1>6. ASSUME NEW r \in Cand(g, a), <<r, p>> \in Att(g, a)
      PROVE  r \in Out(g, a)
  <2>1. PICK y \in Cand(g, a) : /\ Bars(g, Ancestry(g), r, y)
                                /\ y = p \/ <<p, y>> \in Ancestry(g)
    BY <1>6, AttIs
  <2>2. <<w, y>> \in Ancestry(g)
    BY <1>1, <1>5, <2>1, AncestryTransitive
  <2>3. <<r, w>> \in Att(g, a)
    BY <1>2, <2>1, <2>2, AttIs
  <2>. QED
    BY <1>2, <2>3, InOutHold
<1>. QED
  BY <1>4, <1>6, InOutHold

LEMMA GroundedHolds ==
    ASSUME NEW g, GraphOK(g), NEW a
    PROVE  Grounded(g, a)
<1>. DEFINE v == Judge(g, a)
           hist == Hist(g, a)
           cand == Cand(g, a)
           in == In(g, a)
           out == Out(g, a)
<1>1. /\ v.ok <=> /\ At(g, a) # None
                  /\ \A w \in hist : g[w].readable
                  /\ in \cup out = cand
      /\ v.ok => v.trusted = hist \cup in
      /\ ~v.ok => v.trusted = {}
  BY JudgeIs
<1>2. in = Kept(g, a) /\ in \subseteq cand /\ out \subseteq cand
  BY InOutHold
<1>3. \A d \in cand : d \in out <=> \E r \in in : <<r, d>> \in Att(g, a)
  BY InOutHold
<1>4. hist = {} <=> At(g, a) = None
  BY HistHolds
<1>5. ASSUME NEW w \in v.trusted PROVE g[w].parents \cap DOMAIN g \subseteq v.trusted
  <2>1. v.trusted = hist \cup in
    BY <1>1
  <2>2. CASE w \in hist
    BY <2>1, <2>2, HistHolds
  <2>3. CASE w \in in
    BY <2>1, <2>3, ParentsIn
  <2>. QED
    BY <2>1, <2>2, <2>3
<1>6. in \cup out = cand <=> \A d \in cand \ in : \E r \in in : <<r, d>> \in Att(g, a)
  <2>. HIDE DEF in, out, cand
  <2>. QED
    BY <1>2, <1>3
<1>. HIDE DEF v, in, out, hist, cand
<1>7. v.ok => v.trusted = hist \cup Kept(g, a)
  BY <1>1, <1>2
<1>8. v.ok <=> /\ hist # {}
               /\ \A w \in hist : g[w].readable
               /\ \A d \in cand \ Kept(g, a) : \E r \in Kept(g, a) : <<r, d>> \in Att(g, a)
  BY <1>1, <1>2, <1>4, <1>6
<1>. QED
  BY <1>5, <1>7, <1>8 DEF Grounded, v, hist, cand

(* Nothing is barred where no version removes a key.                       *)
LEMMA AllTrustedHolds ==
    ASSUME NEW g, GraphOK(g), NEW a
    PROVE  AllTrusted(g, a)
<1>. DEFINE D == DOMAIN g
           hist == Hist(g, a)
<1>1. SUFFICES ASSUME g[1].readable,
                      \A v \in D \ {1} : Extends(g, v, D),
                      \A v \in D : \A p \in g[v].parents : g[p].lists \subseteq g[v].lists,
                      At(g, a) # None
               PROVE  Judge(g, a).ok /\ Judge(g, a).trusted = D
  BY DEF AllTrusted
<1>2. ASSUME NEW r \in D, NEW v PROVE ~Bars(g, Ancestry(g), r, v)
  BY <1>1 DEF Bars
<1>3. /\ hist \subseteq D /\ hist # {}
      /\ \A v \in hist : g[v].parents \cap D \subseteq hist
  BY <1>1, HistHolds
<1>4. D \subseteq Nat /\ \A v \in D : g[v].rev \in Nat
  BY DEF GraphOK
<1>5. 1 \in hist
  <2>. DEFINE T == {g[v].rev : v \in hist}
  <2>1. T \in SUBSET Nat /\ T # {}
    BY <1>3, <1>4
  <2>. HIDE DEF T
  <2>2. PICK i \in T : \A j \in T : i <= j
    BY <2>1, LeastOf
  <2>3. PICK v \in hist : g[v].rev = i
    BY <2>2 DEF T
  <2>4. SUFFICES ASSUME v # 1 PROVE FALSE
    BY <2>3
  <2>5. Extends(g, v, D) /\ v \in D
    BY <1>1, <1>3, <2>3, <2>4
  <2>6. g[v].parents # {} /\ g[v].parents \subseteq D /\ Numbered(g, g[v].parents, g[v].rev)
    BY <2>5 DEF Extends, ShapeOK
  <2>7. PICK p \in g[v].parents : p \in D /\ g[p].rev < g[v].rev
    BY <2>6 DEF Numbered
  <2>8. p \in hist
    BY <1>3, <2>3, <2>7
  <2>9. g[p].rev \in T
    BY <2>8 DEF T
  <2>. QED
    BY <1>4, <2>2, <2>3, <2>5, <2>7, <2>9
<1>6. Unbarred(g, a) = D \ hist
  BY <1>2, <1>3 DEF Unbarred
<1>7. Cand(g, a) = D \ hist
  <2>1. \A v \in D \ hist : Extends(g, v, hist \cup (D \ hist))
    <3>1. hist \cup (D \ hist) = D
      BY <1>3
    <3>. QED
      BY <1>1, <1>5, <3>1
  <2>2. D \ hist \subseteq Following(g, Unbarred(g, a), hist)
    <3>1. IsFiniteSet(D \ hist)
      BY <1>6, CandHolds
    <3>. DEFINE C == D \ hist
    <3>2. \A v \in C : Extends(g, v, hist \cup C)
      BY <2>1
    <3>3. IsFiniteSet(C) /\ C \in SUBSET C /\ Unbarred(g, a) = C
      BY <1>6, <3>1
    <3>. HIDE DEF C, hist
    <3>4. C \subseteq Following(g, C, hist)
      BY <3>2, <3>3, FollowingMost
    <3>. QED
      BY <3>3, <3>4 DEF C
  <2>. QED
    BY <1>6, <2>2, CandHolds
<1>8. In(g, a) = D \ hist
  <2>1. ASSUME NEW r, NEW d PROVE <<r, d>> \notin Att(g, a)
    BY <1>2, <1>7, AttIs
  <2>. QED
    BY <1>7, <2>1, InOutHold
<1>9. ASSUME NEW v \in hist PROVE g[v].readable
  BY <1>1, <1>3 DEF Extends
<1>10. In(g, a) \cup Out(g, a) = Cand(g, a)
  BY <1>7, <1>8, InOutHold
<1>11. Judge(g, a).ok
  BY <1>1, <1>9, <1>10, JudgeIs
<1>12. Judge(g, a).trusted = hist \cup In(g, a)
  BY <1>11, JudgeIs
<1>. QED
  BY <1>3, <1>8, <1>11, <1>12

-----------------------------------------------------------------------------
(* Fetching more versions.                                                 *)

(* The ancestors of a version stay the same.                               *)
LEMMA AncestryKept ==
    ASSUME NEW g, NEW h, GraphOK(g), GraphOK(h), Grows(g, h), NEW v \in DOMAIN g, NEW x
    PROVE  <<v, x>> \in Ancestry(h) <=> <<v, x>> \in Ancestry(g)
<1>1. IsFiniteSet(DOMAIN g) /\ IsFiniteSet(DOMAIN h)
  BY DEF GraphOK
<1>2. /\ DOMAIN g \subseteq DOMAIN h
      /\ \A u \in DOMAIN g : /\ h[u].parents = g[u].parents
                             /\ g[u].parents \cap DOMAIN h = g[u].parents \cap DOMAIN g
  BY DEF Grows
<1>3. Reached(h, v) \subseteq Reached(g, v)
  <2>. DEFINE T == Reached(g, v)
  <2>1. /\ T \subseteq DOMAIN g /\ g[v].parents \cap DOMAIN g \subseteq T
        /\ \A u \in T : g[u].parents \cap DOMAIN g \subseteq T
    BY <1>1, ReachedCloses
  <2>. HIDE DEF T
  <2>2. /\ T \in SUBSET DOMAIN h /\ h[v].parents \cap DOMAIN h \subseteq T
        /\ \A u \in T : h[u].parents \cap DOMAIN h \subseteq T
    BY <1>2, <2>1
  <2>3. v \in DOMAIN h
    BY <1>2
  <2>. QED
    BY <1>1, <2>2, <2>3, ReachedLeast DEF T
<1>4. Reached(g, v) \subseteq Reached(h, v)
  <2>. DEFINE T == Reached(h, v) \cap DOMAIN g
  <2>0. v \in DOMAIN h
    BY <1>2
  <2>1. /\ h[v].parents \cap DOMAIN h \subseteq Reached(h, v)
        /\ \A u \in Reached(h, v) : h[u].parents \cap DOMAIN h \subseteq Reached(h, v)
    BY <1>1, <2>0, ReachedCloses
  <2>2. /\ T \in SUBSET DOMAIN g /\ g[v].parents \cap DOMAIN g \subseteq T
        /\ \A u \in T : g[u].parents \cap DOMAIN g \subseteq T
    BY <1>2, <2>1
  <2>. HIDE DEF T
  <2>3. Reached(g, v) \subseteq T
    BY <1>1, <2>2, ReachedLeast
  <2>. QED
    BY <2>3 DEF T
<1>. QED
  BY <1>2, <1>3, <1>4, AncestryIs

LEMMA BarsKept ==
    ASSUME NEW g, NEW h, GraphOK(g), GraphOK(h), Grows(g, h),
           NEW r \in DOMAIN g, NEW v \in DOMAIN g
    PROVE  Bars(h, Ancestry(h), r, v) <=> Bars(g, Ancestry(g), r, v)
<1>1. <<r, v>> \in Ancestry(h) <=> <<r, v>> \in Ancestry(g)
  BY AncestryKept
<1>2. h[r] = g[r] /\ h[v] = g[v] /\ g[r].parents \cap DOMAIN h = g[r].parents \cap DOMAIN g
  BY DEF Grows
<1>3. \A p \in g[r].parents \cap DOMAIN g : h[p] = g[p]
  BY DEF Grows
<1>. QED
  BY <1>1, <1>2, <1>3 DEF Bars

(* A version extends what it did, whatever was added.                      *)
LEMMA ExtendsKept ==
    ASSUME NEW g, NEW h, GraphOK(g), Grows(g, h), NEW v \in DOMAIN g,
           NEW B \in SUBSET DOMAIN h
    PROVE  Extends(h, v, B) <=> Extends(g, v, B \cap DOMAIN g)
<1>1. /\ h[v] = g[v] /\ DOMAIN g \subseteq DOMAIN h
      /\ g[v].parents \cap DOMAIN h \subseteq DOMAIN g
      /\ \A u \in DOMAIN g : h[u] = g[u]
  BY DEF Grows
<1>2. CASE g[v].parents \subseteq DOMAIN g
  <2>1. \A p \in g[v].parents : h[p] = g[p]
    BY <1>1, <1>2
  <2>2. Numbered(h, h[v].parents, h[v].rev) <=> Numbered(g, g[v].parents, g[v].rev)
    BY <1>1, <2>1 DEF Numbered
  <2>3. ShapeOK(h, v) <=> ShapeOK(g, v)
    BY <1>1, <1>2, <2>2 DEF ShapeOK
  <2>4. h[v].parents \subseteq B <=> g[v].parents \subseteq B \cap DOMAIN g
    BY <1>1, <1>2
  <2>. QED
    BY <1>1, <2>1, <2>3, <2>4 DEF Extends
<1>3. CASE ~(g[v].parents \subseteq DOMAIN g)
  BY <1>1, <1>3 DEF Extends
<1>. QED
  BY <1>2, <1>3

(* From the same start the history is the same, and so are the old         *)
(* candidates and how they attack each other.                              *)
LEMMA OldCandidates ==
    ASSUME NEW g, NEW h, NEW a, GraphOK(g), GraphOK(h), Grows(g, h),
           At(g, a) # None, At(h, a) = At(g, a)
    PROVE  /\ Hist(h, a) = Hist(g, a)
           /\ Cand(h, a) \cap DOMAIN g = Cand(g, a)
           /\ \A r, d \in Cand(g, a) : <<r, d>> \in Att(h, a) <=> <<r, d>> \in Att(g, a)
<1>. DEFINE D == DOMAIN g
           hist == Hist(g, a)
           new == Cand(h, a) \cap D
           old == Cand(g, a)
<1>1. IsFiniteSet(D) /\ IsFiniteSet(DOMAIN h) /\ D \subseteq DOMAIN h
  BY DEF GraphOK, Grows
<1>2. At(g, a) \in D
  BY AtHeld
<1>3. Hist(h, a) = hist /\ hist \subseteq D
  <2>. DEFINE at == At(g, a)
  <2>1. /\ hist = {at} \cup Ancestors(Ancestry(g), at)
        /\ Hist(h, a) = {at} \cup Ancestors(Ancestry(h), at)
    BY HistHolds DEF History
  <2>2. at \in D
    BY <1>2
  <2>3. hist \subseteq D
    BY HistHolds
  <2>. HIDE DEF hist, at
  <2>4. ASSUME NEW x PROVE x \in Hist(h, a) <=> x \in hist
    <3>1. x \in Ancestors(Ancestry(g), at) <=> <<at, x>> \in Ancestry(g)
      BY <1>1, AncestorsAre
    <3>2. x \in Ancestors(Ancestry(h), at) <=> <<at, x>> \in Ancestry(h)
      BY <1>1, AncestorsAre
    <3>3. <<at, x>> \in Ancestry(h) <=> <<at, x>> \in Ancestry(g)
      BY <2>2, AncestryKept
    <3>. QED
      BY <2>1, <3>1, <3>2, <3>3
  <2>. QED
    BY <2>3, <2>4
<1>4. \A v \in D : v \in Unbarred(h, a) <=> v \in Unbarred(g, a)
  BY <1>1, <1>3, BarsKept DEF Unbarred
<1>5. old \subseteq D /\ old \subseteq Unbarred(g, a) /\ new \subseteq D /\ Cand(h, a) \subseteq DOMAIN h
  BY CandHolds DEF Unbarred
<1>6. old \subseteq Cand(h, a)
  <2>1. \A v \in old : Extends(h, v, hist \cup old)
    <3>1. (hist \cup old) \cap D = hist \cup old /\ hist \cup old \in SUBSET DOMAIN h
      BY <1>1, <1>3, <1>5
    <3>. QED
      BY <1>5, <3>1, CandHolds, ExtendsKept
  <2>2. old \in SUBSET Unbarred(h, a)
    BY <1>4, <1>5
  <2>3. Cand(h, a) = Following(h, Unbarred(h, a), hist) /\ IsFiniteSet(Unbarred(h, a))
    BY <1>3, CandHolds
  <2>. DEFINE base == Unbarred(h, a)
  <2>. HIDE DEF old, hist, base
  <2>4. old \subseteq Following(h, base, hist)
    BY <2>1, <2>2, <2>3, FollowingMost DEF base
  <2>. QED
    BY <2>3, <2>4 DEF base
<1>7. new \subseteq old
  <2>1. \A v \in new : Extends(g, v, hist \cup new)
    <3>1. /\ (hist \cup Cand(h, a)) \cap D = hist \cup new
          /\ hist \cup Cand(h, a) \in SUBSET DOMAIN h
      BY <1>1, <1>3, <1>5
    <3>2. \A v \in new : Extends(h, v, hist \cup Cand(h, a))
      BY <1>3, CandHolds
    <3>. QED
      BY <3>1, <3>2, ExtendsKept
  <2>2. new \in SUBSET Unbarred(g, a)
    BY <1>4, CandHolds
  <2>3. Cand(g, a) = Following(g, Unbarred(g, a), hist) /\ IsFiniteSet(Unbarred(g, a))
    BY CandHolds
  <2>. DEFINE base == Unbarred(g, a)
  <2>. HIDE DEF new, hist, base
  <2>4. new \subseteq Following(g, base, hist)
    BY <2>1, <2>2, <2>3, FollowingMost DEF base
  <2>. QED
    BY <2>3, <2>4 DEF base
<1>8. ASSUME NEW r \in old, NEW d \in old
      PROVE  <<r, d>> \in Att(h, a) <=> <<r, d>> \in Att(g, a)
  <2>1. ASSUME NEW y PROVE y = d \/ <<d, y>> \in Ancestry(h) <=> y = d \/ <<d, y>> \in Ancestry(g)
    BY <1>5, AncestryKept
  <2>2. ASSUME NEW y, <<d, y>> \in Ancestry(g) PROVE y \in D
    BY <1>1, <2>2, AncestryIs, ReachedCloses
  <2>3. ASSUME NEW y, y = d \/ <<d, y>> \in Ancestry(g)
        PROVE  y \in D /\ (y \in Cand(h, a) <=> y \in old)
    BY <1>5, <1>6, <1>7, <2>2, <2>3
  <2>4. ASSUME NEW y \in D
        PROVE  Bars(h, Ancestry(h), r, y) <=> Bars(g, Ancestry(g), r, y)
    BY <1>5, BarsKept
  <2>5. r \in Cand(h, a) /\ d \in Cand(h, a)
    BY <1>6
  <2>6. ASSUME NEW y
        PROVE  (/\ y \in Cand(h, a) /\ Bars(h, Ancestry(h), r, y)
                /\ y = d \/ <<d, y>> \in Ancestry(h))
               <=> (/\ y \in old /\ Bars(g, Ancestry(g), r, y)
                    /\ y = d \/ <<d, y>> \in Ancestry(g))
    BY <2>1, <2>3, <2>4
  <2>7. <<r, d>> \in Att(h, a) <=>
            \E y \in Cand(h, a) : /\ Bars(h, Ancestry(h), r, y)
                                  /\ y = d \/ <<d, y>> \in Ancestry(h)
    BY <2>5, AttIs
  <2>8. <<r, d>> \in Att(g, a) <=>
            \E y \in old : /\ Bars(g, Ancestry(g), r, y)
                           /\ y = d \/ <<d, y>> \in Ancestry(g)
    BY AttIs
  <2>. HIDE DEF old
  <2>. QED
    BY <2>6, <2>7, <2>8
<1>. QED
  BY <1>3, <1>5, <1>6, <1>7, <1>8

(* Each old candidate keeps its status: none of those the new one attacks  *)
(* would have to change.                                                   *)
LEMMA JudgedAsBeforeHolds ==
    ASSUME NEW g, NEW h, NEW a, GraphOK(g), GraphOK(h), Grows(g, h)
    PROVE  JudgedAsBefore(g, h, a)
<1>. DEFINE new == DOMAIN h \ DOMAIN g
           cand == Cand(g, a)
           hist == Hist(g, a)
<1>1. SUFFICES ASSUME Judge(g, a).ok, At(h, a) = At(g, a),
                      \/ new \cap Cand(h, a) = {}
                      \/ Judge(h, a).ok /\ new \cap Judge(h, a).trusted = {}
               PROVE  Judge(h, a).ok /\ Judge(h, a).trusted = Judge(g, a).trusted
  BY DEF JudgedAsBefore
<1>2. /\ At(g, a) # None
      /\ \A v \in hist : g[v].readable
      /\ In(g, a) \cup Out(g, a) = cand
      /\ Judge(g, a).trusted = hist \cup In(g, a)
  BY <1>1, JudgeIs
<1>3. /\ Hist(h, a) = hist
      /\ Cand(h, a) \cap DOMAIN g = cand
      /\ \A r, d \in cand : <<r, d>> \in Att(h, a) <=> <<r, d>> \in Att(g, a)
  BY <1>1, <1>2, OldCandidates
<1>4. Cand(h, a) \subseteq DOMAIN h /\ In(h, a) \subseteq Cand(h, a) /\ Out(h, a) \subseteq Cand(h, a)
  BY CandHolds, InOutHold DEF Unbarred
<1>5. Cand(h, a) \ cand \subseteq Out(h, a)
  <2>1. CASE new \cap Cand(h, a) = {}
    BY <1>3, <1>4, <2>1
  <2>2. CASE Judge(h, a).ok /\ new \cap Judge(h, a).trusted = {}
    <3>1. In(h, a) \cup Out(h, a) = Cand(h, a) /\ Judge(h, a).trusted = hist \cup In(h, a)
      BY <1>3, <2>2, JudgeIs
    <3>. QED
      BY <1>3, <1>4, <2>2, <3>1
  <2>. QED
    BY <1>1, <2>1, <2>2
<1>6. In(h, a) \subseteq cand
  BY <1>4, <1>5, InOutHold
<1>7. In(g, a) \subseteq In(h, a) /\ Out(g, a) \subseteq Out(h, a)
  <2>1. ASSUME NEW d \in cand,
               \A r \in cand : <<r, d>> \in Att(g, a) => r \in Out(h, a)
        PROVE  d \in In(h, a)
    <3>1. ASSUME NEW r \in Cand(h, a), <<r, d>> \in Att(h, a)
          PROVE  r \in Out(h, a)
      <4>1. CASE r \in cand
        BY <1>3, <2>1, <3>1, <4>1
      <4>2. CASE r \notin cand
        BY <1>5, <4>2
      <4>. QED
        BY <4>1, <4>2
    <3>2. d \in Cand(h, a)
      BY <1>3
    <3>. QED
      BY <3>1, <3>2, InOutHold
  <2>2. ASSUME NEW d \in cand, NEW r \in In(h, a), <<r, d>> \in Att(g, a)
        PROVE  d \in Out(h, a)
    <3>1. r \in cand /\ d \in Cand(h, a)
      BY <1>3, <1>6
    <3>2. <<r, d>> \in Att(h, a)
      BY <1>3, <2>2, <3>1
    <3>. QED
      BY <3>1, <3>2, InOutHold
  <2>3. IsFiniteSet(cand)
    BY CandHolds
  <2>. DEFINE A == In(h, a)
             B == Out(h, a)
             att == Att(g, a)
  <2>4. In(g, a) = Decided(cand, att).in /\ Out(g, a) = Decided(cand, att).out
    BY DEF In, Out
  <2>5. ASSUME NEW d \in cand, \A r \in cand : <<r, d>> \in att => r \in B PROVE d \in A
    BY <2>1, <2>5
  <2>. HIDE DEF cand, A, B, att
  <2>6. Decided(cand, att).in \subseteq A /\ Decided(cand, att).out \subseteq B
    BY <2>2, <2>3, <2>5, DecidedLeast DEF A, B, att
  <2>. QED
    BY <2>4, <2>6 DEF A, B
<1>8. In(h, a) = In(g, a)
  BY <1>2, <1>6, <1>7, InOutHold
<1>9. In(h, a) \cup Out(h, a) = Cand(h, a)
  BY <1>2, <1>3, <1>4, <1>5, <1>7
<1>10. \A v \in hist : h[v].readable
  <2>1. \A v \in hist : v \in DOMAIN g
    BY HistHolds
  <2>. QED
    BY <1>2, <2>1 DEF Grows
<1>11. Judge(h, a).ok
  BY <1>1, <1>2, <1>3, <1>9, <1>10, JudgeIs
<1>12. Judge(h, a).trusted = hist \cup In(h, a)
  BY <1>3, <1>11, JudgeIs
<1>. QED
  BY <1>2, <1>8, <1>11, <1>12

-----------------------------------------------------------------------------
(* Of every graph fetched.                                                 *)

LEMMA FetchingOK == Fetching => []GraphOK(graph)
<1>1. GraphOK(graph) /\ [GraphOK(graph') /\ Grows(graph, graph')]_<<graph, anchor>>
          => GraphOK(graph)'
  BY DEF GraphOK
<1>. QED
  BY <1>1, PTL DEF Fetching

(* Judge's rounds over the candidates (trust.go, the loop on status) end   *)
(* with the smallest set of candidates that defends itself, whatever the   *)
(* versions and the anchor, and Judge refuses exactly when that set leaves *)
(* a candidate undecided.                                                  *)
THEOREM VerdictGrounded == Fetching => []VerdictIsGrounded
<1>1. GraphOK(graph) => VerdictIsGrounded
  BY GroundedHolds DEF VerdictIsGrounded
<1>. QED
  BY <1>1, FetchingOK, PTL

(* No trusted version outside the anchor's history is signed by a key that *)
(* a trusted version not built on it removed (bars of trust.go).           *)
THEOREM RemovalFinal == Fetching => []RemovalIsFinal
<1>1. GraphOK(graph) => RemovalIsFinal
  BY NoneRemovedHolds DEF RemovalIsFinal
<1>. QED
  BY <1>1, FetchingOK, PTL

(* When the tool made every version, on one root, and none removes a key,  *)
(* Judge trusts them all, whichever operator it judges for.                *)
THEOREM OperatorsAgreeing == Fetching => []OperatorsAgree
<1>1. GraphOK(graph) => OperatorsAgree
  BY AllTrustedHolds DEF OperatorsAgree
<1>. QED
  BY <1>1, FetchingOK, PTL

(* A version that Judge does not trust changes the verdict on no other.    *)
THEOREM UntrustedIdle == Fetching => UntrustedChangesNothing
<1>1. GraphOK(graph) /\ [GraphOK(graph') /\ Grows(graph, graph')]_<<graph, anchor>>
          => [JudgedAsBefore(graph, graph', anchor)]_<<graph, anchor>>
  BY JudgedAsBeforeHolds
<1>. QED
  BY <1>1, FetchingOK, PTL DEF Fetching, UntrustedChangesNothing
-----------------------------------------------------------------------------
(* What a workstation's cache is judged to be.                             *)

(* The anchors a workstation can have. *)
Anchors == [signer : Keys \cup {NoKey}, root : Ids \cup {None}]

(* Versions are never changed. *)
LEMMA VersionsStay ==
    ASSUME IInv, [Next]_vars
    PROVE  \A v \in DOMAIN version : v \in DOMAIN version' /\ version'[v] = version[v]
<1>1. ASSUME NEW w \in Workstations, Command(w)
      PROVE  \A v \in DOMAIN version : v \in DOMAIN version' /\ version'[v] = version[v]
  BY <1>1, CommandKeeps
<1>2. CASE UNCHANGED version
  BY <1>2
<1>. QED
  BY <1>1, <1>2 DEF Next, vars, Edit, Lose, SiteSync, SiteLoses

LEMMA CacheGraph ==
    ASSUME IInv, NEW w \in Workstations
    PROVE  /\ GraphOK(Graph(cache[w]))
           /\ DOMAIN Graph(cache[w]) = cache[w]
           /\ \A v \in cache[w] : version[v].parents \subseteq cache[w]
<1>1. DOMAIN Graph(cache[w]) = cache[w] /\ cache[w] \subseteq DOMAIN version
  BY DEF Graph, IInv, TypeOK
<1>2. cache[w] \subseteq 1..MaxVersions /\ DOMAIN version \subseteq Ids /\ Ids \subseteq Nat
  BY <1>1, ConstantsAssumption DEF IInv, TypeOK, Ids
<1>3. IsFiniteSet(cache[w])
  <2>1. IsFiniteSet(1..MaxVersions)
    BY ConstantsAssumption, FS_Interval
  <2>. QED
    BY <1>2, <2>1, FS_Subset
<1>4. None \notin cache[w]
  BY <1>2, ConstantsAssumption DEF Ids
<1>5. ASSUME NEW v \in cache[w] PROVE Graph(cache[w])[v].rev \in Nat
  <2>1. version[v].rev \in 1..MaxVersions
    BY <1>1 DEF IInv, TypeOK, Version
  <2>. QED
    BY <2>1, ConstantsAssumption DEF Graph
<1>6. \A v \in cache[w] : version[v].parents \subseteq cache[w]
  BY DEF IInv, HeldClosed, Closed
<1>7. cache[w] \subseteq Nat
  BY <1>2
<1>. QED
  BY <1>1, <1>3, <1>4, <1>5, <1>6, <1>7 DEF GraphOK

LEMMA CacheGrows ==
    ASSUME IInv, [Next]_vars, NEW w \in Workstations, cache[w] \subseteq cache'[w]
    PROVE  Grows(Graph(cache[w]), Graph(cache[w])')
<1>1. \A v \in DOMAIN version : v \in DOMAIN version' /\ version'[v] = version[v]
  BY VersionsStay
<1>2. cache[w] \subseteq DOMAIN version /\ \A v \in cache[w] : version[v].parents \subseteq cache[w]
  BY CacheGraph DEF IInv, TypeOK
<1>3. DOMAIN Graph(cache[w]) = cache[w] /\ DOMAIN Graph(cache[w])' = cache'[w]
  BY DEF Graph
<1>4. ASSUME NEW v \in cache[w]
      PROVE  /\ Graph(cache[w])'[v] = Graph(cache[w])[v]
             /\ Graph(cache[w])[v].parents = version[v].parents
  BY <1>1, <1>2 DEF Graph
<1>. QED
  BY <1>2, <1>3, <1>4 DEF Grows

(* What every workstation's cache is judged to be holds to the rules of    *)
(* trust (trust.go), at every step of every command and whatever the       *)
(* anchor: the decision is the smallest one that defends itself, and no    *)
(* removed key signs what is trusted.                                      *)
THEOREM CachesJudged ==
    Spec => [](\A w \in Workstations, a \in Anchors :
                  Grounded(Graph(cache[w]), a) /\ NoneRemoved(Graph(cache[w]), a))
<1>1. IInv => \A w \in Workstations, a \in Anchors :
                  Grounded(Graph(cache[w]), a) /\ NoneRemoved(Graph(cache[w]), a)
  BY CacheGraph, GroundedHolds, NoneRemovedHolds
<1>. QED
  BY <1>1, Inductive, PTL

(* And a workstation that gathers more judges as it did before, when none  *)
(* of what it gathered is trusted.                                         *)
THEOREM GatheredJudged ==
    Spec => [][\A w \in Workstations, a \in Anchors :
                  cache[w] \subseteq cache'[w] =>
                      JudgedAsBefore(Graph(cache[w]), Graph(cache[w])', a)]_vars
<1>a. IInv => (\A w \in Workstations : GraphOK(Graph(cache[w])))
  BY CacheGraph
<1>b. IInv' => (\A w \in Workstations : GraphOK(Graph(cache[w])))'
  BY <1>a, PTL
<1>1. ASSUME IInv, IInv', [Next]_vars, NEW w \in Workstations, NEW a \in Anchors,
             cache[w] \subseteq cache'[w]
      PROVE  JudgedAsBefore(Graph(cache[w]), Graph(cache[w])', a)
  <2>1. GraphOK(Graph(cache[w])) /\ Grows(Graph(cache[w]), Graph(cache[w])')
    BY <1>1, CacheGraph, CacheGrows
  <2>2. GraphOK(Graph(cache[w])')
    BY <1>1, <1>b
  <2>. QED
    BY <2>1, <2>2, JudgedAsBeforeHolds
<1>2. IInv /\ IInv' /\ [Next]_vars =>
          [\A w \in Workstations, a \in Anchors :
              cache[w] \subseteq cache'[w] =>
                  JudgedAsBefore(Graph(cache[w]), Graph(cache[w])', a)]_vars
  BY <1>1
<1>. QED
  BY <1>2, Inductive, PTL DEF Spec

-----------------------------------------------------------------------------
(* What a step does to its own run, for the steps that choose.             *)

(* A command begins with what it is given. *)
LEMMA BeginsWith ==
    ASSUME IInv, NEW w \in Workstations, NEW r, Begin(w, r)
    PROVE  run'[w] = [r EXCEPT !.pc = "gather"] /\ r.cmd \in AllCommands
  BY ConstantsAssumption DEF Begin, IInv, TypeOK

LEMMA StartsWith ==
    ASSUME IInv, NEW w \in Workstations,
           \/ StartPublish(w) \/ StartPull(w) \/ StartRegister(w) \/ StartApply(w)
           \/ StartRecover(w)
    PROVE  /\ run'[w].pc = "gather" /\ run'[w].cmd \in AllCommands
           /\ run'[w].heads = {} /\ run'[w].change = NoChange /\ run'[w].words = {}
           /\ run'[w].cmd \in {"apply", "apply --site"} =>
                 Complete(w) /\ run'[w].files = files[w] /\ run'[w].from = origin[w]
           /\ run'[w].pin \in {None} \cup Roots
           /\ root[w] # None => run'[w].pin = None
           /\ run'[w].cmd \in {"publish", "merge", "apply", "apply --site"} => run'[w].pin = None
           /\ run'[w].cmd \in {"publish", "merge", "register"} => run'[w].files = None
           /\ UNCHANGED <<version, store, cache, disk, record, bounds>>
<1>1. CASE StartPublish(w)
  <2>1. PICK cmd \in {"publish", "merge"} :
            /\ Begin(w, [Idle EXCEPT !.cmd = cmd, !.todo = Sites])
    BY <1>1 DEF StartPublish, PinGiven
  <2>. DEFINE r == [Idle EXCEPT !.cmd = cmd, !.todo = Sites]
  <2>2. run'[w] = [r EXCEPT !.pc = "gather"] /\ r.cmd \in AllCommands
    BY <2>1, BeginsWith
  <2>3. UNCHANGED <<version, store, cache, disk, record, bounds>>
    BY <2>1 DEF Begin
  <2>. QED
    BY <2>1, <2>2, <2>3 DEF Idle
<1>2. CASE StartPull(w)
  <2>1. PICK pin \in {None} \cup Roots :
            /\ Begin(w, [Idle EXCEPT !.cmd = "pull", !.todo = Sites, !.pin = pin])
            /\ root[w] # None => pin = None
    BY <1>2 DEF StartPull, PinGiven
  <2>. DEFINE r == [Idle EXCEPT !.cmd = "pull", !.todo = Sites, !.pin = pin]
  <2>2. run'[w] = [r EXCEPT !.pc = "gather"] /\ r.cmd \in AllCommands
    BY <2>1, BeginsWith
  <2>3. UNCHANGED <<version, store, cache, disk, record, bounds>>
    BY <2>1 DEF Begin
  <2>. QED
    BY <2>1, <2>2, <2>3 DEF Idle
<1>3. CASE StartRegister(w)
  <2>1. PICK pin \in {None} \cup Roots :
            /\ Begin(w, [Idle EXCEPT !.cmd = "register", !.todo = Sites, !.pin = pin])
            /\ root[w] # None => pin = None
    BY <1>3 DEF StartRegister, PinGiven
  <2>. DEFINE r == [Idle EXCEPT !.cmd = "register", !.todo = Sites, !.pin = pin]
  <2>2. run'[w] = [r EXCEPT !.pc = "gather"] /\ r.cmd \in AllCommands
    BY <2>1, BeginsWith
  <2>3. UNCHANGED <<version, store, cache, disk, record, bounds>>
    BY <2>1 DEF Begin
  <2>. QED
    BY <2>1, <2>2, <2>3 DEF Idle
<1>4. CASE StartApply(w)
  <2>1. PICK cmd \in {"apply", "apply --site"}, hosts \in {Sites} \cup {{s} : s \in Sites} :
            /\ Begin(w, [Idle EXCEPT !.cmd = cmd, !.todo = Sites, !.hosts = hosts,
                                   !.files = files[w], !.from = origin[w]])
            /\ Complete(w)
    BY <1>4 DEF StartApply, PinGiven
  <2>. DEFINE r == [Idle EXCEPT !.cmd = cmd, !.todo = Sites, !.hosts = hosts,
                                   !.files = files[w], !.from = origin[w]]
  <2>2. run'[w] = [r EXCEPT !.pc = "gather"] /\ r.cmd \in AllCommands
    BY <2>1, BeginsWith
  <2>3. UNCHANGED <<version, store, cache, disk, record, bounds>>
    BY <2>1 DEF Begin
  <2>. QED
    BY <2>1, <2>2, <2>3 DEF Idle
<1>5. CASE StartRecover(w)
  <2>1. PICK from \in (SUBSET Sites) \ {{}}, pin \in {None} \cup Roots :
            /\ Begin(w, [Idle EXCEPT !.cmd = "recover", !.todo = from, !.hosts = from, !.pin = pin])
            /\ root[w] # None => pin = None
    BY <1>5 DEF StartRecover, PinGiven
  <2>. DEFINE r == [Idle EXCEPT !.cmd = "recover", !.todo = from, !.hosts = from, !.pin = pin]
  <2>2. run'[w] = [r EXCEPT !.pc = "gather"] /\ r.cmd \in AllCommands
    BY <2>1, BeginsWith
  <2>3. UNCHANGED <<version, store, cache, disk, record, bounds>>
    BY <2>1 DEF Begin
  <2>. QED
    BY <2>1, <2>2, <2>3 DEF Idle
<1>. QED
  BY <1>1, <1>2, <1>3, <1>4, <1>5

(* The verdict a gather ends with, and what it says to record as seen. *)
Verdict(w) == Judged(cache[w], Anchor(w, run[w].cmd, run[w].pin))
SeenFrom(w, top) ==
    IF version[top].rev = seen[w].rev THEN NoChange
    ELSE [rev |-> version[top].rev, id |-> top, lower |-> version[top].rev < seen[w].rev]

LEMMA JudgeGoesOn ==
    ASSUME IInv, NEW w \in Workstations, JudgeGathered(w)
    PROVE  /\ run[w].pc = "gather" /\ run[w].todo = {} /\ Verdict(w).ok
           /\ run'[w].pc = AfterGather(w)
           /\ run'[w].trusted = Verdict(w).trusted /\ run'[w].heads = Verdict(w).heads
           /\ run'[w].words = IF run'[w].change.lower THEN {"seen"} ELSE {}
           /\ Verdict(w).heads = {} => run'[w].change = NoChange
           /\ Verdict(w).heads # {} =>
                 \E top \in Verdict(w).heads :
                    IsFirst(version, Verdict(w).heads, top) /\ run'[w].change = SeenFrom(w, top)
           /\ run'[w].cmd = run[w].cmd /\ run'[w].hosts = run[w].hosts
           /\ run'[w].files = run[w].files /\ run'[w].from = run[w].from
           /\ run'[w].pin = run[w].pin
           /\ UNCHANGED <<version, store, cache, disk, record, bounds>>
<1>0. run \in [Workstations -> Run] /\ run[w] \in Run
  BY DEF IInv, TypeOK
<1>. DEFINE v == Verdict(w)
            goOn(change) ==
               run' = [run EXCEPT ![w].pc = AfterGather(w),
                                  ![w].trusted = v.trusted, ![w].heads = v.heads,
                                  ![w].change = change,
                                  ![w].words = IF change.lower THEN {"seen"} ELSE {}]
<1>1. /\ run[w].pc = "gather" /\ run[w].todo = {} /\ v.ok
      /\ IF v.heads = {} THEN goOn(NoChange)
         ELSE \E top \in v.heads : IsFirst(version, v.heads, top) /\ goOn(SeenFrom(w, top))
      /\ UNCHANGED <<version, store, cache, disk, record, bounds>>
  BY DEF JudgeGathered, Verdict, SeenFrom
<1>2. ASSUME NEW change, goOn(change)
      PROVE  /\ run'[w].pc = AfterGather(w)
             /\ run'[w].trusted = v.trusted /\ run'[w].heads = v.heads
             /\ run'[w].change = change
             /\ run'[w].words = IF change.lower THEN {"seen"} ELSE {}
             /\ run'[w].cmd = run[w].cmd /\ run'[w].hosts = run[w].hosts
             /\ run'[w].files = run[w].files /\ run'[w].from = run[w].from
             /\ run'[w].pin = run[w].pin
  <2>. HIDE DEF v
  <2>. QED
    BY <1>0, <1>2 DEF Run
<1>. HIDE DEF goOn
<1>3. CASE v.heads = {}
  BY <1>1, <1>2, <1>3
<1>4. CASE v.heads # {}
  BY <1>1, <1>2, <1>4
<1>. QED
  BY <1>1, <1>3, <1>4

(* The steps that lead to a commit. *)
LEMMA ReviewGoesOn ==
    ASSUME IInv, NEW w \in Workstations, Review(w)
    PROVE  /\ run[w].pc = "review" /\ run'[w].pc = "prepare"
           /\ ParentsGiven(w, FALSE)
           /\ \E rev \in Nat, v \in {None} \cup run[w].heads :
                 /\ LET same == {p \in run[w].heads : version[p].files = run[w].files}
                    IN  IF same = {} THEN v = None /\ Numbered(version, run[w].heads, rev)
                        ELSE v \in same /\ rev = version[v].rev
                 /\ \/ "host" \in run'[w].words
                    \/ /\ \A s \in run[w].hosts : ~Witnesses(s, rev, v)
                       /\ run'[w].words = run[w].words
           /\ run'[w].cmd = run[w].cmd /\ run'[w].hosts = run[w].hosts
           /\ run'[w].files = run[w].files /\ run'[w].from = run[w].from
           /\ run'[w].heads = run[w].heads /\ run'[w].trusted = run[w].trusted
           /\ run'[w].change = run[w].change /\ run'[w].pin = run[w].pin
           /\ UNCHANGED <<version, store, cache, disk, record, bounds>>
<1>0. run \in [Workstations -> Run] /\ run[w] \in Run
  BY DEF IInv, TypeOK
<1>. DEFINE same == {p \in run[w].heads : version[p].files = run[w].files}
            warned(rev, v) == \E s \in run[w].hosts : Witnesses(s, rev, v)
            told(rev, v) == IF warned(rev, v) THEN run[w].words \cup {"host"} ELSE run[w].words
            r(rev, v) == [run[w] EXCEPT !.pc = "prepare", !.words = told(rev, v)]
<1>1. PICK rev \in 1..(MaxVersions + 1), v \in {None} \cup run[w].heads :
          /\ IF same = {} THEN v = None /\ Numbered(version, run[w].heads, rev)
             ELSE v \in same /\ rev = version[v].rev
          /\ run' = [run EXCEPT ![w] = r(rev, v)]
  <2>1. PICK rev \in 1..(MaxVersions + 1), v \in {None} \cup run[w].heads :
          /\ IF same = {} THEN v = None /\ Numbered(version, run[w].heads, rev)
             ELSE v \in same /\ rev = version[v].rev
          /\ run' = [run EXCEPT ![w].pc = "prepare", ![w].words = told(rev, v)]
    BY <1>0, Zenon DEF Review
  <2>. HIDE DEF same, told
  <2>2. run' = [run EXCEPT ![w] = r(rev, v)]
    BY <1>0, <2>1
  <2>. QED
    BY <2>1, <2>2
<1>2. run'[w] = r(rev, v)
  BY <1>0, <1>1
<1>3. /\ run'[w].pc = "prepare" /\ run'[w].words = told(rev, v)
      /\ run'[w].cmd = run[w].cmd /\ run'[w].hosts = run[w].hosts
      /\ run'[w].files = run[w].files /\ run'[w].from = run[w].from
      /\ run'[w].heads = run[w].heads /\ run'[w].trusted = run[w].trusted
      /\ run'[w].change = run[w].change /\ run'[w].pin = run[w].pin
  <2>. HIDE DEF told
  <2>. QED
    BY <1>0, <1>2 DEF Run
<1>4. run[w].pc = "review" /\ ParentsGiven(w, FALSE)
      /\ UNCHANGED <<version, store, cache, disk, record, bounds>>
  BY DEF Review
<1>5. rev \in Nat
  BY ConstantsAssumption
<1>6. \/ "host" \in run'[w].words
      \/ (\A s \in run[w].hosts : ~Witnesses(s, rev, v)) /\ run'[w].words = run[w].words
  BY <1>3
<1>. QED
  BY <1>1, <1>3, <1>4, <1>5, <1>6

LEMMA AttestGoesOn ==
    ASSUME IInv, NEW w \in Workstations, Attest(w)
    PROVE  \E top \in run[w].heads :
              LET own == version[top].signer = KeyOf[w]
              IN  /\ run[w].pc = "attest" /\ run[w].heads = {top}
                  /\ files[w] # None => files[w] = version[top].files
                  /\ SignerGiven(w, {top}, version[top].files)
                  /\ seen' = [seen EXCEPT ![w] = AfterRecordSeen(w)]
                  /\ origin' = [origin EXCEPT ![w] = IF files[w] = version[top].files THEN top ELSE @]
                  /\ run'[w].pc = IF ~own THEN "commit"
                                  ELSE IF files[w] = None THEN "writeconf" ELSE "setkey"
                  /\ run'[w].sha = IF own THEN top ELSE None
                  /\ run'[w].files = version[top].files /\ run'[w].from = top
                  /\ run'[w].parents = {top}
                  /\ run'[w].pin = PinFor(w, run[w].pin, top)
                  /\ run'[w].cmd = run[w].cmd /\ run'[w].hosts = run[w].hosts
                  /\ run'[w].heads = run[w].heads /\ run'[w].words = run[w].words
                  /\ run'[w].change = run[w].change
                  /\ UNCHANGED <<version, store, cache, files, head, root, signing, record, bounds>>
<1>0. run \in [Workstations -> Run] /\ run[w] \in Run
  BY DEF IInv, TypeOK
<1>. DEFINE own(top) == version[top].signer = KeyOf[w]
            pc(top)  == IF ~own(top) THEN "commit"
                        ELSE IF files[w] = None THEN "writeconf" ELSE "setkey"
            sha(top) == IF own(top) THEN top ELSE None
            pin(top) == PinFor(w, run[w].pin, top)
            r(top)   == [run[w] EXCEPT !.pc = pc(top), !.sha = sha(top),
                                       !.files = version[top].files, !.from = top, !.parents = {top},
                                       !.pin = pin(top)]
<1>1. PICK top \in run[w].heads :
          /\ run[w].pc = "attest" /\ run[w].heads = {top}
          /\ files[w] # None => files[w] = version[top].files
          /\ SignerGiven(w, {top}, version[top].files)
          /\ seen' = [seen EXCEPT ![w] = AfterRecordSeen(w)]
          /\ origin' = [origin EXCEPT ![w] = IF files[w] = version[top].files THEN top ELSE @]
          /\ run' = [run EXCEPT ![w].pc = pc(top), ![w].sha = sha(top),
                                ![w].files = version[top].files, ![w].from = top,
                                ![w].parents = {top}, ![w].pin = pin(top)]
          /\ UNCHANGED <<version, store, cache, files, head, root, signing, record, bounds>>
  BY DEF Attest
<1>2. /\ run'[w].pc = pc(top) /\ run'[w].sha = sha(top)
      /\ run'[w].files = version[top].files /\ run'[w].from = top
      /\ run'[w].parents = {top} /\ run'[w].pin = pin(top)
      /\ run'[w].cmd = run[w].cmd /\ run'[w].hosts = run[w].hosts
      /\ run'[w].heads = run[w].heads /\ run'[w].words = run[w].words
      /\ run'[w].change = run[w].change
  <2>. HIDE DEF pc, sha, pin
  <2>. QED
    BY <1>0, <1>1 DEF Run
<1>. QED
  BY <1>1, <1>2

-----------------------------------------------------------------------------
(* The commands each step is a step of.                                    *)
Applies == {"apply", "apply --site"}
Commits == {"publish", "merge", "register"} \cup Applies

Kind(w) ==
    LET cmd == run[w].cmd
    IN  /\ run[w].pc = "review" => cmd \in Applies
        /\ run[w].pc = "apply" => cmd \in Applies
        /\ run[w].pc = "attest" => cmd = "register"
        /\ run[w].pc = "compare" => cmd = "pull"
        /\ run[w].pc = "choose" => cmd = "recover"
        /\ run[w].pc = "record" => cmd \in {"pull", "recover"}
        /\ run[w].pc \in {"writeconf", "writesec"} => cmd \in {"pull", "register", "recover"}
        /\ run[w].pc = "prepare" => cmd \in {"publish", "merge"} \cup Applies
        /\ run[w].pc \in {"commit", "raise", "setroot", "setkey", "push"} => cmd \in Commits
        /\ run[w].pc # "idle" => cmd \in AllCommands

KInv == \A w \in Workstations : Kind(w)

LEMMA CommandKInv ==
    ASSUME IInv, KInv, NEW w \in Workstations, Command(w)
    PROVE  KInv'
<1>1. Elsewhere(w)
  BY CommandKeeps
<1>2. run \in [Workstations -> Run] /\ run[w] \in Run /\ Kind(w)
  BY DEF IInv, TypeOK, KInv
<1>3. ASSUME Kind(w)' PROVE KInv'
  BY <1>1, <1>3 DEF KInv, Kind, Elsewhere
<1>4. ASSUME run'[w].cmd \in AllCommands, run'[w].pc = "gather" PROVE Kind(w)'
  BY <1>4 DEF Kind
<1>5. ASSUME End(w) PROVE Kind(w)'
  BY <1>2, <1>5, IdleType DEF Kind, End
<1>6. run[w].pc # "idle" => run[w].cmd \in AllCommands
  BY <1>2 DEF Kind
<1>7. CASE StartPublish(w) \/ StartPull(w) \/ StartRegister(w) \/ StartApply(w) \/ StartRecover(w)
  BY <1>3, <1>4, <1>7, StartsWith
<1>8. CASE AskSite(w)
  <2>1. run[w].pc = "gather" /\ run'[w].pc = "gather" /\ run'[w].cmd = run[w].cmd
    BY <1>2, <1>8 DEF AskSite, Run
  <2>. QED
    BY <1>3, <1>4, <1>6, <2>1
<1>9. CASE JudgeGathered(w)
  <2>1. run[w].pc = "gather" /\ run'[w].pc = AfterGather(w) /\ run'[w].cmd = run[w].cmd
    BY <1>9, JudgeGoesOn
  <2>. QED
    BY <1>3, <1>6, <2>1 DEF Kind, AfterGather, AllCommands, Applies
<1>10. CASE Prepare(w)
  <2>1. run[w].pc = "prepare" /\ run'[w].pc \in {"sethead", "commit"} /\ run'[w].cmd = run[w].cmd
    BY <1>2, <1>10 DEF Prepare, Run
  <2>. QED
    BY <1>2, <1>3, <1>6, <2>1 DEF Kind, Commits
<1>11. CASE Attest(w)
  <2>1. /\ run[w].pc = "attest" /\ run'[w].pc \in {"commit", "writeconf", "setkey"}
        /\ run'[w].cmd = run[w].cmd
    BY <1>11, AttestGoesOn
  <2>. QED
    BY <1>2, <1>3, <1>6, <2>1 DEF Kind, Commits
<1>12. CASE Commit(w)
  <2>1. run[w].pc = "commit" /\ run'[w].pc = "raise" /\ run'[w].cmd = run[w].cmd
    BY <1>2, <1>12 DEF Commit, Run
  <2>. QED
    BY <1>2, <1>3, <1>6, <2>1 DEF Kind
<1>13. CASE RaiseSeen(w)
  <2>1. /\ run[w].pc = "raise" /\ run'[w].cmd = run[w].cmd
        /\ run'[w].pc = IF run[w].cmd # "register" THEN "sethead"
                        ELSE IF files[w] = None THEN "writeconf" ELSE "setkey"
    BY <1>2, <1>13 DEF RaiseSeen, Goto, Run
  <2>. QED
    BY <1>2, <1>3, <1>6, <2>1 DEF Kind
<1>14. CASE SetHead(w)
  <2>1. /\ run[w].pc = "sethead" /\ run'[w].cmd = run[w].cmd
        /\ run'[w].pc = IF run[w].cmd \in {"pull", "recover"} THEN "record" ELSE "setroot"
    BY <1>2, <1>14 DEF SetHead, Goto, Run
  <2>. QED
    BY <1>2, <1>3, <1>6, <2>1 DEF Kind, AllCommands, Commits, Applies
<1>15. CASE SetRoot(w) \/ SetSigningKey(w)
  <2>1. /\ run[w].pc \in {"setroot", "setkey"} /\ run'[w].cmd = run[w].cmd
        /\ run'[w].pc \in {"push", "setkey", "sethead"}
    BY <1>2, <1>15 DEF SetRoot, SetSigningKey, ToPush, Goto, Run
  <2>. QED
    BY <1>2, <1>3, <1>6, <2>1 DEF Kind
<1>16. CASE PushSite(w)
  <2>1. run[w].pc = "push" /\ run'[w].pc = "push" /\ run'[w].cmd = run[w].cmd
    BY <1>2, <1>16 DEF PushSite, Run
  <2>. QED
    BY <1>2, <1>3, <1>6, <2>1 DEF Kind
<1>17. CASE Pushed(w)
  <2>1. CASE End(w)
    BY <2>1, <1>3, <1>5
  <2>2. CASE run[w].cmd \in Applies /\ run' = [run EXCEPT ![w].pc = "apply", ![w].todo = run[w].hosts]
    <3>1. run[w].pc = "push" /\ run'[w].pc = "apply" /\ run'[w].cmd = run[w].cmd
      BY <1>2, <1>17, <2>2 DEF Pushed, Run
    <3>. QED
      BY <1>2, <1>3, <1>6, <2>2, <3>1 DEF Kind
  <2>. QED
    BY <1>17, <2>1, <2>2 DEF Pushed, Applies
<1>18. CASE Review(w)
  <2>1. run[w].pc = "review" /\ run'[w].pc = "prepare" /\ run'[w].cmd = run[w].cmd
    BY <1>18, ReviewGoesOn
  <2>. QED
    BY <1>2, <1>3, <1>6, <2>1 DEF Kind
<1>24. CASE ApplySite(w)
  <2>1. run[w].pc = "apply" /\ run'[w].pc = "apply" /\ run'[w].cmd = run[w].cmd
    BY <1>2, <1>24 DEF ApplySite, Run
  <2>. QED
    BY <1>2, <1>3, <1>6, <2>1 DEF Kind
<1>19. CASE Applied(w) \/ Stop(w) \/ RecordPull(w)
  BY <1>3, <1>5, <1>19 DEF Applied, Stop, RecordPull
<1>20. CASE Compare(w)
  <2>1. run'[w].cmd = run[w].cmd /\ run'[w].pc \in {"record", "writeconf"} /\ run[w].pc = "compare"
    BY <1>20, CompareIInv DEF Compare, Turns
  <2>. QED
    BY <1>2, <1>3, <1>6, <2>1 DEF Kind
<1>21. CASE Choose(w)
  <2>1. run'[w].cmd = run[w].cmd /\ run'[w].pc \in {"gather", "writeconf"} /\ run[w].pc = "choose"
    BY <1>21, ChooseIInv DEF Turns
  <2>. QED
    BY <1>2, <1>3, <1>6, <2>1 DEF Kind
<1>22. CASE WriteConf(w)
  <2>1. run[w].pc = "writeconf" /\ run'[w].pc = "writesec" /\ run'[w].cmd = run[w].cmd
    BY <1>2, <1>22 DEF WriteConf, Goto, Run
  <2>. QED
    BY <1>2, <1>3, <1>6, <2>1 DEF Kind
<1>23. CASE WriteSecrets(w)
  <2>1. /\ run[w].pc = "writesec" /\ run'[w].cmd = run[w].cmd
        /\ run'[w].pc = IF run[w].cmd = "register" THEN "setkey" ELSE "sethead"
    BY <1>2, <1>23 DEF WriteSecrets, Goto, Run
  <2>. QED
    BY <1>2, <1>3, <1>6, <2>1 DEF Kind, Commits
<1>. QED
  BY <1>7, <1>8, <1>9, <1>10, <1>11, <1>12, <1>13, <1>14, <1>15, <1>16, <1>17, <1>18, <1>19, <1>20,
     <1>21, <1>22, <1>23, <1>24 DEF Command

LEMMA NextKInv == IInv /\ KInv /\ [Next]_vars => KInv'
<1>. SUFFICES ASSUME IInv, KInv, [Next]_vars PROVE KInv'
  OBVIOUS
<1>1. ASSUME NEW w \in Workstations, Command(w) PROVE KInv'
  BY <1>1, CommandKInv
<1>2. CASE UNCHANGED run
  BY <1>2 DEF KInv, Kind
<1>. QED
  BY <1>1, <1>2 DEF Next, vars, Edit, Lose, SiteLoses, SiteSync

LEMMA InitKInv == Init => KInv
  BY IdleType DEF Init, KInv, Kind

LEMMA Kinds == Spec => []KInv
  BY InitKInv, NextKInv, Inductive, PTL DEF Spec

-----------------------------------------------------------------------------
(* The hosts are witnesses, while no two operators apply at once.          *)
OneApplies ==
    \A u, w \in Workstations : run[u].cmd \in Applies /\ run[w].cmd \in Applies => u = w

(* The version may be applied on host s: it is newer than what the host    *)
(* had, or just that; and so is every version committed on these parents.  *)
Fits(s, v) ==
    \/ record[s].rev < version[v].rev
    \/ record[s].rev = version[v].rev /\ record[s].id = v
NewFits(s, ps) == \A rev \in Nat : Numbered(version, ps, rev) => record[s].rev < rev

(* What an apply has found out of its hosts, step by step: none of them has *)
(* anything newer than what it is about to apply, unless the operator      *)
(* typed rollback for one.                                                 *)
Ahead(w) ==
    run[w].cmd \in Applies =>
        /\ run[w].pc \in {"gather", "review", "prepare"} => run[w].files # None
        /\ run[w].pc = "prepare" => run[w].heads \subseteq {head[w]}
        /\ run[w].pc = "apply" => run[w].todo \subseteq run[w].hosts
        /\ "host" \notin run[w].words => \A s \in run[w].hosts :
              /\ run[w].pc = "prepare" =>
                    IF run[w].heads = {head[w]} /\ version[head[w]].files = run[w].files
                    THEN Fits(s, head[w]) ELSE NewFits(s, run[w].heads)
              /\ run[w].pc = "commit" => NewFits(s, run[w].parents)
              /\ run[w].pc \in {"raise", "sethead", "setroot", "setkey", "push", "apply"} =>
                    Fits(s, run[w].sha)

(* A host whose record names no version has none. *)
Named == \A s \in Sites : record[s].id = None => record[s].rev = 0

WInv == Named /\ \A w \in Workstations : Ahead(w)

LEMMA InitWInv == Init => WInv
<1>. SUFFICES ASSUME Init PROVE WInv
  OBVIOUS
<1>1. Named
  BY DEF Init, Named, Unseen
<1>2. \A w \in Workstations : run[w].cmd \notin Applies
  BY DEF Init, Idle, Applies
<1>. QED
  BY <1>1, <1>2 DEF WInv, Ahead

LEMMA RevIsNat ==
    ASSUME IInv, NEW v \in DOMAIN version PROVE version[v].rev \in Nat /\ version[v].rev >= 1
<1>1. version[v].rev \in 1..MaxVersions
  BY DEF IInv, TypeOK, Version
<1>. QED
  BY <1>1, ConstantsAssumption

(* A version's number is settled by its parents, and they stay.            *)
LEMMA NumberedOnce ==
    ASSUME IInv, NEW ps \in SUBSET DOMAIN version, NEW m \in Nat, NEW n \in Nat,
           Numbered(version, ps, m), Numbered(version, ps, n)
    PROVE  m = n /\ m >= 1
<1>1. CASE ps = {}
  BY <1>1 DEF Numbered
<1>2. CASE ps # {}
  <2>1. PICK p \in ps, q \in ps : /\ m = version[p].rev + 1 /\ n = version[q].rev + 1
                                 /\ version[q].rev < m /\ version[p].rev < n
    BY <1>2 DEF Numbered
  <2>. QED
    BY <2>1, RevIsNat
<1>. QED
  BY <1>1, <1>2

LEMMA NumberedStays ==
    ASSUME IInv, NEW ps \in SUBSET DOMAIN version, NEW n,
           \A v \in DOMAIN version : v \in DOMAIN version' /\ version'[v] = version[v]
    PROVE  Numbered(version, ps, n)' <=> Numbered(version, ps, n)
  BY DEF Numbered

(* What a run knows is not disturbed from elsewhere, while the records stay *)
(* as they are.                                                            *)
LEMMA AheadStays ==
    ASSUME IInv, KInv, NEW u \in Workstations, Ahead(u),
           run'[u] = run[u], head'[u] = head[u],
           UNCHANGED record \/ run[u].cmd \notin Applies,
           \A v \in DOMAIN version : v \in DOMAIN version' /\ version'[v] = version[v]
    PROVE  Ahead(u)'
<1>1. CASE run[u].cmd \notin Applies
  BY <1>1 DEF Ahead
<1>2. CASE UNCHANGED record
  <2>1. run[u].heads \subseteq DOMAIN version /\ run[u].parents \subseteq DOMAIN version
    BY DEF IInv, TypeOK, RunSound, Sound
  <2>2. \A s \in Sites, v \in DOMAIN version : Fits(s, v)' <=> Fits(s, v)
    BY <1>2 DEF Fits
  <2>3. \A s : (NewFits(s, run[u].heads))' <=> NewFits(s, run[u].heads)
    BY <1>2, <2>1, NumberedStays DEF NewFits
  <2>4. \A s : (NewFits(s, run[u].parents))' <=> NewFits(s, run[u].parents)
    BY <1>2, <2>1, NumberedStays DEF NewFits
  <2>5. run[u].hosts \subseteq Sites
    BY DEF IInv, TypeOK, Run
  <2>6. run[u].pc = "sethead" \/ run[u].pc \in WithVersion => run[u].sha \in DOMAIN version
    BY DEF IInv, TypeOK, RunSound, Sound, WithVersion
  <2>7. run[u].heads = {head[u]} => head[u] \in DOMAIN version /\ version'[head[u]] = version[head[u]]
    BY <2>1
  <2>. QED
    BY <2>2, <2>3, <2>4, <2>5, <2>6, <2>7 DEF Ahead, WithVersion
<1>. QED
  BY <1>1, <1>2

LEMMA CommandWInv ==
    ASSUME IInv, KInv, WInv, NEW w \in Workstations, Command(w), OneApplies
    PROVE  WInv'
<1>1. /\ \A u \in Workstations \ {w} : run'[u] = run[u] /\ head'[u] = head[u]
      /\ \A v \in DOMAIN version : v \in DOMAIN version' /\ version'[v] = version[v]
  <2>1. \A u \in Workstations \ {w} : head'[u] = head[u]
    BY DEF Command, StartPublish, StartPull, StartRegister, StartApply, StartRecover, Begin, AskSite,
       JudgeGathered, Prepare, Attest, Commit, RaiseSeen, SetHead, SetRoot, SetSigningKey, PushSite,
       Pushed, Review, ApplySite, Applied, Compare, Choose, WriteConf, WriteSecrets, RecordPull, Stop,
       disk, IInv, TypeOK
  <2>. QED
    BY <2>1, CommandKeeps DEF Elsewhere
<1>2. run \in [Workstations -> Run] /\ run[w] \in Run /\ Kind(w) /\ Ahead(w)
  BY DEF IInv, TypeOK, KInv, WInv
<1>3. ASSUME UNCHANGED record, Ahead(w)' PROVE WInv'
  <2>1. \A u \in Workstations \ {w} : Ahead(u)'
    BY <1>1, <1>3, AheadStays DEF WInv
  <2>. QED
    BY <1>3, <2>1 DEF WInv, Named
<1>4. ASSUME run'[w].cmd \notin Applies PROVE Ahead(w)'
  BY <1>4 DEF Ahead
<1>5. ASSUME End(w) PROVE Ahead(w)'
  BY <1>2, <1>4, <1>5 DEF End, Idle, Applies
<1>6. /\ run[w].heads \subseteq DOMAIN version /\ run[w].parents \subseteq DOMAIN version
      /\ run[w].hosts \subseteq Sites
      /\ run[w].pc \in WithVersion => run[w].sha \in DOMAIN version
  BY DEF IInv, TypeOK, RunSound, Sound, Run
<1>7. CASE StartPublish(w) \/ StartPull(w) \/ StartRegister(w) \/ StartApply(w) \/ StartRecover(w)
  <2>1. Ahead(w)'
    BY <1>7, StartsWith DEF Ahead, Applies, Complete
  <2>. QED
    BY <1>3, <1>7, <2>1, StartsWith
<1>8. CASE AskSite(w)
  <2>1. /\ run[w].pc = "gather" /\ run'[w].pc = "gather" /\ run'[w].cmd = run[w].cmd
        /\ run'[w].files = run[w].files /\ UNCHANGED record
    BY <1>2, <1>8 DEF AskSite, Run
  <2>. QED
    BY <1>2, <1>3, <2>1 DEF Ahead
<1>9. CASE JudgeGathered(w)
  <2>1. /\ run[w].pc = "gather" /\ run'[w].pc = AfterGather(w) /\ run'[w].cmd = run[w].cmd
        /\ run'[w].files = run[w].files /\ UNCHANGED record
    BY <1>9, JudgeGoesOn
  <2>2. run[w].cmd \in Applies => run'[w].pc = "review"
    BY <2>1 DEF AfterGather, Applies
  <2>. QED
    BY <1>2, <1>3, <2>1, <2>2 DEF Ahead
<1>10. CASE Review(w)
  <2>1. /\ run[w].pc = "review" /\ run'[w].pc = "prepare"
        /\ ParentsGiven(w, FALSE)
        /\ run'[w].cmd = run[w].cmd /\ run'[w].hosts = run[w].hosts
        /\ run'[w].files = run[w].files /\ run'[w].heads = run[w].heads
        /\ UNCHANGED <<version, head, record>>
    BY <1>10, ReviewGoesOn DEF disk
  <2>2. PICK rev \in Nat, v \in {None} \cup run[w].heads :
                 /\ LET same == {p \in run[w].heads : version[p].files = run[w].files}
                    IN  IF same = {} THEN v = None /\ Numbered(version, run[w].heads, rev)
                        ELSE v \in same /\ rev = version[v].rev
                 /\ \/ "host" \in run'[w].words
                    \/ /\ \A s \in run[w].hosts : ~Witnesses(s, rev, v)
                       /\ run'[w].words = run[w].words
    BY <1>10, ReviewGoesOn
  <2>3. run[w].heads \subseteq {head[w]}
    BY <2>1 DEF ParentsGiven
  <2>4. run[w].cmd \in Applies /\ run[w].files # None
    BY <1>2, <2>1 DEF Kind, Ahead
  <2>5. ASSUME "host" \notin run'[w].words, NEW s \in run[w].hosts
        PROVE  IF run[w].heads = {head[w]} /\ version[head[w]].files = run[w].files
               THEN Fits(s, head[w]) ELSE NewFits(s, run[w].heads)
    <3>0. /\ record[s].rev \in Nat /\ s \in Sites
          /\ ~(record[s].rev > rev) /\ (record[s].rev = rev => record[s].id = v)
      BY <1>6, <2>2, <2>5, ConstantsAssumption DEF Witnesses, IInv, TypeOK, Seen
    <3>1. CASE run[w].heads = {head[w]} /\ version[head[w]].files = run[w].files
      <4>1. v = head[w] /\ rev = version[v].rev
        BY <2>2, <3>1
      <4>. QED
        BY <3>0, <3>1, <4>1 DEF Fits
    <3>2. CASE ~(run[w].heads = {head[w]} /\ version[head[w]].files = run[w].files)
      <4>1. v = None /\ Numbered(version, run[w].heads, rev)
        BY <2>2, <2>3, <3>2
      <4>2. record[s].rev = rev => record[s].rev = 0
        BY <3>0, <4>1 DEF WInv, Named
      <4>3. \A n \in Nat : Numbered(version, run[w].heads, n) => n = rev /\ n >= 1
        BY <1>6, <4>1, NumberedOnce
      <4>. QED
        BY <3>0, <3>2, <4>2, <4>3 DEF NewFits
    <3>. QED
      BY <3>1, <3>2
  <2>6. \A s, v1, ps : (Fits(s, v1) => Fits(s, v1)') /\ (NewFits(s, ps) => NewFits(s, ps)')
    BY <2>1 DEF Fits, NewFits
  <2>7. Ahead(w)'
    BY <2>1, <2>3, <2>4, <2>5 DEF Ahead, Fits, NewFits
  <2>. QED
    BY <1>3, <2>1, <2>7
<1>11. CASE Prepare(w)
  <2>. DEFINE same == run[w].heads = {head[w]} /\ version[head[w]].files = run[w].files
  <2>1. CASE run[w].cmd \in Applies
    <3>1. run[w].files # None /\ run[w].pc = "prepare" /\ run[w].cmd # "merge"
      BY <1>2, <1>11, <2>1 DEF Ahead, Prepare, Applies
    <3>2. /\ run'[w].pc = IF same THEN "sethead" ELSE "commit"
          /\ same => run'[w].sha = head[w]
          /\ run'[w].parents = run[w].heads
          /\ run'[w].cmd = run[w].cmd /\ run'[w].hosts = run[w].hosts /\ run'[w].words = run[w].words
          /\ UNCHANGED <<version, head, record>>
      BY <1>2, <1>11, <3>1 DEF Prepare, Run
    <3>3. Ahead(w)'
      BY <1>2, <2>1, <3>1, <3>2 DEF Ahead, Fits, NewFits
    <3>. QED
      BY <1>3, <3>2, <3>3
  <2>2. CASE run[w].cmd \notin Applies
    <3>1. run'[w].cmd = run[w].cmd /\ UNCHANGED record
      BY <1>2, <1>11 DEF Prepare, Run
    <3>. QED
      BY <1>3, <1>4, <2>2, <3>1
  <2>. QED
    BY <2>1, <2>2
<1>12. CASE Attest(w)
  <2>1. run'[w].cmd = run[w].cmd /\ run[w].pc = "attest" /\ UNCHANGED record
    BY <1>12, AttestGoesOn
  <2>. QED
    BY <1>2, <1>3, <1>4, <2>1 DEF Kind, Applies
<1>13. CASE Commit(w)
  <2>1. PICK v \in Ids \ DOMAIN version, rev \in 1..MaxVersions :
            /\ Numbered(version, run[w].parents, rev)
            /\ v \in DOMAIN version' /\ version'[v].rev = rev
            /\ run' = [run EXCEPT ![w].pc = "raise", ![w].sha = v]
            /\ run[w].pc = "commit" /\ UNCHANGED record
    <3>. DEFINE made(rev) == [parents |-> run[w].parents, rev |-> rev, signer |-> KeyOf[w],
                              files |-> run[w].files, from |-> run[w].from,
                              merge |-> run[w].cmd = "merge"]
    <3>1. PICK v \in Ids \ DOMAIN version, rev \in 1..MaxVersions :
            /\ Numbered(version, run[w].parents, rev)
            /\ version' = [u \in DOMAIN version \cup {v} |-> IF u = v THEN made(rev) ELSE version[u]]
            /\ run' = [run EXCEPT ![w].pc = "raise", ![w].sha = v]
      BY <1>13 DEF Commit
    <3>2. made(rev).rev = rev
      OBVIOUS
    <3>. HIDE DEF made
    <3>3. v \in DOMAIN version' /\ version'[v].rev = rev
      BY <3>1, <3>2
    <3>4. run[w].pc = "commit" /\ UNCHANGED record
      BY <1>13 DEF Commit
    <3>. QED
      BY <3>1, <3>3, <3>4
  <2>2. /\ run'[w].pc = "raise" /\ run'[w].sha = v
        /\ run'[w].cmd = run[w].cmd /\ run'[w].hosts = run[w].hosts /\ run'[w].words = run[w].words
    BY <1>2, <2>1 DEF Run
  <2>3. rev \in Nat
    BY ConstantsAssumption
  <2>4. Ahead(w)'
    BY <1>2, <2>1, <2>2, <2>3 DEF Ahead, Fits, NewFits
  <2>. QED
    BY <1>3, <2>1, <2>4
<1>14. ASSUME run'[w].cmd = run[w].cmd, run'[w].hosts = run[w].hosts, run'[w].words = run[w].words,
              run'[w].sha = run[w].sha,
              run[w].pc \in {"raise", "sethead", "setroot", "setkey", "push", "apply"},
              run'[w].pc \in {"sethead", "setroot", "setkey", "push", "apply", "record", "writeconf"},
              run'[w].pc = "apply" => run'[w].todo \subseteq run[w].hosts,
              UNCHANGED <<version, record>>
       PROVE  WInv'
  <2>1. Ahead(w)'
    BY <1>2, <1>14 DEF Ahead, Fits
  <2>. QED
    BY <1>3, <1>14, <2>1
<1>15. CASE RaiseSeen(w) \/ SetHead(w) \/ SetRoot(w) \/ SetSigningKey(w)
  <2>1. /\ run'[w].cmd = run[w].cmd /\ run'[w].hosts = run[w].hosts /\ run'[w].words = run[w].words
        /\ run'[w].sha = run[w].sha
        /\ run[w].pc \in {"raise", "sethead", "setroot", "setkey"}
        /\ run'[w].pc \in {"sethead", "setroot", "setkey", "push", "record", "writeconf"}
    BY <1>2, <1>15 DEF RaiseSeen, SetHead, SetRoot, SetSigningKey, Goto, ToPush, Run
  <2>2. UNCHANGED <<version, record>>
    BY <1>15 DEF RaiseSeen, SetHead, SetRoot, SetSigningKey
  <2>. QED
    BY <1>14, <2>1, <2>2
<1>16. CASE PushSite(w)
  <2>1. /\ run'[w].cmd = run[w].cmd /\ run'[w].hosts = run[w].hosts /\ run'[w].words = run[w].words
        /\ run'[w].sha = run[w].sha /\ run[w].pc = "push" /\ run'[w].pc = "push"
    BY <1>2, <1>16 DEF PushSite, Run
  <2>2. UNCHANGED <<version, record>>
    BY <1>16 DEF PushSite
  <2>. QED
    BY <1>14, <2>1, <2>2
<1>17. CASE Pushed(w)
  <2>1. CASE End(w)
    BY <1>3, <1>5, <1>17, <2>1 DEF Pushed
  <2>2. CASE run' = [run EXCEPT ![w].pc = "apply", ![w].todo = run[w].hosts]
    <3>1. /\ run'[w].cmd = run[w].cmd /\ run'[w].hosts = run[w].hosts /\ run'[w].words = run[w].words
          /\ run'[w].sha = run[w].sha /\ run[w].pc = "push" /\ run'[w].pc = "apply"
          /\ run'[w].todo = run[w].hosts
      BY <1>2, <1>17, <2>2 DEF Pushed, Run
    <3>2. UNCHANGED <<version, record>>
      BY <1>17 DEF Pushed
    <3>. QED
      BY <1>14, <3>1, <3>2
  <2>. QED
    BY <1>17, <2>1, <2>2 DEF Pushed
<1>18. CASE ApplySite(w)
  <2>1. PICK s \in Sites :
            /\ s \in run[w].todo
            /\ record' = [record EXCEPT ![s] = [rev |-> version[run[w].sha].rev, id |-> run[w].sha]]
            /\ run' = [run EXCEPT ![w].todo = @ \ {s}]
            /\ run[w].pc = "apply" /\ UNCHANGED version
    BY <1>18 DEF ApplySite, Next1
  <2>2. /\ run'[w].cmd = run[w].cmd /\ run'[w].hosts = run[w].hosts /\ run'[w].words = run[w].words
        /\ run'[w].sha = run[w].sha /\ run'[w].pc = "apply" /\ run'[w].todo \subseteq run[w].todo
    BY <1>2, <2>1 DEF Run
  <2>3. run[w].cmd \in Applies
    BY <1>2, <2>1 DEF Kind
  <2>4. \A u \in Workstations \ {w} : Ahead(u)'
    BY <1>1, <2>3, AheadStays DEF WInv, OneApplies
  <2>5. \A t \in Sites : /\ t # s => record'[t] = record[t]
                         /\ t = s => record'[t].rev = version[run[w].sha].rev /\ record'[t].id = run[w].sha
    BY <2>1 DEF IInv, TypeOK
  <2>6. Ahead(w)'
    BY <1>2, <1>6, <2>1, <2>2, <2>5 DEF Ahead, Fits
  <2>7. run[w].sha # None
    BY <1>6, <2>1, ConstantsAssumption DEF WithVersion, IInv, TypeOK
  <2>8. Named'
    BY <2>5, <2>7 DEF WInv, Named
  <2>. QED
    BY <2>4, <2>6, <2>8 DEF WInv
<1>19. CASE Applied(w) \/ Stop(w) \/ RecordPull(w)
  BY <1>3, <1>5, <1>19 DEF Applied, Stop, RecordPull, disk
<1>20. CASE Compare(w) \/ Choose(w) \/ WriteConf(w) \/ WriteSecrets(w)
  <2>1. run[w].pc \in {"compare", "choose", "writeconf", "writesec"} /\ UNCHANGED record
    BY <1>20 DEF Compare, Choose, WriteConf, WriteSecrets
  <2>2. run'[w].cmd = run[w].cmd
    BY <1>2, <1>20, CompareIInv, ChooseIInv DEF WriteConf, WriteSecrets, Goto, Run
  <2>. QED
    BY <1>2, <1>3, <1>4, <2>1, <2>2 DEF Kind, Applies
<1>. QED
  BY <1>7, <1>8, <1>9, <1>10, <1>11, <1>12, <1>13, <1>15, <1>16, <1>17, <1>18, <1>19, <1>20 DEF Command

LEMMA NextWInv == IInv /\ KInv /\ WInv /\ OneApplies /\ [Next]_vars => WInv'
<1>. SUFFICES ASSUME IInv, KInv, WInv, OneApplies, [Next]_vars PROVE WInv'
  OBVIOUS
<1>1. ASSUME NEW w \in Workstations, Command(w) PROVE WInv'
  BY <1>1, CommandWInv
<1>2. ASSUME UNCHANGED <<version, run, record>>,
             \A u \in Workstations : head'[u] # head[u] => run[u].pc = "idle"
      PROVE  WInv'
  <2>1. ASSUME NEW u \in Workstations PROVE Ahead(u)'
    <3>1. CASE head'[u] = head[u]
      BY <1>2, <2>1, <3>1, AheadStays DEF WInv
    <3>2. CASE run[u].pc = "idle"
      <4>1. run'[u].cmd = "none"
        BY <1>2, <3>2, IdleType DEF IInv, RunSound, Sound, Idle
      <4>. QED
        BY <4>1 DEF Ahead, Applies
    <3>. QED
      BY <1>2, <3>1, <3>2
  <2>. QED
    BY <1>2, <2>1 DEF WInv, Named
<1>3. ASSUME NEW w \in Workstations, Edit(w) \/ Lose(w) PROVE WInv'
  <2>1. \A u \in Workstations : head'[u] # head[u] => run[u].pc = "idle"
    BY <1>3 DEF Edit, Lose, IInv, TypeOK
  <2>. QED
    BY <1>2, <1>3, <2>1 DEF Edit, Lose
<1>. QED
  BY <1>1, <1>2, <1>3 DEF Next, vars, disk, SiteLoses, SiteSync

(* The action of WitnessHolds. *)
Witnessed ==
    \A s \in Sites :
        record'[s] # record[s] /\ record'[s].rev <= record[s].rev =>
            \E w \in Workstations : run[w].pc = "apply" /\ "host" \in run[w].words

LEMMA KeepsWitness == IInv /\ KInv /\ WInv /\ [Next]_vars => [Witnessed]_vars
<1>. SUFFICES ASSUME IInv, KInv, WInv, [Next]_vars, NEW s \in Sites,
                     record'[s] # record[s], record'[s].rev <= record[s].rev
              PROVE  \E w \in Workstations : run[w].pc = "apply" /\ "host" \in run[w].words
  BY DEF Witnessed
<1>1. ASSUME NEW w \in Workstations, ApplySite(w)
      PROVE  run[w].pc = "apply" /\ "host" \in run[w].words
  <2>0. run \in [Workstations -> Run] /\ record \in [Sites -> Seen]
    BY DEF IInv, TypeOK
  <2>1. /\ run[w].pc = "apply" /\ s \in run[w].todo
        /\ record'[s] = [rev |-> version[run[w].sha].rev, id |-> run[w].sha]
    BY <1>1, <2>0 DEF ApplySite, Next1
  <2>2. s \in run[w].hosts /\ ("host" \notin run[w].words => Fits(s, run[w].sha))
    BY <2>1 DEF WInv, Ahead, KInv, Kind
  <2>3. run[w].sha \in DOMAIN version
    BY <2>1 DEF IInv, TypeOK, RunSound, Sound, WithVersion
  <2>4. record[s] = [rev |-> record[s].rev, id |-> record[s].id] /\ record[s].rev \in Nat
    BY <2>0, ConstantsAssumption DEF Seen
  <2>5. version[run[w].sha].rev \in Nat
    BY <2>3, RevIsNat
  <2>. QED
    BY <2>1, <2>2, <2>4, <2>5 DEF Fits
<1>2. CASE UNCHANGED record
  BY <1>2
<1>3. ASSUME NEW w \in Workstations, Command(w), ~ApplySite(w) PROVE UNCHANGED record
  BY <1>3 DEF Command, StartPublish, StartPull, StartRegister, StartApply, StartRecover, Begin, AskSite,
     JudgeGathered, Prepare, Attest, Commit, RaiseSeen, SetHead, SetRoot, SetSigningKey, PushSite,
     Pushed, Review, Applied, Compare, Choose, WriteConf, WriteSecrets, RecordPull, Stop, disk
<1>. QED
  BY <1>1, <1>2, <1>3 DEF Next, vars, Edit, Lose, SiteLoses, SiteSync

(* A host's record goes to an older revision, or to another version at the *)
(* same one, only where its operator typed rollback for it (config_apply), *)
(* while no two operators apply at once: each reads the hosts' records     *)
(* before the first of them writes one.                                    *)
THEOREM RollbacksAreTyped ==
    Spec /\ []OneApplies => WitnessHolds
<1>1. Spec /\ []OneApplies => [](IInv /\ KInv /\ WInv)
  BY InitWInv, NextWInv, Inductive, Kinds, PTL DEF Spec
<1>2. Spec /\ []OneApplies => [][Witnessed]_vars
  BY <1>1, KeepsWitness, PTL DEF Spec
<1>. QED
  BY <1>2 DEF WitnessHolds, Witnessed

-----------------------------------------------------------------------------
(* What the versions that exist are.                                       *)

LEMMA PrepareGoesOn ==
    ASSUME IInv, NEW w \in Workstations, Prepare(w)
    PROVE  LET loaded == run[w].files # None
               f      == IF loaded THEN run[w].files ELSE files[w]
               same   == run[w].cmd # "merge" /\ run[w].heads = {head[w]} /\ version[head[w]].files = f
           IN  /\ run[w].pc = "prepare"
               /\ ParentsGiven(w, run[w].cmd = "merge")
               /\ SignerGiven(w, run[w].heads, f)
               /\ seen' = [seen EXCEPT ![w] = AfterRecordSeen(w)]
               /\ run'[w].pc = IF same THEN "sethead" ELSE "commit"
               /\ run'[w].sha = IF same THEN head[w] ELSE None
               /\ run'[w].files = f
               /\ run'[w].from = IF loaded THEN run[w].from ELSE origin[w]
               /\ run'[w].parents = run[w].heads
               /\ run'[w].cmd = run[w].cmd /\ run'[w].pin = run[w].pin
               /\ run'[w].heads = run[w].heads /\ run'[w].change = run[w].change
               /\ loaded \/ Complete(w)
               /\ UNCHANGED <<version, store, cache, files, head, root, signing, origin, record, bounds>>
<1>0. run \in [Workstations -> Run] /\ run[w] \in Run
  BY DEF IInv, TypeOK
<1>. DEFINE loaded == run[w].files # None
            f    == IF loaded THEN run[w].files ELSE files[w]
            from == IF loaded THEN run[w].from ELSE origin[w]
            same == run[w].cmd # "merge" /\ run[w].heads = {head[w]} /\ version[head[w]].files = f
            pc   == IF same THEN "sethead" ELSE "commit"
            sha  == IF same THEN head[w] ELSE None
<1>1. /\ run[w].pc = "prepare" /\ (loaded \/ Complete(w))
      /\ ParentsGiven(w, run[w].cmd = "merge") /\ SignerGiven(w, run[w].heads, f)
      /\ seen' = [seen EXCEPT ![w] = AfterRecordSeen(w)]
      /\ run' = [run EXCEPT ![w].pc = pc, ![w].sha = sha,
                            ![w].files = f, ![w].from = from, ![w].parents = run[w].heads]
      /\ UNCHANGED <<version, store, cache, files, head, root, signing, origin, record, bounds>>
  BY DEF Prepare
<1>2. /\ run'[w].pc = pc /\ run'[w].sha = sha /\ run'[w].files = f /\ run'[w].from = from
      /\ run'[w].parents = run[w].heads
      /\ run'[w].cmd = run[w].cmd /\ run'[w].pin = run[w].pin
      /\ run'[w].heads = run[w].heads /\ run'[w].change = run[w].change
  <2>. HIDE DEF pc, sha, f, from
  <2>. QED
    BY <1>0, <1>1 DEF Run
<1>. QED
  BY <1>1, <1>2

LEMMA CommitGoesOn ==
    ASSUME IInv, NEW w \in Workstations, Commit(w)
    PROVE  \E v \in Ids \ DOMAIN version, rev \in 1..MaxVersions :
              /\ run[w].pc = "commit" /\ run'[w].pc = "raise" /\ run'[w].sha = v
              /\ \A u \in Ids \ DOMAIN version : v <= u
              /\ Numbered(version, run[w].parents, rev)
              /\ DOMAIN version' = DOMAIN version \cup {v}
              /\ version'[v] = [parents |-> run[w].parents, rev |-> rev, signer |-> KeyOf[w],
                                files |-> run[w].files, from |-> run[w].from,
                                merge |-> run[w].cmd = "merge"]
              /\ \A u \in DOMAIN version : version'[u] = version[u]
              /\ cache' = [cache EXCEPT ![w] = @ \cup {v}]
              /\ origin' = [origin EXCEPT ![w] = IF files[w] = None THEN None ELSE v]
              /\ run'[w].cmd = run[w].cmd /\ run'[w].pin = run[w].pin
              /\ run'[w].parents = run[w].parents /\ run'[w].from = run[w].from
              /\ run'[w].files = run[w].files /\ run'[w].change = run[w].change
              /\ UNCHANGED <<store, files, head, root, seen, signing, record, bounds>>
<1>0. run \in [Workstations -> Run] /\ run[w] \in Run
  BY DEF IInv, TypeOK
<1>. DEFINE made(rev) == [parents |-> run[w].parents, rev |-> rev, signer |-> KeyOf[w],
                          files |-> run[w].files, from |-> run[w].from,
                          merge |-> run[w].cmd = "merge"]
<1>1. PICK v \in Ids \ DOMAIN version, rev \in 1..MaxVersions :
          /\ \A u \in Ids \ DOMAIN version : v <= u
          /\ Numbered(version, run[w].parents, rev)
          /\ version' = [u \in DOMAIN version \cup {v} |-> IF u = v THEN made(rev) ELSE version[u]]
          /\ cache' = [cache EXCEPT ![w] = @ \cup {v}]
          /\ origin' = [origin EXCEPT ![w] = IF files[w] = None THEN None ELSE v]
          /\ run' = [run EXCEPT ![w].pc = "raise", ![w].sha = v]
  BY DEF Commit
<1>2. run[w].pc = "commit" /\ UNCHANGED <<store, files, head, root, seen, signing, record, bounds>>
  BY DEF Commit
<1>3. /\ run'[w].pc = "raise" /\ run'[w].sha = v
      /\ run'[w].cmd = run[w].cmd /\ run'[w].pin = run[w].pin
      /\ run'[w].parents = run[w].parents /\ run'[w].from = run[w].from
      /\ run'[w].files = run[w].files /\ run'[w].change = run[w].change
  BY <1>0, <1>1 DEF Run
<1>4. /\ DOMAIN version' = DOMAIN version \cup {v} /\ version'[v] = made(rev)
      /\ \A u \in DOMAIN version : version'[u] = version[u]
  <2>. HIDE DEF made
  <2>. QED
    BY <1>1
<1>. QED
  BY <1>1, <1>2, <1>3, <1>4

(* The records of a version in hand, and its pushes, leave the run as it   *)
(* is but for its step.                                                    *)
LEMMA VersionGoesOn ==
    ASSUME IInv, NEW w \in Workstations,
           \/ RaiseSeen(w) \/ SetHead(w) \/ SetRoot(w) \/ SetSigningKey(w)
           \/ WriteConf(w) \/ WriteSecrets(w) \/ PushSite(w)
    PROVE  /\ run'[w].cmd = run[w].cmd /\ run'[w].pin = run[w].pin
           /\ run'[w].sha = run[w].sha /\ run'[w].parents = run[w].parents
           /\ run'[w].files = run[w].files /\ run'[w].from = run[w].from
           /\ run'[w].heads = run[w].heads /\ run'[w].change = run[w].change
           /\ UNCHANGED <<version, cache, record>>
           /\ run[w].pc \in {"raise", "sethead", "setroot", "setkey", "writeconf", "writesec", "push"}
           /\ RaiseSeen(w) =>
                 /\ run[w].pc = "raise"
                 /\ run'[w].pc = IF run[w].cmd # "register" THEN "sethead"
                                 ELSE IF files[w] = None THEN "writeconf" ELSE "setkey"
           /\ SetHead(w) =>
                 /\ run[w].pc = "sethead"
                 /\ run'[w].pc = IF run[w].cmd \in {"pull", "recover"} THEN "record" ELSE "setroot"
           /\ SetRoot(w) =>
                 /\ run[w].pc = "setroot"
                 /\ run'[w].pc = IF run[w].cmd = "register" THEN "push" ELSE "setkey"
           /\ SetSigningKey(w) =>
                 /\ run[w].pc = "setkey"
                 /\ run'[w].pc = IF run[w].cmd = "register" THEN "sethead" ELSE "push"
           /\ WriteConf(w) => run[w].pc = "writeconf" /\ run'[w].pc = "writesec"
           /\ WriteSecrets(w) =>
                 /\ run[w].pc = "writesec"
                 /\ run'[w].pc = IF run[w].cmd = "register" THEN "setkey" ELSE "sethead"
           /\ PushSite(w) => run[w].pc = "push" /\ run'[w].pc = "push"
<1>0. run \in [Workstations -> Run] /\ run[w] \in Run
  BY DEF IInv, TypeOK
<1>1. CASE RaiseSeen(w)
  <2>1. UNCHANGED <<version, cache, record>> /\ run[w].pc = "raise"
    BY <1>1 DEF RaiseSeen
  <2>. QED
    BY <1>0, <1>1, <2>1
       DEF RaiseSeen, Goto, Run, SetHead, SetRoot, SetSigningKey, WriteConf, WriteSecrets, PushSite
<1>2. CASE SetHead(w)
  <2>1. UNCHANGED <<version, cache, record>> /\ run[w].pc = "sethead"
    BY <1>2 DEF SetHead
  <2>. QED
    BY <1>0, <1>2, <2>1
       DEF RaiseSeen, Goto, Run, SetHead, SetRoot, SetSigningKey, WriteConf, WriteSecrets, PushSite
<1>3. CASE SetRoot(w)
  <2>1. UNCHANGED <<version, cache, record>> /\ run[w].pc = "setroot"
    BY <1>3 DEF SetRoot
  <2>. QED
    BY <1>0, <1>3, <2>1
       DEF RaiseSeen, Goto, Run, SetHead, SetRoot, SetSigningKey, WriteConf, WriteSecrets, PushSite,
           ToPush
<1>4. CASE SetSigningKey(w)
  <2>1. UNCHANGED <<version, cache, record>> /\ run[w].pc = "setkey"
    BY <1>4 DEF SetSigningKey
  <2>. QED
    BY <1>0, <1>4, <2>1
       DEF RaiseSeen, Goto, Run, SetHead, SetRoot, SetSigningKey, WriteConf, WriteSecrets, PushSite,
           ToPush
<1>5. CASE WriteConf(w)
  <2>1. UNCHANGED <<version, cache, record>> /\ run[w].pc = "writeconf"
    BY <1>5 DEF WriteConf
  <2>. QED
    BY <1>0, <1>5, <2>1
       DEF RaiseSeen, Goto, Run, SetHead, SetRoot, SetSigningKey, WriteConf, WriteSecrets, PushSite
<1>6. CASE WriteSecrets(w)
  <2>1. UNCHANGED <<version, cache, record>> /\ run[w].pc = "writesec"
    BY <1>6 DEF WriteSecrets
  <2>. QED
    BY <1>0, <1>6, <2>1
       DEF RaiseSeen, Goto, Run, SetHead, SetRoot, SetSigningKey, WriteConf, WriteSecrets, PushSite
<1>7. CASE PushSite(w)
  <2>1. UNCHANGED <<version, cache, disk, record>> /\ run[w].pc = "push"
    BY <1>7 DEF PushSite
  <2>. QED
    BY <1>0, <1>7, <2>1
       DEF RaiseSeen, Goto, Run, SetHead, SetRoot, SetSigningKey, WriteConf, WriteSecrets, PushSite
<1>. QED
  BY <1>1, <1>2, <1>3, <1>4, <1>5, <1>6, <1>7

(* A pull's or a recovery's head is checked out.                           *)
LEMMA CheckoutGoesOn ==
    ASSUME IInv, NEW w \in Workstations, Compare(w) \/ Choose(w)
    PROVE  /\ run[w].pc \in {"compare", "choose"} /\ run'[w].cmd = run[w].cmd
           /\ run'[w].pc \in {"record", "writeconf", "gather"}
           /\ \/ run'[w].pin = run[w].pin
              \/ \E top \in run[w].heads : run'[w].pin = PinFor(w, run[w].pin, top)
           /\ run'[w].pc = "writeconf" => run[w].heads = {run'[w].sha}
           /\ run'[w].change = run[w].change
           /\ UNCHANGED <<version, store, cache, disk, record, bounds>>
<1>0. run \in [Workstations -> Run] /\ run[w] \in Run
  BY DEF IInv, TypeOK
<1>1. CASE Compare(w)
  <2>1. /\ run[w].pc = "compare" /\ UNCHANGED <<version, store, cache, disk, record, bounds>>
        /\ run'[w].cmd = run[w].cmd /\ run'[w].pc \in {"record", "writeconf"}
    BY <1>1, CompareIInv DEF Compare, Turns
  <2>2. \/ Goto(w, "record")
        \/ \E top, f : /\ run[w].heads = {top}
                       /\ run' = [run EXCEPT ![w].pc = "writeconf", ![w].sha = top, ![w].files = f]
    BY <1>1 DEF Compare
  <2>3. CASE Goto(w, "record")
    BY <1>0, <2>1, <2>3 DEF Goto, Run
  <2>4. CASE \E top, f : /\ run[w].heads = {top}
                         /\ run' = [run EXCEPT ![w].pc = "writeconf", ![w].sha = top, ![w].files = f]
    <3>1. PICK top, f : /\ run[w].heads = {top}
                        /\ run' = [run EXCEPT ![w].pc = "writeconf", ![w].sha = top, ![w].files = f]
      BY <2>4, Zenon
    <3>2. run'[w].pin = run[w].pin /\ run'[w].change = run[w].change /\ run'[w].sha = top
      BY <1>0, <3>1 DEF Run
    <3>. QED
      BY <2>1, <3>1, <3>2
  <2>. QED
    BY <2>2, <2>3, <2>4
<1>2. CASE Choose(w)
  <2>1. /\ run[w].pc = "choose" /\ UNCHANGED <<version, store, cache, disk, record, bounds>>
        /\ run'[w].cmd = run[w].cmd /\ run'[w].pc \in {"gather", "writeconf"}
    BY <1>2, ChooseIInv DEF Choose, Turns
  <2>2. \/ run' = [run EXCEPT ![w].pc = "gather", ![w].todo = Sites, ![w].hosts = {}, ![w].direct = {}]
        \/ \E top \in run[w].heads :
              /\ run[w].heads = {top}
              /\ run' = [run EXCEPT ![w].pc = "writeconf", ![w].sha = top,
                                    ![w].pin = PinFor(w, @, top), ![w].files = version[top].files]
    BY <1>2 DEF Choose
  <2>3. CASE run' = [run EXCEPT ![w].pc = "gather", ![w].todo = Sites, ![w].hosts = {}, ![w].direct = {}]
    <3>1. run'[w].pin = run[w].pin /\ run'[w].change = run[w].change /\ run'[w].pc = "gather"
      BY <1>0, <2>3 DEF Run
    <3>. QED
      BY <2>1, <3>1
  <2>4. ASSUME NEW top \in run[w].heads,
               run' = [run EXCEPT ![w].pc = "writeconf", ![w].sha = top,
                                  ![w].pin = PinFor(w, @, top), ![w].files = version[top].files]
        PROVE  /\ run'[w].pin = PinFor(w, run[w].pin, top) /\ run'[w].change = run[w].change
               /\ run'[w].sha = top
    BY <1>0, <2>4 DEF Run
  <2>. QED
    BY <2>1, <2>2, <2>3, <2>4
<1>. QED
  BY <1>1, <1>2

(* Every version is numbered one above its parents, and signed by a key    *)
(* that each of them lists, or by one it lists itself.                     *)
Proper(v) ==
    /\ version[v].parents \subseteq DOMAIN version
    /\ Numbered(version, version[v].parents, version[v].rev)
    /\ IF version[v].parents = {} THEN version[v].signer \in Listed[version[v].files.conf]
       ELSE \A p \in version[v].parents : version[v].signer \in Listed[version[p].files.conf]

(* What a run has found out of the version it is about to sign, the roots  *)
(* it may pin, and what a version committed on nothing is.                 *)
Given(w) ==
    /\ run[w].pc = "commit" => SignerGiven(w, run[w].parents, run[w].files)
    /\ root[w] \in {None} \cup Roots
    /\ run[w].pin \in {None} \cup Roots
    /\ /\ run[w].cmd \in Commits /\ run[w].parents = {}
       /\ run[w].pc \in {"raise", "sethead", "setroot", "setkey", "push", "writeconf", "writesec"}
       => run[w].sha \in Roots

VInv == /\ \A v \in DOMAIN version : Proper(v)
        /\ DOMAIN version # {} => 1 \in Roots
        /\ \A w \in Workstations : Given(w)

LEMMA InitVInv == Init => VInv
<1>. SUFFICES ASSUME Init PROVE VInv
  OBVIOUS
<1>1. DOMAIN version = {} /\ \A w \in Workstations : run[w] = Idle /\ root[w] = None
  BY DEF Init
<1>2. Idle.pc = "idle" /\ Idle.cmd = "none" /\ Idle.pin = None
  BY DEF Idle
<1>3. \A w \in Workstations : Given(w)
  BY <1>1, <1>2 DEF Given, Commits, Applies
<1>. QED
  BY <1>1, <1>3 DEF VInv

LEMMA GivenStays ==
    ASSUME IInv, NEW u \in Workstations, Given(u), run'[u] = run[u], root'[u] = root[u],
           \A v \in DOMAIN version : v \in DOMAIN version' /\ version'[v] = version[v]
    PROVE  Given(u)'
<1>1. run[u].parents \subseteq DOMAIN version
  BY DEF IInv, TypeOK, RunSound, Sound
<1>2. \A v \in Roots : v \in Roots'
  BY DEF Roots
<1>3. SignerGiven(u, run[u].parents, run[u].files) =>
          SignerGiven(u, run[u].parents, run[u].files)'
  BY <1>1 DEF SignerGiven
<1>. QED
  BY <1>2, <1>3 DEF Given

LEMMA PinIsRoot ==
    ASSUME IInv, VInv, NEW w \in Workstations, NEW given \in {None} \cup Roots, NEW v
    PROVE  PinFor(w, given, v) \in {None} \cup Roots
<1>. DEFINE rs == RootsOf(Graph(cache[w]), v)
<1>1. rs \subseteq Roots
  BY DEF RootsOf, Graph, Roots, IInv, TypeOK
<1>2. Cardinality(rs) = 1 => (CHOOSE r \in rs : TRUE) \in Roots
  BY <1>1, FS_EmptySet
<1>3. root[w] \in {None} \cup Roots
  BY DEF VInv, Given
<1>. QED
  BY <1>2, <1>3 DEF PinFor

LEMMA CommandVInv ==
    ASSUME IInv, KInv, VInv, NEW w \in Workstations, Command(w)
    PROVE  VInv'
<1>1. /\ \A u \in Workstations \ {w} : run'[u] = run[u] /\ root'[u] = root[u]
      /\ \A v \in DOMAIN version : v \in DOMAIN version' /\ version'[v] = version[v]
  <2>1. \A u \in Workstations \ {w} : root'[u] = root[u]
    BY DEF Command, StartPublish, StartPull, StartRegister, StartApply, StartRecover, Begin, AskSite,
       JudgeGathered, Prepare, Attest, Commit, RaiseSeen, SetHead, SetRoot, SetSigningKey, PushSite,
       Pushed, Review, ApplySite, Applied, Compare, Choose, WriteConf, WriteSecrets, RecordPull, Stop,
       disk, IInv, TypeOK
  <2>. QED
    BY <2>1, CommandKeeps DEF Elsewhere
<1>2. run \in [Workstations -> Run] /\ run[w] \in Run /\ Kind(w) /\ Given(w)
  BY DEF IInv, TypeOK, KInv, VInv
<1>3. \A u \in Workstations \ {w} : Given(u)'
  BY <1>1, GivenStays DEF VInv
<1>4. ASSUME UNCHANGED version, Given(w)' PROVE VInv'
  BY <1>3, <1>4 DEF VInv, Proper, Roots
<1>5. ASSUME End(w), UNCHANGED version, root'[w] \in {None} \cup Roots PROVE VInv'
  <2>1. run'[w] = Idle
    BY <1>2, <1>5 DEF End
  <2>. QED
    BY <1>4, <1>5, <2>1 DEF Given, Idle, Commits, Applies, Roots
<1>6. CASE StartPublish(w) \/ StartPull(w) \/ StartRegister(w) \/ StartApply(w) \/ StartRecover(w)
  BY <1>2, <1>4, <1>6, StartsWith DEF Given, Roots, disk
<1>7. CASE AskSite(w)
  <2>1. run'[w].pc = "gather" /\ run'[w].pin = run[w].pin /\ UNCHANGED <<version, root>>
    BY <1>2, <1>7 DEF AskSite, Run, disk
  <2>. QED
    BY <1>2, <1>4, <2>1 DEF Given, Roots
<1>8. CASE JudgeGathered(w)
  <2>1. /\ run'[w].pc = AfterGather(w) /\ run'[w].pin = run[w].pin /\ UNCHANGED <<version, root>>
    BY <1>8, JudgeGoesOn DEF disk
  <2>2. run'[w].pc \in {"compare", "attest", "choose", "review", "prepare"}
    BY <2>1 DEF AfterGather
  <2>. QED
    BY <1>2, <1>4, <2>1, <2>2 DEF Given, Roots
<1>9. CASE Review(w)
  <2>1. run'[w].pc = "prepare" /\ run'[w].pin = run[w].pin /\ UNCHANGED <<version, root>>
    BY <1>9, ReviewGoesOn DEF disk
  <2>. QED
    BY <1>2, <1>4, <2>1 DEF Given, Roots
<1>10. CASE Prepare(w)
  <2>1. /\ SignerGiven(w, run'[w].parents, run'[w].files)
        /\ run'[w].pc \in {"commit", "sethead"}
        /\ run'[w].pc = "sethead" => run'[w].parents = {head[w]}
        /\ run'[w].pin = run[w].pin /\ UNCHANGED <<version, root>>
    BY <1>10, PrepareGoesOn
  <2>. QED
    BY <1>2, <1>4, <2>1 DEF Given, SignerGiven, Roots
<1>11. CASE Attest(w)
  <2>1. PICK top \in run[w].heads :
                  /\ SignerGiven(w, {top}, version[top].files)
                  /\ run'[w].files = version[top].files /\ run'[w].parents = {top}
                  /\ run'[w].pin = PinFor(w, run[w].pin, top)
                  /\ UNCHANGED <<version, root>>
    BY <1>11, AttestGoesOn
  <2>2. run'[w].pin \in {None} \cup Roots
    BY <1>2, <2>1, PinIsRoot DEF Given
  <2>. QED
    BY <1>2, <1>4, <2>1, <2>2 DEF Given, SignerGiven, Roots
<1>12. CASE Commit(w)
  <2>1. PICK v \in Ids \ DOMAIN version, rev \in 1..MaxVersions :
              /\ run[w].pc = "commit" /\ run'[w].pc = "raise" /\ run'[w].sha = v
              /\ \A u \in Ids \ DOMAIN version : v <= u
              /\ Numbered(version, run[w].parents, rev)
              /\ DOMAIN version' = DOMAIN version \cup {v}
              /\ version'[v] = [parents |-> run[w].parents, rev |-> rev, signer |-> KeyOf[w],
                                files |-> run[w].files, from |-> run[w].from,
                                merge |-> run[w].cmd = "merge"]
              /\ \A u \in DOMAIN version : version'[u] = version[u]
              /\ run'[w].pin = run[w].pin /\ run'[w].parents = run[w].parents
              /\ UNCHANGED root
    BY <1>12, CommitGoesOn
  <2>. DEFINE ps == run[w].parents
  <2>2. ps \subseteq DOMAIN version /\ SignerGiven(w, ps, run[w].files)
    BY <1>2, <2>1 DEF Given, IInv, TypeOK, RunSound, Sound
  <2>3. /\ version'[v].parents = ps /\ version'[v].rev = rev /\ version'[v].signer = KeyOf[w]
        /\ version'[v].files = run[w].files
    BY <2>1
  <2>4. Proper(v)'
    <3>2. \A p \in ps : version'[p] = version[p]
      BY <2>1, <2>2
    <3>3. Numbered(version', ps, rev)
      BY <2>1, <3>2 DEF Numbered
    <3>. QED
      BY <2>1, <2>2, <2>3, <3>2, <3>3 DEF Proper, SignerGiven
  <2>5. ASSUME NEW u \in DOMAIN version PROVE Proper(u)'
    <3>1. Proper(u) /\ version'[u] = version[u]
      BY <2>1 DEF VInv
    <3>2. Numbered(version', version[u].parents, version[u].rev)
      BY <2>1, <3>1 DEF Proper, Numbered
    <3>. QED
      BY <2>1, <3>1, <3>2 DEF Proper
  <2>6. \A r \in Roots : r \in Roots'
    BY <2>1 DEF Roots
  <2>7. 1 \in Roots'
    <3>1. CASE DOMAIN version # {}
      BY <2>6, <3>1 DEF VInv
    <3>2. CASE DOMAIN version = {}
      <4>1. v = 1
        BY <2>1, <3>2, ConstantsAssumption DEF Ids
      <4>. QED
        BY <2>1, <2>2, <2>3, <3>2, <4>1 DEF Roots
    <3>. QED
      BY <3>1, <3>2
  <2>8. Given(w)'
    BY <1>2, <2>1, <2>3, <2>6 DEF Given, Roots
  <2>. QED
    BY <1>3, <2>1, <2>4, <2>5, <2>7, <2>8 DEF VInv
<1>13. CASE SetRoot(w)
  <2>1. /\ run[w].pc = "setroot"
        /\ root' = [root EXCEPT ![w] = IF run[w].parents = {} THEN run[w].sha
                                       ELSE IF run[w].cmd = "register" THEN run[w].pin ELSE @]
        /\ UNCHANGED version
    BY <1>13 DEF SetRoot
  <2>2. root'[w] \in {None} \cup Roots
    BY <1>2, <2>1 DEF IInv, TypeOK, Given, Kind
  <2>3. /\ run'[w].cmd = run[w].cmd /\ run'[w].sha = run[w].sha /\ run'[w].parents = run[w].parents
        /\ run'[w].pin = run[w].pin /\ run'[w].pc \in {"push", "setkey"}
    BY <1>13, <2>1, VersionGoesOn
  <2>. QED
    BY <1>2, <1>4, <2>1, <2>2, <2>3 DEF Given, Roots
<1>14. CASE \/ RaiseSeen(w) \/ SetHead(w) \/ SetSigningKey(w) \/ WriteConf(w) \/ WriteSecrets(w)
            \/ PushSite(w)
  <2>1. /\ run'[w].cmd = run[w].cmd /\ run'[w].sha = run[w].sha /\ run'[w].parents = run[w].parents
        /\ run'[w].pin = run[w].pin /\ UNCHANGED version
        /\ run[w].pc \in {"raise", "sethead", "setroot", "setkey", "writeconf", "writesec", "push"}
        /\ run'[w].pc # "commit"
    BY <1>14, VersionGoesOn
  <2>2. UNCHANGED root
    BY <1>14 DEF RaiseSeen, SetHead, SetSigningKey, WriteConf, WriteSecrets, PushSite, disk
  <2>. QED
    BY <1>2, <1>4, <2>1, <2>2 DEF Given, Roots
<1>15. CASE Pushed(w)
  <2>1. UNCHANGED <<version, root>>
    BY <1>15 DEF Pushed, disk
  <2>2. CASE End(w)
    BY <1>2, <1>5, <2>1, <2>2 DEF Given
  <2>3. CASE run' = [run EXCEPT ![w].pc = "apply", ![w].todo = run[w].hosts]
    <3>1. run'[w].pc = "apply" /\ run'[w].pin = run[w].pin
      BY <1>2, <2>3 DEF Run
    <3>. QED
      BY <1>2, <1>4, <2>1, <3>1 DEF Given, Roots
  <2>. QED
    BY <1>15, <2>2, <2>3 DEF Pushed
<1>16. CASE ApplySite(w)
  <2>1. run'[w].pc = "apply" /\ run'[w].pin = run[w].pin
    BY <1>2, <1>16 DEF ApplySite, Run
  <2>2. UNCHANGED <<version, root>>
    BY <1>16 DEF ApplySite, disk
  <2>. QED
    BY <1>2, <1>4, <2>1, <2>2 DEF Given, Roots
<1>17. CASE Compare(w) \/ Choose(w)
  <2>1. /\ run'[w].cmd = run[w].cmd /\ run[w].pc \in {"compare", "choose"}
        /\ run'[w].pc \in {"record", "writeconf", "gather"} /\ UNCHANGED <<version, root>>
    BY <1>17, CheckoutGoesOn DEF disk
  <2>2. run'[w].pin \in {None} \cup Roots
    <3>1. run[w].pin \in {None} \cup Roots
      BY <1>2 DEF Given
    <3>2. \A top \in run[w].heads : PinFor(w, run[w].pin, top) \in {None} \cup Roots
      BY <3>1, PinIsRoot
    <3>. QED
      BY <1>17, <3>1, <3>2, CheckoutGoesOn
  <2>3. run[w].cmd \notin Commits
    BY <1>2, <2>1 DEF Kind, Commits, Applies
  <2>. QED
    BY <1>2, <1>4, <2>1, <2>2, <2>3 DEF Given, Roots
<1>18. CASE RecordPull(w)
  <2>1. /\ root' = [root EXCEPT ![w] = IF run[w].pin # None THEN run[w].pin ELSE @]
        /\ End(w) /\ UNCHANGED version
    BY <1>18 DEF RecordPull
  <2>2. root'[w] \in {None} \cup Roots
    BY <1>2, <2>1 DEF IInv, TypeOK, Given
  <2>. QED
    BY <1>5, <2>1, <2>2
<1>19. CASE Applied(w) \/ Stop(w)
  <2>1. End(w) /\ UNCHANGED <<version, root>>
    BY <1>19 DEF Applied, Stop, disk
  <2>. QED
    BY <1>2, <1>5, <2>1 DEF Given
<1>. QED
  BY <1>6, <1>7, <1>8, <1>9, <1>10, <1>11, <1>12, <1>13, <1>14, <1>15, <1>16, <1>17, <1>18, <1>19
     DEF Command

LEMMA NextVInv == IInv /\ KInv /\ VInv /\ [Next]_vars => VInv'
<1>. SUFFICES ASSUME IInv, KInv, VInv, [Next]_vars PROVE VInv'
  OBVIOUS
<1>1. ASSUME NEW w \in Workstations, Command(w) PROVE VInv'
  BY <1>1, CommandVInv
<1>2. ASSUME UNCHANGED <<version, run>>, \A u \in Workstations : root'[u] \in {None, root[u]}
      PROVE  VInv'
  BY <1>2 DEF VInv, Given, Proper, Roots, SignerGiven
<1>3. ASSUME NEW w \in Workstations, Edit(w) \/ Lose(w) PROVE VInv'
  <2>1. \A u \in Workstations : root'[u] \in {None, root[u]}
    BY <1>3 DEF Edit, Lose, IInv, TypeOK
  <2>. QED
    BY <1>2, <1>3, <2>1 DEF Edit, Lose
<1>. QED
  BY <1>1, <1>2, <1>3 DEF Next, vars, disk, SiteLoses, SiteSync

(* Every version there is was numbered and signed as its parents ask, and  *)
(* every root that is pinned is a version made on nothing (Parents,        *)
(* CheckSigner and recordRoot, through every command and interrupt).       *)
THEOREM VersionsProper ==
    Spec => [](\A v \in DOMAIN version : Proper(v))
<1>1. Spec => []VInv
  BY InitVInv, NextVInv, Inductive, Kinds, PTL DEF Spec
<1>2. VInv => \A v \in DOMAIN version : Proper(v)
  BY DEF VInv
<1>. QED
  BY <1>1, <1>2, PTL

-----------------------------------------------------------------------------
(* What a cache is judged to be where no operator's key has been removed   *)
(* and only one first version was ever made.                               *)
NothingRemoved ==
    \A v \in DOMAIN version : \A p \in version[v].parents :
        Listed[version[p].files.conf] \subseteq Listed[version[v].files.conf]
OneFirst == \A u, v \in Roots : u = v
Peaceful == NothingRemoved /\ OneFirst

(* The versions of S that none of S is built on. *)
Tops(S) == {v \in S : \A u \in S : v \notin version[u].parents}

LEMMA CacheIs ==
    ASSUME IInv, VInv, NEW w \in Workstations, NEW v \in cache[w]
    PROVE  LET g == Graph(cache[w])
           IN  /\ g[v].parents = version[v].parents /\ g[v].rev = version[v].rev
               /\ g[v].signer = version[v].signer /\ g[v].lists = Listed[version[v].files.conf]
               /\ g[v].readable /\ ShapeOK(g, v)
               /\ v \in DOMAIN version /\ version[v].parents \subseteq cache[w]
               /\ \A p \in version[v].parents : version[p].rev < version[v].rev
<1>. DEFINE g == Graph(cache[w])
<1>1. /\ \A u \in cache[w] :
              /\ g[u].parents = version[u].parents /\ g[u].rev = version[u].rev
              /\ g[u].signer = version[u].signer /\ g[u].lists = Listed[version[u].files.conf]
              /\ g[u].readable /\ g[u].sound
      /\ DOMAIN g = cache[w]
  BY DEF Graph
<1>2. v \in DOMAIN version /\ version[v].parents \subseteq cache[w] /\ Proper(v)
  BY CacheGraph DEF IInv, TypeOK, VInv
<1>. HIDE DEF g
<1>3. Numbered(g, g[v].parents, g[v].rev)
  BY <1>1, <1>2 DEF Proper, Numbered
<1>4. ShapeOK(g, v)
  BY <1>1, <1>2, <1>3 DEF ShapeOK
<1>5. \A p \in version[v].parents : version[p].rev < version[v].rev
  BY <1>2 DEF Proper, Numbered
<1>. QED
  BY <1>1, <1>2, <1>4, <1>5 DEF g

(* Among versions of the cache there is an oldest one, on none of them.    *)
LEMMA SomeIsOldest ==
    ASSUME IInv, VInv, NEW w \in Workstations, NEW X \in SUBSET cache[w], X # {}
    PROVE  \E x \in X : version[x].parents \cap X = {}
<1>. DEFINE T == {version[x].rev : x \in X}
<1>1. X \subseteq DOMAIN version
  BY DEF IInv, TypeOK
<1>2. T \in SUBSET Nat /\ T # {}
  BY <1>1, RevIsNat
<1>3. PICK i \in T : \A j \in T : i <= j
  <2>. HIDE DEF T
  <2>. QED
    BY <1>2, LeastOf
<1>4. PICK x \in X : version[x].rev = i
  BY <1>3
<1>5. ASSUME NEW p \in version[x].parents \cap X PROVE FALSE
  <2>1. version[p].rev < version[x].rev
    BY <1>4, <1>5, CacheIs
  <2>2. version[p].rev \in T /\ version[p].rev \in Nat /\ version[x].rev \in Nat
    BY <1>1, <1>4, <1>5, RevIsNat
  <2>. HIDE DEF T
  <2>. QED
    BY <1>3, <1>4, <2>1, <2>2
<1>. QED
  BY <1>4, <1>5

LEMMA OnFirst ==
    ASSUME IInv, VInv, OneFirst, NEW w \in Workstations, NEW v \in cache[w]
    PROVE  /\ 1 \in cache[w] /\ 1 \in Roots
           /\ v # 1 => version[v].parents # {} /\ <<v, 1>> \in Ancestry(Graph(cache[w]))
<1>. DEFINE g == Graph(cache[w])
            X == {x \in cache[w] : x = v \/ <<v, x>> \in Ancestry(g)}
<1>1. cache[w] \subseteq DOMAIN version /\ 1 \in Roots
  BY DEF IInv, TypeOK, VInv
<1>2. \A u \in cache[w] : version[u].parents = {} => u = 1
  BY <1>1 DEF OneFirst, Roots
<1>3. GraphOK(g) /\ DOMAIN g = cache[w] /\ IsFiniteSet(DOMAIN g)
  BY CacheGraph DEF GraphOK
<1>. HIDE DEF g
<1>4. PICK x \in X : version[x].parents \cap X = {}
  <2>1. X \in SUBSET cache[w] /\ X # {}
    OBVIOUS
  <2>. HIDE DEF X
  <2>. QED
    BY <2>1, SomeIsOldest
<1>5. ASSUME NEW p \in version[x].parents PROVE FALSE
  <2>1. p \in cache[w] /\ g[x].parents = version[x].parents
    BY <1>4, <1>5, CacheIs DEF g
  <2>2. <<x, p>> \in Ancestry(g)
    BY <1>3, <1>4, <1>5, <2>1, AncestryHolds
  <2>3. <<v, p>> \in Ancestry(g)
    BY <1>3, <1>4, <2>2, AncestryTransitive
  <2>4. p \in X
    BY <2>1, <2>3
  <2>. QED
    BY <1>4, <1>5, <2>4
<1>6. x = 1
  BY <1>2, <1>4, <1>5
<1>. QED
  BY <1>1, <1>2, <1>4, <1>6 DEF g

(* The whole cache is trusted, once there is an anchor for it. *)
LEMMA PeacefulJudge ==
    ASSUME IInv, VInv, Peaceful, NEW w \in Workstations, NEW a, cache[w] # {},
           At(Graph(cache[w]), a) # None
    PROVE  /\ Judge(Graph(cache[w]), a).ok
           /\ Judge(Graph(cache[w]), a).trusted = cache[w]
           /\ Judge(Graph(cache[w]), a).heads = Tops(cache[w])
<1>. DEFINE g == Graph(cache[w])
<1>1. GraphOK(g) /\ DOMAIN g = cache[w]
  BY CacheGraph
<1>2. 1 \in cache[w]
  BY OnFirst DEF Peaceful
<1>3. ASSUME NEW v \in cache[w]
      PROVE  /\ g[v].parents = version[v].parents /\ g[v].signer = version[v].signer
             /\ g[v].lists = Listed[version[v].files.conf] /\ g[v].readable /\ ShapeOK(g, v)
             /\ v \in DOMAIN version /\ version[v].parents \subseteq cache[w] /\ Proper(v)
  BY CacheIs DEF VInv
<1>. HIDE DEF g
<1>4. ASSUME NEW v \in cache[w] \ {1} PROVE Extends(g, v, cache[w])
  <2>1. version[v].parents # {}
    BY OnFirst DEF Peaceful
  <2>. QED
    BY <1>3, <2>1 DEF Extends, Proper
<1>5. \A v \in cache[w] : \A p \in g[v].parents : g[p].lists \subseteq g[v].lists
  BY <1>3 DEF Peaceful, NothingRemoved
<1>6. Judge(g, a).ok /\ Judge(g, a).trusted = cache[w]
  BY <1>1, <1>2, <1>3, <1>4, <1>5, AllTrustedHolds DEF AllTrusted, g
<1>7. Judge(g, a).heads = HeadsOf(g, Judge(g, a).trusted)
  BY <1>6 DEF Judge, Refused
<1>8. HeadsOf(g, cache[w]) = Tops(cache[w])
  BY <1>3 DEF HeadsOf, Tops
<1>. QED
  BY <1>6, <1>7, <1>8 DEF g

(* The newest version of a cache is one of its tops. *)
LEMMA NewestIsTop ==
    ASSUME IInv, VInv, NEW w \in Workstations, cache[w] # {}
    PROVE  \E m \in Tops(cache[w]) : \A v \in cache[w] : version[v].rev <= version[m].rev
<1>. DEFINE g == Graph(cache[w])
<1>1. GraphOK(g) /\ DOMAIN g = cache[w]
  BY CacheGraph
<1>2. \A v \in cache[w] : /\ g[v].rev = version[v].rev /\ version[v].rev \in Nat
                          /\ \A p \in version[v].parents : version[p].rev < version[v].rev
  BY CacheIs, RevIsNat
<1>. HIDE DEF g
<1>3. PICK m \in cache[w] : IsFirst(g, cache[w], m)
  BY <1>1, SomeIsFirst
<1>4. \A v \in cache[w] : version[v].rev <= version[m].rev
  BY <1>2, <1>3 DEF IsFirst
<1>5. m \in Tops(cache[w])
  BY <1>2, <1>4 DEF Tops
<1>. QED
  BY <1>4, <1>5

(* An anchor that pins the root, or whose key signed some version of the   *)
(* cache, is one to judge the cache from.                                  *)
LEMMA AnchoredAt ==
    ASSUME IInv, VInv, OneFirst, NEW w \in Workstations, NEW a, cache[w] # {},
           a.root \in {None} \cup Roots,
           a.root # None \/ (a.signer # NoKey /\ \E v \in cache[w] : version[v].signer = a.signer)
    PROVE  At(Graph(cache[w]), a) # None
<1>. DEFINE g == Graph(cache[w])
            own == {v \in DOMAIN g : g[v].signer = a.signer /\ ShapeOK(g, v)}
<1>1. GraphOK(g) /\ DOMAIN g = cache[w] /\ None \notin DOMAIN g
  BY CacheGraph DEF GraphOK
<1>2. ASSUME NEW v \in cache[w]
      PROVE  /\ g[v].parents = version[v].parents /\ g[v].signer = version[v].signer
             /\ g[v].lists = Listed[version[v].files.conf] /\ g[v].readable /\ ShapeOK(g, v)
             /\ Proper(v)
  BY CacheIs DEF VInv
<1>3. PICK u \in cache[w] : TRUE
  OBVIOUS
<1>4. 1 \in cache[w] /\ 1 \in Roots /\ \A v \in cache[w] : v # 1 => <<v, 1>> \in Ancestry(g)
  BY <1>3, OnFirst
<1>. HIDE DEF g
<1>5. OwnNewest(g, a) # None => OwnNewest(g, a) \in cache[w]
  BY <1>1, OwnNewestHeld
<1>6. CASE a.root # None
  <2>1. a.root = 1
    BY <1>4, <1>6 DEF OneFirst
  <2>2. GoodRoot(g, 1)
    BY <1>1, <1>2, <1>4 DEF GoodRoot, Roots, Proper
  <2>3. 1 # None
    BY <1>1, <1>4
  <2>4. CASE OwnNewest(g, a) = None
    BY <1>6, <2>1, <2>2, <2>3, <2>4 DEF At, AnchorAt, g
  <2>5. CASE OwnNewest(g, a) # None
    <3>1. 1 = OwnNewest(g, a) \/ <<OwnNewest(g, a), 1>> \in Ancestry(g)
      BY <1>4, <1>5, <2>5
    <3>. QED
      BY <1>6, <2>1, <2>2, <2>5, <3>1 DEF At, AnchorAt, g
  <2>. QED
    BY <2>4, <2>5
<1>7. CASE a.root = None
  <2>1. a.signer # NoKey /\ own # {} /\ own \in SUBSET DOMAIN g
    BY <1>1, <1>2, <1>7
  <2>2. \E v \in own : IsFirst(g, own, v)
    <3>. HIDE DEF own
    <3>. QED
      BY <1>1, <2>1, SomeIsFirst
  <2>3. OwnNewest(g, a) \in own
    BY <2>1, <2>2 DEF OwnNewest
  <2>. QED
    BY <1>1, <1>7, <2>3 DEF At, AnchorAt, g
<1>. QED
  BY <1>6, <1>7

-----------------------------------------------------------------------------
(* What is published is the one head, where no key was ever removed and    *)
(* one first version was made.                                             *)

(* Something to trust from: a root pinned before, or a version of its own.  *)
Own(w)   == \E v \in cache[w] : version[v].signer = KeyOf[w]
Known(w) == Own(w) \/ (root[w] # None /\ run[w].cmd # "register")

(* What a command goes by, step by step: the heads are all the tops of the *)
(* cache, one that commits builds on them, and what it made or found is    *)
(* then the only one.                                                      *)
Settled(w) ==
    /\ run[w].pc \in {"review", "prepare", "attest", "compare", "choose"} =>
           run[w].heads = Tops(cache[w])
    /\ run[w].cmd \in Commits =>
           /\ run[w].cmd # "register" => run[w].pin = None
           /\ run[w].pc \in {"review", "prepare"} => cache[w] = {} \/ Known(w)
           /\ run[w].pc = "commit" => run[w].parents = Tops(cache[w])
           /\ run[w].pc \in {"raise", "sethead", "setroot", "setkey", "writeconf", "writesec", "push"} =>
                  Tops(cache[w]) = {run[w].sha} /\ Known(w)
           /\ run[w].pc = "push" => signing[w] \/ run[w].cmd = "register"

PInv == \A w \in Workstations : Settled(w)

LEMMA InitPInv == Init => PInv
<1>. SUFFICES ASSUME Init PROVE PInv
  OBVIOUS
<1>1. \A w \in Workstations : run[w].cmd = "none" /\ run[w].pc = "idle"
  BY DEF Init, Idle
<1>. QED
  BY <1>1 DEF PInv, Settled, Commits, Applies

(* What was found of a cache stays so while the cache does.                *)
LEMMA TopsStay ==
    ASSUME IInv, NEW u \in Workstations, cache'[u] = cache[u],
           \A v \in DOMAIN version : v \in DOMAIN version' /\ version'[v] = version[v]
    PROVE  Tops(cache[u])' = Tops(cache[u]) /\ (Own(u)' <=> Own(u))
  BY DEF IInv, TypeOK, Tops, Own

LEMMA SettledStays ==
    ASSUME IInv, NEW u \in Workstations, Settled(u),
           run'[u] = run[u], cache'[u] = cache[u], root'[u] = root[u], signing'[u] = signing[u],
           \A v \in DOMAIN version : v \in DOMAIN version' /\ version'[v] = version[v]
    PROVE  Settled(u)'
<1>1. Tops(cache[u])' = Tops(cache[u]) /\ (Own(u)' <=> Own(u))
  BY TopsStay
<1>. QED
  BY <1>1 DEF Settled, Known

(* A verdict on a cache was reached from something, and holds all of it.   *)
LEMMA PeacefulVerdict ==
    ASSUME IInv, VInv, Peaceful, NEW w \in Workstations, Verdict(w).ok
    PROVE  /\ Verdict(w).heads = Tops(cache[w])
           /\ cache[w] # {} => Own(w) \/ root[w] # None \/ run[w].pin # None
<1>. DEFINE g == Graph(cache[w])
            a == Anchor(w, run[w].cmd, run[w].pin)
<1>1. CASE cache[w] = {}
  BY <1>1 DEF Verdict, Judged, Tops
<1>2. CASE cache[w] # {}
  <2>1. GraphOK(g) /\ DOMAIN g = cache[w] /\ \A v \in cache[w] : g[v].signer = version[v].signer
    BY CacheGraph DEF Graph
  <2>2. Judge(g, a).ok /\ Verdict(w) = Judge(g, a)
    BY <1>2 DEF Verdict, Judged
  <2>. HIDE DEF g
  <2>3. At(g, a) # None
    BY <2>1, <2>2, JudgeIs
  <2>4. Judge(g, a).heads = Tops(cache[w])
    BY <1>2, <2>3, PeacefulJudge DEF g
  <2>5. a.root # None => root[w] # None \/ run[w].pin # None
    BY DEF Anchor
  <2>6. ASSUME a.root = None PROVE Own(w)
    <3>. DEFINE own == {v \in DOMAIN g : g[v].signer = a.signer /\ ShapeOK(g, v)}
    <3>1. OwnNewest(g, a) # None
      BY <2>3, <2>6 DEF At, AnchorAt
    <3>2. a.signer # NoKey /\ own # {}
      BY <3>1 DEF OwnNewest
    <3>3. a.signer = KeyOf[w]
      BY <3>2 DEF Anchor
    <3>. QED
      BY <2>1, <3>2, <3>3 DEF Own
  <2>. QED
    BY <1>2, <2>2, <2>4, <2>5, <2>6
<1>. QED
  BY <1>1, <1>2

LEMMA CommandPInv ==
    ASSUME IInv, KInv, VInv, PInv, Peaceful, NEW w \in Workstations, Command(w)
    PROVE  PInv'
<1>1. /\ \A u \in Workstations \ {w} :
              /\ run'[u] = run[u] /\ cache'[u] = cache[u]
              /\ root'[u] = root[u] /\ signing'[u] = signing[u]
      /\ \A v \in DOMAIN version : v \in DOMAIN version' /\ version'[v] = version[v]
  <2>1. \A u \in Workstations \ {w} : cache'[u] = cache[u] /\ root'[u] = root[u] /\ signing'[u] = signing[u]
    BY DEF Command, StartPublish, StartPull, StartRegister, StartApply, StartRecover, Begin, AskSite,
       JudgeGathered, Prepare, Attest, Commit, RaiseSeen, SetHead, SetRoot, SetSigningKey, PushSite,
       Pushed, Review, ApplySite, Applied, Compare, Choose, WriteConf, WriteSecrets, RecordPull, Stop,
       disk, IInv, TypeOK
  <2>. QED
    BY <2>1, CommandKeeps DEF Elsewhere
<1>2. /\ run \in [Workstations -> Run] /\ run[w] \in Run /\ Kind(w) /\ Settled(w) /\ Given(w)
      /\ cache[w] \subseteq DOMAIN version
  BY DEF IInv, TypeOK, KInv, PInv, VInv
<1>3. ASSUME Settled(w)' PROVE PInv'
  <2>1. \A u \in Workstations \ {w} : Settled(u)'
    BY <1>1, SettledStays DEF PInv
  <2>. QED
    BY <1>3, <2>1 DEF PInv
<1>4. ASSUME run'[w].cmd \notin Commits, run'[w].pc \in {"record", "writeconf", "gather"}
      PROVE  PInv'
  BY <1>3, <1>4 DEF Settled
<1>5. ASSUME End(w) PROVE PInv'
  <2>1. run'[w] = Idle
    BY <1>2, <1>5 DEF End
  <2>. QED
    BY <1>3, <2>1 DEF Settled, Idle, Commits, Applies
<1>6. ASSUME UNCHANGED <<version, cache>>
      PROVE  Tops(cache[w])' = Tops(cache[w]) /\ (Own(w)' <=> Own(w))
  BY <1>6 DEF Tops, Own
<1>7. CASE StartPublish(w) \/ StartPull(w) \/ StartRegister(w) \/ StartApply(w) \/ StartRecover(w)
  <2>1. /\ run'[w].pc = "gather"
        /\ run'[w].cmd \in {"publish", "merge", "apply", "apply --site"} => run'[w].pin = None
    BY <1>7, StartsWith
  <2>. QED
    BY <1>3, <2>1 DEF Settled, Commits, Applies
<1>8. CASE AskSite(w)
  <2>1. run'[w].pc = "gather" /\ run'[w].pin = run[w].pin /\ run'[w].cmd = run[w].cmd
    BY <1>2, <1>8 DEF AskSite, Run
  <2>. QED
    BY <1>2, <1>3, <2>1 DEF Settled
<1>9. CASE JudgeGathered(w)
  <2>1. /\ run'[w].pc = AfterGather(w) /\ run'[w].cmd = run[w].cmd /\ run'[w].pin = run[w].pin
        /\ run'[w].heads = Verdict(w).heads /\ Verdict(w).ok
        /\ UNCHANGED <<version, cache, root, signing>>
    BY <1>9, JudgeGoesOn DEF disk
  <2>2. /\ Verdict(w).heads = Tops(cache[w])
        /\ cache[w] # {} => Own(w) \/ root[w] # None \/ run[w].pin # None
    BY <2>1, PeacefulVerdict
  <2>3. /\ AfterGather(w) \in {"compare", "attest", "choose", "review", "prepare"}
        /\ run[w].cmd = "register" => AfterGather(w) = "attest"
    BY DEF AfterGather
  <2>. QED
    BY <1>2, <1>3, <1>6, <2>1, <2>2, <2>3 DEF Settled, Known
<1>10. CASE Review(w)
  <2>1. /\ run[w].pc = "review" /\ run'[w].pc = "prepare" /\ run'[w].cmd = run[w].cmd
        /\ run'[w].pin = run[w].pin /\ run'[w].heads = run[w].heads
        /\ UNCHANGED <<version, cache, root, signing>>
    BY <1>10, ReviewGoesOn DEF disk
  <2>. QED
    BY <1>2, <1>3, <1>6, <2>1 DEF Settled, Known
<1>11. CASE Prepare(w)
  <2>1. /\ run[w].pc = "prepare" /\ run'[w].pc \in {"commit", "sethead"}
        /\ run'[w].pc = "sethead" => run[w].heads = {head[w]} /\ run'[w].sha = head[w]
        /\ run'[w].parents = run[w].heads /\ run'[w].cmd = run[w].cmd /\ run'[w].pin = run[w].pin
        /\ UNCHANGED <<version, cache, root, signing>>
    BY <1>11, PrepareGoesOn
  <2>2. Tops({}) = {}
    BY DEF Tops
  <2>. QED
    BY <1>2, <1>3, <1>6, <2>1, <2>2 DEF Settled, Known
<1>12. CASE Attest(w)
  <2>1. PICK top \in run[w].heads :
                  /\ run[w].pc = "attest" /\ run[w].heads = {top}
                  /\ run'[w].pc = IF version[top].signer # KeyOf[w] THEN "commit"
                                  ELSE IF files[w] = None THEN "writeconf" ELSE "setkey"
                  /\ run'[w].sha = IF version[top].signer = KeyOf[w] THEN top ELSE None
                  /\ run'[w].parents = {top} /\ run'[w].cmd = run[w].cmd
                  /\ UNCHANGED <<version, cache, root, signing>>
    BY <1>12, AttestGoesOn
  <2>2. run[w].cmd = "register" /\ run[w].cmd \in Commits
    BY <1>2, <2>1 DEF Kind, Commits
  <2>3. Tops(cache[w]) = {top} /\ top \in cache[w]
    BY <1>2, <2>1, <2>2 DEF Settled, Tops
  <2>. QED
    BY <1>2, <1>3, <1>6, <2>1, <2>2, <2>3 DEF Settled, Known, Own
<1>13. CASE Commit(w)
  <2>1. PICK v \in Ids \ DOMAIN version, rev \in 1..MaxVersions :
              /\ run[w].pc = "commit" /\ run'[w].pc = "raise" /\ run'[w].sha = v
              /\ DOMAIN version' = DOMAIN version \cup {v}
              /\ version'[v] = [parents |-> run[w].parents, rev |-> rev, signer |-> KeyOf[w],
                                files |-> run[w].files, from |-> run[w].from,
                                merge |-> run[w].cmd = "merge"]
              /\ \A u \in DOMAIN version : version'[u] = version[u]
              /\ cache' = [cache EXCEPT ![w] = @ \cup {v}]
              /\ run'[w].cmd = run[w].cmd /\ run'[w].pin = run[w].pin
    BY <1>13, CommitGoesOn
  <2>2. /\ cache'[w] = cache[w] \cup {v} /\ version'[v].parents = run[w].parents
        /\ version'[v].signer = KeyOf[w]
    BY <2>1 DEF IInv, TypeOK
  <2>3. run[w].cmd \in Commits /\ run[w].parents = Tops(cache[w])
    BY <1>2, <2>1 DEF Kind, Settled
  <2>4. \A u \in cache[w] : version'[u] = version[u] /\ version[u].parents \subseteq DOMAIN version
    BY <1>2, <2>1 DEF VInv, Proper
  <2>5. v \notin DOMAIN version
    BY <2>1
  <2>6. Tops(cache[w])' = {v}
    BY <1>2, <2>2, <2>3, <2>4, <2>5 DEF Tops
  <2>7. Own(w)'
    BY <2>2 DEF Own
  <2>. QED
    BY <1>2, <1>3, <2>1, <2>3, <2>6, <2>7 DEF Settled, Known
<1>14. CASE SetRoot(w)
  <2>1. /\ run[w].pc = "setroot" /\ UNCHANGED <<version, cache, signing>>
        /\ root' = [root EXCEPT ![w] = IF run[w].parents = {} THEN run[w].sha
                                       ELSE IF run[w].cmd = "register" THEN run[w].pin ELSE @]
        /\ run'[w].pc = IF run[w].cmd = "register" THEN "push" ELSE "setkey"
        /\ run'[w].cmd = run[w].cmd /\ run'[w].sha = run[w].sha /\ run'[w].pin = run[w].pin
    BY <1>14, VersionGoesOn DEF SetRoot
  <2>2. run[w].parents = {} /\ run[w].cmd \in Commits => run[w].sha \in Roots /\ run[w].sha # None
    BY <1>2, <2>1, ConstantsAssumption DEF Given, Roots, IInv, TypeOK
  <2>3. root'[w] = IF run[w].parents = {} THEN run[w].sha
                   ELSE IF run[w].cmd = "register" THEN run[w].pin ELSE root[w]
    BY <2>1 DEF IInv, TypeOK
  <2>. QED
    BY <1>2, <1>3, <1>6, <2>1, <2>2, <2>3 DEF Settled, Known
<1>15. CASE SetSigningKey(w)
  <2>1. /\ run[w].pc = "setkey" /\ UNCHANGED <<version, cache, root>>
        /\ signing' = [signing EXCEPT ![w] = TRUE]
        /\ run'[w].pc = IF run[w].cmd = "register" THEN "sethead" ELSE "push"
        /\ run'[w].cmd = run[w].cmd /\ run'[w].sha = run[w].sha /\ run'[w].pin = run[w].pin
    BY <1>15, VersionGoesOn DEF SetSigningKey
  <2>2. signing'[w] = TRUE
    BY <2>1 DEF IInv, TypeOK
  <2>. QED
    BY <1>2, <1>3, <1>6, <2>1, <2>2 DEF Settled, Known
<1>16. CASE RaiseSeen(w) \/ SetHead(w) \/ WriteConf(w) \/ WriteSecrets(w) \/ PushSite(w)
  <2>1. /\ run'[w].cmd = run[w].cmd /\ run'[w].sha = run[w].sha /\ run'[w].pin = run[w].pin
        /\ run[w].pc \in {"raise", "sethead", "writeconf", "writesec", "push"}
        /\ run'[w].pc = "push" => run[w].pc = "push"
        /\ run'[w].pc \in {"raise", "sethead", "setroot", "setkey", "writeconf", "writesec", "push",
                           "record"}
        /\ UNCHANGED <<version, cache>>
    BY <1>16, VersionGoesOn
  <2>2. UNCHANGED <<root, signing>>
    BY <1>16 DEF RaiseSeen, SetHead, WriteConf, WriteSecrets, PushSite, disk
  <2>. QED
    BY <1>2, <1>3, <1>6, <2>1, <2>2 DEF Settled, Known
<1>17. CASE Pushed(w)
  <2>1. UNCHANGED <<version, cache, root, signing>>
    BY <1>17 DEF Pushed, disk
  <2>2. CASE run' = [run EXCEPT ![w].pc = "apply", ![w].todo = run[w].hosts]
    <3>1. run'[w].pc = "apply" /\ run'[w].pin = run[w].pin /\ run'[w].cmd = run[w].cmd
      BY <1>2, <2>2 DEF Run
    <3>. QED
      BY <1>2, <1>3, <3>1 DEF Settled
  <2>. QED
    BY <1>5, <1>17, <2>2 DEF Pushed
<1>18. CASE ApplySite(w)
  <2>1. run'[w].pc = "apply" /\ run'[w].pin = run[w].pin /\ run'[w].cmd = run[w].cmd
    BY <1>2, <1>18 DEF ApplySite, Run
  <2>. QED
    BY <1>2, <1>3, <2>1 DEF Settled
<1>19. CASE Compare(w) \/ Choose(w)
  <2>1. /\ run'[w].cmd = run[w].cmd /\ run[w].pc \in {"compare", "choose"}
        /\ run'[w].pc \in {"record", "writeconf", "gather"}
    BY <1>19, CheckoutGoesOn
  <2>2. run[w].cmd \notin Commits
    BY <1>2, <2>1 DEF Kind, Commits, Applies
  <2>. QED
    BY <1>4, <2>1, <2>2
<1>20. CASE RecordPull(w) \/ Applied(w) \/ Stop(w)
  BY <1>5, <1>20 DEF RecordPull, Applied, Stop
<1>. QED
  BY <1>7, <1>8, <1>9, <1>10, <1>11, <1>12, <1>13, <1>14, <1>15, <1>16, <1>17, <1>18, <1>19, <1>20
     DEF Command

LEMMA NextPInv == IInv /\ KInv /\ VInv /\ PInv /\ Peaceful /\ [Next]_vars => PInv'
<1>. SUFFICES ASSUME IInv, KInv, VInv, PInv, Peaceful, [Next]_vars PROVE PInv'
  OBVIOUS
<1>1. ASSUME NEW w \in Workstations, Command(w) PROVE PInv'
  BY <1>1, CommandPInv
<1>2. ASSUME UNCHANGED <<version, run, cache, root, signing>> PROVE PInv'
  BY <1>2 DEF PInv, Settled, Known, Own, Tops
<1>3. ASSUME NEW w \in Workstations, Lose(w) PROVE PInv'
  <2>1. /\ run[w].pc = "idle" /\ UNCHANGED <<version, run>>
        /\ \A u \in Workstations \ {w} : /\ cache'[u] = cache[u] /\ root'[u] = root[u]
                                         /\ signing'[u] = signing[u]
    BY <1>3 DEF Lose, IInv, TypeOK
  <2>2. \A u \in Workstations \ {w} : Settled(u)'
    BY <2>1, SettledStays DEF PInv
  <2>3. run[w] = Idle
    BY <2>1 DEF IInv, RunSound, Sound
  <2>4. Settled(w)'
    BY <2>1, <2>3 DEF Settled, Idle, Commits, Applies
  <2>. QED
    BY <2>2, <2>4 DEF PInv
<1>. QED
  BY <1>1, <1>2, <1>3 DEF Next, vars, disk, SiteLoses, SiteSync, Edit

(* While no version removes an operator's key and only one was committed   *)
(* on nothing, the version a command pushes is the one head of the cache it *)
(* is pushed with: for the workstation that pushes it, and for any that     *)
(* pins the root (Parents and CheckSigner against Judge).                  *)
THEOREM PublishedIsTheHead ==
    Spec /\ []Peaceful => [](HeadForAll /\ PublishedIsHead)
<1>1. Spec => []VInv
  BY InitVInv, NextVInv, Inductive, Kinds, PTL DEF Spec
<1>2. Spec /\ []Peaceful => []PInv
  BY <1>1, InitPInv, NextPInv, Inductive, Kinds, PTL DEF Spec
<1>3. ASSUME IInv, KInv, VInv, PInv, Peaceful PROVE HeadForAll
  <2>1. SUFFICES ASSUME NEW w \in Workstations, run[w].pc = "push",
                        NEW a \in {Anchor(w, run[w].cmd, None)}
                                  \cup {[signer |-> NoKey, root |-> r] : r \in Roots \cap cache[w]}
                 PROVE  Judged(cache[w], a).heads = {run[w].sha}
    BY DEF HeadForAll
  <2>2. run[w].cmd \in Commits /\ Given(w)
    BY <1>3, <2>1 DEF KInv, Kind, VInv
  <2>3. /\ Tops(cache[w]) = {run[w].sha} /\ Known(w)
        /\ signing[w] \/ run[w].cmd = "register"
    BY <1>3, <2>1, <2>2 DEF PInv, Settled
  <2>4. cache[w] # {} /\ KeyOf[w] # NoKey /\ None \notin Roots
    <3>1. run[w].sha \in cache[w]
      BY <2>3 DEF Tops
    <3>2. None \notin DOMAIN version
      BY <1>3, ConstantsAssumption DEF IInv, TypeOK
    <3>3. KeyOf[w] \in Keys /\ NoKey \notin Keys
      BY <2>1, ConstantsAssumption
    <3>. QED
      BY <3>1, <3>2, <3>3 DEF Roots
  <2>5. /\ a.root \in {None} \cup Roots
        /\ a.root # None \/ (a.signer # NoKey /\ \E v \in cache[w] : version[v].signer = a.signer)
    <3>1. CASE a = Anchor(w, run[w].cmd, None)
      BY <2>2, <2>3, <2>4, <3>1 DEF Anchor, Known, Own, Given
    <3>2. CASE \E r \in Roots \cap cache[w] : a = [signer |-> NoKey, root |-> r]
      BY <2>4, <3>2
    <3>. QED
      BY <2>1, <3>1, <3>2
  <2>6. At(Graph(cache[w]), a) # None
    BY <1>3, <2>4, <2>5, AnchoredAt DEF Peaceful
  <2>. QED
    BY <1>3, <2>3, <2>4, <2>6, PeacefulJudge DEF Judged
<1>4. HeadForAll => PublishedIsHead
  BY DEF PublishedIsHead
<1>. QED
  BY <1>1, <1>2, <1>3, <1>4, Inductive, Kinds, PTL

-----------------------------------------------------------------------------
(* What an operator signed is remembered, while no operator types rollback  *)
(* and no workstation is lost.                                             *)
OneKeyEach == \A u, w \in Workstations : KeyOf[u] = KeyOf[w] => u = w
NoneLowered == \A w \in Workstations : ~run[w].change.lower
Unforced == Peaceful /\ NoneLowered

(* v can be found at some site, or on a workstation other than w. *)
Abroad(w, v) == \/ \E s \in Sites : v \in store[s]
                \/ \E u \in Workstations \ {w} : v \in cache[u]

Remembered(w) ==
    \A v \in DOMAIN version :
        version[v].signer = KeyOf[w] /\ Abroad(w, v) => version[v].rev <= seen[w].rev

(* A command that commits has seen all its cache holds before it writes:   *)
(* what it gathered once it is recorded, and what it made once it is       *)
(* raised.                                                                 *)
Caught(w) ==
    run[w].cmd \in Commits => \A v \in cache[w] :
        /\ run[w].pc \in {"review", "prepare", "attest"} =>
               version[v].rev <= AfterRecordSeen(w).rev
        /\ \/ run[w].pc \in {"commit", "sethead", "setroot", "setkey", "writeconf", "writesec", "push"}
           \/ run[w].pc = "raise" /\ v # run[w].sha
           => version[v].rev <= seen[w].rev

OInv == \A w \in Workstations : Remembered(w) /\ Caught(w)

LEMMA InitOInv == Init => OInv
<1>. SUFFICES ASSUME Init PROVE OInv
  OBVIOUS
<1>1. DOMAIN version = {} /\ \A w \in Workstations : run[w].cmd = "none"
  BY DEF Init, Idle
<1>. QED
  BY <1>1 DEF OInv, Remembered, Caught, Commits, Applies

LEMMA RecordRises ==
    ASSUME IInv, NoneLowered, NEW w \in Workstations
    PROVE  /\ seen[w].rev \in Nat /\ AfterRecordSeen(w).rev \in Nat
           /\ seen[w].rev <= AfterRecordSeen(w).rev
           /\ run[w].change.id # None => run[w].change.rev <= AfterRecordSeen(w).rev
           /\ run[w].change.id = None => AfterRecordSeen(w) = seen[w]
<1>1. seen[w].rev \in 0..MaxVersions /\ run[w].change.rev \in 0..MaxVersions
  BY DEF IInv, TypeOK, Seen, Run, Change
<1>2. MaxVersions \in Nat /\ ~run[w].change.lower
  BY ConstantsAssumption DEF NoneLowered
<1>. QED
  BY <1>1, <1>2 DEF AfterRecordSeen, Raise

LEMMA SeenRises ==
    ASSUME IInv, NoneLowered, NEW w \in Workstations, Command(w)
    PROVE  /\ \A u \in Workstations : seen[u].rev <= seen'[u].rev
           /\ \A u \in Workstations \ {w} : seen'[u] = seen[u]
           /\ Prepare(w) \/ Attest(w) => seen'[w] = AfterRecordSeen(w)
           /\ RaiseSeen(w) => version[run[w].sha].rev <= seen'[w].rev
<1>1. \A u \in Workstations : seen[u].rev \in Nat
  BY RecordRises
<1>2. seen \in [Workstations -> Seen]
  BY DEF IInv, TypeOK
<1>3. ASSUME UNCHANGED seen, ~Prepare(w), ~Attest(w), ~RaiseSeen(w)
      PROVE  /\ \A u \in Workstations : seen[u].rev <= seen'[u].rev
             /\ \A u \in Workstations \ {w} : seen'[u] = seen[u]
             /\ Prepare(w) \/ Attest(w) => seen'[w] = AfterRecordSeen(w)
             /\ RaiseSeen(w) => version[run[w].sha].rev <= seen'[w].rev
  BY <1>1, <1>3
<1>4. RaiseSeen(w) => run[w].pc = "raise" /\ ~Prepare(w) /\ ~Attest(w)
  BY DEF RaiseSeen, Prepare, Attest
<1>5. CASE RaiseSeen(w)
  <2>1. run[w].sha \in DOMAIN version
    BY <1>4, <1>5 DEF IInv, TypeOK, RunSound, Sound, WithVersion
  <2>2. version[run[w].sha].rev \in Nat
    BY <2>1, RevIsNat
  <2>3. seen' = [seen EXCEPT ![w] = Raise(@, version[run[w].sha].rev, run[w].sha)]
    BY <1>5 DEF RaiseSeen
  <2>. QED
    BY <1>1, <1>2, <1>4, <1>5, <2>2, <2>3 DEF Raise
<1>6. ASSUME seen' = [seen EXCEPT ![w] = AfterRecordSeen(w)]
      PROVE  /\ \A u \in Workstations : seen[u].rev <= seen'[u].rev
             /\ \A u \in Workstations \ {w} : seen'[u] = seen[u]
             /\ seen'[w] = AfterRecordSeen(w)
  BY <1>1, <1>2, <1>6, RecordRises
<1>7. CASE Prepare(w) \/ Attest(w) \/ RecordPull(w)
  <2>1. seen' = [seen EXCEPT ![w] = AfterRecordSeen(w)]
    BY <1>7, PrepareGoesOn, AttestGoesOn DEF RecordPull
  <2>2. ~RaiseSeen(w)
    BY <1>7 DEF Prepare, Attest, RecordPull, RaiseSeen
  <2>. QED
    BY <1>6, <2>1, <2>2
<1>8. CASE ~(RaiseSeen(w) \/ Prepare(w) \/ Attest(w) \/ RecordPull(w))
  <2>1. UNCHANGED seen
    BY <1>8 DEF Command, StartPublish, StartPull, StartRegister, StartApply, StartRecover, Begin, AskSite,
       JudgeGathered, Commit, SetHead, SetRoot, SetSigningKey, PushSite,
       Pushed, Review, ApplySite, Applied, Compare, Choose, WriteConf, WriteSecrets, Stop, disk
  <2>. QED
    BY <1>3, <1>8, <2>1
<1>. QED
  BY <1>5, <1>7, <1>8

(* What a step puts where it was not.                                      *)
LEMMA CommandRemembered ==
    ASSUME IInv, KInv, OInv, OneKeyEach, NoneLowered, NEW w \in Workstations, Command(w)
    PROVE  \A u \in Workstations : Remembered(u)'
<1>1. /\ \A v \in DOMAIN version : v \in DOMAIN version' /\ version'[v] = version[v]
      /\ \A u \in Workstations : seen[u].rev <= seen'[u].rev
      /\ \A u \in Workstations : seen[u].rev \in Nat /\ seen'[u].rev \in Nat
  <2>1. \A u \in Workstations : seen[u].rev \in Nat
    BY RecordRises
  <2>2. IInv'
    BY NextIInv DEF Next
  <2>3. \A u \in Workstations : seen'[u].rev \in Nat
    BY <2>2, ConstantsAssumption DEF IInv, TypeOK, Seen
  <2>. QED
    BY <2>1, <2>3, CommandKeeps, SeenRises
<1>2. \A v \in DOMAIN version : version[v].rev \in Nat
  BY RevIsNat
<1>3. ASSUME NEW u \in Workstations, NEW v \in DOMAIN version,
             version[v].signer = KeyOf[u], Abroad(u, v)
      PROVE  version'[v].rev <= seen'[u].rev
  <2>1. version[v].rev <= seen[u].rev
    BY <1>3 DEF OInv, Remembered
  <2>. QED
    BY <1>1, <1>2, <2>1
<1>4. ASSUME UNCHANGED version,
             \A u \in Workstations, v \in DOMAIN version :
                 version[v].signer = KeyOf[u] /\ Abroad(u, v)' =>
                     Abroad(u, v) \/ version[v].rev <= seen[u].rev
      PROVE  \A u \in Workstations : Remembered(u)'
  <2>. SUFFICES ASSUME NEW u \in Workstations, NEW v \in DOMAIN version,
                       version[v].signer = KeyOf[u], Abroad(u, v)'
                PROVE  version'[v].rev <= seen'[u].rev
    BY <1>4 DEF Remembered
  <2>1. CASE Abroad(u, v)
    BY <1>3, <2>1
  <2>2. CASE version[v].rev <= seen[u].rev
    BY <1>1, <1>2, <2>2
  <2>. QED
    BY <1>4, <2>1, <2>2
<1>5. CASE AskSite(w)
  <2>1. PICK s \in Sites : /\ cache' = [cache EXCEPT ![w] = @ \cup store[s]] \/ UNCHANGED cache
                           /\ UNCHANGED <<version, store>>
    BY <1>5 DEF AskSite
  <2>2. \A u \in Workstations : cache'[u] \subseteq cache[u] \cup store[s]
    BY <2>1 DEF IInv, TypeOK
  <2>. QED
    BY <1>4, <2>1, <2>2 DEF Abroad
<1>6. CASE PushSite(w)
  <2>1. run[w].pc = "push" /\ UNCHANGED <<version, cache>>
    BY <1>6 DEF PushSite
  <2>2. PICK s \in Sites : store' = [store EXCEPT ![s] = @ \cup cache[w]] \/ UNCHANGED store
    BY <1>6 DEF PushSite
  <2>3. \A t \in Sites : store'[t] \subseteq store[t] \cup cache[w]
    BY <2>2 DEF IInv, TypeOK
  <2>4. \A v \in cache[w] : version[v].rev <= seen[w].rev
    BY <2>1 DEF OInv, Caught, KInv, Kind
  <2>5. \A u \in Workstations \ {w} : \A v \in cache[w] : Abroad(u, v)
    BY DEF Abroad
  <2>6. ASSUME NEW u \in Workstations, NEW v \in DOMAIN version, Abroad(u, v)'
        PROVE  Abroad(u, v) \/ version[v].rev <= seen[u].rev
    <3>1. Abroad(u, v) \/ v \in cache[w]
      BY <2>1, <2>3, <2>6 DEF Abroad
    <3>. QED
      BY <2>4, <2>5, <3>1
  <2>. QED
    BY <1>4, <2>1, <2>6
<1>7. CASE Commit(w)
  <2>1. PICK v \in Ids \ DOMAIN version, rev \in 1..MaxVersions :
              /\ DOMAIN version' = DOMAIN version \cup {v}
              /\ version'[v] = [parents |-> run[w].parents, rev |-> rev, signer |-> KeyOf[w],
                                files |-> run[w].files, from |-> run[w].from,
                                merge |-> run[w].cmd = "merge"]
              /\ \A u \in DOMAIN version : version'[u] = version[u]
              /\ cache' = [cache EXCEPT ![w] = @ \cup {v}]
              /\ UNCHANGED store
    BY <1>7, CommitGoesOn
  <2>2. /\ \A u \in Workstations \ {w} : cache'[u] = cache[u]
        /\ cache'[w] = cache[w] \cup {v}
        /\ \A s \in Sites : store[s] \subseteq DOMAIN version
        /\ \A u \in Workstations : cache[u] \subseteq DOMAIN version
        /\ version'[v].signer = KeyOf[w] /\ v \notin DOMAIN version
    BY <2>1 DEF IInv, TypeOK
  <2>3. ASSUME NEW u \in Workstations, NEW x \in DOMAIN version',
               version'[x].signer = KeyOf[u], Abroad(u, x)'
        PROVE  version'[x].rev <= seen'[u].rev
    <3>1. CASE x = v
      <4>1. u = w
        BY <2>2, <2>3, <3>1 DEF OneKeyEach
      <4>2. ~Abroad(u, x)'
        BY <2>1, <2>2, <3>1, <4>1 DEF Abroad
      <4>. QED
        BY <2>3, <4>2
    <3>2. CASE x # v
      <4>1. x \in DOMAIN version /\ version[x].signer = KeyOf[u]
        BY <2>1, <2>3, <3>2
      <4>2. Abroad(u, x)
        BY <2>1, <2>2, <2>3, <3>2 DEF Abroad
      <4>. QED
        BY <1>3, <4>1, <4>2
    <3>. QED
      BY <3>1, <3>2
  <2>. QED
    BY <2>3 DEF Remembered
<1>8. CASE ~(AskSite(w) \/ PushSite(w) \/ Commit(w))
  <2>1. UNCHANGED <<version, store, cache>>
    BY <1>8 DEF Command, StartPublish, StartPull, StartRegister, StartApply, StartRecover, Begin,
       JudgeGathered, Prepare, Attest, RaiseSeen, SetHead, SetRoot, SetSigningKey,
       Pushed, Review, ApplySite, Applied, Compare, Choose, WriteConf, WriteSecrets, RecordPull, Stop
  <2>. QED
    BY <1>4, <2>1 DEF Abroad
<1>. QED
  BY <1>5, <1>6, <1>7, <1>8

LEMMA CaughtStays ==
    ASSUME IInv, NEW u \in Workstations, Caught(u),
           run'[u] = run[u], cache'[u] = cache[u], seen'[u] = seen[u],
           \A v \in DOMAIN version : v \in DOMAIN version' /\ version'[v] = version[v]
    PROVE  Caught(u)'
<1>1. cache[u] \subseteq DOMAIN version
  BY DEF IInv, TypeOK
<1>2. AfterRecordSeen(u)' = AfterRecordSeen(u)
  BY DEF AfterRecordSeen
<1>. QED
  BY <1>1, <1>2 DEF Caught

(* What a verdict says to record is the newest version of the cache.       *)
LEMMA NewestIsSeen ==
    ASSUME IInv, VInv, Peaceful, NEW w \in Workstations, JudgeGathered(w), cache[w] # {}
    PROVE  \E top \in cache[w] :
              /\ run'[w].change = SeenFrom(w, top)
              /\ \A v \in cache[w] : version[v].rev <= version[top].rev
<1>1. /\ Verdict(w).ok
      /\ Verdict(w).heads # {} =>
            \E top \in Verdict(w).heads :
               IsFirst(version, Verdict(w).heads, top) /\ run'[w].change = SeenFrom(w, top)
  BY JudgeGoesOn
<1>2. Verdict(w).heads = Tops(cache[w])
  BY <1>1, PeacefulVerdict
<1>3. PICK m \in Tops(cache[w]) : \A u \in cache[w] : version[u].rev <= version[m].rev
  BY NewestIsTop
<1>4. PICK top \in Tops(cache[w]) :
          IsFirst(version, Tops(cache[w]), top) /\ run'[w].change = SeenFrom(w, top)
  BY <1>1, <1>2, <1>3
<1>5. top \in cache[w] /\ m \in cache[w]
  BY DEF Tops
<1>6. \A u \in cache[w] : version[u].rev \in Nat
  BY RevIsNat DEF IInv, TypeOK
<1>7. version[m].rev < version[top].rev \/ version[m].rev = version[top].rev
  BY <1>3, <1>4 DEF IsFirst
<1>. QED
  BY <1>3, <1>4, <1>5, <1>6, <1>7

(* What a gather found is what its verdict says to record.                 *)
LEMMA GatherCatches ==
    ASSUME IInv, VInv, Peaceful, NoneLowered', NEW w \in Workstations, JudgeGathered(w)
    PROVE  \A v \in cache[w] : version[v].rev <= (AfterRecordSeen(w).rev)'
<1>1. UNCHANGED <<version, cache, seen>>
  BY JudgeGoesOn DEF disk
<1>. SUFFICES ASSUME NEW v \in cache[w] PROVE version[v].rev <= (AfterRecordSeen(w).rev)'
  OBVIOUS
<1>4. PICK top \in cache[w] : /\ run'[w].change = SeenFrom(w, top)
                              /\ \A u \in cache[w] : version[u].rev <= version[top].rev
  BY NewestIsSeen
<1>6. /\ version[v].rev \in Nat /\ version[top].rev \in Nat
      /\ top # None /\ seen[w].rev \in Nat
  <2>1. v \in DOMAIN version /\ top \in DOMAIN version
    BY <1>4 DEF IInv, TypeOK
  <2>2. top # None /\ seen[w].rev \in 0..MaxVersions
    BY <2>1, ConstantsAssumption DEF IInv, TypeOK, Seen
  <2>. QED
    BY <2>1, <2>2, RevIsNat, ConstantsAssumption
<1>7. ~run'[w].change.lower
  BY DEF NoneLowered
<1>8. (AfterRecordSeen(w).rev)' = version[top].rev
  <2>1. CASE version[top].rev = seen[w].rev
    <3>1. run'[w].change = NoChange
      BY <1>4, <2>1 DEF SeenFrom
    <3>. QED
      BY <1>1, <2>1, <3>1 DEF NoChange, AfterRecordSeen
  <2>2. CASE version[top].rev # seen[w].rev
    <3>1. run'[w].change = [rev |-> version[top].rev, id |-> top,
                            lower |-> version[top].rev < seen[w].rev]
      BY <1>4, <2>2 DEF SeenFrom
    <3>2. /\ run'[w].change.rev = version[top].rev /\ run'[w].change.id = top
          /\ run'[w].change.lower = (version[top].rev < seen[w].rev)
      BY <3>1
    <3>3. seen[w].rev < version[top].rev
      <4>1. ASSUME version[top].rev < seen[w].rev PROVE FALSE
        <5>1. (version[top].rev < seen[w].rev) = TRUE
          BY <4>1
        <5>2. run'[w].change.lower = TRUE
          BY <3>2, <5>1, Zenon
        <5>. QED
          BY <1>7, <5>2
      <4>. QED
        BY <1>6, <2>2, <4>1
    <3>4. AfterRecordSeen(w)' = Raise(seen[w], version[top].rev, top)
      BY <1>1, <1>6, <1>7, <3>2 DEF AfterRecordSeen
    <3>. QED
      BY <1>6, <3>3, <3>4 DEF Raise
  <2>. QED
    BY <2>1, <2>2
<1>. QED
  BY <1>4, <1>6, <1>8

LEMMA CommandCaught ==
    ASSUME IInv, KInv, VInv, OInv, Peaceful, NoneLowered, NoneLowered',
           NEW w \in Workstations, Command(w)
    PROVE  \A u \in Workstations : Caught(u)'
<1>1. /\ \A u \in Workstations \ {w} : /\ run'[u] = run[u] /\ cache'[u] = cache[u]
                                       /\ seen'[u] = seen[u]
      /\ \A v \in DOMAIN version : v \in DOMAIN version' /\ version'[v] = version[v]
  BY CommandKeeps, SeenRises DEF Elsewhere
<1>2. /\ run \in [Workstations -> Run] /\ run[w] \in Run /\ Kind(w) /\ Caught(w)
      /\ cache[w] \subseteq DOMAIN version
  BY DEF IInv, TypeOK, KInv, OInv
<1>3. ASSUME Caught(w)' PROVE \A u \in Workstations : Caught(u)'
  <2>1. \A u \in Workstations \ {w} : Caught(u)'
    BY <1>1, CaughtStays DEF OInv
  <2>. QED
    BY <1>3, <2>1
<1>4. /\ \A v \in DOMAIN version : version[v].rev \in Nat /\ version'[v].rev = version[v].rev
      /\ seen[w].rev \in Nat /\ seen[w].rev <= seen'[w].rev
      /\ AfterRecordSeen(w).rev \in Nat
  BY <1>1, RevIsNat, RecordRises, SeenRises
<1>5. seen'[w].rev \in Nat
  <2>1. IInv'
    BY NextIInv DEF Next
  <2>. QED
    BY <2>1, ConstantsAssumption DEF IInv, TypeOK, Seen
<1>6. ASSUME End(w) PROVE \A u \in Workstations : Caught(u)'
  <2>1. run'[w] = Idle
    BY <1>2, <1>6 DEF End
  <2>2. run'[w].cmd = "none"
    BY <2>1 DEF Idle
  <2>. QED
    BY <1>3, <2>2 DEF Caught, Commits, Applies
<1>7. CASE StartPublish(w) \/ StartPull(w) \/ StartRegister(w) \/ StartApply(w) \/ StartRecover(w)
  <2>1. run'[w].pc = "gather"
    BY <1>7, StartsWith
  <2>. QED
    BY <1>3, <2>1 DEF Caught
<1>8. CASE AskSite(w)
  <2>1. run'[w].pc = "gather"
    BY <1>2, <1>8 DEF AskSite, Run
  <2>. QED
    BY <1>3, <2>1 DEF Caught
<1>9. CASE JudgeGathered(w)
  <2>1. run'[w].pc = AfterGather(w) /\ UNCHANGED <<version, cache>>
    BY <1>9, JudgeGoesOn
  <2>2. AfterGather(w) \in {"compare", "attest", "choose", "review", "prepare"}
    BY DEF AfterGather
  <2>3. \A v \in cache[w] : version[v].rev <= (AfterRecordSeen(w).rev)'
    BY <1>9, GatherCatches
  <2>. QED
    BY <1>3, <2>1, <2>2, <2>3 DEF Caught
<1>10. CASE Review(w)
  <2>1. /\ run[w].pc = "review" /\ run'[w].pc = "prepare" /\ run'[w].cmd = run[w].cmd
        /\ run'[w].change = run[w].change /\ UNCHANGED <<version, cache, seen>>
    BY <1>10, ReviewGoesOn DEF disk
  <2>2. AfterRecordSeen(w)' = AfterRecordSeen(w)
    BY <2>1 DEF AfterRecordSeen
  <2>. QED
    BY <1>2, <1>3, <2>1, <2>2 DEF Caught
<1>11. CASE Prepare(w)
  <2>1. /\ run[w].pc = "prepare" /\ run'[w].pc \in {"commit", "sethead"}
        /\ run'[w].cmd = run[w].cmd /\ UNCHANGED <<version, cache>>
    BY <1>11, PrepareGoesOn
  <2>2. seen'[w] = AfterRecordSeen(w)
    BY <1>11, SeenRises
  <2>. QED
    BY <1>2, <1>3, <2>1, <2>2 DEF Caught
<1>12. CASE Attest(w)
  <2>1. /\ run[w].pc = "attest" /\ run'[w].pc \in {"commit", "writeconf", "setkey"}
        /\ run'[w].cmd = run[w].cmd /\ UNCHANGED <<version, cache>>
    BY <1>12, AttestGoesOn
  <2>2. seen'[w] = AfterRecordSeen(w)
    BY <1>12, SeenRises
  <2>. QED
    BY <1>2, <1>3, <2>1, <2>2 DEF Caught
<1>13. CASE Commit(w)
  <2>1. PICK v \in Ids \ DOMAIN version, rev \in 1..MaxVersions :
              /\ run[w].pc = "commit" /\ run'[w].pc = "raise" /\ run'[w].sha = v
              /\ cache' = [cache EXCEPT ![w] = @ \cup {v}]
              /\ run'[w].cmd = run[w].cmd /\ UNCHANGED seen
    BY <1>13, CommitGoesOn
  <2>2. cache'[w] = cache[w] \cup {v}
    BY <2>1 DEF IInv, TypeOK
  <2>. QED
    BY <1>2, <1>3, <1>4, <2>1, <2>2 DEF Caught
<1>14. CASE RaiseSeen(w)
  <2>1. /\ run[w].pc = "raise" /\ run'[w].cmd = run[w].cmd /\ UNCHANGED <<version, cache>>
        /\ run'[w].pc \in {"sethead", "writeconf", "setkey"}
        /\ version[run[w].sha].rev <= seen'[w].rev
    BY <1>14, VersionGoesOn, SeenRises
  <2>2. ASSUME NEW v \in cache[w], run[w].cmd \in Commits PROVE version[v].rev <= seen'[w].rev
    <3>1. v # run[w].sha => version[v].rev <= seen[w].rev
      BY <1>2, <2>1, <2>2 DEF Caught
    <3>. QED
      BY <1>2, <1>4, <1>5, <2>1, <3>1
  <2>. QED
    BY <1>3, <2>1, <2>2 DEF Caught
<1>15. CASE SetHead(w) \/ SetRoot(w) \/ SetSigningKey(w) \/ WriteConf(w) \/ WriteSecrets(w) \/ PushSite(w)
  <2>1. /\ run'[w].cmd = run[w].cmd /\ UNCHANGED <<version, cache>>
        /\ run[w].pc \in {"sethead", "setroot", "setkey", "writeconf", "writesec", "push"}
        /\ run'[w].pc \in {"sethead", "setroot", "setkey", "writeconf", "writesec", "push", "record"}
    BY <1>15, VersionGoesOn DEF SetHead, SetRoot, SetSigningKey, WriteConf, WriteSecrets, PushSite
  <2>2. ASSUME NEW v \in cache[w], run[w].cmd \in Commits PROVE version[v].rev <= seen'[w].rev
    <3>1. version[v].rev <= seen[w].rev
      BY <1>2, <2>1, <2>2 DEF Caught
    <3>. QED
      BY <1>2, <1>4, <1>5, <3>1
  <2>. QED
    BY <1>3, <2>1, <2>2 DEF Caught
<1>16. CASE Pushed(w)
  <2>1. CASE run' = [run EXCEPT ![w].pc = "apply", ![w].todo = run[w].hosts]
    <3>1. run'[w].pc = "apply"
      BY <1>2, <2>1 DEF Run
    <3>. QED
      BY <1>3, <3>1 DEF Caught
  <2>. QED
    BY <1>6, <1>16, <2>1 DEF Pushed
<1>17. CASE ApplySite(w)
  <2>1. run'[w].pc = "apply"
    BY <1>2, <1>17 DEF ApplySite, Run
  <2>. QED
    BY <1>3, <2>1 DEF Caught
<1>18. CASE Compare(w) \/ Choose(w)
  <2>1. run'[w].cmd = run[w].cmd /\ run[w].pc \in {"compare", "choose"}
    BY <1>18, CheckoutGoesOn
  <2>2. run'[w].cmd \notin Commits
    BY <1>2, <2>1 DEF Kind, Commits, Applies
  <2>. QED
    BY <1>3, <2>2 DEF Caught
<1>19. CASE RecordPull(w) \/ Applied(w) \/ Stop(w)
  BY <1>6, <1>19 DEF RecordPull, Applied, Stop
<1>. QED
  BY <1>7, <1>8, <1>9, <1>10, <1>11, <1>12, <1>13, <1>14, <1>15, <1>16, <1>17, <1>18, <1>19
     DEF Command

LEMMA NextOInv ==
    OneKeyEach /\ "workstation" \notin Mishaps /\ IInv /\ KInv /\ VInv /\ OInv
      /\ Unforced /\ Unforced' /\ [Next]_vars => OInv'
<1>. SUFFICES ASSUME OneKeyEach, "workstation" \notin Mishaps, IInv, KInv, VInv, OInv,
                     Unforced, Unforced', [Next]_vars
              PROVE  OInv'
  OBVIOUS
<1>1. ASSUME NEW w \in Workstations, Command(w) PROVE OInv'
  <2>1. Peaceful /\ NoneLowered /\ NoneLowered'
    BY DEF Unforced
  <2>. QED
    BY <1>1, <2>1, CommandRemembered, CommandCaught DEF OInv
<1>2. ASSUME UNCHANGED <<version, run, seen>>,
             \A u \in Workstations : cache'[u] \subseteq cache[u],
             \A u \in Workstations, v \in DOMAIN version : Abroad(u, v)' => Abroad(u, v)
      PROVE  OInv'
  <2>1. \A u \in Workstations : Remembered(u)'
    BY <1>2 DEF OInv, Remembered
  <2>2. \A u \in Workstations : Caught(u)'
    BY <1>2 DEF OInv, Caught, AfterRecordSeen
  <2>. QED
    BY <2>1, <2>2 DEF OInv
<1>3. ASSUME NEW w \in Workstations, Lose(w) PROVE OInv'
  <2>1. /\ UNCHANGED <<version, run, store>>
        /\ cache' \in {cache, [cache EXCEPT ![w] = {}]}
    BY <1>3 DEF Lose
  <2>2. seen' = seen
    <3>1. PICK what \in {"workstation", "cache", "files"} :
              /\ Mishap(what)
              /\ seen' = IF what \in {"workstation"} THEN [seen EXCEPT ![w] = Unseen] ELSE seen
      BY <1>3 DEF Lose
    <3>. QED
      BY <3>1 DEF Mishap
  <2>3. \A u \in Workstations : cache'[u] \subseteq cache[u]
    BY <2>1 DEF IInv, TypeOK
  <2>. QED
    BY <1>2, <2>1, <2>2, <2>3 DEF Abroad
<1>4. ASSUME NEW w \in Workstations, Edit(w) PROVE OInv'
  BY <1>2, <1>4 DEF Edit, Abroad
<1>5. ASSUME NEW s \in Sites, SiteLoses(s) PROVE OInv'
  <2>1. UNCHANGED <<version, run, seen, cache>> /\ \A t \in Sites : store'[t] \subseteq store[t]
    BY <1>5 DEF SiteLoses, disk, IInv, TypeOK
  <2>. QED
    BY <1>2, <2>1 DEF Abroad
<1>6. ASSUME NEW s \in Sites, NEW t \in Sites, SiteSync(s, t) PROVE OInv'
  <2>1. /\ UNCHANGED <<version, run, seen, cache>>
        /\ \A x \in Sites : store'[x] \subseteq store[x] \cup store[t]
    BY <1>6 DEF SiteSync, disk, IInv, TypeOK
  <2>. QED
    BY <1>2, <2>1 DEF Abroad
<1>7. CASE UNCHANGED vars
  BY <1>2, <1>7 DEF vars, disk, Abroad
<1>. QED
  BY <1>1, <1>3, <1>4, <1>5, <1>6, <1>7 DEF Next

(* While no version removes an operator's key, only one was committed on    *)
(* nothing, and no operator types rollback or loses a workstation, whatever *)
(* an operator signed that a site holds is no newer than what the          *)
(* workstation has recorded as seen (raiseSeen before the push).           *)
THEOREM OwnSeen ==
    ASSUME OneKeyEach, "workstation" \notin Mishaps
    PROVE  Spec /\ []Unforced => []OwnIsSeen
<1>1. Spec => []VInv
  BY InitVInv, NextVInv, Inductive, Kinds, PTL DEF Spec
<1>2. IInv /\ KInv /\ VInv /\ OInv /\ Unforced /\ Unforced' /\ [Next]_vars => OInv'
  BY NextOInv
<1>3. Spec /\ []Unforced => []OInv
  BY <1>1, <1>2, InitOInv, Inductive, Kinds, PTL DEF Spec
<1>4. IInv /\ OInv => OwnIsSeen
  <2>. SUFFICES ASSUME IInv, OInv, NEW w \in Workstations, NEW s \in Sites, NEW v \in store[s],
                       version[v].signer = KeyOf[w]
                PROVE  version[v].rev <= seen[w].rev
    BY DEF OwnIsSeen
  <2>1. v \in DOMAIN version /\ Abroad(w, v)
    BY DEF IInv, TypeOK, Abroad
  <2>. QED
    BY <2>1 DEF OInv, Remembered
<1>. QED
  BY <1>3, <1>4, Inductive, PTL

-----------------------------------------------------------------------------
(* No version undoes one it is built on, where nothing was removed and no   *)
(* workstation loses what it has gathered.                                 *)
NothingForgotten == Mishaps \cap {"workstation", "cache"} = {}

(* u is v, or one of those v is built on. *)
Behind(u, v) == u = v \/ <<v, u>> \in Ancestry(version)

LEMMA VersionGraph ==
    ASSUME IInv PROVE GraphOK(version)
<1>1. DOMAIN version \subseteq 1..MaxVersions /\ 1..MaxVersions \subseteq Nat
  BY ConstantsAssumption DEF IInv, TypeOK, Ids
<1>2. IsFiniteSet(DOMAIN version)
  <2>1. IsFiniteSet(1..MaxVersions)
    BY ConstantsAssumption, FS_Interval
  <2>. QED
    BY <1>1, <2>1, FS_Subset
<1>3. None \notin DOMAIN version
  BY <1>1, ConstantsAssumption DEF Ids
<1>. QED
  BY <1>1, <1>2, <1>3, RevIsNat DEF GraphOK

LEMMA VersionGraphNext == IInv' => GraphOK(version)'
<1>1. IInv => GraphOK(version)
  BY VersionGraph
<1>. QED
  BY <1>1, PTL

LEMMA BehindStays ==
    ASSUME IInv, IInv', VInv, NEW v \in DOMAIN version, NEW u,
           \A x \in DOMAIN version : x \in DOMAIN version' /\ version'[x] = version[x]
    PROVE  Behind(u, v)' <=> Behind(u, v)
<1>1. GraphOK(version) /\ GraphOK(version')
  BY VersionGraph, VersionGraphNext
<1>2. Grows(version, version')
  BY DEF Grows, VInv, Proper
<1>3. <<v, u>> \in Ancestry(version') <=> <<v, u>> \in Ancestry(version)
  BY <1>1, <1>2, AncestryKept
<1>. QED
  BY <1>3 DEF Behind

LEMMA BehindOn ==
    ASSUME IInv, VInv, NEW v \in DOMAIN version, NEW p \in version[v].parents, NEW u, Behind(u, p)
    PROVE  Behind(u, v)
<1>1. IsFiniteSet(DOMAIN version)
  BY VersionGraph DEF GraphOK
<1>2. p \in DOMAIN version
  BY DEF VInv, Proper
<1>3. <<v, p>> \in Ancestry(version)
  BY <1>1, <1>2, AncestryHolds
<1>4. CASE u = p
  BY <1>3, <1>4 DEF Behind
<1>5. CASE <<p, u>> \in Ancestry(version)
  BY <1>1, <1>3, <1>5, AncestryTransitive DEF Behind
<1>. QED
  BY <1>4, <1>5 DEF Behind

(* Everything in a cache is behind one of its tops.                        *)
LEMMA UnderTops ==
    ASSUME IInv, VInv, NEW w \in Workstations, NEW v \in cache[w]
    PROVE  \E t \in Tops(cache[w]) : Behind(v, t)
<1>. DEFINE X == {x \in cache[w] : Behind(v, x)}
<1>1. cache[w] \subseteq DOMAIN version /\ GraphOK(version)
  BY VersionGraph DEF IInv, TypeOK
<1>2. v \in X /\ X \in SUBSET DOMAIN version
  BY <1>1 DEF Behind
<1>3. PICK x \in X : IsFirst(version, X, x)
  <2>. HIDE DEF X
  <2>. QED
    BY <1>1, <1>2, SomeIsFirst
<1>4. x \in cache[w] /\ Behind(v, x)
  BY <1>3
<1>5. ASSUME NEW u \in cache[w], x \in version[u].parents PROVE FALSE
  <2>1. u \in X
    BY <1>1, <1>4, <1>5, BehindOn
  <2>2. version[x].rev < version[u].rev
    BY <1>5, CacheIs
  <2>3. version[u].rev < version[x].rev \/ version[u].rev = version[x].rev
    BY <1>3, <2>1 DEF IsFirst
  <2>4. version[u].rev \in Nat /\ version[x].rev \in Nat
    BY <1>1, <1>4, <1>5, RevIsNat
  <2>. QED
    BY <2>2, <2>3, <2>4
<1>. QED
  BY <1>4, <1>5 DEF Tops

(* What a workstation's head is behind, step by step.                      *)
HeadBehind(w, v) == head[w] = None \/ Behind(head[w], v)

Based(w) ==
    /\ head[w] \in cache[w] \cup {None} /\ origin[w] \in cache[w] \cup {None}
    /\ Complete(w) => HeadBehind(w, origin[w])
    /\ run[w].pc \in {"gather", "review", "prepare"} /\ run[w].cmd \in Commits /\ run[w].files # None =>
           run[w].from \in DOMAIN version \cup {None} /\ HeadBehind(w, run[w].from)
    /\ run[w].pc = "commit" =>
           /\ run[w].cmd = "merge" \/ \A p \in run[w].parents : Behind(p, run[w].from)
           /\ run[w].from \in DOMAIN version \cup {None}
           /\ head[w] = None \/ \E p \in run[w].parents : Behind(head[w], p)
    /\ run[w].pc \in {"raise", "sethead", "setroot", "setkey", "writeconf", "writesec"} =>
           run[w].sha \in cache[w] /\ HeadBehind(w, run[w].sha)
    /\ run[w].pc \in {"raise", "sethead", "setroot", "setkey"} /\ Complete(w) =>
           Behind(run[w].sha, origin[w])

BInv == \A w \in Workstations : Based(w)

LEMMA InitBInv == Init => BInv
<1>. SUFFICES ASSUME Init PROVE BInv
  OBVIOUS
<1>1. \A w \in Workstations : head[w] = None /\ origin[w] = None /\ run[w].pc = "idle"
  BY DEF Init, Idle
<1>. QED
  BY <1>1 DEF BInv, Based, HeadBehind

LEMMA BasedStays ==
    ASSUME IInv, IInv', VInv, NEW u \in Workstations, Based(u),
           run'[u] = run[u], cache'[u] = cache[u], head'[u] = head[u], origin'[u] = origin[u],
           Complete(u)' => Complete(u),
           \A v \in DOMAIN version : v \in DOMAIN version' /\ version'[v] = version[v]
    PROVE  Based(u)'
<1>1. cache[u] \subseteq DOMAIN version /\ run[u].parents \subseteq DOMAIN version
  BY DEF IInv, TypeOK, RunSound, Sound
<1>2. \A v \in DOMAIN version : \A x : Behind(x, v)' <=> Behind(x, v)
  BY BehindStays
<1>3. \A x : Behind(x, None) <=> x = None
  <2>1. GraphOK(version)
    BY VersionGraph
  <2>. QED
    BY <2>1, AncestryHolds DEF Behind, GraphOK
<1>4. \A x : Behind(x, None)' <=> x = None
  <2>1. GraphOK(version')
    BY VersionGraphNext
  <2>. QED
    BY <2>1, AncestryHolds DEF Behind, GraphOK
<1>5. \A v \in DOMAIN version \cup {None} : \A x : Behind(x, v)' <=> Behind(x, v)
  BY <1>2, <1>3, <1>4
<1>. QED
  BY <1>1, <1>5 DEF Based, HeadBehind

LEMMA CommandBInv ==
    ASSUME IInv, IInv', KInv, VInv, PInv, BInv, NEW w \in Workstations, Command(w)
    PROVE  BInv'
<1>1. /\ \A u \in Workstations \ {w} :
              /\ run'[u] = run[u] /\ cache'[u] = cache[u] /\ files'[u] = files[u]
              /\ head'[u] = head[u] /\ origin'[u] = origin[u]
      /\ \A v \in DOMAIN version : v \in DOMAIN version' /\ version'[v] = version[v]
  <2>1. \A u \in Workstations \ {w} : head'[u] = head[u]
    BY DEF Command, StartPublish, StartPull, StartRegister, StartApply, StartRecover, Begin, AskSite,
       JudgeGathered, Prepare, Attest, Commit, RaiseSeen, SetHead, SetRoot, SetSigningKey, PushSite,
       Pushed, Review, ApplySite, Applied, Compare, Choose, WriteConf, WriteSecrets, RecordPull, Stop,
       disk, IInv, TypeOK
  <2>2. \A u \in Workstations \ {w} : origin'[u] = origin[u]
    <3>1. CASE Commit(w) \/ Attest(w) \/ WriteSecrets(w)
      <4>1. CASE Commit(w) \/ Attest(w)
        <5>1. origin' = [origin EXCEPT ![w] = origin'[w]]
          BY <4>1 DEF Commit, Attest, IInv, TypeOK
        <5>. QED
          BY <5>1 DEF IInv, TypeOK
      <4>3. CASE WriteSecrets(w)
        BY <4>3 DEF WriteSecrets, IInv, TypeOK
      <4>. QED
        BY <3>1, <4>1, <4>3
    <3>2. CASE ~(Commit(w) \/ Attest(w) \/ WriteSecrets(w))
      BY <3>2 DEF Command, StartPublish, StartPull, StartRegister, StartApply, StartRecover, Begin, AskSite,
         JudgeGathered, Prepare, RaiseSeen, SetHead, SetRoot, SetSigningKey, PushSite, Pushed,
         Review, ApplySite, Applied, Compare, Choose, WriteConf, RecordPull, Stop, disk
    <3>. QED
      BY <3>1, <3>2
  <2>. QED
    BY <2>1, <2>2, CommandKeeps DEF Elsewhere
<1>2. /\ run \in [Workstations -> Run] /\ run[w] \in Run /\ Kind(w) /\ Settled(w) /\ Based(w)
      /\ cache[w] \subseteq DOMAIN version /\ None \notin cache[w]
      /\ run[w].heads \subseteq cache[w] /\ run[w].parents \subseteq cache[w]
  BY CacheGraph DEF IInv, TypeOK, KInv, PInv, BInv, RunSound, Sound, GraphOK
<1>3. ASSUME Based(w)' PROVE BInv'
  <2>1. \A u \in Workstations \ {w} : Based(u)'
    BY <1>1, BasedStays DEF BInv, Complete
  <2>. QED
    BY <1>3, <2>1 DEF BInv
<1>4. ASSUME UNCHANGED <<version, head>> PROVE \A v : HeadBehind(w, v)' <=> HeadBehind(w, v)
  BY <1>4 DEF HeadBehind, Behind
<1>5. ASSUME UNCHANGED <<version, head, origin, files>>, cache[w] \subseteq cache'[w],
             run'[w].pc \in {"idle", "gather", "attest", "compare", "choose", "push", "apply", "record",
                             "review", "prepare"},
             run'[w].pc \in {"gather", "review", "prepare"} /\ run'[w].cmd \in Commits
                 /\ run'[w].files # None
               => run'[w].from \in DOMAIN version \cup {None} /\ HeadBehind(w, run'[w].from)
      PROVE  BInv'
  BY <1>2, <1>3, <1>4, <1>5 DEF Based, Complete
<1>6. ASSUME End(w), UNCHANGED <<version, head, origin, files, cache>> PROVE BInv'
  <2>1. run'[w].pc = "idle"
    BY <1>2, <1>6, IdleType DEF End
  <2>. QED
    BY <1>5, <1>6, <2>1
<1>7. CASE StartPublish(w) \/ StartPull(w) \/ StartRegister(w) \/ StartApply(w) \/ StartRecover(w)
  <2>1. /\ run'[w].pc = "gather" /\ UNCHANGED <<version, head, origin, files, cache>>
        /\ run'[w].cmd \in Applies => Complete(w) /\ run'[w].from = origin[w]
        /\ run'[w].cmd \in {"publish", "merge", "register"} => run'[w].files = None
    BY <1>7, StartsWith DEF disk, Applies
  <2>. QED
    BY <1>2, <1>5, <2>1 DEF Based, Commits
<1>8. CASE AskSite(w)
  <2>1. /\ run[w].pc = "gather" /\ run'[w].pc = "gather" /\ run'[w].cmd = run[w].cmd
        /\ run'[w].files = run[w].files /\ run'[w].from = run[w].from
        /\ UNCHANGED <<version, head, origin, files>> /\ cache[w] \subseteq cache'[w]
    BY <1>2, <1>8 DEF AskSite, Run, disk, IInv, TypeOK
  <2>. QED
    BY <1>2, <1>5, <2>1 DEF Based
<1>9. CASE JudgeGathered(w)
  <2>1. /\ run[w].pc = "gather" /\ run'[w].pc = AfterGather(w) /\ run'[w].cmd = run[w].cmd
        /\ run'[w].files = run[w].files /\ run'[w].from = run[w].from
        /\ UNCHANGED <<version, head, origin, files, cache>>
    BY <1>9, JudgeGoesOn DEF disk
  <2>2. AfterGather(w) \in {"compare", "attest", "choose", "review", "prepare"}
    BY DEF AfterGather
  <2>. QED
    BY <1>2, <1>5, <2>1, <2>2 DEF Based
<1>10. CASE Review(w)
  <2>1. /\ run[w].pc = "review" /\ run'[w].pc = "prepare" /\ run'[w].cmd = run[w].cmd
        /\ run'[w].files = run[w].files /\ run'[w].from = run[w].from
        /\ UNCHANGED <<version, head, origin, files, cache>>
    BY <1>10, ReviewGoesOn DEF disk
  <2>. QED
    BY <1>2, <1>5, <2>1 DEF Based
<1>11. CASE Prepare(w)
  <2>. DEFINE loaded == run[w].files # None
              from   == IF loaded THEN run[w].from ELSE origin[w]
              merge  == run[w].cmd = "merge"
  <2>1. /\ run[w].pc = "prepare" /\ ParentsGiven(w, merge) /\ (loaded \/ Complete(w))
        /\ run'[w].pc \in {"commit", "sethead"} /\ run'[w].cmd = run[w].cmd
        /\ run'[w].pc = "sethead" => run[w].heads = {head[w]} /\ run'[w].sha = head[w]
        /\ run'[w].parents = run[w].heads /\ run'[w].from = from
        /\ UNCHANGED <<version, head, origin, files, cache>>
    BY <1>11, PrepareGoesOn
  <2>2. run[w].cmd \in Commits
    BY <1>2, <2>1 DEF Kind, Commits
  <2>3. from \in DOMAIN version \cup {None} /\ HeadBehind(w, from)
    BY <1>2, <2>1, <2>2 DEF Based
  <2>. HIDE DEF from, loaded
  <2>4. CASE run'[w].pc = "commit"
    <3>1. merge \/ \A p \in run[w].heads : Behind(p, from)
      <4>1. CASE merge
        BY <4>1
      <4>2. CASE ~merge /\ run[w].heads = {}
        BY <4>2
      <4>3. CASE ~merge /\ run[w].heads = {head[w]}
        BY <1>2, <2>3, <4>3 DEF HeadBehind
      <4>. QED
        BY <2>1, <4>1, <4>2, <4>3 DEF ParentsGiven
    <3>2. head[w] = None \/ \E p \in run[w].heads : Behind(head[w], p)
      <4>1. CASE run[w].heads = {} /\ head[w] = None
        BY <4>1
      <4>2. CASE head[w] \in cache[w]
        BY <1>2, <2>1, <4>2, UnderTops DEF Settled
      <4>. QED
        BY <1>2, <4>1, <4>2 DEF Based
    <3>3. /\ \A p, v : Behind(p, v)' <=> Behind(p, v)
          /\ \A v : HeadBehind(w, v)' <=> HeadBehind(w, v)
          /\ Complete(w)' <=> Complete(w)
      BY <2>1 DEF Behind, HeadBehind, Complete
    <3>. QED
      BY <1>2, <1>3, <2>1, <2>3, <2>4, <3>1, <3>2, <3>3 DEF Based
  <2>5. CASE run'[w].pc = "sethead"
    <3>1. head[w] \in cache[w] /\ run'[w].sha = head[w]
      BY <1>2, <2>1, <2>5
    <3>2. /\ \A p, v : Behind(p, v)' <=> Behind(p, v)
          /\ \A v : HeadBehind(w, v)' <=> HeadBehind(w, v)
          /\ Complete(w)' <=> Complete(w)
      BY <2>1 DEF Behind, HeadBehind, Complete
    <3>3. HeadBehind(w, head[w])
      BY DEF HeadBehind, Behind
    <3>4. Complete(w) => Behind(head[w], origin[w])
      BY <1>2, <3>1 DEF Based, HeadBehind
    <3>. QED
      BY <1>2, <1>3, <2>1, <2>5, <3>1, <3>2, <3>3, <3>4 DEF Based
  <2>. QED
    BY <2>1, <2>4, <2>5
<1>12. CASE Attest(w)
  <2>1. PICK top \in run[w].heads :
                  /\ run[w].pc = "attest" /\ run[w].heads = {top}
                  /\ files[w] # None => files[w] = version[top].files
                  /\ origin' = [origin EXCEPT ![w] = IF files[w] = version[top].files THEN top ELSE @]
                  /\ run'[w].pc \in {"commit", "writeconf", "setkey"}
                  /\ run'[w].pc # "commit" => run'[w].sha = top
                  /\ run'[w].pc = "writeconf" => files[w] = None
                  /\ run'[w].from = top /\ run'[w].parents = {top} /\ run'[w].cmd = run[w].cmd
                  /\ UNCHANGED <<version, cache, files, head>>
    BY <1>12, AttestGoesOn
  <2>2. top \in cache[w] /\ Tops(cache[w]) = {top}
    BY <1>2, <2>1 DEF Settled
  <2>3. HeadBehind(w, top)
    BY <1>2, <2>2, UnderTops DEF Based, HeadBehind
  <2>4. /\ \A p, v : Behind(p, v)' <=> Behind(p, v)
        /\ \A v : HeadBehind(w, v)' <=> HeadBehind(w, v)
        /\ Complete(w)' <=> Complete(w)
    BY <2>1 DEF Behind, HeadBehind, Complete
  <2>5. /\ origin'[w] \in cache[w] \cup {None}
        /\ Complete(w) => origin'[w] = top
    BY <1>2, <2>1, <2>2 DEF Based, Complete, IInv, TypeOK
  <2>6. Behind(top, top)
    BY DEF Behind
  <2>7. top \in DOMAIN version /\ None \notin cache[w]
    BY <1>2, <2>2
  <2>. QED
    BY <1>2, <1>3, <2>1, <2>2, <2>3, <2>4, <2>5, <2>6, <2>7 DEF Based, HeadBehind
<1>13. CASE Commit(w)
  <2>1. PICK v \in Ids \ DOMAIN version, rev \in 1..MaxVersions :
              /\ run[w].pc = "commit" /\ run'[w].pc = "raise" /\ run'[w].sha = v
              /\ DOMAIN version' = DOMAIN version \cup {v}
              /\ version'[v] = [parents |-> run[w].parents, rev |-> rev, signer |-> KeyOf[w],
                                files |-> run[w].files, from |-> run[w].from,
                                merge |-> run[w].cmd = "merge"]
              /\ cache' = [cache EXCEPT ![w] = @ \cup {v}]
              /\ origin' = [origin EXCEPT ![w] = IF files[w] = None THEN None ELSE v]
              /\ UNCHANGED <<head, files>>
    BY <1>13, CommitGoesOn
  <2>2. /\ cache'[w] = cache[w] \cup {v} /\ version'[v].parents = run[w].parents
        /\ origin'[w] \in {None, v} /\ (Complete(w) => origin'[w] = v)
        /\ v \in DOMAIN version'
    BY <2>1 DEF IInv, TypeOK, Complete
  <2>3. ASSUME head[w] # None PROVE Behind(head[w], v)'
    <3>1. PICK p \in run[w].parents : Behind(head[w], p)
      BY <1>2, <2>1, <2>3 DEF Based
    <3>2. Behind(head[w], p)'
      BY <1>1, <1>2, <2>1, <3>1, BehindStays
    <3>3. <<v, p>> \in Ancestry(version')
      <4>1. GraphOK(version')
        BY VersionGraphNext
      <4>2. p \in version'[v].parents \cap DOMAIN version'
        BY <1>2, <2>1, <2>2
      <4>. QED
        BY <2>2, <4>1, <4>2, AncestryHolds DEF GraphOK
    <3>4. CASE head[w] = p
      BY <2>1, <3>3, <3>4 DEF Behind
    <3>5. CASE head[w] # p
      <4>1. <<p, head[w]>> \in Ancestry(version')
        BY <2>1, <3>2, <3>5 DEF Behind
      <4>2. IsFiniteSet(DOMAIN version')
        BY VersionGraphNext DEF GraphOK
      <4>3. <<v, head[w]>> \in Ancestry(version')
        BY <3>3, <4>1, <4>2, AncestryTransitive
      <4>. QED
        BY <2>1, <4>3 DEF Behind
    <3>. QED
      BY <3>4, <3>5
  <2>4. HeadBehind(w, v)' /\ Behind(v, v)' /\ (Complete(w)' <=> Complete(w))
    BY <2>1, <2>3 DEF HeadBehind, Behind, Complete
  <2>. QED
    BY <1>2, <1>3, <2>1, <2>2, <2>4 DEF Based
<1>14. CASE SetHead(w)
  <2>1. /\ run[w].pc = "sethead" /\ head' = [head EXCEPT ![w] = run[w].sha]
        /\ run'[w].sha = run[w].sha /\ run'[w].pc \in {"record", "setroot"}
        /\ UNCHANGED <<version, cache, files, origin>>
    BY <1>14, VersionGoesOn DEF SetHead
  <2>2. head'[w] = run[w].sha
    BY <2>1 DEF IInv, TypeOK
  <2>3. \A p, v : Behind(p, v)' <=> Behind(p, v)
    BY <2>1 DEF Behind
  <2>4. Behind(run[w].sha, run[w].sha) /\ (Complete(w)' <=> Complete(w))
    BY <2>1 DEF Behind, Complete
  <2>. QED
    BY <1>2, <1>3, <2>1, <2>2, <2>3, <2>4 DEF Based, HeadBehind
<1>15. CASE WriteSecrets(w)
  <2>1. /\ run[w].pc = "writesec" /\ run'[w].sha = run[w].sha /\ run'[w].pc \in {"setkey", "sethead"}
        /\ origin' = [origin EXCEPT ![w] = run[w].sha]
        /\ UNCHANGED <<version, cache, head>>
    BY <1>15, VersionGoesOn DEF WriteSecrets
  <2>2. origin'[w] = run[w].sha
    BY <2>1 DEF IInv, TypeOK
  <2>3. /\ \A p, v : Behind(p, v)' <=> Behind(p, v)
        /\ \A v : HeadBehind(w, v)' <=> HeadBehind(w, v)
        /\ Behind(run[w].sha, run[w].sha)
    BY <2>1 DEF Behind, HeadBehind
  <2>. QED
    BY <1>2, <1>3, <2>1, <2>2, <2>3 DEF Based
<1>16. CASE RaiseSeen(w) \/ SetRoot(w) \/ SetSigningKey(w) \/ WriteConf(w)
  <2>1. /\ run[w].pc \in {"raise", "setroot", "setkey", "writeconf"} /\ run'[w].sha = run[w].sha
        /\ run'[w].pc \in {"sethead", "setkey", "writeconf", "push", "writesec"}
        /\ run[w].pc = "writeconf" => run'[w].pc = "writesec"
        /\ UNCHANGED <<version, cache, head, origin>>
    BY <1>16, VersionGoesOn DEF RaiseSeen, SetRoot, SetSigningKey, WriteConf
  <2>2. Complete(w)' => Complete(w)
    <3>1. CASE WriteConf(w)
      <4>1. files'[w] = [conf |-> run[w].files.conf, sec |-> IF files[w] = None THEN None ELSE files[w].sec]
        BY <3>1 DEF WriteConf, IInv, TypeOK
      <4>. QED
        BY <4>1 DEF Complete
    <3>2. CASE ~WriteConf(w)
      BY <1>16, <3>2 DEF RaiseSeen, SetRoot, SetSigningKey, Complete
    <3>. QED
      BY <3>1, <3>2
  <2>3. /\ \A p, v : Behind(p, v)' <=> Behind(p, v)
        /\ \A v : HeadBehind(w, v)' <=> HeadBehind(w, v)
    BY <2>1 DEF Behind, HeadBehind
  <2>. QED
    BY <1>2, <1>3, <2>1, <2>2, <2>3 DEF Based
<1>17. CASE PushSite(w)
  <2>1. run'[w].pc = "push" /\ UNCHANGED <<version, cache, files, head, origin>>
    BY <1>17, VersionGoesOn DEF PushSite, disk
  <2>. QED
    BY <1>5, <2>1
<1>18. CASE Pushed(w)
  <2>1. UNCHANGED <<version, cache, files, head, origin>>
    BY <1>18 DEF Pushed, disk
  <2>2. CASE run' = [run EXCEPT ![w].pc = "apply", ![w].todo = run[w].hosts]
    <3>1. run'[w].pc = "apply"
      BY <1>2, <2>2 DEF Run
    <3>. QED
      BY <1>5, <2>1, <3>1
  <2>. QED
    BY <1>6, <1>18, <2>1, <2>2 DEF Pushed
<1>19. CASE ApplySite(w)
  <2>1. run'[w].pc = "apply" /\ UNCHANGED <<version, cache, files, head, origin>>
    BY <1>2, <1>19 DEF ApplySite, Run, disk
  <2>. QED
    BY <1>5, <2>1
<1>20. CASE Compare(w) \/ Choose(w)
  <2>1. /\ run'[w].cmd = run[w].cmd /\ run[w].pc \in {"compare", "choose"}
        /\ run'[w].pc \in {"record", "writeconf", "gather"}
        /\ run'[w].pc = "writeconf" => run[w].heads = {run'[w].sha}
        /\ UNCHANGED <<version, cache, files, head, origin>>
    BY <1>20, CheckoutGoesOn DEF disk
  <2>2. run[w].cmd \notin Commits
    BY <1>2, <2>1 DEF Kind, Commits, Applies
  <2>3. CASE run'[w].pc = "writeconf"
    <3>1. Tops(cache[w]) = {run'[w].sha} /\ run'[w].sha \in cache[w]
      BY <1>2, <2>1, <2>3 DEF Settled
    <3>2. HeadBehind(w, run'[w].sha)
      BY <1>2, <3>1, UnderTops DEF Based, HeadBehind
    <3>3. /\ \A p, v : Behind(p, v)' <=> Behind(p, v)
          /\ \A v : HeadBehind(w, v)' <=> HeadBehind(w, v)
          /\ Complete(w)' <=> Complete(w)
      BY <2>1 DEF Behind, HeadBehind, Complete
    <3>. QED
      BY <1>2, <1>3, <2>1, <2>3, <3>1, <3>2, <3>3 DEF Based
  <2>. QED
    BY <1>5, <2>1, <2>2, <2>3
<1>21. CASE RecordPull(w) \/ Applied(w) \/ Stop(w)
  BY <1>6, <1>21 DEF RecordPull, Applied, Stop, disk
<1>. QED
  BY <1>7, <1>8, <1>9, <1>10, <1>11, <1>12, <1>13, <1>14, <1>15, <1>16, <1>17, <1>18, <1>19, <1>20,
     <1>21 DEF Command

LEMMA NextBInv ==
    NothingForgotten /\ IInv /\ IInv' /\ KInv /\ VInv /\ PInv /\ BInv /\ [Next]_vars => BInv'
<1>. SUFFICES ASSUME NothingForgotten, IInv, IInv', KInv, VInv, PInv, BInv, [Next]_vars
              PROVE  BInv'
  OBVIOUS
<1>1. ASSUME NEW w \in Workstations, Command(w) PROVE BInv'
  BY <1>1, CommandBInv
<1>2. ASSUME UNCHANGED <<version, run, cache, head>>,
             \A u \in Workstations : (Complete(u)' => Complete(u)) /\ origin'[u] = origin[u]
      PROVE  BInv'
  BY <1>2, BasedStays DEF BInv
<1>3. ASSUME NEW w \in Workstations, Lose(w) PROVE BInv'
  <2>1. PICK what \in {"workstation", "cache", "files"} :
            LET lost(kinds, f, none) == IF what \in kinds THEN [f EXCEPT ![w] = none] ELSE f
            IN  /\ Mishap(what)
                /\ cache'   = lost({"workstation", "cache"}, cache, {})
                /\ files'   = lost({"workstation", "files"}, files, None)
                /\ origin'  = lost({"workstation", "files"}, origin, None)
                /\ head'    = lost({"workstation"}, head, None)
    BY <1>3 DEF Lose
  <2>2. what = "files"
    BY <2>1 DEF Mishap, NothingForgotten
  <2>3. run[w].pc = "idle" /\ UNCHANGED <<version, run>>
    BY <1>3 DEF Lose
  <2>4. /\ cache' = cache /\ head' = head /\ files' = [files EXCEPT ![w] = None]
        /\ origin' = [origin EXCEPT ![w] = None]
    BY <2>1, <2>2
  <2>5. /\ \A u \in Workstations \ {w} : files'[u] = files[u] /\ origin'[u] = origin[u]
        /\ files'[w] = None /\ origin'[w] = None
    BY <2>4 DEF IInv, TypeOK
  <2>6. \A u \in Workstations \ {w} : Based(u)'
    BY <2>3, <2>4, <2>5, BasedStays DEF BInv, Complete
  <2>7. Based(w)
    BY DEF BInv
  <2>8. Based(w)'
    BY <2>3, <2>4, <2>5, <2>7 DEF Based, Complete
  <2>. QED
    BY <2>6, <2>8 DEF BInv
<1>4. ASSUME NEW w \in Workstations, Edit(w) PROVE BInv'
  <2>1. /\ Complete(w) /\ UNCHANGED <<version, run, cache, head, origin>>
        /\ \A u \in Workstations \ {w} : files'[u] = files[u]
    BY <1>4 DEF Edit, IInv, TypeOK
  <2>. QED
    BY <1>2, <2>1 DEF Complete
<1>5. CASE UNCHANGED <<version, run, cache, head, origin, files>>
  BY <1>2, <1>5 DEF Complete
<1>. QED
  BY <1>1, <1>3, <1>4, <1>5 DEF Next, vars, disk, SiteLoses, SiteSync

(* What NoStaleOverwrite says of a step. *)
NothingUndone ==
    \A v \in DOMAIN version' \ DOMAIN version :
        LET made == version'[v]
        IN  made.merge \/ made.parents \subseteq {made.from} \cup Ancestors(Ancestry(version), made.from)

LEMMA NextUndoesNothing ==
    ASSUME IInv, BInv, [Next]_vars PROVE NothingUndone
<1>1. ASSUME NEW w \in Workstations, Commit(w) PROVE NothingUndone
  <2>1. PICK v \in Ids \ DOMAIN version, rev \in 1..MaxVersions :
              /\ run[w].pc = "commit" /\ run'[w].pc = "raise" /\ run'[w].sha = v
              /\ DOMAIN version' = DOMAIN version \cup {v}
              /\ version'[v] = [parents |-> run[w].parents, rev |-> rev, signer |-> KeyOf[w],
                                files |-> run[w].files, from |-> run[w].from,
                                merge |-> run[w].cmd = "merge"]
              /\ \A u \in DOMAIN version : version'[u] = version[u]
    BY <1>1, CommitGoesOn
  <2>2. run[w].cmd = "merge" \/ \A p \in run[w].parents : Behind(p, run[w].from)
    BY <2>1 DEF BInv, Based
  <2>3. \A p : Behind(p, run[w].from) =>
                   p \in {run[w].from} \cup Ancestors(Ancestry(version), run[w].from)
    <3>1. IsFiniteSet(DOMAIN version)
      BY VersionGraph DEF GraphOK
    <3>. QED
      BY <3>1, AncestorsAre DEF Behind
  <2>4. DOMAIN version' \ DOMAIN version = {v}
    BY <2>1
  <2>5. /\ version'[v].parents = run[w].parents /\ version'[v].from = run[w].from
        /\ version'[v].merge = (run[w].cmd = "merge")
    BY <2>1
  <2>6. run[w].cmd = "merge" => version'[v].merge
    <3>1. ASSUME run[w].cmd = "merge" PROVE version'[v].merge
      <4>1. (run[w].cmd = "merge") = TRUE
        BY <3>1
      <4>. QED
        BY <2>5, <4>1, Zenon
    <3>. QED
      BY <3>1
  <2>. QED
    BY <2>2, <2>3, <2>4, <2>5, <2>6 DEF NothingUndone
<1>2. CASE UNCHANGED version
  BY <1>2 DEF NothingUndone
<1>3. ASSUME NEW w \in Workstations, Command(w), ~Commit(w) PROVE UNCHANGED version
  BY <1>3 DEF Command, StartPublish, StartPull, StartRegister, StartApply, StartRecover, Begin, AskSite,
     JudgeGathered, Prepare, Attest, RaiseSeen, SetHead, SetRoot, SetSigningKey, PushSite,
     Pushed, Review, ApplySite, Applied, Compare, Choose, WriteConf, WriteSecrets, RecordPull, Stop
<1>. QED
  BY <1>1, <1>2, <1>3 DEF Next, vars, SiteLoses, SiteSync, Edit, Lose

(* While no version removes an operator's key, only one was committed on    *)
(* nothing and no workstation loses what it gathered, the files of every   *)
(* version but a merge by hand come from all that the version is built on, *)
(* whatever was interrupted or edited before (Parents of local.go).        *)
THEOREM NothingUndoneEver ==
    ASSUME NothingForgotten
    PROVE  Spec /\ []Peaceful => NoStaleOverwrite
<1>1. Spec => []VInv
  BY InitVInv, NextVInv, Inductive, Kinds, PTL DEF Spec
<1>2. Spec /\ []Peaceful => []PInv
  BY <1>1, InitPInv, NextPInv, Inductive, Kinds, PTL DEF Spec
<1>3. IInv /\ IInv' /\ KInv /\ VInv /\ PInv /\ BInv /\ [Next]_vars => BInv'
  BY NextBInv
<1>4. Spec /\ []Peaceful => []BInv
  BY <1>1, <1>2, <1>3, InitBInv, Inductive, Kinds, PTL DEF Spec
<1>5. IInv /\ BInv /\ [Next]_vars => [NothingUndone]_vars
  BY NextUndoesNothing
<1>6. Spec /\ []Peaceful => [][NothingUndone]_vars
  BY <1>4, <1>5, Inductive, PTL DEF Spec
<1>. QED
  BY <1>6, PTL DEF NoStaleOverwrite, NothingUndone

-----------------------------------------------------------------------------
(* Where nothing was removed and no workstation loses what it gathered, no  *)
(* operator is asked to type rollback.                                     *)
CacheHas(w, n) == n = 0 \/ \E v \in cache[w] : n <= version[v].rev

(* What a workstation has seen it has in its cache still.                  *)
Remains(w) == /\ CacheHas(w, seen[w].rev) /\ CacheHas(w, run[w].change.rev)
            /\ ~run[w].change.lower

LInv == \A w \in Workstations : Remains(w)

LEMMA InitLInv == Init => LInv
<1>. SUFFICES ASSUME Init PROVE LInv
  OBVIOUS
<1>1. ASSUME NEW w \in Workstations PROVE seen[w].rev = 0 /\ run[w].change = NoChange
  BY DEF Init, Unseen, Idle
<1>. QED
  BY <1>1 DEF LInv, Remains, CacheHas, NoChange

LEMMA CacheHasStays ==
    ASSUME IInv, NEW u \in Workstations, NEW n, CacheHas(u, n), cache[u] \subseteq cache'[u],
           \A v \in DOMAIN version : v \in DOMAIN version' /\ version'[v] = version[v]
    PROVE  CacheHas(u, n)'
  BY DEF CacheHas, IInv, TypeOK

(* What a step leaves to record.                                           *)
LEMMA ChangeStays ==
    ASSUME IInv, NEW w \in Workstations, Command(w), ~JudgeGathered(w)
    PROVE  run'[w].change \in {run[w].change, NoChange}
<1>0. run \in [Workstations -> Run] /\ run[w] \in Run
  BY DEF IInv, TypeOK
<1>1. ASSUME End(w) PROVE run'[w].change = NoChange
  BY <1>0, <1>1 DEF End, Idle
<1>2. CASE StartPublish(w) \/ StartPull(w) \/ StartRegister(w) \/ StartApply(w) \/ StartRecover(w)
  BY <1>2, StartsWith
<1>3. CASE AskSite(w)
  BY <1>0, <1>3 DEF AskSite, Run
<1>4. CASE Prepare(w)
  BY <1>4, PrepareGoesOn
<1>5. CASE Attest(w)
  BY <1>5, AttestGoesOn
<1>6. CASE Commit(w)
  BY <1>6, CommitGoesOn
<1>7. CASE \/ RaiseSeen(w) \/ SetHead(w) \/ SetRoot(w) \/ SetSigningKey(w)
           \/ WriteConf(w) \/ WriteSecrets(w) \/ PushSite(w)
  BY <1>7, VersionGoesOn
<1>8. CASE Review(w)
  BY <1>8, ReviewGoesOn
<1>9. CASE Compare(w) \/ Choose(w)
  BY <1>9, CheckoutGoesOn
<1>10. CASE ApplySite(w)
  BY <1>0, <1>10 DEF ApplySite, Run
<1>11. CASE Pushed(w)
  <2>1. CASE run' = [run EXCEPT ![w].pc = "apply", ![w].todo = run[w].hosts]
    BY <1>0, <2>1 DEF Run
  <2>. QED
    BY <1>1, <1>11, <2>1 DEF Pushed
<1>12. CASE RecordPull(w) \/ Applied(w) \/ Stop(w)
  BY <1>1, <1>12 DEF RecordPull, Applied, Stop
<1>. QED
  BY <1>2, <1>3, <1>4, <1>5, <1>6, <1>7, <1>8, <1>9, <1>10, <1>11, <1>12 DEF Command

LEMMA SeenIs ==
    ASSUME IInv, NEW w \in Workstations, Command(w)
    PROVE  \/ seen'[w] \in {seen[w], AfterRecordSeen(w)}
           \/ run[w].sha \in cache[w] /\ seen'[w].rev = version[run[w].sha].rev
<1>1. CASE Prepare(w) \/ Attest(w) \/ RecordPull(w)
  <2>1. seen' = [seen EXCEPT ![w] = AfterRecordSeen(w)]
    BY <1>1, PrepareGoesOn, AttestGoesOn DEF RecordPull
  <2>. QED
    BY <2>1 DEF IInv, TypeOK
<1>2. CASE RaiseSeen(w)
  <2>1. run[w].sha \in cache[w]
    BY <1>2 DEF RaiseSeen, IInv, RunSound, Sound, WithVersion
  <2>2. seen' = [seen EXCEPT ![w] = Raise(@, version[run[w].sha].rev, run[w].sha)]
    BY <1>2 DEF RaiseSeen
  <2>. QED
    BY <2>1, <2>2 DEF Raise, IInv, TypeOK
<1>3. CASE ~(Prepare(w) \/ Attest(w) \/ RecordPull(w) \/ RaiseSeen(w))
  BY <1>3 DEF Command, StartPublish, StartPull, StartRegister, StartApply, StartRecover, Begin, AskSite,
     JudgeGathered, Commit, SetHead, SetRoot, SetSigningKey, PushSite,
     Pushed, Review, ApplySite, Applied, Compare, Choose, WriteConf, WriteSecrets, Stop, disk
<1>. QED
  BY <1>1, <1>2, <1>3

LEMMA CommandLInv ==
    ASSUME IInv, VInv, LInv, Peaceful, NEW w \in Workstations, Command(w)
    PROVE  LInv'
<1>1. /\ \A u \in Workstations \ {w} : run'[u] = run[u] /\ cache'[u] = cache[u] /\ seen'[u] = seen[u]
      /\ \A v \in DOMAIN version : v \in DOMAIN version' /\ version'[v] = version[v]
      /\ cache[w] \subseteq cache'[w]
  <2>1. cache[w] \subseteq cache'[w]
    <3>1. CASE Commit(w)
      <4>1. PICK v \in Ids \ DOMAIN version, rev \in 1..MaxVersions :
                /\ run[w].pc = "commit" /\ run'[w].pc = "raise" /\ run'[w].sha = v
                /\ cache' = [cache EXCEPT ![w] = @ \cup {v}]
        BY <3>1, CommitGoesOn
      <4>. QED
        BY <4>1 DEF IInv, TypeOK
    <3>2. CASE AskSite(w)
      BY <3>2 DEF AskSite, IInv, TypeOK
    <3>3. CASE ~(Commit(w) \/ AskSite(w))
      <4>1. UNCHANGED cache
        BY <3>3 DEF Command, StartPublish, StartPull, StartRegister, StartApply, StartRecover, Begin,
           JudgeGathered, Prepare, Attest, RaiseSeen, SetHead, SetRoot, SetSigningKey, PushSite,
           Pushed, Review, ApplySite, Applied, Compare, Choose, WriteConf, WriteSecrets, RecordPull, Stop,
           disk
      <4>. QED
        BY <4>1
    <3>. QED
      BY <3>1, <3>2, <3>3
  <2>2. NoneLowered
    BY DEF LInv, Remains, NoneLowered
  <2>. QED
    BY <2>1, <2>2, CommandKeeps, SeenRises DEF Elsewhere
<1>2. \A u \in Workstations : Remains(u)
  BY DEF LInv
<1>3. ASSUME NEW u \in Workstations \ {w} PROVE Remains(u)'
  <2>1. CacheHas(u, seen[u].rev)' /\ CacheHas(u, run[u].change.rev)'
    BY <1>1, <1>2, CacheHasStays DEF Remains, CacheHas, IInv, TypeOK
  <2>. QED
    BY <1>1, <1>2, <2>1 DEF Remains
<1>4. CacheHas(w, seen[w].rev) /\ CacheHas(w, run[w].change.rev) /\ ~run[w].change.lower
  BY <1>2 DEF Remains
<1>5. \A v \in cache[w] : version'[v] = version[v] /\ v \in cache'[w] /\ version[v].rev \in Nat
  BY <1>1, RevIsNat DEF IInv, TypeOK
<1>6. ASSUME NEW n, CacheHas(w, n) PROVE n = 0 \/ \E v \in cache'[w] : n <= version'[v].rev
  BY <1>5, <1>6 DEF CacheHas
<1>7. (CacheHas(w, seen[w].rev))'
  <2>1. AfterRecordSeen(w).rev \in {seen[w].rev, run[w].change.rev}
    BY <1>4 DEF AfterRecordSeen, Raise
  <2>2. CacheHas(w, seen'[w].rev)
    <3>1. CASE seen'[w] \in {seen[w], AfterRecordSeen(w)}
      BY <1>4, <2>1, <3>1
    <3>2. CASE run[w].sha \in cache[w] /\ seen'[w].rev = version[run[w].sha].rev
      BY <1>5, <3>2 DEF CacheHas
    <3>. QED
      BY <3>1, <3>2, SeenIs
  <2>. QED
    BY <1>6, <2>2 DEF CacheHas
<1>8. CacheHas(w, run'[w].change.rev) /\ ~run'[w].change.lower
  <2>1. CASE run'[w].change \in {run[w].change, NoChange}
    BY <1>4, <2>1 DEF NoChange, CacheHas
  <2>2. CASE JudgeGathered(w) /\ cache[w] = {}
    <3>1. Verdict(w).heads = {}
      BY <2>2 DEF Verdict, Judged
    <3>. QED
      BY <2>1, <2>2, <3>1, JudgeGoesOn
  <2>3. CASE JudgeGathered(w) /\ cache[w] # {}
    <3>1. PICK top \in cache[w] : /\ run'[w].change = SeenFrom(w, top)
                                  /\ \A v \in cache[w] : version[v].rev <= version[top].rev
      BY <2>3, NewestIsSeen
    <3>2. seen[w].rev \in Nat /\ version[top].rev \in Nat
      BY <1>5, ConstantsAssumption DEF IInv, TypeOK, Seen
    <3>3. ~(version[top].rev < seen[w].rev)
      BY <1>4, <1>5, <3>1, <3>2 DEF CacheHas
    <3>4. CASE version[top].rev = seen[w].rev
      BY <2>1, <3>1, <3>4 DEF SeenFrom
    <3>5. CASE version[top].rev # seen[w].rev
      <4>1. run'[w].change = [rev |-> version[top].rev, id |-> top,
                              lower |-> version[top].rev < seen[w].rev]
        BY <3>1, <3>5 DEF SeenFrom
      <4>2. (version[top].rev < seen[w].rev) = FALSE
        BY <3>3
      <4>3. ~run'[w].change.lower
        <5>1. run'[w].change.lower = (version[top].rev < seen[w].rev)
          BY <4>1
        <5>. QED
          BY <5>1, <4>2, Zenon
      <4>4. run'[w].change.rev = version[top].rev
        BY <4>1
      <4>. QED
        BY <3>2, <4>3, <4>4 DEF CacheHas
    <3>. QED
      BY <3>4, <3>5
  <2>. QED
    BY <2>1, <2>2, <2>3, ChangeStays
<1>9. (CacheHas(w, run[w].change.rev))'
  BY <1>6, <1>8 DEF CacheHas
<1>10. Remains(w)'
  BY <1>7, <1>8, <1>9 DEF Remains
<1>. QED
  BY <1>3, <1>10 DEF LInv

LEMMA NextLInv == NothingForgotten /\ IInv /\ VInv /\ LInv /\ Peaceful /\ [Next]_vars => LInv'
<1>. SUFFICES ASSUME NothingForgotten, IInv, VInv, LInv, Peaceful, [Next]_vars PROVE LInv'
  OBVIOUS
<1>1. ASSUME NEW w \in Workstations, Command(w) PROVE LInv'
  BY <1>1, CommandLInv
<1>2. CASE UNCHANGED <<version, run, cache, seen>>
  BY <1>2 DEF LInv, Remains, CacheHas
<1>3. ASSUME NEW w \in Workstations, Lose(w) PROVE UNCHANGED <<version, run, cache, seen>>
  <2>1. PICK what \in {"workstation", "cache", "files"} :
            LET lost(kinds, f, none) == IF what \in kinds THEN [f EXCEPT ![w] = none] ELSE f
            IN  /\ Mishap(what)
                /\ cache' = lost({"workstation", "cache"}, cache, {})
                /\ seen'  = lost({"workstation"}, seen, Unseen)
    BY <1>3 DEF Lose
  <2>2. what = "files"
    BY <2>1 DEF Mishap, NothingForgotten
  <2>. QED
    BY <1>3, <2>1, <2>2 DEF Lose
<1>. QED
  BY <1>1, <1>2, <1>3 DEF Next, vars, disk, SiteLoses, SiteSync, Edit

(* While no version removes an operator's key, only one was committed on    *)
(* nothing and no workstation loses what it gathered, no operator is asked  *)
(* to type rollback, whatever sites are restored from older copies or do    *)
(* not answer: the cache keeps what was seen (raiseSeen and the judgement   *)
(* of the whole cache).                                                    *)
THEOREM RollbackNeverAsked ==
    ASSUME NothingForgotten
    PROVE  Spec /\ []Peaceful => []NoneLowered
<1>1. Spec => []VInv
  BY InitVInv, NextVInv, Inductive, Kinds, PTL DEF Spec
<1>2. IInv /\ VInv /\ LInv /\ Peaceful /\ [Next]_vars => LInv'
  BY NextLInv
<1>3. Spec /\ []Peaceful => []LInv
  BY <1>1, <1>2, InitLInv, Inductive, PTL DEF Spec
<1>4. LInv => NoneLowered
  BY DEF LInv, Remains, NoneLowered
<1>. QED
  BY <1>3, <1>4, PTL
=============================================================================
