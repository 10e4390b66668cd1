------------------------- MODULE GatewayMove_proofs -------------------------
(***************************************************************************)
(* Proofs about gateway move, and about the deployment record by updates   *)
(* beside each other and beside a move, for any sites, any of them         *)
(* monitors', any names, hostnames and operators, and any mishaps but a    *)
(* record that cannot be read at the record stage's gate.                  *)
(***************************************************************************)
EXTENDS GatewayMove, FiniteSetTheorems, TLAPS

(* The old gateway's record can be read when the new one's is checked.     *)
(* What happens otherwise is run gateway_unread's.                         *)
GateReads == "unread" \notin Mishaps

Kept(s) == docs[s] # None
Marked(s) == marker[s] # None

(* A hostname is at some site, and a site it is at serves it and has the   *)
(* deployment's record, by which an apply knows to go on serving.          *)
PointsServed ==
    /\ \A h \in Hostnames : points[h] # {}
    /\ \A s \in Sites : Pointed(s) => Serves(s) /\ Kept(s)

(* What a marker says: records that went, no later than it counts.         *)
MarkersSound ==
    /\ \A s \in config : Marked(s) => s \in late
    /\ \A s \in Sites \ late : Marked(s) => ~Pointed(s) /\ cached[s] <= marker[s].left

(* A site that holds nothing of a gateway's has no stragglers.             *)
NothingLeft == \A s \in Sites \ late : ~Kept(s) /\ ~Marked(s) => cached[s] = 0

(* What a move knows of the two sites, at each stage.                      *)
Verified == {"add", "remove", "deleting", "wait", "stop", "forget"}
Moved    == {"remove", "deleting", "wait", "stop", "forget"}
Gone     == {"wait", "stop", "forget", "handoff"}

RunSound ==
    /\ run.pc # "idle" =>
          /\ run.from \in Sites /\ run.to \in Sites \ {run.from}
          /\ config = {run.to}
          /\ \A s \in Sites : Pointed(s) => s \in {run.from, run.to}
    /\ run.pc \in {"serve", "add"} => Kept(run.to) \/ ~Pointed(run.from)
    /\ run.pc \in Verified => Serves(run.to)
    /\ run.pc \in Moved => \A h \in Hostnames : run.to \in points[h]
    /\ run.pc = "deleting" => run.todo = {h \in Hostnames : run.from \in points[h]}
    /\ run.pc \in Gone => ~Pointed(run.from)
    /\ run.pc \in {"wait", "stop", "forget"} => Marked(run.from)
    /\ run.pc \in {"stop", "forget"} => marker[run.from].left = 0

Gots == UNION {[H -> Doc \cup {None}] : H \in SUBSET Sites}

Updates == [pc : {"idle", "read", "write", "done"}, hosts : SUBSET Sites, todo : SUBSET Sites,
            got : Gots, add : SUBSET Names, forget : SUBSET Names, want : Doc,
            missed : SUBSET Sites]

(* The record's type, and what kind of record an Update is.                *)
RecordSound == RecordTypeOK /\ upd \in [Operators -> Updates]

IInv == TypeOK /\ RecordSound /\ PointsServed /\ MarkersSound /\ NothingLeft
        /\ StragglersServed /\ RunSound

-----------------------------------------------------------------------------
(* Records.                                                                *)

LEMMA Constants ==
    /\ Sites \subseteq Nat /\ Sites # {} /\ IsFiniteSet(Sites) /\ Monitors \subseteq Sites
    /\ Mover \in Operators /\ TTL \in Nat \ {0} /\ MaxDeclares \in Nat /\ MaxEvents \in Nat
    /\ None \notin Sites /\ None \notin Doc /\ None \notin [to : Sites, left : Nat]
<1>1. IsFiniteSet(1..NSites) /\ 1 \in 1..NSites
  BY FS_Interval, RecordAssumption
<1>. QED
  BY <1>1, RecordAssumption, ConstantsAssumption DEF Sites

(* Every set of numbers that is not empty has a least one: of the sets of  *)
(* those up to each of them one contains no other.                         *)
LEMMA LeastOf ==
    ASSUME NEW T \in SUBSET Nat, T # {}
    PROVE  \E i \in T : \A j \in T : i <= j
<1> DEFINE U == {0..i : i \in T}
           R == StrictSubsetOrdering(Nat)
           S == FiniteSubsetsOf(Nat)
<1>1. IsWellFoundedOn(R, S)
  BY FS_StrictSubsetOrderingWellFounded
<1>2. U \subseteq S /\ U # {}
  <2>1. \A i \in T : IsFiniteSet(0..i) /\ 0..i \subseteq Nat
    BY FS_Interval
  <2>. QED
    BY <2>1 DEF FiniteSubsetsOf
<1>. HIDE DEF U, R, S
<1>3. PICK u \in U : \A v \in U : ~ (<<v, u>> \in R)
  BY <1>1, <1>2, WFMin
<1>4. PICK i \in T : u = 0..i
  BY <1>3 DEF U
<1>5. ASSUME NEW j \in T PROVE i <= j
  <2>1. 0..j \in U
    BY DEF U
  <2>2. <<0..j, 0..i>> \notin R
    BY <1>3, <1>4, <2>1
  <2>3. SUFFICES ASSUME j < i PROVE FALSE
    OBVIOUS
  <2>4. 0..j \subseteq 0..i /\ i \in 0..i /\ i \notin 0..j
    BY <2>3
  <2>5. 0..j \in SUBSET Nat /\ 0..i \in SUBSET Nat
    OBVIOUS
  <2>. QED
    BY <2>2, <2>4, <2>5 DEF R, StrictSubsetOrdering
<1>. QED
  BY <1>5

(* The first of some sites is one of them.                                 *)
LEMMA FirstIsOne ==
    ASSUME NEW S \in SUBSET Sites, S # {}
    PROVE  First(S) \in S
<1>1. \E i \in S : \A j \in S : i <= j
  BY LeastOf, Constants
<1>. QED
  BY <1>1 DEF First

LEMMA MergeIsDoc ==
    ASSUME NEW D \in SUBSET Doc
    PROVE  Merge(D) \in Doc
<1>1. \A n \in Names, d \in D : d[n].adds \in SUBSET Nat /\ d[n].removed \in SUBSET Nat
  BY DEF Doc, Entry
<1>2. \A n \in Names : /\ UNION {d[n].adds : d \in D} \in SUBSET Nat
                       /\ UNION {d[n].removed : d \in D} \in SUBSET Nat
  BY <1>1
<1>. QED
  BY <1>2 DEF Merge, Doc, Entry

LEMMA ChangedIsDoc ==
    ASSUME NEW d \in Doc, NEW add, NEW forget, tags \in [Names -> Nat]
    PROVE  /\ Changed(d, add, forget) \in Doc
           /\ \A n \in Names : Changed(d, add, forget)[n].adds \subseteq d[n].adds \cup {tags[n] + 1}
<1>1. \A n \in Names : d[n].adds \in SUBSET Nat /\ d[n].removed \in SUBSET Nat /\ tags[n] \in Nat
  BY DEF Doc, Entry
<1>. QED
  BY <1>1 DEF Changed, Doc, Entry

LEMMA CompactIsDoc ==
    ASSUME NEW d \in Doc, tags \in [Names -> Nat]
    PROVE  /\ Compact(d) \in Doc
           /\ \A n \in Names : Compact(d)[n].adds \subseteq d[n].adds \cup {tags[n] + 2}
<1>1. \A n \in Names : d[n].adds \in SUBSET Nat /\ d[n].removed \in SUBSET Nat /\ tags[n] \in Nat
  BY DEF Doc, Entry
<1>2. \A n \in Names : Live(d[n]) \in SUBSET d[n].adds
  BY DEF Live
<1>. QED
  BY <1>1, <1>2 DEF Compact, Doc, Entry

LEMMA FoundAreDocs ==
    ASSUME NEW got \in Gots
    PROVE  Found(got) \in SUBSET Doc
<1>1. PICK H \in SUBSET Sites : got \in [H -> Doc \cup {None}]
  BY DEF Gots
<1>. QED
  BY <1>1 DEF Found

(* The record an update writes is one, and makes at most two tags.         *)
LEMMA TargetIsDoc ==
    ASSUME RecordSound, NEW w \in Operators
    PROVE  /\ Target(w) \in Doc
           /\ Merge(Found(upd[w].got)) \in Doc
           /\ \A n \in Names : Target(w)[n].adds \ Merge(Found(upd[w].got))[n].adds
                                   \subseteq {tags[n] + 1, tags[n] + 2}
<1> DEFINE u == upd[w]
           base == Merge(Found(u.got))
           changed == Changed(base, u.add, u.forget)
<1>0. tags \in [Names -> Nat]
  BY DEF RecordSound, RecordTypeOK
<1>1. base \in Doc
  <2>1. u.got \in Gots
    BY DEF RecordSound, Updates
  <2>. QED
    BY <2>1, FoundAreDocs, MergeIsDoc
<1>2. /\ changed \in Doc
      /\ \A n \in Names : changed[n].adds \subseteq base[n].adds \cup {tags[n] + 1}
  BY <1>0, <1>1, ChangedIsDoc
<1>3. /\ Compact(changed) \in Doc
      /\ \A n \in Names : Compact(changed)[n].adds \subseteq changed[n].adds \cup {tags[n] + 2}
  BY <1>0, <1>2, CompactIsDoc
<1>4. Target(w) = IF u.missed = {} THEN Compact(changed) ELSE changed
  BY DEF Target
<1>. HIDE DEF u, base, changed
<1>5. Target(w) \in Doc /\ \A n \in Names : Target(w)[n].adds \ base[n].adds
                                   \subseteq {tags[n] + 1, tags[n] + 2}
  BY <1>2, <1>3, <1>4
<1>. QED
  BY <1>1, <1>5 DEF u, base

LEMMA NoUpdateIsOne == NoUpdate \in Updates /\ NoUpdate.pc = "idle" /\ DOMAIN NoUpdate.got = {}
<1>1. Empty \in Doc
  BY DEF Empty, Doc, Entry
<1>2. [s \in {} |-> None] \in [{} -> Doc \cup {None}]
  OBVIOUS
<1>3. [s \in {} |-> None] \in Gots /\ DOMAIN [s \in {} |-> None] = {}
  BY <1>2 DEF Gots
<1>. HIDE DEF Doc, Gots
<1>. QED
  BY <1>1, <1>3 DEF NoUpdate, Updates

-----------------------------------------------------------------------------
(* One Update's steps keep the record's type, and take no record away.     *)

KeepsDocs == \A s \in Sites : Kept(s) => docs'[s] # None

Fits(v) == v.todo \subseteq v.hosts /\ v.missed \subseteq v.hosts /\ DOMAIN v.got \subseteq v.hosts

LEMMA UpdateFits ==
    ASSUME RecordSound, NEW w \in Operators
    PROVE  upd[w] \in Updates /\ Fits(upd[w])
BY DEF RecordSound, RecordTypeOK, Fits

LEMMA UpdateKeeps ==
    ASSUME RecordSound, NEW w \in Operators, NEW v \in Updates, Fits(v),
           upd' = [upd EXCEPT ![w] = v],
           docs' \in [Sites -> Doc \cup {None}], tags' \in [Names -> Nat], due' \in SUBSET Names
    PROVE  RecordSound'
<1>1. upd' \in [Operators -> Updates]
  BY DEF RecordSound
<1>2. ASSUME NEW x \in Operators PROVE upd'[x] \in Updates /\ Fits(upd'[x])
  BY UpdateFits DEF RecordSound
<1>3. \A x \in Operators : \A s \in DOMAIN upd'[x].got : upd'[x].got[s] \in Doc \cup {None}
  BY <1>1 DEF Updates, Gots
<1>. QED
  BY <1>1, <1>2, <1>3 DEF RecordSound, RecordTypeOK, Fits, Updates

LEMMA BeginKeeps ==
    ASSUME RecordSound, NEW w \in Operators, NEW hosts \in SUBSET Sites,
           NEW add \in SUBSET Names, NEW forget \in SUBSET Names,
           Begin(w, hosts, add, forget), UNCHANGED <<docs, tags, due>>
    PROVE  RecordSound' /\ KeepsDocs
<1> DEFINE v == [NoUpdate EXCEPT !.pc = "read", !.hosts = hosts, !.todo = hosts,
                                 !.add = add, !.forget = forget]
<1>1. v \in Updates /\ Fits(v)
  BY NoUpdateIsOne DEF Fits, Updates, NoUpdate
<1>2. upd' = [upd EXCEPT ![w] = v]
  BY DEF Begin
<1>. HIDE DEF v
<1>. QED
  BY <1>1, <1>2, UpdateKeeps DEF RecordSound, RecordTypeOK, KeepsDocs, Kept

LEMMA LeaveKeeps ==
    ASSUME RecordSound, NEW w \in Operators, Report(w) \/ Abandon(w)
    PROVE  RecordSound' /\ KeepsDocs
<1>1. Fits(NoUpdate)
  BY NoUpdateIsOne DEF Fits, NoUpdate
<1>. QED
  BY <1>1, UpdateKeeps, NoUpdateIsOne
     DEF Report, Abandon, RecordSound, RecordTypeOK, KeepsDocs, Kept

LEMMA ReadKeeps ==
    ASSUME RecordSound, NEW w \in Operators, NEW answers \in BOOLEAN, Read(w, answers)
    PROVE  RecordSound' /\ KeepsDocs
<1> DEFINE u == upd[w]
           s == First(u.todo)
           got == IF answers
                  THEN [t \in DOMAIN u.got \cup {s} |-> IF t = s THEN docs[s] ELSE u.got[t]]
                  ELSE u.got
           v == [u EXCEPT !.todo = @ \ {s}, !.got = got,
                          !.missed = IF answers THEN @ ELSE @ \cup {s}]
<1>1. u \in Updates /\ Fits(u)
  BY UpdateFits
<1>2. s \in u.todo /\ s \in Sites /\ s \in u.hosts
  BY <1>1, FirstIsOne DEF Read, Updates, Fits
<1>3. got \in Gots /\ DOMAIN got \subseteq u.hosts
  <2>1. PICK H \in SUBSET Sites : u.got \in [H -> Doc \cup {None}]
    BY <1>1 DEF Updates, Gots
  <2>2. docs[s] \in Doc \cup {None}
    BY <1>2 DEF RecordSound, RecordTypeOK
  <2>3. CASE answers
    <3> HIDE DEF s
    <3>1. got \in [H \cup {s} -> Doc \cup {None}] /\ DOMAIN got = H \cup {s}
      BY <2>1, <2>2, <2>3
    <3>. QED
      BY <3>1, <1>1, <1>2, <2>1 DEF Gots, Fits
  <2>4. CASE ~answers
    BY <1>1, <2>4 DEF Fits, Updates
  <2>. QED
    BY <2>3, <2>4
<1>4. upd' = [upd EXCEPT ![w] = v]
  BY DEF Read
<1>. HIDE DEF got, s
<1>5. v \in Updates /\ Fits(v)
  BY <1>1, <1>2, <1>3 DEF Updates, Fits
<1>. HIDE DEF v
<1>. QED
  BY <1>4, <1>5, UpdateKeeps DEF Read, RecordSound, RecordTypeOK, KeepsDocs, Kept

LEMMA DecideKeeps ==
    ASSUME RecordSound, NEW w \in Operators, Decide(w)
    PROVE  RecordSound' /\ KeepsDocs
<1> DEFINE u == upd[w]
           base == Merge(Found(u.got))
           want == Target(w)
           written == [u EXCEPT !.pc = "write", !.want = want,
                                !.todo = {s \in DOMAIN u.got : u.got[s] # want}]
           done == [u EXCEPT !.pc = "done"]
<1>1. u \in Updates /\ Fits(u)
  BY UpdateFits
<1>2. /\ want \in Doc /\ base \in Doc
      /\ \A n \in Names : want[n].adds \ base[n].adds \subseteq {tags[n] + 1, tags[n] + 2}
  BY TargetIsDoc
<1>3. tags' \in [Names -> Nat]
  <2>1. ASSUME NEW n \in Names, want[n].adds \ base[n].adds # {}
        PROVE  (CHOOSE t \in want[n].adds \ base[n].adds : t > tags[n]) \in Nat
    <3>1. tags[n] \in Nat
      BY DEF RecordSound, RecordTypeOK
    <3>2. \E t \in want[n].adds \ base[n].adds : t > tags[n]
      BY <1>2, <2>1, <3>1
    <3>. HIDE DEF want, base
    <3>. QED
      BY <1>2, <3>1, <3>2
  <2>2. tags \in [Names -> Nat]
    BY DEF RecordSound, RecordTypeOK
  <2>3. tags' = [n \in Names |-> IF want[n].adds \ base[n].adds = {} THEN tags[n]
                                 ELSE CHOOSE t \in want[n].adds \ base[n].adds : t > tags[n]]
    BY DEF Decide
  <2>. HIDE DEF want, base
  <2>. QED
    BY <2>1, <2>2, <2>3
<1>4. \/ upd' = [upd EXCEPT ![w] = done]
      \/ upd' = [upd EXCEPT ![w] = written]
  BY DEF Decide
<1>. HIDE DEF want, base
<1>5. /\ done \in Updates /\ Fits(done)
      /\ written \in Updates /\ Fits(written)
  BY <1>1, <1>2 DEF Updates, Fits
<1>6. due' \in SUBSET Names /\ docs' = docs
  BY DEF Decide, RecordSound, RecordTypeOK
<1>. HIDE DEF done, written
<1>7. RecordSound'
  BY <1>3, <1>4, <1>5, <1>6, UpdateKeeps DEF RecordSound, RecordTypeOK
<1>. QED
  BY <1>6, <1>7 DEF KeepsDocs, Kept

LEMMA WriteKeeps ==
    ASSUME RecordSound, NEW w \in Operators, NEW answers \in BOOLEAN, Write(w, answers)
    PROVE  RecordSound' /\ KeepsDocs
<1> DEFINE u == upd[w]
           s == First(u.todo)
           ok == answers /\ AsRead(w, s)
           v == [u EXCEPT !.todo = @ \ {s}, !.missed = IF ok THEN @ ELSE @ \cup {s}]
<1>1. u \in Updates /\ Fits(u)
  BY UpdateFits
<1>2. s \in u.todo /\ s \in Sites /\ s \in u.hosts
  BY <1>1, FirstIsOne DEF Write, Updates, Fits
<1>3. upd' = [upd EXCEPT ![w] = v] /\ docs' = (IF ok THEN [docs EXCEPT ![s] = u.want] ELSE docs)
  BY DEF Write
<1>4. due' \in SUBSET Names /\ tags' = tags
  BY <1>1 DEF Write, RecordSound, RecordTypeOK, Updates
<1>. HIDE DEF s, ok
<1>5. v \in Updates /\ Fits(v) /\ u.want \in Doc
  BY <1>1, <1>2 DEF Updates, Fits
<1>6. docs' \in [Sites -> Doc \cup {None}] /\ KeepsDocs
  BY <1>2, <1>3, <1>5, Constants DEF RecordSound, RecordTypeOK, KeepsDocs, Kept
<1>. HIDE DEF v
<1>. QED
  BY <1>3, <1>4, <1>5, <1>6, UpdateKeeps DEF RecordSound, RecordTypeOK

LEMMA WroteKeeps ==
    ASSUME RecordSound, NEW w \in Operators, Wrote(w)
    PROVE  RecordSound' /\ KeepsDocs
<1> DEFINE v == [upd[w] EXCEPT !.pc = "done"]
<1>1. v \in Updates /\ Fits(v)
  BY UpdateFits DEF Updates, Fits
<1>2. upd' = [upd EXCEPT ![w] = v]
  BY DEF Wrote
<1>. HIDE DEF v
<1>. QED
  BY <1>1, <1>2, UpdateKeeps DEF Wrote, RecordSound, RecordTypeOK, KeepsDocs, Kept

LEMMA StepKeeps ==
    ASSUME RecordSound, NEW w \in Operators, UpdateStep(w) \/ Miss(w)
    PROVE  RecordSound' /\ KeepsDocs
BY ReadKeeps, DecideKeeps, WriteKeeps, WroteKeeps DEF UpdateStep, Miss

-----------------------------------------------------------------------------
(* Runs of the move.                                                       *)

Pcs == {"idle", "record", "recording", "carried", "serve", "add", "remove", "deleting", "wait",
        "stop", "forget", "handoff"}

Runs == [pc : Pcs, from : Sites \cup {None}, to : Sites \cup {None},
         steps : SUBSET {"record", "remove", "wait", "handoff"},
         todo : SUBSET Hostnames, deleted : BOOLEAN]

RunTyped == run \in Runs /\ (run # Idle => run.from \in Sites /\ run.to \in Sites \ {run.from})

LEMMA IdleRun ==
    ASSUME run' = Idle
    PROVE  RunTyped' /\ RunSound'
BY DEF Idle, Runs, Pcs, RunTyped, RunSound, Verified, Moved, Gone

(* A run that is at a stage is one of a move between two sites.            *)
LEMMA ActiveRun ==
    ASSUME IInv, run.pc # "idle"
    PROVE  /\ run \in Runs /\ run # Idle /\ RunTyped
           /\ run.from \in Sites /\ run.to \in Sites /\ run.from # run.to
           /\ config = {run.to} /\ run.from \notin config
           /\ \A s \in Sites : Pointed(s) => s \in {run.from, run.to}
BY DEF IInv, TypeOK, RunSound, Runs, Pcs, RunTyped, Idle

SameOtherwise ==
    /\ run'.from = run.from /\ run'.to = run.to /\ run'.steps = run.steps
    /\ run'.todo = run.todo /\ run'.deleted = run.deleted

LEMMA RunGoes ==
    ASSUME IInv, run.pc # "idle", NEW pc \in Pcs, Goes(pc)
    PROVE  RunTyped' /\ run'.pc = pc /\ SameOtherwise
BY ActiveRun DEF Goes, RunTyped, Runs, SameOtherwise

(* Steps of the run that change nothing of the gateways.                   *)
LEMMA RunOnly ==
    ASSUME IInv, RecordSound', KeepsDocs, OnlyRun, events' \in 0..MaxEvents,
           RunTyped', RunSound'
    PROVE  IInv'
<1>1. TypeOK'
  BY DEF IInv, TypeOK, RecordSound, OnlyRun, RunTyped, Runs, Pcs
<1>2. PointsServed' /\ MarkersSound' /\ NothingLeft' /\ StragglersServed'
  BY DEF IInv, PointsServed, MarkersSound, NothingLeft, StragglersServed, OnlyRun, KeepsDocs,
         Kept, Marked, Pointed, Serves
<1>. QED
  BY <1>1, <1>2 DEF IInv

LEMMA SameRecords ==
    ASSUME IInv, UNCHANGED recordVars
    PROVE  RecordSound' /\ KeepsDocs
BY DEF IInv, RecordSound, RecordTypeOK, recordVars, KeepsDocs, Kept

LEMMA SameEvents ==
    ASSUME IInv, UNCHANGED events \/ Event
    PROVE  events' \in 0..MaxEvents
BY Constants DEF IInv, TypeOK, Event

(* The run goes on to a stage of which nothing is known but what was.      *)
LEMMA GoesOn ==
    ASSUME IInv, run.pc # "idle", NEW pc \in Pcs, Goes(pc), KeepsDocs, OnlyRun,
           pc \notin {"deleting", "handoff"},
           pc \in {"serve", "add"} => Kept(run.to) \/ ~Pointed(run.from),
           pc \in Verified => Serves(run.to),
           pc \in Moved => \A h \in Hostnames : run.to \in points[h],
           pc \in Gone => ~Pointed(run.from) /\ Marked(run.from),
           pc \in {"stop", "forget"} => marker[run.from].left = 0
    PROVE  RunTyped' /\ RunSound'
<1>1. RunTyped' /\ run'.pc = pc /\ SameOtherwise
  BY RunGoes
<1>2. run'.from \in Sites /\ run'.to \in Sites \ {run'.from} /\ config' = {run'.to}
  BY <1>1, ActiveRun DEF SameOtherwise, OnlyRun
<1>3. \A s \in Sites : Pointed(s)' => s \in {run'.from, run'.to}
  BY <1>1, ActiveRun DEF SameOtherwise, OnlyRun, Pointed
<1>4. Kept(run.to) => docs'[run.to] # None
  BY ActiveRun DEF KeepsDocs
<1>5. pc \in {"serve", "add"} => docs'[run'.to] # None \/ \A h \in Hostnames : run'.from \notin points'[h]
  BY <1>1, <1>4 DEF SameOtherwise, OnlyRun, Pointed
<1>6. pc \in Verified => caddy'[run'.to] = "gateway"
  BY <1>1 DEF SameOtherwise, OnlyRun, Serves
<1>7. pc \in Moved => \A h \in Hostnames : run'.to \in points'[h]
  BY <1>1 DEF SameOtherwise, OnlyRun
<1>8. pc \in Gone => /\ \A h \in Hostnames : run'.from \notin points'[h]
                    /\ marker'[run'.from] # None
  BY <1>1 DEF SameOtherwise, OnlyRun, Pointed, Marked
<1>9. pc \in {"stop", "forget"} => marker'[run'.from].left = 0
  BY <1>1 DEF SameOtherwise, OnlyRun
<1>10. pc \in {"wait", "stop", "forget"} => pc \in Gone
  BY DEF Gone
<1>. HIDE DEF Verified, Moved, Gone
<1>. QED
  BY <1>1, <1>2, <1>3, <1>5, <1>6, <1>7, <1>8, <1>9, <1>10 DEF RunSound, Pointed, Kept, Serves, Marked

-----------------------------------------------------------------------------
(* The gates: steps that only move the run on, or end it.                  *)

(* A gateway without a record has no address published, so a new gateway   *)
(* whose record carries the old one's has a record, or has no need of one. *)
LEMMA CarriedKept ==
    ASSUME IInv, NEW from \in Sites, NEW to, Carried(from, to)
    PROVE  Kept(to) \/ ~Pointed(from)
BY DEF IInv, PointsServed, Carried, Kept

LEMMA BuildKeeps ==
    ASSUME IInv, Build
    PROVE  IInv'
<1>1. PICK to \in config, from \in Sites :
          /\ Candidates(to) = {from}
          /\ run' = [Idle EXCEPT !.pc = FirstStage(from, to), !.from = from, !.to = to,
                                 !.steps = Planned(from, to)]
  BY DEF Build
<1>2. to \in Sites /\ from \in Sites \ {to}
  BY <1>1 DEF IInv, TypeOK, Candidates
<1>3. config = {to}
  <2>1. IsFiniteSet(config)
    BY Constants, FS_Subset DEF IInv, TypeOK
  <2>2. PICK s : config = {s}
    BY <2>1, FS_Singleton DEF Build
  <2>. QED
    BY <1>1, <2>2
<1>4. \A s \in Sites : Pointed(s) => s \in {from, to}
  BY <1>1 DEF Candidates
<1>5. /\ run'.pc = FirstStage(from, to) /\ run'.from = from /\ run'.to = to
      /\ FirstStage(from, to) \in {"record", "serve", "handoff"}
      /\ RunTyped'
  <2>1. FirstStage(from, to) \in {"record", "serve", "handoff"}
    BY DEF FirstStage
  <2>2. Planned(from, to) \in SUBSET {"record", "remove", "wait", "handoff"}
    BY DEF Planned
  <2>. QED
    BY <1>1, <1>2, <2>1, <2>2 DEF Idle, RunTyped, Runs, Pcs
<1>6. FirstStage(from, to) = "handoff" => ~Pointed(from)
  BY DEF FirstStage, Released
<1>7. FirstStage(from, to) = "serve" => ~Pointed(from)
  BY <1>2 DEF FirstStage, IInv, PointsServed, Kept
<1>8. UNCHANGED recordVars /\ OnlyRun /\ UNCHANGED events
  BY DEF Build, OnlyRun
<1>9. RunSound'
  <2>1. config' = {to} /\ \A s \in Sites : Pointed(s)' => s \in {from, to}
    BY <1>3, <1>4, <1>8 DEF OnlyRun, Pointed
  <2>2. run'.pc \in {"serve", "handoff"} => \A h \in Hostnames : from \notin points'[h]
    BY <1>5, <1>6, <1>7, <1>8 DEF OnlyRun, Pointed
  <2>. QED
    BY <1>2, <1>5, <2>1, <2>2 DEF RunSound, Verified, Moved, Gone, Pointed
<1>. QED
  BY <1>5, <1>8, <1>9, RunOnly, SameRecords, SameEvents

(* A gate that fails ends the run; one that passes moves it on.            *)
LEMMA GateKeeps ==
    ASSUME IInv, NEW passes \in BOOLEAN, NEW pc, Gate(passes, pc),
           passes /\ Goes(pc) => RunTyped' /\ RunSound',
           RecordSound', KeepsDocs, OnlyRun, events' \in 0..MaxEvents
    PROVE  IInv'
<1>1. CASE passes
  BY <1>1, RunOnly DEF Gate
<1>2. CASE ~passes
  BY <1>2, RunOnly, IdleRun DEF Gate
<1>. QED
  BY <1>1, <1>2

LEMMA RecordStageKeeps ==
    ASSUME IInv, RecordStage
    PROVE  IInv'
<1>1. run.pc = "record" /\ run.from \in Sites /\ run.to \in Sites
  BY ActiveRun DEF RecordStage, At
<1>2. RecordSound' /\ KeepsDocs
  <2>1. {run.from, run.to} \in SUBSET Sites /\ {} \in SUBSET Names /\ Mover \in Operators
    BY <1>1, Constants
  <2>. QED
    BY <2>1, BeginKeeps DEF RecordStage, IInv
<1>3. RunTyped' /\ RunSound'
  BY <1>1, <1>2, GoesOn DEF RecordStage, Pcs, Verified, Moved, Gone
<1>. QED
  BY <1>2, <1>3, RunOnly, SameEvents DEF RecordStage

LEMMA RecordedKeeps ==
    ASSUME IInv, Recorded
    PROVE  IInv'
<1>1. run.pc = "recording"
  BY DEF Recorded, At
<1>2. RecordSound' /\ KeepsDocs
  BY LeaveKeeps, Constants DEF Recorded, IInv
<1>3. Goes("carried") => RunTyped' /\ RunSound'
  BY <1>1, <1>2, GoesOn DEF Recorded, Pcs, Verified, Moved, Gone
<1>. QED
  BY <1>2, <1>3, GateKeeps, SameEvents DEF Recorded

LEMMA RecordGateKeeps ==
    ASSUME IInv, GateReads, RecordGate
    PROVE  IInv'
<1>1. run.pc \in {"carried", "record"} /\ run.from \in Sites
  BY ActiveRun DEF RecordGate, At
<1>2. RecordSound' /\ KeepsDocs
  BY SameRecords DEF RecordGate
<1>3. Carried(run.from, run.to) => Kept(run.to) \/ ~Pointed(run.from)
  BY <1>1, CarriedKept
<1>4. Carried(run.from, run.to) /\ Goes("serve") => RunTyped' /\ RunSound'
  BY <1>1, <1>2, <1>3, GoesOn DEF RecordGate, Pcs, Verified, Moved, Gone
<1>5. Gate(Carried(run.from, run.to), "serve") /\ UNCHANGED events
  BY DEF RecordGate, GateReads
<1>6. Carried(run.from, run.to) \in BOOLEAN
  BY DEF Carried
<1>. QED
  BY <1>2, <1>4, <1>5, <1>6, GateKeeps, SameEvents DEF RecordGate

LEMMA ServeGateKeeps ==
    ASSUME IInv, ServeGate
    PROVE  IInv'
<1>1. run.pc = "serve"
  BY DEF ServeGate, At
<1>2. RecordSound' /\ KeepsDocs
  BY SameRecords DEF ServeGate
<1>3. Kept(run.to) \/ ~Pointed(run.from)
  BY <1>1 DEF IInv, RunSound
<1>4. Serves(run.to) /\ Goes("add") => RunTyped' /\ RunSound'
  BY <1>1, <1>2, <1>3, GoesOn DEF ServeGate, Pcs, Moved, Gone
<1>5. Serves(run.to) \in BOOLEAN
  BY DEF Serves
<1>. QED
  BY <1>2, <1>4, <1>5, GateKeeps, SameEvents DEF ServeGate

LEMMA AddGateKeeps ==
    ASSUME IInv, AddGate
    PROVE  IInv'
<1>1. run.pc = "add" /\ Serves(run.to)
  BY DEF AddGate, At, IInv, RunSound, Verified
<1>2. RecordSound' /\ KeepsDocs
  BY SameRecords DEF AddGate
<1>3. \A h \in Hostnames : run.to \in points[h]
  BY DEF AddGate, Ready, Missing
<1>4. RunTyped' /\ RunSound'
  BY <1>1, <1>2, <1>3, GoesOn DEF AddGate, Pcs, Gone
<1>. QED
  BY <1>2, <1>4, RunOnly, SameEvents DEF AddGate

LEMMA RemoveKeeps ==
    ASSUME IInv, Remove
    PROVE  IInv'
<1>1. /\ run.pc = "remove" /\ run.pc # "idle" /\ Serves(run.to)
      /\ \A h \in Hostnames : run.to \in points[h]
  BY DEF Remove, At, IInv, RunSound, Verified, Moved
<1>2. RecordSound' /\ KeepsDocs /\ OnlyRun /\ UNCHANGED events
  BY SameRecords DEF Remove
<1>3. RunTyped' /\ RunSound'
  <2> DEFINE todo == {h \in Hostnames : run.from \in points[h]}
  <2>1. run' = [run EXCEPT !.pc = "deleting", !.deleted = Pointed(run.from), !.todo = todo]
    BY <1>1 DEF Remove
  <2>2. todo \in SUBSET Hostnames /\ Pointed(run.from) \in BOOLEAN
    BY DEF Pointed
  <2>3. /\ run'.pc = "deleting" /\ run'.from = run.from /\ run'.to = run.to /\ run'.todo = todo
        /\ RunTyped'
    <3> HIDE DEF todo
    <3>. QED
      BY <1>1, <2>1, <2>2, ActiveRun DEF RunTyped, Runs, Pcs
  <2>4. /\ run'.from \in Sites /\ run'.to \in Sites \ {run'.from} /\ config' = {run'.to}
        /\ \A s \in Sites : Pointed(s)' => s \in {run'.from, run'.to}
    BY <1>1, <1>2, <2>3, ActiveRun DEF OnlyRun, Pointed
  <2>5. Serves(run.to) <=> caddy'[run'.to] = "gateway"
    BY <1>2, <2>3 DEF OnlyRun, Serves
  <2>. QED
    BY <1>1, <1>2, <2>3, <2>4, <2>5 DEF RunSound, Verified, Moved, Gone, OnlyRun, Serves
<1>. QED
  BY <1>2, <1>3, RunOnly, SameEvents

LEMMA RemoveGateKeeps ==
    ASSUME IInv, RemoveGate
    PROVE  IInv'
<1>1. /\ run.pc = "remove" /\ Serves(run.to)
      /\ \A h \in Hostnames : run.to \in points[h]
  BY DEF RemoveGate, At, IInv, RunSound, Verified, Moved
<1>2. RecordSound' /\ KeepsDocs
  BY SameRecords DEF RemoveGate
<1>3. Ours(run.from, run.to) => Marked(run.from)
  BY DEF Ours, Marked
<1>4. ~Pointed(run.from) /\ Ours(run.from, run.to) /\ Goes("wait") => RunTyped' /\ RunSound'
  BY <1>1, <1>2, <1>3, GoesOn DEF RemoveGate, Pcs
<1>5. (~Pointed(run.from) /\ Ours(run.from, run.to)) \in BOOLEAN
  OBVIOUS
<1>. QED
  BY <1>2, <1>4, <1>5, GateKeeps, SameEvents DEF RemoveGate

LEMMA WaitKeeps ==
    ASSUME IInv, Wait
    PROVE  IInv'
<1>1. /\ run.pc = "wait" /\ Serves(run.to) /\ Marked(run.from) /\ ~Pointed(run.from)
      /\ \A h \in Hostnames : run.to \in points[h]
  BY DEF Wait, At, IInv, RunSound, Verified, Moved, Gone
<1>2. RecordSound' /\ KeepsDocs
  BY SameRecords DEF Wait
<1>3. Waited /\ Goes("stop") => RunTyped' /\ RunSound'
  BY <1>1, <1>2, GoesOn DEF Wait, Waited, Pcs
<1>4. Waited \in BOOLEAN
  BY DEF Waited
<1>. QED
  BY <1>2, <1>3, <1>4, GateKeeps, SameEvents DEF Wait

-----------------------------------------------------------------------------
(* The steps that change what is published, what is marked and what serves. *)

LEMMA TypedParts ==
    ASSUME IInv
    PROVE  /\ docs \in [Sites -> Doc \cup {None}]
           /\ config \in SUBSET Sites /\ config # {}
           /\ caddy \in [Sites -> {"none", "monitor", "gateway"}]
           /\ points \in [Hostnames -> SUBSET Sites]
           /\ cached \in [Sites -> 0..TTL]
           /\ marker \in [Sites -> {None} \cup [to : Sites, left : 0..TTL]]
           /\ late \in SUBSET Sites /\ RunTyped
           /\ declares \in 0..MaxDeclares /\ events \in 0..MaxEvents
BY DEF IInv, TypeOK, RecordTypeOK, RunTyped, Runs, Pcs

LEMMA PartsTyped ==
    ASSUME RecordSound', RunTyped',
           config' \in SUBSET Sites, config' # {},
           caddy' \in [Sites -> {"none", "monitor", "gateway"}],
           points' \in [Hostnames -> SUBSET Sites],
           cached' \in [Sites -> 0..TTL],
           marker' \in [Sites -> {None} \cup [to : Sites, left : 0..TTL]],
           late' \in SUBSET Sites, declares' \in 0..MaxDeclares, events' \in 0..MaxEvents
    PROVE  TypeOK'
BY DEF TypeOK, RecordSound, RunTyped, Runs, Pcs

LEMMA AddRecordKeeps ==
    ASSUME IInv, NEW h \in Hostnames, AddRecord(h)
    PROVE  IInv'
<1> DEFINE from == run.from
           to == run.to
<1>1. /\ run.pc = "add" /\ from \in Sites /\ to \in Sites /\ from # to /\ config = {to}
      /\ Serves(to) /\ to \notin points[h] /\ RunTyped
      /\ \A s \in Sites : Pointed(s) => s \in {from, to}
  BY ActiveRun DEF AddRecord, At, Missing, IInv, RunSound, Verified
<1>2. points' = [points EXCEPT ![h] = @ \cup {to}] /\ cached' = [cached EXCEPT ![to] = TTL]
  BY DEF AddRecord
<1>3. RecordSound' /\ UNCHANGED <<docs, config, caddy, marker, run, late, declares, events>>
  BY SameRecords DEF AddRecord, recordVars
\* A hostname without the new gateway's address has the old one's.
<1>4. Kept(to)
  <2>1. Pointed(from)
    <3>1. PICK s \in points[h] : s \in Sites
      BY TypedParts DEF IInv, PointsServed
    <3>2. Pointed(s)
      BY <3>1 DEF Pointed
    <3>. QED
      BY <1>1, <3>1, <3>2
  <2>. QED
    BY <1>1, <2>1 DEF IInv, RunSound
<1>. HIDE DEF from, to
<1>5. TypeOK'
  <2>1. RunTyped'
    BY <1>1, <1>3 DEF RunTyped
  <2>2. points' \in [Hostnames -> SUBSET Sites] /\ cached' \in [Sites -> 0..TTL]
    BY <1>1, <1>2, TypedParts, Constants
  <2>. QED
    BY <1>3, <2>1, <2>2, TypedParts, PartsTyped
<1>6. \A s \in Sites : Pointed(s)' => Pointed(s) \/ s = to
  BY <1>2, TypedParts DEF Pointed
<1>7. PointsServed'
  <2>1. \A x \in Hostnames : points'[x] # {}
    BY <1>2, TypedParts DEF IInv, PointsServed
  <2>2. \A s \in Sites : Pointed(s)' => caddy'[s] = "gateway" /\ docs'[s] # None
    BY <1>1, <1>3, <1>4, <1>6 DEF IInv, PointsServed, Serves, Kept
  <2>. QED
    BY <2>1, <2>2 DEF PointsServed, Serves, Kept
<1>8. \A s \in Sites : s # to => cached'[s] = cached[s]
  BY <1>2, TypedParts
<1>9. MarkersSound'
  <2>1. \A s \in Sites : s # to => (Pointed(s)' => Pointed(s))
    BY <1>6
  <2>2. to \in late \/ ~Marked(to)
    BY <1>1 DEF IInv, MarkersSound
  <2>. QED
    BY <1>3, <1>8, <2>1, <2>2 DEF IInv, MarkersSound, Marked
<1>10. NothingLeft' /\ StragglersServed'
  BY <1>1, <1>3, <1>4, <1>8 DEF IInv, NothingLeft, StragglersServed, Kept, Marked, Serves
<1>11. RunSound'
  <2>1. \A s \in Sites : Pointed(s)' => s \in {from, to}
    BY <1>1, <1>6
  <2>2. run'.pc = "add" /\ run'.from = from /\ run'.to = to /\ config' = {to}
    BY <1>1, <1>3 DEF from, to
  <2>3. caddy'[to] = "gateway" /\ docs'[to] # None
    BY <1>1, <1>3, <1>4 DEF Serves, Kept
  <2>. QED
    BY <1>1, <2>1, <2>2, <2>3 DEF RunSound, Verified, Moved, Gone, Serves, Kept
<1>. QED
  BY <1>3, <1>5, <1>7, <1>9, <1>10, <1>11 DEF IInv

LEMMA DeleteRecordKeeps ==
    ASSUME IInv, NEW h \in Hostnames, DeleteRecord(h)
    PROVE  IInv'
<1> DEFINE from == run.from
           to == run.to
<1>1. /\ run.pc = "deleting" /\ from \in Sites /\ to \in Sites /\ from # to /\ config = {to}
      /\ run # Idle /\ Serves(to) /\ RunTyped
      /\ \A s \in Sites : Pointed(s) => s \in {from, to}
      /\ \A x \in Hostnames : to \in points[x]
      /\ run.todo = {x \in Hostnames : from \in points[x]}
  BY ActiveRun DEF DeleteRecord, At, IInv, RunSound, Verified, Moved
<1>2. Pointed(from) /\ Serves(from) /\ Kept(from)
  BY <1>1 DEF DeleteRecord, Pointed, IInv, PointsServed
<1>3. /\ points' = [points EXCEPT ![h] = @ \ {from}] /\ cached' = [cached EXCEPT ![from] = TTL]
      /\ run' = [run EXCEPT !.todo = @ \ {h}]
  BY DEF DeleteRecord
<1>4. RecordSound' /\ UNCHANGED <<docs, config, caddy, marker, late, declares, events>>
  BY SameRecords DEF DeleteRecord, recordVars
<1>5. /\ RunTyped' /\ run'.pc = "deleting" /\ run'.from = from /\ run'.to = to
      /\ run'.todo = run.todo \ {h}
  BY <1>1, <1>3 DEF RunTyped, Runs, Idle
<1>. HIDE DEF from, to
<1>6. TypeOK'
  <2>1. points' \in [Hostnames -> SUBSET Sites] /\ cached' \in [Sites -> 0..TTL]
    BY <1>1, <1>3, TypedParts, Constants
  <2>. QED
    BY <1>4, <1>5, <2>1, TypedParts, PartsTyped
<1>7. \A s \in Sites : Pointed(s)' => Pointed(s)
  BY <1>3, TypedParts DEF Pointed
<1>8. \A x \in Hostnames : to \in points'[x]
  BY <1>1, <1>3, TypedParts
<1>9. PointsServed'
  BY <1>4, <1>7, <1>8 DEF IInv, PointsServed, Serves, Kept
<1>10. \A s \in Sites : s # from => cached'[s] = cached[s]
  BY <1>3, TypedParts
<1>11. MarkersSound'
  <2>1. from \in late \/ ~Marked(from)
    BY <1>1, <1>2 DEF IInv, MarkersSound
  <2>. QED
    BY <1>4, <1>7, <1>10, <2>1 DEF IInv, MarkersSound, Marked
<1>12. NothingLeft' /\ StragglersServed'
  BY <1>2, <1>4, <1>10 DEF IInv, NothingLeft, StragglersServed, Kept, Marked, Serves
<1>13. RunSound'
  <2>1. run'.todo = {x \in Hostnames : from \in points'[x]}
    BY <1>1, <1>3, <1>5, TypedParts
  <2>2. caddy'[to] = "gateway"
    BY <1>1, <1>4 DEF Serves
  <2>3. \A s \in Sites : Pointed(s)' => s \in {from, to}
    BY <1>1, <1>7
  <2>. QED
    BY <1>1, <1>4, <1>5, <1>8, <2>1, <2>2, <2>3 DEF RunSound, Verified, Moved, Gone, Serves
<1>. QED
  BY <1>4, <1>6, <1>9, <1>11, <1>12, <1>13 DEF IInv

LEMMA MarkKeeps ==
    ASSUME IInv, Mark
    PROVE  IInv'
<1> DEFINE from == run.from
           to == run.to
<1>1. /\ run.pc = "deleting" /\ from \in Sites /\ to \in Sites /\ from # to /\ config = {to}
      /\ Serves(to) /\ run.todo = {}
      /\ \A s \in Sites : Pointed(s) => s \in {from, to}
      /\ \A x \in Hostnames : to \in points[x]
      /\ run.todo = {x \in Hostnames : from \in points[x]}
  BY ActiveRun DEF Mark, At, IInv, RunSound, Verified, Moved
<1>2. ~Pointed(from)
  BY <1>1 DEF Pointed
<1>3. /\ RecordSound'
      /\ UNCHANGED <<docs, config, caddy, points, cached, declares, events>>
  BY SameRecords DEF Mark, recordVars
<1>4. RunTyped' /\ run'.pc = "wait" /\ run'.from = from /\ run'.to = to
  BY <1>1, RunGoes DEF Mark, Pcs, SameOtherwise
<1>5. \/ marker' = marker /\ late' = late /\ Marked(from)
      \/ /\ marker' = [marker EXCEPT ![from] = [to |-> to, left |-> TTL]]
         /\ late' = IF Serves(from) THEN late \ {from} ELSE late
  BY DEF Mark, Keeps, Ours, Marked
<1>. HIDE DEF from, to
<1>6. /\ late' \in SUBSET late /\ (from \in late \ late' => Serves(from))
      /\ \A s \in Sites : s # from => (s \in late' <=> s \in late)
  BY <1>5
<1>7. /\ marker' \in [Sites -> {None} \cup [to : Sites, left : 0..TTL]]
      /\ marker'[from] # None /\ \A s \in Sites : s # from => marker'[s] = marker[s]
  <2> DEFINE m == [to |-> to, left |-> TTL]
  <2>1. m \in [to : Sites, left : 0..TTL] /\ m # None
    BY <1>1, Constants
  <2>2. Marked(from) <=> marker[from] # None
    BY DEF Marked
  <2>. HIDE DEF m
  <2>3. CASE marker' = marker /\ Marked(from)
    BY <2>2, <2>3, TypedParts
  <2>4. CASE marker' = [marker EXCEPT ![from] = m]
    <3>1. marker'[from] = m /\ \A s \in Sites : s # from => marker'[s] = marker[s]
      BY <2>4, <1>1, TypedParts
    <3>2. marker' \in [Sites -> {None} \cup [to : Sites, left : 0..TTL]]
      BY <2>1, <2>4, TypedParts
    <3>. QED
      BY <2>1, <3>1, <3>2
  <2>. QED
    BY <1>5, <2>3, <2>4 DEF m
<1>8. TypeOK'
  BY <1>3, <1>4, <1>6, <1>7, TypedParts, PartsTyped
<1>9. PointsServed'
  BY <1>3 DEF IInv, PointsServed, Pointed, Serves, Kept
<1>10. from \notin late' => cached'[from] <= marker'[from].left
  <2>1. cached[from] <= TTL /\ cached' = cached
    BY <1>1, <1>3, TypedParts, Constants
  <2>2. CASE marker' = marker /\ late' = late /\ Marked(from)
    BY <1>1, <1>3, <2>2 DEF IInv, MarkersSound
  <2>3. CASE marker' = [marker EXCEPT ![from] = [to |-> to, left |-> TTL]]
    <3>1. marker'[from].left = TTL
      BY <1>1, <2>3, TypedParts
    <3>. QED
      BY <2>1, <3>1
  <2>. QED
    BY <1>5, <2>2, <2>3
<1>11. MarkersSound'
  <2>1. \A s \in Sites : Pointed(s)' => Pointed(s)
    BY <1>3 DEF Pointed
  <2>2. \A s \in config' : s # from
    BY <1>1, <1>3
  <2>3. config \in SUBSET Sites
    BY TypedParts
  <2>. QED
    BY <1>2, <1>3, <1>6, <1>7, <1>10, <2>1, <2>2, <2>3 DEF IInv, MarkersSound, Marked
<1>12. NothingLeft' /\ StragglersServed'
  <2>1. \A s \in Sites \ late' : s # from => s \in Sites \ late
    BY <1>6
  <2>2. from \notin late' => (cached[from] > 0 => Serves(from))
    BY <1>1, <1>6 DEF IInv, StragglersServed
  <2>. QED
    BY <1>3, <1>7, <2>1, <2>2 DEF IInv, NothingLeft, StragglersServed, Kept, Marked, Serves
<1>13. RunSound'
  <2>1. caddy'[to] = "gateway" /\ config' = {to} /\ \A x \in Hostnames : to \in points'[x]
    BY <1>1, <1>3 DEF Serves
  <2>2. \A s \in Sites : Pointed(s)' => s \in {from, to}
    BY <1>1, <1>3 DEF Pointed
  <2>3. \A x \in Hostnames : from \notin points'[x]
    BY <1>2, <1>3 DEF Pointed
  <2>. QED
    BY <1>1, <1>4, <1>7, <2>1, <2>2, <2>3 DEF RunSound, Verified, Moved, Gone, Serves, Marked, Pointed
<1>. QED
  BY <1>3, <1>8, <1>9, <1>11, <1>12, <1>13 DEF IInv

(* A marker with nothing left to wait for says there are no stragglers.    *)
LEMMA WaitOver ==
    ASSUME IInv, NEW s \in Sites, Marked(s), marker[s].left = 0
    PROVE  s \in late \/ cached[s] = 0
<1>1. cached[s] \in 0..TTL /\ TTL \in Nat
  BY TypedParts, Constants
<1>2. s \notin late => cached[s] <= 0
  BY DEF IInv, MarkersSound
<1>. QED
  BY <1>1, <1>2

(* A site's Caddy may stop serving once no name is at its address, and no  *)
(* resolver holds it.                                                      *)
LEMMA CaddyKeeps ==
    ASSUME IInv, NEW s \in Sites, NEW c \in {"none", "monitor", "gateway"},
           caddy' = [caddy EXCEPT ![s] = c],
           c # "gateway" => ~Pointed(s) /\ (s \in late \/ cached[s] = 0),
           RecordSound', KeepsDocs, UNCHANGED <<config, points, cached, marker, late, declares>>,
           RunTyped', RunSound', events' \in 0..MaxEvents
    PROVE  IInv'
<1>1. caddy' \in [Sites -> {"none", "monitor", "gateway"}]
  BY TypedParts
<1>2. TypeOK'
  BY <1>1, TypedParts, PartsTyped
<1>3. \A t \in Sites : \/ caddy'[t] = caddy[t]
                       \/ caddy'[t] = "gateway"
                       \/ ~Pointed(t) /\ (t \in late \/ cached[t] = 0)
  BY TypedParts
<1>4. PointsServed'
  <2>1. \A t \in Sites : Pointed(t)' => Pointed(t)
    BY DEF Pointed
  <2>. QED
    BY <1>3, <2>1 DEF IInv, PointsServed, Serves, Kept, KeepsDocs
<1>5. MarkersSound' /\ NothingLeft'
  BY DEF IInv, MarkersSound, NothingLeft, KeepsDocs, Kept, Marked, Pointed
<1>6. StragglersServed'
  <2>1. \A t \in Sites : cached[t] \in Nat
    BY TypedParts, Constants
  <2>. QED
    BY <1>3, <2>1 DEF IInv, StragglersServed, Serves
<1>. QED
  BY <1>2, <1>4, <1>5, <1>6 DEF IInv

(* What an apply renders for a monitor's Caddy keeps to that.              *)
LEMMA RenderedFits ==
    ASSUME IInv, NEW s \in Sites
    PROVE  /\ Rendered(s) \in {"none", "monitor", "gateway"}
           /\ Rendered(s) # "gateway" => ~Pointed(s) /\ (s \in late \/ cached[s] = 0)
BY DEF Rendered, IInv, PointsServed, NothingLeft, Kept, Marked

(* A run is where it was when its new gateway's Caddy still serves.        *)
LEMMA RunStays ==
    ASSUME IInv, UNCHANGED <<run, config, points, marker>>, KeepsDocs,
           run.pc # "idle" /\ Serves(run.to) => caddy'[run.to] = "gateway"
    PROVE  RunTyped' /\ RunSound'
<1>1. RunTyped'
  BY TypedParts DEF RunTyped
<1>2. run'.pc = run.pc /\ run'.from = run.from /\ run'.to = run.to /\ run'.todo = run.todo
  OBVIOUS
<1>3. CASE run.pc = "idle"
  BY <1>1, <1>2, <1>3 DEF RunSound, Verified, Moved, Gone
<1>4. CASE run.pc # "idle"
  <2>1. run.to \in Sites /\ run.from \in Sites \ {run.to} /\ config' = {run.to}
    BY <1>4, ActiveRun
  <2>2. \A s \in Sites : Pointed(s)' => s \in {run.from, run.to}
    BY <1>4, ActiveRun DEF Pointed
  <2>3. run.pc \in {"serve", "add"} => docs'[run.to] # None \/ ~Pointed(run.from)
    BY <2>1 DEF IInv, RunSound, KeepsDocs, Kept
  <2>4. run.pc \in Verified => caddy'[run.to] = "gateway"
    BY <1>4 DEF IInv, RunSound
  <2>5. /\ run.pc \in Moved => \A h \in Hostnames : run.to \in points'[h]
        /\ run.pc = "deleting" => run.todo = {h \in Hostnames : run.from \in points'[h]}
        /\ run.pc \in Gone => ~Pointed(run.from)
        /\ run.pc \in {"wait", "stop", "forget"} => marker'[run.from] # None
        /\ run.pc \in {"stop", "forget"} => marker'[run.from].left = 0
    BY DEF IInv, RunSound, Marked
  <2>6. ~Pointed(run.from) => \A h \in Hostnames : run.from \notin points'[h]
    BY DEF Pointed
  <2>. HIDE DEF Verified, Moved, Gone
  <2>. QED
    BY <1>1, <1>2, <2>1, <2>2, <2>3, <2>4, <2>5, <2>6
       DEF RunSound, Kept, Serves, Marked, Pointed
<1>. QED
  BY <1>1, <1>3, <1>4

LEMMA ApplyGatewayKeeps ==
    ASSUME IInv, NEW w \in Operators, NEW s \in Sites, NEW names \in SUBSET Names,
           ApplyGateway(w, s, names), UNCHANGED events \/ Event
    PROVE  IInv'
<1>1. RecordSound' /\ KeepsDocs
  BY BeginKeeps, TypedParts DEF ApplyGateway, IInv
<1>2. /\ caddy' = [caddy EXCEPT ![s] = "gateway"]
      /\ UNCHANGED <<config, points, cached, marker, run, late, declares>>
  BY DEF ApplyGateway
<1>3. \A t \in Sites : Serves(t) => caddy'[t] = "gateway"
  BY <1>2, TypedParts DEF Serves
<1>4. RunTyped' /\ RunSound'
  BY <1>1, <1>2, <1>3, RunStays, ActiveRun
<1>. QED
  BY <1>1, <1>2, <1>4, CaddyKeeps, SameEvents

LEMMA ApplyMonitorKeeps ==
    ASSUME IInv, NEW s \in Monitors, ApplyMonitor(s)
    PROVE  IInv'
<1>1. s \in Sites /\ s \notin config
  BY Constants DEF ApplyMonitor
<1>2. /\ caddy' = [caddy EXCEPT ![s] = Rendered(s)]
      /\ UNCHANGED <<config, points, cached, marker, run, late, declares>>
  BY DEF ApplyMonitor
<1>3. RecordSound' /\ KeepsDocs
  BY SameRecords DEF ApplyMonitor
<1>4. \A t \in Sites : t # s => caddy'[t] = caddy[t]
  BY <1>2, TypedParts
<1>5. run.pc # "idle" => run.to \in Sites /\ run.to # s
  BY <1>1, ActiveRun
<1>6. RunTyped' /\ RunSound'
  BY <1>2, <1>3, <1>4, <1>5, RunStays DEF Serves
<1>. QED
  BY <1>1, <1>2, <1>3, <1>6, RenderedFits, CaddyKeeps, SameEvents DEF ApplyMonitor

LEMMA StopCaddyKeeps ==
    ASSUME IInv, StopCaddy
    PROVE  IInv'
<1>1. /\ run.pc = "stop" /\ run.from \in Sites /\ run.to \in Sites /\ run.from # run.to
      /\ Serves(run.to) /\ ~Pointed(run.from) /\ Marked(run.from) /\ marker[run.from].left = 0
      /\ \A h \in Hostnames : run.to \in points[h]
  BY ActiveRun DEF StopCaddy, At, IInv, RunSound, Verified, Moved, Gone
<1>2. run.from \in late \/ cached[run.from] = 0
  BY <1>1, WaitOver
<1>3. /\ Goes("forget") /\ UNCHANGED <<config, points, cached, marker, late, declares, events>>
      /\ caddy' = IF run.from \notin Monitors THEN [caddy EXCEPT ![run.from] = "none"] ELSE caddy
  BY <1>1 DEF StopCaddy, Gate
<1>4. RecordSound' /\ KeepsDocs
  BY SameRecords DEF StopCaddy
<1>5. \A t \in Sites : t # run.from => caddy'[t] = caddy[t]
  BY <1>3, TypedParts
<1>6. RunTyped' /\ RunSound'
  <2>1. RunTyped' /\ run'.pc = "forget" /\ run'.from = run.from /\ run'.to = run.to
    BY <1>1, <1>3, RunGoes DEF Pcs, SameOtherwise
  <2>2. config' = {run.to} /\ \A s \in Sites : Pointed(s)' => s \in {run.from, run.to}
    BY <1>1, <1>3, ActiveRun DEF Pointed
  <2>3. caddy'[run.to] = "gateway"
    BY <1>1, <1>5 DEF Serves
  <2>4. \A h \in Hostnames : run.from \notin points'[h] /\ run.to \in points'[h]
    BY <1>1, <1>3 DEF Pointed
  <2>. QED
    BY <1>1, <1>3, <2>1, <2>2, <2>3, <2>4
       DEF RunSound, Verified, Moved, Gone, Serves, Marked, Pointed
<1>7. CASE run.from \notin Monitors
  BY <1>1, <1>2, <1>3, <1>4, <1>6, <1>7, CaddyKeeps, SameEvents
<1>8. CASE run.from \in Monitors
  <2>1. OnlyRun /\ events' \in 0..MaxEvents
    BY <1>3, <1>8, SameEvents DEF OnlyRun
  <2>. QED
    BY <2>1, <1>4, <1>6, RunOnly
<1>. QED
  BY <1>7, <1>8

LEMMA HandOffKeeps ==
    ASSUME IInv, HandOff
    PROVE  IInv'
<1>1. run.from \in Sites
  BY ActiveRun DEF HandOff, At
<1>2. /\ UNCHANGED <<config, points, cached, marker, late, declares, events>> /\ run' = Idle
      /\ caddy' = IF Do("handoff") THEN [caddy EXCEPT ![run.from] = Rendered(run.from)] ELSE caddy
  BY DEF HandOff
<1>3. RecordSound' /\ KeepsDocs /\ RunTyped' /\ RunSound' /\ events' \in 0..MaxEvents
  BY <1>2, SameRecords, IdleRun, SameEvents DEF HandOff
<1>4. CASE Do("handoff")
  BY <1>1, <1>2, <1>3, <1>4, RenderedFits, CaddyKeeps
<1>5. CASE ~Do("handoff")
  BY <1>2, <1>3, <1>5, RunOnly DEF OnlyRun
<1>. QED
  BY <1>4, <1>5

LEMMA ForgetKeeps ==
    ASSUME IInv, Forget
    PROVE  IInv'
<1> DEFINE from == run.from
           to == run.to
<1>1. /\ run.pc = "forget" /\ run # Idle /\ from \in Sites /\ to \in Sites /\ from # to
      /\ config = {to}
      /\ ~Pointed(from) /\ Marked(from) /\ marker[from].left = 0
      /\ \A s \in Sites : Pointed(s) => s \in {from, to}
  BY ActiveRun DEF Forget, At, IInv, RunSound, Gone
<1>2. from \in late \/ cached[from] = 0
  BY <1>1, WaitOver
<1>3. /\ docs' = [docs EXCEPT ![from] = None] /\ marker' = [marker EXCEPT ![from] = None]
      /\ UNCHANGED <<upd, tags, due, config, caddy, points, cached, late, declares, events>>
      /\ run' = Idle \/ Goes("handoff")
  BY DEF Forget
<1>4. Goes("handoff") => RunTyped' /\ run'.pc = "handoff" /\ run'.from = from /\ run'.to = to
  BY <1>1, RunGoes DEF Pcs, SameOtherwise
<1>5. RunTyped'
  BY <1>3, <1>4, IdleRun
<1>. HIDE DEF from, to
<1>6. docs' \in [Sites -> Doc \cup {None}] /\ \A s \in Sites : s # from => docs'[s] = docs[s]
  BY <1>1, <1>3, TypedParts
<1>7. marker'[from] = None /\ \A s \in Sites : s # from => marker'[s] = marker[s]
  BY <1>1, <1>3, TypedParts
<1>8. RecordSound'
  BY <1>3, <1>6 DEF IInv, RecordSound, RecordTypeOK
<1>9. TypeOK'
  <2>1. marker' \in [Sites -> {None} \cup [to : Sites, left : 0..TTL]]
    BY <1>3, TypedParts
  <2>. QED
    BY <1>3, <1>5, <1>8, <2>1, TypedParts, PartsTyped
<1>10. PointsServed'
  <2>1. \A s \in Sites : Pointed(s)' => Pointed(s) /\ s # from
    BY <1>1, <1>3 DEF Pointed
  <2>. QED
    BY <1>3, <1>6, <2>1 DEF IInv, PointsServed, Serves, Kept
<1>11. MarkersSound'
  <2>1. \A s \in Sites : Pointed(s)' => Pointed(s)
    BY <1>3 DEF Pointed
  <2>2. config \in SUBSET Sites
    BY TypedParts
  <2>. QED
    BY <1>3, <1>7, <2>1, <2>2 DEF IInv, MarkersSound, Marked
<1>12. NothingLeft' /\ StragglersServed'
  BY <1>2, <1>3, <1>6, <1>7 DEF IInv, NothingLeft, StragglersServed, Kept, Marked, Serves
<1>13. RunSound'
  <2>1. CASE run' = Idle
    BY <2>1, IdleRun
  <2>2. CASE Goes("handoff")
    <3>1. \A s \in Sites : Pointed(s)' => s \in {from, to}
      BY <1>1, <1>3 DEF Pointed
    <3>2. \A h \in Hostnames : from \notin points'[h]
      BY <1>1, <1>3 DEF Pointed
    <3>. QED
      BY <1>1, <1>3, <1>4, <2>2, <3>1, <3>2 DEF RunSound, Verified, Moved, Gone, Pointed
  <2>. QED
    BY <1>3, <2>1, <2>2
<1>. QED
  BY <1>8, <1>9, <1>10, <1>11, <1>12, <1>13 DEF IInv

LEMMA DeclareKeeps ==
    ASSUME IInv, NEW G \in (SUBSET Sites) \ {{}}, Declare(G)
    PROVE  IInv'
<1>1. /\ config' = G /\ late' = late \cup {s \in G : marker[s] # None} /\ declares' \in 0..MaxDeclares
      /\ run' = Idle /\ UNCHANGED <<docs, caddy, points, cached, marker, run, events>>
  BY TypedParts, Constants DEF Declare, recordVars
<1>2. RecordSound' /\ RunTyped' /\ RunSound'
  BY <1>1, SameRecords, IdleRun DEF Declare
<1>3. late' \in SUBSET Sites /\ late \subseteq late'
  BY <1>1, TypedParts
<1>4. TypeOK'
  BY <1>1, <1>2, <1>3, TypedParts, PartsTyped
<1>5. PointsServed' /\ NothingLeft' /\ StragglersServed'
  BY <1>1, <1>3 DEF IInv, PointsServed, NothingLeft, StragglersServed, Kept, Marked, Pointed, Serves
<1>6. MarkersSound'
  BY <1>1, <1>3 DEF IInv, MarkersSound, Marked, Pointed
<1>. QED
  BY <1>2, <1>4, <1>5, <1>6 DEF IInv

LEMMA TickKeeps ==
    ASSUME IInv, Tick
    PROVE  IInv'
<1>1. /\ cached' = [s \in Sites |-> IF cached[s] > 0 /\ ~Pointed(s) THEN cached[s] - 1 ELSE cached[s]]
      /\ marker' = [s \in Sites |-> IF marker[s] # None /\ marker[s].left > 0
                                    THEN [marker[s] EXCEPT !.left = @ - 1] ELSE marker[s]]
      /\ UNCHANGED <<docs, config, caddy, points, run, late, declares, events>>
  BY DEF Tick, recordVars
<1>2. RecordSound' /\ KeepsDocs
  BY SameRecords DEF Tick
<1>3. ASSUME NEW s \in Sites
      PROVE  /\ cached[s] \in Nat /\ cached'[s] \in 0..TTL /\ cached'[s] \in Nat
             /\ cached'[s] <= cached[s]
             /\ cached[s] = 0 => cached'[s] = 0
             /\ ~Pointed(s) /\ cached[s] # 0 => cached'[s] = cached[s] - 1
  <2>1. cached[s] \in 0..TTL /\ TTL \in Nat
    BY TypedParts, Constants
  <2>. QED
    BY <1>1, <2>1
<1>4. ASSUME NEW s \in Sites, Marked(s)
      PROVE  /\ marker'[s] \in [to : Sites, left : 0..TTL] /\ marker'[s] # None
             /\ marker[s].left \in Nat
             /\ marker'[s].left = IF marker[s].left = 0 THEN 0 ELSE marker[s].left - 1
  <2>1. marker[s] \in [to : Sites, left : 0..TTL] /\ TTL \in Nat
    BY <1>4, TypedParts, Constants DEF Marked
  <2>2. marker[s].left \in 0..TTL
    BY <2>1
  <2>3. /\ marker'[s] \in [to : Sites, left : 0..TTL]
        /\ marker'[s].left = IF marker[s].left = 0 THEN 0 ELSE marker[s].left - 1
    BY <1>1, <1>4, <2>1, <2>2 DEF Marked
  <2>4. [to : Sites, left : 0..TTL] \subseteq [to : Sites, left : Nat]
    OBVIOUS
  <2>. QED
    BY <2>1, <2>2, <2>3, <2>4, Constants
<1>5. \A s \in Sites : ~Marked(s) => marker'[s] = None
  BY <1>1 DEF Marked
<1>6. cached' \in [Sites -> 0..TTL] /\ marker' \in [Sites -> {None} \cup [to : Sites, left : 0..TTL]]
  <2>1. DOMAIN marker' = Sites /\ marker' = [s \in Sites |-> marker'[s]]
    BY <1>1
  <2>2. \A s \in Sites : marker'[s] \in {None} \cup [to : Sites, left : 0..TTL]
    BY <1>4, <1>5
  <2>3. DOMAIN cached' = Sites /\ cached' = [s \in Sites |-> cached'[s]]
    BY <1>1
  <2>. QED
    BY <1>3, <2>1, <2>2, <2>3
<1>7. RunTyped'
  BY <1>1, TypedParts DEF RunTyped
<1>8. TypeOK'
  BY <1>1, <1>2, <1>6, <1>7, TypedParts, PartsTyped
<1>9. \A s \in Sites : Pointed(s)' <=> Pointed(s)
  BY <1>1 DEF Pointed
<1>10. PointsServed'
  BY <1>1, <1>9 DEF IInv, PointsServed, Serves, Kept
<1>11. MarkersSound'
  <2>1. ASSUME NEW s \in Sites \ late, Marked(s) PROVE cached'[s] <= marker'[s].left
    <3>1. ~Pointed(s) /\ cached[s] <= marker[s].left
      BY <2>1 DEF IInv, MarkersSound
    <3>. QED
      BY <2>1, <3>1, <1>3, <1>4
  <2>2. config \in SUBSET Sites
    BY TypedParts
  <2>. QED
    BY <1>1, <1>5, <1>9, <2>1, <2>2 DEF IInv, MarkersSound, Marked
<1>12. NothingLeft'
  BY <1>1, <1>3, <1>4 DEF IInv, NothingLeft, Kept, Marked
<1>13. StragglersServed'
  <2>1. ASSUME NEW s \in Sites, cached'[s] > 0 PROVE cached[s] > 0
    BY <1>3, <2>1
  <2>. QED
    BY <1>1, <2>1 DEF IInv, StragglersServed, Serves
<1>14. RunSound'
  <2>1. run'.pc = run.pc /\ run'.from = run.from /\ run'.to = run.to /\ run'.todo = run.todo
    BY <1>1
  <2>2. run.pc \in {"wait", "stop", "forget"} => run.from \in Sites /\ Marked(run.from)
    BY ActiveRun DEF IInv, RunSound
  <2>3. run.pc \in {"wait", "stop", "forget"} => marker'[run.from] # None
    BY <1>4, <2>2
  <2>4. run.pc \in {"stop", "forget"} => marker'[run.from].left = 0
    <3>1. run.pc \in {"stop", "forget"} => marker[run.from].left = 0
      BY DEF IInv, RunSound
    <3>. QED
      BY <1>4, <2>2, <3>1
  <2>5. \A s : Pointed(s)' <=> Pointed(s)
    BY <1>1 DEF Pointed
  <2>. HIDE DEF Verified, Moved, Gone
  <2>6. /\ run.pc # "idle" =>
              /\ run.from \in Sites /\ run.to \in Sites \ {run.from} /\ config' = {run.to}
              /\ \A s \in Sites : Pointed(s) => s \in {run.from, run.to}
        /\ run.pc \in {"serve", "add"} => docs'[run.to] # None \/ ~Pointed(run.from)
        /\ run.pc \in Verified => caddy'[run.to] = "gateway"
        /\ run.pc \in Moved => \A h \in Hostnames : run.to \in points'[h]
        /\ run.pc = "deleting" => run.todo = {h \in Hostnames : run.from \in points'[h]}
        /\ run.pc \in Gone => ~Pointed(run.from)
    BY <1>1 DEF IInv, RunSound, Kept, Serves
  <2>7. ~Pointed(run.from) => \A h \in Hostnames : run.from \notin points'[h]
    BY <1>1 DEF Pointed
  <2>8. \A s \in Sites : Pointed(s)' => Pointed(s)
    BY <2>5
  <2>. QED
    BY <1>7, <2>1, <2>3, <2>4, <2>6, <2>7, <2>8 DEF RunSound, Kept, Serves, Marked, Pointed
<1>. QED
  BY <1>2, <1>8, <1>10, <1>11, <1>12, <1>13, <1>14 DEF IInv

(* Steps of an update, and of a command beside the move, change no gateway. *)
LEMMA BesideKeeps ==
    ASSUME IInv, RecordSound', KeepsDocs, UNCHANGED gatewayVars, events' \in 0..MaxEvents
    PROVE  IInv'
<1>1. OnlyRun /\ UNCHANGED run
  BY DEF gatewayVars, OnlyRun
<1>2. run.pc # "idle" /\ Serves(run.to) => caddy'[run.to] = "gateway"
  BY <1>1 DEF OnlyRun, Serves
<1>3. RunTyped' /\ RunSound'
  BY <1>1, <1>2, RunStays DEF OnlyRun
<1>. QED
  BY <1>1, <1>3, RunOnly

LEMMA UpdatesKeep ==
    ASSUME IInv, NEW w \in Operators, Update(w) \/ UpdateMishap(w)
    PROVE  IInv'
<1>1. UpdateStep(w) \/ Miss(w) \/ Report(w) \/ Abandon(w)
  BY DEF Update, UpdateMishap
<1>2. RecordSound' /\ KeepsDocs
  BY <1>1, StepKeeps, LeaveKeeps DEF IInv
<1>. QED
  BY <1>2, BesideKeeps, SameEvents DEF Update, UpdateMishap

LEMMA RemoveNamesKeeps ==
    ASSUME IInv, NEW w \in Operators, NEW names \in SUBSET Names, RemoveNames(w, names)
    PROVE  IInv'
<1>1. RecordSound' /\ KeepsDocs
  BY BeginKeeps, TypedParts DEF RemoveNames, IInv
<1>. QED
  BY <1>1, BesideKeeps, SameEvents DEF RemoveNames

LEMMA StopKeeps ==
    ASSUME IInv, Stop
    PROVE  IInv'
<1> DEFINE v == IF At("recording") THEN NoUpdate ELSE upd[Mover]
<1>1. upd' = [upd EXCEPT ![Mover] = v] /\ Mover \in Operators
  BY Constants DEF Stop
<1>2. v \in Updates /\ Fits(v)
  <2>1. NoUpdate \in Updates /\ Fits(NoUpdate)
    BY NoUpdateIsOne DEF Fits, NoUpdate
  <2>2. upd[Mover] \in Updates /\ Fits(upd[Mover])
    BY UpdateFits, Constants DEF IInv
  <2>. QED
    BY <2>1, <2>2
<1>. HIDE DEF v
<1>3. UNCHANGED <<docs, tags, due>>
  BY DEF Stop
<1>4. RecordSound' /\ KeepsDocs
  BY <1>1, <1>2, <1>3, UpdateKeeps DEF IInv, RecordSound, RecordTypeOK, KeepsDocs, Kept
<1>5. RunTyped' /\ RunSound' /\ OnlyRun
  BY IdleRun DEF Stop, OnlyRun
<1>. QED
  BY <1>4, <1>5, RunOnly, SameEvents DEF Stop

-----------------------------------------------------------------------------
(* The invariant.                                                          *)

LEMMA InitHolds ==
    ASSUME Init
    PROVE  IInv
<1>1. 1 \in Sites
  BY RecordAssumption DEF Sites
<1> DEFINE first == [n \in Names |-> [adds |-> {1}, removed |-> {}]]
<1>2. first \in Doc
  BY DEF Doc, Entry
<1>3. /\ docs = [s \in Sites |-> IF s \in {1} THEN first ELSE None]
      /\ upd = [w \in Operators |-> NoUpdate] /\ tags = [n \in Names |-> 1] /\ due = Names
  BY DEF Init, RecordInit
<1>. HIDE DEF first
<1>4. docs \in [Sites -> Doc \cup {None}] /\ docs[1] # None
  BY <1>1, <1>2, <1>3, Constants
<1>5. RecordSound
  <2>1. upd \in [Operators -> Updates]
    BY <1>3, NoUpdateIsOne
  <2>2. \A w \in Operators : upd[w] = NoUpdate
    BY <1>3
  <2>3. \A w \in Operators : DOMAIN upd[w].got = {} /\ upd[w] \in Updates
    BY <2>1, <2>2, NoUpdateIsOne
  <2>4. NoUpdate.todo = {} /\ NoUpdate.missed = {} /\ NoUpdate.hosts = {}
    BY DEF NoUpdate
  <2>5. tags \in [Names -> Nat] /\ due \in SUBSET Names
    BY <1>3
  <2>. QED
    BY <1>4, <2>1, <2>2, <2>3, <2>4, <2>5 DEF RecordSound, RecordTypeOK, Updates
<1>6. /\ config = {1} /\ late = {} /\ declares = 0 /\ events = 0 /\ run = Idle
      /\ caddy = [s \in Sites |-> IF s = 1 THEN "gateway"
                                  ELSE IF s \in Monitors THEN "monitor" ELSE "none"]
      /\ points = [h \in Hostnames |-> {1}]
      /\ cached = [s \in Sites |-> IF s = 1 THEN TTL ELSE 0]
      /\ marker = [s \in Sites |-> None]
  BY DEF Init
<1>7. RunTyped /\ RunSound
  BY <1>6 DEF Idle, Runs, Pcs, RunTyped, RunSound, Verified, Moved, Gone
<1>8. TypeOK
  <2>1. cached \in [Sites -> 0..TTL] /\ declares \in 0..MaxDeclares /\ events \in 0..MaxEvents
    BY <1>6, Constants
  <2>2. /\ config \in (SUBSET Sites) \ {{}} /\ late \in SUBSET Sites
        /\ caddy \in [Sites -> {"none", "monitor", "gateway"}]
        /\ points \in [Hostnames -> SUBSET Sites]
        /\ marker \in [Sites -> {None} \cup [to : Sites, left : 0..TTL]]
    BY <1>1, <1>6
  <2>. QED
    BY <1>5, <1>7, <2>1, <2>2 DEF TypeOK, RecordSound, RunTyped, Runs, Pcs
<1>9. \A s \in Sites : Pointed(s) => s = 1
  BY <1>6 DEF Pointed
<1>10. PointsServed /\ MarkersSound /\ NothingLeft
  BY <1>1, <1>4, <1>6, <1>9 DEF PointsServed, MarkersSound, NothingLeft, Kept, Marked, Serves
<1>11. StragglersServed
  BY <1>1, <1>6 DEF StragglersServed, Serves
<1>. QED
  BY <1>5, <1>7, <1>8, <1>10, <1>11 DEF IInv

LEMMA NextKeeps ==
    ASSUME IInv, GateReads, [Next]_vars
    PROVE  IInv'
<1>1. CASE UNCHANGED vars
  <2>1. UNCHANGED recordVars /\ UNCHANGED gatewayVars /\ UNCHANGED events
    BY <1>1 DEF vars
  <2>. QED
    BY <2>1, SameRecords, SameEvents, BesideKeeps
<1>2. CASE \E G \in (SUBSET Sites) \ {{}} : Declare(G)
  BY <1>2, DeclareKeeps
<1>3. CASE ApplyNew
  <2>1. PICK s \in config : ApplyGateway(Mover, s, {}) /\ UNCHANGED events
    BY <1>3 DEF ApplyNew
  <2>2. s \in Sites /\ Mover \in Operators /\ {} \in SUBSET Names
    BY TypedParts, Constants
  <2>. QED
    BY <2>1, <2>2, ApplyGatewayKeeps
<1>4. CASE \E w \in Operators, s \in Sites, names \in SUBSET Names : Event /\ ApplyGateway(w, s, names)
  BY <1>4, ApplyGatewayKeeps
<1>5. CASE \E w \in Operators, names \in (SUBSET Names) \ {{}} : RemoveNames(w, names)
  BY <1>5, RemoveNamesKeeps
<1>6. CASE \E s \in Monitors : ApplyMonitor(s)
  BY <1>6, ApplyMonitorKeeps
<1>7. CASE \E w \in Operators : Update(w) \/ UpdateMishap(w)
  BY <1>7, UpdatesKeep
<1>8. CASE Build
  BY <1>8, BuildKeeps
<1>9. CASE RunStep
  <2>1. CASE RecordStage \/ Recorded \/ RecordGate \/ ServeGate
    BY <2>1, RecordStageKeeps, RecordedKeeps, RecordGateKeeps, ServeGateKeeps
  <2>2. CASE \E h \in Hostnames : AddRecord(h) \/ DeleteRecord(h)
    BY <2>2, AddRecordKeeps, DeleteRecordKeeps
  <2>3. CASE AddGate \/ Remove \/ Mark \/ RemoveGate \/ Wait
    BY <2>3, AddGateKeeps, RemoveKeeps, MarkKeeps, RemoveGateKeeps, WaitKeeps
  <2>4. CASE StopCaddy \/ Forget \/ HandOff
    BY <2>4, StopCaddyKeeps, ForgetKeeps, HandOffKeeps
  <2>. QED
    BY <1>9, <2>1, <2>2, <2>3, <2>4 DEF RunStep
<1>10. CASE Tick
  BY <1>10, TickKeeps
<1>11. CASE Stop
  BY <1>11, StopKeeps
<1>. QED
  BY <1>1, <1>2, <1>3, <1>4, <1>5, <1>6, <1>7, <1>8, <1>9, <1>10, <1>11 DEF Next

(* The invariant holds of every state the move and the commands beside it  *)
(* reach: a gateway's address is published only where its Caddy serves and *)
(* its host holds the record by which applies keep it serving.             *)
THEOREM Invariance == ASSUME GateReads PROVE Spec => []IInv
<1>1. Init => IInv
  BY InitHolds
<1>2. IInv /\ [Next]_vars => IInv'
  BY NextKeeps
<1>. QED
  BY <1>1, <1>2, PTL DEF Spec

(* Every variable keeps its type, the deployment record's among them.      *)
THEOREM TypeCorrect == ASSUME GateReads PROVE Spec => []TypeOK
<1>1. IInv => TypeOK
  BY DEF IInv
<1>. QED
  BY <1>1, Invariance, PTL

(* Every hostname has the address of a site that serves it, wherever a     *)
(* move stops, is run again or is rolled back, whatever is applied         *)
(* meanwhile.                                                              *)
THEOREM HostnamesServed == ASSUME GateReads PROVE Spec => []AlwaysPublished
<1>1. IInv => AlwaysPublished
  <2>1. ASSUME IInv, NEW h \in Hostnames PROVE \E s \in points[h] : Serves(s)
    <3>1. PICK s \in points[h] : s \in Sites
      BY <2>1, TypedParts DEF IInv, PointsServed
    <3>2. Pointed(s)
      BY <3>1 DEF Pointed
    <3>. QED
      BY <2>1, <3>1, <3>2 DEF IInv, PointsServed
  <2>. QED
    BY <2>1 DEF AlwaysPublished
<1>. QED
  BY <1>1, Invariance, PTL

(* A resolver that holds an address after its record is gone still leads   *)
(* to a Caddy that serves, but where a rolled back move left its marker.   *)
THEOREM StragglersKept == ASSUME GateReads PROVE Spec => []StragglersServed
<1>1. IInv => StragglersServed
  BY DEF IInv
<1>. QED
  BY <1>1, Invariance, PTL

-----------------------------------------------------------------------------
(* No add is lost from the deployment record.                              *)
(*                                                                         *)
(* Two arguments meet.  Where several gateways keep the record, a name     *)
(* that is due has tags which no copy of the record anywhere knows as      *)
(* removed, and which every write under way that saw one of them keeps or  *)
(* replaces by another.  Where one gateway is left, its own record lists   *)
(* the name, whatever the records that are gone knew of its tags.          *)

Writing(w) == upd[w].pc = "write"

(* The records an update read.                                             *)
GotBy(w) == {d \in Doc : \E s \in DOMAIN upd[w].got : upd[w].got[s] = d}

(* Every copy of the record, on a host or in an update; those but what one *)
(* update is to write.                                                     *)
Copies == {d \in Doc : \/ \E s \in Sites : docs[s] = d
                       \/ \E w \in Operators : d \in GotBy(w) \/ upd[w].want = d}

OtherCopies(w) == {d \in Doc : \/ \E s \in Sites : docs[s] = d
                               \/ \E v \in Operators : d \in GotBy(v) \/ (v # w /\ upd[v].want = d)}

Known(e) == e.adds \cup e.removed

(* Tags K of a name: removed in no copy, and no write that saw one of them *)
(* leaves none.                                                            *)
Clean(n, K) ==
    /\ \A d \in Copies : d[n].removed \cap K = {}
    /\ \A w \in Operators : Writing(w) => \A d \in GotBy(w) :
           d[n].adds \cap K # {} => upd[w].want[n].adds \cap K # {}

SafeAt(n, s) == Kept(s) /\ \E K \in SUBSET Nat : Clean(n, K) /\ docs[s][n].adds \cap K # {}

Safe(n) == \E s \in Sites : SafeAt(n, s)

(* No copy knows a tag that is not made yet.                               *)
Fresh == \A d \in Copies, n \in Names : \A t \in Known(d[n]) : t \in Nat /\ t <= tags[n]

(* A tag of an add that is on no gateway yet is in no other copy.          *)
Unsent ==
    \A w \in Operators : Writing(w) /\ Unseen(w) => \A n \in upd[w].add :
        \E t \in upd[w].want[n].adds \ upd[w].want[n].removed :
            \A d \in OtherCopies(w) : t \notin Known(d[n])

(* A gateway is still to do, was missed, or was read.                      *)
Apart(u) == /\ u.todo \cap u.missed = {}
            /\ u.pc = "read" => DOMAIN u.got \cap (u.todo \cup u.missed) = {}

UpdatesSound ==
    \A w \in Operators : /\ Writing(w) => upd[w].todo \subseteq DOMAIN upd[w].got
                         /\ upd[w].pc = "idle" => upd[w] = NoUpdate
                         /\ Apart(upd[w])

CopiesSound == Fresh /\ Unsent /\ UpdatesSound

(* One gateway's record lists a name, and so does what an update of that   *)
(* gateway alone writes when what it read does.                            *)
Lists(n, s) == Kept(s) /\ n \in Listed(docs[s])

KeepsListed(n, s) ==
    \A w \in Operators : Writing(w) /\ upd[w].hosts = {s} =>
        \A d \in GotBy(w) : n \in Listed(d) => n \in Listed(upd[w].want)

ListedAt(n, s) == Lists(n, s) /\ KeepsListed(n, s)

OnlyAt(s) == config = {s} /\ \A r \in Sites \ {s} : ~Kept(r)

Survives == \A n \in due : Safe(n) \/ \E s \in Sites : OnlyAt(s) /\ ListedAt(n, s)

(* While the configuration names one gateway, updates are of it alone, but *)
(* the move's own; no removal under way leaves out what was due all along. *)
OneGateway ==
    \A s \in Sites : config = {s} =>
        /\ \A n \in due : SafeAt(n, s) \/ KeepsListed(n, s)
        /\ \A w \in Operators : \/ upd[w].pc = "idle"
                                \/ upd[w].hosts = {s}
                                \/ w = Mover /\ run.pc = "recording"

(* The two gateways of a move have the only records, and once the new one  *)
(* was seen to have the old one's names, the old one's can go.             *)
Carrying == {"serve", "add", "remove", "deleting", "wait", "stop", "forget"}

MoveRecords ==
    /\ run.pc # "idle" => \A s \in Sites : Kept(s) => s \in {run.from, run.to}
    /\ run.pc \in {"record", "recording", "carried"} => Kept(run.from)
    /\ run.pc = "recording" => upd[Mover].hosts = {run.from, run.to} /\ upd[Mover].add = {}
    /\ run.pc \notin {"idle", "recording"} => upd[Mover].pc = "idle"
    /\ run.pc \in Carrying => \A n \in due : SafeAt(n, run.to) \/ ListedAt(n, run.to)

RInv == IInv /\ CopiesSound /\ Survives /\ OneGateway /\ MoveRecords

-----------------------------------------------------------------------------
(* Records and their tags.                                                 *)

LEMMA DocFields ==
    ASSUME NEW d \in Doc, NEW n \in Names
    PROVE  d[n].adds \in SUBSET Nat /\ d[n].removed \in SUBSET Nat
BY DEF Doc, Entry

LEMMA EmptyDoc ==
    /\ Empty \in Doc
    /\ \A n \in Names : Empty[n].adds = {} /\ Empty[n].removed = {}
BY DEF Empty, Doc, Entry

(* What an update starts from: all that the records it read know.          *)
Base(w) == Merge(Found(upd[w].got))

Replaced(w) == Changed(Base(w), upd[w].add, upd[w].forget)

LEMMA FoundIsGot ==
    ASSUME IInv, NEW w \in Operators
    PROVE  Found(upd[w].got) = GotBy(w)
<1>1. upd[w].got \in Gots
  BY DEF IInv, RecordSound, Updates
<1>2. PICK H \in SUBSET Sites : upd[w].got \in [H -> Doc \cup {None}]
  BY <1>1 DEF Gots
<1>. QED
  BY <1>2, Constants DEF Found, GotBy

LEMMA BaseFields ==
    ASSUME IInv, NEW w \in Operators, NEW n \in Names
    PROVE  /\ \A t : t \in Base(w)[n].adds <=> \E d \in GotBy(w) : t \in d[n].adds
           /\ \A t : t \in Base(w)[n].removed <=> \E d \in GotBy(w) : t \in d[n].removed
<1>1. Base(w) = Merge(GotBy(w))
  BY FoundIsGot DEF Base
<1>. QED
  BY <1>1 DEF Merge

(* The tags of what an update writes: those its base had and one made, or  *)
(* a made one in the place of several.                                     *)
LEMMA TargetFields ==
    ASSUME IInv, NEW w \in Operators, NEW n \in Names
    PROVE  /\ Target(w) \in Doc /\ tags[n] \in Nat
           /\ \E m \in {tags[n] + 1, tags[n] + 2} :
                  Target(w)[n].adds \subseteq Base(w)[n].adds \cup {m}
           /\ Target(w)[n].removed \subseteq Base(w)[n].removed \cup Base(w)[n].adds
           /\ n \notin upd[w].forget => Target(w)[n].removed \subseteq Base(w)[n].removed
           /\ n \notin upd[w].forget => \A t \in Live(Base(w)[n]) :
                  t \in Target(w)[n].adds \/ tags[n] + 2 \in Target(w)[n].adds
           /\ n \in upd[w].add /\ (\A t \in Known(Base(w)[n]) : t <= tags[n]) =>
                  \E t \in {tags[n] + 1, tags[n] + 2} :
                      t \in Target(w)[n].adds \ Target(w)[n].removed
<1> DEFINE u == upd[w]
           base == Base(w)[n]
           changed == Replaced(w)[n]
           target == Target(w)[n]
<1>1. Base(w) \in Doc /\ Target(w) \in Doc /\ tags \in [Names -> Nat] /\ tags[n] \in Nat
  BY TargetIsDoc DEF IInv, RecordSound, RecordTypeOK, Base
<1>2. base.adds \in SUBSET Nat /\ base.removed \in SUBSET Nat
  BY <1>1, DocFields
<1>3. /\ changed.adds = IF n \in u.add THEN base.adds \cup {tags[n] + 1} ELSE base.adds
      /\ changed.removed = IF n \in u.forget /\ Live(base) # {} THEN base.adds ELSE base.removed
  BY DEF Replaced, Changed
<1>4. \/ target = changed
      \/ /\ target.removed = {}
         /\ target.adds = IF Several(changed) THEN {tags[n] + 2} ELSE Live(changed)
  <2>1. Target(w) = IF u.missed = {} THEN Compact(Replaced(w)) ELSE Replaced(w)
    BY DEF Target, Replaced, Base
  <2>. QED
    BY <2>1 DEF Compact
<1>. HIDE DEF u, base, changed, target
<1>5. /\ \E m \in {tags[n] + 1, tags[n] + 2} : target.adds \subseteq base.adds \cup {m}
      /\ target.removed \subseteq base.removed \cup base.adds
      /\ n \notin u.forget => target.removed \subseteq base.removed
  BY <1>3, <1>4 DEF Live
<1>6. n \notin u.forget => \A t \in Live(base) : t \in target.adds \/ tags[n] + 2 \in target.adds
  BY <1>3, <1>4 DEF Live
<1>7. ASSUME n \in u.add, \A t \in Known(base) : t <= tags[n]
      PROVE  \E t \in {tags[n] + 1, tags[n] + 2} : t \in target.adds \ target.removed
  <2>1. tags[n] + 1 \notin base.adds /\ tags[n] + 1 \notin base.removed
    BY <1>1, <1>2, <1>7 DEF Known
  <2>2. tags[n] + 1 \in changed.adds \ changed.removed
    BY <1>3, <1>7, <2>1
  <2>. QED
    BY <1>4, <2>2 DEF Live
<1>. QED
  BY <1>1, <1>5, <1>6, <1>7 DEF u, base, target

(* An update that read one record, and takes no name out, keeps what it    *)
(* lists.                                                                  *)
LEMMA TargetLists ==
    ASSUME IInv, NEW w \in Operators, NEW s \in Sites, upd[w].hosts = {s}, NEW d \in GotBy(w),
           NEW n \in Names, n \in Listed(d), n \notin upd[w].forget, Fresh
    PROVE  n \in Listed(Target(w))
<1>1. \A e \in GotBy(w) : e = d
  BY UpdateFits DEF GotBy, Fits, IInv
<1>2. PICK t \in d[n].adds : t \notin d[n].removed
  BY DEF Listed, Live
<1>3. t \in Live(Base(w)[n])
  BY <1>1, <1>2, BaseFields DEF Live
<1>4. \A x \in Base(w)[n].removed : x \in d[n].removed
  BY <1>1, BaseFields
<1>5. d \in Copies /\ d \in Doc
  BY DEF Copies, GotBy
<1>6. \A x \in d[n].removed : x \in Nat /\ x <= tags[n]
  BY <1>5 DEF Fresh, Known
<1>7. tags[n] \in Nat /\ tags[n] + 2 \notin Base(w)[n].removed
  BY <1>4, <1>6, TargetFields
<1>8. Target(w)[n].removed \subseteq Base(w)[n].removed
  BY TargetFields
<1>9. \E x \in Target(w)[n].adds : x \notin Base(w)[n].removed
  BY <1>3, <1>7, TargetFields DEF Live
<1>. QED
  BY <1>8, <1>9 DEF Listed, Live

-----------------------------------------------------------------------------
(* What each step of an update changes.                                    *)

Others(w) == \A v \in Operators \ {w} : upd'[v] = upd[v]

(* Steps that write nothing: the update is not one that writes after them, *)
(* and what it read since is on a host.                                    *)
Quiet(w) ==
    /\ Others(w) /\ docs' = docs /\ due' \subseteq due
    /\ \A n \in Names : tags[n] <= tags'[n]
    /\ upd'[w].pc # "write"
    /\ upd'[w].pc = "idle" => upd'[w] = NoUpdate
    /\ Apart(upd[w]) => Apart(upd'[w])
    /\ upd'[w].want \in {upd[w].want, Empty}
    /\ \A d \in GotBy(w)' : d \in GotBy(w) \/ \E s \in Sites : docs[s] = d

LEMMA RecordParts ==
    ASSUME IInv
    PROVE  /\ docs \in [Sites -> Doc \cup {None}] /\ tags \in [Names -> Nat] /\ due \in SUBSET Names
           /\ \A n \in Names : tags[n] \in Nat
           /\ upd \in [Operators -> Updates]
           /\ \A w \in Operators : upd[w].want \in Doc /\ upd[w].hosts \subseteq Sites
                                   /\ upd[w].add \subseteq Names
BY DEF IInv, RecordSound, RecordTypeOK

LEMMA BeginQuiet ==
    ASSUME IInv, NEW w \in Operators, NEW hosts, NEW add, NEW forget,
           Begin(w, hosts, add, forget), UNCHANGED <<docs, tags, due>>
    PROVE  /\ Quiet(w) /\ upd'[w].hosts = hosts /\ upd'[w].add = add /\ upd'[w].pc = "read"
           /\ upd[w].pc = "idle"
<1>1. upd' = [upd EXCEPT ![w] = [NoUpdate EXCEPT !.pc = "read", !.hosts = hosts, !.todo = hosts,
                                                 !.add = add, !.forget = forget]]
  BY DEF Begin
<1>2. /\ upd'[w].pc = "read" /\ upd'[w].want = Empty /\ upd'[w].got = [s \in {} |-> None]
      /\ upd'[w].hosts = hosts /\ upd'[w].add = add
  BY <1>1, RecordParts DEF NoUpdate
<1>3. Others(w)
  BY <1>1, RecordParts DEF Others
<1>4. (\A d : d \notin GotBy(w)') /\ Apart(upd'[w])
  <2>1. upd'[w].missed = {} /\ DOMAIN upd'[w].got = {}
    BY <1>1, <1>2, RecordParts DEF NoUpdate
  <2>. QED
    BY <1>2, <2>1 DEF GotBy, Apart
<1>. QED
  BY <1>2, <1>3, <1>4, RecordParts DEF Quiet, Begin

LEMMA LeaveQuiet ==
    ASSUME IInv, NEW w \in Operators, upd' = [upd EXCEPT ![w] = NoUpdate],
           UNCHANGED <<docs, tags, due>>
    PROVE  Quiet(w) /\ upd'[w] = NoUpdate
<1>1. /\ upd'[w] = NoUpdate /\ upd'[w].pc = "idle" /\ upd'[w].want = Empty
      /\ upd'[w].got = [s \in {} |-> None]
  BY RecordParts DEF NoUpdate
<1>2. Others(w)
  BY RecordParts DEF Others
<1>3. (\A d : d \notin GotBy(w)') /\ Apart(upd'[w])
  <2>1. NoUpdate.todo = {} /\ NoUpdate.missed = {} /\ NoUpdate.pc = "idle"
    BY DEF NoUpdate
  <2>. QED
    BY <1>1, <2>1 DEF GotBy, Apart
<1>. QED
  BY <1>1, <1>2, <1>3, RecordParts DEF Quiet

SamePlan(w) == /\ upd'[w].hosts = upd[w].hosts /\ upd'[w].add = upd[w].add
               /\ upd'[w].forget = upd[w].forget

LEMMA ReadQuiet ==
    ASSUME IInv, NEW w \in Operators, NEW answers \in BOOLEAN, Read(w, answers)
    PROVE  Quiet(w) /\ SamePlan(w) /\ upd'[w].pc = "read" /\ upd[w].pc = "read"
<1> DEFINE u == upd[w]
           s == First(u.todo)
           got == IF answers
                  THEN [t \in DOMAIN u.got \cup {s} |-> IF t = s THEN docs[s] ELSE u.got[t]]
                  ELSE u.got
<1>1. u \in Updates /\ Fits(u)
  BY UpdateFits DEF IInv
<1>2. s \in Sites
  BY <1>1, FirstIsOne DEF Read, Updates, Fits
<1>3. /\ upd' = [upd EXCEPT ![w] = [u EXCEPT !.todo = @ \ {s}, !.got = got,
                                             !.missed = IF answers THEN @ ELSE @ \cup {s}]]
      /\ u.pc = "read" /\ docs' = docs /\ tags' = tags /\ due' = due
  BY DEF Read
<1>. HIDE DEF s
<1>4. \A t \in DOMAIN got : got[t] = docs[s] \/ (t \in DOMAIN u.got /\ got[t] = u.got[t])
  OBVIOUS
<1>. HIDE DEF got
<1>5. /\ upd'[w].got = got /\ upd'[w].want = u.want /\ upd'[w].pc = "read" /\ SamePlan(w)
  BY <1>1, <1>3, RecordParts DEF Updates, SamePlan
<1>6. Others(w)
  BY <1>3, RecordParts DEF Others
<1>7. Apart(u) => Apart(upd'[w])
  <2>1. /\ upd'[w].todo = u.todo \ {s}
        /\ upd'[w].missed = IF answers THEN u.missed ELSE u.missed \cup {s}
    BY <1>1, <1>3, RecordParts DEF Updates
  <2>2. DOMAIN got = IF answers THEN DOMAIN u.got \cup {s} ELSE DOMAIN u.got
    BY DEF got
  <2>3. s \in u.todo
    BY <1>1, FirstIsOne DEF Read, Updates, s
  <2>. QED
    BY <1>3, <1>5, <2>1, <2>2, <2>3 DEF Apart
<1>8. \A d \in GotBy(w)' : d \in GotBy(w) \/ \E x \in Sites : docs[x] = d
  <2>1. ASSUME NEW d \in Doc, NEW t \in DOMAIN got, got[t] = d
        PROVE  d \in GotBy(w) \/ \E x \in Sites : docs[x] = d
    BY <1>2, <1>4, <2>1 DEF GotBy
  <2>. QED
    BY <1>5, <2>1 DEF GotBy
<1>. QED
  BY <1>3, <1>5, <1>6, <1>7, <1>8, RecordParts DEF Quiet

LEMMA WroteQuiet ==
    ASSUME IInv, NEW w \in Operators, Wrote(w)
    PROVE  Quiet(w) /\ SamePlan(w) /\ upd'[w].pc = "done"
<1>1. upd' = [upd EXCEPT ![w] = [upd[w] EXCEPT !.pc = "done"]]
  BY DEF Wrote
<1>2. /\ upd'[w].pc = "done" /\ upd'[w].want = upd[w].want /\ upd'[w].got = upd[w].got
      /\ SamePlan(w) /\ upd'[w].todo = upd[w].todo /\ upd'[w].missed = upd[w].missed
  BY <1>1, UpdateFits, RecordParts DEF IInv, Updates, SamePlan
<1>3. Others(w)
  BY <1>1, RecordParts DEF Others
<1>4. \A d \in GotBy(w)' : d \in GotBy(w)
  BY <1>2 DEF GotBy
<1>. QED
  BY <1>2, <1>3, <1>4, RecordParts DEF Quiet, Wrote, Apart

(* A step that decides what to write; the tags made are counted.           *)
Decides(w) ==
    /\ Others(w) /\ SamePlan(w) /\ docs' = docs /\ due' \subseteq due \ upd[w].forget
    /\ upd[w].pc = "read" /\ upd'[w].pc = "write"
    /\ upd'[w].got = upd[w].got /\ upd'[w].want = Target(w) /\ upd'[w].missed = upd[w].missed
    /\ upd'[w].todo \subseteq DOMAIN upd[w].got
    /\ \A n \in Names : /\ tags[n] <= tags'[n]
                        /\ \A t \in Known(Target(w)[n]) : t \in Nat /\ t <= tags'[n]

LEMMA BaseKnown ==
    ASSUME IInv, Fresh, NEW w \in Operators, NEW n \in Names, NEW t \in Known(Base(w)[n])
    PROVE  t \in Nat /\ t <= tags[n]
<1>1. PICK d \in GotBy(w) : t \in Known(d[n])
  BY BaseFields DEF Known
<1>2. d \in Copies
  BY DEF Copies, GotBy
<1>. QED
  BY <1>1, <1>2 DEF Fresh

LEMMA TagsCounted ==
    ASSUME IInv, Fresh, NEW w \in Operators, Decide(w), NEW n \in Names
    PROVE  tags[n] <= tags'[n] /\ \A t \in Known(Target(w)[n]) : t \in Nat /\ t <= tags'[n]
<1> DEFINE made == Target(w)[n].adds \ Base(w)[n].adds
<1>1. tags[n] \in Nat /\ tags[n] + 1 > tags[n] /\ tags[n] + 2 > tags[n]
  BY RecordParts
<1>2. PICK m \in {tags[n] + 1, tags[n] + 2} : Target(w)[n].adds \subseteq Base(w)[n].adds \cup {m}
  BY TargetFields
<1>3. made \subseteq {m} /\ m \in Nat /\ m > tags[n]
  BY <1>1, <1>2
<1>4. tags'[n] = IF made = {} THEN tags[n] ELSE CHOOSE t \in made : t > tags[n]
  BY DEF Decide, Base
<1>. HIDE DEF made
<1>5. /\ tags'[n] = IF made = {} THEN tags[n] ELSE m
  BY <1>3, <1>4
<1>6. \A t \in Target(w)[n].adds : t \in Base(w)[n].adds \/ t \in made
  BY DEF made
<1>7. \A t \in Known(Target(w)[n]) : t \in Known(Base(w)[n]) \/ t \in made
  BY <1>6, TargetFields DEF Known
<1>8. \A t \in Known(Base(w)[n]) : t \in Nat /\ t <= tags[n]
  BY BaseKnown
<1>9. tags[n] <= tags'[n] /\ tags'[n] \in Nat /\ (\A t \in made : t \in Nat /\ t <= tags'[n])
  <2>1. CASE made = {}
    <3>1. tags'[n] = tags[n]
      BY <1>5, <2>1
    <3>. QED
      BY <1>1, <2>1, <3>1
  <2>2. CASE made # {}
    <3>1. tags'[n] = m
      BY <1>5, <2>2
    <3>2. m \in Nat /\ tags[n] <= m
      BY <1>1, <1>3
    <3>. QED
      BY <1>3, <3>1, <3>2
  <2>. QED
    BY <2>1, <2>2
<1>. QED
  BY <1>1, <1>7, <1>8, <1>9

LEMMA DecideShape ==
    ASSUME IInv, Fresh, NEW w \in Operators, Decide(w)
    PROVE  Decides(w) \/ (Quiet(w) /\ SamePlan(w) /\ upd'[w].pc = "done")
<1> DEFINE u == upd[w]
<1>1. u \in Updates /\ Fits(u)
  BY UpdateFits DEF IInv
<1>2. docs' = docs /\ due' = due \ u.forget /\ u.pc = "read"
  BY DEF Decide
<1>3. CASE upd' = [upd EXCEPT ![w].pc = "done"]
  <2>1. /\ upd'[w].pc = "done" /\ upd'[w].want = u.want /\ upd'[w].got = u.got /\ SamePlan(w)
        /\ upd'[w].todo = u.todo /\ upd'[w].missed = u.missed
    BY <1>1, <1>3, RecordParts DEF Updates, SamePlan
  <2>2. Others(w)
    BY <1>3, RecordParts DEF Others
  <2>3. \A d \in GotBy(w)' : d \in GotBy(w)
    BY <2>1 DEF GotBy
  <2>. QED
    BY <1>2, <2>1, <2>2, <2>3, TagsCounted DEF Quiet, Apart
<1>4. CASE upd' = [upd EXCEPT ![w].pc = "write", ![w].want = Target(w),
                              ![w].todo = {s \in DOMAIN u.got : u.got[s] # Target(w)}]
  <2> DEFINE todo == {s \in DOMAIN u.got : u.got[s] # Target(w)}
  <2>1. upd' = [upd EXCEPT ![w] = [u EXCEPT !.pc = "write", !.want = Target(w), !.todo = todo]]
    BY <1>4
  <2>2. todo \subseteq DOMAIN u.got
    OBVIOUS
  <2>. HIDE DEF todo
  <2>3. /\ upd'[w].pc = "write" /\ upd'[w].want = Target(w) /\ upd'[w].got = u.got
        /\ upd'[w].todo = todo /\ upd'[w].missed = u.missed /\ SamePlan(w)
    BY <1>1, <2>1, RecordParts DEF Updates, SamePlan
  <2>4. Others(w)
    BY <2>1, RecordParts DEF Others
  <2>. QED
    BY <1>2, <2>2, <2>3, <2>4, TagsCounted DEF Decides
<1>. QED
  BY <1>3, <1>4 DEF Decide

(* A step that writes a gateway, or misses it.                             *)
Puts(w, s) ==
    /\ Others(w) /\ SamePlan(w) /\ tags' = tags
    /\ s \in upd[w].todo /\ s \in upd[w].hosts /\ s \in Sites
    /\ Writing(w) /\ upd'[w].pc = "write"
    /\ upd'[w].got = upd[w].got /\ upd'[w].want = upd[w].want
    /\ upd'[w].todo = upd[w].todo \ {s}
    /\ \/ /\ AsRead(w, s) /\ docs' = [docs EXCEPT ![s] = upd[w].want]
          /\ upd'[w].missed = upd[w].missed
          /\ due' = IF Unseen(w) THEN due \cup upd[w].add ELSE due
       \/ /\ docs' = docs /\ due' = due
          /\ upd'[w].missed = upd[w].missed \cup {s}

LEMMA WriteShape ==
    ASSUME IInv, NEW w \in Operators, NEW answers \in BOOLEAN, Write(w, answers)
    PROVE  \E s \in Sites : Puts(w, s)
<1> DEFINE u == upd[w]
           s == First(u.todo)
           ok == answers /\ AsRead(w, s)
           v == [u EXCEPT !.todo = @ \ {s}, !.missed = IF ok THEN @ ELSE @ \cup {s}]
<1>1. u \in Updates /\ Fits(u)
  BY UpdateFits DEF IInv
<1>2. s \in u.todo /\ s \in Sites /\ s \in u.hosts
  BY <1>1, FirstIsOne DEF Write, Updates, Fits
<1>3. /\ upd' = [upd EXCEPT ![w] = v]
      /\ docs' = (IF ok THEN [docs EXCEPT ![s] = u.want] ELSE docs)
      /\ due'  = (IF ok /\ Unseen(w) THEN due \cup u.add ELSE due)
      /\ tags' = tags /\ u.pc = "write"
  BY DEF Write
<1>. HIDE DEF s
<1>4. ok \in BOOLEAN /\ (ok => AsRead(w, s))
  BY DEF AsRead
<1>. HIDE DEF ok
<1>5. /\ upd'[w].pc = "write" /\ upd'[w].got = u.got /\ upd'[w].want = u.want /\ SamePlan(w)
      /\ upd'[w].todo = u.todo \ {s}
      /\ upd'[w].missed = IF ok THEN u.missed ELSE u.missed \cup {s}
  BY <1>1, <1>3, RecordParts DEF Updates, SamePlan
<1>6. Others(w)
  BY <1>3, RecordParts DEF Others
<1>. QED
  BY <1>2, <1>3, <1>4, <1>5, <1>6 DEF Puts, Writing

-----------------------------------------------------------------------------
(* What is due stays safe, and what a gateway lists stays listed there.    *)

(* A step of an update of these gateways, that adds these names.           *)
Follows(hosts, add) ==
    /\ CopiesSound'
    /\ \A n \in due' : n \in due \/ (n \in add /\ \E s \in hosts : SafeAt(n, s)')
    /\ \A n \in due, s \in Sites : n \in due' =>
           /\ SafeAt(n, s) => SafeAt(n, s)'
           /\ KeepsListed(n, s) => KeepsListed(n, s)'
           /\ ListedAt(n, s) /\ (hosts = {s} \/ docs' = docs) => Lists(n, s)'
    /\ \A s \in Sites \ hosts : docs'[s] = docs[s]

LEMMA QuietCopies ==
    ASSUME IInv, NEW w \in Operators, Quiet(w)
    PROVE  /\ \A d \in Copies' : d \in Copies \/ d = Empty
           /\ \A v \in Operators : \A d \in OtherCopies(v)' : d \in OtherCopies(v) \/ d = Empty
           /\ \A v \in Operators : Writing(v)' => v # w /\ upd'[v] = upd[v]
<1>1. \A v \in Operators : v # w => upd'[v] = upd[v] /\ GotBy(v)' = GotBy(v)
  BY DEF Quiet, Others, GotBy
<1>2. \A d \in GotBy(w)' : d \in GotBy(w) \/ \E s \in Sites : docs[s] = d
  BY DEF Quiet
<1>3. docs' = docs /\ upd'[w].want \in {upd[w].want, Empty} /\ upd'[w].pc # "write"
  BY DEF Quiet
<1>4. \A d \in Copies' : d \in Copies \/ d = Empty
  <2>1. ASSUME NEW d \in Doc, NEW v \in Operators, d \in GotBy(v)' PROVE d \in Copies
    BY <1>1, <1>2, <2>1 DEF Copies
  <2>2. ASSUME NEW v \in Operators, upd'[v].want \in Doc
        PROVE  upd'[v].want \in Copies \/ upd'[v].want = Empty
    BY <1>1, <1>3, <2>2 DEF Copies
  <2>. QED
    BY <1>3, <2>1, <2>2 DEF Copies
<1>5. ASSUME NEW v \in Operators, NEW d \in OtherCopies(v)'
      PROVE  d \in OtherCopies(v) \/ d = Empty
  <2>1. ASSUME NEW x \in Operators, d \in GotBy(x)' PROVE d \in OtherCopies(v)
    BY <1>1, <1>2, <1>5, <2>1 DEF OtherCopies
  <2>2. ASSUME NEW x \in Operators, x # v, upd'[x].want = d
        PROVE  d \in OtherCopies(v) \/ d = Empty
    BY <1>1, <1>3, <1>5, <2>2 DEF OtherCopies
  <2>. QED
    BY <1>3, <1>5, <2>1, <2>2 DEF OtherCopies
<1>6. \A v \in Operators : Writing(v)' => v # w /\ upd'[v] = upd[v]
  BY <1>1, <1>3 DEF Writing
<1>. QED
  BY <1>4, <1>5, <1>6

LEMMA QuietFollows ==
    ASSUME IInv, IInv', CopiesSound, NEW w \in Operators, Quiet(w), NEW hosts, NEW add
    PROVE  Follows(hosts, add)
<1>1. /\ \A d \in Copies' : d \in Copies \/ d = Empty
      /\ \A v \in Operators : \A d \in OtherCopies(v)' : d \in OtherCopies(v) \/ d = Empty
      /\ \A v \in Operators : Writing(v)' => v # w /\ upd'[v] = upd[v]
  BY QuietCopies
<1>2. docs' = docs /\ due' \subseteq due /\ \A n \in Names : tags[n] <= tags'[n]
  BY DEF Quiet
<1>3. \A v \in Operators : Writing(v)' => /\ Writing(v) /\ GotBy(v)' = GotBy(v)
                                          /\ Unseen(v)' = Unseen(v)
  BY <1>1 DEF Writing, GotBy, Unseen
<1>4. Fresh'
  <2>1. ASSUME NEW d \in Copies', NEW n \in Names, NEW t \in Known(d[n])
        PROVE  t \in Nat /\ t <= tags'[n]
    <3>1. d \in Copies
      BY <1>1, EmptyDoc DEF Known
    <3>2. t \in Nat /\ t <= tags[n]
      BY <3>1 DEF CopiesSound, Fresh
    <3>3. tags[n] \in Nat /\ tags'[n] \in Nat
      BY RecordParts DEF IInv, RecordSound, RecordTypeOK
    <3>. QED
      BY <1>2, <3>2, <3>3
  <2>. QED
    BY <2>1 DEF Fresh
<1>5. Unsent'
  <2>1. ASSUME NEW v \in Operators, Writing(v)', Unseen(v)', NEW n \in upd'[v].add
        PROVE  \E t \in upd'[v].want[n].adds \ upd'[v].want[n].removed :
                   \A d \in OtherCopies(v)' : t \notin Known(d[n])
    <3>1. upd'[v] = upd[v] /\ Writing(v) /\ Unseen(v) /\ n \in Names
      BY <1>1, <1>3, <2>1, RecordParts
    <3>2. PICK t \in upd[v].want[n].adds \ upd[v].want[n].removed :
                   \A d \in OtherCopies(v) : t \notin Known(d[n])
      BY <2>1, <3>1 DEF CopiesSound, Unsent
    <3>3. t \notin Known(Empty[n])
      BY <3>1, EmptyDoc DEF Known
    <3>. QED
      BY <1>1, <3>1, <3>2, <3>3
  <2>. QED
    BY <2>1 DEF Unsent
<1>6. UpdatesSound'
  <2>1. ASSUME NEW v \in Operators
        PROVE  /\ Writing(v)' => upd'[v].todo \subseteq DOMAIN upd'[v].got
               /\ upd'[v].pc = "idle" => upd'[v] = NoUpdate
               /\ Apart(upd'[v])
    <3>1. CASE v = w
      BY <1>1, <3>1 DEF Quiet, CopiesSound, UpdatesSound
    <3>2. CASE v # w
      BY <1>1, <1>3, <3>2 DEF CopiesSound, UpdatesSound, Quiet, Others
    <3>. QED
      BY <3>1, <3>2
  <2>. QED
    BY <2>1 DEF UpdatesSound
<1>7. ASSUME NEW n \in Names, NEW s \in Sites, SafeAt(n, s) PROVE SafeAt(n, s)'
  <2>1. PICK K \in SUBSET Nat : Clean(n, K) /\ docs[s][n].adds \cap K # {}
    BY <1>7 DEF SafeAt
  <2>2. Clean(n, K)'
    <3>1. \A d \in Copies' : d[n].removed \cap K = {}
      BY <1>1, <2>1, EmptyDoc DEF Clean
    <3>2. ASSUME NEW v \in Operators, Writing(v)', NEW d \in GotBy(v)', d[n].adds \cap K # {}
          PROVE  upd'[v].want[n].adds \cap K # {}
      BY <1>1, <1>3, <2>1, <3>2 DEF Clean
    <3>. QED
      BY <3>1, <3>2 DEF Clean
  <2>. QED
    BY <1>2, <1>7, <2>1, <2>2 DEF SafeAt, Kept
<1>8. ASSUME NEW n \in Names, NEW s \in Sites, KeepsListed(n, s) PROVE KeepsListed(n, s)'
  BY <1>1, <1>3, <1>8 DEF KeepsListed
<1>9. ASSUME NEW n \in Names, NEW s \in Sites, Lists(n, s) PROVE Lists(n, s)'
  BY <1>2, <1>9 DEF Lists, Kept
<1>. QED
  BY <1>2, <1>4, <1>5, <1>6, <1>7, <1>8, <1>9, RecordParts DEF Follows, CopiesSound, ListedAt

LEMMA DecidesFollows ==
    ASSUME IInv, IInv', CopiesSound, NEW w \in Operators, Decides(w)
    PROVE  Follows(upd[w].hosts, upd[w].add)
<1>1. \A v \in Operators : v # w => upd'[v] = upd[v]
  BY DEF Decides, Others
<1>2. \A v \in Operators : GotBy(v)' = GotBy(v)
  BY <1>1 DEF Decides, GotBy
<1>3. docs' = docs /\ due' \subseteq due /\ due' \cap upd[w].forget = {} /\ upd'[w].want = Target(w)
      /\ SamePlan(w) /\ ~Writing(w) /\ due \subseteq Names
  BY RecordParts DEF Decides, Writing
<1>4. /\ \A d \in Copies' : d \in Copies \/ d = Target(w)
      /\ \A v \in Operators : \A d \in OtherCopies(v)' : d \in OtherCopies(v) \/ (v # w /\ d = Target(w))
  <2>1. \A v \in Operators : upd'[v].want = upd[v].want \/ (v = w /\ upd'[v].want = Target(w))
    BY <1>1, <1>3
  <2>2. \A d \in Copies' : d \in Copies \/ d = Target(w)
    BY <1>2, <1>3, <2>1 DEF Copies
  <2>3. ASSUME NEW v \in Operators, NEW d \in OtherCopies(v)'
        PROVE  d \in OtherCopies(v) \/ (v # w /\ d = Target(w))
    BY <1>2, <1>3, <2>1, <2>3 DEF OtherCopies
  <2>. QED
    BY <2>2, <2>3
<1>5. ASSUME NEW n \in Names
      PROVE  /\ tags[n] <= tags'[n] /\ tags[n] \in Nat /\ tags'[n] \in Nat
             /\ \A t \in Known(Target(w)[n]) : t \in Nat /\ t <= tags'[n]
             /\ \A t \in Known(Base(w)[n]) : t \in Nat /\ t <= tags[n]
  <2>1. tags[n] \in Nat /\ tags'[n] \in Nat
    BY RecordParts DEF IInv, RecordSound, RecordTypeOK
  <2>. QED
    BY <2>1, BaseKnown DEF Decides, CopiesSound
<1>6. Fresh'
  <2>1. ASSUME NEW d \in Copies', NEW n \in Names, NEW t \in Known(d[n])
        PROVE  t \in Nat /\ t <= tags'[n]
    <3>1. CASE d = Target(w)
      BY <1>5, <3>1
    <3>2. CASE d \in Copies
      <4>1. t \in Nat /\ t <= tags[n]
        BY <3>2 DEF CopiesSound, Fresh
      <4>. QED
        BY <1>5, <4>1
    <3>. QED
      BY <1>4, <3>1, <3>2
  <2>. QED
    BY <2>1 DEF Fresh
\* What was made now is in no copy, and what others made is not in this one.
<1>7. Unsent'
  <2>1. ASSUME NEW v \in Operators, Writing(v)', Unseen(v)', NEW n \in upd'[v].add
        PROVE  \E t \in upd'[v].want[n].adds \ upd'[v].want[n].removed :
                   \A d \in OtherCopies(v)' : t \notin Known(d[n])
    <3>1. CASE v = w
      <4>1. n \in upd[w].add /\ n \in Names
        BY <1>3, <2>1, <3>1, RecordParts DEF SamePlan
      <4>2. PICK t \in {tags[n] + 1, tags[n] + 2} : t \in Target(w)[n].adds \ Target(w)[n].removed
        BY <1>5, <4>1, TargetFields
      <4>3. ASSUME NEW d \in OtherCopies(w)' PROVE t \notin Known(d[n])
        <5>1. d \in Copies
          BY <1>4 DEF Copies, OtherCopies
        <5>2. \A x \in Known(d[n]) : x \in Nat /\ x <= tags[n]
          BY <4>1, <5>1 DEF CopiesSound, Fresh
        <5>. QED
          BY <1>5, <4>1, <4>2, <5>2
      <4>. QED
        BY <1>3, <3>1, <4>2, <4>3
    <3>2. CASE v # w
      <4>1. upd'[v] = upd[v] /\ Writing(v) /\ Unseen(v) /\ n \in upd[v].add /\ n \in Names
        BY <1>1, <2>1, <3>2, RecordParts DEF Writing, Unseen
      <4>2. PICK t \in upd[v].want[n].adds \ upd[v].want[n].removed :
                     \A d \in OtherCopies(v) : t \notin Known(d[n])
        BY <4>1 DEF CopiesSound, Unsent
      <4>3. t \in Nat /\ t <= tags[n]
        <5>1. upd[v].want \in Copies
          BY RecordParts DEF Copies
        <5>. QED
          BY <4>1, <4>2, <5>1 DEF CopiesSound, Fresh, Known
      <4>4. t \notin Known(Base(w)[n])
        <5>1. \A d \in GotBy(w) : d \in OtherCopies(v)
          BY DEF OtherCopies, GotBy
        <5>. QED
          BY <4>1, <4>2, <5>1, BaseFields DEF Known
      <4>5. t \notin Known(Target(w)[n])
        BY <1>5, <4>1, <4>3, <4>4, TargetFields DEF Known
      <4>. QED
        BY <1>4, <4>1, <4>2, <4>5
    <3>. QED
      BY <3>1, <3>2
  <2>. QED
    BY <2>1 DEF Unsent
<1>8. UpdatesSound'
  <2>1. ASSUME NEW v \in Operators
        PROVE  /\ Writing(v)' => upd'[v].todo \subseteq DOMAIN upd'[v].got
               /\ upd'[v].pc = "idle" => upd'[v] = NoUpdate
               /\ Apart(upd'[v])
    <3>1. CASE v = w
      BY <3>1 DEF Decides, CopiesSound, UpdatesSound, Apart
    <3>2. CASE v # w
      BY <1>1, <3>2 DEF CopiesSound, UpdatesSound, Writing
    <3>. QED
      BY <3>1, <3>2
  <2>. QED
    BY <2>1 DEF UpdatesSound
\* An update takes over what is clean of what it read, or makes a new tag.
<1>9. ASSUME NEW n \in due', NEW s \in Sites, SafeAt(n, s) PROVE SafeAt(n, s)'
  <2>1. PICK K \in SUBSET Nat : Clean(n, K) /\ docs[s][n].adds \cap K # {}
    BY <1>9 DEF SafeAt
  <2>2. n \in Names /\ n \notin upd[w].forget
    BY <1>3
  <2>3. PICK m \in Nat : m = tags[n] + 2
    BY <1>5, <2>2
  <2>4. \A d \in Copies : m \notin d[n].removed /\ m \notin d[n].adds
    <3>1. \A d \in Copies : \A t \in Known(d[n]) : t \in Nat /\ t <= tags[n]
      BY <2>2 DEF CopiesSound, Fresh
    <3>2. tags[n] \in Nat /\ ~(m <= tags[n])
      BY <1>5, <2>2, <2>3
    <3>. QED
      BY <3>1, <3>2 DEF Known
  <2>5. \A d \in GotBy(w) : d \in Copies
    BY DEF Copies, GotBy
  <2> DEFINE L == K \cup {m}
  <2>6. L \in SUBSET Nat
    OBVIOUS
  <2>7. \A t \in Base(w)[n].removed : t \notin L
    BY <2>1, <2>2, <2>4, <2>5, BaseFields DEF Clean
  <2>8. \A d \in Copies' : d[n].removed \cap L = {}
    <3>1. \A d \in Copies : d[n].removed \cap L = {}
      BY <2>1, <2>4 DEF Clean
    <3>2. Target(w)[n].removed \subseteq Base(w)[n].removed
      BY <2>2, TargetFields
    <3>. QED
      BY <1>4, <2>7, <3>1, <3>2
  <2>9. ASSUME NEW v \in Operators, Writing(v)', NEW d \in GotBy(v)', d[n].adds \cap L # {}
        PROVE  upd'[v].want[n].adds \cap L # {}
    <3>1. d \in GotBy(v) /\ d \in Copies
      BY <1>2, <2>9 DEF Copies, GotBy
    <3>2. d[n].adds \cap K # {}
      BY <2>4, <2>9, <3>1
    <3>3. CASE v = w
      <4>1. PICK t \in d[n].adds : t \in K
        BY <3>2
      <4>2. t \in Live(Base(w)[n])
        BY <2>2, <2>7, <3>1, <3>3, <4>1, BaseFields DEF Live
      <4>3. t \in Target(w)[n].adds \/ m \in Target(w)[n].adds
        BY <2>2, <2>3, <4>2, TargetFields
      <4>. QED
        BY <1>3, <3>3, <4>1, <4>3
    <3>4. CASE v # w
      BY <1>1, <2>1, <2>9, <3>1, <3>2, <3>4 DEF Clean, Writing
    <3>. QED
      BY <3>3, <3>4
  <2>10. Clean(n, L)'
    BY <2>8, <2>9 DEF Clean
  <2>11. docs'[s][n].adds \cap L # {} /\ docs'[s] # None
    BY <1>3, <1>9, <2>1 DEF SafeAt, Kept
  <2>. QED
    BY <2>6, <2>10, <2>11 DEF SafeAt, Kept
<1>10. ASSUME NEW n \in due', NEW s \in Sites, KeepsListed(n, s) PROVE KeepsListed(n, s)'
  <2>1. n \in Names /\ n \notin upd[w].forget
    BY <1>3
  <2>2. ASSUME NEW v \in Operators, Writing(v)', upd'[v].hosts = {s}, NEW d \in GotBy(v)',
               n \in Listed(d)
        PROVE  n \in Listed(upd'[v].want)
    <3>1. CASE v = w
      <4>1. d \in GotBy(w) /\ upd[w].hosts = {s}
        BY <1>2, <1>3, <2>2, <3>1 DEF SamePlan
      <4>. QED
        BY <1>3, <2>1, <2>2, <3>1, <4>1, TargetLists DEF CopiesSound
    <3>2. CASE v # w
      BY <1>1, <1>2, <1>10, <2>2, <3>2 DEF KeepsListed, Writing
    <3>. QED
      BY <3>1, <3>2
  <2>. QED
    BY <2>2 DEF KeepsListed
<1>11. ASSUME NEW n \in due', NEW s \in Sites, Lists(n, s) PROVE Lists(n, s)'
  BY <1>3, <1>11 DEF Lists, Kept
<1>. QED
  BY <1>3, <1>6, <1>7, <1>8, <1>9, <1>10, <1>11 DEF Follows, CopiesSound, ListedAt

LEMMA PutsFollows ==
    ASSUME IInv, CopiesSound, NEW w \in Operators, NEW s \in Sites, Puts(w, s)
    PROVE  Follows(upd[w].hosts, upd[w].add)
<1>1. \A v \in Operators : v # w => upd'[v] = upd[v]
  BY DEF Puts, Others
<1>2. \A v \in Operators : /\ GotBy(v)' = GotBy(v) /\ upd'[v].want = upd[v].want
                           /\ Writing(v)' = Writing(v) /\ upd'[v].hosts = upd[v].hosts
  BY <1>1 DEF Puts, GotBy, Writing, SamePlan
<1>3. /\ Writing(w) /\ tags' = tags /\ s \in upd[w].hosts /\ upd[w].want \in Doc
      /\ s \in DOMAIN upd[w].got /\ s \notin upd[w].missed /\ due \subseteq Names
      /\ docs \in [Sites -> Doc \cup {None}]
  BY RecordParts DEF Puts, CopiesSound, UpdatesSound, Apart
<1>4. \/ /\ docs[s] = upd[w].got[s] /\ docs' = [docs EXCEPT ![s] = upd[w].want]
         /\ upd'[w].missed = upd[w].missed
         /\ due' = IF Unseen(w) THEN due \cup upd[w].add ELSE due
      \/ /\ docs' = docs /\ due' = due
         /\ upd'[w].missed = upd[w].missed \cup {s}
  BY DEF Puts, AsRead
<1>5. \A x \in Sites : docs'[x] = docs[x] \/ (x = s /\ docs'[x] = upd[w].want)
  BY <1>3, <1>4
<1>6. /\ \A d \in Copies' : d \in Copies
      /\ \A v \in Operators : v # w \/ docs' = docs => \A d \in OtherCopies(v)' : d \in OtherCopies(v)
      /\ \A d \in Copies' : d \in OtherCopies(w) \/ d = upd[w].want
  <2>1. \A d \in Copies' : d \in Copies
    BY <1>2, <1>3, <1>5 DEF Copies
  <2>2. ASSUME NEW v \in Operators, v # w \/ docs' = docs, NEW d \in OtherCopies(v)'
        PROVE  d \in OtherCopies(v)
    BY <1>2, <1>3, <1>5, <2>2 DEF OtherCopies
  <2>3. \A d \in Copies' : d \in OtherCopies(w) \/ d = upd[w].want
    BY <1>2, <1>5 DEF Copies, OtherCopies
  <2>. QED
    BY <2>1, <2>2, <2>3
<1>7. Fresh'
  BY <1>3, <1>6 DEF CopiesSound, Fresh
<1>8. Unsent'
  <2>1. ASSUME NEW v \in Operators, Writing(v)', Unseen(v)', NEW n \in upd'[v].add
        PROVE  \E t \in upd'[v].want[n].adds \ upd'[v].want[n].removed :
                   \A d \in OtherCopies(v)' : t \notin Known(d[n])
    <3>1. CASE v # w
      <4>1. upd'[v] = upd[v] /\ Writing(v) /\ Unseen(v)
        BY <1>1, <2>1, <3>1 DEF Writing, Unseen
      <4>. QED
        BY <1>6, <2>1, <3>1, <4>1 DEF CopiesSound, Unsent
    <3>2. CASE v = w
      <4>1. /\ upd'[w].got = upd[w].got /\ upd'[w].todo = upd[w].todo \ {s}
            /\ upd'[w].add = upd[w].add
        BY DEF Puts, SamePlan
      <4>2. DOMAIN upd[w].got \subseteq (upd[w].todo \ {s}) \cup upd'[w].missed
        BY <2>1, <3>2, <4>1 DEF Unseen
      <4>3. docs' = docs /\ upd'[w].missed = upd[w].missed \cup {s}
        BY <1>3, <1>4, <4>2
      <4>4. Unseen(w)
        BY <4>2, <4>3, <1>3 DEF Unseen, Puts
      <4>. QED
        BY <1>2, <1>3, <1>6, <2>1, <3>2, <4>1, <4>3, <4>4 DEF CopiesSound, Unsent
    <3>. QED
      BY <3>1, <3>2
  <2>. QED
    BY <2>1 DEF Unsent
<1>9. UpdatesSound'
  <2>1. ASSUME NEW v \in Operators
        PROVE  /\ Writing(v)' => upd'[v].todo \subseteq DOMAIN upd'[v].got
               /\ upd'[v].pc = "idle" => upd'[v] = NoUpdate
               /\ Apart(upd'[v])
    <3>1. CASE v = w
      BY <1>4, <3>1 DEF Puts, CopiesSound, UpdatesSound, Apart
    <3>2. CASE v # w
      BY <1>1, <3>2 DEF CopiesSound, UpdatesSound, Writing
    <3>. QED
      BY <3>1, <3>2
  <2>. QED
    BY <2>1 DEF UpdatesSound
<1>10. docs'[s] # docs[s] /\ docs[s] # None => docs[s] \in GotBy(w)
  BY <1>3, <1>4 DEF GotBy
<1>11. ASSUME NEW n \in Names, NEW x \in Sites, SafeAt(n, x) PROVE SafeAt(n, x)'
  <2>1. PICK K \in SUBSET Nat : Clean(n, K) /\ docs[x][n].adds \cap K # {}
    BY <1>11 DEF SafeAt
  <2>2. Clean(n, K)'
    BY <1>2, <1>6, <2>1 DEF Clean
  <2>3. docs'[x] # None /\ docs'[x][n].adds \cap K # {}
    <3>1. CASE docs'[x] = docs[x]
      BY <1>11, <2>1, <3>1 DEF SafeAt, Kept
    <3>2. CASE docs'[x] # docs[x]
      <4>1. x = s /\ docs'[x] = upd[w].want /\ docs[s] \in GotBy(w)
        BY <1>5, <1>10, <1>11, <3>2 DEF SafeAt, Kept
      <4>2. upd[w].want[n].adds \cap K # {}
        BY <1>3, <2>1, <4>1 DEF Clean
      <4>. QED
        BY <1>3, <4>1, <4>2, Constants
    <3>. QED
      BY <3>1, <3>2
  <2>. QED
    BY <2>2, <2>3 DEF SafeAt, Kept
<1>12. ASSUME NEW n \in Names, NEW x \in Sites, KeepsListed(n, x) PROVE KeepsListed(n, x)'
  BY <1>2, <1>12 DEF KeepsListed
<1>13. ASSUME NEW n \in Names, NEW x \in Sites, ListedAt(n, x), upd[w].hosts = {x} \/ docs' = docs
       PROVE  Lists(n, x)'
  <2>1. CASE docs'[x] = docs[x]
    BY <1>13, <2>1 DEF ListedAt, Lists, Kept
  <2>2. CASE docs'[x] # docs[x]
    <3>1. x = s /\ docs'[x] = upd[w].want /\ docs[s] \in GotBy(w) /\ upd[w].hosts = {s}
      BY <1>5, <1>10, <1>13, <2>2 DEF ListedAt, Lists, Kept
    <3>2. n \in Listed(upd[w].want)
      BY <1>3, <1>13, <3>1 DEF ListedAt, Lists, KeepsListed
    <3>. QED
      BY <1>3, <3>1, <3>2, Constants DEF Lists, Kept
  <2>. QED
    BY <2>1, <2>2
<1>14. ASSUME NEW n \in due', n \notin due PROVE n \in upd[w].add /\ SafeAt(n, s)'
  <2>1. n \in upd[w].add /\ Unseen(w) /\ docs' = [docs EXCEPT ![s] = upd[w].want] /\ n \in Names
    BY <1>4, <1>14, RecordParts
  <2>2. PICK t \in upd[w].want[n].adds \ upd[w].want[n].removed :
                 \A d \in OtherCopies(w) : t \notin Known(d[n])
    BY <1>3, <2>1 DEF CopiesSound, Unsent
  <2>3. t \in Nat
    BY <1>3, <2>1, <2>2, DocFields
  <2> DEFINE K == {t}
  <2>4. \A d \in Copies' : d[n].removed \cap K = {}
    BY <1>6, <2>2 DEF Known
  <2>5. ASSUME NEW v \in Operators, NEW d \in GotBy(v)' PROVE d[n].adds \cap K = {}
    <3>1. d \in OtherCopies(w)
      BY <1>2, <2>5 DEF OtherCopies, GotBy
    <3>. QED
      BY <2>2, <3>1 DEF Known
  <2>6. Clean(n, K)'
    BY <2>4, <2>5 DEF Clean
  <2>7. docs'[s] # None /\ docs'[s][n].adds \cap K # {}
    BY <1>3, <2>1, <2>2, Constants
  <2>. QED
    BY <2>1, <2>3, <2>6, <2>7 DEF SafeAt, Kept
<1>. QED
  BY <1>3, <1>5, <1>7, <1>8, <1>9, <1>11, <1>12, <1>13, <1>14 DEF Follows, CopiesSound

-----------------------------------------------------------------------------
(* Updates beside the move, and the move's own.                            *)

LEMMA UpdateFollows ==
    ASSUME RInv, IInv', NEW w \in Operators, UpdateStep(w) \/ Miss(w)
    PROVE  /\ Follows(upd[w].hosts, upd[w].add) /\ Others(w) /\ SamePlan(w)
           /\ upd[w].pc # "idle" /\ upd'[w].pc # "idle"
<1>1. CASE Read(w, TRUE) \/ Read(w, FALSE)
  <2>1. Quiet(w) /\ SamePlan(w) /\ upd'[w].pc = "read" /\ upd[w].pc = "read"
    BY <1>1, ReadQuiet DEF RInv
  <2>. QED
    BY <2>1, QuietFollows DEF RInv, Quiet
<1>2. CASE Decide(w)
  <2>1. upd[w].pc = "read"
    BY <1>2 DEF Decide
  <2>2. CASE Decides(w)
    BY <2>1, <2>2, DecidesFollows DEF RInv, Decides
  <2>3. CASE Quiet(w) /\ SamePlan(w) /\ upd'[w].pc = "done"
    BY <2>1, <2>3, QuietFollows DEF RInv, Quiet
  <2>. QED
    BY <1>2, <2>2, <2>3, DecideShape DEF RInv, CopiesSound
<1>3. CASE Write(w, TRUE) \/ Write(w, FALSE)
  <2>1. PICK s \in Sites : Puts(w, s)
    BY <1>3, WriteShape DEF RInv
  <2>. QED
    BY <2>1, PutsFollows DEF RInv, Puts, Writing
<1>4. CASE Wrote(w)
  <2>1. Quiet(w) /\ SamePlan(w) /\ upd'[w].pc = "done" /\ upd[w].pc = "write"
    BY <1>4, WroteQuiet DEF RInv, Wrote
  <2>. QED
    BY <2>1, QuietFollows DEF RInv, Quiet
<1>. QED
  BY <1>1, <1>2, <1>3, <1>4 DEF UpdateStep, Miss

(* While the configuration names one gateway, an update that adds names is *)
(* of that one alone, and during a move of its two gateways.               *)
LEMMA UpdateHosts ==
    ASSUME RInv, NEW w \in Operators, upd[w].pc # "idle", NEW s \in Sites, config = {s}
    PROVE  /\ upd[w].hosts = {s} \/ (w = Mover /\ run.pc = "recording" /\ Kept(run.from)
                                     /\ run.from \in Sites \ {s} /\ upd[w].add = {}
                                     /\ upd[w].hosts = {run.from, run.to})
<1>1. upd[w].hosts = {s} \/ (w = Mover /\ run.pc = "recording")
  BY DEF RInv, OneGateway
<1>2. run.pc = "recording" => run.from \in Sites /\ run.from # run.to /\ config = {run.to}
  BY ActiveRun DEF RInv
<1>. QED
  BY <1>1, <1>2 DEF RInv, MoveRecords

(* Steps of updates, of commands beside the move that begin and leave one. *)
LEMMA BesideR ==
    ASSUME RInv, IInv', NEW w \in Operators, Others(w), UNCHANGED <<config, run>>,
           NEW hosts \in SUBSET Sites, NEW add, Follows(hosts, add), KeepsDocs,
           \/ docs' = docs /\ due' \subseteq due
           \/ upd[w].pc # "idle" /\ hosts = upd[w].hosts /\ add = upd[w].add,
           \/ upd'[w].pc = "idle"
           \/ upd[w].pc # "idle" /\ SamePlan(w)
           \/ upd'[w].hosts = config,
           w = Mover => run.pc = "idle" \/ (run.pc = "recording" /\ SamePlan(w))
    PROVE  RInv'
<1>1. /\ \A n \in due' : n \in due \/ (n \in add /\ \E s \in hosts : SafeAt(n, s)')
      /\ \A n \in due, s \in Sites : n \in due' =>
             /\ SafeAt(n, s) => SafeAt(n, s)'
             /\ KeepsListed(n, s) => KeepsListed(n, s)'
             /\ ListedAt(n, s) /\ (hosts = {s} \/ docs' = docs) => Lists(n, s)'
      /\ \A s \in Sites \ hosts : docs'[s] = docs[s]
      /\ CopiesSound'
  BY DEF Follows
<1>2. \A v \in Operators : v # w => upd'[v] = upd[v]
  BY DEF Others
<1>3. \A n \in due' : n \notin due => /\ upd[w].pc # "idle" /\ hosts = upd[w].hosts
                                      /\ n \in upd[w].add /\ \E s \in hosts : SafeAt(n, s)'
  BY <1>1
<1>4. Survives'
  <2>1. ASSUME NEW n \in due', n \notin due PROVE \E s \in Sites : SafeAt(n, s)'
    BY <1>3, <2>1
  <2>2. ASSUME NEW n \in due', n \in due, NEW s \in Sites, OnlyAt(s), ListedAt(n, s)
        PROVE  OnlyAt(s)' /\ ListedAt(n, s)'
    <3>1. hosts = {s} \/ docs' = docs
      BY <2>2, UpdateHosts DEF OnlyAt
    <3>2. Lists(n, s)' /\ KeepsListed(n, s)'
      BY <1>1, <2>2, <3>1 DEF ListedAt
    <3>3. OnlyAt(s)'
      BY <1>1, <2>2, <3>1 DEF OnlyAt, Kept
    <3>. QED
      BY <3>2, <3>3 DEF ListedAt
  <2>3. ASSUME NEW n \in due', n \in due
        PROVE  (\E s \in Sites : SafeAt(n, s)') \/ \E s \in Sites : OnlyAt(s)' /\ ListedAt(n, s)'
    <3>1. CASE Safe(n)
      BY <1>1, <2>3, <3>1 DEF Safe
    <3>2. CASE \E s \in Sites : OnlyAt(s) /\ ListedAt(n, s)
      BY <2>2, <2>3, <3>2
    <3>. QED
      BY <2>3, <3>1, <3>2 DEF RInv, Survives
  <2>. QED
    BY <2>1, <2>3 DEF Survives, Safe
<1>5. OneGateway'
  <2>1. ASSUME NEW s \in Sites, config = {s}, NEW n \in due'
        PROVE  SafeAt(n, s)' \/ KeepsListed(n, s)'
    <3>1. CASE n \in due
      BY <1>1, <2>1, <3>1 DEF RInv, OneGateway
    <3>2. CASE n \notin due
      <4>1. upd[w].hosts = {s} /\ hosts = upd[w].hosts
        BY <1>3, <2>1, <3>2, UpdateHosts
      <4>. QED
        BY <1>3, <3>2, <4>1
    <3>. QED
      BY <3>1, <3>2
  <2>2. ASSUME NEW s \in Sites, config = {s}, NEW v \in Operators
        PROVE  upd'[v].pc = "idle" \/ upd'[v].hosts = {s} \/ (v = Mover /\ run.pc = "recording")
    <3>1. CASE v # w
      BY <1>2, <2>2, <3>1 DEF RInv, OneGateway
    <3>2. CASE v = w
      BY <2>2, <3>2 DEF RInv, OneGateway, SamePlan
    <3>. QED
      BY <3>1, <3>2
  <2>. QED
    BY <2>1, <2>2 DEF OneGateway
<1>6. MoveRecords'
  <2>1. ASSUME run.pc # "idle", NEW s \in Sites, docs'[s] # None PROVE s \in {run.from, run.to}
    <3>1. config = {run.to} /\ run.to \in Sites
      BY <2>1, ActiveRun DEF RInv
    <3>2. CASE docs'[s] = docs[s]
      BY <2>1, <3>2 DEF RInv, MoveRecords, Kept
    <3>3. CASE docs'[s] # docs[s]
      <4>1. upd[w].pc # "idle" /\ s \in upd[w].hosts
        BY <1>1, <3>3
      <4>. QED
        BY <3>1, <4>1, UpdateHosts
    <3>. QED
      BY <3>2, <3>3
  <2>2. run.pc # "idle" => run.from \in Sites /\ run.to \in Sites /\ config = {run.to}
    BY ActiveRun DEF RInv
  <2>3. run.pc \in {"record", "recording", "carried"} => docs'[run.from] # None
    <3>1. run.pc \in {"record", "recording", "carried"} => docs[run.from] # None /\ run.from \in Sites
      BY <2>2 DEF RInv, MoveRecords, Kept
    <3>. QED
      BY <3>1 DEF KeepsDocs, Kept
  <2>4. run.pc = "recording" => upd'[Mover].hosts = {run.from, run.to} /\ upd'[Mover].add = {}
    <3>1. Mover \in Operators
      BY Constants
    <3>. QED
      BY <1>2, <3>1 DEF RInv, MoveRecords, SamePlan
  <2>5. run.pc \notin {"idle", "recording"} => upd'[Mover].pc = "idle"
    BY <1>2, Constants DEF RInv, MoveRecords
  <2>6. ASSUME run.pc \in Carrying, NEW n \in due' PROVE SafeAt(n, run.to)' \/ ListedAt(n, run.to)'
    <3>1. run.to \in Sites /\ config = {run.to} /\ run.pc \notin {"idle", "recording"}
      BY <2>2, <2>6 DEF Carrying
    <3>2. hosts = {run.to} \/ (docs' = docs /\ due' \subseteq due)
      BY <3>1, UpdateHosts
    <3>. QED
      BY <1>1, <2>6, <3>1, <3>2 DEF RInv, MoveRecords, ListedAt
  <2>. QED
    BY <2>1, <2>3, <2>4, <2>5, <2>6 DEF MoveRecords, Kept
<1>. QED
  BY <1>1, <1>4, <1>5, <1>6 DEF RInv

-----------------------------------------------------------------------------
(* The move's steps.                                                       *)

(* What a step that changes no record and no update leaves as it was.      *)
LEMMA RecordsStay ==
    ASSUME UNCHANGED recordVars
    PROVE  /\ CopiesSound => CopiesSound'
           /\ \A n \in Names, s \in Sites : /\ SafeAt(n, s) => SafeAt(n, s)'
                                            /\ KeepsListed(n, s) => KeepsListed(n, s)'
                                            /\ Lists(n, s) => Lists(n, s)'
<1>1. docs' = docs /\ upd' = upd /\ tags' = tags /\ due' = due
  BY DEF recordVars
<1>2. /\ Copies' = Copies
      /\ \A w \in Operators : /\ GotBy(w)' = GotBy(w) /\ Writing(w)' = Writing(w)
                              /\ Unseen(w)' = Unseen(w) /\ OtherCopies(w)' = OtherCopies(w)
  BY <1>1 DEF Copies, OtherCopies, GotBy, Writing, Unseen
<1>3. CopiesSound => CopiesSound'
  BY <1>1, <1>2 DEF CopiesSound, Fresh, Unsent, UpdatesSound
<1>4. ASSUME NEW n \in Names, NEW s \in Sites
      PROVE  /\ SafeAt(n, s) => SafeAt(n, s)'
             /\ KeepsListed(n, s) => KeepsListed(n, s)'
             /\ Lists(n, s) => Lists(n, s)'
  BY <1>1, <1>2 DEF SafeAt, Kept, Clean, KeepsListed, Lists
<1>. QED
  BY <1>3, <1>4

LEMMA RunR ==
    ASSUME RInv, IInv', UNCHANGED recordVars, config' = config,
           run.pc = "recording" => run'.pc = "recording", MoveRecords'
    PROVE  RInv'
<1>1. /\ CopiesSound'
      /\ \A n \in Names, s \in Sites : /\ SafeAt(n, s) => SafeAt(n, s)'
                                       /\ KeepsListed(n, s) => KeepsListed(n, s)'
                                       /\ Lists(n, s) => Lists(n, s)'
  BY RecordsStay DEF RInv
<1>2. docs' = docs /\ upd' = upd /\ due' = due /\ due \subseteq Names
  BY RecordParts DEF recordVars, RInv
<1>3. Survives'
  BY <1>1, <1>2 DEF RInv, Survives, Safe, OnlyAt, ListedAt, Kept
<1>4. OneGateway'
  BY <1>1, <1>2 DEF RInv, OneGateway
<1>. QED
  BY <1>1, <1>3, <1>4 DEF RInv

(* The run ends, or goes on where what it knows of the records is as much. *)
Onward ==
    \/ run' = run
    \/ run' = Idle /\ run.pc # "recording"
    \/ /\ run.pc \in Carrying /\ run'.pc \in Carrying \cup {"handoff"}
       /\ run'.from = run.from /\ run'.to = run.to

LEMMA OnwardR ==
    ASSUME RInv, IInv', UNCHANGED recordVars, config' = config, Onward
    PROVE  RInv'
<1>1. \A n \in Names, s \in Sites : /\ SafeAt(n, s) => SafeAt(n, s)'
                                    /\ KeepsListed(n, s) => KeepsListed(n, s)'
                                    /\ Lists(n, s) => Lists(n, s)'
  BY RecordsStay
<1>2. docs' = docs /\ upd' = upd /\ due' = due /\ due \subseteq Names
  BY RecordParts DEF recordVars, RInv
<1>3. run.pc \in Carrying => run.to \in Sites
  BY ActiveRun DEF RInv, Carrying
<1>4. CASE run' = run
  BY <1>1, <1>2, <1>3, <1>4, RunR DEF RInv, MoveRecords, Kept, ListedAt
<1>5. CASE run' = Idle /\ run.pc # "recording"
  <2>1. MoveRecords'
    BY <1>5 DEF Idle, MoveRecords, Carrying
  <2>. QED
    BY <1>5, <2>1, RunR
<1>6. CASE /\ run.pc \in Carrying /\ run'.pc \in Carrying \cup {"handoff"}
           /\ run'.from = run.from /\ run'.to = run.to
  <2>1. run.pc \notin {"idle", "recording"} /\ run'.pc \notin {"record", "recording", "carried"}
    BY <1>6 DEF Carrying
  <2>2. \A n \in due : SafeAt(n, run.to)' \/ ListedAt(n, run.to)'
    BY <1>1, <1>2, <1>3, <1>6 DEF RInv, MoveRecords, ListedAt
  <2>3. MoveRecords'
    BY <1>2, <1>6, <2>1, <2>2 DEF RInv, MoveRecords, Kept
  <2>. QED
    BY <2>1, <2>3, RunR
<1>. QED
  BY <1>4, <1>5, <1>6 DEF Onward

LEMMA GateOnward ==
    ASSUME IInv, run.pc \in Carrying, NEW pc \in Carrying, Goes(pc) \/ run' = Idle
    PROVE  Onward
<1>1. run.pc \notin {"idle", "recording"} /\ run \in Runs
  BY ActiveRun DEF Carrying
<1>. QED
  BY <1>1 DEF Goes, Onward, Runs

(* The steps of the move that leave the records alone.                     *)
LEMMA StagesR ==
    ASSUME RInv, IInv',
           \/ ServeGate \/ AddGate \/ Remove \/ Mark \/ RemoveGate \/ Wait \/ StopCaddy \/ HandOff
           \/ \E h \in Hostnames : AddRecord(h) \/ DeleteRecord(h)
    PROVE  RInv'
<1>1. UNCHANGED recordVars /\ config' = config
  BY DEF ServeGate, AddGate, Remove, Mark, RemoveGate, Wait, StopCaddy, HandOff, AddRecord,
         DeleteRecord, OnlyRun
<1>2. CASE ServeGate \/ AddGate \/ Mark \/ RemoveGate \/ Wait \/ StopCaddy
  <2>1. ASSUME ServeGate PROVE Onward
    <3>1. run.pc \in Carrying /\ (Goes("add") \/ run' = Idle)
      BY <2>1 DEF ServeGate, At, Carrying, Gate
    <3>. QED
      BY <3>1, GateOnward DEF Carrying, RInv
  <2>2. ASSUME AddGate PROVE Onward
    <3>1. run.pc \in Carrying /\ (Goes("remove") \/ run' = Idle)
      BY <2>2 DEF AddGate, At, Carrying
    <3>. QED
      BY <3>1, GateOnward DEF Carrying, RInv
  <2>3. ASSUME Mark PROVE Onward
    <3>1. run.pc \in Carrying /\ (Goes("wait") \/ run' = Idle)
      BY <2>3 DEF Mark, At, Carrying
    <3>. QED
      BY <3>1, GateOnward DEF Carrying, RInv
  <2>4. ASSUME RemoveGate PROVE Onward
    <3>1. run.pc \in Carrying /\ (Goes("wait") \/ run' = Idle)
      BY <2>4 DEF RemoveGate, At, Carrying, Gate
    <3>. QED
      BY <3>1, GateOnward DEF Carrying, RInv
  <2>5. ASSUME Wait PROVE Onward
    <3>1. run.pc \in Carrying /\ (Goes("stop") \/ run' = Idle)
      BY <2>5 DEF Wait, At, Carrying, Gate
    <3>. QED
      BY <3>1, GateOnward DEF Carrying, RInv
  <2>6. ASSUME StopCaddy PROVE Onward
    <3>1. run.pc \in Carrying /\ (Goes("forget") \/ run' = Idle)
      BY <2>6 DEF StopCaddy, At, Carrying, Gate
    <3>. QED
      BY <3>1, GateOnward DEF Carrying, RInv
  <2>. QED
    BY <1>1, <1>2, <2>1, <2>2, <2>3, <2>4, <2>5, <2>6, OnwardR
<1>3. CASE Remove
  <2>1. run \in Runs /\ run.pc = "remove"
    BY <1>3, ActiveRun DEF Remove, At, RInv
  <2>2. Onward
    BY <1>3, <2>1 DEF Remove, Onward, Carrying, Runs
  <2>. QED
    BY <1>1, <2>2, OnwardR
<1>4. CASE HandOff
  BY <1>1, <1>4, OnwardR DEF HandOff, At, Onward
<1>5. ASSUME NEW h \in Hostnames, AddRecord(h) PROVE RInv'
  BY <1>1, <1>5, OnwardR DEF AddRecord, Onward
<1>6. ASSUME NEW h \in Hostnames, DeleteRecord(h) PROVE RInv'
  <2>1. run \in Runs /\ run.pc = "deleting"
    BY <1>6, ActiveRun DEF DeleteRecord, At, RInv
  <2>2. Onward
    BY <1>6, <2>1 DEF DeleteRecord, Onward, Carrying, Runs
  <2>. QED
    BY <1>1, <2>2, OnwardR
<1>. QED
  BY <1>2, <1>3, <1>4, <1>5, <1>6

(* The move's own update begins or ends.                                   *)
LEMMA MoverR ==
    ASSUME RInv, IInv', Quiet(Mover), config' = config, MoveRecords',
           upd'[Mover].pc = "idle" \/ run'.pc = "recording",
           run.pc \in {"record", "recording"}
    PROVE  RInv'
<1>1. Follows({}, {}) /\ docs' = docs /\ due' \subseteq due
  BY QuietFollows, Constants DEF RInv, Quiet
<1>2. /\ \A n \in due, s \in Sites : n \in due' =>
             /\ SafeAt(n, s) => SafeAt(n, s)'
             /\ KeepsListed(n, s) => KeepsListed(n, s)'
             /\ ListedAt(n, s) => Lists(n, s)'
      /\ CopiesSound'
  BY <1>1 DEF Follows
<1>3. Survives'
  BY <1>1, <1>2 DEF RInv, Survives, Safe, OnlyAt, ListedAt, Kept
<1>4. OneGateway'
  BY <1>1, <1>2 DEF RInv, OneGateway, Quiet, Others
<1>. QED
  BY <1>2, <1>3, <1>4 DEF RInv

LEMMA RecordStageR ==
    ASSUME RInv, IInv', RecordStage
    PROVE  RInv'
<1>1. run.pc = "record" /\ run \in Runs /\ Mover \in Operators
  BY ActiveRun, Constants DEF RecordStage, At, RInv
<1>2. run'.pc = "recording" /\ run'.from = run.from /\ run'.to = run.to
  BY <1>1 DEF RecordStage, Goes, Runs
<1>3. /\ Quiet(Mover) /\ upd'[Mover].hosts = {run.from, run.to} /\ upd'[Mover].add = {}
      /\ docs' = docs /\ config' = config
  BY <1>1, BeginQuiet DEF RecordStage, OnlyRun, RInv
<1>4. MoveRecords'
  BY <1>1, <1>2, <1>3 DEF RInv, MoveRecords, Kept, Carrying
<1>. QED
  BY <1>1, <1>2, <1>3, <1>4, MoverR

LEMMA RecordingEndsR ==
    ASSUME RInv, IInv', Recorded \/ (Stop /\ At("recording"))
    PROVE  RInv'
<1>1. run.pc = "recording" /\ run \in Runs /\ Mover \in Operators
  BY ActiveRun, Constants DEF Recorded, At, RInv
<1>2. /\ \/ run' = Idle
         \/ run'.pc = "carried" /\ run'.from = run.from /\ run'.to = run.to
      /\ upd' = [upd EXCEPT ![Mover] = NoUpdate]
      /\ UNCHANGED <<docs, tags, due, config>>
  BY <1>1 DEF Recorded, Report, Stop, At, Gate, Goes, OnlyRun, Runs
<1>3. Quiet(Mover) /\ upd'[Mover].pc = "idle"
  BY <1>1, <1>2, LeaveQuiet, NoUpdateIsOne DEF RInv
<1>4. MoveRecords'
  <2>1. CASE run' = Idle
    BY <2>1 DEF Idle, MoveRecords, Carrying
  <2>2. CASE run'.pc = "carried" /\ run'.from = run.from /\ run'.to = run.to
    BY <1>1, <1>2, <1>3, <2>2 DEF RInv, MoveRecords, Kept, Carrying
  <2>. QED
    BY <1>2, <2>1, <2>2
<1>. QED
  BY <1>1, <1>2, <1>3, <1>4, MoverR

(* A record whose tag is clean lists the name.                             *)
LEMMA SafeLists ==
    ASSUME IInv, NEW n \in Names, NEW s \in Sites, SafeAt(n, s)
    PROVE  Lists(n, s)
<1>1. PICK K \in SUBSET Nat : Clean(n, K) /\ docs[s][n].adds \cap K # {}
  BY DEF SafeAt
<1>2. docs[s] \in Copies
  BY RecordParts DEF SafeAt, Kept, Copies
<1>3. docs[s][n].removed \cap K = {}
  BY <1>1, <1>2 DEF Clean
<1>. QED
  BY <1>1, <1>3 DEF Lists, Listed, Live, SafeAt

(* Where the old gateway has no record, the new one has what is due.       *)
LEMMA BuildR ==
    ASSUME RInv, IInv', Build
    PROVE  RInv'
<1>1. PICK to \in config, from \in Sites :
          /\ Candidates(to) = {from}
          /\ run' = [Idle EXCEPT !.pc = FirstStage(from, to), !.from = from, !.to = to,
                                 !.steps = Planned(from, to)]
  BY DEF Build
<1>2. /\ run.pc = "idle" /\ upd[Mover].pc = "idle" /\ UNCHANGED recordVars /\ config' = config
      /\ to \in Sites /\ due \subseteq Names
      /\ docs' = docs /\ upd' = upd /\ due' = due
  BY TypedParts, RecordParts DEF Build, Idle, recordVars, RInv
<1>3. run'.pc = FirstStage(from, to) /\ run'.from = from /\ run'.to = to
  BY <1>1 DEF Idle
<1>4. \A s \in Sites : Kept(s) => s \in {from, to}
  BY <1>1, <1>2 DEF Candidates, Holds, Kept
<1>5. FirstStage(from, to) \in {"handoff", "serve", "record"}
  BY DEF FirstStage
<1>6. FirstStage(from, to) = "record" => Kept(from)
  BY DEF FirstStage, Kept
<1>7. ASSUME FirstStage(from, to) = "serve", NEW n \in due
      PROVE  SafeAt(n, to) \/ ListedAt(n, to)
  <2>1. ~Kept(from)
    BY <1>7 DEF FirstStage, Kept
  <2>2. CASE Safe(n)
    BY <1>4, <2>1, <2>2 DEF Safe, SafeAt
  <2>3. CASE \E s \in Sites : OnlyAt(s) /\ ListedAt(n, s)
    BY <1>2, <2>3 DEF OnlyAt
  <2>. QED
    BY <2>2, <2>3 DEF RInv, Survives
<1>8. MoveRecords'
  <2>1. \A n \in Names : /\ SafeAt(n, to) => SafeAt(n, to)'
                         /\ ListedAt(n, to) => ListedAt(n, to)'
    BY <1>2, RecordsStay DEF ListedAt
  <2>. QED
    BY <1>2, <1>3, <1>4, <1>5, <1>6, <1>7, <2>1 DEF MoveRecords, Kept, Carrying
<1>. QED
  BY <1>2, <1>8, RunR

(* The gate: the new gateway's own record lists what the old one's kept.   *)
LEMMA RecordGateR ==
    ASSUME RInv, IInv', GateReads, RecordGate
    PROVE  RInv'
<1>1. /\ run.pc \in {"carried", "record"} /\ run \in Runs /\ run.from \in Sites /\ run.to \in Sites
      /\ config = {run.to} /\ Kept(run.from)
  BY ActiveRun DEF RecordGate, At, RInv, MoveRecords
<1>2. /\ UNCHANGED recordVars /\ config' = config /\ due \subseteq Names
      /\ docs' = docs /\ upd' = upd /\ due' = due
  BY RecordParts DEF RecordGate, OnlyRun, recordVars, RInv
<1>3. CASE run' = Idle
  BY <1>1, <1>2, <1>3, OnwardR DEF Onward
<1>4. CASE Carried(run.from, run.to) /\ Goes("serve")
  <2>0. PICK to \in Sites : to = run.to
    BY <1>1
  <2>1. Kept(run.to) /\ Listed(docs[run.from]) \subseteq Listed(docs[run.to])
    BY <1>1, <1>4 DEF Carried, Kept
  <2>2. ASSUME NEW n \in due PROVE SafeAt(n, run.to) \/ ListedAt(n, run.to)
    <3>1. CASE SafeAt(n, run.from)
      <4>1. Lists(n, run.from)
        BY <1>1, <1>2, <3>1, SafeLists DEF RInv
      <4>2. Lists(n, run.to)
        BY <2>1, <4>1 DEF Lists
      <4>3. SafeAt(n, run.to) \/ KeepsListed(n, run.to)
        BY <1>1 DEF RInv, OneGateway
      <4>. QED
        BY <4>2, <4>3 DEF ListedAt
    <3>2. CASE \E s \in Sites : SafeAt(n, s) /\ s # run.from
      BY <1>1, <3>2 DEF RInv, MoveRecords, SafeAt
    <3>3. CASE \E s \in Sites : OnlyAt(s) /\ ListedAt(n, s)
      BY <1>1, <3>3 DEF OnlyAt
    <3>. QED
      BY <3>1, <3>2, <3>3 DEF RInv, Survives, Safe
  <2>3. run'.pc = "serve" /\ run'.from = run.from /\ run'.to = run.to
    BY <1>1, <1>4 DEF Goes, Runs
  <2>4. MoveRecords'
    <3>1. \A n \in Names : /\ SafeAt(n, to) => SafeAt(n, to)'
                           /\ ListedAt(n, to) => ListedAt(n, to)'
      BY <1>2, RecordsStay DEF ListedAt
    <3>2. upd[Mover].pc = "idle"
      BY <1>1 DEF RInv, MoveRecords
    <3>3. \A s \in Sites : Kept(s) => s \in {run.from, run.to}
      BY <1>1 DEF RInv, MoveRecords
    <3>. QED
      BY <1>2, <2>0, <2>2, <2>3, <3>1, <3>2, <3>3 DEF MoveRecords, Kept
  <2>. QED
    BY <1>1, <1>2, <2>4, RunR
<1>. QED
  BY <1>3, <1>4 DEF RecordGate, Gate, GateReads

(* The old gateway's record goes: the new one's has what is due.           *)
LEMMA ForgetR ==
    ASSUME RInv, IInv', Forget
    PROVE  RInv'
<1>0. /\ run.pc = "forget" /\ run \in Runs /\ run.from \in Sites /\ run.to \in Sites
      /\ run.from # run.to /\ config = {run.to}
  BY ActiveRun DEF Forget, At, RInv
<1>1. PICK from \in Sites, to \in Sites : /\ from = run.from /\ to = run.to /\ from # to
                                         /\ config = {to}
  BY <1>0
<1>2. /\ docs' = [docs EXCEPT ![from] = None] /\ upd' = upd /\ tags' = tags /\ due' = due
      /\ config' = config /\ due \subseteq Names /\ docs \in [Sites -> Doc \cup {None}]
  BY <1>1, RecordParts DEF Forget, RInv
<1>3. \A s \in Sites : docs'[s] = IF s = from THEN None ELSE docs[s]
  BY <1>1, <1>2
<1>4. /\ \A n \in due : SafeAt(n, to) \/ ListedAt(n, to)
      /\ \A s \in Sites : Kept(s) => s \in {from, to}
      /\ upd[Mover].pc = "idle"
  BY <1>0, <1>1 DEF RInv, MoveRecords, Carrying
<1>5. run' = Idle \/ (run'.pc = "handoff" /\ run'.from = from /\ run'.to = to)
  BY <1>0, <1>1 DEF Forget, Goes, Runs
<1>6. \A w \in Operators : /\ GotBy(w)' = GotBy(w) /\ Writing(w)' = Writing(w)
                           /\ Unseen(w)' = Unseen(w)
  BY <1>2 DEF GotBy, Writing, Unseen
<1>7. /\ \A d \in Copies' : d \in Copies
      /\ \A w \in Operators : \A d \in OtherCopies(w)' : d \in OtherCopies(w)
  BY <1>2, <1>3, <1>6, Constants DEF Copies, OtherCopies
<1>8. CopiesSound'
  <2>1. Fresh'
    BY <1>2, <1>7 DEF RInv, CopiesSound, Fresh
  <2>2. Unsent'
    BY <1>2, <1>6, <1>7 DEF RInv, CopiesSound, Unsent
  <2>3. UpdatesSound'
    BY <1>2, <1>6 DEF RInv, CopiesSound, UpdatesSound
  <2>. QED
    BY <2>1, <2>2, <2>3 DEF CopiesSound
<1>9. ASSUME NEW n \in Names
      PROVE  /\ SafeAt(n, to) => SafeAt(n, to)'
             /\ KeepsListed(n, to) => KeepsListed(n, to)'
             /\ Lists(n, to) => Lists(n, to)'
  <2>1. docs'[to] = docs[to]
    BY <1>1, <1>3
  <2>2. \A K : Clean(n, K) => Clean(n, K)'
    BY <1>2, <1>6, <1>7 DEF Clean
  <2>. QED
    BY <1>2, <1>6, <2>1, <2>2 DEF SafeAt, Kept, KeepsListed, Lists
<1>10. Survives'
  <2>1. OnlyAt(to)'
    BY <1>1, <1>2, <1>3, <1>4 DEF OnlyAt, Kept
  <2>. QED
    BY <1>1, <1>2, <1>4, <1>9, <2>1 DEF Survives, Safe, ListedAt
<1>11. OneGateway'
  <2>1. \A s \in Sites : config = {s} => s = to
    BY <1>1
  <2>. QED
    BY <1>0, <1>1, <1>2, <1>9, <2>1 DEF RInv, OneGateway
<1>12. MoveRecords'
  <2>1. CASE run' = Idle
    BY <2>1 DEF Idle, MoveRecords, Carrying
  <2>2. CASE run'.pc = "handoff" /\ run'.from = from /\ run'.to = to
    BY <1>2, <1>3, <1>4, <2>2 DEF MoveRecords, Kept, Carrying
  <2>. QED
    BY <1>5, <2>1, <2>2
<1>. QED
  BY <1>8, <1>10, <1>11, <1>12 DEF RInv

(* Between commands no update holds a copy, so what one gateway lists has  *)
(* tags no record knows as removed, and other gateways may join it.        *)
LEMMA DeclareR ==
    ASSUME RInv, IInv', NEW G \in (SUBSET Sites) \ {{}}, Declare(G)
    PROVE  RInv'
<1>1. /\ UNCHANGED recordVars /\ run = Idle /\ run' = Idle
      /\ docs' = docs /\ upd' = upd /\ due' = due /\ due \subseteq Names
      /\ docs \in [Sites -> Doc \cup {None}]
  BY RecordParts DEF Declare, recordVars, RInv
<1>2. \A w \in Operators : upd[w] = NoUpdate
  BY DEF Declare, RInv, CopiesSound, UpdatesSound
<1>3. \A w \in Operators : ~Writing(w) /\ upd[w].want = Empty /\ \A d : d \notin GotBy(w)
  BY <1>2, NoUpdateIsOne DEF Writing, GotBy, NoUpdate
<1>4. ASSUME NEW n \in due, NEW s \in Sites, OnlyAt(s), ListedAt(n, s)
      PROVE  SafeAt(n, s)
  <2>1. docs[s] \in Doc /\ n \in Names /\ Kept(s) /\ n \in Listed(docs[s])
    BY <1>1, <1>4 DEF ListedAt, Lists, Kept
  <2> DEFINE K == Live(docs[s][n])
  <2>2. K \in SUBSET Nat /\ docs[s][n].adds \cap K # {} /\ docs[s][n].removed \cap K = {}
    BY <2>1, DocFields DEF Live, Listed
  <2>3. \A d \in Copies : d = docs[s] \/ d = Empty
    BY <1>3, <1>4, Constants DEF Copies, OnlyAt, Kept
  <2>. HIDE DEF K
  <2>4. \A d \in Copies : d[n].removed \cap K = {}
    BY <2>1, <2>2, <2>3, EmptyDoc
  <2>5. Clean(n, K)
    BY <1>3, <2>4 DEF Clean
  <2>. QED
    BY <2>1, <2>2, <2>5 DEF SafeAt
<1>5. /\ CopiesSound'
      /\ \A n \in Names, s \in Sites : SafeAt(n, s) => SafeAt(n, s)'
  BY RecordsStay, <1>1 DEF RInv
<1>6. Survives'
  BY <1>1, <1>4, <1>5 DEF RInv, Survives, Safe
<1>7. OneGateway'
  <2>1. \A w \in Operators : ~Writing(w)' /\ upd'[w].pc = "idle"
    BY <1>1, <1>2, <1>3, NoUpdateIsOne DEF Writing
  <2>. QED
    BY <2>1 DEF OneGateway, KeepsListed
<1>8. MoveRecords'
  BY <1>1 DEF Idle, MoveRecords, Carrying
<1>. QED
  BY <1>5, <1>6, <1>7, <1>8 DEF RInv

-----------------------------------------------------------------------------
(* What happens beside the move.                                           *)

LEMMA UpdateR ==
    ASSUME RInv, IInv', NEW w \in Operators, Update(w) \/ UpdateMishap(w)
    PROVE  RInv'
<1>1. UNCHANGED <<config, run>>
  BY DEF Update, UpdateMishap, gatewayVars
<1>2. upd[w].hosts \in SUBSET Sites
  BY RecordParts DEF RInv
<1>3. CASE UpdateStep(w) \/ Miss(w)
  <2>1. /\ Follows(upd[w].hosts, upd[w].add) /\ Others(w) /\ SamePlan(w)
        /\ upd[w].pc # "idle" /\ upd'[w].pc # "idle"
    BY <1>3, UpdateFollows
  <2>2. KeepsDocs
    BY <1>3, StepKeeps DEF RInv, IInv
  <2>3. w = Mover => run.pc \in {"idle", "recording"}
    BY <2>1 DEF RInv, MoveRecords
  <2>. QED
    BY <1>1, <1>2, <2>1, <2>2, <2>3, BesideR
<1>4. CASE OwnUpdate(w) /\ (Report(w) \/ Abandon(w))
  <2>1. /\ upd' = [upd EXCEPT ![w] = NoUpdate] /\ UNCHANGED <<docs, tags, due>>
        /\ upd[w].pc # "idle"
    BY <1>4 DEF Report, Abandon
  <2>2. Quiet(w) /\ upd'[w].pc = "idle" /\ Others(w)
    BY <2>1, LeaveQuiet, NoUpdateIsOne DEF RInv, Quiet
  <2>3. Follows(upd[w].hosts, upd[w].add) /\ KeepsDocs
    BY <2>1, <2>2, QuietFollows DEF RInv, KeepsDocs, Kept
  <2>4. w = Mover => run.pc = "idle"
    BY <1>4, <2>1 DEF RInv, MoveRecords, OwnUpdate, At
  <2>. QED
    BY <1>1, <1>2, <2>1, <2>2, <2>3, <2>4, BesideR
<1>. QED
  BY <1>3, <1>4 DEF Update, UpdateMishap

(* Commands begin updates of the gateways the configuration names.         *)
LEMMA CommandR ==
    ASSUME RInv, IInv', NEW w \in Operators, NEW names, NEW forget,
           Begin(w, config, names, forget), UNCHANGED <<docs, tags, due, config, run>>,
           w = Mover => run = Idle
    PROVE  RInv'
<1>1. Quiet(w) /\ upd'[w].hosts = config /\ config \in SUBSET Sites
  BY BeginQuiet, TypedParts DEF RInv
<1>2. Follows(config, names) /\ KeepsDocs /\ Others(w)
  BY <1>1, QuietFollows DEF RInv, KeepsDocs, Kept, Quiet
<1>3. w = Mover => run.pc = "idle"
  BY DEF Idle
<1>. QED
  BY <1>1, <1>2, <1>3, BesideR

LEMMA StopR ==
    ASSUME RInv, IInv', Stop
    PROVE  RInv'
<1>1. CASE At("recording")
  BY <1>1, RecordingEndsR
<1>2. CASE ~At("recording")
  <2>1. UNCHANGED recordVars /\ config' = config /\ run' = Idle /\ run.pc # "recording"
    BY <1>2, RecordParts DEF Stop, At, recordVars, RInv
  <2>. QED
    BY <2>1, OnwardR DEF Onward
<1>. QED
  BY <1>1, <1>2

LEMMA InitR ==
    ASSUME Init
    PROVE  RInv
<1> DEFINE first == [n \in Names |-> [adds |-> {1}, removed |-> {}]]
<1>1. /\ docs = [s \in Sites |-> IF s \in {1} THEN first ELSE None]
      /\ upd = [w \in Operators |-> NoUpdate] /\ tags = [n \in Names |-> 1] /\ due = Names
      /\ run = Idle
  BY DEF Init, RecordInit
<1>2. 1 \in Sites /\ docs[1] = first /\ first \in Doc
  <2>1. 1 \in Sites
    BY RecordAssumption DEF Sites
  <2>. QED
    BY <1>1, <2>1 DEF Doc, Entry
<1>3. \A w \in Operators : /\ upd[w] = NoUpdate /\ upd[w].pc = "idle" /\ ~Writing(w)
                           /\ upd[w].want = Empty /\ \A d : d \notin GotBy(w)
  BY <1>1, NoUpdateIsOne DEF Writing, GotBy, NoUpdate
<1>4. \A d \in Copies : d = first \/ d = Empty
  BY <1>1, <1>3, Constants DEF Copies
<1>5. \A n \in Names : first[n].adds = {1} /\ first[n].removed = {} /\ tags[n] = 1
  BY <1>1
<1>. HIDE DEF first
<1>6. CopiesSound
  <2>1. Fresh
    BY <1>4, <1>5, EmptyDoc DEF Fresh, Known
  <2>2. Unsent
    BY <1>3 DEF Unsent
  <2>3. UpdatesSound
    <3>1. NoUpdate.todo = {} /\ NoUpdate.pc = "idle"
      BY DEF NoUpdate
    <3>. QED
      BY <1>3, <3>1 DEF UpdatesSound, Apart
  <2>. QED
    BY <2>1, <2>2, <2>3 DEF CopiesSound
<1>7. Survives
  <2>1. ASSUME NEW n \in due PROVE SafeAt(n, 1)
    <3>1. {1} \in SUBSET Nat /\ n \in Names
      BY <1>1
    <3>2. Clean(n, {1})
      BY <1>3, <1>4, <1>5, <3>1, EmptyDoc DEF Clean
    <3>3. docs[1][n].adds \cap {1} # {} /\ Kept(1)
      BY <1>2, <1>5, <3>1, Constants DEF Kept
    <3>. QED
      BY <3>1, <3>2, <3>3 DEF SafeAt
  <2>. QED
    BY <1>2, <2>1 DEF Survives, Safe
<1>8. OneGateway /\ MoveRecords
  BY <1>1, <1>3 DEF OneGateway, KeepsListed, MoveRecords, Idle, Carrying
<1>. QED
  BY <1>6, <1>7, <1>8, InitHolds DEF RInv

LEMMA NextR ==
    ASSUME RInv, GateReads, [Next]_vars
    PROVE  RInv'
<1>0. IInv'
  BY NextKeeps DEF RInv
<1>1. CASE UNCHANGED vars
  <2>1. UNCHANGED recordVars /\ config' = config /\ run' = run
    BY <1>1 DEF vars, gatewayVars
  <2>. QED
    BY <1>0, <2>1, OnwardR DEF Onward
<1>2. ASSUME NEW G \in (SUBSET Sites) \ {{}}, Declare(G) PROVE RInv'
  BY <1>0, <1>2, DeclareR
<1>3. ASSUME NEW w \in Operators, NEW s, NEW names, ApplyGateway(w, s, names) PROVE RInv'
  BY <1>0, <1>3, CommandR DEF ApplyGateway
<1>4. CASE ApplyNew
  BY <1>3, <1>4, Constants DEF ApplyNew
<1>5. ASSUME NEW w \in Operators, NEW names, RemoveNames(w, names) PROVE RInv'
  BY <1>0, <1>5, CommandR DEF RemoveNames, gatewayVars
<1>6. ASSUME NEW s \in Monitors, ApplyMonitor(s) PROVE RInv'
  BY <1>0, <1>6, OnwardR DEF ApplyMonitor, Onward
<1>7. ASSUME NEW w \in Operators, Update(w) \/ UpdateMishap(w) PROVE RInv'
  BY <1>0, <1>7, UpdateR
<1>8. CASE Build
  BY <1>0, <1>8, BuildR
<1>9. CASE RunStep
  BY <1>0, <1>9, RecordStageR, RecordingEndsR, RecordGateR, StagesR, ForgetR DEF RunStep
<1>10. CASE Tick
  BY <1>0, <1>10, OnwardR DEF Tick, Onward
<1>11. CASE Stop
  BY <1>0, <1>11, StopR
<1>. QED
  BY <1>1, <1>2, <1>3, <1>4, <1>5, <1>6, <1>7, <1>8, <1>9, <1>10, <1>11 DEF Next

(* What is due is known to a record by a tag no copy anywhere saw removed, *)
(* or the only gateway's record lists it.                                  *)
THEOREM RecordInvariance == ASSUME GateReads PROVE Spec => []RInv
<1>1. Init => RInv
  BY InitR
<1>2. RInv /\ [Next]_vars => RInv'
  BY NextR
<1>. QED
  BY <1>1, <1>2, PTL DEF Spec

(* A name an apply put on a record stays listed by the records there are,  *)
(* until a removal of it: through updates of any operators that interleave *)
(* and miss gateways, gateways that join and leave, and moves that stop    *)
(* anywhere.                                                               *)
THEOREM AddsSurvive == ASSUME GateReads PROVE Spec => []AddSurvives
<1>1. RInv => AddSurvives
  <2>1. ASSUME RInv, NEW n \in due PROVE n \in Listed(Merge(Records))
    <3>1. docs \in [Sites -> Doc \cup {None}] /\ n \in Names
      BY <2>1, RecordParts DEF RInv
    <3>2. Records \subseteq Copies
      BY <3>1 DEF Records, Copies
    <3>3. \A t : /\ t \in Merge(Records)[n].adds <=> \E d \in Records : t \in d[n].adds
                 /\ t \in Merge(Records)[n].removed <=> \E d \in Records : t \in d[n].removed
      BY <3>1 DEF Merge
    <3>4. CASE Safe(n)
      <4>1. PICK s \in Sites, K \in SUBSET Nat : /\ Kept(s) /\ Clean(n, K)
                                                 /\ docs[s][n].adds \cap K # {}
        BY <3>4 DEF Safe, SafeAt
      <4>2. PICK t \in docs[s][n].adds : t \in K
        BY <4>1
      <4>3. docs[s] \in Records
        BY <4>1 DEF Records, Kept
      <4>4. \A d \in Records : t \notin d[n].removed
        BY <3>2, <4>1, <4>2 DEF Clean
      <4>. QED
        BY <3>1, <3>3, <4>2, <4>3, <4>4 DEF Listed, Live
    <3>5. CASE \E s \in Sites : OnlyAt(s) /\ ListedAt(n, s)
      <4>1. PICK s \in Sites : OnlyAt(s) /\ Lists(n, s)
        BY <3>5 DEF ListedAt
      <4>2. \A d \in Records : d = docs[s]
        BY <4>1 DEF Records, OnlyAt, Kept
      <4>3. docs[s] \in Records
        BY <4>1 DEF Records, Lists, Kept
      <4>4. PICK t \in docs[s][n].adds : t \notin docs[s][n].removed
        BY <4>1 DEF Lists, Listed, Live
      <4>. QED
        BY <3>1, <3>3, <4>2, <4>3, <4>4 DEF Listed, Live
    <3>. QED
      BY <2>1, <3>4, <3>5 DEF RInv, Survives
  <2>. QED
    BY <2>1 DEF AddSurvives
<1>. QED
  BY <1>1, RecordInvariance, PTL

=============================================================================
