--------------------------- MODULE HostKeys_proofs ---------------------------
(***************************************************************************)
(* Proofs about the keys on a shared host, for any number of deployments   *)
(* and keys, any runs that stop, and any edits.                            *)
(***************************************************************************)
EXTENDS HostKeys, TLAPS

RunType == [pc : {"idle", "claims", "steps"}, want : SUBSET Keys, saw : SUBSET LinesOf,
            op : [Keys -> Ops], writes : [Keys -> [Keys -> Marks]]]

(* While a line the owner wrote is there no deployment claims its key, or  *)
(* is about to: every run under way saw the line, and has nothing to do.   *)
Unclaimed(k, d) ==
    /\ sidecar[d][k] = "no"
    /\ preparing[d].pc # "idle" => Line(k, Owner) \in preparing[d].saw
    /\ preparing[d].op[k] = "none"
    /\ \A j \in Keys : preparing[d].writes[j][k] = "no"

OwnersLeft == \A k \in Keys, d \in Deployments : Line(k, Owner) \in lines => Unclaimed(k, d)

IInv == TypeOK /\ OwnersLeft

-----------------------------------------------------------------------------
(* Runs.                                                                   *)

LEMMA IdleType == Idle \in RunType /\ NoClaims \in [Keys -> Marks]
  BY DEF Idle, RunType, NothingToDo, NoClaims, Ops, Marks

LEMMA TypedRuns == TypeOK => preparing \in [Deployments -> RunType]
  BY DEF TypeOK, RunType

LEMMA TypeFromRuns ==
    ASSUME TypeOK, lines' \subseteq LinesOf, sidecar' \in [Deployments -> [Keys -> Marks]],
           preparing' \in [Deployments -> RunType], stops' \in 0..MaxStops,
           UNCHANGED <<allow, listed, owner, edits>>
    PROVE  TypeOK'
  BY DEF TypeOK, RunType

LEMMA LineType ==
    ASSUME NEW k \in Keys, NEW by \in Deployments \cup {Owner}
    PROVE  Line(k, by) \in LinesOf /\ Line(k, by).key = k /\ Line(k, by).by = by
  BY DEF Line, LinesOf

LEMMA OpType == \A d \in Deployments, k \in Keys : Op(d, k) \in Ops
  BY DEF Op, Ops

LEMMA WritesType ==
    ASSUME TypeOK
    PROVE  \A d \in Deployments, k \in Keys : Writes(d, k) \in [Keys -> Marks]
  BY DEF Writes, TypeOK, Marks

(* A step about a key takes it out of the run, or ends it.                 *)
LEMMA DoneRuns ==
    ASSUME TypeOK, NEW d \in Deployments, NEW k \in Keys, Done(d, k)
    PROVE  /\ preparing' \in [Deployments -> RunType]
           /\ \A e \in Deployments \ {d} : preparing'[e] = preparing[e]
           /\ preparing'[d] = Idle \/ preparing'[d] = [preparing[d] EXCEPT !.op[k] = "none"]
<1>1. preparing[d] \in RunType
  BY TypedRuns
<1>2. [preparing[d] EXCEPT !.op[k] = "none"] \in RunType
  <2>1. preparing[d].op \in [Keys -> Ops]
    BY <1>1 DEF RunType
  <2>2. [preparing[d].op EXCEPT ![k] = "none"] \in [Keys -> Ops]
    BY <2>1 DEF Ops
  <2>. QED
    BY <1>1, <2>2 DEF RunType
<1>. QED
  BY <1>2, IdleType, TypedRuns DEF Done

-----------------------------------------------------------------------------
(* Types.                                                                  *)

LEMMA InitType == ConstantsHold /\ Init => TypeOK
<1> SUFFICES ASSUME ConstantsHold, Init PROVE TypeOK
  OBVIOUS
<1>1. lines \subseteq LinesOf
  BY DEF Init, ConstantsHold, Line, LinesOf
<1>2. /\ sidecar \in [Deployments -> [Keys -> Marks]]
      /\ preparing \in [Deployments -> RunType]
  BY IdleType DEF Init
<1>3. owner \in [pc : {"idle", "write"}, was : ListsOf, next : ListsOf]
  BY DEF Init, NotWriting, ListsOf
<1>. QED
  BY <1>1, <1>2, <1>3 DEF Init, TypeOK, RunType, ConstantsHold, ListsOf

LEMMA PlanType ==
    ASSUME ConstantsHold, TypeOK, NEW d \in Deployments, Start(d) \/ ReadClaims(d)
    PROVE  preparing' \in [Deployments -> RunType]
<1>1. preparing \in [Deployments -> RunType]
  BY TypedRuns
<1>2. CASE Start(d)
  <2>1. [Idle EXCEPT !.pc = "claims", !.want = listed[d], !.saw = lines] \in RunType
    <3>1. listed[d] \subseteq Keys
      BY DEF TypeOK, ConstantsHold
    <3>. QED
      BY <3>1, IdleType DEF Idle, RunType, TypeOK
  <2>. QED
    BY <1>1, <1>2, <2>1 DEF Start
<1>3. CASE ReadClaims(d)
  <2> DEFINE r == [preparing[d] EXCEPT !.pc = "steps", !.op = [k \in Keys |-> Op(d, k)],
                                 !.writes = [k \in Keys |-> Writes(d, k)]]
  <2>1. /\ [k \in Keys |-> Op(d, k)] \in [Keys -> Ops]
        /\ [k \in Keys |-> Writes(d, k)] \in [Keys -> [Keys -> Marks]]
    BY OpType, WritesType
  <2>2. r \in RunType
    BY <1>1, <2>1 DEF RunType
  <2>. QED
    BY <1>1, <1>3, <2>2, IdleType DEF ReadClaims
<1>. QED
  BY <1>2, <1>3

(* What a step about a key can be, as far as types and the owner's lines   *)
(* go.                                                                     *)
LEMMA StepIs ==
    ASSUME ConstantsHold, TypeOK, NEW d \in Deployments, NEW k \in Keys, StepAbout(d, k)
    PROVE  /\ preparing[d].pc = "steps" /\ preparing[d].op[k] # "none"
           /\ lines' = lines \/ lines' = lines \cup {Line(k, d)}
              \/ (preparing[d].op[k] = "remove" /\ lines' = lines \ Seen(d, k) /\ ~ClaimedBy(d, k))
           /\ \/ sidecar' = sidecar
              \/ Record(d, preparing[d].writes[k])
              \/ Record(d, [preparing[d].writes[k] EXCEPT ![k] = "added"])
           /\ Done(d, k) \/ Fails(d)
           /\ UNCHANGED <<allow, listed, owner, edits, stops>>
<1>1. CASE Add(d, k)
  BY <1>1 DEF Add, Append, Turn, Fails
<1>2. CASE Share(d, k)
  BY <1>2 DEF Share, Append, Turn, Fails
<1>3. CASE Drop(d, k)
  BY <1>3 DEF Drop, Turn
<1>4. CASE Remove(d, k)
  BY <1>4 DEF Remove, Turn, StillClaimed
<1>. QED
  BY <1>1, <1>2, <1>3, <1>4 DEF StepAbout

LEMMA FailsRuns ==
    ASSUME TypeOK, NEW d \in Deployments, Fails(d)
    PROVE  /\ preparing' \in [Deployments -> RunType] /\ preparing'[d] = Idle
           /\ \A e \in Deployments \ {d} : preparing'[e] = preparing[e]
  BY TypedRuns, IdleType DEF Fails

LEMMA StepType ==
    ASSUME ConstantsHold, TypeOK, NEW d \in Deployments, NEW k \in Keys, StepAbout(d, k)
    PROVE  TypeOK'
<1>1. preparing' \in [Deployments -> RunType]
  BY StepIs, DoneRuns, FailsRuns
<1>2. lines' \subseteq LinesOf
  <2>1. Line(k, d) \in LinesOf
    BY LineType
  <2>2. lines' = lines \/ lines' = lines \cup {Line(k, d)} \/ lines' = lines \ Seen(d, k)
    BY StepIs
  <2>. QED
    BY <2>1, <2>2 DEF TypeOK
<1>3. preparing[d].writes[k] \in [Keys -> Marks]
  BY TypedRuns DEF RunType
<1>4. [preparing[d].writes[k] EXCEPT ![k] = "added"] \in [Keys -> Marks]
  BY <1>3 DEF Marks
<1>5. sidecar' \in [Deployments -> [Keys -> Marks]]
  <2>1. \/ sidecar' = sidecar
        \/ Record(d, preparing[d].writes[k])
        \/ Record(d, [preparing[d].writes[k] EXCEPT ![k] = "added"])
    BY StepIs
  <2>. QED
    BY <1>3, <1>4, <2>1 DEF Record, TypeOK
<1>. QED
  BY <1>1, <1>2, <1>5, StepIs, TypeFromRuns DEF TypeOK

(* What others do. *)
Others ==
    \/ \E d \in Deployments : SiteRemove(d) \/ \E list \in Lists : ListOthers(d, list)
    \/ \E k \in Keys : HostAllow(k) \/ HostDisallow(k)
    \/ (\E k \in ByHand : Take(k)) \/ Unlist \/ WriteList

LEMMA OthersType == ConstantsHold /\ TypeOK /\ Others => TypeOK'
<1> SUFFICES ASSUME ConstantsHold, TypeOK, Others PROVE TypeOK'
  OBVIOUS
<1>0. Edit => edits' \in 0..MaxEdits
  BY DEF Edit, TypeOK, ConstantsHold
<1>1. ASSUME NEW d \in Deployments, SiteRemove(d) PROVE TypeOK'
  BY <1>0, <1>1, IdleType DEF SiteRemove, Record, TypeOK
<1>2. ASSUME NEW d \in Deployments, NEW list \in Lists, ListOthers(d, list) PROVE TypeOK'
  BY <1>0, <1>2 DEF ListOthers, TypeOK
<1>3. ASSUME NEW next \in SUBSET Keys, ToWrite(next) PROVE TypeOK'
  BY <1>0, <1>3 DEF ToWrite, TypeOK, ListsOf
<1>4. ASSUME NEW k \in Keys, HostAllow(k) \/ HostDisallow(k) PROVE TypeOK'
  <2>1. Claimed \subseteq Keys /\ (allow # NoList => allow \in SUBSET Keys)
    BY DEF Claimed, TypeOK, ListsOf
  <2>2. CASE HostAllow(k)
    <3>1. PICK from \in SUBSET Keys : ToWrite(from \cup {k})
      BY <2>1, <2>2 DEF HostAllow
    <3>. QED
      BY <1>3, <3>1
  <2>3. CASE HostDisallow(k)
    BY <1>3, <2>1, <2>3 DEF HostDisallow
  <2>. QED
    BY <1>4, <2>2, <2>3
<1>5. ASSUME NEW k \in Keys, Take(k) PROVE TypeOK'
  BY <1>0, <1>5 DEF Take, TypeOK
<1>6. CASE Unlist
  BY <1>0, <1>6 DEF Unlist, TypeOK, ListsOf
<1>7. CASE WriteList
  BY <1>7 DEF WriteList, TypeOK, NotWriting, ListsOf
<1>. QED
  BY <1>1, <1>2, <1>4, <1>5, <1>6, <1>7 DEF Others, ConstantsHold

LEMMA NextIs ==
    Next <=> \/ \E d \in Deployments : Start(d) \/ ReadClaims(d) \/ Stop(d)
             \/ \E d \in Deployments, k \in Keys : StepAbout(d, k)
             \/ Others
  BY DEF Next, Run, Step, Others

LEMMA NextType == ConstantsHold /\ TypeOK /\ [Next]_vars => TypeOK'
<1> SUFFICES ASSUME ConstantsHold, TypeOK, [Next]_vars PROVE TypeOK'
  OBVIOUS
<1>1. ASSUME NEW d \in Deployments, Start(d) \/ ReadClaims(d) PROVE TypeOK'
  <2>1. /\ UNCHANGED <<lines, sidecar, stops>>
        /\ UNCHANGED <<allow, listed, owner, edits>>
    BY <1>1 DEF Start, ReadClaims
  <2>. QED
    BY <1>1, <2>1, PlanType, TypeFromRuns DEF TypeOK
<1>2. ASSUME NEW d \in Deployments, Stop(d) PROVE TypeOK'
  <2>1. preparing' \in [Deployments -> RunType]
    BY <1>2, TypedRuns, IdleType DEF Stop
  <2>2. stops' \in 0..MaxStops
    BY <1>2 DEF Stop, TypeOK, ConstantsHold
  <2>. QED
    BY <1>2, <2>1, <2>2, TypeFromRuns DEF Stop, TypeOK
<1>3. CASE UNCHANGED vars
  BY <1>3 DEF vars, TypeOK
<1>. QED
  BY <1>1, <1>2, <1>3, StepType, OthersType, NextIs

(* Every variable keeps its type, whoever does what in which order.        *)
THEOREM TypeCorrect == ASSUME ConstantsHold PROVE Spec => []TypeOK
  BY InitType, NextType, PTL DEF Spec

-----------------------------------------------------------------------------
(* The owner's lines.                                                      *)

LEMMA InitOwners == ConstantsHold /\ Init => OwnersLeft
  BY DEF Init, OwnersLeft, Unclaimed, Idle, NoClaims, NothingToDo

(* A deployment that does nothing and claims nothing leaves them alone, and *)
(* so does one whose run ends without a claim.                             *)
LEMMA OthersUnclaimed ==
    ASSUME NEW k \in Keys, NEW d \in Deployments, Unclaimed(k, d),
           sidecar'[d][k] = "no", preparing'[d] = preparing[d] \/ preparing'[d] = Idle
    PROVE  Unclaimed(k, d)'
  BY DEF Unclaimed, Idle, NothingToDo, NoClaims

(* Nobody but the owner writes such a line, so none of them comes to be.   *)
LEMMA StepOwners ==
    ASSUME ConstantsHold, IInv, NEW d \in Deployments, NEW k \in Keys, StepAbout(d, k)
    PROVE  OwnersLeft'
<1> SUFFICES ASSUME NEW j \in Keys, NEW e \in Deployments, Line(j, Owner) \in lines'
             PROVE  Unclaimed(j, e)'
  BY DEF OwnersLeft
<1>1. Line(j, Owner) \in lines
  <2>1. Line(k, d) # Line(j, Owner)
    BY LineType DEF ConstantsHold
  <2>2. lines' = lines \/ lines' = lines \cup {Line(k, d)} \/ lines' = lines \ Seen(d, k)
    BY StepIs DEF IInv
  <2>. QED
    BY <2>1, <2>2
<1>2. Unclaimed(j, e) /\ Unclaimed(j, d)
  BY <1>1 DEF IInv, OwnersLeft
<1>3. j # k
  <2>1. preparing[d].op[k] # "none"
    BY StepIs DEF IInv
  <2>. QED
    BY <1>2, <2>1 DEF Unclaimed
<1>4. sidecar'[e][j] = "no"
  <2>1. \/ sidecar' = sidecar
        \/ Record(d, preparing[d].writes[k])
        \/ Record(d, [preparing[d].writes[k] EXCEPT ![k] = "added"])
    BY StepIs DEF IInv
  <2>2. preparing[d].writes[k] \in [Keys -> Marks] /\ preparing[d].writes[k][j] = "no"
    BY <1>2, TypedRuns DEF IInv, RunType, Unclaimed
  <2>3. sidecar[e][j] = "no" /\ sidecar \in [Deployments -> [Keys -> Marks]]
    BY <1>2 DEF Unclaimed, IInv, TypeOK
  <2>. QED
    BY <1>3, <2>1, <2>2, <2>3 DEF Record
<1>5. CASE Fails(d)
  <2>1. preparing'[e] = preparing[e] \/ preparing'[e] = Idle
    BY <1>5, FailsRuns DEF IInv
  <2>. QED
    BY <1>2, <1>4, <2>1, OthersUnclaimed
<1>6. CASE Done(d, k)
  <2>1. \/ preparing'[e] = preparing[e] \/ preparing'[e] = Idle
        \/ e = d /\ preparing'[d] = [preparing[d] EXCEPT !.op[k] = "none"]
    BY <1>6, DoneRuns DEF IInv
  <2>2. CASE e = d /\ preparing'[d] = [preparing[d] EXCEPT !.op[k] = "none"]
    <3>1. preparing[d] \in RunType
      BY TypedRuns DEF IInv
    <3>2. /\ preparing'[d].pc = preparing[d].pc /\ preparing'[d].saw = preparing[d].saw
          /\ preparing'[d].writes = preparing[d].writes /\ preparing'[d].op[j] = preparing[d].op[j]
      BY <1>3, <2>2, <3>1 DEF RunType
    <3>. QED
      BY <1>2, <1>4, <2>2, <3>2 DEF Unclaimed
  <2>. QED
    BY <1>2, <1>4, <2>1, <2>2, OthersUnclaimed
<1>. QED
  <2>1. Done(d, k) \/ Fails(d)
    BY StepIs DEF IInv
  <2>. QED
    BY <1>5, <1>6, <2>1

(* A plan that saw such a line has nothing to do about its key.            *)
LEMMA NothingAbout ==
    ASSUME IInv, NEW d \in Deployments, NEW k \in Keys, Line(k, Owner) \in lines,
           preparing[d].pc = "claims"
    PROVE  /\ Op(d, k) = "none"
           /\ \A j \in Keys : Writes(d, j)[k] = "no"
<1>1. /\ Seen(d, k) # {}
      /\ \A e \in Deployments : sidecar[e][k] = "no"
  BY LineType DEF IInv, OwnersLeft, Unclaimed, Seen, Line
<1>2. ~ClaimedBy(d, k)
  BY <1>1 DEF ClaimedBy
<1>3. Op(d, k) = "none"
  BY <1>1, <1>2 DEF Op
<1>. QED
  BY <1>1, <1>3 DEF Writes

LEMMA PlanOwners ==
    ASSUME IInv, NEW d \in Deployments, Start(d) \/ ReadClaims(d)
    PROVE  OwnersLeft'
<1> SUFFICES ASSUME NEW k \in Keys, NEW e \in Deployments, Line(k, Owner) \in lines'
             PROVE  Unclaimed(k, e)'
  BY DEF OwnersLeft
<1>1. lines' = lines /\ sidecar' = sidecar
  BY DEF Start, ReadClaims
<1>2. Unclaimed(k, e)
  BY <1>1 DEF IInv, OwnersLeft
<1>3. sidecar'[e][k] = "no"
  BY <1>1, <1>2 DEF Unclaimed
<1>4. preparing \in [Deployments -> RunType]
  BY TypedRuns DEF IInv
<1>5. CASE Start(d)
  <2>1. CASE e = d
    <3>1. preparing'[d] = [Idle EXCEPT !.pc = "claims", !.want = listed[d], !.saw = lines]
      BY <1>4, <1>5 DEF Start
    <3>2. /\ preparing'[d].saw = lines /\ preparing'[d].op = NothingToDo
          /\ preparing'[d].writes = [j \in Keys |-> NoClaims]
      BY <3>1 DEF Idle
    <3>. QED
      BY <1>1, <1>3, <2>1, <3>2 DEF Unclaimed, NothingToDo, NoClaims
  <2>2. CASE e # d
    BY <1>2, <1>3, <1>4, <1>5, <2>2, OthersUnclaimed DEF Start
  <2>. QED
    BY <2>1, <2>2
<1>6. CASE ReadClaims(d)
  <2> DEFINE r == [preparing[d] EXCEPT !.pc = "steps", !.op = [j \in Keys |-> Op(d, j)],
                                 !.writes = [j \in Keys |-> Writes(d, j)]]
  <2>1. preparing'[e] = preparing[e] \/ preparing'[e] = Idle \/ (e = d /\ preparing'[d] = r)
    BY <1>4, <1>6 DEF ReadClaims
  <2>2. CASE e = d /\ preparing'[d] = r
    <3>1. preparing[d].pc = "claims" /\ Line(k, Owner) \in lines
      BY <1>1, <1>6 DEF ReadClaims
    <3>2. Op(d, k) = "none" /\ \A j \in Keys : Writes(d, j)[k] = "no"
      BY <3>1, NothingAbout
    <3>3. /\ preparing'[d].saw = preparing[d].saw
          /\ preparing'[d].op = [j \in Keys |-> Op(d, j)]
          /\ preparing'[d].writes = [j \in Keys |-> Writes(d, j)]
      BY <1>4, <2>2 DEF RunType
    <3>. QED
      BY <1>2, <1>3, <2>2, <3>1, <3>2, <3>3 DEF Unclaimed
  <2>. QED
    BY <1>2, <1>3, <2>1, <2>2, OthersUnclaimed
<1>. QED
  BY <1>5, <1>6

LEMMA NextOwners == ConstantsHold /\ IInv /\ [Next]_vars => OwnersLeft'
<1> SUFFICES ASSUME ConstantsHold, IInv, [Next]_vars PROVE OwnersLeft'
  OBVIOUS
<1>1. ASSUME NEW d \in Deployments, Stop(d) PROVE OwnersLeft'
  <2>1. \A e \in Deployments : preparing'[e] = preparing[e] \/ preparing'[e] = Idle
    BY <1>1, TypedRuns DEF Stop, IInv
  <2>. QED
    BY <1>1, <2>1, OthersUnclaimed DEF Stop, IInv, OwnersLeft, Unclaimed
<1>2. ASSUME UNCHANGED preparing, lines' \subseteq lines,
             \A k \in Keys, e \in Deployments : sidecar'[e][k] \in {sidecar[e][k], "no"}
      PROVE  OwnersLeft'
  BY <1>2 DEF IInv, OwnersLeft, Unclaimed
<1>3. CASE Others
  <2>1. UNCHANGED preparing /\ lines' \subseteq lines
    BY <1>3 DEF Others, SiteRemove, ListOthers, HostAllow, HostDisallow, ToWrite, Take, Unlist,
                WriteList
  <2>2. sidecar' = sidecar \/ \E d \in Deployments : Record(d, NoClaims)
    BY <1>3 DEF Others, SiteRemove, ListOthers, HostAllow, HostDisallow, ToWrite, Take, Unlist,
                WriteList
  <2>3. \A k \in Keys, e \in Deployments : sidecar'[e][k] \in {sidecar[e][k], "no"}
    <3>1. ASSUME NEW d \in Deployments, Record(d, NoClaims), NEW e \in Deployments
          PROVE  sidecar'[e] = sidecar[e] \/ sidecar'[e] = NoClaims
      BY <3>1 DEF Record, IInv, TypeOK
    <3>2. \A e \in Deployments : sidecar'[e] = sidecar[e] \/ sidecar'[e] = NoClaims
      BY <2>2, <3>1
    <3>. QED
      BY <3>2 DEF NoClaims
  <2>. QED
    BY <1>2, <2>1, <2>3
<1>4. CASE UNCHANGED vars
  BY <1>2, <1>4 DEF vars
<1>. QED
  BY <1>1, <1>3, <1>4, StepOwners, PlanOwners, NextIs DEF IInv

LEMMA NextIInv == ConstantsHold /\ IInv /\ [Next]_vars => IInv'
  BY NextType, NextOwners DEF IInv

-----------------------------------------------------------------------------
(* Who takes lines away, and who adds them.                                *)

LEMMA StepTakesOwn ==
    ASSUME ConstantsHold, IInv, NEW d \in Deployments, NEW k \in Keys, StepAbout(d, k)
    PROVE  TakesOwn
<1> SUFFICES ASSUME NEW e \in Deployments, preparing[e].pc = "steps", preparing'[e] # preparing[e],
                    NEW l \in lines \ lines'
             PROVE  l.by # Owner /\ ~ClaimedBy(e, l.key)
  BY DEF TakesOwn
<1>1. e = d
  <2>1. Done(d, k) \/ Fails(d)
    BY StepIs DEF IInv
  <2>. QED
    BY <2>1, DoneRuns, FailsRuns DEF IInv
<1>2. /\ preparing[d].op[k] # "none"
      /\ lines' = lines \ Seen(d, k) /\ ~ClaimedBy(d, k)
  <2>1. /\ preparing[d].op[k] # "none"
        /\ \/ lines' = lines \/ lines' = lines \cup {Line(k, d)}
           \/ preparing[d].op[k] = "remove" /\ lines' = lines \ Seen(d, k) /\ ~ClaimedBy(d, k)
    BY StepIs DEF IInv
  <2>. QED
    BY <2>1
<1>3. l.key = k
  BY <1>2 DEF Seen
<1>4. l.by # Owner
  <2>1. ASSUME l.by = Owner PROVE l = Line(k, Owner)
    BY <1>3, <2>1 DEF IInv, TypeOK, LinesOf, Line
  <2>. QED
    BY <1>2, <2>1 DEF IInv, OwnersLeft, Unclaimed
<1>. QED
  BY <1>1, <1>2, <1>3, <1>4

LEMMA StepAddsAllowed ==
    ASSUME TypeOK, NEW d \in Deployments, NEW k \in Keys, StepAbout(d, k)
    PROVE  AddsAllowed
<1>1. Append(d, k) => \A l \in lines' \ lines : Allowed(l.key)
  BY DEF Append, Fails, Guard, Line
<1>. QED
  BY <1>1 DEF StepAbout, Add, Share, Drop, Remove, AddsAllowed

(* What only other actors do takes nothing away in a run's name.           *)
LEMMA ElseRespected ==
    ASSUME IInv, [Next]_vars,
           ~ \E d \in Deployments, k \in Keys : StepAbout(d, k)
    PROVE  TakesOwn /\ AddsAllowed
<1>1. ASSUME NEW d \in Deployments, Start(d) \/ ReadClaims(d) \/ Stop(d)
      PROVE  lines' = lines
  BY <1>1 DEF Start, ReadClaims, Stop
<1>2. CASE Others
  BY <1>2 DEF Others, SiteRemove, ListOthers, HostAllow, HostDisallow, ToWrite, Take, Unlist,
              WriteList, TakesOwn, AddsAllowed
<1>3. lines' = lines => TakesOwn /\ AddsAllowed
  BY DEF TakesOwn, AddsAllowed
<1>. QED
  BY <1>1, <1>2, <1>3, NextIs DEF vars

(* Whatever was authorized before, and however the runs of the deployments *)
(* and what the owner does are interleaved, a run takes away no line that  *)
(* the owner wrote and none that another deployment claims, and adds none  *)
(* that the owner's list refuses.                                          *)
THEOREM RespectsHost == ASSUME ConstantsHold PROVE Spec => HostRespected
<1>1. Init => IInv
  BY InitType, InitOwners DEF IInv
<1>2. IInv /\ [Next]_vars => IInv'
  BY NextIInv
<1>3. IInv /\ [Next]_vars => TakesOwn /\ AddsAllowed
  BY StepTakesOwn, StepAddsAllowed, ElseRespected DEF IInv
<1>. QED
  BY <1>1, <1>2, <1>3, PTL DEF Spec, HostRespected

=============================================================================
