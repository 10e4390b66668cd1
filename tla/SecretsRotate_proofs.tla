------------------------ MODULE SecretsRotate_proofs ------------------------
(***************************************************************************)
(* Proofs about secrets rotate, for any sites, secrets and bounds.         *)
(***************************************************************************)
EXTENDS SecretsRotate, FiniteSetTheorems, TLAPS

RunType == [pc : {"idle", "begin", "check", "users", "hand", "switch", "restart"},
            all : BOOLEAN, todo : SUBSET Secrets, at : Secrets \cup {None},
            uses : SUBSET Sites, led : DataSites \cup {None},
            site : Sites \cup {None}, saw : DataSites \cup {None},
            asked : [Pasted -> Value \cup {0}]]

FileType == /\ val \in [Secrets -> Value]
            /\ next \in [Secrets -> Value \cup {0}]
            /\ left \in SUBSET Secrets

(* A secret's next value is written only while no other has one.           *)
One == \A s, t \in Pending : s = t

(* What a run is at is pending, and nothing is that it will not come to.   *)
RunSound ==
    /\ run.pc # "idle" => Pending \subseteq run.todo
    /\ run.pc \notin {"idle", "begin"} => run.at \in Pending
    /\ run.pc \in {"switch", "restart"} => run.at \in Roles /\ run.site \in run.uses
    /\ run.pc \in {"hand", "switch", "restart"} => run.uses \subseteq UsersOf(run.at)

(* Values are made in order, so a next value is another than the one in    *)
(* the file and than the one an --all run's list was made with.            *)
Fresh ==
    \A s \in Generated :
        /\ val[s] <= made[s] /\ next[s] <= made[s] /\ began[s] <= made[s]
        /\ next[s] # 0 => next[s] # val[s] /\ next[s] # began[s]

(* Postgres takes one password for a role: the file's, or its next one.    *)
Taken ==
    /\ \A s \in Roles \cup Logins :
          takes[s] = {val[s]} \/ (next[s] # 0 /\ takes[s] = {next[s]})
    /\ \A s \in Inner : takes[s] = {}

(* When users are handed the next value it is taken already, and those a   *)
(* run is done with run with it.                                           *)
HandSound ==
    /\ run.pc \in {"users", "hand", "switch", "restart"} /\ run.at \in Roles \cup Logins =>
          takes[run.at] = {next[run.at]}
    /\ run.pc \in {"hand", "switch", "restart"} =>
          \A u \in UsersOf(run.at) \ run.uses : held[run.at][u] = next[run.at]

(* A leader that is where the stage found it has every other user done.    *)
Last ==
    run.pc = "switch" /\ run.saw = run.led =>
        run.uses \subseteq {run.site} /\ DataSites # {run.site}

IInv == /\ TypeOK /\ One /\ RunSound /\ Fresh /\ Taken /\ Recoverable
        /\ HandSound /\ Last /\ AllMeansAll

-----------------------------------------------------------------------------
(* Secrets, values and what a host is given.                               *)

LEMMA Kinds ==
    /\ Roles \subseteq Generated /\ Logins \subseteq Generated /\ Inner \subseteq Generated
    /\ Generated \cap Pasted = {} /\ Secrets = Generated \cup Pasted
    /\ None \notin Secrets /\ None \notin Sites
    /\ \A s \in Secrets : UsersOf(s) \subseteq Sites
    /\ \A s \in Secrets : StackOf(s) = "infra" <=> s \in Roles
    /\ \A s \in Roles : UsersOf(s) = DataSites
    /\ 0 \notin Value /\ Value \subseteq Nat
  BY ConstantsAssumption DEF Secrets, Generated, UsersOf, StackOf, Value

LEMMA ShownIs ==
    ASSUME FileType, NEW s \in Pending
    PROVE  /\ s \in Secrets /\ next[s] \in Value
           /\ Shown(s) \in [Secrets -> Value]
           /\ Shown(s)[s] = next[s]
           /\ \A t \in Secrets \ {s} : Shown(s)[t] = val[t]
  BY DEF FileType, Pending, Shown, Value

LEMMA GivenIs ==
    ASSUME TypeOK, NEW s \in Pending, NEW u \in Sites
    PROVE  /\ Given(StackOf(s), u, Shown(s)) \in [Secrets -> [Sites -> Value \cup {0}]]
           /\ \A t \in Secrets : \A x \in Sites :
                 Given(StackOf(s), u, Shown(s))[t][x] =
                     IF StackOf(t) = StackOf(s) /\ u \in UsersOf(t) /\ x = u
                     THEN Shown(s)[t] ELSE held[t][x]
<1>. DEFINE G == Given(StackOf(s), u, Shown(s))
<1>1. Shown(s) \in [Secrets -> Value] /\ held \in [Secrets -> [Sites -> Value \cup {0}]]
  BY ShownIs DEF TypeOK, FileType
<1>2. G = [t \in Secrets |-> G[t]]
  BY DEF Given
<1>3. \A t \in Secrets : G[t] = IF StackOf(t) = StackOf(s) /\ u \in UsersOf(t)
                                THEN [held[t] EXCEPT ![u] = Shown(s)[t]] ELSE held[t]
  BY DEF Given
<1>. HIDE DEF G
<1>4. \A t \in Secrets : G[t] \in [Sites -> Value \cup {0}]
  BY <1>1, <1>3
<1>5. G \in [Secrets -> [Sites -> Value \cup {0}]]
  BY <1>2, <1>4
<1>6. \A t \in Secrets : \A x \in Sites :
         G[t][x] = IF StackOf(t) = StackOf(s) /\ u \in UsersOf(t) /\ x = u
                   THEN Shown(s)[t] ELSE held[t][x]
  BY <1>1, <1>3
<1>. QED
  BY <1>5, <1>6 DEF G

(* A value in the file that is not pending is the one that is taken.       *)
LEMMA UnpendingTaken ==
    ASSUME Taken, Recoverable, NEW s \in Generated, s \notin Pending
    PROVE  /\ s \in Roles \cup Logins => takes[s] = {val[s]}
           /\ \A u \in UsersOf(s) : held[s][u] = val[s]
  BY Kinds DEF Taken, Recoverable, Pending

(* Handing what a run is at to one of its users.                           *)
LEMMA Handing ==
    ASSUME IInv, run.pc \in {"hand", "restart"}, NEW u \in run.uses,
           held' = Given(StackOf(run.at), u, Shown(run.at)),
           UNCHANGED <<val, next, takes>>
    PROVE  /\ held' \in [Secrets -> [Sites -> Value \cup {0}]]
           /\ Recoverable'
           /\ held'[run.at][u] = next[run.at]
           /\ \A x \in UsersOf(run.at) \ {u} : held'[run.at][x] = held[run.at][x]
           /\ \A t \in Generated \ {run.at} : \A x \in UsersOf(t) : held'[t][x] = held[t][x]
           /\ \A s \in Roles \cup Logins : \A x \in UsersOf(s) :
                 held'[s][x] # held[s][x] => held'[s][x] \in takes[s]
<1>. DEFINE s == run.at
<1>1. /\ s \in Pending /\ s \in Secrets /\ u \in UsersOf(s) /\ UsersOf(s) \subseteq Sites
      /\ next[s] \in Value
      /\ Shown(s) \in [Secrets -> Value] /\ Shown(s)[s] = next[s]
      /\ \A t \in Secrets \ {s} : Shown(s)[t] = val[t]
  BY ShownIs, Kinds DEF IInv, RunSound, TypeOK, FileType
<1>2. /\ held' \in [Secrets -> [Sites -> Value \cup {0}]]
      /\ \A t \in Secrets : \A x \in Sites :
            held'[t][x] = IF StackOf(t) = StackOf(s) /\ u \in UsersOf(t) /\ x = u
                          THEN Shown(s)[t] ELSE held[t][x]
  <2>1. u \in Sites
    BY <1>1
  <2>. QED
    BY <1>1, <2>1, GivenIs DEF IInv
<1>3. \A t \in Generated \ {s} : t \notin Pending
  BY <1>1 DEF IInv, One
<1>4. \A t \in Generated \ {s} : \A x \in UsersOf(t) : held[t][x] = val[t] /\ held'[t][x] = val[t]
  BY <1>1, <1>2, <1>3, UnpendingTaken, Kinds DEF IInv
<1>5. held'[s][u] = next[s] /\ \A x \in UsersOf(s) \ {u} : held'[s][x] = held[s][x]
  BY <1>1, <1>2
<1>6. Recoverable'
  <2>1. ASSUME NEW t \in Generated
        PROVE  /\ \A x \in UsersOf(t) : held'[t][x] \in {val[t], next[t]} \ {0}
               /\ takes[t] \subseteq {val[t], next[t]} \ {0}
    <3>1. \A x \in UsersOf(t) : held[t][x] \in {val[t], next[t]} \ {0}
      BY DEF IInv, Recoverable
    <3>2. takes[t] \subseteq {val[t], next[t]} \ {0}
      BY DEF IInv, Recoverable
    <3>3. val[t] # 0 /\ next[s] # 0
      BY <1>1, Kinds DEF IInv, TypeOK
    <3>4. CASE t = s
      BY <1>5, <3>1, <3>2, <3>3, <3>4
    <3>5. CASE t # s
      BY <1>4, <3>2, <3>3, <3>5
    <3>. QED
      BY <3>4, <3>5
  <2>. QED
    BY <2>1 DEF Recoverable, UsersOf
<1>7. ASSUME NEW t \in Roles \cup Logins, NEW x \in UsersOf(t), held'[t][x] # held[t][x]
      PROVE  held'[t][x] \in takes[t]
  <2>1. t = s /\ x = u
    BY <1>4, <1>5, <1>7, Kinds
  <2>. QED
    BY <1>5, <1>7, <2>1 DEF IInv, HandSound
<1>. QED
  BY <1>2, <1>4, <1>5, <1>6, <1>7

-----------------------------------------------------------------------------
(* Planning, and the first two stages.                                     *)

LEMMA IdleTyped == Idle \in RunType /\ Idle.pc = "idle"
  BY Kinds DEF Idle, RunType

(* Nothing but the run moved.                                              *)
LEMMA RunAlone ==
    ASSUME IInv, UNCHANGED <<val, next, left, held, takes, made, began>>
    PROVE  One' /\ Fresh' /\ Taken' /\ Recoverable' /\ AllMeansAll'
  BY DEF IInv, One, Pending, Fresh, Taken, Recoverable, AllMeansAll

(* Nothing is owed of a run that is idle or that begins.                   *)
LEMMA AtRest ==
    ASSUME run'.pc = "idle" \/ (run'.pc = "begin" /\ Pending' \subseteq run'.todo)
    PROVE  RunSound' /\ HandSound' /\ Last'
  BY DEF RunSound, HandSound, Last

LEMMA InitHolds == Init => IInv
<1>. SUFFICES ASSUME Init PROVE IInv
  OBVIOUS
<1>1. /\ FileType /\ Pending = {} /\ 1 \in Value /\ 0 \in Nat /\ run = Idle
      /\ held \in [Secrets -> [Sites -> Value \cup {0}]]
      /\ \A s \in Secrets : \A u \in UsersOf(s) : held[s][u] = 1
  BY Kinds DEF Init, FileType, Pending, Value
<1>2. TypeOK
  <2>1. MaxMishaps \in Nat
    BY ConstantsAssumption
  <2>2. run \in RunType
    BY <1>1, IdleTyped
  <2>. QED
    BY <1>1, <2>1, <2>2 DEF Init, TypeOK, FileType, RunType
<1>3. One /\ RunSound /\ HandSound /\ Last
  BY <1>1, IdleTyped DEF One, RunSound, HandSound, Last
<1>4. Fresh /\ AllMeansAll
  BY Kinds DEF Init, Fresh, AllMeansAll
<1>5. ASSUME NEW s \in Generated
      PROVE  /\ val[s] = 1 /\ next[s] = 0 /\ takes[s] = IF s \in Inner THEN {} ELSE {1}
             /\ \A u \in UsersOf(s) : held[s][u] = 1
  BY <1>1, Kinds DEF Init
<1>6. Taken
  BY <1>5, Kinds, ConstantsAssumption DEF Taken
<1>7. Recoverable
  BY <1>5 DEF Recoverable
<1>. QED
  BY <1>2, <1>3, <1>4, <1>6, <1>7 DEF IInv

LEMMA StartKeeps ==
    ASSUME IInv, NEW all \in BOOLEAN, NEW restart \in BOOLEAN, NEW named \in SUBSET Secrets,
           Start(all, restart, named)
    PROVE  IInv'
<1>. DEFINE todo == Pending \cup Targets(all, restart, named)
<1>1. todo \subseteq Secrets /\ Pending \subseteq todo /\ left \subseteq Secrets
  BY DEF IInv, TypeOK, Targets, Pending
<1>2. PICK a \in Answers(todo \ Pending) :
         run' = [Idle EXCEPT !.pc = "begin", !.all = all, !.todo = todo, !.asked = a]
  BY DEF Start
<1>3. a \in [Pasted -> Value \cup {0}]
  <2>1. \A s \in Pasted : takes[s] \subseteq Value
    BY Kinds DEF IInv, TypeOK
  <2>. QED
    BY <2>1 DEF Answers
<1>4. run' \in RunType /\ run'.pc = "begin" /\ run'.todo = todo
  BY <1>1, <1>2, <1>3, IdleTyped DEF RunType, Idle
<1>5. /\ UNCHANGED <<val, next, held, takes, leader, made, mishaps>>
      /\ left' = IF all THEN todo ELSE left
      /\ IF all /\ (left = {} \/ restart)
         THEN began' = [s \in Secrets |-> IF s \in todo THEN val[s] ELSE 0]
         ELSE UNCHANGED began
  BY DEF Start
<1>6. TypeOK'
  BY <1>1, <1>4, <1>5, Kinds DEF IInv, TypeOK, RunType
<1>7. RunSound' /\ HandSound' /\ Last'
  BY <1>1, <1>4, <1>5, AtRest DEF Pending
<1>8. One' /\ Taken' /\ Recoverable'
  BY <1>5 DEF IInv, One, Pending, Taken, Recoverable
<1>9. Fresh' /\ AllMeansAll'
  <2>1. CASE all /\ (left = {} \/ restart)
    <3>1. left' = todo /\ \A s \in Generated : began'[s] = IF s \in todo THEN val[s] ELSE 0
      BY <1>5, <2>1, Kinds
    <3>2. AllMeansAll'
      BY <3>1 DEF AllMeansAll
    <3>3. ASSUME NEW s \in Generated
          PROVE  /\ val[s] \in Nat /\ next[s] \in Nat /\ made[s] \in Nat
                 /\ val[s] <= made[s] /\ next[s] <= made[s]
                 /\ next[s] # 0 => next[s] # val[s]
      BY Kinds DEF IInv, TypeOK, Fresh, Value
    <3>4. Fresh'
      BY <1>5, <3>1, <3>3 DEF Fresh
    <3>. QED
      BY <3>2, <3>4
  <2>2. CASE ~(all /\ (left = {} \/ restart))
    <3>1. left \subseteq left'
      BY <1>5, <2>2 DEF Targets, Resumes
    <3>. QED
      BY <1>5, <2>2, <3>1 DEF IInv, Fresh, AllMeansAll
  <2>. QED
    BY <2>1, <2>2
<1>. QED
  BY <1>6, <1>7, <1>8, <1>9 DEF IInv

LEMMA WriteNextKeeps ==
    ASSUME IInv, NEW s \in Secrets, WriteNext(s)
    PROVE  IInv' /\ Pending' = {s} /\ (s \notin Pending => Pending = {})
<1>1. /\ run.pc = "begin" /\ s \in FirstOf(run.todo)
      /\ run' = [run EXCEPT !.pc = "check", !.at = s]
      /\ UNCHANGED <<val, left, held, takes, leader, began, mishaps>>
  BY DEF WriteNext
<1>2. Pending \subseteq run.todo /\ s \in run.todo
  BY <1>1 DEF IInv, RunSound, FirstOf
<1>3. /\ run' \in RunType /\ run'.pc = "check" /\ run'.at = s /\ run'.todo = run.todo
  BY <1>1 DEF IInv, TypeOK, RunType
<1>4. CASE Kept(s)
  <2>1. UNCHANGED <<next, made>> /\ s \in Pending /\ Pending = {s} /\ Pending' = {s}
    BY <1>4 DEF WriteNext, Kept, IInv, One, Pending
  <2>2. TypeOK'
    BY <1>1, <1>3, <2>1 DEF IInv, TypeOK, RunType
  <2>3. One' /\ Fresh' /\ Taken' /\ Recoverable' /\ AllMeansAll'
    BY <1>1, <2>1, RunAlone
  <2>4. RunSound' /\ HandSound' /\ Last'
    BY <1>2, <1>3, <2>1 DEF RunSound, HandSound, Last
  <2>. QED
    BY <2>1, <2>2, <2>3, <2>4 DEF IInv
<1>5. CASE ~Kept(s)
  <2>1. /\ next' = [next EXCEPT ![s] = NextValue(s)]
        /\ made' = IF s \in Generated THEN [made EXCEPT ![s] = @ + 1] ELSE made
        /\ s \notin Pending /\ Pending = {}
    BY <1>1, <1>2, <1>5 DEF WriteNext, Kept, FirstOf
  <2>2. NextValue(s) \in Value /\ (s \in Generated => NextValue(s) = made[s] + 1)
    BY Kinds DEF NextValue, IInv, TypeOK, RunType, Value
  <2>3. TypeOK'
    BY <1>1, <1>3, <2>1, <2>2, Kinds DEF IInv, TypeOK, RunType, Value
  <2>4. Pending' = {s}
    BY <2>1, <2>2 DEF Pending, Value, IInv, TypeOK
  <2>5. One' /\ RunSound' /\ HandSound' /\ Last'
    BY <1>2, <1>3, <2>4 DEF One, RunSound, HandSound, Last
  <2>6. \A t \in Secrets : next[t] = 0
    BY <2>1 DEF Pending
  <2>7. Fresh' /\ AllMeansAll'
    BY <1>1, <2>1, <2>2, <2>6, Kinds DEF IInv, TypeOK, Fresh, AllMeansAll, Value
  <2>8. Taken' /\ Recoverable'
    BY <1>1, <2>1, <2>2, <2>6, Kinds DEF IInv, TypeOK, Taken, Recoverable
  <2>. QED
    BY <2>1, <2>3, <2>4, <2>5, <2>7, <2>8 DEF IInv
<1>. QED
  BY <1>4, <1>5

LEMMA CheckKeeps ==
    ASSUME IInv, Check
    PROVE  IInv'
<1>. DEFINE s == run.at
<1>1. s \in Pending /\ s \in Secrets /\ next[s] \in Value /\ Pending \subseteq run.todo
  BY ShownIs DEF Check, IInv, RunSound, TypeOK, FileType
<1>2. /\ takes' = IF Accepts(s, next[s]) THEN takes ELSE Told(s)
      /\ run' = IF s \in Pasted /\ ~Accepts(s, next[s]) THEN Idle ELSE [run EXCEPT !.pc = "users"]
      /\ UNCHANGED <<val, next, left, held, leader, made, began, mishaps>>
  BY DEF Check, file
<1>3. /\ takes' \in [Secrets -> SUBSET Value]
      /\ \A t \in Secrets \ {s} : takes'[t] = takes[t]
      /\ s \in Roles \cup Logins => takes'[s] = {next[s]}
      /\ s \in Inner \cup Pasted => takes'[s] = takes[s]
  <2>1. CASE Accepts(s, next[s])
    BY <1>1, <1>2, <2>1, Kinds, ConstantsAssumption DEF IInv, TypeOK, Taken, Accepts
  <2>2. CASE ~Accepts(s, next[s])
    BY <1>1, <1>2, <2>2, Kinds, ConstantsAssumption DEF IInv, TypeOK, Told
  <2>. QED
    BY <2>1, <2>2
<1>4. /\ run' \in RunType
      /\ \/ run'.pc = "idle"
         \/ run'.pc = "users" /\ run'.at = s /\ run'.todo = run.todo
  BY <1>2, IdleTyped DEF IInv, TypeOK, RunType
<1>5. TypeOK'
  BY <1>2, <1>3, <1>4 DEF IInv, TypeOK, RunType
<1>6. One' /\ Fresh' /\ AllMeansAll'
  BY <1>2 DEF IInv, One, Pending, Fresh, AllMeansAll
<1>7. Taken' /\ Recoverable'
  <2>1. Taken'
    BY <1>1, <1>2, <1>3, Kinds DEF IInv, Taken, Value
  <2>2. ASSUME NEW t \in Generated
        PROVE  takes'[t] \subseteq {val[t], next[t]} \ {0}
    BY <1>1, <1>3, <2>2, Kinds DEF IInv, Recoverable, Generated
  <2>. QED
    BY <1>2, <2>1, <2>2 DEF IInv, Recoverable
<1>8. RunSound' /\ HandSound' /\ Last'
  BY <1>1, <1>2, <1>3, <1>4 DEF RunSound, HandSound, Last, Pending
<1>. QED
  BY <1>5, <1>6, <1>7, <1>8 DEF IInv

-----------------------------------------------------------------------------
(* The third stage, user by user.                                          *)

LEMMA ReadUsersKeeps ==
    ASSUME IInv, ReadUsers
    PROVE  IInv'
<1>1. PICK l \in DataSites \cup {None} :
         /\ IF run.at \in Roles THEN Read(l) ELSE l = None /\ UNCHANGED mishaps
         /\ run' = [run EXCEPT !.pc = "hand", !.uses = UsersOf(run.at), !.led = l]
  BY DEF ReadUsers
<1>2. run.pc = "users" /\ UNCHANGED <<val, next, left, held, takes, leader, made, began>>
  BY DEF ReadUsers, file
<1>3. run.at \in Pending /\ Pending \subseteq run.todo /\ UsersOf(run.at) \subseteq Sites
  BY <1>2, Kinds DEF IInv, RunSound, Pending
<1>4. /\ run' \in RunType /\ run'.pc = "hand" /\ run'.at = run.at /\ run'.todo = run.todo
      /\ run'.uses = UsersOf(run.at)
  BY <1>1, <1>3 DEF IInv, TypeOK, RunType
<1>5. mishaps' \in 0..MaxMishaps
  BY <1>1, ConstantsAssumption DEF IInv, TypeOK, Read, Mishap
<1>6. TypeOK'
  BY <1>2, <1>4, <1>5 DEF IInv, TypeOK, RunType
<1>7. One' /\ Fresh' /\ Taken' /\ Recoverable' /\ AllMeansAll'
  BY <1>2, RunAlone
<1>8. RunSound' /\ Last'
  BY <1>2, <1>3, <1>4 DEF RunSound, Last, Pending, UsersOf
<1>9. HandSound'
  BY <1>2, <1>4 DEF IInv, HandSound, UsersOf
<1>. QED
  BY <1>6, <1>7, <1>8, <1>9 DEF IInv

(* A user handed the next value is one fewer to come to.                   *)
LEMMA OneFewer ==
    ASSUME IInv, run.pc \in {"hand", "restart"}, NEW u \in run.uses,
           run' \in RunType, run'.pc = "hand", run'.at = run.at, run'.todo = run.todo,
           run'.uses = run.uses \ {u}, UNCHANGED <<next, takes>>,
           held'[run.at][u] = next[run.at],
           \A x \in UsersOf(run.at) \ {u} : held'[run.at][x] = held[run.at][x]
    PROVE  RunSound' /\ HandSound' /\ Last'
<1>1. RunSound' /\ Last'
  BY DEF IInv, RunSound, Last, Pending, UsersOf
<1>2. \A x \in UsersOf(run.at) \ run'.uses : held'[run.at][x] = next[run.at]
  BY DEF IInv, HandSound
<1>3. HandSound'
  BY <1>2 DEF IInv, HandSound, UsersOf
<1>. QED
  BY <1>1, <1>3

LEMMA HandKeeps ==
    ASSUME IInv, NEW u \in Sites, Hand(u)
    PROVE  IInv'
<1>1. /\ run.pc = "hand" /\ u \in run.uses
      /\ held' = Given(StackOf(run.at), u, Shown(run.at))
      /\ run' = [run EXCEPT !.uses = @ \ {u}]
      /\ UNCHANGED <<val, next, left, takes, leader, made, began, mishaps>>
  BY DEF Hand, file
<1>2. /\ held' \in [Secrets -> [Sites -> Value \cup {0}]] /\ Recoverable'
      /\ held'[run.at][u] = next[run.at]
      /\ \A x \in UsersOf(run.at) \ {u} : held'[run.at][x] = held[run.at][x]
  BY <1>1, Handing
<1>3. /\ run' \in RunType /\ run'.pc = "hand" /\ run'.at = run.at /\ run'.todo = run.todo
      /\ run'.uses = run.uses \ {u}
  BY <1>1 DEF IInv, TypeOK, RunType
<1>4. TypeOK'
  BY <1>1, <1>2, <1>3 DEF IInv, TypeOK, RunType
<1>5. RunSound' /\ HandSound' /\ Last'
  BY <1>1, <1>2, <1>3, OneFewer
<1>6. One' /\ Fresh' /\ Taken' /\ AllMeansAll'
  BY <1>1 DEF IInv, One, Pending, Fresh, Taken, AllMeansAll
<1>. QED
  BY <1>2, <1>4, <1>5, <1>6 DEF IInv

LEMMA PresentKeeps ==
    ASSUME IInv, NEW u \in Sites, Present(u)
    PROVE  IInv'
<1>1. /\ run.pc = "hand" /\ run.at \in Roles /\ u \in Turns
      /\ UNCHANGED <<val, next, left, held, takes, leader, made, began, mishaps>>
  BY DEF Present, file
<1>2. u \in run.uses /\ (run.uses \subseteq {u} \/ u # run.led)
  BY <1>1 DEF Turns
<1>3. One' /\ Fresh' /\ Taken' /\ Recoverable' /\ AllMeansAll'
  BY <1>1, RunAlone
<1>4. CASE held[run.at][u] = next[run.at]
  <2>1. run' = [run EXCEPT !.uses = @ \ {u}]
    BY <1>4 DEF Present
  <2>2. /\ run' \in RunType /\ run'.pc = "hand" /\ run'.at = run.at /\ run'.todo = run.todo
        /\ run'.uses = run.uses \ {u}
    BY <1>1, <2>1 DEF IInv, TypeOK, RunType
  <2>3. TypeOK'
    BY <1>1, <2>2 DEF IInv, TypeOK, RunType
  <2>4. RunSound' /\ HandSound' /\ Last'
    BY <1>1, <1>2, <1>4, <2>2, OneFewer
  <2>. QED
    BY <1>3, <2>3, <2>4 DEF IInv
<1>5. CASE held[run.at][u] # next[run.at]
  <2>1. run' = [run EXCEPT !.pc = IF MustSwitch(u) THEN "switch" ELSE "restart",
                           !.site = u, !.saw = leader]
    BY <1>5 DEF Present
  <2>2. /\ run' \in RunType /\ run'.at = run.at /\ run'.todo = run.todo
        /\ run'.uses = run.uses /\ run'.site = u /\ run'.saw = leader /\ run'.led = run.led
        /\ run'.pc = IF MustSwitch(u) THEN "switch" ELSE "restart"
    BY <2>1 DEF IInv, TypeOK, RunType
  <2>3. TypeOK'
    BY <1>1, <2>2 DEF IInv, TypeOK, RunType
  <2>4. run.at \in Pending /\ Pending \subseteq run.todo /\ run.uses \subseteq UsersOf(run.at)
    BY <1>1 DEF IInv, RunSound
  <2>5. RunSound'
    BY <1>1, <1>2, <2>2, <2>4 DEF RunSound, Pending, UsersOf
  <2>6. HandSound'
    BY <1>1, <2>2 DEF IInv, HandSound, UsersOf
  <2>7. Last'
    BY <1>2, <2>2 DEF Last, MustSwitch
  <2>. QED
    BY <1>3, <2>3, <2>5, <2>6, <2>7 DEF IInv
<1>. QED
  BY <1>4, <1>5

LEMMA SwitchKeeps ==
    ASSUME IInv, Switch
    PROVE  IInv'
<1>1. run.pc = "switch" /\ UNCHANGED <<val, next, left, held, takes, made, began, mishaps>>
  BY DEF Switch, file
<1>2. One' /\ Fresh' /\ Taken' /\ Recoverable' /\ AllMeansAll'
  BY <1>1, RunAlone
<1>3. CASE leader' \in Candidates /\ run' = [run EXCEPT !.pc = "restart"]
  <2>1. /\ run' \in RunType /\ run'.pc = "restart" /\ run'.at = run.at /\ run'.todo = run.todo
        /\ run'.uses = run.uses /\ run'.site = run.site
    BY <1>3 DEF IInv, TypeOK, RunType
  <2>2. TypeOK'
    BY <1>1, <1>3, <2>1 DEF IInv, TypeOK, RunType, Candidates
  <2>3. RunSound' /\ HandSound' /\ Last'
    BY <1>1, <2>1 DEF IInv, RunSound, HandSound, Last, Pending, UsersOf
  <2>. QED
    BY <1>2, <2>2, <2>3 DEF IInv
<1>4. CASE run' = Idle /\ UNCHANGED leader
  <2>1. TypeOK'
    BY <1>1, <1>4, IdleTyped DEF IInv, TypeOK, RunType
  <2>. QED
    BY <1>2, <1>4, <2>1, IdleTyped, AtRest DEF IInv
<1>. QED
  BY <1>3, <1>4 DEF Switch

LEMMA RestartKeeps ==
    ASSUME IInv, Restart
    PROVE  /\ IInv'
           /\ run.pc = "restart" /\ run.at \in Roles /\ run.site \in run.uses
           /\ held' = Given(StackOf(run.at), run.site, Shown(run.at))
           /\ UNCHANGED <<val, next, left, takes>>
<1>. DEFINE u == run.site
<1>1. /\ run.pc = "restart" /\ held' = Given("infra", u, Shown(run.at))
      /\ run' = [run EXCEPT !.pc = "hand", !.uses = @ \ {u}, !.site = None, !.saw = None]
      /\ IF leader = u THEN leader' \in DataSites ELSE UNCHANGED leader
      /\ UNCHANGED <<val, next, left, takes, made, began, mishaps>>
  BY DEF Restart, file
<1>2. run.at \in Roles /\ u \in run.uses
  BY <1>1 DEF IInv, RunSound
<1>3. held' = Given(StackOf(run.at), u, Shown(run.at))
  BY <1>1, <1>2 DEF StackOf
<1>4. /\ held' \in [Secrets -> [Sites -> Value \cup {0}]] /\ Recoverable'
      /\ held'[run.at][u] = next[run.at]
      /\ \A x \in UsersOf(run.at) \ {u} : held'[run.at][x] = held[run.at][x]
  BY <1>1, <1>2, <1>3, Handing
<1>5. /\ run' \in RunType /\ run'.pc = "hand" /\ run'.at = run.at /\ run'.todo = run.todo
      /\ run'.uses = run.uses \ {u}
  BY <1>1 DEF IInv, TypeOK, RunType
<1>6. TypeOK'
  BY <1>1, <1>4, <1>5 DEF IInv, TypeOK, RunType
<1>7. RunSound' /\ HandSound' /\ Last'
  BY <1>1, <1>2, <1>4, <1>5, OneFewer
<1>8. One' /\ Fresh' /\ Taken' /\ AllMeansAll'
  BY <1>1 DEF IInv, One, Pending, Fresh, Taken, AllMeansAll
<1>. QED
  BY <1>1, <1>2, <1>3, <1>4, <1>6, <1>7, <1>8 DEF IInv

-----------------------------------------------------------------------------
(* The last stage.                                                         *)

(* Every host that uses the secret runs with what becomes its own value.   *)
LEMMA PromoteKeeps ==
    ASSUME IInv, Promote
    PROVE  /\ IInv' /\ Pending = {run.at} /\ Pending' = {}
           /\ \A u \in UsersOf(run.at) : held[run.at][u] = next[run.at]
<1>. DEFINE s == run.at
<1>1. /\ run.pc = "hand" /\ run.uses = {}
      /\ val' = Shown(s) /\ next' = [next EXCEPT ![s] = 0] /\ left' = left \ {s}
      /\ run' = IF run.todo = {s} THEN Idle
                ELSE [Idle EXCEPT !.pc = "begin", !.all = run.all, !.todo = run.todo \ {s},
                                  !.asked = run.asked]
      /\ UNCHANGED <<held, takes, leader, made, began, mishaps>>
  BY DEF Promote, Delisted
<1>2. s \in Pending /\ Pending = {s}
  BY <1>1 DEF IInv, RunSound, One
<1>3. /\ s \in Secrets /\ next[s] \in Value
      /\ val' \in [Secrets -> Value] /\ val'[s] = next[s]
      /\ \A t \in Secrets \ {s} : val'[t] = val[t]
  BY <1>1, <1>2, ShownIs DEF IInv, TypeOK, FileType
<1>4. /\ next' \in [Secrets -> Value \cup {0}] /\ next'[s] = 0
      /\ \A t \in Secrets \ {s} : next'[t] = next[t] /\ next[t] = 0
  BY <1>1, <1>2, <1>3 DEF IInv, TypeOK, Pending
<1>5. Pending' = {}
  BY <1>4 DEF Pending
<1>6. run' \in RunType /\ (run'.pc = "idle" \/ (run'.pc = "begin" /\ Pending' \subseteq run'.todo))
  <2>1. CASE run.todo = {s}
    BY <1>1, <2>1, IdleTyped
  <2>2. CASE run.todo # {s}
    <3>1. run.todo \subseteq Secrets /\ run.all \in BOOLEAN /\ run.asked \in [Pasted -> Value \cup {0}]
      BY DEF IInv, TypeOK
    <3>. QED
      BY <1>1, <1>5, <2>2, <3>1, IdleTyped DEF Idle, RunType
  <2>. QED
    BY <2>1, <2>2
<1>7. TypeOK'
  BY <1>1, <1>3, <1>4, <1>6 DEF IInv, TypeOK, RunType
<1>8. One' /\ RunSound' /\ HandSound' /\ Last'
  BY <1>5, <1>6, AtRest DEF One
<1>9. \A u \in UsersOf(s) : held[s][u] = next[s]
  BY <1>1 DEF IInv, HandSound
<1>10. Fresh' /\ AllMeansAll'
  <2>1. ASSUME NEW t \in Generated
        PROVE  /\ val'[t] <= made[t] /\ next'[t] <= made[t] /\ began[t] <= made[t]
               /\ next'[t] # 0 => next'[t] # val'[t] /\ next'[t] # began[t]
               /\ began[t] # 0 /\ t \notin left' => val'[t] # began[t]
    <3>1. /\ val[t] <= made[t] /\ next[t] <= made[t] /\ began[t] <= made[t]
          /\ next[t] # 0 => next[t] # val[t] /\ next[t] # began[t]
          /\ began[t] # 0 /\ t \notin left => val[t] # began[t]
          /\ made[t] \in Nat /\ t \in Secrets
      BY Kinds DEF IInv, Fresh, AllMeansAll, TypeOK, Value
    <3>2. CASE t = s
      BY <1>2, <1>3, <1>4, <3>1, <3>2 DEF Pending
    <3>3. CASE t # s
      BY <1>1, <1>3, <1>4, <3>1, <3>3
    <3>. QED
      BY <3>2, <3>3
  <2>. QED
    BY <1>1, <2>1 DEF Fresh, AllMeansAll
<1>11. Taken'
  <2>1. ASSUME NEW t \in Roles \cup Logins
        PROVE  takes[t] = {val'[t]}
    <3>1. CASE t = s
      BY <1>1, <1>3, <2>1, <3>1 DEF IInv, HandSound
    <3>2. CASE t # s
      BY <1>3, <1>4, <3>2, Kinds DEF IInv, Taken
    <3>. QED
      BY <3>1, <3>2
  <2>. QED
    BY <1>1, <2>1 DEF IInv, Taken
<1>12. Recoverable'
  <2>1. ASSUME NEW t \in Generated
        PROVE  /\ \A u \in UsersOf(t) : held[t][u] \in {val'[t], next'[t]} \ {0}
               /\ takes[t] \subseteq {val'[t], next'[t]} \ {0}
    <3>1. /\ \A u \in UsersOf(t) : held[t][u] \in {val[t], next[t]} \ {0}
          /\ takes[t] \subseteq {val[t], next[t]} \ {0}
      BY DEF IInv, Recoverable
    <3>2. CASE t = s
      <4>1. takes[t] \subseteq {val'[t]}
        BY <1>11, <1>1, <1>3, <1>4, <3>2 DEF Taken, Generated
      <4>. QED
        BY <1>3, <1>9, <3>2, <4>1, Kinds
    <3>3. CASE t # s
      BY <1>3, <1>4, <3>1, <3>3, Kinds
    <3>. QED
      BY <3>2, <3>3
  <2>. QED
    BY <1>1, <2>1 DEF Recoverable, UsersOf
<1>. QED
  BY <1>2, <1>5, <1>7, <1>8, <1>9, <1>10, <1>11, <1>12 DEF IInv

-----------------------------------------------------------------------------
(* What else happens.                                                      *)

LEMMA StopKeeps ==
    ASSUME IInv, Stop
    PROVE  IInv'
<1>1. /\ run' = Idle /\ mishaps < MaxMishaps /\ mishaps' = mishaps + 1
      /\ UNCHANGED <<val, next, left, held, takes, leader, made, began>>
  BY DEF Stop, Mishap, file
<1>2. TypeOK'
  BY <1>1, IdleTyped, ConstantsAssumption DEF IInv, TypeOK, RunType
<1>. QED
  BY <1>1, <1>2, IdleTyped, AtRest, RunAlone DEF IInv

LEMMA LeaderMovesKeeps ==
    ASSUME IInv, LeaderMoves
    PROVE  IInv'
<1>1. /\ leader' \in DataSites /\ mishaps < MaxMishaps /\ mishaps' = mishaps + 1
      /\ UNCHANGED <<val, next, left, held, takes, run, made, began>>
  BY DEF LeaderMoves, Mishap, file
<1>2. TypeOK'
  BY <1>1, ConstantsAssumption DEF IInv, TypeOK
<1>3. RunSound' /\ HandSound' /\ Last'
  BY <1>1 DEF IInv, RunSound, HandSound, Last, Pending, UsersOf
<1>. QED
  BY <1>1, <1>2, <1>3, RunAlone DEF IInv

LEMMA ApplyKeeps ==
    ASSUME IInv, NEW u \in Sites, Apply(u)
    PROVE  /\ IInv' /\ run = Idle
           /\ \A s \in Generated : \A x \in UsersOf(s) : held'[s][x] = held[s][x]
<1>1. /\ run = Idle /\ Pending = {}
      /\ held' = [t \in Secrets |-> IF u \in UsersOf(t) THEN [held[t] EXCEPT ![u] = val[t]] ELSE held[t]]
      /\ UNCHANGED <<val, next, left, takes, leader, run, made, began, mishaps>>
  BY DEF Apply, RefuseMidRotation, file
<1>2. \A t \in Secrets : held'[t] \in [Sites -> Value \cup {0}]
  BY <1>1 DEF IInv, TypeOK
<1>3. held' \in [Secrets -> [Sites -> Value \cup {0}]]
  BY <1>1, <1>2
<1>4. TypeOK'
  BY <1>1, <1>3 DEF IInv, TypeOK
<1>5. ASSUME NEW s \in Generated, NEW x \in UsersOf(s)
      PROVE  held'[s][x] = held[s][x]
  <2>1. held[s][x] = val[s] /\ s \in Secrets /\ x \in Sites
    BY <1>1, UnpendingTaken, Kinds DEF IInv
  <2>. QED
    BY <1>1, <2>1 DEF IInv, TypeOK
<1>6. Recoverable'
  BY <1>1, <1>5 DEF IInv, Recoverable, UsersOf
<1>7. One' /\ Fresh' /\ Taken' /\ AllMeansAll'
  BY <1>1 DEF IInv, One, Pending, Fresh, Taken, AllMeansAll
<1>8. RunSound' /\ HandSound' /\ Last'
  BY <1>1, IdleTyped DEF RunSound, HandSound, Last
<1>. QED
  BY <1>1, <1>4, <1>5, <1>6, <1>7, <1>8 DEF IInv

LEMMA IssueKeeps ==
    ASSUME IInv, NEW s \in Pasted, NEW keep \in BOOLEAN, Issue(s, keep)
    PROVE  IInv' /\ \A t \in Generated : takes'[t] = takes[t]
<1>1. /\ made' = [made EXCEPT ![s] = @ + 1]
      /\ takes' = [takes EXCEPT ![s] = (IF keep THEN @ ELSE {}) \cup {made'[s]}]
      /\ UNCHANGED <<val, next, left, held, leader, run, began, mishaps>>
  BY DEF Issue, file
<1>2. s \in Secrets /\ s \notin Generated
  BY Kinds
<1>3. /\ made' \in [Secrets -> Value] /\ made'[s] \in Value
      /\ \A t \in Generated : made'[t] = made[t]
  BY <1>1, <1>2, Kinds DEF IInv, TypeOK, Value
<1>4. takes' \in [Secrets -> SUBSET Value] /\ \A t \in Generated : takes'[t] = takes[t]
  BY <1>1, <1>2, <1>3, Kinds DEF IInv, TypeOK
<1>5. TypeOK'
  BY <1>1, <1>3, <1>4 DEF IInv, TypeOK
<1>6. One' /\ Fresh' /\ Recoverable' /\ AllMeansAll'
  BY <1>1, <1>3, <1>4 DEF IInv, One, Pending, Fresh, Recoverable, AllMeansAll, UsersOf
<1>7. Taken'
  BY <1>1, <1>4, Kinds DEF IInv, Taken
<1>8. RunSound' /\ Last'
  BY <1>1 DEF IInv, RunSound, Last, Pending, UsersOf
<1>9. HandSound'
  BY <1>1, <1>4, Kinds DEF IInv, HandSound, UsersOf
<1>. QED
  BY <1>4, <1>5, <1>6, <1>7, <1>8, <1>9 DEF IInv

LEMMA SecretsSetKeeps ==
    ASSUME IInv, NEW s \in Pasted, NEW v \in takes[s], SecretsSet(s, v)
    PROVE  IInv' /\ \A t \in Generated : val'[t] = val[t]
<1>1. /\ run = Idle /\ val' = [val EXCEPT ![s] = v]
      /\ UNCHANGED <<next, left, held, takes, leader, run, made, began, mishaps>>
  BY DEF SecretsSet
<1>2. s \in Secrets /\ s \notin Generated /\ v \in Value
  BY Kinds DEF IInv, TypeOK
<1>3. val' \in [Secrets -> Value] /\ \A t \in Generated : val'[t] = val[t]
  BY <1>1, <1>2, Kinds DEF IInv, TypeOK
<1>4. TypeOK'
  BY <1>1, <1>3 DEF IInv, TypeOK
<1>5. One' /\ Fresh' /\ Recoverable' /\ AllMeansAll'
  BY <1>1, <1>3 DEF IInv, One, Pending, Fresh, Recoverable, AllMeansAll, UsersOf
<1>6. Taken'
  BY <1>1, <1>3, Kinds DEF IInv, Taken
<1>7. RunSound' /\ HandSound' /\ Last'
  BY <1>1, IdleTyped DEF RunSound, HandSound, Last
<1>. QED
  BY <1>3, <1>4, <1>5, <1>6, <1>7 DEF IInv

-----------------------------------------------------------------------------
(* The refinement: each step is one of SecretRotation's for the generated  *)
(* secrets, or none.                                                       *)

Same == \A t \in Generated : /\ val'[t] = val[t] /\ next'[t] = next[t]
                             /\ \A x \in UsersOf(t) : held'[t][x] = held[t][x]

LEMMA SameStutters == Same => UNCHANGED Rotation!vars
  BY DEF Same, Rotation!vars

LEMMA InitRefines == Init => Rotation!Init
<1>. SUFFICES ASSUME Init PROVE Rotation!Init
  OBVIOUS
<1>1. \A s \in Generated : /\ val[s] = 1 /\ next[s] = 0 /\ s \in Secrets
                           /\ \A u \in UsersOf(s) : held[s][u] = 1
  BY Kinds DEF Init
<1>. QED
  BY <1>1 DEF Rotation!Init

LEMMA WriteNextRefines ==
    ASSUME IInv, NEW s \in Secrets, WriteNext(s)
    PROVE  [Rotation!Next]_(Rotation!vars)
<1>1. UNCHANGED <<val, held>>
  BY DEF WriteNext
<1>2. CASE s \in Pending \/ s \notin Generated
  <2>1. \A t \in Generated : next'[t] = next[t]
    BY <1>2, Kinds DEF WriteNext, Kept, IInv, TypeOK
  <2>. QED
    BY <1>1, <2>1, SameStutters DEF Same
<1>3. CASE s \notin Pending /\ s \in Generated
  <2>1. Pending = {} /\ next' = [next EXCEPT ![s] = made[s] + 1]
    BY <1>3, WriteNextKeeps DEF WriteNext, Kept, NextValue
  <2>2. \A t \in Generated : t \in Secrets /\ next[t] = 0
    BY <2>1, Kinds DEF Pending
  <2>3. made[s] + 1 \in Nat \ {0, val[s]}
    BY <1>3, Kinds DEF IInv, TypeOK, Fresh, Value
  <2>4. /\ next'[s] = made[s] + 1
        /\ \A t \in Generated \ {s} : next'[t] = next[t]
    BY <1>3, <2>1, <2>2 DEF IInv, TypeOK
  <2>5. Rotation!Begin(s)
    BY <1>1, <1>3, <2>2, <2>3, <2>4 DEF Rotation!Begin
  <2>. QED
    BY <1>3, <2>5 DEF Rotation!Next
<1>. QED
  BY <1>2, <1>3

LEMMA HandingRefines ==
    ASSUME IInv, run.pc \in {"hand", "restart"}, NEW u \in run.uses,
           held' = Given(StackOf(run.at), u, Shown(run.at)),
           UNCHANGED <<val, next, takes>>
    PROVE  [Rotation!Next]_(Rotation!vars)
<1>1. PICK s \in Pending : s = run.at /\ u \in UsersOf(s)
  BY DEF IInv, RunSound
<1>2. /\ held'[s][u] = next[s]
      /\ \A x \in UsersOf(s) \ {u} : held'[s][x] = held[s][x]
      /\ \A t \in Generated \ {s} : \A x \in UsersOf(t) : held'[t][x] = held[t][x]
  BY <1>1, Handing
<1>3. CASE s \notin Generated
  BY <1>2, <1>3, SameStutters DEF Same
<1>4. CASE s \in Generated
  <2>1. next[s] # 0
    BY <1>1 DEF Pending
  <2>. DEFINE Runs(h) == [t \in Generated |-> [x \in UsersOf(t) |-> h[t][x]]]
  <2>2. \A t \in Generated \ {s} : Runs(held')[t] = Runs(held)[t]
    BY <1>2
  <2>3. Runs(held')[s] = [Runs(held)[s] EXCEPT ![u] = next[s]]
    <3>1. [x \in UsersOf(s) |-> held'[s][x]] = [[x \in UsersOf(s) |-> held[s][x]] EXCEPT ![u] = next[s]]
      BY <1>1, <1>2
    <3>. QED
      BY <1>4, <3>1
  <2>4. Runs(held') = [Runs(held) EXCEPT ![s] = [@ EXCEPT ![u] = next[s]]]
    BY <1>4, <2>2, <2>3
  <2>5. Rotation!Hand(s, u)
    BY <1>4, <2>1, <2>4 DEF Rotation!Hand, UsersOf
  <2>. QED
    BY <1>1, <1>4, <2>5 DEF Rotation!Next
<1>. QED
  BY <1>3, <1>4

LEMMA PromoteRefines ==
    ASSUME IInv, Promote
    PROVE  [Rotation!Next]_(Rotation!vars)
<1>0. PICK s \in Pending : s = run.at
  BY PromoteKeeps
<1>1. /\ val' = Shown(s) /\ next' = [next EXCEPT ![s] = 0] /\ UNCHANGED held
  BY <1>0 DEF Promote
<1>2. s \in Secrets /\ next[s] # 0 /\ \A u \in UsersOf(s) : held[s][u] = next[s]
  BY <1>0, PromoteKeeps DEF Pending
<1>3. /\ s \in Secrets /\ val'[s] = next[s] /\ next'[s] = 0
      /\ \A t \in Secrets \ {s} : val'[t] = val[t] /\ next'[t] = next[t]
  BY <1>1, <1>2, ShownIs DEF IInv, TypeOK, FileType
<1>4. CASE s \notin Generated
  BY <1>1, <1>3, <1>4, Kinds, SameStutters DEF Same
<1>5. CASE s \in Generated
  <2>1. Rotation!Promote(s)
    BY <1>1, <1>2, <1>3, <1>5, Kinds DEF Rotation!Promote
  <2>. QED
    BY <1>5, <2>1 DEF Rotation!Next
<1>. QED
  BY <1>4, <1>5

-----------------------------------------------------------------------------
(* The theorems.                                                           *)

(* The users' steps of the third stage, in one lemma for every handing.    *)
LEMMA HandIsHanding ==
    ASSUME IInv, NEW u \in Sites, Hand(u)
    PROVE  /\ run.pc \in {"hand", "restart"} /\ u \in run.uses
           /\ held' = Given(StackOf(run.at), u, Shown(run.at))
           /\ UNCHANGED <<val, next, takes>>
  BY DEF Hand, file

(* No step breaks the invariant. *)
LEMMA NextKeeps == IInv /\ [Next]_vars => IInv'
<1>. SUFFICES ASSUME IInv, [Next]_vars PROVE IInv'
  OBVIOUS
<1>1. CASE \E restart \in BOOLEAN : Start(TRUE, restart, {})
  BY <1>1, StartKeeps
<1>2. CASE \E named \in NamedSets : Start(FALSE, FALSE, named)
  BY <1>2, StartKeeps, ConstantsAssumption
<1>3. CASE Rerun
  BY <1>3, StartKeeps DEF Rerun, Pending
<1>4. CASE RunStep
  <2>1. CASE \E s \in Secrets : WriteNext(s)
    BY <2>1, WriteNextKeeps
  <2>2. CASE Check
    BY <2>2, CheckKeeps
  <2>3. CASE ReadUsers
    BY <2>3, ReadUsersKeeps
  <2>4. CASE \E u \in Sites : Hand(u) \/ Present(u)
    BY <2>4, HandKeeps, PresentKeeps
  <2>5. CASE Switch
    BY <2>5, SwitchKeeps
  <2>6. CASE Restart
    BY <2>6, RestartKeeps
  <2>7. CASE Promote
    BY <2>7, PromoteKeeps
  <2>. QED
    BY <1>4, <2>1, <2>2, <2>3, <2>4, <2>5, <2>6, <2>7 DEF RunStep
<1>5. CASE Stop
  BY <1>5, StopKeeps
<1>6. CASE LeaderMoves
  BY <1>6, LeaderMovesKeeps
<1>7. CASE \E u \in Sites : Apply(u)
  BY <1>7, ApplyKeeps
<1>8. CASE \E s \in Pasted :
             (\E v \in takes[s] : SecretsSet(s, v)) \/ \E keep \in BOOLEAN : Issue(s, keep)
  BY <1>8, SecretsSetKeeps, IssueKeeps
<1>9. CASE UNCHANGED vars
  <2>1. UNCHANGED <<val, next, left, held, takes, leader, run, made, began, mishaps>>
    BY <1>9 DEF vars, file
  <2>2. TypeOK' /\ RunSound' /\ HandSound' /\ Last'
    BY <2>1 DEF IInv, TypeOK, RunSound, HandSound, Last, Pending, UsersOf
  <2>. QED
    BY <2>1, <2>2, RunAlone DEF IInv
<1>. QED
  BY <1>1, <1>2, <1>3, <1>4, <1>5, <1>6, <1>7, <1>8, <1>9 DEF Next

(* Every reachable state satisfies the inductive invariant. *)
THEOREM Invariant == Spec => []IInv
<1>. QED
  BY InitHolds, NextKeeps, PTL DEF Spec

(* Every variable keeps its type. *)
THEOREM RotateTypeCorrect == Spec => []TypeOK
<1>1. IInv => TypeOK
  BY DEF IInv
<1>. QED
  BY Invariant, <1>1, PTL

(* Wherever a run of secrets rotate stops, the secrets file names every    *)
(* value a host runs with and every one Postgres takes. *)
THEOREM AlwaysRecoverable == Spec => []Recoverable
<1>1. IInv => Recoverable
  BY DEF IInv
<1>. QED
  BY Invariant, <1>1, PTL

(* At most one secret is being rotated, whatever runs stopped and were     *)
(* started since. *)
THEOREM AlwaysOnePending == Spec => []OnePending
<1>1. IInv => OnePending
  <2>. SUFFICES ASSUME IInv PROVE Cardinality(Pending) <= 1
    BY DEF OnePending
  <2>1. CASE Pending = {}
    BY <2>1, FS_EmptySet
  <2>2. CASE Pending # {}
    <3>1. PICK s \in Pending : Pending = {s}
      BY <2>2 DEF IInv, One
    <3>. QED
      BY <3>1, FS_Singleton
  <2>. QED
    BY <2>1, <2>2
<1>. QED
  BY Invariant, <1>1, PTL

(* A step that finds the leader where its stage read it has a member to    *)
(* switch the cluster to, which runs with the next value already. *)
THEOREM LeaderIsAlwaysLast == Spec => []LeaderIsLast
<1>1. IInv => LeaderIsLast
  <2>. SUFFICES ASSUME IInv, run.pc = "switch", run.saw = run.led PROVE Candidates # {}
    BY DEF LeaderIsLast
  <2>1. /\ run.uses \subseteq {run.site} /\ DataSites # {run.site}
        /\ run.at \in Roles /\ run.site \in DataSites
    BY Kinds DEF IInv, Last, RunSound
  <2>2. PICK m \in DataSites : m # run.site
    BY <2>1
  <2>3. held[run.at][m] = next[run.at]
    BY <2>1, <2>2, Kinds DEF IInv, HandSound
  <2>. QED
    BY <2>2, <2>3 DEF Candidates
<1>. QED
  BY Invariant, <1>1, PTL

(* A secret taken off the list of an --all run has been given a value      *)
(* since the list was made, however many runs it took. *)
THEOREM AllIsAll == Spec => []AllMeansAll
<1>1. IInv => AllMeansAll
  BY DEF IInv
<1>. QED
  BY Invariant, <1>1, PTL

(* A host is never handed a password that Postgres refuses. *)
THEOREM HandedAreAccepted == Spec => HandedIsAccepted
<1>. DEFINE Handed == \A s \in Roles \cup Logins : \A u \in UsersOf(s) :
                         held'[s][u] # held[s][u] => held'[s][u] \in takes[s]
<1>1. IInv /\ [Next]_vars => [Handed]_vars
  <2>. SUFFICES ASSUME IInv, Next PROVE Handed
    BY DEF Handed
  <2>1. CASE \E u \in Sites : Hand(u)
    BY <2>1, HandIsHanding, Handing
  <2>2. CASE Restart
    BY <2>2, RestartKeeps, Handing
  <2>3. CASE \E u \in Sites : Apply(u)
    BY <2>3, ApplyKeeps, Kinds
  <2>4. CASE UNCHANGED held
    BY <2>4
  <2>. QED
    BY <2>1, <2>2, <2>3, <2>4 DEF Next, Start, Rerun, RunStep, WriteNext, Check, ReadUsers,
          Present, Switch, Promote, Stop, LeaderMoves, SecretsSet, Issue
<1>2. Spec => [][Handed]_vars
  BY Invariant, <1>1, PTL DEF Spec
<1>. QED
  BY <1>2 DEF HandedIsAccepted

(* For the generated secrets the stages, the stops and the resumed runs of *)
(* the code come to no more than SecretRotation. *)
THEOREM Refines == Spec => RotatesOneByOne
<1>1. IInv /\ [Next]_vars => [Rotation!Next]_(Rotation!vars)
  <2>. SUFFICES ASSUME IInv, [Next]_vars PROVE [Rotation!Next]_(Rotation!vars)
    OBVIOUS
  <2>1. CASE \E s \in Secrets : WriteNext(s)
    BY <2>1, WriteNextRefines
  <2>2. CASE \E u \in Sites : Hand(u)
    BY <2>2, HandIsHanding, HandingRefines
  <2>3. CASE Restart
    BY <2>3, RestartKeeps, HandingRefines
  <2>4. CASE Promote
    BY <2>4, PromoteRefines
  <2>5. CASE \E u \in Sites : Apply(u)
    BY <2>5, ApplyKeeps, SameStutters DEF Apply, file, Same
  <2>6. CASE \E s \in Pasted : \E v \in takes[s] : SecretsSet(s, v)
    BY <2>6, SecretsSetKeeps, SameStutters DEF SecretsSet, Same
  <2>7. CASE UNCHANGED <<val, next, held>>
    BY <2>7, SameStutters DEF Same
  <2>. QED
    BY <2>1, <2>2, <2>3, <2>4, <2>5, <2>6, <2>7 DEF Next, Start, Rerun, RunStep, Check, ReadUsers,
          Present, Switch, Stop, LeaderMoves, Issue, file, vars
<1>. QED
  BY Invariant, InitRefines, <1>1, PTL DEF Spec, RotatesOneByOne, Rotation!Spec
=============================================================================
