-------------------------- MODULE MeshRekey_proofs --------------------------
(***************************************************************************)
(* Proofs about mesh rekey, for any number of sites, any of them dialled,  *)
(* and any bounds.                                                         *)
(***************************************************************************)
EXTENDS MeshRekey, TLAPS

(* Host h has a key for site s: its own, or a peer's.                      *)
Lists(h, s) == s = h \/ PeersDirectly(h, s)

(* A site's next key is another than its current one, as keys are made     *)
(* afresh.                                                                 *)
Fresh ==
    \A s \in Sites : /\ cur[s] <= minted
                     /\ next[s] # None => next[s] # cur[s] /\ next[s] <= minted

Begun == {"pause", "plan", "hand", "manifest", "sync", "health", "resume", "promote"}

(* What a run knows of the site it is at, and of those it has still to do. *)
RunSound ==
    /\ run.pc \in {"check", "newkey"} => run.site \in Sites /\ Pending = {}
    /\ run.pc \in Begun => run.site \in Sites /\ Pending = {run.site}
    /\ run.pc \in {"record", "pick"} => Pending \subseteq run.todo
    /\ run.pc \in {"hand", "manifest", "sync"} => \A h \in run.hand : Lists(h, run.site)
    /\ run.pc \in {"manifest", "sync"} => run.host \in run.hand
    /\ run.pc \in {"health", "resume", "promote"} => run.hand = {}

(* Host h has the site's next key in its file, and its interface runs it.  *)
Handed(h, s) == conf[h][s] = next[s] /\ iface[h][s] = next[s]

(* The hosts a swap is done with have the next key.                        *)
HandedSound ==
    /\ run.pc \in {"hand", "manifest", "sync", "health", "resume", "promote"} =>
          \A h \in Sites \ run.hand : Lists(h, run.site) => Handed(h, run.site)
    /\ run.pc \in {"manifest", "sync"} => conf[run.host][run.site] = next[run.site]

(* Who paused Patroni, and what for.                                       *)
PauseSound ==
    /\ PauseIsOwed
    /\ run.pc = "pause"   => Relays(run.site) # {}
    /\ run.pc = "promote" => paused # "rekey"
    /\ paused = "others"  => Pending = {} /\ run.pc \in {"idle", "record", "pick", "check"}

(* No host runs the site's next key, or every one has it.                  *)
Unbegun(s) == \A h \in Sites : Lists(h, s) => iface[h][s] = cur[s]
Whole(s)   == \A h \in Sites : Lists(h, s) => Handed(h, s)

(* Without a pause the swap of a relay is under way on no host.            *)
RelaySound ==
    paused = None =>
       /\ \A s \in Pending : Relays(s) # {} => Unbegun(s) \/ Whole(s)
       /\ run.pc \in Begun \ {"pause"} /\ Relays(run.site) # {} => Whole(run.site)

(* A site a run knows to have run its next key still runs it, and is the   *)
(* first the run is at.                                                    *)
RanSound ==
    /\ run.pc \in {"record", "pick"} =>
          \A s \in run.ran : /\ s \in Pending => iface[s][s] = next[s]
                             /\ s \in run.todo => s \in Pending
    /\ run.pc \in Begun \cup {"check", "newkey"} => run.ran \cap run.todo = {}
    /\ run.pc \in {"check", "newkey"} => run.site \notin run.ran

(* The sites an --all run has left are none of those promoted since it     *)
(* recorded them.                                                          *)
AllSound ==
    /\ left \cap done = {}
    /\ run.pc \in Begun \cup {"check", "newkey"} => run.site \notin run.todo
    /\ run.all /\ run.pc \notin {"idle", "record"} => run.todo \subseteq left \cup Pending
    /\ run.all /\ run.pc \in {"check", "newkey"} => run.site \in left

IInv ==
    /\ TypeOK /\ Fresh /\ OnePending /\ KeysHeld /\ PeersAgree
    /\ RunSound /\ HandedSound /\ PauseSound /\ RelaySound /\ RanSound /\ AllSound

RunType == [pc : Steps, all : BOOLEAN, todo : SUBSET Sites, ran : SUBSET Sites,
            site : Sites \cup {None}, hand : SUBSET Sites, host : Sites \cup {None}]

-----------------------------------------------------------------------------
(* Keys and mesh files.                                                    *)

LEMMA NoneIsNoKey == None \notin Keys /\ None \notin Sites /\ Sites \subseteq Keys
  BY ConstantsAssumption DEF Keys, Sites

(* Peers list each other, and one of them is dialled.                      *)
LEMMA ListsEachOther ==
    ASSUME NEW h \in Sites, NEW s \in Sites
    PROVE  /\ PeersDirectly(h, s) <=> PeersDirectly(s, h)
           /\ Lists(h, s) <=> Lists(s, h)
           /\ h \in Peers(s) \cup {s} <=> Lists(h, s)
  BY DEF PeersDirectly, Lists, Peers

LEMMA RenderLists ==
    ASSUME NEW h \in Sites, NEW keys \in [Sites -> Keys]
    PROVE  /\ Render(h, keys) \in [Sites -> Keys \cup {None}]
           /\ \A s \in Sites : Render(h, keys)[s] = IF Lists(h, s) THEN keys[s] ELSE None
           /\ \A s \in Sites : Render(h, keys)[s] # None <=> Lists(h, s)
  BY NoneIsNoKey DEF Render, Lists

(* While a site's rekey is under way its swap renders every other site     *)
(* with its current key.                                                   *)
LEMMA SwappedIs ==
    ASSUME TypeOK, RunSound, run.pc \in Begun
    PROVE  /\ Swapped(run.site) \in [Sites -> Keys]
           /\ next[run.site] \in Keys
           /\ Swapped(run.site)[run.site] = next[run.site]
           /\ \A t \in Sites \ {run.site} : Swapped(run.site)[t] = cur[t] /\ next[t] = None
<1>1. /\ run.site \in Sites
      /\ \A t \in Sites : next[t] # None <=> t = run.site
  BY DEF RunSound, Pending
<1>2. cur \in [Sites -> Keys] /\ next \in [Sites -> Keys \cup {None}]
  BY DEF TypeOK
<1>. QED
  BY <1>1, <1>2 DEF Swapped, AsRunning

-----------------------------------------------------------------------------
(* What a step that leaves the files, the hosts and the pause alone keeps. *)

LEMMA Unmoved ==
    ASSUME UNCHANGED <<file, host, paused, minted, done>>
    PROVE  /\ Fresh' <=> Fresh
           /\ OnePending' <=> OnePending
           /\ KeysHeld' <=> KeysHeld
           /\ PeersAgree' <=> PeersAgree
           /\ PauseIsOwed' <=> PauseIsOwed
           /\ Pending' = Pending
           /\ \A s \in Sites : Unbegun(s)' = Unbegun(s) /\ Whole(s)' = Whole(s)
           /\ \A h, s \in Sites : Handed(h, s)' = Handed(h, s)
<1>1. /\ cur' = cur /\ next' = next /\ left' = left /\ conf' = conf /\ known' = known
      /\ iface' = iface /\ paused' = paused /\ minted' = minted /\ done' = done
  BY DEF file, host
<1>2. Pending' = Pending
  BY <1>1 DEF Pending
<1>3. Fresh' <=> Fresh
  BY <1>1 DEF Fresh
<1>4. KeysHeld' <=> KeysHeld
  BY <1>1 DEF KeysHeld
<1>5. PeersAgree' <=> PeersAgree
  BY <1>1 DEF PeersAgree
<1>. QED
  BY <1>1, <1>2, <1>3, <1>4, <1>5 DEF OnePending, PauseIsOwed, Unbegun, Whole, Handed

(* The type of a state whose run and counters alone moved.                 *)
LEMMA TypeMoved ==
    ASSUME TypeOK, UNCHANGED <<cur, next, host, minted>>, left' \subseteq Sites,
           paused' \in {None, "rekey", "others"}, sick' \in BOOLEAN, run' \in RunType,
           done' \subseteq Sites, mishaps' \in 0..MaxMishaps
    PROVE  TypeOK'
  BY DEF TypeOK, RunType, host

(* A run that ends, wherever it was.                                       *)
LEMMA Ends ==
    ASSUME IInv, run' = Idle, UNCHANGED <<file, host, paused, sick, minted, done>>,
           mishaps' \in 0..MaxMishaps
    PROVE  IInv'
<1>1. /\ Idle \in RunType /\ Idle.pc = "idle"
  BY DEF Idle, RunType, Steps
<1>2. TypeOK'
  BY <1>1, TypeMoved DEF IInv, TypeOK, file, host
<1>3. RunSound' /\ HandedSound' /\ RanSound'
  BY <1>1 DEF RunSound, HandedSound, RanSound, Begun
<1>4. PauseSound'
  BY <1>1, Unmoved DEF IInv, PauseSound
<1>5. AllSound'
  BY <1>1 DEF IInv, AllSound, Begun, file
<1>6. RelaySound'
  BY <1>1, Unmoved DEF IInv, RelaySound, Begun, Pending
<1>. QED
  BY <1>2, <1>3, <1>4, <1>5, <1>6, Unmoved DEF IInv

-----------------------------------------------------------------------------
(* The initial state.                                                      *)

LEMMA InitIInv == ASSUME Init PROVE IInv
<1>1. /\ cur \in [Sites -> Keys] /\ next \in [Sites -> Keys \cup {None}]
      /\ \A s \in Sites : cur[s] = s /\ next[s] = None
      /\ \A h, s \in Sites : conf[h][s] = iface[h][s]
      /\ Pending = {}
  BY NoneIsNoKey DEF Init, Pending
<1>2. \A h \in Sites : conf[h] = Render(h, cur) /\ iface[h] = Render(h, cur)
  BY DEF Init
<1>3. /\ conf \in [Sites -> [Sites -> Keys \cup {None}]] /\ iface = conf
      /\ \A h, s \in Sites : conf[h][s] # None <=> Lists(h, s)
  BY <1>1, <1>2, RenderLists DEF Init
<1>4. Idle \in RunType /\ run = Idle /\ run.pc = "idle"
  BY DEF Init, Idle, RunType, Steps
<1>5. minted = NSites /\ minted \in NSites..MaxKeys /\ 0 \in 0..MaxMishaps
  BY ConstantsAssumption DEF Init
<1>6. TypeOK
  <2>1. \A m \in {conf, iface} : m \in [Sites -> [Sites -> Keys \cup {None}]]
    BY <1>3
  <2>2. \A m \in {conf, iface} : \A h, s \in Sites : m[h][s] # None <=> Lists(h, s)
    BY <1>3
  <2>3. left = {} /\ done = {} /\ paused = None /\ sick \in BOOLEAN /\ mishaps = 0
    BY DEF Init
  <2>4. known \in [Sites -> BOOLEAN]
    BY DEF Init
  <2>. QED
    BY <1>1, <1>4, <1>5, <2>1, <2>2, <2>3, <2>4 DEF TypeOK, RunType, Lists
<1>7. Fresh
  BY <1>1, <1>5, ConstantsAssumption DEF Fresh, Sites
<1>8. KeysHeld /\ PeersAgree /\ OnePending
  BY <1>1, <1>2, RenderLists DEF KeysHeld, PeersAgree, OnePending, Lists
<1>9. RunSound /\ HandedSound /\ RanSound /\ AllSound
  BY <1>4 DEF RunSound, HandedSound, RanSound, AllSound, Begun, Init
<1>10. PauseSound /\ RelaySound
  BY <1>1, <1>4, ConstantsAssumption DEF PauseSound, PauseIsOwed, RelaySound, Begun, Init
<1>. QED
  BY <1>6, <1>7, <1>8, <1>9, <1>10 DEF IInv

-----------------------------------------------------------------------------
(* The steps of a run that only read.                                      *)

LEMMA StartIInv == ASSUME IInv, Start PROVE IInv'
<1>1. PICK all \in BOOLEAN, named \in SUBSET Sites :
        /\ IF all THEN named = IF left # {} THEN left ELSE Sites ELSE named # {}
        /\ Pending = {} => Ready
        /\ run' = [Idle EXCEPT !.pc = IF all /\ left = {} THEN "record" ELSE "pick",
                               !.all = all,
                               !.todo = Planned(named),
                               !.ran = {s \in Pending : iface[s][s] = next[s]}]
  BY DEF Start
<1>2. /\ run'.pc \in {"record", "pick"}
      /\ run'.todo = Pending \cup named
      /\ run'.ran = {s \in Pending : iface[s][s] = next[s]}
      /\ run'.all /\ run'.pc # "record" => named = left
      /\ run' \in RunType
  BY <1>1 DEF Idle, RunType, Planned, Pending, Steps
<1>3. UNCHANGED <<file, host, paused, sick, minted, done, mishaps>>
  BY DEF Start
<1>4. TypeOK'
  BY <1>2, <1>3, TypeMoved DEF IInv, TypeOK, file
<1>5. RunSound' /\ HandedSound'
  BY <1>2, <1>3, Unmoved DEF RunSound, HandedSound, Begun
<1>6. RanSound'
  BY <1>2, <1>3, Unmoved DEF RanSound, Begun, file, host
<1>7. AllSound'
  BY <1>2, <1>3, Unmoved DEF IInv, AllSound, Begun, file
<1>8. PauseSound'
  BY <1>2, <1>3, Unmoved DEF IInv, PauseSound
<1>9. RelaySound'
  BY <1>2, <1>3, Unmoved DEF IInv, RelaySound, Begun, Pending
<1>. QED
  BY <1>3, <1>4, <1>5, <1>6, <1>7, <1>8, <1>9, Unmoved DEF IInv

LEMMA RecordIInv == ASSUME IInv, Record PROVE IInv'
<1>1. /\ run.pc = "record" /\ run \in RunType
      /\ run' = [run EXCEPT !.pc = "pick"]
      /\ left' = run.todo /\ done' = {}
      /\ cur' = cur /\ next' = next /\ UNCHANGED <<host, paused, sick, minted, mishaps>>
  BY DEF IInv, TypeOK, RunType, Record, Goto
<1>2. /\ run' \in RunType /\ run'.pc = "pick" /\ run'.all = run.all
      /\ run'.todo = run.todo /\ run'.ran = run.ran
      /\ run.todo \subseteq Sites
  BY <1>1 DEF RunType, Steps
<1>3. TypeOK'
  BY <1>1, <1>2, TypeMoved DEF IInv, TypeOK
<1>4. Pending' = Pending /\ conf' = conf /\ iface' = iface /\ paused' = paused
  BY <1>1 DEF Pending, host
<1>5. Fresh' /\ OnePending' /\ KeysHeld' /\ PeersAgree'
  BY <1>1, <1>4 DEF IInv, Fresh, OnePending, KeysHeld, PeersAgree
<1>6. RunSound' /\ HandedSound' /\ RanSound' /\ AllSound'
  BY <1>1, <1>2, <1>4 DEF IInv, RunSound, HandedSound, RanSound, AllSound, Begun
<1>7. PauseSound'
  BY <1>1, <1>2, <1>4 DEF IInv, PauseSound, PauseIsOwed
<1>8. RelaySound'
  BY <1>1, <1>2, <1>4 DEF IInv, RelaySound, Unbegun, Whole, Handed, Begun
<1>. QED
  BY <1>3, <1>5, <1>6, <1>7, <1>8 DEF IInv

LEMMA PickIInv == ASSUME IInv, Pick PROVE IInv'
<1>1. PICK s \in run.todo :
        /\ s \in Pending \/ run.todo \cap Pending = {}
        /\ run' = [run EXCEPT !.pc = IF s \in Pending THEN AfterKey(s) ELSE "check",
                              !.todo = @ \ {s}, !.site = s]
  BY DEF Pick
<1>2. /\ run.pc = "pick" /\ run \in RunType /\ s \in Sites
      /\ UNCHANGED <<file, host, paused, sick, minted, done, mishaps>>
  BY DEF IInv, TypeOK, RunType, Pick
<1>3. /\ run' \in RunType /\ run'.site = s /\ run'.all = run.all
      /\ run'.todo = run.todo \ {s} /\ run'.ran = run.ran
      /\ run'.pc = IF s \in Pending THEN AfterKey(s) ELSE "check"
      /\ run'.pc \in {"check", "pause", "plan"}
  BY <1>1, <1>2 DEF RunType, AfterKey, Steps
<1>4. /\ s \in Pending    => Pending = {s}
      /\ s \notin Pending => Pending = {}
  BY <1>1, <1>2 DEF IInv, OnePending, RunSound
<1>5. TypeOK'
  BY <1>2, <1>3, TypeMoved DEF IInv, TypeOK, file
<1>6. RunSound' /\ HandedSound' /\ RanSound'
  BY <1>2, <1>3, <1>4, Unmoved DEF IInv, AfterKey, RunSound, HandedSound, RanSound, Begun
<1>7. AllSound'
  BY <1>2, <1>3, <1>4, Unmoved DEF IInv, AllSound, Begun, AfterKey, file
<1>8. PauseSound'
  <2>1. run'.pc = "pause" => Relays(s) # {}
    BY <1>3 DEF AfterKey
  <2>2. Relays(run.site)' = Relays(run'.site)
    BY DEF Relays, Relay
  <2>. QED
    BY <1>2, <1>3, <1>4, <2>1, <2>2, Unmoved DEF IInv, PauseSound
<1>9. RelaySound'
  <2>1. ASSUME s \in Pending, s \in run.ran, Relays(s) # {}, paused = None
        PROVE  Whole(s)
    <3>1. iface[s][s] = next[s] /\ next[s] # cur[s]
      BY <1>2, <2>1 DEF IInv, RanSound, Fresh, Pending
    <3>2. ~Unbegun(s)
      BY <1>2, <3>1 DEF Unbegun, Lists
    <3>. QED
      BY <2>1, <3>2 DEF IInv, RelaySound
  <2>2. Relays(run.site)' = Relays(s)
    BY <1>3 DEF Relays, Relay
  <2>3. Whole(s)' <=> Whole(s)
    BY <1>2, Unmoved
  <2>4. Whole(run.site)' <=> Whole(s)'
    BY <1>3 DEF Whole, Handed
  <2>5. paused' = None /\ run'.pc \in Begun \ {"pause"} /\ Relays(s) # {} => Whole(s)'
    BY <1>2, <1>3, <2>1, <2>3 DEF AfterKey, Begun
  <2>6. paused' = None => \A t \in Pending' : Relays(t)' # {} => Unbegun(t)' \/ Whole(t)'
    <3>1. \A t \in Sites : Relays(t)' = Relays(t)
      BY DEF Relays, Relay
    <3>. QED
      BY <1>2, <3>1, Unmoved DEF IInv, RelaySound, Pending
  <2>. QED
    BY <2>2, <2>4, <2>5, <2>6 DEF RelaySound
<1>. QED
  BY <1>2, <1>5, <1>6, <1>7, <1>8, <1>9, Unmoved DEF IInv

(* A step that moves a run on among the steps of one site, or to them, and *)
(* changes nothing else: what remains to show of it.                       *)
LEMMA Moves ==
    ASSUME IInv, UNCHANGED <<file, host, paused, sick, minted, done, mishaps>>,
           run.pc \in Begun \cup {"check"}, run'.pc \in Steps \ {"record", "pick", "idle"},
           run' = [run EXCEPT !.pc = run'.pc, !.hand = run'.hand, !.host = run'.host],
           run'.hand \subseteq Sites, run'.host \in Sites \cup {None},
           RunSound', HandedSound',
           run.pc \in Begun <=> run'.pc \in Begun,
           run'.pc = "pause" => run.pc = "pause",
           run'.pc = "promote" => paused # "rekey",
           run.pc = "pause" => run'.pc = "pause",
           paused = "others" => run'.pc = "check"
    PROVE  IInv'
<1>1. /\ run \in RunType
      /\ run' \in RunType /\ run'.site = run.site /\ run'.all = run.all
      /\ run'.todo = run.todo /\ run'.ran = run.ran
  BY DEF IInv, TypeOK, RunType, Steps
<1>2. TypeOK'
  BY <1>1, TypeMoved DEF IInv, TypeOK, file
<1>3. RanSound'
  BY <1>1 DEF IInv, RanSound, Begun, Steps
<1>4. AllSound'
  BY <1>1, Unmoved DEF IInv, AllSound, Begun, Steps, file
<1>5. \A s \in Sites : Relays(s)' = Relays(s)
  BY DEF Relays, Relay
<1>6. PauseSound'
  BY <1>1, <1>5, Unmoved DEF IInv, PauseSound, RunSound, Begun
<1>7. RelaySound'
  BY <1>1, <1>5, Unmoved DEF IInv, RelaySound, RunSound, Begun, Pending
<1>. QED
  BY <1>2, <1>3, <1>4, <1>6, <1>7, Unmoved DEF IInv

LEMMA CheckReadyIInv == ASSUME IInv, CheckReady PROVE IInv'
<1>1. /\ run.pc = "check" /\ run' = [run EXCEPT !.pc = "newkey"]
      /\ paused = None /\ run \in RunType
      /\ UNCHANGED <<file, host, paused, sick, minted, done, mishaps>>
  BY DEF IInv, TypeOK, RunType, CheckReady, Goto, Ready
<1>2. /\ run' = [run EXCEPT !.pc = run'.pc, !.hand = run'.hand, !.host = run'.host]
      /\ run'.pc = "newkey" /\ run'.site = run.site
      /\ run'.hand \subseteq Sites /\ run'.host \in Sites \cup {None}
  BY <1>1 DEF RunType
<1>3. RunSound' /\ HandedSound'
  BY <1>1, <1>2, Unmoved DEF IInv, RunSound, HandedSound, Begun
<1>. QED
  BY <1>1, <1>2, <1>3, Moves, ConstantsAssumption DEF Begun, Steps

LEMMA PlanSwapIInv == ASSUME IInv, PlanSwap PROVE IInv'
<1>1. /\ run.pc = "plan" /\ run \in RunType
      /\ run' = [run EXCEPT !.pc = "hand", !.hand = Peers(run.site) \cup {run.site}]
      /\ UNCHANGED <<file, host, paused, sick, minted, done, mishaps>>
      /\ run.site \in Sites
  BY DEF IInv, TypeOK, RunType, PlanSwap, RunSound, Begun
<1>2. /\ run' = [run EXCEPT !.pc = run'.pc, !.hand = run'.hand, !.host = run'.host]
      /\ run'.pc = "hand" /\ run'.site = run.site
      /\ run'.hand = Peers(run.site) \cup {run.site} /\ run'.host = run.host
      /\ run'.hand \subseteq Sites /\ run'.host \in Sites \cup {None}
  BY <1>1 DEF RunType, Peers
<1>3. RunSound'
  BY <1>1, <1>2, Unmoved, ListsEachOther DEF IInv, RunSound, Begun
<1>4. HandedSound'
  BY <1>1, <1>2, ListsEachOther DEF HandedSound
<1>5. paused # "others"
  BY <1>1 DEF IInv, PauseSound
<1>. QED
  BY <1>1, <1>2, <1>3, <1>4, <1>5, Moves DEF Begun, Steps

LEMMA HandWrittenIInv == ASSUME IInv, NEW h \in Sites, HandWritten(h) PROVE IInv'
<1>1. /\ run.pc = "hand" /\ run \in RunType /\ h \in run.hand
      /\ conf[h] = Render(h, Swapped(run.site))
      /\ run' = IF iface[h][run.site] = next[run.site]
                THEN [run EXCEPT !.hand = @ \ {h}]
                ELSE [run EXCEPT !.pc = "sync", !.host = h]
      /\ UNCHANGED <<file, host, paused, sick, minted, done, mishaps>>
      /\ run.site \in Sites
  BY DEF IInv, TypeOK, RunType, HandWritten, NextHost, RunSound, Begun
<1>2. /\ run' = [run EXCEPT !.pc = run'.pc, !.hand = run'.hand, !.host = run'.host]
      /\ run'.pc \in {"hand", "sync"} /\ run'.site = run.site
      /\ run'.pc = "hand" => run'.hand = run.hand \ {h} /\ iface[h][run.site] = next[run.site]
      /\ run'.pc = "sync" => run'.hand = run.hand /\ run'.host = h
      /\ run'.hand \subseteq Sites /\ run'.host \in Sites \cup {None}
  BY <1>1 DEF RunType
<1>3. RunSound'
  BY <1>1, <1>2, Unmoved DEF IInv, RunSound, Begun
<1>4. Lists(h, run.site) => conf[h][run.site] = next[run.site]
  BY <1>1, RenderLists, SwappedIs DEF IInv, Begun
<1>5. Lists(h, run.site)
  BY <1>1 DEF IInv, RunSound
<1>6. HandedSound'
  BY <1>1, <1>2, <1>4, <1>5, Unmoved DEF IInv, HandedSound, Handed, file, host
<1>7. paused # "others"
  BY <1>1 DEF IInv, PauseSound
<1>. QED
  BY <1>1, <1>2, <1>3, <1>6, <1>7, Moves DEF Begun, Steps

LEMMA HandshakesIInv == ASSUME IInv, Handshakes PROVE IInv'
<1>1. /\ run.pc = "hand" /\ run.hand = {} /\ run' = [run EXCEPT !.pc = "health"]
      /\ run \in RunType
      /\ UNCHANGED <<file, host, paused, sick, minted, done, mishaps>>
  BY DEF IInv, TypeOK, RunType, Handshakes, Goto
<1>2. /\ run' = [run EXCEPT !.pc = run'.pc, !.hand = run'.hand, !.host = run'.host]
      /\ run'.pc = "health" /\ run'.site = run.site /\ run'.hand = {}
      /\ run'.host \in Sites \cup {None}
  BY <1>1 DEF RunType
<1>3. RunSound'
  BY <1>1, <1>2, Unmoved DEF IInv, RunSound, Begun
<1>4. HandedSound'
  BY <1>1, <1>2, Unmoved DEF IInv, HandedSound, Handed, RunSound, Begun, file, host
<1>5. paused # "others"
  BY <1>1 DEF IInv, PauseSound
<1>. QED
  BY <1>1, <1>2, <1>3, <1>4, <1>5, Moves DEF Begun, Steps

LEMMA HealthGateIInv == ASSUME IInv, HealthGate PROVE IInv'
<1>1. /\ run.pc = "health" /\ run \in RunType
      /\ run' = [run EXCEPT !.pc = IF Relays(run.site) # {} THEN "resume" ELSE "promote"]
      /\ UNCHANGED <<file, host, paused, sick, minted, done, mishaps>>
  BY DEF IInv, TypeOK, RunType, HealthGate, Goto
<1>2. /\ run' = [run EXCEPT !.pc = run'.pc, !.hand = run'.hand, !.host = run'.host]
      /\ run'.pc \in {"resume", "promote"} /\ run'.site = run.site /\ run'.hand = run.hand
      /\ run'.hand \subseteq Sites /\ run'.host \in Sites \cup {None}
      /\ run'.pc = "promote" => Relays(run.site) = {}
  BY <1>1 DEF RunType
<1>3. RunSound'
  BY <1>1, <1>2, Unmoved DEF IInv, RunSound, Begun
<1>4. HandedSound'
  BY <1>1, <1>2, Unmoved DEF IInv, HandedSound, Handed, RunSound, Begun, file, host
<1>5. paused # "others"
  BY <1>1 DEF IInv, PauseSound
<1>6. Relays(run.site) = {} => paused # "rekey"
  BY <1>1 DEF IInv, PauseSound, PauseIsOwed, RunSound, Begun
<1>. QED
  BY <1>1, <1>2, <1>3, <1>4, <1>5, <1>6, Moves DEF Begun, Steps

LEMMA EndsIInv == ASSUME IInv, Finish \/ Refuse \/ Stop PROVE IInv'
<1>1. run' = Idle /\ UNCHANGED <<file, host, paused, sick, minted, done>>
  BY DEF Finish, Refuse, Stop
<1>2. mishaps' \in 0..MaxMishaps
  BY ConstantsAssumption DEF Finish, Refuse, Stop, Mishap, IInv, TypeOK
<1>. QED
  BY <1>1, <1>2, Ends

-----------------------------------------------------------------------------
(* The steps of a run that write.                                          *)

LEMMA NewKeyIInv == ASSUME IInv, NewKey PROVE IInv'
<1> DEFINE s == run.site
           k == minted + 1
<1>1. /\ run.pc = "newkey" /\ minted < MaxKeys /\ s \in Sites /\ Pending = {}
      /\ next' = [next EXCEPT ![s] = k] /\ minted' = k
      /\ run' = [run EXCEPT !.pc = AfterKey(s)]
      /\ cur' = cur /\ left' = left /\ conf' = conf /\ known' = known /\ iface' = iface
      /\ paused' = paused /\ sick' = sick /\ done' = done /\ mishaps' = mishaps
  BY DEF IInv, RunSound, NewKey, Goto, host
<1>2. /\ run \in RunType /\ cur \in [Sites -> Keys] /\ next \in [Sites -> Keys \cup {None}]
      /\ minted \in NSites..MaxKeys
  BY DEF IInv, TypeOK, RunType
<1>3. /\ k \in Keys /\ k \in NSites..MaxKeys
      /\ k # None /\ \A t \in Sites : cur[t] <= minted /\ cur[t] # k /\ cur[t] <= k
  BY <1>1, <1>2, ConstantsAssumption DEF IInv, Fresh, Keys
<1>4. /\ run' \in RunType /\ run'.pc = AfterKey(s) /\ run'.pc \in {"pause", "plan"}
      /\ run'.site = s /\ run'.all = run.all /\ run'.todo = run.todo /\ run'.ran = run.ran
      /\ run'.pc = "plan" => Relays(s) = {} \/ s \in run.ran
  BY <1>1, <1>2 DEF RunType, AfterKey, Steps
<1>5. next'[s] = k /\ \A t \in Sites \ {s} : next'[t] = None
  BY <1>1, <1>2 DEF Pending
<1>6. next' \in [Sites -> Keys \cup {None}]
  BY <1>1, <1>2, <1>3
<1>7. Pending' = {s}
  BY <1>1, <1>3, <1>5 DEF Pending
<1>8. TypeOK'
  BY <1>1, <1>3, <1>4, <1>6 DEF IInv, TypeOK, RunType
<1>9. Fresh' /\ OnePending'
  BY <1>1, <1>2, <1>3, <1>5, <1>7, ConstantsAssumption DEF Fresh, OnePending
<1>10. \A h, t \in Sites : Lists(h, t) => iface[h][t] = cur[t] /\ conf[h][t] = cur[t]
  BY <1>1 DEF IInv, PeersAgree, Pending, Lists
<1>11. KeysHeld' /\ PeersAgree'
  BY <1>1, <1>10 DEF KeysHeld, PeersAgree, Lists
<1>12. RunSound' /\ HandedSound' /\ RanSound'
  BY <1>1, <1>4, <1>7 DEF IInv, RunSound, HandedSound, RanSound, Begun
<1>13. AllSound'
  BY <1>1, <1>4, <1>7 DEF IInv, AllSound, Begun
<1>14. \A t \in Sites : Relays(t)' = Relays(t)
  BY DEF Relays, Relay
<1>15. PauseSound'
  <2>1. paused # "others"
    BY <1>1 DEF IInv, PauseSound
  <2>2. paused # "rekey"
    BY <1>1 DEF IInv, PauseSound, PauseIsOwed
  <2>3. run'.pc = "pause" => Relays(s) # {}
    BY <1>4 DEF AfterKey
  <2>. QED
    BY <1>1, <1>4, <1>14, <2>1, <2>2, <2>3 DEF PauseSound, PauseIsOwed
<1>16. RelaySound'
  <2>1. Unbegun(s)'
    BY <1>1, <1>10 DEF Unbegun
  <2>2. run'.pc = "plan" => Relays(s) = {}
    BY <1>1, <1>4 DEF IInv, RanSound
  <2>. QED
    BY <1>1, <1>4, <1>7, <1>14, <2>1, <2>2 DEF RelaySound, Begun
<1>. QED
  BY <1>8, <1>9, <1>11, <1>12, <1>13, <1>15, <1>16 DEF IInv

LEMMA PauseIInv == ASSUME IInv, Pause PROVE IInv'
<1>0. PICK s \in Sites : s = run.site
  BY DEF IInv, RunSound, Pause, Resume, Begun
<1>1. /\ run.pc = "pause" /\ s \in Sites /\ Pending = {s} /\ Relays(s) # {}
      /\ run' = [run EXCEPT !.pc = "plan"] /\ run \in RunType
      /\ paused' = IF paused = None THEN "rekey" ELSE paused
      /\ UNCHANGED <<file, host, sick, minted, done, mishaps>>
  BY <1>0 DEF IInv, TypeOK, RunType, RunSound, PauseSound, Pause, Goto, Begun
<1>2. /\ run' \in RunType /\ run'.pc = "plan" /\ run'.site = s /\ run'.all = run.all
      /\ run'.todo = run.todo /\ run'.ran = run.ran
  BY <1>0, <1>1 DEF RunType, Steps
<1>3. /\ cur' = cur /\ next' = next /\ left' = left /\ conf' = conf /\ iface' = iface
      /\ Pending' = Pending
  BY <1>1 DEF file, host, Pending
<1>4. paused = "rekey" \/ paused = None
  BY <1>1 DEF IInv, PauseSound, TypeOK
<1>5. paused' = "rekey" /\ paused' # None
  BY <1>1, <1>4, ConstantsAssumption
<1>6. TypeOK'
  BY <1>1, <1>2, <1>3, <1>5, TypeMoved DEF IInv, TypeOK
<1>7. Fresh' /\ OnePending' /\ KeysHeld' /\ PeersAgree'
  BY <1>1, <1>3 DEF IInv, Fresh, OnePending, KeysHeld, PeersAgree
<1>8. RunSound' /\ HandedSound' /\ RanSound' /\ AllSound'
  BY <1>0, <1>1, <1>2, <1>3 DEF IInv, RunSound, HandedSound, RanSound, AllSound, Begun
<1>9. PauseSound' /\ RelaySound'
  <2>1. Relays(s)' = Relays(s)
    BY DEF Relays, Relay
  <2>. QED
    BY <1>1, <1>2, <1>3, <1>5, <2>1 DEF PauseSound, PauseIsOwed, RelaySound
<1>. QED
  BY <1>6, <1>7, <1>8, <1>9 DEF IInv

LEMMA ResumeIInv == ASSUME IInv, Resume PROVE IInv'
<1>0. PICK s \in Sites : s = run.site
  BY DEF IInv, RunSound, Pause, Resume, Begun
<1>1. /\ run.pc = "resume" /\ s \in Sites /\ Pending = {s} /\ run.hand = {}
      /\ run' = [run EXCEPT !.pc = "promote"] /\ run \in RunType /\ paused' = None
      /\ UNCHANGED <<file, host, sick, minted, done, mishaps>>
  BY <1>0 DEF IInv, TypeOK, RunType, RunSound, Resume, Goto, Begun
<1>2. /\ run' \in RunType /\ run'.pc = "promote" /\ run'.site = s /\ run'.all = run.all
      /\ run'.todo = run.todo /\ run'.ran = run.ran /\ run'.hand = {}
  BY <1>0, <1>1 DEF RunType, Steps
<1>3. /\ cur' = cur /\ next' = next /\ left' = left /\ conf' = conf /\ iface' = iface
      /\ Pending' = Pending
  BY <1>1 DEF file, host, Pending
<1>4. TypeOK'
  BY <1>1, <1>2, <1>3, TypeMoved DEF IInv, TypeOK
<1>5. Fresh' /\ OnePending' /\ KeysHeld' /\ PeersAgree'
  BY <1>1, <1>3 DEF IInv, Fresh, OnePending, KeysHeld, PeersAgree
<1>6. Whole(s)
  BY <1>0, <1>1 DEF IInv, HandedSound, Whole
<1>7. Whole(run.site)' /\ Whole(s)'
  BY <1>2, <1>3, <1>6 DEF Whole, Handed
<1>8. RunSound' /\ HandedSound' /\ RanSound' /\ AllSound'
  BY <1>0, <1>1, <1>2, <1>3, <1>7
     DEF IInv, RunSound, HandedSound, RanSound, AllSound, Begun, Whole
<1>9. PauseSound'
  BY <1>1, <1>2, ConstantsAssumption DEF PauseSound, PauseIsOwed
<1>10. RelaySound'
  BY <1>1, <1>2, <1>3, <1>7 DEF RelaySound
<1>. QED
  BY <1>4, <1>5, <1>8, <1>9, <1>10 DEF IInv

(* A host given the mesh file of the swap: what holds of its keys.         *)
LEMMA SwapFile ==
    ASSUME IInv, run.pc \in Begun, NEW h \in Sites
    PROVE  LET f == Render(h, Swapped(run.site)) IN
           /\ f \in [Sites -> Keys \cup {None}]
           /\ \A t \in Sites : f[t] # None <=> Lists(h, t)
           /\ \A t \in Sites : Lists(h, t) =>
                 f[t] = IF t = run.site THEN next[t] ELSE cur[t]
  BY SwappedIs, RenderLists DEF IInv

LEMMA HandWriteIInv == ASSUME IInv, NEW h \in Sites, HandWrite(h) PROVE IInv'
<1>0. PICK s \in Sites : s = run.site
  BY DEF HandWrite, IInv, RunSound, Begun
<1>f. PICK f : f = Render(h, Swapped(s))
  OBVIOUS
<1>1. /\ run.pc = "hand" /\ s \in Sites /\ Pending = {s} /\ h \in run.hand /\ Lists(h, s)
      /\ conf[h] # f /\ conf' = [conf EXCEPT ![h] = f] /\ known' = [known EXCEPT ![h] = FALSE]
      /\ run' = [run EXCEPT !.pc = "manifest", !.host = h] /\ run \in RunType
      /\ iface' = iface /\ UNCHANGED <<file, paused, sick, minted, done, mishaps>>
  BY <1>0, <1>f DEF IInv, TypeOK, RunType, RunSound, HandWrite, NextHost, Begun
<1>2. /\ run' \in RunType /\ run'.pc = "manifest" /\ run'.site = s /\ run'.all = run.all
      /\ run'.todo = run.todo /\ run'.ran = run.ran /\ run'.hand = run.hand /\ run'.host = h
  BY <1>0, <1>1 DEF RunType, Steps
<1>3. cur' = cur /\ next' = next /\ left' = left /\ Pending' = Pending
  BY <1>1 DEF file, Pending
<1>4. /\ f \in [Sites -> Keys \cup {None}]
      /\ \A t \in Sites : f[t] # None <=> Lists(h, t)
      /\ \A t \in Sites : Lists(h, t) => f[t] = IF t = s THEN next[t] ELSE cur[t]
  BY <1>0, <1>f, <1>1, SwapFile DEF Begun
<1>5. /\ conf \in [Sites -> [Sites -> Keys \cup {None}]]
      /\ conf'[h] = f /\ \A g \in Sites \ {h} : conf'[g] = conf[g]
      /\ conf' \in [Sites -> [Sites -> Keys \cup {None}]]
  BY <1>1, <1>4 DEF IInv, TypeOK
<1>6. TypeOK'
  <2>1. \A g, t \in Sites : conf'[g][t] # None <=> Lists(g, t)
    <3>1. ASSUME NEW g \in Sites, NEW t \in Sites PROVE conf'[g][t] # None <=> Lists(g, t)
      <4>1. CASE g = h
        BY <1>4, <1>5, <4>1
      <4>2. CASE g # h
        BY <1>5, <4>2 DEF IInv, TypeOK, Lists
      <4>. QED
        BY <4>1, <4>2
    <3>. QED
      BY <3>1
  <2>2. known' \in [Sites -> BOOLEAN]
    BY <1>1 DEF IInv, TypeOK
  <2>3. iface' \in [Sites -> [Sites -> Keys \cup {None}]]
    BY <1>1 DEF IInv, TypeOK
  <2>4. \A g, t \in Sites : iface'[g][t] # None <=> Lists(g, t)
    BY <1>1 DEF IInv, TypeOK, Lists
  <2>5. \A m \in {conf', iface'} : /\ m \in [Sites -> [Sites -> Keys \cup {None}]]
                                   /\ \A g, t \in Sites : m[g][t] # None <=> Lists(g, t)
    BY <1>5, <2>1, <2>3, <2>4
  <2>. QED
    BY <1>1, <1>2, <1>3, <2>2, <2>5 DEF IInv, TypeOK, RunType, Lists
<1>7. Fresh' /\ OnePending'
  BY <1>1, <1>3 DEF IInv, Fresh, OnePending
<1>8. KeysHeld'
  BY <1>1, <1>3, <1>4, <1>5 DEF IInv, KeysHeld, Lists
<1>9. PeersAgree'
  BY <1>1, <1>3, <1>4, <1>5 DEF IInv, PeersAgree, Pending, Lists
<1>10. RunSound' /\ RanSound' /\ AllSound'
  BY <1>0, <1>1, <1>2, <1>3 DEF IInv, RunSound, RanSound, AllSound, Begun
<1>11. \A g \in Sites : Lists(g, s) /\ Handed(g, s) => Handed(g, s)'
  BY <1>1, <1>3, <1>4, <1>5 DEF Handed
<1>12. HandedSound'
  BY <1>0, <1>1, <1>2, <1>3, <1>4, <1>5, <1>11 DEF IInv, HandedSound
<1>13. Relays(s)' = Relays(s)
  BY DEF Relays, Relay
<1>14. PauseSound'
  BY <1>1, <1>2, <1>3, <1>13 DEF IInv, PauseSound, PauseIsOwed
<1>15. RelaySound'
  <2>1. paused = None /\ Relays(s) # {} => Whole(s)
    BY <1>0, <1>1 DEF IInv, RelaySound, Begun
  <2>2. Whole(s) => Whole(s)'
    BY <1>11 DEF Whole
  <2>3. Whole(run.site)' <=> Whole(s)'
    BY <1>2 DEF Whole, Handed
  <2>. QED
    BY <1>1, <1>2, <1>3, <1>13, <2>1, <2>2, <2>3 DEF RelaySound, Begun
<1>. QED
  BY <1>6, <1>7, <1>8, <1>9, <1>10, <1>12, <1>14, <1>15 DEF IInv

LEMMA HandRecordIInv == ASSUME IInv, HandRecord PROVE IInv'
<1>0. PICK s \in Sites : s = run.site
  BY DEF IInv, RunSound, HandRecord, Begun
<1>1. /\ run.pc = "manifest" /\ Pending = {s} /\ run.host \in run.hand
      /\ run' = [run EXCEPT !.pc = "sync"] /\ run \in RunType
      /\ known' = [known EXCEPT ![run.host] = TRUE] /\ conf' = conf /\ iface' = iface
      /\ UNCHANGED <<file, paused, sick, minted, done, mishaps>>
  BY <1>0 DEF IInv, TypeOK, RunType, RunSound, HandRecord, Goto, Begun
<1>2. /\ run' \in RunType /\ run'.pc = "sync" /\ run'.site = s /\ run'.all = run.all
      /\ run'.todo = run.todo /\ run'.ran = run.ran /\ run'.hand = run.hand
      /\ run'.host = run.host
  BY <1>0, <1>1 DEF RunType, Steps
<1>3. cur' = cur /\ next' = next /\ left' = left /\ Pending' = Pending
  BY <1>1 DEF file, Pending
<1>4. TypeOK'
  BY <1>1, <1>2, <1>3 DEF IInv, TypeOK, RunType
<1>5. Fresh' /\ OnePending' /\ KeysHeld' /\ PeersAgree'
  BY <1>1, <1>3 DEF IInv, Fresh, OnePending, KeysHeld, PeersAgree
<1>6. RunSound' /\ RanSound' /\ AllSound'
  BY <1>0, <1>1, <1>2, <1>3 DEF IInv, RunSound, RanSound, AllSound, Begun
<1>7. conf[run.host][s] = next[s]
  BY <1>0, <1>1 DEF IInv, HandedSound
<1>8. HandedSound'
  BY <1>0, <1>1, <1>2, <1>3, <1>7 DEF IInv, HandedSound, Handed
<1>9. Relays(s)' = Relays(s)
  BY DEF Relays, Relay
<1>10. PauseSound'
  BY <1>1, <1>2, <1>3, <1>9 DEF IInv, PauseSound, PauseIsOwed
<1>11. RelaySound'
  BY <1>0, <1>1, <1>2, <1>3, <1>9 DEF IInv, RelaySound, Unbegun, Whole, Handed, Begun
<1>. QED
  BY <1>4, <1>5, <1>6, <1>8, <1>10, <1>11 DEF IInv

LEMMA HandSyncIInv == ASSUME IInv, HandSync PROVE IInv'
<1>0. PICK s \in Sites, h \in Sites : s = run.site /\ h = run.host
  BY DEF IInv, TypeOK, RunSound, HandSync, Begun
<1>1. /\ run.pc = "sync" /\ Pending = {s} /\ h \in run.hand
      /\ run' = [run EXCEPT !.pc = "hand", !.hand = @ \ {h}, !.host = None]
      /\ run \in RunType
      /\ iface' = [iface EXCEPT ![h] = conf[h]] /\ conf' = conf /\ known' = known
      /\ UNCHANGED <<file, paused, sick, minted, done, mishaps>>
  BY <1>0 DEF IInv, TypeOK, RunType, RunSound, HandSync, Begun
<1>2. /\ run' \in RunType /\ run'.pc = "hand" /\ run'.site = s /\ run'.all = run.all
      /\ run'.todo = run.todo /\ run'.ran = run.ran /\ run'.hand = run.hand \ {h}
  BY <1>0, <1>1 DEF RunType, Steps
<1>3. cur' = cur /\ next' = next /\ left' = left /\ Pending' = Pending
  BY <1>1 DEF file, Pending
<1>4. /\ conf \in [Sites -> [Sites -> Keys \cup {None}]]
      /\ iface \in [Sites -> [Sites -> Keys \cup {None}]]
      /\ iface'[h] = conf[h] /\ \A g \in Sites \ {h} : iface'[g] = iface[g]
      /\ iface' \in [Sites -> [Sites -> Keys \cup {None}]]
      /\ \A g, t \in Sites : iface'[g][t] = conf[g][t] \/ iface'[g][t] = iface[g][t]
  BY <1>1 DEF IInv, TypeOK
<1>5. TypeOK'
  <2>1. \A g, t \in Sites : /\ conf[g][t] # None <=> Lists(g, t)
                            /\ iface[g][t] # None <=> Lists(g, t)
    BY DEF IInv, TypeOK, Lists
  <2>2. /\ \A g, t \in Sites : /\ conf'[g][t] # None <=> Lists(g, t)
                               /\ iface'[g][t] # None <=> Lists(g, t)
        /\ conf' \in [Sites -> [Sites -> Keys \cup {None}]]
    BY <1>1, <1>4, <2>1
  <2>3. \A m \in {conf', iface'} : /\ m \in [Sites -> [Sites -> Keys \cup {None}]]
                                   /\ \A g, t \in Sites : m[g][t] # None <=> Lists(g, t)
    BY <1>4, <2>2
  <2>. QED
    BY <1>1, <1>2, <1>3, <2>3 DEF IInv, TypeOK, RunType, Lists
<1>6. Fresh' /\ OnePending'
  BY <1>1, <1>3 DEF IInv, Fresh, OnePending
<1>7. KeysHeld' /\ PeersAgree'
  BY <1>1, <1>3, <1>4 DEF IInv, KeysHeld, PeersAgree
<1>8. RunSound' /\ RanSound' /\ AllSound'
  BY <1>0, <1>1, <1>2, <1>3 DEF IInv, RunSound, RanSound, AllSound, Begun
<1>9. \A g \in Sites : Handed(g, s) => Handed(g, s)'
  BY <1>1, <1>3, <1>4 DEF Handed
<1>10. Handed(h, s)'
  BY <1>0, <1>1, <1>3, <1>4 DEF IInv, HandedSound, Handed
<1>11. HandedSound'
  BY <1>0, <1>1, <1>2, <1>9, <1>10 DEF IInv, HandedSound
<1>12. Relays(s)' = Relays(s)
  BY DEF Relays, Relay
<1>13. PauseSound'
  BY <1>1, <1>2, <1>3, <1>12 DEF IInv, PauseSound, PauseIsOwed
<1>14. RelaySound'
  <2>1. paused = None /\ Relays(s) # {} => Whole(s)
    BY <1>0, <1>1 DEF IInv, RelaySound, Begun
  <2>2. Whole(s) => Whole(s)'
    BY <1>9 DEF Whole
  <2>3. Whole(run.site)' <=> Whole(s)'
    BY <1>2 DEF Whole, Handed
  <2>. QED
    BY <1>1, <1>2, <1>3, <1>12, <2>1, <2>2, <2>3 DEF RelaySound, Begun
<1>. QED
  BY <1>5, <1>6, <1>7, <1>8, <1>11, <1>13, <1>14 DEF IInv

LEMMA PromoteIInv == ASSUME IInv, Promote PROVE IInv'
<1>0. PICK s \in Sites : s = run.site
  BY DEF IInv, RunSound, Promote, Begun
<1>1. /\ run.pc = "promote" /\ Pending = {s} /\ run.hand = {} /\ run \in RunType
      /\ cur' = [cur EXCEPT ![s] = next[s]] /\ next' = [next EXCEPT ![s] = None]
      /\ left' = left \ {s} /\ done' = done \cup {s}
      /\ run' = [run EXCEPT !.pc = "pick", !.site = None]
      /\ conf' = conf /\ known' = known /\ iface' = iface
      /\ paused' = paused /\ sick' = sick /\ minted' = minted /\ mishaps' = mishaps
  BY <1>0 DEF IInv, TypeOK, RunType, RunSound, Promote, Begun, host
<1>2. /\ run' \in RunType /\ run'.pc = "pick" /\ run'.all = run.all
      /\ run'.todo = run.todo /\ run'.ran = run.ran
  BY <1>1 DEF RunType, Steps
<1>3. /\ cur \in [Sites -> Keys] /\ next \in [Sites -> Keys \cup {None}]
      /\ next[s] \in Keys /\ \A t \in Sites \ {s} : next[t] = None
  BY <1>1 DEF IInv, TypeOK, Pending
<1>4. /\ cur' \in [Sites -> Keys] /\ next' \in [Sites -> Keys \cup {None}]
      /\ cur'[s] = next[s] /\ \A t \in Sites \ {s} : cur'[t] = cur[t]
      /\ \A t \in Sites : next'[t] = None
      /\ Pending' = {}
  BY <1>1, <1>3 DEF Pending
<1>5. TypeOK'
  BY <1>1, <1>2, <1>4 DEF IInv, TypeOK, RunType
<1>6. Fresh' /\ OnePending'
  BY <1>1, <1>3, <1>4, NoneIsNoKey DEF IInv, Fresh, OnePending
<1>7. \A h \in Sites : Lists(h, s) => Handed(h, s)
  BY <1>0, <1>1 DEF IInv, HandedSound
<1>8. \A h, t \in Sites : Lists(h, t) => conf[h][t] = cur'[t] /\ iface[h][t] = cur'[t]
  BY <1>3, <1>4, <1>7 DEF IInv, PeersAgree, Handed, Lists
<1>9. KeysHeld' /\ PeersAgree'
  BY <1>1, <1>8 DEF KeysHeld, PeersAgree, Lists
<1>10. RunSound' /\ HandedSound' /\ RanSound'
  BY <1>1, <1>2, <1>4 DEF IInv, RunSound, HandedSound, RanSound, Begun
<1>11. AllSound'
  BY <1>0, <1>1, <1>2, <1>4 DEF IInv, AllSound, Begun
<1>12. PauseSound' /\ RelaySound'
  BY <1>1, <1>2, <1>4 DEF IInv, PauseSound, PauseIsOwed, RelaySound, Begun
<1>. QED
  BY <1>5, <1>6, <1>9, <1>10, <1>11, <1>12 DEF IInv

-----------------------------------------------------------------------------
(* The steps of others.                                                    *)

LEMMA HealthIInv == ASSUME IInv, Sicken \/ Heal PROVE IInv'
<1>1. /\ run' = run /\ UNCHANGED <<file, host, paused, minted, done>> /\ sick' \in BOOLEAN
  BY DEF Sicken, Heal
<1>2. mishaps' \in 0..MaxMishaps
  BY ConstantsAssumption DEF IInv, TypeOK, Sicken, Heal, Mishap
<1>3. TypeOK'
  BY <1>1, <1>2, TypeMoved DEF IInv, TypeOK, RunType, file
<1>4. RunSound' /\ HandedSound' /\ RanSound' /\ AllSound'
  BY <1>1, Unmoved DEF IInv, RunSound, HandedSound, Handed, RanSound, AllSound, file, host
<1>5. PauseSound' /\ RelaySound'
  <2>1. \A s : Relays(s)' = Relays(s)
    BY DEF Relays, Relay
  <2>2. Pending' = Pending /\ UNCHANGED <<cur, next, conf, iface, paused>>
    BY <1>1 DEF file, host, Pending
  <2>. QED
    BY <1>1, <2>1, <2>2
       DEF IInv, PauseSound, PauseIsOwed, RelaySound, Unbegun, Whole, Handed
<1>. QED
  BY <1>1, <1>3, <1>4, <1>5, Unmoved DEF IInv

LEMMA MaintenanceIInv == ASSUME IInv, Maintain \/ EndMaintenance PROVE IInv'
<1>1. /\ run' = run /\ UNCHANGED <<file, host, sick, minted, done>>
      /\ paused' \in {None, "rekey", "others"} /\ paused' # "rekey"
      /\ Pending = {} /\ run.pc # "newkey"
  BY ConstantsAssumption DEF IInv, PauseSound, Maintain, EndMaintenance
<1>2. mishaps' \in 0..MaxMishaps
  BY ConstantsAssumption DEF IInv, TypeOK, Maintain, EndMaintenance, Mishap
<1>3. run.pc \in {"idle", "record", "pick", "check"}
  BY <1>1 DEF IInv, TypeOK, RunSound, Begun, Steps
<1>4. TypeOK'
  BY <1>1, <1>2, TypeMoved DEF IInv, TypeOK, RunType, file
<1>5. UNCHANGED <<cur, next, left, conf, iface, minted, done, run>> /\ Pending' = Pending
  BY <1>1 DEF file, host, Pending
<1>6. Fresh' /\ OnePending' /\ KeysHeld' /\ PeersAgree'
  BY <1>5 DEF IInv, Fresh, OnePending, KeysHeld, PeersAgree
<1>7. RunSound' /\ HandedSound' /\ RanSound' /\ AllSound'
  BY <1>3, <1>5 DEF IInv, RunSound, HandedSound, RanSound, AllSound, Begun
<1>8. PauseSound' /\ RelaySound'
  BY <1>1, <1>3, <1>5 DEF PauseSound, PauseIsOwed, RelaySound, Begun
<1>. QED
  BY <1>4, <1>6, <1>7, <1>8 DEF IInv

LEMMA ApplyIInv == ASSUME IInv, NEW h \in Sites, Apply(h) PROVE IInv'
<1>1. PICK f : f = Render(h, cur)
  OBVIOUS
<1>2. /\ run.pc = "idle" /\ Pending = {}
      /\ conf' = [conf EXCEPT ![h] = f] /\ known' = [known EXCEPT ![h] = TRUE]
      /\ iface' = [iface EXCEPT ![h] = IF conf[h] = f THEN @ ELSE f]
      /\ UNCHANGED <<file, paused, sick, run, minted, done, mishaps>>
  BY <1>1 DEF Apply
<1>3. /\ cur \in [Sites -> Keys] /\ f \in [Sites -> Keys \cup {None}]
      /\ \A t \in Sites : f[t] # None <=> Lists(h, t)
      /\ \A t \in Sites : Lists(h, t) => f[t] = cur[t]
  BY <1>1, RenderLists DEF IInv, TypeOK
<1>4. UNCHANGED <<cur, next, left, run, minted, done, paused>> /\ Pending' = Pending
  BY <1>2 DEF file, Pending
<1>5. /\ conf \in [Sites -> [Sites -> Keys \cup {None}]]
      /\ iface \in [Sites -> [Sites -> Keys \cup {None}]]
      /\ \A g, t \in Sites : /\ conf[g][t] # None <=> Lists(g, t)
                             /\ iface[g][t] # None <=> Lists(g, t)
  BY DEF IInv, TypeOK, Lists
<1>6. /\ conf' \in [Sites -> [Sites -> Keys \cup {None}]]
      /\ iface' \in [Sites -> [Sites -> Keys \cup {None}]]
      /\ \A g \in Sites : conf'[g] = conf[g] \/ (g = h /\ conf'[g] = f)
      /\ \A g \in Sites : iface'[g] = iface[g] \/ (g = h /\ iface'[g] = f)
  BY <1>2, <1>3, <1>5
<1>7. TypeOK'
  <2>1. \A g, t \in Sites : /\ conf'[g][t] # None <=> Lists(g, t)
                            /\ iface'[g][t] # None <=> Lists(g, t)
    BY <1>3, <1>5, <1>6
  <2>2. \A m \in {conf', iface'} : /\ m \in [Sites -> [Sites -> Keys \cup {None}]]
                                   /\ \A g, t \in Sites : m[g][t] # None <=> Lists(g, t)
    BY <1>6, <2>1
  <2>3. known' \in [Sites -> BOOLEAN]
    BY <1>2 DEF IInv, TypeOK
  <2>. QED
    BY <1>2, <1>4, <2>2, <2>3 DEF IInv, TypeOK, Lists
<1>8. Fresh' /\ OnePending'
  BY <1>4 DEF IInv, Fresh, OnePending
<1>9. \A g, t \in Sites : Lists(g, t) => conf'[g][t] = cur[t] /\ iface'[g][t] = cur[t]
  BY <1>2, <1>3, <1>6 DEF IInv, PeersAgree, Pending, Lists
<1>10. KeysHeld' /\ PeersAgree'
  BY <1>4, <1>9 DEF KeysHeld, PeersAgree, Lists
<1>11. RunSound' /\ HandedSound' /\ RanSound' /\ AllSound'
  BY <1>2, <1>4 DEF IInv, RunSound, HandedSound, RanSound, AllSound, Begun
<1>12. PauseSound' /\ RelaySound'
  BY <1>2, <1>4 DEF IInv, PauseSound, PauseIsOwed, RelaySound, Begun
<1>. QED
  BY <1>7, <1>8, <1>10, <1>11, <1>12 DEF IInv

-----------------------------------------------------------------------------
(* The invariant is inductive.                                             *)

LEMMA NextIInv == ASSUME IInv, [Next]_vars PROVE IInv'
<1>1. CASE UNCHANGED vars
  <2>1. UNCHANGED <<file, host, paused, sick, run, minted, done, mishaps>>
    BY <1>1 DEF vars
  <2>2. /\ TypeOK' /\ PauseSound' /\ RelaySound'
        /\ RunSound' /\ HandedSound' /\ RanSound' /\ AllSound'
    <3>1. UNCHANGED <<cur, next, left, conf, known, iface>>
      BY <2>1 DEF file, host
    <3>2. \A s : Relays(s)' = Relays(s)
      BY DEF Relays, Relay
    <3>3. Pending' = Pending
      BY <3>1 DEF Pending
    <3>4. TypeOK'
      BY <2>1, <3>1 DEF IInv, TypeOK
    <3>5. PauseSound' /\ RelaySound'
      BY <2>1, <3>1, <3>2, <3>3
         DEF IInv, PauseSound, PauseIsOwed, RelaySound, Unbegun, Whole, Handed
    <3>6. RunSound' /\ HandedSound' /\ RanSound' /\ AllSound'
      BY <2>1, <3>1, <3>3 DEF IInv, RunSound, HandedSound, Handed, RanSound, AllSound
    <3>. QED
      BY <3>4, <3>5, <3>6
  <2>. QED
    BY <2>1, <2>2, Unmoved DEF IInv
<1>2. CASE Start
  BY <1>2, StartIInv
<1>3. CASE Step
  <2>1. CASE Record \/ Pick \/ CheckReady \/ NewKey \/ Pause \/ PlanSwap
    BY <2>1, RecordIInv, PickIInv, CheckReadyIInv, NewKeyIInv, PauseIInv, PlanSwapIInv
  <2>2. CASE \E h \in Sites : HandWrite(h) \/ HandWritten(h)
    BY <2>2, HandWriteIInv, HandWrittenIInv
  <2>3. CASE HandRecord \/ HandSync \/ Handshakes \/ HealthGate \/ Resume \/ Promote \/ Finish
    BY <2>3, HandRecordIInv, HandSyncIInv, HandshakesIInv, HealthGateIInv, ResumeIInv,
       PromoteIInv, EndsIInv
  <2>. QED
    BY <1>3, <2>1, <2>2, <2>3 DEF Step
<1>4. CASE Refuse \/ Stop
  BY <1>4, EndsIInv
<1>5. CASE Sicken \/ Heal \/ Maintain \/ EndMaintenance
  BY <1>5, HealthIInv, MaintenanceIInv
<1>6. CASE \E h \in Sites : Apply(h)
  BY <1>6, ApplyIInv
<1>. QED
  BY <1>1, <1>2, <1>3, <1>4, <1>5, <1>6 DEF Next

LEMMA Inductive == Spec => []IInv
  BY InitIInv, NextIInv, PTL DEF Spec

-----------------------------------------------------------------------------
(* Theorems.                                                               *)

(* Every variable keeps its type: in particular a host's mesh file and     *)
(* interface list keys for its own site and its peers, and for no other.   *)
THEOREM RekeyTypeCorrect == Spec => []TypeOK
<1>1. IInv => TypeOK
  BY DEF IInv
<1>. QED
  BY <1>1, Inductive, PTL

(* No key in use is lost, whatever a run is stopped at: the secrets file   *)
(* holds each one as its site's current or next key.                       *)
THEOREM NoKeyLost == Spec => []KeysHeld
<1>1. IInv => KeysHeld
  BY DEF IInv
<1>. QED
  BY <1>1, Inductive, PTL

(* One site at a time, over any runs that stop and any sites named.        *)
THEOREM OneSiteAtATime == Spec => []OnePending
<1>1. IInv => OnePending
  BY DEF IInv
<1>. QED
  BY <1>1, Inductive, PTL

(* Every host knows every peer by the key it runs, but for the one site    *)
(* part way through its rekey.                                             *)
THEOREM OthersAgree == Spec => []PeersAgree
<1>1. IInv => PeersAgree
  BY DEF IInv
<1>. QED
  BY <1>1, Inductive, PTL

(* A Patroni that mesh rekey left paused is resumed by the run that        *)
(* finishes the relay it was paused for: that relay is still pending.      *)
THEOREM PauseOwed == Spec => []PauseIsOwed
<1>1. IInv => PauseIsOwed
  BY DEF IInv, PauseSound
<1>. QED
  BY <1>1, Inductive, PTL

(* Unpaused, the mesh is cut for at most one site.                         *)
LEMMA Reaches ==
    ASSUME IInv, paused = None, NEW r \in Sites, Relay(r)
    PROVE  \E s \in Sites : \A h, t \in Sites \ {s} : h # t => Reach(h, t)
<1>1. r \in Dialled
  BY DEF Relay
<1>2. PICK s \in Sites : \A p \in Pending : p = s
  BY DEF IInv, OnePending, Pending
<1>3. \A h, t \in Sites \ {s} : Lists(h, t) => iface[h][t] = cur[t]
  BY <1>2 DEF IInv, PeersAgree, Pending, Lists
<1>4. \A h, t \in Sites \ {s} : PeersDirectly(h, t) => Up(h, t)
  BY <1>3, ListsEachOther DEF Up, Lists
<1>5. SUFFICES ASSUME NEW h \in Sites \ {s}, NEW t \in Sites \ {s}, h # t, ~PeersDirectly(h, t)
               PROVE  Up(h, r) /\ Up(r, t)
  <2>1. SUFFICES \A h, t \in Sites \ {s} : h # t => Reach(h, t)
    OBVIOUS
  <2>. QED
    BY <1>1, <1>4 DEF Reach
<1>6. /\ h \notin Dialled /\ t \notin Dialled /\ h # r /\ t # r
      /\ PeersDirectly(h, r) /\ PeersDirectly(r, t) /\ PeersDirectly(r, h) /\ PeersDirectly(t, r)
  BY <1>1, <1>5 DEF PeersDirectly
<1>7. CASE r # s
  BY <1>4, <1>6, <1>7
<1>8. CASE r = s
  <2>1. Relays(r) # {}
    BY <1>5, <1>6 DEF Relays
  <2>2. Unbegun(r) \/ Whole(r)
    <3>1. CASE r \in Pending
      BY <2>1, <3>1 DEF IInv, RelaySound
    <3>2. CASE r \notin Pending
      BY <3>2 DEF IInv, PeersAgree, Unbegun, Lists, Pending
    <3>. QED
      BY <3>1, <3>2
  <2>3. iface[h][h] = iface[r][h] /\ iface[t][t] = iface[r][t]
    BY <1>2, <1>6, <1>8 DEF IInv, PeersAgree, Pending
  <2>4. iface[h][r] = iface[r][r] /\ iface[t][r] = iface[r][r]
    BY <1>6, <2>2 DEF Unbegun, Whole, Handed, Lists
  <2>. QED
    BY <2>3, <2>4 DEF Up
<1>. QED
  BY <1>7, <1>8

(* Where some site is dialled, the mesh cuts apart sites whose key is not  *)
(* the one being replaced only while Patroni is paused.                    *)
THEOREM SplitPaused ==
    ASSUME NEW r \in Sites, Relay(r)
    PROVE  Spec => []SplitOnlyPaused
<1>1. IInv => SplitOnlyPaused
  BY Reaches DEF SplitOnlyPaused
<1>. QED
  BY <1>1, Inductive, PTL

(* mesh rekey does not resume a Patroni that someone else paused before    *)
(* the rekey began.                                                        *)
THEOREM OthersMaintenanceKept == Spec => MaintenanceKept
<1>1. ASSUME IInv, [Next]_vars
      PROVE  [paused = "others" /\ paused' # "others" => run' = run]_vars
  <2>1. SUFFICES ASSUME paused = "others", paused' # "others" PROVE run' = run
    OBVIOUS
  <2>2. run.pc \in {"idle", "record", "pick", "check"}
    BY <1>1, <2>1 DEF IInv, PauseSound
  <2>3. CASE Step
    BY <2>1, <2>2, <2>3 DEF Step, Record, Pick, CheckReady, NewKey, Pause, PlanSwap,
       HandWrite, HandWritten, HandRecord, HandSync, Handshakes, HealthGate, Resume,
       Promote, Finish
  <2>4. CASE Start \/ Refuse \/ Stop \/ Sicken \/ Heal \/ Maintain \/ EndMaintenance
    BY <2>1, <2>4 DEF Start, Refuse, Stop, Sicken, Heal, Maintain, EndMaintenance
  <2>5. CASE \E h \in Sites : Apply(h)
    BY <2>1, <2>5 DEF Apply
  <2>6. CASE UNCHANGED vars
    BY <2>1, <2>6 DEF vars
  <2>. QED
    BY <1>1, <2>3, <2>4, <2>5, <2>6 DEF Next
<1>. QED
  BY <1>1, Inductive, PTL DEF Spec, MaintenanceKept

(* An --all run, however often it stops, replaces no site's key twice.     *)
THEOREM NotTwice == Spec => NotAgain
<1>1. ASSUME IInv, [Next]_vars
      PROVE  [\A s \in Sites : run.all /\ next[s] = None /\ next'[s] # None => s \notin done]_vars
  <2>1. SUFFICES ASSUME NEW s \in Sites, run.all, next[s] = None, next'[s] # None
                 PROVE  s \notin done
    OBVIOUS
  <2>2. next \in [Sites -> Keys \cup {None}]
    BY <1>1 DEF IInv, TypeOK
  <2>3. CASE NewKey
    <3>1. s = run.site
      BY <2>1, <2>2, <2>3 DEF NewKey
    <3>. QED
      BY <1>1, <2>1, <2>3, <3>1 DEF IInv, AllSound, NewKey
  <2>4. CASE Promote
    BY <2>1, <2>2, <2>4 DEF Promote
  <2>5. CASE Step /\ ~NewKey /\ ~Promote
    BY <2>1, <2>5 DEF Step, Record, Pick, CheckReady, Pause, PlanSwap, HandWrite,
       HandWritten, HandRecord, HandSync, Handshakes, HealthGate, Resume, Finish, file
  <2>6. CASE Start \/ Refuse \/ Stop \/ Sicken \/ Heal \/ Maintain \/ EndMaintenance
    BY <2>1, <2>6 DEF Start, Refuse, Stop, Sicken, Heal, Maintain, EndMaintenance, file
  <2>7. CASE \E h \in Sites : Apply(h)
    BY <2>1, <2>7 DEF Apply, file
  <2>8. CASE UNCHANGED vars
    BY <2>1, <2>8 DEF vars, file
  <2>. QED
    BY <1>1, <2>3, <2>4, <2>5, <2>6, <2>7, <2>8 DEF Next
<1>. QED
  BY <1>1, Inductive, PTL DEF Spec, NotAgain
=============================================================================
