---------------------------- MODULE DeployRecord ----------------------------
(***************************************************************************)
(* The deployment record: what each gateway keeps of the names that are    *)
(* deployed, which apply adds to and only removals take from, so that      *)
(* secrets prune deletes no secret of something still running.             *)
(*                                                                         *)
(*   internal/deployrecord/record.go   the record, its merge and Update    *)
(*   cmd/paisans/record.go             the changes the commands make       *)
(*                                                                         *)
(* A record keeps, for each name, a tag for every add and the tags of the  *)
(* adds a removal saw.  Update reads each gateway in turn, merges what it  *)
(* read, makes its change and writes each gateway in turn, provided its    *)
(* file is still the one read.  Two operators' updates interleave, and any *)
(* read or write of either may not reach its host.  Tags are numbers, made *)
(* in order for each name; random in the code.  The date in a record and   *)
(* one that cannot be parsed, which stops an update, are left out.         *)
(***************************************************************************)
EXTENDS Naturals, FiniteSets

CONSTANTS
    NSites,        \* how many sites there are
    Names,         \* sites, apps and groups
    Operators,     \* whoever runs commands
    None           \* no record

Sites == 1..NSites

ASSUME RecordAssumption == NSites \in Nat \ {0}

VARIABLES
    docs,      \* the record on each site's host, None where there is none
    upd,       \* the Update each operator's command is making
    tags,      \* the last tag made of each name
    due        \* history: names an apply put on a record and no removal took since

recordVars == <<docs, upd, tags, due>>

Entry == [adds : SUBSET Nat, removed : SUBSET Nat]
Doc   == [Names -> Entry]

Empty == [n \in Names |-> [adds |-> {}, removed |-> {}]]

(* Tags are made once, whoever makes them.                                 *)
Live(e) == e.adds \ e.removed

Listed(d) == {n \in Names : Live(d[n]) # {}}

(* Every add and every removal any of the records D knows.                 *)
Merge(D) == [n \in Names |-> [adds    |-> UNION {d[n].adds : d \in D},
                              removed |-> UNION {d[n].removed : d \in D}]]

(* An add makes a new tag even of a name that is listed; a removal takes   *)
(* the adds the record holds.                                              *)
Changed(d, add, forget) ==
    [n \in Names |->
        [adds    |-> IF n \in add THEN d[n].adds \cup {tags[n] + 1} ELSE d[n].adds,
         removed |-> IF n \in forget /\ Live(d[n]) # {} THEN d[n].adds ELSE d[n].removed]]

(* Several live tags are replaced by one no removal has seen.              *)
Several(e) == Cardinality(Live(e)) > 1

Compact(d) ==
    [n \in Names |-> [adds    |-> IF Several(d[n]) THEN {tags[n] + 2} ELSE Live(d[n]),
                      removed |-> {}]]

NoUpdate == [pc |-> "idle", hosts |-> {}, todo |-> {}, got |-> [s \in {} |-> None],
             add |-> {}, forget |-> {}, want |-> Empty, missed |-> {}]

First(S) == CHOOSE s \in S : \A t \in S : s <= t

(* The records there are among those read, or on hosts.                    *)
Found(got) == {got[s] : s \in DOMAIN got} \ {None}

RecordInit(on) ==
    /\ docs = [s \in Sites |-> IF s \in on
                               THEN [n \in Names |-> [adds |-> {1}, removed |-> {}]]
                               ELSE None]
    /\ upd  = [w \in Operators |-> NoUpdate]
    /\ tags = [n \in Names |-> 1]
    /\ due  = Names

-----------------------------------------------------------------------------
(* One Update.                                                             *)

Begin(w, hosts, add, forget) ==
    /\ upd[w].pc = "idle"
    /\ upd' = [upd EXCEPT ![w] = [NoUpdate EXCEPT !.pc = "read", !.hosts = hosts, !.todo = hosts,
                                                  !.add = add, !.forget = forget]]

(* The next gateway is read, or does not answer.                           *)
Read(w, answers) ==
    LET s == First(upd[w].todo) IN
    /\ upd[w].pc = "read" /\ upd[w].todo # {}
    /\ upd' = [upd EXCEPT
         ![w].todo   = @ \ {s},
         ![w].got    = IF answers THEN [t \in DOMAIN @ \cup {s} |-> IF t = s THEN docs[s] ELSE @[t]]
                       ELSE @,
         ![w].missed = IF answers THEN @ ELSE @ \cup {s}]
    /\ UNCHANGED <<docs, tags, due>>

(* What every gateway read is to hold: compacted when all answered.        *)
Target(w) ==
    LET u == upd[w]
        changed == Changed(Merge(Found(u.got)), u.add, u.forget)
    IN IF u.missed = {} THEN Compact(changed) ELSE changed

Decide(w) ==
    LET u    == upd[w]
        base == Merge(Found(u.got))
        want == Target(w)
    IN
    /\ u.pc = "read" /\ u.todo = {}
    /\ IF Found(u.got) = {} /\ Changed(base, u.add, u.forget) = base
       THEN upd' = [upd EXCEPT ![w].pc = "done"]
       ELSE upd' = [upd EXCEPT ![w].pc = "write", ![w].want = want,
                               ![w].todo = {s \in DOMAIN u.got : u.got[s] # want}]
    /\ tags' = [n \in Names |-> LET made == want[n].adds \ base[n].adds IN
                                 IF made = {} THEN tags[n] ELSE CHOOSE t \in made : t > tags[n]]
    /\ due' = due \ u.forget
    /\ UNCHANGED docs

(* Mutant: the file is replaced whatever it holds. *)
AsEver(w, s) == TRUE

(* Under the lock, the file is still the one that was read.                *)
AsRead(w, s) == docs[s] = upd[w].got[s]

(* No gateway has the update yet, so no removal can have seen its adds.    *)
Unseen(w) == DOMAIN upd[w].got \subseteq upd[w].todo \cup upd[w].missed

(* The next gateway is written, or was changed meanwhile, or does not      *)
(* answer.                                                                 *)
Write(w, answers) ==
    LET u == upd[w]
        s == First(u.todo)
        ok == answers /\ AsRead(w, s)
    IN
    /\ u.pc = "write" /\ u.todo # {}
    /\ docs' = IF ok THEN [docs EXCEPT ![s] = u.want] ELSE docs
    /\ due'  = IF ok /\ Unseen(w) THEN due \cup u.add ELSE due
    /\ upd'  = [upd EXCEPT ![w].todo = @ \ {s}, ![w].missed = IF ok THEN @ ELSE @ \cup {s}]
    /\ UNCHANGED tags

Wrote(w) ==
    /\ upd[w].pc = "write" /\ upd[w].todo = {}
    /\ upd' = [upd EXCEPT ![w].pc = "done"]
    /\ UNCHANGED <<docs, tags, due>>

(* A command goes on, with a warning for each gateway missed.              *)
Report(w) ==
    /\ upd[w].pc = "done"
    /\ upd' = [upd EXCEPT ![w] = NoUpdate]
    /\ UNCHANGED <<docs, tags, due>>

(* A command stops between two reads or writes.                            *)
Abandon(w) ==
    /\ upd[w].pc # "idle"
    /\ upd' = [upd EXCEPT ![w] = NoUpdate]
    /\ UNCHANGED <<docs, tags, due>>

UpdateStep(w) == Read(w, TRUE) \/ Decide(w) \/ Write(w, TRUE) \/ Wrote(w)

Miss(w) == Read(w, FALSE) \/ Write(w, FALSE)

-----------------------------------------------------------------------------
Records == {docs[s] : s \in Sites} \ {None}

RecordTypeOK ==
    /\ docs \in [Sites -> Doc \cup {None}]
    /\ \A w \in Operators :
         LET u == upd[w] IN
         /\ u.pc \in {"idle", "read", "write", "done"}
         /\ u.todo \subseteq u.hosts /\ u.missed \subseteq u.hosts /\ u.hosts \subseteq Sites
         /\ DOMAIN u.got \subseteq u.hosts /\ \A s \in DOMAIN u.got : u.got[s] \in Doc \cup {None}
         /\ u.add \subseteq Names /\ u.forget \subseteq Names /\ u.want \in Doc
    /\ tags \in [Names -> Nat]
    /\ due \in SUBSET Names

(* A name an apply put on a record stays listed by the records there are,  *)
(* until a removal of it, through every interleaving of two operators'     *)
(* updates, gateways they missed, compaction, and gateways that stop being *)
(* ones: secrets prune never takes a running thing's secrets for a removed *)
(* thing's. *)
AddSurvives == due \subseteq Listed(Merge(Records))
=============================================================================
