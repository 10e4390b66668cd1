# TLA+ models and proofs of paisans-stack

paisans-stack is a command line tool with which a few operators run a deployment of self-hosted
applications over several sites. There is no server of its own: operators run `paisans` on their
workstations, it reaches the sites over ssh, and what must survive lies in files — on workstations, in a
git repository on every site, in the etcd and Postgres clusters the sites form. What is hard is that
every command is a sequence of writes to different places which an interrupt may end anywhere, that two
operators may run commands at once with no lock between them, and that sites are lost, restored and cut
off. This directory holds models of those parts, what TLC checks of them and what TLAPS proves.

## How to run

    tlc -workers 2 -config MCPublish.cfg MCConfigStore     # and the other cfg files
    tlc -workers 2 -config MCTrust.cfg MCTrust
    tlc -workers 2 -config MCClusters.cfg MCClusters
    tlc -workers 2 -config MCRekeyStops.cfg MCMeshRekey
    tlc -workers 2 -config MCRotate.cfg MCSecretsRotate
    tlc -workers 2 -config MCStaged.cfg MCStaged
    tlc -workers 2 -config MCSites.cfg MCSites
    tlc -workers 2 -config MCGatewayUnread.cfg MCGatewayMove
    tlapm ConfigStore_proofs.tla        # and the other _proofs modules; the longest takes some minutes

`PROJECT.json` lists the runs, a mutant of the code for every property, the lines every definition is
translated from, the hazards and the theorems. More configurations, `MCKeyReturns.cfg` (of `MCConfigStore`), `MCRolledBack.cfg` (of `MCGatewayMove`), `MCWorkingKey.cfg`
(of `MCWholeRotation`), `MCKeysStopped.cfg` and `MCKeysTakenLast.cfg` (of `MCHostKeys`), show behaviours described
under Findings.

## Inventory

### The configuration store (`internal/configstore`, `cmd/paisans/config*.go`) — modelled

* **State.** Each site's bare git repository of signed versions (one ref per version, named by its hash,
  never moved). On each workstation: the three files an operator edits, `.paisans/store.git` (a cache),
  `config-head` (the version the files are based on), `config-root` (the pinned first version),
  `config-seen` (newest revision seen), `signing-key`. On each host, the grant record with the
  revision and hash last applied.
* **Operations.** `operator register`, `config publish [--merge]`, `config pull`, `config recover`,
  `apply [--site]`; on the sites, `config-receive` and the `config-sync` timer.
* **Interactions.** A command gathers: it asks every site, joins what they hold to the cache and judges
  the whole graph from the workstation's anchor. A publish commits to the cache, then writes its state
  files, then pushes to each site that answered. Sites fetch from one another on a timer.
* **Hard.** Interrupts between any two writes; two operators at once; sites that do not answer, miss a
  push or return from an old backup; files edited while a command runs; keys removed on one branch
  that sign on another.
* **Correct when.** Judge decides the same whatever the order of arrival, and a removal is final; no store
  has a hole; nothing is published over changes its publisher never had; what is pushed is what everyone
  then trusts as the newest; a workstation never forgets what it signed; no edit is lost; hosts never go
  back without the operator's word; every version reaches every site.

### Mesh rekeying (`internal/meshrekey`, `internal/meshkey`, part of `internal/apply`) — modelled

* **State.** In the secrets file each site's current WireGuard key, a next key while it is replaced, and
  the sites an `--all` run has left. On each host the mesh file, the manifest that records what was
  written, and what the interface runs. In etcd, whether Patroni is paused.
* **Operations.** `mesh rekey <sites>` or `--all`: plan, then for each site save a next key, pause Patroni
  if the site relays for others, write and hand over each peer's file and then the site's own, wait for
  handshakes, check the cluster, resume, promote the key. `apply` writes the same files.
* **Interactions.** A rerun starts from the secrets file and from what the interfaces run; `apply` refuses
  while a next key is pending.
* **Hard.** A stop between any two of these steps; a rerun that names other sites; a cluster that is
  unhealthy because of the half done swap; a pause that outlives its run, or is someone else's.
* **Correct when.** No key in use is lost; one site at a time is part way; all else agree; the mesh is cut
  for more than one site only under the pause; every pause is resumed by its owner; reruns finish.

### Secrets rotation (`internal/secretsrotate`, `cmd/paisans/secretsrotate.go`) — modelled in part

* **State.** In the secrets file each secret's value, its next value while it is rotated, and the list an
  `--all` run has left. On each host, what its stacks were last rendered with. At Postgres, or an issuer
  elsewhere, what is accepted. Which Patroni leads.
* **Operations.** `secrets rotate <names>` and `--all [--restart]`: plan and ask, then for each secret write
  the next value, tell the side that checks it, hand it to each user in turn (a cluster role's replicas
  before the leader, which is switched over first), promote it. `secrets set`, and `apply` beside it.
* **Hard.** A stop between any two steps; a later run that names other secrets; a leader that moves
  between the read and its use; several secrets rendered into one stack.
* **Correct when.** The file names every value anyone runs with or accepts; one rotation at a time; no host
  is given a password that is refused; restarts cause no failover; `--all` misses none; reruns finish.

### Rotations that are commands of their own (`internal/rotatekey`, `internal/oidcclient`) — modelled

* **State.** In the secrets file an app's S3 key, and the key it replaces while that is kept; the app's
  OIDC client secret. What Garage and Pocket ID hold and let in. What each site's app was started with.
* **Operations.** `storage rotate-key` (five stages), `oidc client create --rotate-secret`; `apply`,
  `storage init` and `oidc client create` beside them.
* **Correct when.** No step of a rotation takes away what the app gets in with; nothing old stays valid
  once a rotation has ended; a rerun finishes.

### Gateway move (`internal/gatewaymove`, `internal/dns/move.go`) — modelled in part

* **State.** The sites the configuration gives the gateway role; what each site's Caddy serves; the address
  records of each hostname and the resolvers that still hold an old one; a marker on the old gateway's host
  that says when its records went; the deployment record of each gateway.
* **Operations.** Seven stages: carry the record over, check that the new gateway serves, add its address
  records, delete the old ones and mark when, wait out their TTL, stop the old Caddy and forget the
  gateway's files, hand a monitor's site back. `apply` of either site renders by record and marker.
* **Hard.** A run cut short anywhere, run again or rolled back; time; two operators.
* **Correct when.** Every hostname always has an address that serves it; visitors whose resolver is late are
  still served; nothing of the old gateway is left in the end.

### Deployment record (`internal/deployrecord`, `cmd/paisans/record.go`) — modelled in part

A record on each gateway of what is deployed. `apply` adds to it and removals take from it, by an `Update`
that reads every gateway, merges, compacts if all answered, and writes each where it is unchanged. `secrets
prune` deletes the secrets of what no record lists, so **an add must survive** whatever interleaves.

### Site addition and removal (`internal/siteadd`, `internal/siteremove`, `internal/apply`) — modelled in part

* **State.** The members the configuration declares; etcd's voters and its learner; hosts whose etcd data is
  of a member removed; Patroni's leader, each site's Patroni and the etcd members it was started with,
  synchronous mode.
* **Operations.** `site add`: each declared member joins etcd as a learner and is promoted, Patroni
  clones the leader, synchronous mode is set, other replicas are recreated with the new members. `site
  remove [--host-gone]`: the leader is switched away, Patroni stopped, the member removed, with the witness
  if one data site remains; the site is cut off the mesh, replicas are recreated, the host cleaned, the
  configuration edited.
* **Hard.** Every stage looks at a cluster that hosts leave and join meanwhile; a stopped run's leftovers
  (a learner, a removed member's data) are what the next command meets.
* **Correct when.** etcd keeps its quorum and the database its writes at every step that no failure
  explains; what was begun can be finished.

### Storage addition (`internal/storageadd`) — modelled in part

* **State.** The replication factor each site's `garage.toml` has; whether each Garage runs, will be restarted,
  was stopped by a command or refuses its layout; the layout each has stored (its factor, version, roles, and
  what is staged) and those set aside; who knows whom; an object count on the anchor's host.
* **Operations.** `storage add [--change-replication]`, seven stages: plan, settle, reset (count, stop, set the
  layouts aside, write the factor, start), connect, assign and apply roles, wait for the data, provision and
  compare the counts. `apply` starts Garages and refuses to change a factor.
* **Hard.** A reset stopped anywhere, with Garages of two factors on disk; Garages that stop and are restarted
  by Docker; a layout that spreads by itself between a read and its use.
* **Correct when.** No Garage meets another factor than its own; a join that ended misses no object that was
  there before its reset; reruns finish.

### Keys on a host (`internal/hostprep`, `cmd/paisans/hostallow.go`) — modelled in part

Several deployments may log in to a host as one user. `host prepare` appends the keys each one's `ssh.keys`
lists to the user's `authorized_keys`, and takes away what it wrote itself once no deployment claims it. State:
the lines, a sidecar of claims per deployment, the owner's list of keys allowed. It plans from files read one
after another and then runs its steps, each one command under a lock. Hard: other deployments' runs, removed
sites and the owner between the plan and the steps; a run that stops before its removals, which come last.
Correct when a run takes away no line that the owner wrote or another deployment claims, adds none that the
list refuses by then, and every listed key gets in.

### Other components

| Component | State, operations | Hard | Correct when | Status |
|---|---|---|---|---|
| `garage` | keys, buckets and grants of the apps | idempotent calls | — | what `storage rotate-key` and `storage add` do to them is modelled there |
| `failover` | Patroni's leader; a switchover there and back | — | — | the switchovers of a rotation and of a removal are modelled |
| `registry`, `grant` | claims and records on a host, under flock or compare-and-swap | concurrent claims, bounded retries | one owner; no lost update | planned (the version in a grant record is modelled) |
| `hostprep`: packages, firewall, watchdog | a host's packages and rules | steps that may be repeated | — | not modelled |
| `configmerge` | none (three-way merge) | deep structures | agrees with a reference merge | possible later |
| `apply`, `converge` | containers, files and databases on a host | mostly idempotent steps | — | what they do to the store, the mesh, secrets, gateways and members is modelled there |
| `config`, `validate`, `render`, `blueprints`, `create`, `webserver`, `secretsgen` | none | text | — | not modelled: pure functions, wording and layout |
| `doctor`, `hostcheck`, `hostarch`, `preflight`, `imagedigest`, `smtpcheck`, `acme`, `keystore`, `ui` … | none of their own | network and terminal I/O | — | not modelled |

## Modules

| Module | Stands for |
|---|---|
| `Trust` | `internal/configstore/trust.go`: `Judge` as an operator over a graph of versions |
| `Verdicts` | what is claimed of `Judge`, for a graph and an anchor and as versions are fetched |
| `MCTrust` | every graph a site could hold, grown one version at a time |
| `ConfigStore` | extends `Trust`: workstations, sites and hosts, one action per step of each command |
| `MCConfigStore` | small deployments for it |
| `ConfigStore_proofs` | its inductive invariants; type correctness; no store has a hole; applied versions; edits; the proofs about `Judge` and of `Verdicts`; and those about whole runs of commands: witnesses, heads, own versions, nothing undone |
| `MeshRekey` | `mesh rekey`: the secrets file, the hosts' mesh files and interfaces, one action per step of a run |
| `MCMeshRekey` | a deployment for it with a relay |
| `MeshRekey_proofs` | its inductive invariant and the theorems about it |
| `SecretRotation` | what rotating secrets promises: the abstract specification |
| `SecretsRotate` | `secrets rotate`: plan and stages, over the hosts, Postgres and the leader; implements `SecretRotation` |
| `MCSecretsRotate` | a cluster of three sites with two roles, a login and a pasted secret |
| `SecretsRotate_proofs` | its inductive invariant, the theorems about it and the refinement |
| `CredentialState` | an app's keys and secrets, wherever they are held, and the properties of them |
| `WholeRotation`, `MCWholeRotation` | extends it: `storage rotate-key` and `oidc client create --rotate-secret` |
| `WholeRotation_proofs` | its inductive invariant and the theorems about it |
| `DeployRecord` | the deployment record and `Update`, by several operators |
| `GatewayMove`, `MCGatewayMove` | extends `DeployRecord`: `gateway move`, applies and time |
| `GatewayMove_proofs` | its inductive invariants; hostnames are served, and stragglers; no add to the record is lost, by updates beside each other and beside a move |
| `MCStaged` | `GatewayMove` or `WholeRotation`: two systems that share nothing, in one run |
| `ClusterState` | the etcd and Patroni clusters, and what a command promises of them |
| `SiteChange` | extends it: `site add` and `site remove` |
| `SiteChange_proofs` | its inductive invariant; etcd's quorum and the database's writes go on |
| `MCSites` | `ConfigStore`'s apply or `SiteChange`, in one run |
| `GarageState` | the Garages of the sites, their factors, layouts and object counts, and the properties of them |
| `StorageAdd` | extends it: `storage add`: the join of the Garage sites, and the reset for another replication factor |
| `StorageAdd_proofs` | its inductive invariants; no two factors meet, and no object is missing after a join |
| `HostState` | the login keys of a host, the claims on them, and what a step may do to them |
| `HostKeys`, `MCHostKeys` | extends it: `host prepare`'s part in the `authorized_keys` of a host several deployments share |
| `HostKeys_proofs` | its inductive invariant; what a run never does to the owner's or another's keys |
| `MCClusters` | `MCMeshRekey`'s rekeys, `StorageAdd` or `HostKeys`, in one run |

`CredentialState`, `GarageState`, `HostState` and `ClusterState` hold a component's state and the properties
that need nothing else. The component's module extends them, and so does the MC module of the run, which
composes it with another component: the property a run checks and the one a theorem states are one definition.

### `Trust`

A graph maps a version's id to its parents, revision, signer, the keys its `paisans-stack.yaml` lists,
and whether its tree and operators can be read. `AnchorAt` is `anchor`: the newest trusted version the
operator signed, or the pinned root. `Candidates` are the versions built on the anchor's history that
`extends` accepts and that no removal in that history bars; `Attacks` are the removals (`bars`) between
candidates; `Decided` is the loop over `status`, which settles a version in when all who attack it are
out, and out when one that attacks it is in. The three loops of the code, which collect a version's
ancestors, the candidates and their status, are `Iterated`: a step, a function on a finite set of states,
applied as often as the loop can need. The code's rounds visit the candidates one after another, and what a
round settles is seen within it; `Decided` settles a whole round at a time, and both stop at the same status,
since a candidate settled stays settled whatever the order. `Judge` refuses on an undecided rest, on a candidate it
cannot read and on heads whose order it cannot tell, as the code does. Signatures are taken as git
verified them: a version whose signature is bad has no key.

### `ConfigStore`

`run[w]` is the command a workstation runs: its next step `pc`, the sites still to ask or push to, the
verdict of its gather, the version in hand. Each action is one step that reads or writes outside the
process, and they follow the order of the code:

* every command: `AskSite` for each site, in name order, then `JudgeGathered` (gather in local.go; a
  head older than `config-seen` goes on only with the word `rollback`);
* `publish`, `publish --merge`: `Prepare` (Parents, CheckSigner, RecordSeen) → `Commit` → `RaiseSeen` →
  `SetHead` → `SetRoot` → `SetSigningKey` → `PushSite` for each site that answered → `Pushed`;
* `register`: `Attest`, the same writes in the order of attestFrom, and the files first on a workstation
  with none;
* `pull`: `Compare` → `WriteConf` → `WriteSecrets` → `SetHead` → `RecordPull`; files that differ from
  the head only in secrets are merged (config_merge.go);
* `recover`: two gathers with `Choose` after each, then the writes of a pull;
* `apply`: the files are loaded at the start, `Review` compares the hosts' records, the steps of a
  publish follow, then `ApplySite` for each host, which writes its record.

`Stop` ends a command before any step. While it has only read, that is any refusal or an unconfirmed
prompt; later it is an interrupt or a failed write, counted against `MaxMishaps`. `Edit` is the
operator's editor; `Lose` a lost workstation, cache or files; `SiteLoses` a site restored from an older
copy; `SiteSync` one fetch of `config-sync`. Concrete data is abstracted to what the properties tell
apart: `paisans-stack.yaml` is one of a few values, known by the keys it lists, the secrets file one
value of one secret, and a hash is the number of its commit. `origin` is a history variable: the version
from which the files on disk were made.

A word the operator may type (`partial`, `rollback`) is a choice: the command goes on, or `Stop`s.
`words` remembers that `rollback` was asked and typed.

### `MeshRekey`

`cur`, `next` and `left` are the secrets file; `conf[h]`, `known[h]` and `iface[h]` are host h's mesh file,
whether the manifest records it, and what its interface runs, each as the key for every site it lists.
Keys are numbers in the order they are generated. `run` is the run under way: `Start` (Build) → `Record`
for a new `--all` run → for each site `Pick` → `CheckReady` → `NewKey` → `Pause` when the site relays and
its host does not run the next key → `PlanSwap` (every host planned before one is changed) → for each
peer and then the site `HandWrite` → `HandRecord` → `HandSync`, or `HandWritten` when the file is already
there → `Handshakes` → `HealthGate` → `Resume` → `Promote`. A site found with a next key goes first and
starts at the pause or the swap. The gates that fail are `Refuse`; `Stop` ends a run before any step.
`Render`, `Relays` and `AsRunning` are the render's peer rule, the sites cut apart by a swap, and
meshkey's choice of the key each site is rendered with.

The environment: `Sicken` and `Heal` for anything else wrong with the cluster, `Maintain` and
`EndMaintenance` for someone else's pause, and `Apply`. Two sites reach each other when both ends of each
tunnel between them hold the right keys (`Up`, `Reach`). Whether cut sites make the cluster unhealthy
depends on where its members are, so while any are cut the health gate may pass or refuse.

### `SecretsRotate`

`val`, `next` and `left` are the secrets file; `held[s][u]` is what site u's stack runs with, `takes[s]`
what Postgres or the issuer accepts, `leader` the site whose Patroni leads. Values are numbers in the order
they are made. A run goes `Start` (plan, refusals, the pasted answers) → `WriteNext` → `Check` (ALTER ROLE,
or the issuer asked) → `ReadUsers` → for each user `Hand`, or for a cluster role `Present`, `Switch` and
`Restart` → `Promote`, and then the next secret. Secrets left pending go first and keep their value (`Kept`,
`FirstOf`). Applying a user's stack renders every secret of that stack, from a copy of the file with the
pending one promoted (`Given`, `Shown`). Beside it: `Stop`, `LeaderMoves`, `Apply` (refused while a
rotation is pending), `SecretsSet`, and `Issue` for an issuer's own changes.

`SecretRotation` has one step where the code has many: a secret gets a next value, a user is handed it, and
it becomes the secret's own once every user has it. `RotatesOneByOne` is the refinement, for the
generated secrets, with `cur <- val`, `next <- next` and `runs <- held`.

### `WholeRotation`

For an S3 key `cur` and `prev` are the two pairs in the secrets file, `holds` what Garage has, `grants`
what it lets in, `env` what each site's app was started with. `PlanKey` begins a rotation or goes on with
one (`InProgress`), `WritePair` → `Import` → `Grant` → `SwitchSite` for each site → `SwitchGate` → `Prove`
→ `DeleteKey` → `Unpair`. For a client secret `PlanClient` → `Record` → `Send` → `SwitchSite` → `Retire`,
one old secret at a time.

### `DeployRecord` and `GatewayMove`

A record maps each name to the tags of its adds and of the adds a removal saw. `Update` is `Begin`, `Read`
of each gateway in turn, `Decide` (merge, change, and compact when none was missed), `Write` of each under
its lock if its file is `AsRead`. `due` is a history variable: names an apply put on a record and no removal
took since.

`GatewayMove`'s run holds the plan of `Build` (the stages with something left to do) and stands at one
stage: `RecordStage`/`Recorded`/`RecordGate` → `ServeGate` → `AddRecord`, `AddGate` → `Remove`,
`DeleteRecord`, `Mark` → `Wait` → `StopCaddy` → `Forget` → `HandOff`. Each gate is taken whether or not its
stage was planned, as in the code. Time is `Tick`: `cached[s]` is how long a resolver may still hold site
s's address, and a marker's `left` how long is still to be waited. The operator edits the configuration
(`Declare`), also back to the old gateway; `ApplyGateway`, `ApplyMonitor` and `RemoveNames` are the other
commands. `late` is a history variable: sites left with a marker by a move that was rolled back, until a later move
marks them anew while they serve.

### `SiteChange`

`config` is etcd.members as declared, `voters` and `learner` etcd's own, `started` whether the learner has
joined, `spent` hosts with a removed member's data. `patroni[s]` is off, behind or a copy of the leader;
`hosts[s]` the members its Patroni was started with; `down` and `unwell` hosts, or etcds, that do not answer.
`Remove` and `Add` are the two `Build`s: what they refuse is their guard, and the steps they plan are
`changing.steps`, which `Rank` orders. A step that is refused, or a gate that does not pass, ends the run
(`Gate`). A removal is `Switch`, `Async`, `StopPatroni`, `DataMoved`; `RemoveMember`, `RemoveWitness`, `Cut`,
`Recreate`/`StreamsAgain`/`ReplicasDone`, `Left`; `CleanHost`; `EditConfig`. An addition is `NextJoiner`,
`AddLearner`, `StartLearner`, `Promote`, `Joined`; `StartPatroni`, `Streams`; `SetSync`, `HasStandby`; and the
replicas. `goal` is the command that was begun and has not finished, and `changing.calm` says that no host has
failed since it looked. Around it `Fail`, `Recover`, `Stop`, Patroni's own `Release`, `Elect` and `CatchUp`,
the operator's `Failover` and `Declare`, and `Apply`.

### `StorageAdd`

`factor` is the factor in each `garage.toml`, `garage[s]` whether the container is up, down until it recovers,
stopped by a command, or refused by its layout; `layout[s]` what its node has stored, `aside[s]` the layouts
moved out of the way, `met` the nodes that know each other, `behind` those with data to receive, `counts` the
counts file on each host. `missing` says that objects the cluster held before a reset are not to be found.
`Plan` is `Build`: the anchor (`ChooseAnchor`), the sites whose factor differs, whether a reset is to be gone
on with (`Unfinished`). Then `Settle` → `RecordCounts` → `StopNode` for each → `SetAside` for each →
`WriteToml` for each → `StartNode` for each → `Started`; `Connect` for each → `Connected`; `Assign` for each →
`ApplyLayout` → `Agree`; `Synced`; `Provisioned`. A gate that does not pass ends the run, whose messages say
to run it again. Around it `Stop`, `Down` and `Recover`, the operator's `Apply` and `Raise` of the factor, and
what Garage does by itself: `Spread` a layout, `Receive` data, `Converge` its counts.

### `HostKeys`

`lines` are the plain lines of `authorized_keys`, each a key and who wrote it; `sidecar[d]` the claims of
deployment `d`, `"added"` or `"shared"`; `allow` the owner's list, if there is one. `preparing[d]` is a run of `host
prepare`: `Start` reads the lines, `ReadClaims` the list and the sidecars and makes the plan: `Op` what is to be
done about each key, `Writes` the sidecar that the step about it writes, which is the plan's as it stood when it
came to that key. Then `Add` and `Share`, `Drop` (forget and release) and `Remove`, in the order of `Turn`. Beside
them `Stop`, the removal of a deployment's site (`SiteRemove`), edits of `ssh.keys`, lines deleted by hand
(`Take`), and `host allow` and `host disallow`, which read the list and write it if it is still what they read
(`WriteList`). Keys are numbered in the order of their fingerprints, which is that of the sidecars, and
`ssh.keys` is taken to list them in it.

## Runs

| Run | Instance | Shows |
|---|---|---|
| `trust` | graphs of up to 4 versions over 3 keys, symmetric but for the operator's own | `VerdictIsGrounded`: Judge's rounds reach exactly the least set of candidates that defends itself, and what is trusted is built on nothing else. `RemovalIsFinal`, `OperatorsAgree`, and `UntrustedChangesNothing` when a version arrives |
| `publish` | 2 workstations publish, merge and recover over 1 site, 3 versions, 1 edit, an interrupt or the site restored from an older copy; a configuration listing both keys and one listing the first only | `PublishedIsHead` (the checks made before a publish are enough for everyone's `Judge` to accept it as the one head, until a removed key is listed again: see Findings), `NoStaleOverwrite` |
| `commands` | 2 workstations publish, register, recover and pull over 1 site, 3 versions, an edit between commands, an interrupt, lost files or a lost cache | `OwnIsSeen`, `EditsSurvive` |
| `sites` | *apply*: 1 workstation, 2 sites, 3 versions, 3 mishaps: interrupts, restored sites, the workstation lost. *Site change*: from 1 to 3 data sites and a witness and back, one mishap: a host fails, its etcd fails, or a run stops | *apply*: `HeldClosed`, `WitnessHolds`. *Site change*: `QuorumKept`, `WritesGoOn`, and the liveness property `ChangesFinish` |
| `sync` | 1 workstation that applies, 2 sites, 3 versions, 2 interrupts, under `FairSpec` and without `LocalFirst` | `AppliedIsStored`, and the liveness property `EverySiteLearns` |
| `clusters` | *rekey*: 3 sites, one dialled and the relay between the others; 7 keys, so 4 rekeys; 2 mishaps, interrupts at any step. *Join*: 3 Garage sites of which 2 make up the cluster, the factor raised from 1 to 2; 2 mishaps, interrupts at any step or a Garage that stops. *Keys*: 2 deployments, 2 keys of which one was there before, 2 edits by anyone, 1 interrupt | *rekey*: `KeysHeld`, `PeersAgree`, `SplitOnlyPaused`, `PauseIsOwed`, `MaintenanceKept`, and the liveness property `RekeyFinishes`. *Join*: `OneFactor`, `NothingMissing`, and the liveness property `JoinFinishes`. *Keys*: `HostRespected`, and the liveness property `ListedGetIn` |
| `rotate` | 3 data sites; two cluster roles, a login, a pasted token; 2 mishaps: stops, failovers, reads that fail | `Recoverable`, `LeaderIsLast`, `AllMeansAll`, `HandedIsAccepted`, the refinement `RotatesOneByOne`, and the liveness property `RotationFinishes` |
| `staged` | *gateway move*: 2 sites, the second a monitor's, 2 hostnames, 2 operators, a TTL of 2 ticks, 3 edits of the configuration, 2 events. *Rotations*: an S3 key and a client secret of an app on 2 sites, 4 values, 3 stops | *move*: `AddSurvives`, `AlwaysPublished`, `StragglersServed`, `MoveFinishes`. *Rotations*: `NoForgottenKey`, `OwnStepsKeepWorking`, `OldSecretsGone`, `KeyRotationFinishes` |
| `two_applies` | 2 workstations apply at once | a violation of `WitnessHolds` (findings) |
| `edit_during_pull` | the operator edits while `pull` runs | a violation of `EditsSurvive` (findings) |
| `rekey_stops` | the sites of `clusters`' rekey, 5 keys and 1 interrupt | a violation of `StoppedRunResumes` (findings) |
| `gateway_unread` | the move of `staged`, whose record gate may meet an old gateway that does not answer | a violation of `AddSurvives` (findings) |

The type invariants of `ConfigStore`, `MeshRekey` and `SecretsRotate`, and `OnePending` of the last two,
were checked with TLC on these instances and are proved; the runs leave them to the proofs, and those of
`GatewayMove`, `WholeRotation`, `SiteChange`, `StorageAdd` and `HostKeys` too. `NotAgain` of `MeshRekey` and
`TrustedIsClosed`, once properties of their own, are left to its proof and to `VerdictIsGrounded`.

**Composed runs.** `staged` and `sites` each hold two systems that touch nothing of each other's, `clusters` three. A
variable `procedure`, chosen in the initial states and never changed, says which one moves, so the run
explores the states of each and no product of them, and every property is checked in all of them. Fairness
of an action of the system that stands still asks nothing.

**Bounds.** `MaxVersions` bounds commits, `MaxEdits` edits, `MaxMishaps` interrupts, losses and restores;
commands are not bounded. Three versions are enough for a fork, for a base two versions behind, a merge onto
a head by hand, and for a removal with a version of the removed key beside it; every mutant in `PROJECT.json`,
each a plausible mistake in the code, is found within these bounds. A version that joins the heads of a fork
is a fourth, and so is one signed by a removed key that is listed again. With four versions and no mishaps
(some 400 000 states) the two properties of `publish` hold too; that instance is too large for a run, and
without removals the proofs cover any number. Four versions in `Trust` are enough
for two removals that attack one another and a version built on either.

In `clusters`, `MaxKeys` bounds the keys generated and `MaxMishaps` interrupts, sick clusters and others'
pauses together. Four rekeys are a whole `--all` run and one more; two mishaps stop a run and its rerun.
Three sites, one of them dialled, are the least with a relay (validation asks for a second dialled site
only from three etcd voters on). For the join, three sites are the least with a site to join beside a cluster
of two, and one raise is a whole reset; `MaxJoinMishaps` is two, which stop a reset and its rerun, or stop it
while a Garage is down. The anchor's Garage, g1's, does not stop by itself, and g1 is listed first: what
happens otherwise is described under Findings, and `NothingMissing` is claimed of one anchor only. For the keys,
two deployments are the least that share one, and two keys the least of which one can go while the other is
the owner's; two edits take a key off one list and out of the other's way, or make a list while a run is
planned. Fairness is of the runs: a deployment's operators run `host prepare` again until there is nothing to do.

In `rotate`, `MaxValue` bounds the values made of each secret to two or three, which is a rotation, its
rerun and another; three members are the least in which the leader, as it was read, and a successor that was
not handed the value yet can differ. In `staged`, `TTL` is 2 so that a wait can be cut short half way,
`MaxDeclares` lets a move be begun, rolled back and begun again, and `MaxHeld` is how many secrets Pocket
ID keeps, lowered from its own so that stopped runs reach it. In `sites`, `MaxDeclares` is one growth of
the cluster; three data sites are the least of which a replica outlives a removal and has to be recreated.
One mishap reaches a stop in every stage with its rerun, or a host lost in any of them; `QuorumKept` and
`WritesGoOn` are about what commands do when no host has failed since they looked, so one leftover is what
they need. `QuorumKept` and `WritesGoOn` were also searched, with no violation, with two growths and two
mishaps, though not to the end.

**`LocalFirst`.** In every run of `ConfigStore` but `sync` a workstation at a step that touches only its own files takes
that step (or stops, or is edited) before others move. Those steps commute with every step elsewhere,
and no property relates two workstations' local files, so the order loses no behaviour the properties
can see. The liveness run does without it, as an action constraint and fairness do not mix.

**Fairness.** `FairSpec` assumes of each pair of sites that the sync of one from the other keeps being
taken: a systemd timer starts `config-sync` again and again and it tries every peer in turn. Nothing is
assumed of operators: any command may stop for ever. A site that is never reached again is outside it.

`MeshRekey`'s assumes what the code's messages ask for: a run under way goes on until a gate refuses or it
is interrupted (one process), operators run the command again, an unhealthy cluster is mended and others'
maintenance ends. Interrupts need no fairness and are bounded. `RekeyFinishes` leaves one case out, named
`Unrecorded`: the finding below.

`SecretsRotate`'s is a run that goes on and an operator who runs the command again, naming what its error
says to name. `WholeRotation`'s is the same for a key; there it is strong fairness, as other commands keep a
rotation from being planned again and again, and an operator comes to it in the end. `GatewayMove`'s adds
that time passes, that updates of the record go on, and, strongly, that a declared gateway that does not
serve is applied: the move's second gate only checks, and its message says to apply. `SiteChange`'s has
runs go on, Patroni elect and catch up, and hosts come back; the operator reruns a command that stopped
(`Rerun`), and switches the leader off a site being changed, as the messages say (`SwitchAway`), both
strongly, since the cluster may be unfit for them again and again but not for ever. `ChangesFinish` leaves
out what `CanFinish` names; see Findings. `StorageAdd`'s is a run that goes on, an operator who runs the command
again once every site had its first apply (Build refuses a site without a `garage.toml` and says so), Docker
restarting a container that stopped by itself, and Garage spreading its layout and moving its data; all weak.

**Deadlock** is checked in every run of `ConfigStore`, `MeshRekey`, `SecretsRotate` and `StorageAdd` and in `sites`: an
idle workstation can start a command, and sites can sync. In `sites` the module adds a step by which a
cluster with no run under way stays as it is (`Rest`), so that a run that cannot go on is still found.
`MCTrust`'s graph stops growing at its bound, and a deployment whose move and edits are over may stop, so
`trust`, `staged` and `gateway_unread` do not check it.

## Findings

* `two_applies`: the README (line 4307) says that `apply` refuses to go to an older revision than a
  host's record, or another version at the same one, unless `rollback` is typed. The records are read
  before the version is published and written, unconditionally, after each host's steps. Of two applies
  at once the later to record may put the older version over the newer. With one workstation applying at
  a time the property holds (`sites`).
* `edit_during_pull`: the README (line 4385) says `pull` moves files *with no local edits*. The code
  decides that before it may wait at a prompt, and writes without reading the files again. Without edits
  during the pull the property holds (`commands`) and is proved (`NoEditLost`).
* `rekey_stops`: a stopped run says to "run mesh rekey again: it resumes where this stopped"
  (meshrekey.go:366, and the README, line 8906). Stopped after a mesh file is written and before the
  manifest records it (apply.go:1194, 1208), it does not quite: the rerun finds the file as rendered, so it
  syncs it and never records it (meshrekey.go:555). That site's rekey completes. The next site's saves its
  next key, may pause Patroni, and then is refused at that host as an edit "somebody" made
  (meshrekey.go:520), and so is every rerun; `apply`, which would record the file, refuses while a next key
  is pending. A whole `apply` between the two sites prevents it. Without that window reruns finish
  (`RekeyFinishes`).

* `gateway_unread`: the first gate of a move promises that "the deployment record on" the new gateway "lists
  every name the record on" the old one lists (gatewaymove.go:474, README line 9324). `recordCarried` takes
  a record it could not read for one that lists nothing (gatewaymove.go:505), and the stage's update is an
  error only when the *new* gateway was missed (line 488). An old gateway that does not answer then, but
  does later, has its record deleted with whatever only it listed (line 747), and `secrets prune` may take
  the secrets of something that runs.

Noticed beside these, with no run in `PROJECT.json`:

* *A removed key, listed again* (`MCKeyReturns.cfg`). `CheckSigner` refuses a key that some parent does not
  list, since "a version signed by anyone else would not be trusted" (local.go:851). For a key that every
  parent lists it does not follow that the version will be: `bars` (trust.go:438) holds a removal against
  every version of that key that is not an ancestor of the removal, its descendants included. So when one
  operator takes a key out of `operators` and another puts it back, the owner of the key publishes without a
  word. That workstation is anchored by its own version and shows it as the head; every other one leaves it
  out for good, and with it all that is built on it. That a removal is final is meant (README line 4274, and
  `TestJudgeRemovedThenReaddedWithNewKey` gives the operator a new key); that publishing does not say so is
  not. Four versions show it. `PublishedIsHead` claims `HeadForAll` only until a key returns.
* *Rekey.* The README (line 8948) says a Patroni paused by anything but this rekey's own swap is refused. A
  rerun with a pending relay skips that check (meshrekey.go:220), so when the first run stopped before its
  pause and someone else paused Patroni since, the rerun takes the pause for its own and resumes it.
  `MaintenanceKept` covers pauses made while no rekey had begun.
* *Gateway move, rolled back* (`MCRolledBack.cfg`). A marker an earlier move left "says nothing about when
  this move's records went" (gatewaymove.go:450), if that move was another one. A move that is rolled back
  after it marked leaves a marker of the same two sites, which the next such move takes for its own
  (`Keeps`, line 613): where its records went on an earlier, stopped run, it does not wait. `StragglersServed`
  leaves out such a host, until it is marked while it serves: a site whose Caddy was stopped under such a
  marker has stragglers that no later marker gives back (the proof found this; a host whose marker was only
  replaced was left out too little before).
* *Gateway move, crash.* Records that were deleted by a run that stopped before it wrote the marker are
  waited for by the next, for the whole default TTL: longer than needed, never shorter.
* *S3 key* (`MCWorkingKey.cfg`). The README (line 3860) has the app keep a working key the whole time.
  Stage 1 writes the new pair to the secrets file before Garage knows it. An `apply` between a run that
  stopped there and its rerun hands the app the new key: `refuseMidRotation` looks at the engine's pending
  rotations only (cmd/paisans/secretsrotate.go:859). `OwnStepsKeepWorking` says what holds: no step of a
  rotation does it.
* *Deployment record.* A gateway that misses the write of a removal, while the others compact, brings the
  removed name back at the next merge: compaction forgets the removals it has seen (record.go:393), though
  `reportMissed` calls the gateway "brought up to date" by the next change (cmd/paisans/record.go:184). The
  name is listed for longer than it should be; nothing is lost by it.
* *Secrets prune* after an edit of the gateways and before the move's first stage reads only the gateways
  declared, so not the record the move is still to carry over.
* *Site removal, stopped.* After the member is removed and before the configuration is edited, `apply` is
  refused and advises `site add` (apply/etcd.go:346). Followed, that adds the removed site, or its witness,
  as a learner, which cannot start on the data of a member removed; with the witness for a learner, `site
  remove` is refused too. The same meets a deployment that shrank to one site and grows again with the same
  witness host. Running `site remove` again is what finishes it.
* *Site addition, stopped.* With d3 a learner left by `site add d2`, `site add d3` is always refused by etcd,
  which takes one learner at a time; `site add d2` resumes.
* *Synchronous mode.* A cluster whose configuration asks for it, and whose Patroni is not set to it (an
  addition stopped before its stage 5 and finished by apply, or a removal that turned it off and stopped):
  `site remove` that leaves two data sites stops Patroni on the site and then waits for a Sync Standby that
  never comes (data.go:546 asks the configuration, data.go:412 the cluster). The advice to "set
  cluster.synchronous: true and apply" (data.go:418) does nothing there; `site add`, run again for a replica,
  turns it on.
* *A site that leads by now.* `site add` of it again can never pass its gate until the leader is switched
  away, and the apply in it recreates the leader if etcd's members changed: a failover. A plain `site
  remove` does not look at the leader again between its plan and its first stage.

The last four are why `ChangesFinish` and `WritesGoOn` have the exceptions they name.

* *Storage, another anchor.* The object counts are on the anchor's host "so that a run resumed from anywhere
  compares against the same numbers" (stages.go:333; also docs/specs/2026-10-07-multisite-garage.md:444). Every
  run chooses its anchor anew, though, as the first listed site that has a role *now* (storageadd.go:376), and
  a run whose anchor has no counts skips the comparison (stages.go:198). The anchor changes when the first
  listed Garage is down as the reset is planned and the run then ends at a wait; when a new site is listed
  first, with no mishap at all: it has no role before the reset and one after; and when the factor is raised
  again after a reset stopped before any role was given. In the model, `Failing = {g1, g2, g3}`, `Order =
  <<g2, g1, g3>>` with `OldSites = {g1}`, or `Factors = {1, 2, 3}` each violate `NothingMissing`. The counts
  stay behind on the first anchor's host, where a later reset takes them for its own.
* *Storage, what counts can tell.* Objects stored while the command waits for the data make up for missing
  ones in a count, and a user's delete after the reset leaves fewer than were recorded, which no rerun passes
  until the counts file is removed by hand.

* *Keys, a run that stops* (`MCKeysStopped.cfg`). "Each step rewrites the sidecar along with its change, so a
  stopped run resumes" (README line 5351). What a step writes is the plan's sidecar as it stood when the plan
  came to its key (authorized_keys.go:349), and the removals run after all the others. When a key to forget or
  release comes after a key to remove, in the order of fingerprints, its step drops the claims of both; a run
  that stops then, in the firewall's steps or at the removal itself, leaves a line that host prepare wrote
  and no sidecar claims, and no later run takes it away. Without stops every such line goes.
* *Keys, claims that come back.* In the same plan the removal, which runs last, writes the sidecar of before the
  other step: a key that was forgotten or released is claimed again until the next run drops it once more.
  A copy that the owner adds by hand in between is taken for host prepare's, which README line 5353 says it
  never is.
* *Keys, out of place* (`MCKeysTakenLast.cfg`). "A key is only taken away once every listed key is in place"
  (authorized_keys.go:171). The lines are read before the sidecars, so a key that another deployment removes,
  claim and line, in between is seen present and claimed by nobody, and is neither shared nor looked for again:
  the plan goes on to remove the key it replaces. The next run adds it, if one can still log in.
* *Keys, shared by mistake.* A share whose line has gone by then "records it added instead"
  (authorized_keys.go:296), but later steps of the plan write it `shared`: nobody ever removes that line.

## Proofs

Every theorem is for all values of the constants its module's assumption admits: sites, names, operators
and bounds in any number. The assumption is the module's `ConstantsAssumption` or, in a module that a run
instantiates, its operator `ConstantsHold`, which is the theorem's hypothesis and which the run assumes of
its instance. What a theorem takes for granted beyond that is said here.

Of `ConfigStore`, for every number of workstations, sites, keys, file contents, versions, edits and mishaps:

* `TypeCorrect`: `Spec => []TypeOK`.
* `StoresHaveNoHole`: `Spec => []HeldClosed`.
* `AppliedStored`: if sites are not restored from old copies (`"site" \notin Mishaps`),
  `Spec => []AppliedIsStored`. The assumption is needed: a restored site may have been the only holder.
* `NoEditLost`: if nobody edits during a pull (`"pull" \notin EditWhile`), `Spec => EditsSurvive`.

**The argument.** Neither `TypeOK` nor `HeldClosed` is inductive: `SetHead`, `WriteConf` or `Commit`
write what an earlier step put in `run[w]`, and a push gives a site the cache. `IInv` is
`TypeOK /\ HeldClosed /\ RunSound`, where `RunSound` says at each step what the steps before it
established: that the version in hand exists and is in the cache, that the parents settled on are held
there, that the files to be written are there to write, that the steps an action is reached by belong to
its command. There is a lemma per action, each of which also exports that only one workstation's run
changed, so that the invariants built on top need not look at the actions again. `IInv` is preserved by
the case split over `Next` (`CommandKeeps` for the steps of a command), and the theorems follow by PTL.

`AInv` strengthens `IInv` with: while a version is being applied, some site holds it — `Pushed` lets an
apply go on only when a site took it, stores only grow without restores, and `ApplySite` records just
that version. `EInv` strengthens it with: between `Compare` and the last write of a pull, what lies in
the local files, where it will be written over, is the value of some version in the cache; `Compare`
establishes it (files not edited, or merged with edits kept), each write keeps it, and only an edit
during the pull could break it.

`IInv`, `AInv` and `EInv`, and the inductive invariants below, were checked with TLC as invariants of the
small instances before they were proved.

Of `Verdicts`, for every finite graph of versions, honest or not, every anchor and every way the graph grows
by fetching (`Fetching`, of which `MCTrust`'s behaviours are some): `VerdictGrounded` (`VerdictIsGrounded`),
`RemovalFinal` (`RemovalIsFinal`), `OperatorsAgreeing` (`OperatorsAgree`) and `UntrustedIdle`
(`UntrustedChangesNothing`). And of `ConfigStore`, whose caches are such graphs: `CachesJudged` and
`GatheredJudged` say the first two and the last of every workstation's cache in every reachable state.

**Their argument.** `Judge` is three loops, and each theorem needs what they end with. The provers cannot
instantiate an induction theorem, whose parameter is an operator; so `LeastOf` proves that a non-empty set of
numbers has a least member, from well-foundedness of the numbers stated for sets, and `AllNumbers` is
induction over a *set* of numbers. From it: a loop's function exists and is what its rounds say (`Loops`);
what each round keeps holds at the end (`IteratedKeeps`); and rounds that only add to a finite set, or only
take from it, have settled after as many as it has members (`GrowingSettles`, `ShrinkingSettles`). So
`Ancestry` is the least transitive relation over the parents (`AncestryHolds`, `AncestryTransitive`),
`Following` the largest set whose members extend the history and each other (`FollowingHolds`,
`FollowingMost`), and `Decided` a fixed point that every complete set contains (`DecidedHolds`,
`DecidedLeast`): in and out stay disjoint because what is in is attacked by nothing but what is out. That
removals are final follows, since who bars a version attacks it and all built on it. `UntrustedIdle` is the
longest: a version that is new changes no old version's ancestry (`AncestryKept`), so nor who bars whom or
extends what (`BarsKept`, `ExtendsKept`), and the old candidates are candidates still (`OldCandidates`); a new
candidate that is not trusted is attacked by one that is, and so it keeps nothing out. `OperatorsAgree` needs
the first version's operators to be readable, as the root's always are where there is an anchor.

Of `ConfigStore` again, for whole runs of commands:

* `RollbacksAreTyped`: while no two workstations apply at once (`OneApplies`), `WitnessHolds`. The
  hypothesis is needed: `two_applies` violates the property.
* `VersionsProper`: every version that exists is numbered one above its highest parent and signed by a key
  that every parent lists, or that it lists itself when it has none. No hypothesis.
* `PublishedIsTheHead`: in a behaviour that is always `Peaceful`, that is where no version lists fewer keys
  than its parents and only one was committed on nothing, `PublishedIsHead`, and even `HeadForAll`.
* `OwnSeen`: if no two workstations share a key (`OneKeyEach`) and none is lost, then in a peaceful behaviour
  in which no operator is asked to type `rollback`, `OwnIsSeen`. Caches and files may be lost.
* `NothingUndoneEver`: if neither a workstation nor a cache is lost (`NothingForgotten`), then in a peaceful
  behaviour `NoStaleOverwrite`. Interrupts, lost files and restored sites are allowed.
* `RollbackNeverAsked`: under the same hypotheses no operator is ever asked to type `rollback` for what a
  gather found, so what `OwnSeen` assumes then holds.

**Why peaceful.** With a removal on one of two branches, two anchors may judge one cache differently, so "the
heads" are not the same for the workstation that publishes and for those that read; what is then true depends
on which keys each branch lists, and a removed key that returns makes `HeadForAll` false (Findings). In
peace nobody is barred, and `Judge` trusts a whole cache whatever the anchor (`PeacefulJudge`, from
`OperatorsAgreeing`'s argument and `VersionsProper`); its heads are `Tops`, the versions of the cache on which
none in it is built. Forks, merges, interrupts between any two writes, restored sites and any number of
operators remain, and those are what the checks before a publish are for.

**Their argument.** `KInv` says which steps belong to which command. `WInv` says of an apply what it may
still record: the version in hand, and any it may yet commit on its parents, is newer than each host's record
or is that record's version, unless `rollback` was typed for the host; it is kept because only that run
writes the records. `VInv` adds to properness what a run found of the version it is about to sign, and that
pinned roots are roots. `PInv` says that the heads a run goes by are the tops of its cache, that a commit
builds on all of them and is then the only top, and that a run which pushes has something to trust from.
`OInv` says that whatever an operator signed and another can reach is no newer than `config-seen`, and that a
committing run has recorded all its cache holds before it writes; an own version that has not left the
workstation may be newer, for `RaiseSeen` comes after `Commit`. `BInv` says that the head is behind the version
the files on disk were made from (`origin`), which is what makes `Parents`' comparison of the head with the
sites' heads a statement about the files: the base that is compared is never newer than the files it stands
for. `LInv` says that what a workstation has seen is in its cache still. All were checked with TLC on the
instances of `publish` and `commands`.

Of `MeshRekey`, for every number of sites, any set of them dialled and any bounds: `RekeyTypeCorrect`,
`NoKeyLost` (`KeysHeld`), `OneSiteAtATime` (`OnePending`), `OthersAgree` (`PeersAgree`), `PauseOwed`
(`PauseIsOwed`), `OthersMaintenanceKept` (`MaintenanceKept`), `NotTwice` (`NotAgain`), and, where some site
is dialled, `SplitPaused` (`SplitOnlyPaused`): with none there is no relay, and sites that nobody dials
never reach each other.

**Its argument.** None of these is inductive: that `Promote` loses no key needs every peer to have the next
one by then, which needs each step of the swap to have been taken; that an unpaused relay cuts nothing
needs to know what a stopped run left. `IInv` in `MeshRekey_proofs` adds: while a site is being replaced it
is the only one pending, and a recording or picking run has any pending site still to do
(`RunSound`); every host the swap is done with has the next key in file and interface (`HandedSound`);
a pause of this rekey's has a pending relay, and someone else's has no rekey begun (`PauseSound`); with no
pause, a relay's next key is run by no host or by every one (`RelaySound`), which rests on keys being fresh
(`Fresh`) and on what a run read of the site when it started (`RanSound`); and the sites an `--all` run has
left are none of those it promoted (`AllSound`). There is a lemma per action, and `Moves` and `Ends` carry
what the steps that only advance or end a run have in common.

Of `SecretsRotate`, for any sites, secrets, apps and bounds: `RotateTypeCorrect`, `AlwaysRecoverable`
(`Recoverable`), `AlwaysOnePending` (`OnePending`), `LeaderIsAlwaysLast` (`LeaderIsLast`), `AllIsAll`
(`AllMeansAll`), `HandedAreAccepted` (`HandedIsAccepted`), and `Refines`: `Spec => RotatesOneByOne`.

**Its argument.** That a promotion leaves no host behind, which is both `Recoverable` and the refinement's
hardest step, needs every user that is not in `run.uses` any more to run with the next value; that needs
Postgres to have taken it first, since a user is not handed what would be refused. `IInv` in
`SecretsRotate_proofs` is `TypeOK`, `Recoverable` and `AllMeansAll` with: at most one secret pending (`One`),
and a run comes to whatever is pending (`RunSound`); a next value is another than the file's and than those
an `--all` list began with (`Fresh`); Postgres takes one of the two values the file names (`Taken`), the next
one by the time users are handed it, and users done with run with it (`HandSound`); a leader that is where
the stage found it has no other user left to do (`Last`). One lemma per action, and the refinement is a
lemma per action too: `WriteNext` is `Begin`, `Hand` and `Restart` are `Hand`, `Promote` is `Promote`, or a
stutter, and all else stutters.

Of `WholeRotation`, for any sites, keys, clients and bounds: `TypeCorrect`, `KeysNamed` (`NoForgottenKey`),
`RotationsKeepWorking` (`OwnStepsKeepWorking`) and `OldSecretsAreGone` (`OldSecretsGone`).

**Its argument.** That a switch leaves a site with what is let in needs the stages before it: `RunKnows` says
that by the grant stage Garage holds the recorded pair, that a run which switches has it let in, that the
sites not in `todo` run with it, and that from the proof stage on every site does. That a rotation which ends
has left nothing old needs the values to be in order (`ValuesFresh`) and a run to be at stages of its own kind
(`RunKind`), since the two commands share the switch. `IInv` is those with `TypeOK` and `NoForgottenKey`.

Of `HostKeys`, for any deployments, keys, edits and stops: `TypeCorrect` and `RespectsHost`
(`HostRespected`).

**Its argument.** A removal takes away the lines its deployment wrote itself. That none of these is the
owner's needs what the run read: `OwnersLeft` says that while a line the owner wrote is there no deployment
claims its key, in its sidecar or in one that a run under way is to write, and that every run under way saw
the line. A run which plans while the line is there plans nothing about the key; one that planned before
it came would break this, which is why the model's owner adds no line by hand (below).

Of `StorageAdd`, for any sites in any order, any of them the cluster at first, any factors and mishaps:
`TypeCorrect` and `FactorsAgree` (`OneFactor`).

**Its argument.** `OneFactor` speaks of Garages that run; what makes it inductive is what is on disk. `IInv`
adds that a stored layout is of its site's factor (`LayoutsFit`), that those which know each other and run,
or will when applied, agree (`MetAgree`), that the configuration's factor is only raised (`NotAbove`), and
for each stage of a reset which sites have been stopped, have had their layout set aside, or have the new
factor (`RunSound`). The sites are taken in the listed order, so a stage needs that a set of sites that is
not empty has a first one, which is proved from the well-foundedness of strict inclusion on finite sets.

And, under `OneAnchor`: `NothingIsMissing` (`NothingMissing`), for any number of stops of runs and of Garages.
`OneAnchor` says that the site listed first was in the cluster and does not stop by itself, and that the
factor is raised once; each part is needed, as the code does not keep the promise without it (findings,
*Storage, another anchor*). The run's own constants satisfy it, which `JoinAssumption` has TLC check.

**Its argument.** A join that ends compares only if its anchor has counted. So the proof is about who has: until
the factor is raised there is no count and the first site leads (`BeforeRaise`); while some site has the old
factor, or none, no node with the new one has a role, nothing is missing, and the first site either has counted
or is as it was (`WhileMixed`), so that every run planned then takes it as its anchor or finds its count. After
that, a first site without a count means that a join has come to its end, the layout is of all sites and
another run cannot apply one that could lose anything (`Rejoined`). `RunKnows` has what a run may rely on in
each stage, and `Layouts` that the first site has the newest layout of the old cluster, with every role in it.

Of `GatewayMove`, for any sites, hostnames, operators and bounds, under `GateReads`: `TypeCorrect`,
`HostnamesServed` (`AlwaysPublished`) and `StragglersKept` (`StragglersServed`). `GateReads` says that the
record gate meets no record that it cannot read; run `gateway_unread` shows what happens otherwise.

**Its argument.** `AlwaysPublished` has to survive a rollback to the old gateway at any moment and an apply
of either site, which stops a Caddy by record and marker. `IInv` adds that a site a hostname points at serves
and has the record (`PointsServed`); that a marker is of records that went, and counts at least as long as a
resolver holds them (`MarkersSound`); that where neither record nor marker is left there are no stragglers
(`NothingLeft`); and what each stage knows of the two sites (`RunSound`).

Of `DeployRecord` as `GatewayMove` uses it, in the same module and also under `GateReads`: `AddsSurvive` (`AddSurvives`), from the
invariant `RInv` (`RecordInvariance`).

**Its argument.** Where several gateways keep the record, a name that is due has *clean* tags on one of them
(`SafeAt`): no copy of the record, on a host or in an update under way, knows one of them as removed, and
every update about to write that saw one of them writes one of them too. Nothing weaker is kept by
compaction, which forgets removals that another update may have read before. A tag is made by one add, so
no other copy has it yet (`Unsent`, `Fresh`). Where one gateway is left the tags need not be clean: the
records that are gone may have known a removal of them. There its own record lists the name, and the two
meet in the record stage's gate, which lets a move go on only when the new gateway lists what the old one does.

Of `SiteChange`, for any data sites, witnesses, declared members, edits and mishaps: `TypeCorrect`,
`QuorumIsKept` (`QuorumKept`) and `WritesAreKept` (`WritesGoOn`).

**Its argument.** A command looks at the clusters once, in `Build`, and then changes them over many steps
while Patroni and the hosts go on. `IInv` says what of that look still holds at each step while no host has
failed since. Which steps a run may have, and that what waits for a replica comes after the replica streams, is
`Planned`. In a removal the voters that stay are all up and there are some (`QuorumSound`), so the set that is
left after `RemoveMember` or `RemoveWitness` has its quorum whatever its size; a promoted learner is up, and one
more voter that is up keeps a majority. `LeaderSound` says who leads: the site until the switch, the site
chosen for it after; that every data site which stays is a copy that runs until one is recreated; and that one
of these does not lead where synchronous mode stays on. So stopping the site's Patroni, or cutting it off, takes
neither the leader nor the last standby. The leader key does not move by itself meanwhile: it is released only
by a host that failed or without a quorum, of which `calm` and `QuorumKept` leave neither. The exception for
a recreated replica is the code's: with one other copy, a strictly synchronous leader waits until it streams.

**Model-checked only.** Liveness: `RekeyFinishes`, `EverySiteLearns`, `RotationFinishes`, `MoveFinishes`,
`KeyRotationFinishes`, `ChangesFinish`, `JoinFinishes`, `ListedGetIn`. And what the runs check of
`PublishedIsHead`, `OwnIsSeen` and `NoStaleOverwrite` beyond the hypotheses of their theorems: removals on
one of two branches, caches that are lost.

## What the models leave out

* Versions made by anyone but the tool: `ConfigStore`'s graphs are honest ones, as `Trust` covers others.
* A second *first* version: in the runs every workstation starts from files shared with the creator or
  from none. The word `partial` guards it in the code; it is planned (below).
* The tree archives and leftovers of `apply`, `config log`, `config status`, the `incoming/` copies a
  refused pull leaves (no command reads them back), progress output.
* In `MeshRekey`: sites declared but not yet brought up, which a run neither writes nor renders; a host
  that restarts (its interface then starts from its file, as a sync would); two runs at once on one
  workstation, which share the secrets file with no lock; a pause by others in the moment between a run's
  check and the saving of the key; edits of a mesh file on its host.
* In `SecretsRotate`: `--replaced` and the retirement of old values at an issuer; apps taken out of the
  configuration; a rotation ended by hand; a mesh rekey beside it; two terminals. The order `--all` takes
  secrets in is left open.
* In `GatewayMove` and `DeployRecord`: records made by hand, or in conflict; the files of a host's owner; the
  dry run of the hand-off; more than two sites in the run; `dns init`; operators whose configuration is
  older than another's; malformed records.
* In `SiteChange`: `--evict`, Garage, HAProxy, DNS and the monitor; the mesh but that a removed site is cut
  off, all at once; the TTL of Patroni's member key; the preflight. Patroni's choice of a Sync Standby is any
  replica that streams, which with several is more than it has: `WritesGoOn` is about there being one.
* In `HostKeys`: a command that stops half way (a key appended and not recorded); two runs of one deployment; lines
  that the owner adds by hand, of which a run that claims the key takes every one it saw; the names of keys
  and their changes; several login users.
* In `StorageAdd`: capacities and their changes; keys and buckets, which are `storage init`'s; the media routes
  and the monitor; the smoke test at the end; a dry run; sites taken out. Objects are all there or some are not.
* A crash inside one write: the code writes state files and the operator's files by rename.
* Most of the code by lines: parsing and validating the configuration, rendering, the wording of plans and
  problems, and commands on a host that may be repeated without harm. They keep no state between commands,
  and their properties are those of text; the models start where a command has its decisions made of
  them and begins to write. So the map names a small part of the lines and most of the ordering.

## Plan

Done: `Trust` and `Verdicts`, `ConfigStore`, `MeshRekey`, `SecretsRotate` with its abstract specification, `WholeRotation`,
`DeployRecord`, `GatewayMove`, `SiteChange`, `StorageAdd`, `HostKeys`. Left, in this order; modules are written with `CONSTANTS` for
parameters, one action per step and no `RECURSIVE` operator, so that they can be proved about.

1. Proofs: `PublishedIsHead` and `NoStaleOverwrite` where keys are removed and none returns.
2. The claims on a host in `registry`, under flock, and the grant record's compare-and-swap with bounded retries.
3. An abstract `VersionStore` (a graph that only grows, of which each site holds a closed part) that
   `ConfigStore` implements, and an abstract `Rekey` that `MeshRekey` does, by refinement.
4. `SecretsMerge` and the configuration's three-way merge, as pure operators against a reference definition;
   two first versions in `ConfigStore`; Garage's part of `SiteChange`.
