# akropolis in TLA+

akropolis (`akro`) is a command-line tool that an operator runs on a control
machine.  It provisions an authentik site over SSH, on one node or on three
(etcd, Patroni, HAProxy, authentik, nginx with keepalived), and later operates
it: `provision`, `shutdown`, `start`, `status`, `clean`, `monitor`, `update`.
It is sequential Python.  What makes it hard is not in one process: a command
may be cut short at any step and run again, the nodes crash, reboot and fail
over by themselves between any two SSH calls, deploy hooks run on a node with
no operator near, and the only memory between two commands is one JSON file.

## Inventory

| Part (source) | State it keeps | Operations | How it interacts | What makes it correct |
|---|---|---|---|---|
| State file (`state.py`) | `<site>.json`: status of each phase, values generated once per cluster | `mark_phase`, `get_or_generate`, `save` | every phase, `shutdown`/`start`, `clean` (archives it) | never half written; a value given to a phase is on disk; one value per key |
| Phase runner (`phases/base.py`, `cli.py`) | statuses, through the state file | plan, confirm, apply, verify; `--replay`, `--only` | runs every phase in order | done means built; order respected; nothing redone unasked; re-running finishes |
| Clean (`phases/clean_phase.py`) | the nodes' services and data | strip, reset the firewall, archive the state | shares the state file with the runner | never leaves a done record over stripped nodes |
| Preflight, base setup | host packages, firewall | probes, idempotent commands | - | sequential; not modelled |
| TLS material (`tls_phase.py`, `nginx_keepalived_phase.py`, `certbot-deploy-hook.sh.j2`) | pair on each node, certbot lineage, pending flag | placeholder, import, ACME switch, renewal hook | nginx on three nodes, keepalived's address | every proxy serves the pair the leader holds, the real one after the switch |
| etcd, Patroni, HAProxy phases (`etcd_phase.py`, `patroni_phase.py`, `haproxy_phase.py`) | compose and unit files, PGDATA, Patroni's roles | etcd down/up, bootstrap leader first, followers one by one, role and database, HUP | authentik's database; Patroni moves the primary by itself | initialised once, by the leader; one clone at a time; done means the database is there and the services are current |
| authentik phase (`authentik_phase.py`) | rendered files, containers, schema, pinned tag | bootstrap or rolling pass | compose units on the nodes, one database | one migration at a time; one node away at a time; done means converged |
| shutdown / start (`authentik_lifecycle.py`) | containers, `authentik-shutdown` in the state file | stop everywhere; start node by node, gated | restore, authentik phase | start only after a shutdown; no node left behind |
| Restore (`restore_phase.py`) | dump, database, containers | stop, upload, drop/create, load, re-own, worker alone, servers | Patroni's leader, the compose units | quiet while swapping; one migration; done means restored |
| Single node: authentik, restore, shutdown / start (`authentik_single_phase.py`, `restore_single_phase.py`, `authentik_lifecycle.py`) | one compose project with PostgreSQL in it, its systemd unit, the pinned token | push and restart; stop, drop, load, worker, server, re-mint | the unit at every boot, `akro start` outside the unit | quiet while swapping; done means restored and current; the token outlives the restore |
| Single node: nginx (`nginx_single_phase.py`) | one pair of files, a site file, the lineage, a deploy hook | placeholder or import, install, push, `nginx -t`, reload, certbot, hook | certbot's timer runs the hook beside the session; nginx comes back with the node | nginx serves what is on the disk; done ACME means the issued pair; nothing trusted gives way to a placeholder |
| LDAP reconcile (`ldap_reconcile.py`) | the identifier of each linked account, in authentik | search, compare, ask, compare and write, look again | the directory, authentik's own sync, other operators | exit 0 tells the truth; nothing written over what changed since the look |
| Dashboard (`monitor/dashboard.py`) | last result per probe, one dot for the site | refresh by timer and by key, each in a thread of its own | probes of every service; the screen's thread applies the results | a screen is one refresh's answers; its dot is true; in the end it is the present |
| Log viewer (`monitor/logs.py`) | one pane of text | fetch | - | output; not modelled |
| Self-update (`update.py`) | the installed binary | download, verify, replace | - | never an unverified binary |
| Configuration, wizard, transcript, changelog, licences | one document or one output file | validate, format | - | no interaction; not modelled |

The behaviours no unit test here reaches, line by line, are the `hazards` of
`PROJECT.json`; each names the properties that watch it.

## The modules

### RecordData, SiteRecord, StateFile - the site's record

`RecordData` is the content of the file and the pure changes of it (`Marked`,
`Pinned`).  `SiteRecord` is what the file promises: a record that changes by one
whole change at a time, a generated value never being replaced within one
cluster's lifetime.  `StateFile` is `state.py`: a session reads the file once
(`Open`), changes its own copy and writes it in three steps that a crash can
separate (`BeginSave` truncates `<site>.tmp`, `Dump` writes it, `Rename` moves
it over the file).  `handle` follows what an open file descriptor names after
another session has renamed the file under it, because there is one temporary
name and no lock.  `StateFile` refines `SiteRecord` under the mapping
`rec <- DiskView`, what the next command would read.

### PhaseRunner - provision, replay, only, clean

`status` is the state file; `built` is the truth on the nodes, which the code
never sees.  `Skip`, `Decline`, `Accept`, `ApplyRaises`, `ApplyReturns`,
`VerifyPasses`, `VerifyFails` are the branches of `run_phases` in order; the
commands choose `sel` and `named`.  An `apply` may return with a phase half
built, since many of its steps only record a failure and go on; `verify` is
assumed to tell a built phase from a half-built one.  `Kill` is Ctrl-C, which
`except Exception` does not catch: nothing is recorded.  `reopened` is a history
variable: phases recorded done on which an apply or a clean has begun since.

### Pipeline - what the runner promises its phases

`Pipeline` is the contract of `run_phases` without what the phases do: one phase at
a time is under way, over phases that are done or were skipped; it ends with its own
entry written (`Verified`, `Failed`, `Declined`), or with none (`Cut`); a re-apply
may pin a version meanwhile (`Pin`); entries are taken back only when a session
starts.  `--only` stands beside the order (`Only`).  `PhaseRunner` refines it
with `entry <- status`, and so does every module that runs phases of its own
(`ImplementsPipeline`), each with its own records and the phase its program
counter is in.

### AuthentikRollout - the authentik phase on three nodes

A version stands for everything rendered.  `Push` writes the files node after
node and remembers in memory who changed; `Restart`, `GatePasses`, `GateFails`
walk the order of the path chosen at `Begin`; `PinTag`, `VerifyNode`, `Verdict`
follow.  The nodes move by themselves: compose waits for the worker and gives
up on the server (`ComposeGivesUp`) while the worker goes on migrating, a
container that exits stays down (`Crash`), a rebooted node brings up whatever is
on its disk (`Reboot`).  `excused` and `behind` are history variables: nodes
whose trouble is not the pass's doing.

### AuthentikService - shutdown, start, restore over one database

Containers per node, the database's condition, Patroni's leader, dumps left in
`/tmp`, and the two records (`authentik-shutdown`, `restore`).  One action per
step of `RestorePhase.apply` with the failure of each, the loops of shutdown and
start, and a replay of the authentik phase (in detail in `AuthentikRollout`).
Between any two steps a node reboots, the leader moves, or the command is cut; a
call that is cut leaves any part of its work behind (`CutShort`): some of the dump
on the node, the database dropped and not created (`"gone"`), loaded in part, or
all of it done and not reported.
`woken` is a history variable: nodes that came up without the command that is
running.

### RestoredDatabase - what a restore promises

One database, whether a swap is on, whether anybody who was brought up or left up
uses it, and whether the phase is recorded done.  `Drop`, which may not come to its CREATE,
and `Load` need a swap and nobody there; `Finish` needs the migrated dump; containers come and go in between
(`Serve`) and the first of them migrates what it finds.  `AuthentikService` (whose
`users` are the nodes that are up, but for those in `woken`) and `SingleSite` (its
server and worker) refine it: the two restore phases are different code with one
promise.

### CertDistribution - the certificate on three nodes

A certificate is a kind (self-signed, staging, production, imported) and a
number; the chain and the key are separate files, so that two writers can leave
a node with halves of two pairs.  The session walks the tls phase (`Keep` or
`Generate`, `ReadChain`, `ReadKey`, `PushChain`, `PushKey`, `Reload`,
`StageAcme`, `VerifyTls`; `ReadImport` for an imported pair) and the
nginx-keepalived phase (`NginxUp`, the gate `GatePasses` node after node and
`VipAnswers`, `Issue` or `KeepLineage`, `RunHook`, `Unpend`, `CheckNode` for each
node and `VerifyNginx`).  The deploy hook is a process of its own
(`HookChain` to `HookBreaks`), started by the finalization or by certbot's timer
(`Renew`), beside a session or after it was cut.  nginx loads the files when it
starts (`NginxRestarts`) or is told to, and refuses two that are not a pair.
`crossed` and `unread` are history variables: a hook has written during the
session; a reload failed or was cut off.  Who holds the keepalived address only
decides whether an issuance succeeds, so it is a free choice of `IssueFails`.

### ClusterBootstrap - etcd, Patroni and HAProxy

One session walks the three phases over the nodes: `PushEtcd`, `DownEtcd`,
`UpEtcd` (compose recreates what has changed), `EtcdHealthy`; `Install`,
`StartLeader` and the gate `Promoted`, `StartFollower` and the gate `Joined` for
each follower, `CreateRole`, `CreateDb`, `VerifyList`, `VerifyApp`; `PushHa`,
`LoadHa`, `VerifyHa`, each with the failure the code records or raises
(`SqlRefused` is a primary that does not take a statement).  External
are etcd (it answers while a majority of its members runs), Patroni (`Initialise`,
`Follow`, `Replicate`, `Promote`, `Demote`, `Switchover`) and HAProxy (it reads
its file when it starts or is told to).  Nodes go down and come back with
whatever is enabled on them.  `named`, `owed` and `lost` are history variables:
the phases of the latest `--replay`, the service a failed or cut step left
behind its file, and that a node was promoted without what the primary had.

### SiteDatabase - what the patroni phase promises

One database, whoever keeps copies of it: made once, by the bootstrap leader; only
gaining (`Create`), unless a node was promoted without everything (`Lose`, `Shrink`);
handed over with role and database in it.  `ClusterBootstrap` refines it under
`content <- ` the union of what the nodes hold.

### SingleSite - authentik, restore, shutdown and start on one node

Server, worker and PostgreSQL are containers of one compose project under one
systemd unit.  `disk` is `/opt/authentik`; `runs` is what each container was
made from (`tag` for .env and the compose file, `art` for the branding files,
which are bind mounts compose does not compare).  `unit` is what systemd
believes: `Restart` is `down` and `up -d` only for a unit that is started.  The
authentik phase is `Push`, `Restart`, `Gate`, `VerifyAuth`; the restore is `Stop`
to `VerifyRestore`; `Halt` and `StartUp` are `akro shutdown` and `akro start`,
which go past the unit.  A call that is running when the node reboots raises: the
connection is not opened again.  A call that is cut leaves any part of its work
behind (`CutShort`), as in `AuthentikService`.  `unminted` is a history variable.

### LdapReconcile - the operator's look, question and write

The command reads each source (`Search`, `ReadRows`), asks (`Confirm`), runs the
second script row by row (`Skip`, `Compare`, `Save`: the comparison and the write
are two statements) and looks again (`BeginVerify`, `Verdict`).  Meanwhile the
directory reissues an identifier (`Reissue`), a sync or another operator rewrites
a row (`Rewrite`), a source goes down, the command is cut.  `touched`, `unseen`
and `raced` are history variables.

### Monitor - the dashboard

A refresh (`Start`) is a thread of the screen, one per timer tick and key press,
whether or not others still run.  Each probe answers for some moment of the
thread's `span`, the worlds there have been since it began; Patroni's answers are
awaited first, and the node that led is asked for its slots afterwards
(`FindPrimary`, then `Gather`), so that the two may be of different moments.  That
query has a connect timeout and no other, and may stay away (`Hang`).  `Apply`
replaces every panel in one call on the screen's own thread and computes the
central dot from what it was given: `CentralHa` is the threshold over the failures
of each service, `CentralSingle` the worst of four dots.  The world (services up or
not on each node, Patroni's roles, the address, worker and queue as the API reports
them) changes between any two steps.  `during` is a history variable: the worlds
there were while the refresh on the screen ran.

### SingleProxy - nginx on one node

One pair of files, a site file, and nginx, which reads them when it starts or is
told to (`served` is what it runs on).  `site` is the file the phase pushes and
`conf` the one that is enabled: nginx's default site until ours is linked.  The phase is `KeepCert`, or `MakeKey` and
`MakeChain`, or `ImportChain` and `ImportKey`; `InstallNginx`, `PushConf`, `LinkSite`, the test,
`ReloadNginx` or `NginxUnchanged`; for ACME `CertbotKeeps` or `CertbotIssues`,
`PushHook`, `RunHook`; `VerifyProxy`; each with the failure the code records or
raises.  `dirty` is the memory of `conf_changed or cert_changed`.  The deploy hook
(`HookChain` to `HookFails`) runs once in the session and at every renewal
(`Renew`); certbot's lock keeps an issuance and a renewal apart.  A reboot stops
session and hook and starts nginx on what it finds.  `owing` and `missed` are
history variables: a reload failed or was never asked for; the latest hook left a
file as it was.

How the modules meet: the statuses of `AuthentikRollout`, `AuthentikService`,
`ClusterBootstrap`, `SingleSite` and `SingleProxy` are entries of the record `StateFile` keeps
(`pending` of `CertDistribution` too), set by the branches `PhaseRunner` models.
Every module above takes a status change as one step because the proof of
`StateFileProofs!Implements` allows it.  What each takes for granted of the runner
(which phase may begin, what it may write, what a kill leaves) is stated once, in
`Pipeline`: `PhaseRunner` is proved to allow nothing else, and each of the six
modules is proved to do nothing else to its entries (`RunsInTurn`, `RunsAsRunner`,
`ProxyRunsAsRunner`).

## Runs

| Run | Module | Bounds | Shows |
|---|---|---|---|
| `state_one` | MCStateFile | one session, 2 phases, 2 keys, 2 values | crash anywhere in a save: the file is whole, handed values are durable, SiteRecord is refined |
| `runner` | MCPhaseRunner | 3 phases (one optional, one read-only, one pinning), 1 upset, fairness | done means built, order, nothing redone unasked; plain re-runs finish the pipeline; Pipeline is refined |
| `rollout` | AuthentikRollout | 3 nodes, leader in the middle, 2 versions, 1 fault, 1 kill | one migration, one node away, the others find a migrated schema, convergence |
| `service` | AuthentikService | 3 nodes, 1 reboot, 1 leader move, 1 kill | lone migration, no dump left where it was loaded, start strands no node; RestoredDatabase is refined (quiet swap, done means restored) |
| `service_fair` | AuthentikService | 2 nodes, 1 leader move, fairness | replaying restore succeeds |
| `certs` | CertDistribution | 2 nodes, 3 certificates, 1 edit, 1 break | finalized means served; done means distributed; nothing left unread |
| `certs_flip` (violation) | CertDistribution | 3 nodes, 3 certificates, 1 edit | the documented replay leaves the staging certificate |
| `cluster` | ClusterBootstrap | 3 nodes, leader in the middle, 2 upsets | one initialisation, one clone at a time, the database where the primary is, etcd and routers run what is on disk; a replay leaves a formed cluster alone while the bootstrap leader leads it; SiteDatabase is refined |
| `single` | SingleSite | 2 upsets, fairness | done means current, the token survives, re-running converges; RestoredDatabase is refined |
| `ldap` | MCLdapReconcile | 2 sources, 3 accounts (two share a name), 2 identifiers, 2 moves, fairness | exit 0 tells the truth, an earlier change is kept, re-running reconciles |
| `monitor` | Monitor | 3 nodes or 1, 2 refreshes at a time, 1 change, 1 hung query, fairness | slots and leader of one screen agree, the dot is true, the screen ends up current |
| `proxy` | SingleProxy | 5 providers, 7 pairs (one imported), 2 troubles, fairness | nginx serves the disk, done ACME holds what certbot holds, no downgrade to a placeholder, re-running finishes but for two states |

Each module has a type invariant.  All of them are proved (`TypeCorrect`,
`MonitorTypeCorrect`, `ProxyTypeCorrect`) and not repeated in the runs, nor are
`SwapIsQuiet` and `DoneIsRestored` of `AuthentikService` and `SingleSite` (proved, and
part of what `ImplementsRestore` checks) and `Monitor!NeverGoesBack`.

The bounds and why they are enough.  Three nodes is the only HA fleet the
configuration accepts; the bootstrap leader is the second node, so that "leader
first" and "fleet order" differ.  Two versions give an upgrade and the state
before it.  One fault, kill, reboot or leader move may strike at every step of
every command and is followed by any number of further commands; the properties
need one to go wrong.  `MaxUpsets` (and `MaxMoves` of `ldap`) counts whatever may
go wrong: one in `runner`; two in `cluster`, `single` and `ldap`, so that an upset
may interrupt the recovery from another.  In `ldap` the accounts are one that two
sources share and one beside it; two identifiers are the old and the new one, and
the configuration starts each account's directory with the same one because
identifiers are only ever compared within one account.  Three phases give an optional one with a neighbour on each side.  In
`certs` one node beside the leader is enough for a copy that stops half way and
for a session and a hook to cross; three certificates are a placeholder, the
issued one and its renewal, or either side of an edit.  In `monitor` two
refreshes are enough for one to overtake the other, and one change makes answers of
two moments; the site may begin in order, with etcd on one node only (every other
service is counted by the same expression), or without a primary, so that one
change reaches each colour of the dot.  In `proxy` five pairs may be in use at once
(chain, key, lineage, nginx, the one being written), one more is fresh and one is
imported.  What is counted
(`troubles`, `hangs`, `changes`, `upsets`, `faults`, `kills`, `reboots`, `moves`, `MaxVersion`, `issued`, `edits`,
`breaks`) is
bounded in the guards, and the theorems hold for every bound.

## Fairness

Safety properties are checked without any.  For liveness, every step of a
session ends one way or the other because each remote call has a timeout (weak
fairness on the steps).  The operator runs the command again, and what is tried
again and again succeeds some time (strong fairness on the success branches):
nothing in the code guarantees it, it is what "re-run until it passes" means,
and without it every deployment could fail for ever.  No fairness is given to
crashes, reboots, kills, replays, cleans or declines; they are bounded.

`ldap`: the steps of a command are weakly fair (each remote call has a timeout), a
source that is down comes back, and the operator who runs the command over every
source some time says yes to all.  `single`: the same for its steps and for a
container that can become healthy; its property further assumes that PostgreSQL
runs again and again and that the pinned token works again and again, because no
step of the code restores either of them (see below).

`monitor`: `set_interval` never stops, so some refresh is started again and again;
every probe but a hung slots query has a timeout, and the screen takes its calls.
A query that hangs need never come back.  `proxy`: each command ends (timeouts);
the operator provisions until the phase is done (strongly fair: the session must be
over first), and certbot, whose lock a renewal may hold, answers some time.

## Proofs

Every theorem is for all values of the constants, under the named assumptions of
the module (`FileAssumption`, `RunnerAssumption`, `RolloutAssumption`,
`ServiceAssumption`, `CertAssumption`, `ClusterAssumption`, `LdapAssumption`,
`SingleAssumption`, `ProxyAssumption`, `MonitorAssumption`: bounds are naturals, the leader is a node, the markers are not
records or identifiers, every account has a source, there are pairs enough for a
fresh one).  Each proofs module states an inductive invariant `IInv`, proves
`Init => IInv` and one lemma per group of actions, and derives the properties.

* `StateFileProofs` assumes `OneSession`.  HandedIsDurable is not inductive by
  itself: it needs that a ready session's copy is what is on disk, that in a save
  the temporary file is torn until it is dumped and then equals the copy, and that
  the copy extends the disk.  `Implements` is the step simulation: `Rename` and
  `Archive` map to the two actions of SiteRecord, everything else stutters.
* `PhaseRunnerProofs`: DoneIsBuilt with the fact that a phase under way that is
  still recorded done has been reopened; PipelineOrder with the same statement for
  the step before a phase is accepted.  RedoneOnlyIfAsked is an action property
  from that invariant.
* `AuthentikRolloutProofs`: `Pushed` (what the files hold at each stage), `Seen`,
  `Attended` (nodes not yet, or already, dealt with are healthy or excused) and
  `Converging`.  The lemmas OrderInNode and OrderOnto say that both orders visit
  exactly the nodes.
* `AuthentikServiceProofs`: `Quieted` (nodes stopped so far are off or woken),
  `Stored` (which condition of the database each stage starts from; CutInv says it
  of a call that was cut), `Dumped`
  and `Walked` (nodes passed by start are up).

* `CertDistributionProofs`: `Drawn` (what a session no hook crossed has pushed so
  far), `Owing` (a node serving something else than its files is unread, or the
  session or the hook still owes it a reload) and `Swapping` (while the
  finalization waits, the nodes the hook has passed have and serve the lineage,
  which nothing can renew meanwhile because it is not near its expiry).  AfterAll
  says that the hook's order visits every node.

* `ClusterBootstrapProofs`: `Begun` (who has data, and who may run), `Gated` (a
  follower is enabled only after the leader has data and the followers before it
  have cloned: the gates of the start loop, which also hold after a cut session
  because an enabled unit stays enabled), `Leads` (one primary, which has what
  anybody has unless something was lost at a promotion), `EtcdInv` and `HaInv`
  (what the loops have passed).  OneCloneAtATime is a cardinality and follows from
  Gated through the library's facts on finite sets.  `ReplaysQuietly` is an action
  property from the same invariant: over a formed cluster every step of the phase
  is idempotent (IdempotentSteps) and every failing branch contradicts what Formed
  says (NothingToFailOn).
* `SingleSiteProofs`: `Ordered` (a phase that runs is not recorded done, and a
  restore runs over a done authentik phase), `Stored` (the database at each step, and
  after a cut: CutData, CutInv),
  `Current` (from the restart on, what runs was made from the disk) and `Minted`.
  Current is needed from the gate on, not only under a done record: a container
  started between the restart and the verify must count.
  The same module proves the proxy's invariant `ProxyInv`: `Remembered` (what the
  session holds in memory at each step, and what it has pushed by then), `Told` (a
  running nginx that serves something else than the disk is owed a reload by the
  session, by the hook, or for good) and `Swapped` (from the issuance on, the
  lineage is of the environment asked for, and what the hook has copied so far is
  its).  `TrustIsKept` needs `Guarded` beside it: a chain under a trusted served
  certificate is one the phase keeps (`Kept`), a placeholder's pair is nobody
  else's (`Apart`), and one that came about over a trusted certificate, because a
  hook ran between the two writes of openssl, is one nginx refuses (`Unloadable`).
* `OperatorProofs`, about the two read-mostly commands.  `LdapReconcile`: `Heard` (what the search found is still so, but for
  accounts others have touched) and `Seen` (every account of a source already read
  has a row that shows both sides); the verdict follows from Seen and from the
  rows being Same.
  `Monitor`: the answers a refresh holds were each told by a world of its span, there
  is at most one leader in any world, nobody streams where there is no primary, and
  what the screen shows was told by worlds of `during`.  SlotsOfShownLeader follows
  at the place where the slots are put beside the leader; VerdictIsTrue by counting
  failures probe by probe over the worlds that told them.  `StaysCurrent` is the
  action property behind SettlesCurrent: once every refresh under way began after
  the last change, a current screen is only replaced by a current one.
* Refinements.  Each is a step simulation over the inductive invariant of its module,
  action by action.  `OneDatabase`: replication, clones and failovers change no
  union of contents but by `Lose` and `Shrink`.  `OneSwap`, twice: every step of apply is a step of the swap,
  and every reboot, exit and kill is a `Serve`; it needs Quieted and Stored
  (`AuthentikServiceProofs`), Ordered and Stored (`SingleSiteProofs`).  `RunsInTurn`
  needs PipelineOrder, for what `Accept` finds done; `RunsAsRunner` needs, of each
  module, that a phase under way is not recorded done.

Only model-checked: the liveness properties (ResumeConverges, RestoreConverges,
SettlesCurrent, ProxyConverges, and Converges of `LdapReconcile` and of
`SingleSite`), which need fairness and ENABLED, and the `violation` run, of course.
Every safety property of every passing run is proved.

## Where code and words part

The `violation` run above is one, with the line quoted in `findings`.  Others are
stated in the modules and are not among the runs; a configuration with the same
constants and the property shows each of them:

* `ClusterBootstrap!ReplayIsNoOp` ("Re-running a completed phase must be a no-op or
  an explicit diff", `state.py:5-6`): after a failover the gate of a replay asks the
  bootstrap leader, now a healthy replica, for `/primary == 200`
  (`patroni_phase.py:130`), raises after 300 s and records the phase failed.
* `AuthentikRollout!DoneMeansConverged` (the tag of "this phase's last successful
  apply", `authentik_phase.py:71`): a session killed after the push leaves new files
  and old containers; the retry finds no file changed (494), skips the nodes
  (503-505), passes verify and pins the new tag.

* `AuthentikRollout!NeverRacing` ("racing migrations are structurally prevented",
  README.md:402): a rolling gate fails while the worker still migrates, and the
  retry, which finds a node without a server, takes the bootstrap path and starts
  the leader beside it (`authentik_phase.py:522`).
* `AuthentikService!StaysDown` ("left DOWN on purpose", `restore_phase.py:271`): the
  unit stays enabled, so a reboot brings authentik up on a half-loaded database.
* `LdapReconcile!SkippedNotClobbered` ("skipped rather than clobbered",
  README.md:629): a sync between `first()` and `save()` is overwritten.
* `SingleSite!DoneHasBranding` ("a full `systemctl restart`, which recreates the
  containers", `authentik_single_phase.py:106`): a failed restart leaves the unit
  stopped, `akro start` brings the containers up outside it, the logo is edited;
  the restart of the re-apply is then a plain `up -d`, which recreates nothing.
* `StateFile!PinnedOnce`: two sessions at a time pin two values for one key; no
  lock is taken (`state.py:52`).  The proofs assume one session.

Met while modelling, with no property of their own: a required phase that failed
and is then declined leaves its half-applied changes behind a "declined"; an
optional restore that failed may be declined and the hand-off follows on
half-restored data (`base.py:159`); a rolling pass that repairs a failed node
begins with another one, which leaves one node serving where
`authentik_phase.py:16` speaks of two; a dump uploaded to a Patroni leader that
then moves stays on the old one (`restore_phase.py:253`); a worker that exits
beside a running server is never recreated by the re-apply that
`authentik_phase.py:39-40` offers; `start` after a shutdown and a replay runs on
the live stack its docstring says it refuses (`authentik_lifecycle.py:43`),
harmlessly.  On a single node, a postgresql container that exits after the
authentik phase was recorded done is started by no later plain provision, and the
restore, which enters it with `docker exec`, fails each time; a token that died
with a dropped database makes `--replay authentik` fail its verify until a restore
completes; `ldap-reconcile` asks its second look by user name alone, so that an
account the operator declined in one source makes a command that repointed its
namesake in another exit 1.

On three nodes, beside the certificate: a session killed between push and reload is
retried with no file changed, and nginx goes on serving the old pair
(`tls_phase.py:172`; `unread` is what ServedIsInstalled excuses).  A hook cut between
its two installs leaves a chain with another key, which the tls phase keeps and
fails on each time.  Nothing removes the hook when the provider changes: the old
lineage's renewal overwrites an imported pair (`nginx_keepalived_phase.py:306`).
Changed files take etcd down node after node without waiting for the member to be
back: two may be away at once and the primary steps down (`etcd_phase.py:41`).  A
psql load that exceeds its budget raises before `rm -f`, and the dump stays
(`restore_phase.py:265`).

The single-node proxy, against "a re-run skips completed phases and resumes at the
frontier" (README.md:237).  Cut between the push of the site file and the first
reload, or after a first link that failed and was only recorded (172), every later run finds the file unchanged and nginx running, says "nginx
unchanged" and fails its verify (`nginx_single_phase.py:182`; Unloaded).  A key of
another pair beside a valid certificate is kept, since the key is not looked at, and
`nginx -t` fails each time (201; Torn).  "placeholder swapped for issued cert" is
recorded although a copy failed (341).  Provider self_signed keeps a staging or an
issued certificate it finds; the hook of an old lineage overwrites an imported pair
at its next renewal; near its expiry an issued pair gives way to a placeholder until
certbot has answered.

The dashboard.  Overlapping refreshes may put older answers over newer ones, under
a later "last refresh" stamp, until the next one.  The central dot does not know of
the address nor, on three nodes, of stub_status, and missing workers or a failed
queue count as one failure of the three it takes to be red
(`dashboard.py:1284-1308`).  A site whose primary moves during a refresh may show
two leader lines, or none.  README.md:691 has yellow for "partial backends up",
which HAProxy's panel shows as in order.

## Not modelled, and why

Of the dashboard: the wording and layout of the panels, HAProxy's backend counts,
the timeline history call and the quit key; the log viewer, which is output.  A configuration whose API
token is blank, which `dashboard.py:466` reads as none, is not among `Configs`: the
one the handoff writes carries the token (`handoff_phase.py:157-163`); with a blank
one the HA dot compares a string with 0 (1294-1297) and the screen's update raises.
Of the single-node proxy: the maintenance page, changes of the host name and of the
addresses that may read stub_status (`WantedConf` tells apart what changes with the
provider only), `acme.force_renewal`, and the packages' installation failing
(BreakOff stands for it, as for an authentik that does not answer the verify).  Self-update runs
straight through in one process: download, verify, replace.
Formatting, logs, the wizard and configuration parsing hold no state that
outlives a call.  SSH is modelled as its callers see it: a call ends or raises.
The probes of `docker ps` are truthful.  Of three nodes: provider none, under which
the tls phase writes nothing and no certificate is served; and a hook run by hand
that outlives its session while the next session comes to run it again (`RunHook`
waits for it to end).  A verify query that is refused is a verify that fails, which a
cut stands for.  Of one node: a site without `restore.sql_file`, whose restore phase
only records that there is nothing to do.  On three nodes branding, e-mail
settings and token minting are left out: they change neither containers nor schema;
`SingleSite` has the branding files and the token.  `--only` is in `PhaseRunner` alone.  File permissions are left out.

## Plan

1. (done) StateFile with SiteRecord, PhaseRunner, AuthentikRollout,
   AuthentikService, and their proofs.
2. (done) CertDistribution and its proofs.
3. (done) LdapReconcile and its proofs; Monitor (results of refreshes out of order,
   the site's verdict), and its proofs.
4. (done) ClusterBootstrap and its proofs; SiteDatabase, "one cluster, initialised
   once", and the refinement; RestoredDatabase for both restores.
5. (done) SingleSite, SingleProxy and their proofs.  Left: self-update.
6. (done) Composition by contract: Pipeline between PhaseRunner and the modules that
   run phases.  Left: contracts for the rolling pass (at most one node away) and for
   the certificate (every node serves one pair), as refinements.
