--------------------------- MODULE ClusterBootstrap ---------------------------
(***************************************************************************)
(* The database side of an HA site: the etcd, patroni and haproxy phases    *)
(* (phases/etcd_phase.py, phases/patroni_phase.py, phases/haproxy_phase.py) *)
(* run in order, killed and run again, on nodes that go down, come back and *)
(* move the PostgreSQL primary by themselves.                               *)
(*                                                                          *)
(* etcd, Patroni and HAProxy are external: of etcd, that it answers while a *)
(* majority of its members runs, and keeps what it was told; of Patroni,    *)
(* that one node initialises a system, the others clone the primary's data, *)
(* and a node is promoted only when there is no primary; of HAProxy, that   *)
(* it reads its file when it starts or is told to.                          *)
(***************************************************************************)
EXTENDS Integers, FiniteSets

CONSTANTS
  N,          \* number of nodes, in the order of the fleet
  Leader,     \* the node the site file calls bootstrap_leader
  MaxUpsets   \* bound: edits of the site file, nodes going down, switchovers of
              \* the primary, commands that fail and sessions cut short, together

Nodes == 1..N
Followers == Nodes \ {Leader}

ASSUME ClusterAssumption ==
  /\ N \in Nat
  /\ Leader \in Nodes
  /\ MaxUpsets \in Nat

Phases == {"etcd", "patroni", "haproxy"}
App == {"role", "db"}       \* the authentik role and database
Versions == 0..(MaxUpsets + 1)

VARIABLES
  status,     \* the phases' entries of the state file
  named,      \* history: the phases the latest command names in --replay
  pc, k,      \* where the session is, and the node its loop has reached
  chg,        \* push_file's answer, in memory until the service is told
  want,       \* version of what the site file renders to
  on,         \* nodes that are up
  ecomp,      \* /opt/etcd/docker-compose.yml on each node (0: absent)
  etcd,       \* version the etcd container was created from (0: none)
  installed,  \* nodes with PostgreSQL, Patroni, its configuration and unit
  unit,       \* nodes where patroni is enabled
  role,       \* what Patroni does on each node
  data,       \* what the node's PGDATA holds
  init,       \* who initialised the system, as etcd remembers it (0: nobody)
  hafile, ha, \* haproxy.cfg, and the version the running haproxy has loaded
  owed,       \* history: <<service, node>> a failed or cut step left behind
  lost,       \* history: a node was promoted without all the primary had
  upsets

record == <<status, named, want>>
session == <<pc, k, chg>>
etcdVars == <<ecomp, etcd>>
pgVars == <<installed, unit, role, data, init, lost>>
haVars == <<hafile, ha>>
vars == <<record, session, on, etcdVars, pgVars, haVars, owed, upsets>>

Init ==
  /\ status = [p \in Phases |-> "pending"]
  /\ named = {}
  /\ pc = "idle" /\ k = 0 /\ chg = FALSE
  /\ want = 1
  /\ on = Nodes
  /\ ecomp = [n \in Nodes |-> 0] /\ etcd = [n \in Nodes |-> 0]
  /\ installed = {} /\ unit = {}
  /\ role = [n \in Nodes |-> "off"]
  /\ data = [n \in Nodes |-> {}]
  /\ init = 0
  /\ hafile = [n \in Nodes |-> 0] /\ ha = [n \in Nodes |-> 0]
  /\ owed = {} /\ lost = FALSE
  /\ upsets = 0

-----------------------------------------------------------------------------
(* What the services answer.                                                *)

EtcdUp == {n \in on : etcd[n] # 0}
Quorum == 2 * Cardinality(EtcdUp) > N
Primaries == {n \in on : role[n] = "primary"}
Streaming == {n \in on : role[n] = "replica"}

-----------------------------------------------------------------------------
(* The session: run_phases over the three phases.                           *)

Entry == [etcd |-> "etcdPush", patroni |-> "install", haproxy |-> "haPush"]

\* Where a session goes next when the statuses are st: the first phase that is
\* not done, or nowhere.
Enter(st) ==
  /\ pc' = IF st["etcd"] # "done" THEN Entry["etcd"]
           ELSE IF st["patroni"] # "done" THEN Entry["patroni"]
           ELSE IF st["haproxy"] # "done" THEN Entry["haproxy"] ELSE "idle"
  /\ k' = 1
  /\ chg' = FALSE

\* An event of the environment or of the operator that the model bounds.
Upset == upsets < MaxUpsets /\ upsets' = upsets + 1

Stop == pc' = "idle" /\ k' = 0 /\ chg' = FALSE

\* provision, or provision --replay: the named phases are marked pending first.
Provision ==
  /\ pc = "idle"
  /\ named' \in SUBSET {p \in Phases : status[p] = "done"}
  /\ status' = [p \in Phases |-> IF p \in named' THEN "pending" ELSE status[p]]
  /\ \E p \in Phases : status'[p] # "done"
  /\ Enter(status')
  /\ UNCHANGED <<want, on, etcdVars, pgVars, haVars, owed, upsets>>

Passes(p) ==
  /\ status' = [status EXCEPT ![p] = "done"]
  /\ Enter(status')

Fails(p) ==
  /\ status' = [status EXCEPT ![p] = "failed"]
  /\ Stop

\* A loop over the fleet moves on to the next node, or to what follows the loop.
Advance(loop, after) ==
  /\ IF k < N THEN pc' = loop /\ k' = k + 1 ELSE pc' = after /\ k' = 1
  /\ chg' = FALSE

PhaseOf(where) ==
  CASE where \in {"etcdPush", "etcdDown", "etcdUp"} -> "etcd"
    [] where \in {"install", "startLeader", "promotion", "startFollower",
                  "joining", "createRole", "createDb"} -> "patroni"
    [] where \in {"haPush", "haLoad"} -> "haproxy"

\* The node the step talks to.
Target ==
  IF pc \in {"startLeader", "promotion", "createRole", "createDb", "list", "app"}
    THEN Leader ELSE k

\* What a step that ends early leaves behind: a router that was given a new file
\* and not told.
Untold == IF pc = "haLoad" /\ chg /\ ha[k] # 0 THEN {<<"haproxy", k>>} ELSE {}

\* The node is down: the SSH call raises, and run_phases records a failed apply.
ApplyRaises ==
  /\ pc \notin {"idle", "etcdHealth", "list", "app", "backends"}
  /\ Target \notin on
  /\ Fails(PhaseOf(pc))
  /\ owed' = owed \cup Untold
  /\ UNCHANGED <<named, want, on, etcdVars, pgVars, haVars, upsets>>

\* In verify nothing catches it: the session ends and nothing is recorded.
VerifyRaises ==
  /\ \/ pc = "etcdHealth" /\ 1 \notin on
     \/ pc \in {"list", "app"} /\ Leader \notin on
     \/ pc = "backends" /\ on # Nodes
  /\ Stop
  /\ UNCHANGED <<record, on, etcdVars, pgVars, haVars, owed, upsets>>

Kill ==
  /\ pc # "idle"
  /\ Upset
  /\ Stop
  /\ owed' = owed \cup Untold
  /\ UNCHANGED <<record, on, etcdVars, pgVars, haVars>>

-----------------------------------------------------------------------------
(* EtcdPhase.                                                               *)

\* Mutant: a running etcd whose file is unchanged is passed over, without `up -d`.
PushEtcd_Unchanged ==
  /\ pc = "etcdPush" /\ k \in on
  /\ ecomp' = [ecomp EXCEPT ![k] = want]
  /\ IF ecomp[k] = want /\ etcd[k] # 0
       THEN Advance("etcdPush", "etcdHealth")
       ELSE /\ chg' = (ecomp[k] # want) /\ k' = k
            /\ pc' = IF chg' /\ etcd[k] # 0 THEN "etcdDown" ELSE "etcdUp"
  /\ UNCHANGED <<record, on, etcd, pgVars, haVars, owed, upsets>>

PushEtcd ==
  /\ pc = "etcdPush" /\ k \in on
  /\ ecomp' = [ecomp EXCEPT ![k] = want]
  /\ chg' = (ecomp[k] # want)
  /\ pc' = IF chg' /\ etcd[k] # 0 THEN "etcdDown" ELSE "etcdUp"
  /\ UNCHANGED <<k, record, on, etcd, pgVars, haVars, owed, upsets>>

\* `docker compose down`, the first half of `down && up -d`.
DownEtcd ==
  /\ pc = "etcdDown" /\ k \in on
  /\ etcd' = [etcd EXCEPT ![k] = 0]
  /\ pc' = "etcdUp"
  /\ UNCHANGED <<k, chg, record, on, ecomp, pgVars, haVars, owed, upsets>>

\* `up -d` creates the container, or recreates it when the file has changed.
UpEtcd ==
  /\ pc = "etcdUp" /\ k \in on
  /\ etcd' = [etcd EXCEPT ![k] = ecomp[k]]
  /\ owed' = owed \ {<<"etcd", k>>}
  /\ Advance("etcdPush", "etcdHealth")
  /\ UNCHANGED <<record, on, ecomp, pgVars, haVars, upsets>>

\* Either half fails: recorded, and the loop goes on.
UpEtcdFails ==
  /\ pc \in {"etcdDown", "etcdUp"} /\ k \in on
  /\ Upset
  /\ owed' = owed \cup {<<"etcd", k>>}
  /\ Advance("etcdPush", "etcdHealth")
  /\ UNCHANGED <<record, on, etcdVars, pgVars, haVars>>

EtcdHealthy ==
  /\ pc = "etcdHealth" /\ EtcdUp = Nodes
  /\ Passes("etcd")
  /\ UNCHANGED <<named, want, on, etcdVars, pgVars, haVars, owed, upsets>>

EtcdUnhealthy ==
  /\ pc = "etcdHealth" /\ 1 \in on /\ EtcdUp # Nodes
  /\ Fails("etcd")
  /\ UNCHANGED <<named, want, on, etcdVars, pgVars, haVars, owed, upsets>>

-----------------------------------------------------------------------------
(* PatroniPhase.                                                            *)

\* Packages, configuration and unit on node after node; nothing is started.
Install ==
  /\ pc = "install" /\ k \in on
  /\ installed' = installed \cup {k}
  /\ Advance("install", "startLeader")
  /\ UNCHANGED <<record, on, etcdVars, unit, role, data, init, lost, haVars,
                 owed, upsets>>

\* Recorded, and the loop goes on.
InstallFails ==
  /\ pc = "install" /\ k \in on
  /\ Upset
  /\ Advance("install", "startLeader")
  /\ UNCHANGED <<record, on, etcdVars, pgVars, haVars, owed>>

\* Mutant: `systemctl restart` after `enable`.
Start_Restart(n) ==
  IF n \in installed
    THEN unit' = unit \cup {n} /\ role' = [role EXCEPT ![n] = "waiting"]
    ELSE UNCHANGED <<unit, role>>

\* `systemctl enable --now patroni` on n: nothing to do when it runs already.
Start(n) ==
  IF n \in installed
    THEN /\ unit' = unit \cup {n}
         /\ role' = [role EXCEPT ![n] = IF @ = "off" THEN "waiting" ELSE @]
    ELSE UNCHANGED <<unit, role>>

StartLeader ==
  /\ pc = "startLeader" /\ Leader \in on
  /\ Start(Leader)
  /\ pc' = "promotion"
  /\ UNCHANGED <<k, chg, record, on, etcdVars, installed, data, init, lost,
                 haVars, owed, upsets>>

\* The followers in the order of the fleet, then what comes after them.
NextFollower(after) ==
  LET rest == {f \in Followers : f >= after}
  IN  \/ rest = {} /\ pc' = "createRole" /\ k' = 1
      \/ /\ pc' = "startFollower"
         /\ k' \in rest /\ \A g \in rest : k' <= g

\* Mutant: the promotion is awaited and its outcome ignored.
Promoted_Ungated ==
  /\ pc = "promotion" /\ Leader \in on
  /\ NextFollower(1)
  /\ UNCHANGED <<chg, record, on, etcdVars, pgVars, haVars, owed, upsets>>

Promoted ==
  /\ pc = "promotion" /\ Leader \in Primaries
  /\ NextFollower(1)
  /\ UNCHANGED <<chg, record, on, etcdVars, pgVars, haVars, owed, upsets>>

\* REST /primary did not answer 200 within 300 s.
NeverPromoted ==
  /\ pc = "promotion" /\ Leader \in on \ Primaries
  /\ Fails("patroni")
  /\ UNCHANGED <<named, want, on, etcdVars, pgVars, haVars, owed, upsets>>

StartFollower ==
  /\ pc = "startFollower" /\ k \in on
  /\ Start(k)
  /\ pc' = "joining"
  /\ UNCHANGED <<k, chg, record, on, etcdVars, installed, data, init, lost,
                 haVars, owed, upsets>>

\* Mutant: replicas are started without waiting for the one before.
Joined_Ungated ==
  /\ pc = "joining" /\ k \in on
  /\ NextFollower(k + 1)
  /\ UNCHANGED <<chg, record, on, etcdVars, pgVars, haVars, owed, upsets>>

Joined ==
  /\ pc = "joining" /\ k \in Streaming
  /\ NextFollower(k + 1)
  /\ UNCHANGED <<chg, record, on, etcdVars, pgVars, haVars, owed, upsets>>

NeverJoined ==
  /\ pc = "joining" /\ k \in on \ Streaming
  /\ Fails("patroni")
  /\ UNCHANGED <<named, want, on, etcdVars, pgVars, haVars, owed, upsets>>

\* psql on the bootstrap leader: only a primary accepts the statement.  One that
\* is refused is recorded and the phase goes on to its verify.
Execute(x) ==
  data' = IF Leader \in Primaries
            THEN [data EXCEPT ![Leader] = @ \cup {x}] ELSE data

CreateRole ==
  /\ pc = "createRole" /\ Leader \in on
  /\ Execute("role")
  /\ pc' = "createDb"
  /\ UNCHANGED <<k, chg, record, on, etcdVars, installed, unit, role, init, lost,
                 haVars, owed, upsets>>

\* The database needs its owner.
CreateDb ==
  /\ pc = "createDb" /\ Leader \in on
  /\ IF "role" \in data[Leader] THEN Execute("db") ELSE data' = data
  /\ pc' = "list"
  /\ UNCHANGED <<k, chg, record, on, etcdVars, installed, unit, role, init, lost,
                 haVars, owed, upsets>>

\* A primary does not take the statement (pg_hba refuses psql, say, or it is out of
\* time): recorded as well, and the phase goes on.
SqlRefused ==
  /\ pc \in {"createRole", "createDb"} /\ Leader \in on
  /\ Upset
  /\ pc' = IF pc = "createRole" THEN "createDb" ELSE "list"
  /\ UNCHANGED <<k, chg, record, on, etcdVars, pgVars, haVars, owed>>

\* patronictl list: one leader, the others replicas, all running.
Listed == Quorum /\ Cardinality(Primaries) = 1 /\ Streaming = Nodes \ Primaries

VerifyList ==
  /\ pc = "list" /\ Leader \in on
  /\ IF Listed THEN pc' = "app" /\ UNCHANGED <<k, chg, status>>
               ELSE Fails("patroni")
  /\ UNCHANGED <<named, want, on, etcdVars, pgVars, haVars, owed, upsets>>

\* Mutant: verify looks at the topology only.
VerifyApp_TopologyOnly ==
  /\ pc = "app" /\ Leader \in on
  /\ Passes("patroni")
  /\ UNCHANGED <<named, want, on, etcdVars, pgVars, haVars, owed, upsets>>

\* Mutant: verify asks for the role and takes the database for granted.
VerifyApp_RoleOnly ==
  /\ pc = "app" /\ Leader \in on
  /\ IF "role" \in data[Leader] /\ role[Leader] \in {"primary", "replica"}
       THEN Passes("patroni") ELSE Fails("patroni")
  /\ UNCHANGED <<named, want, on, etcdVars, pgVars, haVars, owed, upsets>>

\* Both queries are answered by the bootstrap leader, whatever its role is now;
\* a PostgreSQL that does not run answers nothing.
VerifyApp ==
  /\ pc = "app" /\ Leader \in on
  /\ IF App \subseteq data[Leader] /\ role[Leader] \in {"primary", "replica"}
       THEN Passes("patroni") ELSE Fails("patroni")
  /\ UNCHANGED <<named, want, on, etcdVars, pgVars, haVars, owed, upsets>>

-----------------------------------------------------------------------------
(* HAProxyPhase.                                                            *)

PushHa ==
  /\ pc = "haPush" /\ k \in on
  /\ hafile' = [hafile EXCEPT ![k] = want]
  /\ chg' = (hafile[k] # want)
  /\ pc' = "haLoad"
  /\ UNCHANGED <<k, record, on, etcdVars, pgVars, ha, owed, upsets>>

\* Mutant: a running haproxy is never told.
LoadHa_Untold ==
  /\ pc = "haLoad" /\ k \in on
  /\ ha' = IF ha[k] = 0 THEN [ha EXCEPT ![k] = hafile[k]] ELSE ha
  /\ owed' = IF ha'[k] = hafile[k] THEN owed \ {<<"haproxy", k>>} ELSE owed
  /\ Advance("haPush", "backends")
  /\ UNCHANGED <<record, on, etcdVars, pgVars, hafile, upsets>>

\* Started when it does not run, told with HUP when its file has changed.
LoadHa ==
  /\ pc = "haLoad" /\ k \in on
  /\ ha' = IF ha[k] = 0 \/ chg THEN [ha EXCEPT ![k] = hafile[k]] ELSE ha
  /\ owed' = IF ha'[k] = hafile[k] THEN owed \ {<<"haproxy", k>>} ELSE owed
  /\ Advance("haPush", "backends")
  /\ UNCHANGED <<record, on, etcdVars, pgVars, hafile, upsets>>

\* Recorded, and the loop goes on.
LoadHaFails ==
  /\ pc = "haLoad" /\ k \in on /\ (ha[k] = 0 \/ chg)
  /\ Upset
  /\ owed' = owed \cup Untold
  /\ Advance("haPush", "backends")
  /\ UNCHANGED <<record, on, etcdVars, pgVars, haVars>>

\* Every node's router sees one primary and two replicas, and a query through the
\* first one reaches the authentik database.
Routed ==
  /\ \A n \in Nodes : ha[n] # 0
  /\ Listed
  /\ \A p \in Primaries : App \subseteq data[p]

VerifyHa ==
  /\ pc = "backends" /\ on = Nodes
  /\ IF Routed THEN Passes("haproxy") ELSE Fails("haproxy")
  /\ UNCHANGED <<named, want, on, etcdVars, pgVars, haVars, owed, upsets>>

-----------------------------------------------------------------------------
(* Patroni and the nodes.                                                   *)

\* Nobody has initialised a system: n does, and takes the leader lock.
Initialise(n) ==
  /\ n \in on /\ role[n] = "waiting" /\ data[n] = {} /\ Quorum /\ init = 0
  /\ init' = n
  /\ data' = [data EXCEPT ![n] = {"system"}]
  /\ role' = [role EXCEPT ![n] = "primary"]
  /\ UNCHANGED <<record, session, on, etcdVars, installed, unit, lost, haVars,
                 owed, upsets>>

\* n clones the primary, rewinds to it, or resumes streaming from it.
Follow(n) ==
  /\ n \in on /\ role[n] = "waiting" /\ Quorum
  /\ \E p \in Primaries :
       /\ data' = [data EXCEPT ![n] = data[p]]
       /\ role' = [role EXCEPT ![n] = "replica"]
  /\ UNCHANGED <<record, session, on, etcdVars, installed, unit, init, lost,
                 haVars, owed, upsets>>

Replicate(n) ==
  /\ n \in Streaming
  /\ \E p \in Primaries :
       /\ data[n] # data[p]
       /\ data' = [data EXCEPT ![n] = data[p]]
  /\ UNCHANGED <<record, session, on, etcdVars, installed, unit, role, init, lost,
                 haVars, owed, upsets>>

\* No primary: the live node that has replayed most takes the lock.
Promote(n) ==
  /\ n \in on /\ role[n] \in {"waiting", "replica"} /\ data[n] # {}
  /\ Quorum /\ Primaries = {}
  /\ \A m \in on : role[m] # "off" => data[m] \subseteq data[n]
  /\ role' = [role EXCEPT ![n] = "primary"]
  /\ lost' = (lost \/ \E m \in Nodes : ~(data[m] \subseteq data[n]))
  /\ UNCHANGED <<record, session, on, etcdVars, installed, unit, data, init,
                 haVars, owed, upsets>>

\* etcd does not answer: the primary gives up its lock.
Demote(n) ==
  /\ n \in Primaries /\ ~Quorum
  /\ role' = [role EXCEPT ![n] = "waiting"]
  /\ UNCHANGED <<record, session, on, etcdVars, installed, unit, data, init, lost,
                 haVars, owed, upsets>>

Switchover(n) ==
  /\ Quorum /\ n \in Streaming
  /\ Upset
  /\ \E p \in Primaries :
       /\ data[n] = data[p]
       /\ role' = [role EXCEPT ![p] = "waiting", ![n] = "primary"]
  /\ UNCHANGED <<record, session, on, etcdVars, installed, unit, data, init, lost,
                 haVars, owed>>

GoDown(n) ==
  /\ n \in on
  /\ Upset
  /\ on' = on \ {n}
  /\ role' = [role EXCEPT ![n] = "off"]
  /\ UNCHANGED <<record, session, etcdVars, installed, unit, data, init, lost,
                 haVars, owed>>

\* Containers come back as they were created, patroni where it is enabled; haproxy
\* reads its file as it starts.
ComeUp(n) ==
  /\ n \in Nodes \ on
  /\ on' = on \cup {n}
  /\ role' = [role EXCEPT ![n] = IF n \in unit THEN "waiting" ELSE "off"]
  /\ ha' = [ha EXCEPT ![n] = IF @ = 0 THEN 0 ELSE hafile[n]]
  /\ owed' = owed \ {<<"haproxy", n>>}
  /\ UNCHANGED <<record, session, etcdVars, installed, unit, data, init, lost,
                 hafile, upsets>>

\* The operator edits the site file between two commands.
Edit ==
  /\ pc = "idle"
  /\ Upset
  /\ want' = want + 1
  /\ UNCHANGED <<status, named, session, on, etcdVars, pgVars, haVars, owed>>

EtcdStep == PushEtcd \/ DownEtcd \/ UpEtcd \/ UpEtcdFails \/ EtcdHealthy \/ EtcdUnhealthy
PatroniStep ==
  \/ Install \/ InstallFails \/ StartLeader \/ Promoted \/ NeverPromoted
  \/ StartFollower \/ Joined \/ NeverJoined \/ CreateRole \/ CreateDb \/ SqlRefused
  \/ VerifyList \/ VerifyApp
HaStep == PushHa \/ LoadHa \/ LoadHaFails \/ VerifyHa
PgStep ==
  \E n \in Nodes :
    Initialise(n) \/ Follow(n) \/ Replicate(n) \/ Promote(n) \/ Demote(n) \/ Switchover(n)
NodeStep == \E n \in Nodes : GoDown(n) \/ ComeUp(n)

Next ==
  \/ Provision \/ ApplyRaises \/ VerifyRaises \/ Kill \/ Edit
  \/ EtcdStep \/ PatroniStep \/ HaStep \/ PgStep \/ NodeStep

Spec == Init /\ [][Next]_vars

-----------------------------------------------------------------------------
(* Properties.                                                              *)

Places == {"idle", "etcdPush", "etcdDown", "etcdUp", "etcdHealth", "install",
           "startLeader", "promotion", "startFollower", "joining", "createRole",
           "createDb", "list", "app", "haPush", "haLoad", "backends"}

SessionType ==
  /\ status \in [Phases -> {"pending", "done", "failed"}]
  /\ named \subseteq Phases
  /\ pc \in Places /\ k \in 0..N /\ chg \in BOOLEAN
  /\ want \in 1..(MaxUpsets + 1)
  /\ upsets \in 0..MaxUpsets

NodesType ==
  /\ on \subseteq Nodes
  /\ ecomp \in [Nodes -> Versions] /\ etcd \in [Nodes -> Versions]
  /\ installed \subseteq Nodes /\ unit \subseteq installed
  /\ role \in [Nodes -> {"off", "waiting", "primary", "replica"}]
  /\ data \in [Nodes -> SUBSET ({"system"} \cup App)]
  /\ init \in {0} \cup Nodes
  /\ hafile \in [Nodes -> Versions] /\ ha \in [Nodes -> Versions]
  /\ owed \subseteq {"etcd", "haproxy"} \X Nodes /\ lost \in BOOLEAN

\* Every variable has the values its comment says; patroni is enabled only where it
\* is installed.
TypeOK == SessionType /\ NodesType

\* The bootstrap order: whatever fails, is cut or reboots, only the bootstrap
\* leader ever initialises a system (patroni_phase.py:5-6: start it alone and wait
\* until it has promoted itself).
LeaderInitialises == init \in {0, Leader}

\* Replicas one at a time: never two nodes with patroni enabled and nothing cloned
\* yet, so never two base backups at once (patroni_phase.py:147-164).
OneCloneAtATime == Cardinality({n \in unit : data[n] = {}}) <= 1

\* Once patroni is recorded done every primary has the authentik role and database,
\* however often the primary has moved or the phase was cut before, unless a node
\* was promoted that had not replayed them (patroni_phase.py:199-212: verify must
\* own the outcome of an apply whose psql failed).
DoneHasDatabase ==
  status["patroni"] = "done" /\ ~lost => \A p \in Primaries : App \subseteq data[p]

\* Once etcd is recorded done every container was created from the file on its
\* node, the push of which may have been cut from its `up -d` by an earlier kill:
\* compose recreates what has changed.  Except where the last `up -d` failed.
EtcdIsCurrent ==
  status["etcd"] = "done" =>
    \A n \in Nodes : <<"etcd", n>> \notin owed => etcd[n] = ecomp[n] /\ etcd[n] # 0

\* Once haproxy is recorded done every router runs, with the file on its node.
\* Except where a run was cut, or the HUP failed, between the push and the reload:
\* the next run finds the file unchanged and does not reload.
RouterIsCurrent ==
  status["haproxy"] = "done" =>
    \A n \in Nodes : ha[n] # 0 /\ (<<"haproxy", n>> \notin owed => ha[n] = hafile[n])

\* A formed cluster: one primary, the others streaming, the application's role and
\* database everywhere.
Formed == on = Nodes /\ Listed /\ \A n \in Nodes : App \subseteq data[n]

\* A patroni phase that was recorded done and is replayed over a formed cluster
\* leaves it alone and succeeds (state.py:5-6: re-running a completed phase must be
\* a no-op): it is never recorded "failed" over one.  Not so: where the primary has
\* moved off the bootstrap leader the gate waits for a promotion that is not due.
ReplayIsNoOp ==
  [][/\ "patroni" \in named
     /\ status["patroni"] = "pending" /\ status'["patroni"] = "failed"
     => ~Formed]_vars

\* patroni_phase.py:121-172: as long as the bootstrap leader leads a formed cluster, a
\* replay of the phase, at whichever step it is and whatever etcd and haproxy are given
\* beside it, changes no role and no data and finds nothing to fail on.
ReplayLeavesAlone ==
  [][/\ "patroni" \in named /\ pc' # pc
     /\ Formed /\ Leader \in Primaries
     => /\ UNCHANGED <<role, data, init>>
        /\ status["patroni"] = "pending" => status'["patroni"] # "failed"]_vars

\* Whatever the nodes, the gates and the failovers do, the site's copies are one
\* database, made once by the bootstrap leader, never emptied, and handed over with
\* the role and the database in it (patroni_phase.py:1-10, 199-212).
Database == INSTANCE SiteDatabase WITH
  maker <- init,
  content <- UNION {data[n] : n \in Nodes},
  ready <- (status["patroni"] = "done")
ImplementsDatabase == Database!Spec

Under ==
  IF pc = "idle" THEN {}
  ELSE {CASE pc \in {"etcdPush", "etcdDown", "etcdUp", "etcdHealth"} -> "etcd"
          [] pc \in {"haPush", "haLoad", "backends"} -> "haproxy"
          [] OTHER -> "patroni"}

\* base.py:134-185: the three phases come under way and are recorded as the runner does
\* it, whatever raises, is cut or goes down.
Contract == INSTANCE Pipeline WITH
  Listed <- Phases,
  Before <- [p \in Phases |-> CASE p = "etcd" -> {} [] p = "patroni" -> {"etcd"}
                                [] OTHER -> {"etcd", "patroni"}],
  Skippable <- {}, Aside <- {}, entry <- status, under <- Under
ImplementsPipeline == Contract!Spec
=============================================================================
