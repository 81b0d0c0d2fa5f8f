--------------------------- MODULE AuthentikRollout ---------------------------
(***************************************************************************)
(* The authentik phase of the HA pipeline (phases/authentik_phase.py),      *)
(* called again and again by `akro provision --replay authentik`: render    *)
(* everywhere, then either BOOTSTRAP (leader alone, then the others) or     *)
(* ROLLING (last node first, changed nodes only), each node recreated by    *)
(* its systemd unit and gated on healthy.                                   *)
(*                                                                          *)
(* Nodes are numbered in fleet order; a version stands for everything that  *)
(* is rendered (tag, env, compose file), 0 for nothing yet.  A newer        *)
(* version migrates the one database when its worker starts.                *)
(***************************************************************************)
EXTENDS Naturals

CONSTANTS
  N,            \* nodes in the fleet (3)
  Leader,       \* the node marked bootstrap_leader
  MaxVersion,   \* bound on the operator's edits of the site config
  MaxFaults,    \* bound on crashes and reboots
  MaxKills      \* bound on sessions cut short

Node == 1..N

ASSUME RolloutAssumption ==
  /\ N \in Nat \ {0} /\ Leader \in Node
  /\ MaxVersion \in Nat \ {0} /\ MaxFaults \in Nat /\ MaxKills \in Nat

VARIABLES
  want,      \* version in the site config
  cfg,       \* version the session loaded
  file,      \* file[n]: version rendered under /opt/authentik
  ver,       \* ver[n]: version of the containers last created
  st,        \* st[n]: what the containers are doing, see NodeStates
  schema,    \* version the database has been migrated to
  status,    \* the phase's record, with the tag it pins
  tag,
  pc, k,     \* the session: stage, and position in the stage's order of nodes
  rolling,   \* the path apply() chose when it looked
  changed,   \* nodes whose files the push changed, in the session's memory
  ok,        \* verify: every node healthy so far
  excused,   \* nodes that were down, or fell over, since the runner last saw to them
  behind,    \* nodes that did not run their own files when apply() chose rolling
  faults, kills

nodeVars == <<file, ver, st, schema>>
recordVars == <<status, tag>>
sessionVars == <<cfg, pc, k, rolling, changed, ok>>
history == <<excused, behind>>
vars == <<want, nodeVars, recordVars, sessionVars, history, faults, kills>>

Versions == 0..MaxVersion

\* "up": `compose up -d` waits for the worker.  "alone": compose gave up, the
\* worker goes on and no server will follow.  "running": the server runs, not
\* both are healthy yet.  "broken": as it is, it will not become healthy.
NodeStates == {"down", "up", "alone", "running", "broken", "healthy"}

NodesType ==
  /\ file \in [Node -> Versions] /\ ver \in [Node -> Versions]
  /\ st \in [Node -> NodeStates] /\ schema \in Versions

SessionType ==
  /\ cfg \in Versions /\ rolling \in BOOLEAN /\ ok \in BOOLEAN /\ changed \subseteq Node
  /\ pc \in {"idle", "push", "restart", "gate", "pin", "verify"} /\ k \in 1..(N + 1)

TypeOK ==
  /\ NodesType /\ SessionType
  /\ status \in {"pending", "applying", "done", "failed"} /\ tag \in Versions
  /\ want \in Versions /\ faults \in 0..MaxFaults /\ kills \in 0..MaxKills
  /\ excused \subseteq Node /\ behind \subseteq Node

Init ==
  /\ want = 1 /\ cfg = 0
  /\ file = [n \in Node |-> 0] /\ ver = [n \in Node |-> 0]
  /\ st = [n \in Node |-> "down"] /\ schema = 0
  /\ status = "pending" /\ tag = 0
  /\ pc = "idle" /\ k = 1 /\ rolling = FALSE /\ changed = {} /\ ok = TRUE
  /\ excused = Node /\ behind = {}
  /\ faults = 0 /\ kills = 0

-----------------------------------------------------------------------------
(* The nodes.                                                              *)

\* `docker ps --filter status=running | grep authentik-server`
Running(n) == st[n] \in {"running", "broken", "healthy"}

Migrating(n) == st[n] \in {"up", "alone"} /\ ver[n] > schema

NodeStep(n, from, to) ==
  /\ st[n] = from /\ st' = [st EXCEPT ![n] = to]
  /\ UNCHANGED <<want, file, ver, recordVars, sessionVars, history, faults, kills>>

\* The worker answers: what there was to migrate is migrated.
WorkerHealthy(n) ==
  /\ NodeStep(n, "up", "running") \/ (NodeStep(n, "alone", "alone") /\ Migrating(n))
  /\ schema' = IF ver[n] > schema THEN ver[n] ELSE schema

ComposeGivesUp(n) == NodeStep(n, "up", "alone") /\ UNCHANGED schema

Settle(n) ==
  /\ \E s \in {"healthy", "broken"} : NodeStep(n, "running", s)
  /\ UNCHANGED schema

Fault(n) ==
  /\ faults < MaxFaults /\ faults' = faults + 1
  /\ excused' = excused \union {n}
  /\ UNCHANGED <<want, file, schema, recordVars, sessionVars, behind, kills>>

\* restart: "no" -- a container that exits stays down.
Crash(n) ==
  /\ Running(n) /\ Fault(n)
  /\ \E s \in {"down", "broken"} : st' = [st EXCEPT ![n] = s]
  /\ UNCHANGED ver

\* The enabled unit runs `compose up -d` on what lies on the node's disk.
Reboot(n) ==
  /\ file[n] > 0 /\ Fault(n)
  /\ st' = [st EXCEPT ![n] = "up"]
  /\ ver' = [ver EXCEPT ![n] = file[n]]

-----------------------------------------------------------------------------
(* The session.                                                            *)

EditConfig ==
  /\ pc = "idle" /\ want < MaxVersion
  /\ want' = want + 1
  /\ UNCHANGED <<nodeVars, recordVars, sessionVars, history, faults, kills>>

\* The session looks at the fleet once; an SSH error counts as "not running".
Begin ==
  /\ pc = "idle"
  /\ status' = "pending"
  /\ cfg' = want /\ changed' = {} /\ pc' = "push" /\ k' = 1
  /\ rolling' \in {\A n \in Node : Running(n), FALSE}
  /\ excused' = {n \in Node : st[n] # "healthy"}
  /\ behind' = {n \in Node : rolling' /\ ver[n] # file[n]}
  /\ UNCHANGED <<want, nodeVars, tag, ok, faults, kills>>

Push ==
  /\ pc = "push" /\ k \in Node
  /\ changed' = IF file[k] = cfg THEN changed ELSE changed \union {k}
  /\ file' = [file EXCEPT ![k] = cfg]
  /\ IF k = N THEN pc' = "restart" /\ k' = 1 ELSE pc' = pc /\ k' = k + 1
  /\ UNCHANGED <<want, ver, st, schema, recordVars, cfg, rolling, ok, history, faults, kills>>

\* Mutant: a bootstrap takes the fleet in its own order.
Order_FleetFirst(i) == i

\* The node at position i: reverse fleet order, or the leader and then the others.
Order(i) ==
  IF rolling THEN N + 1 - i
  ELSE IF i = 1 THEN Leader
  ELSE IF i <= Leader THEN i - 1 ELSE i

NextNode == IF k = N THEN pc' = "pin" /\ k' = 1 ELSE pc' = "restart" /\ k' = k + 1

SkipUnchanged ==
  /\ pc = "restart" /\ rolling /\ Order(k) \notin changed
  /\ NextNode
  /\ UNCHANGED <<want, nodeVars, recordVars, cfg, rolling, changed, ok, history, faults, kills>>

\* Mutant: what runs is left as it is, in its old version.
Restart_InPlace ==
  /\ pc = "restart"
  /\ LET n == Order(k) IN
       /\ rolling => n \in changed
       /\ st' = [st EXCEPT ![n] = "up"]
       /\ ver' = [ver EXCEPT ![n] = IF ver[n] = 0 THEN file[n] ELSE ver[n]]
       /\ excused' = excused \ {n}
  /\ pc' = "gate"
  /\ UNCHANGED <<want, file, schema, recordVars, cfg, k, rolling, changed, ok, behind, faults, kills>>

\* systemctl restart authentik-compose: down, then up -d.
Restart ==
  /\ pc = "restart"
  /\ LET n == Order(k) IN
       /\ rolling => n \in changed
       /\ st' = [st EXCEPT ![n] = "up"]
       /\ ver' = [ver EXCEPT ![n] = file[n]]
       /\ excused' = excused \ {n}
  /\ pc' = "gate"
  /\ UNCHANGED <<want, file, schema, recordVars, cfg, k, rolling, changed, ok, behind, faults, kills>>

\* Mutant: the gate is content with containers that run.
GatePasses_Running ==
  /\ pc = "gate" /\ Running(Order(k))
  /\ NextNode
  /\ UNCHANGED <<want, nodeVars, recordVars, cfg, rolling, changed, ok, history, faults, kills>>

\* Mutant: the gate is not waited for.
GatePasses_NoWait ==
  /\ pc = "gate"
  /\ NextNode
  /\ UNCHANGED <<want, nodeVars, recordVars, cfg, rolling, changed, ok, history, faults, kills>>

\* wait_healthy: both containers report exactly healthy.
GatePasses ==
  /\ pc = "gate" /\ st[Order(k)] = "healthy"
  /\ NextNode
  /\ UNCHANGED <<want, nodeVars, recordVars, cfg, rolling, changed, ok, history, faults, kills>>

\* The restart failed or the budget ran out: raise.
GateFails ==
  /\ pc = "gate" /\ st[Order(k)] # "healthy"
  /\ status' = "failed" /\ pc' = "idle"
  /\ UNCHANGED <<want, nodeVars, tag, cfg, k, rolling, changed, ok, history, faults, kills>>

PinTag ==
  /\ pc = "pin"
  /\ status' = "applying" /\ tag' = cfg
  /\ pc' = "verify" /\ ok' = TRUE
  /\ UNCHANGED <<want, nodeVars, cfg, k, rolling, changed, history, faults, kills>>

VerifyNode ==
  /\ pc = "verify" /\ k \in Node
  /\ ok' = (ok /\ st[k] = "healthy") /\ k' = k + 1
  /\ UNCHANGED <<want, nodeVars, recordVars, cfg, pc, rolling, changed, history, faults, kills>>

\* The API may refuse the token, and re-minting it may fail.
Verdict ==
  /\ pc = "verify" /\ k = N + 1
  /\ \E api \in BOOLEAN : status' = IF ok /\ api THEN "done" ELSE "failed"
  /\ pc' = "idle"
  /\ UNCHANGED <<want, nodeVars, tag, cfg, k, rolling, changed, ok, history, faults, kills>>

\* Ctrl-C, or SSH lost: raised by apply() it is recorded, by verify() it is not.
Die ==
  /\ pc # "idle" /\ kills < MaxKills /\ kills' = kills + 1
  /\ pc' = "idle"
  /\ status' \in IF pc = "verify" THEN {status} ELSE {status, "failed"}
  /\ UNCHANGED <<want, nodeVars, tag, cfg, k, rolling, changed, ok, history, faults>>

Next ==
  \/ \E n \in Node : WorkerHealthy(n) \/ ComposeGivesUp(n) \/ Settle(n) \/ Crash(n) \/ Reboot(n)
  \/ EditConfig \/ Begin \/ Push \/ SkipUnchanged \/ Restart
  \/ GatePasses \/ GateFails \/ PinTag \/ VerifyNode \/ Verdict \/ Die

Spec == Init /\ [][Next]_vars

-----------------------------------------------------------------------------

\* "Three nodes racing migrations against one database" (README.md:402): two
\* nodes migrate at once only if one of them fell over by itself, or was already
\* migrating when the session began.
SoloMigration ==
  \A m, n \in Node :
    Migrating(m) /\ Migrating(n) /\ m # n => m \in excused \/ n \in excused

\* A rolling pass has at most one node away at a time: every other node is
\* healthy, or is not the pass's doing.
OneAtATime ==
  (rolling /\ pc \in {"restart", "gate"}) =>
    \A n \in Node : st[n] = "healthy" \/ n \in excused \/ (pc = "gate" /\ n = Order(k))

\* "Only then start the other two nodes, which find a migrated schema"
\* (authentik_phase.py:8-9): in a bootstrap nothing but the leader is started
\* on a database older than the version it runs.
OthersFindMigrated ==
  (~rolling /\ pc = "gate" /\ Order(k) # Leader) => schema >= ver[Order(k)]

\* When the phase is done every node runs the version that was pinned, except
\* nodes that did not run their own files when a rolling pass looked at them.
StraightConverges ==
  status = "done" => \A n \in Node : ver[n] = tag \/ n \in behind

\* authentik_phase.py:71: the pinned tag is that of the "last successful apply".
\* Not so: a session cut after a push is retried with no file changed (README).
DoneMeansConverged == status = "done" => \A n \in Node : ver[n] = tag

\* README.md:402: racing migrations are "structurally prevented".
\* Not so: a worker still migrating when its gate expires is met by the retry.
NeverRacing == \A m, n \in Node : Migrating(m) /\ Migrating(n) => m = n

Under == IF pc = "idle" THEN {} ELSE {"authentik"}

\* base.py:134-185: the phase comes under way and is recorded as the runner does it,
\* whichever path it takes and wherever it is cut.
Contract == INSTANCE Pipeline WITH
  Listed <- {"authentik"}, Before <- [p \in {"authentik"} |-> {}],
  Skippable <- {}, Aside <- {},
  entry <- [p \in {"authentik"} |-> status], under <- Under
ImplementsPipeline == Contract!Spec
=============================================================================
