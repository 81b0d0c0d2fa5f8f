--------------------------- MODULE AuthentikService ---------------------------
(***************************************************************************)
(* The authentik containers of an HA site and the database under them, with *)
(* the commands that stop and start them: `akro shutdown` and `akro start`  *)
(* (phases/authentik_lifecycle.py), the restore phase                       *)
(* (phases/restore_phase.py) and a replay of the authentik phase (in detail *)
(* in AuthentikRollout).  One command runs at a time; nodes reboot, the     *)
(* Patroni leader moves, and a command may be cut short.                    *)
(***************************************************************************)
EXTENDS Naturals

CONSTANTS
  N, Leader,    \* nodes in fleet order, and the one marked bootstrap_leader
  MaxReboots, MaxMoves, MaxKills   \* bounds on the environment

Node == 1..N

ASSUME ServiceAssumption ==
  /\ N \in Nat \ {0} /\ Leader \in Node
  /\ MaxReboots \in Nat /\ MaxMoves \in Nat /\ MaxKills \in Nat

VARIABLES
  cont,      \* cont[n]: what runs of authentik on n, see Containers
  data,      \* the authentik database, see Databases
  primary,   \* the node Patroni has as leader
  dumps,     \* nodes with a dump in /tmp
  flag,      \* status of authentik-shutdown in the state file
  rst,       \* status of restore in the state file
  cmd,       \* the command that is running
  pc, k,     \* its stage, and its position in the fleet
  at,        \* the Patroni leader restore located
  woken,     \* nodes a reboot or a replay brought up since a command last stopped them
  reboots, moves, kills

service == <<cont, woken>>
store == <<data, primary, dumps>>
record == <<flag, rst>>
session == <<cmd, pc, k, at>>
bounds == <<reboots, moves, kills>>
vars == <<service, store, record, session, bounds>>

Containers == {"off", "worker", "starting", "healthy"}

\* "gone": dropped.  "void": created anew.  "part": psql stopped on the way.
\* "loaded": owned by postgres.  "owned": ready for the worker to migrate.
Databases == {"app", "gone", "void", "part", "loaded", "owned", "migrated"}

Stages == {"stop", "up", "gate", "upload", "drop", "load", "own",
           "worker", "workergate", "server", "servergate"}

ServiceType == cont \in [Node -> Containers] /\ woken \subseteq Node

StoreType == data \in Databases /\ primary \in Node /\ dumps \subseteq Node

RecordType ==
  /\ flag \in {"pending", "done", "failed", "declined", "started"}
  /\ rst \in {"pending", "done", "failed", "skipped"}

SessionType ==
  /\ cmd \in {"none", "shutdown", "start", "restore", "replay"}
  /\ pc \in Stages /\ k \in 1..(N + 1) /\ at \in Node

BoundsType == reboots \in 0..MaxReboots /\ moves \in 0..MaxMoves /\ kills \in 0..MaxKills

TypeOK == ServiceType /\ StoreType /\ RecordType /\ SessionType /\ BoundsType

\* A site that has been provisioned up to restore.
Init ==
  /\ cont = [n \in Node |-> "healthy"] /\ woken = {}
  /\ data = "app" /\ primary \in Node /\ dumps = {}
  /\ flag = "pending" /\ rst = "pending"
  /\ cmd = "none" /\ pc = "stop" /\ k = 1 /\ at = 1
  /\ reboots = 0 /\ moves = 0 /\ kills = 0

-----------------------------------------------------------------------------
(* The nodes.                                                              *)

\* authentik-compose.service is enabled: the stack comes up with the node.
Reboot(n) ==
  /\ reboots < MaxReboots /\ reboots' = reboots + 1
  /\ cont' = [cont EXCEPT ![n] = "starting"] /\ woken' = woken \union {n}
  /\ UNCHANGED <<store, record, session, moves, kills>>

MoveLeader ==
  /\ moves < MaxMoves /\ moves' = moves + 1
  /\ primary' \in Node \ {primary}
  /\ UNCHANGED <<service, data, dumps, record, session, reboots, kills>>

\* The worker migrates what it finds: the restored data, or an empty database
\* into a blank install.  It cannot write what postgres owns, nor half a dump, nor
\* a database that is not there.
Migrated(d) == IF d = "void" THEN "app" ELSE IF d = "owned" THEN "migrated" ELSE d

Usable(d) == d \notin {"gone", "part", "loaded"}

Healthy(n) ==
  /\ cont[n] = "starting" /\ Usable(data)
  /\ cont' = [cont EXCEPT ![n] = "healthy"]
  /\ data' = Migrated(data)
  /\ UNCHANGED <<woken, primary, dumps, record, session, bounds>>

-----------------------------------------------------------------------------
(* Commands.                                                               *)

environment == <<primary, bounds>>

Begin(c, stage) == cmd = "none" /\ cmd' = c /\ pc' = stage /\ k' = 1

End == cmd' = "none" /\ pc' = "stop" /\ k' = 1 /\ UNCHANGED at

\* What the database may hold when the call of a restore is cut short; a replica
\* refuses all of them.
Left ==
  IF ~(cmd = "restore" /\ at = primary) THEN {data}
  ELSE CASE pc = "drop" -> {data, "gone", "void"}
         [] pc = "load" -> {data, "part"} \union (IF data = "void" THEN {"loaded"} ELSE {})
         [] pc = "own" -> {data, "owned"}
         [] OTHER -> {data}

\* The command ends in the middle of a call: some of the dump is on the node, some
\* of the work is done, and nothing is tidied up.
CutShort ==
  /\ dumps' \in {dumps} \union (IF cmd = "restore" /\ pc = "upload" THEN {dumps \union {at}} ELSE {})
  /\ data' \in Left
  /\ End
  /\ UNCHANGED <<service, primary>>

\* apply() raises; the remaining nodes are left as they are.
Raise ==
  /\ cmd # "none" /\ kills < MaxKills /\ kills' = kills + 1
  /\ flag' = IF cmd = "shutdown" THEN "failed" ELSE flag
  /\ rst' = IF cmd = "restore" THEN "failed" ELSE rst
  /\ CutShort
  /\ UNCHANGED <<reboots, moves>>

\* Ctrl-C, or an SSH error in verify(): nothing is recorded.
Kill ==
  /\ cmd # "none" /\ kills < MaxKills /\ kills' = kills + 1
  /\ CutShort
  /\ UNCHANGED <<record, reboots, moves>>

GoOn(s) == pc' = s /\ k' = k + 1 /\ UNCHANGED <<cmd, at>>

Stage(s) == pc' = s /\ k' = 1 /\ UNCHANGED <<cmd, at>>

-----------------------------------------------------------------------------
(* akro shutdown: `docker compose stop` where authentik runs.              *)

BeginShutdown == Begin("shutdown", "stop") /\ UNCHANGED <<service, store, record, at, bounds>>

DeclineShutdown ==
  /\ cmd = "none" /\ flag' = "declined"
  /\ UNCHANGED <<service, store, rst, session, bounds>>

\* Mutant: a restore leaves the last node up.
StopNode_ButOne ==
  /\ cmd \in {"shutdown", "restore"} /\ pc = "stop" /\ k \in Node
  /\ cont' = [cont EXCEPT ![k] = "off"] /\ woken' = woken \ {k}
  /\ IF k + 1 = N /\ cmd = "restore" THEN Stage("upload") ELSE GoOn("stop")
  /\ UNCHANGED <<store, record, bounds>>

\* `docker compose stop`, or `down` in a restore; a no-op where nothing runs.
StopNode ==
  /\ cmd \in {"shutdown", "restore"} /\ pc = "stop" /\ k \in Node
  /\ cont' = [cont EXCEPT ![k] = "off"] /\ woken' = woken \ {k}
  /\ IF k = N /\ cmd = "restore" THEN Stage("upload") ELSE GoOn("stop")
  /\ UNCHANGED <<store, record, bounds>>

VerifyShutdown ==
  /\ cmd = "shutdown" /\ k = N + 1
  /\ flag' = IF \A n \in Node : cont[n] = "off" THEN "done" ELSE "failed"
  /\ End
  /\ UNCHANGED <<service, store, rst, bounds>>

-----------------------------------------------------------------------------
(* akro start, and the replay of the authentik phase: node after node, each *)
(* gated on healthy.                                                        *)

\* Anything but a completed shutdown on record and apply() refuses.
BeginStart ==
  /\ flag = "done"
  /\ Begin("start", "up")
  /\ UNCHANGED <<service, store, record, at, bounds>>

BeginReplay == Begin("replay", "up") /\ UNCHANGED <<service, store, record, at, bounds>>

\* `up -d` leaves a stack that is up alone; the authentik phase recreates it.
Up(n) ==
  /\ cont' = [cont EXCEPT ![n] = IF @ \in {"starting", "healthy"} /\ cmd # "replay" THEN @ ELSE "starting"]
  /\ woken' = IF cmd = "replay" THEN woken \union {n} ELSE woken

\* restore has its bootstrap leader up already when it comes to the others.
UpNode ==
  /\ pc = "up" /\ k \in Node
  /\ IF cmd = "restore" /\ k = Leader
       THEN GoOn("up") /\ UNCHANGED service
       ELSE Up(k) /\ pc' = "gate" /\ UNCHANGED <<cmd, k, at>>
  /\ UNCHANGED <<store, record, bounds>>

GatePasses ==
  /\ pc = "gate" /\ cont[k] = "healthy"
  /\ GoOn("up")
  /\ UNCHANGED <<service, store, record, bounds>>

\* Out of time: raise.  Only restore has a record here to keep it in.
GateFails ==
  /\ \/ pc = "gate" /\ cont[k] # "healthy"
     \/ pc = "workergate"
     \/ pc = "servergate" /\ cont[Leader] # "healthy"
  /\ rst' = IF cmd = "restore" THEN "failed" ELSE rst
  /\ End
  /\ UNCHANGED <<service, store, flag, bounds>>

\* Mutant: the flag is given up before the last node is up.
ClearFlag_Early ==
  /\ cmd \in {"start", "replay"} /\ pc = "up" /\ k \in {N, N + 1}
  /\ flag' = IF cmd = "start" THEN "started" ELSE flag
  /\ End
  /\ UNCHANGED <<service, store, rst, bounds>>

\* start clears the flag at the end of apply(), before verify().
ClearFlag ==
  /\ cmd \in {"start", "replay"} /\ pc = "up" /\ k = N + 1
  /\ flag' = IF cmd = "start" THEN "started" ELSE flag
  /\ End
  /\ UNCHANGED <<service, store, rst, bounds>>

-----------------------------------------------------------------------------
(* The restore phase.                                                      *)

\* Mutant: the first node is taken for the leader.
BeginRestore_FirstNode ==
  /\ Begin("restore", "stop")
  /\ rst' = "pending" /\ at' = 1
  /\ UNCHANGED <<service, store, flag, bounds>>

\* --replay restore, confirmed; the leader is located once, before the stop.
BeginRestore ==
  /\ Begin("restore", "stop")
  /\ rst' = "pending" /\ at' = primary
  /\ UNCHANGED <<service, store, flag, bounds>>

DeclineRestore ==
  /\ cmd = "none" /\ rst # "done" /\ rst' = "skipped"
  /\ UNCHANGED <<service, store, flag, session, bounds>>

Failed == rst' = "failed" /\ End

Upload ==
  /\ cmd = "restore" /\ pc = "upload"
  /\ dumps' = dumps \union {at}
  /\ Stage("drop")
  /\ UNCHANGED <<service, data, record, environment>>

\* The checksum does not match: the dump is removed.
UploadCorrupt ==
  /\ cmd = "restore" /\ pc = "upload"
  /\ dumps' = dumps \ {at}
  /\ Failed
  /\ UNCHANGED <<service, data, flag, environment>>

\* DROP and CREATE; a replica refuses both.  The second may fail alone.
DropCreate ==
  /\ cmd = "restore" /\ pc = "drop" /\ at = primary
  /\ data' = "void"
  /\ Stage("load")
  /\ UNCHANGED <<service, dumps, record, environment>>

DropFails ==
  /\ cmd = "restore" /\ pc = "drop"
  /\ data' \in IF at = primary THEN {data, "gone"} ELSE {data}
  /\ Failed
  /\ UNCHANGED <<service, dumps, flag, environment>>

\* Mutant: the dump is not removed.
Load_Kept ==
  /\ cmd = "restore" /\ pc = "load" /\ at = primary /\ data = "void"
  /\ data' = "loaded"
  /\ Stage("own")
  /\ UNCHANGED <<service, dumps, record, environment>>

\* psql under ON_ERROR_STOP, which a database that is not empty does not pass;
\* the dump is removed whatever came of it.
Load ==
  /\ cmd = "restore" /\ pc = "load" /\ at = primary /\ data = "void"
  /\ data' = "loaded" /\ dumps' = dumps \ {at}
  /\ Stage("own")
  /\ UNCHANGED <<service, record, environment>>

LoadFails ==
  /\ cmd = "restore" /\ pc = "load"
  /\ data' \in IF at = primary THEN {data, "part"} ELSE {data}
  /\ dumps' = dumps \ {at}
  /\ Failed
  /\ UNCHANGED <<service, flag, environment>>

Normalise ==
  /\ cmd = "restore" /\ pc = "own" /\ at = primary
  /\ data' = "owned"
  /\ Stage("worker")
  /\ UNCHANGED <<service, dumps, record, environment>>

NormaliseFails ==
  /\ cmd = "restore" /\ pc = "own"
  /\ Failed
  /\ UNCHANGED <<service, store, flag, bounds>>

\* Mutant: the server comes up with the worker (no `--no-deps`).
WorkerAlone_WithServer ==
  /\ cmd = "restore" /\ pc = "worker"
  /\ cont' = [cont EXCEPT ![Leader] = IF @ = "off" THEN "starting" ELSE @]
  /\ Stage("workergate")
  /\ UNCHANGED <<woken, store, record, bounds>>

\* `up -d --no-deps worker` on the bootstrap leader.
WorkerAlone ==
  /\ cmd = "restore" /\ pc = "worker"
  /\ cont' = [cont EXCEPT ![Leader] = IF @ = "off" THEN "worker" ELSE @]
  /\ Stage("workergate")
  /\ UNCHANGED <<woken, store, record, bounds>>

WorkerHealthy ==
  /\ cmd = "restore" /\ pc = "workergate" /\ Usable(data)
  /\ data' = Migrated(data)
  /\ Stage("server")
  /\ UNCHANGED <<service, dumps, record, environment>>

ServerUp ==
  /\ cmd = "restore" /\ pc = "server"
  /\ Up(Leader)
  /\ Stage("servergate")
  /\ UNCHANGED <<store, record, bounds>>

ServerHealthy ==
  /\ cmd = "restore" /\ pc = "servergate" /\ cont[Leader] = "healthy"
  /\ Stage("up")
  /\ UNCHANGED <<service, store, record, bounds>>

\* Tables, users, a write as the application's role, every node healthy.
VerifyRestore ==
  /\ cmd = "restore" /\ pc = "up" /\ k = N + 1
  /\ rst' = IF Usable(data) /\ \A n \in Node : cont[n] = "healthy" THEN "done" ELSE "failed"
  /\ End
  /\ UNCHANGED <<service, store, flag, bounds>>

Next ==
  \/ \E n \in Node : Reboot(n) \/ Healthy(n)
  \/ MoveLeader \/ Raise \/ Kill
  \/ BeginShutdown \/ DeclineShutdown \/ StopNode \/ VerifyShutdown
  \/ BeginStart \/ BeginReplay \/ UpNode \/ GatePasses \/ GateFails \/ ClearFlag
  \/ BeginRestore \/ DeclineRestore \/ Upload \/ UploadCorrupt
  \/ DropCreate \/ DropFails \/ Load \/ LoadFails \/ Normalise \/ NormaliseFails
  \/ WorkerAlone \/ WorkerHealthy \/ ServerUp \/ ServerHealthy \/ VerifyRestore

Spec == Init /\ [][Next]_vars

\* The restore is waiting for node n to become healthy.
Gated(n) ==
  cmd = "restore" /\ ((pc = "gate" /\ n = k) \/ (pc = "servergate" /\ n = Leader))

\* Remote calls end (weak fairness).  The operator replays restore until it is
\* done, and what is tried again and again succeeds in time once (strong fairness);
\* the bounds see to it that the reboots, leader moves and kills cease.
Fairness ==
  /\ WF_vars(StopNode) /\ WF_vars(VerifyShutdown)
  /\ WF_vars(UpNode) /\ WF_vars(GatePasses) /\ WF_vars(GateFails) /\ WF_vars(ClearFlag)
  /\ WF_vars(WorkerAlone) /\ WF_vars(ServerUp) /\ WF_vars(ServerHealthy)
  /\ WF_vars(UploadCorrupt) /\ WF_vars(DropFails) /\ WF_vars(LoadFails) /\ WF_vars(NormaliseFails)
  /\ WF_vars(VerifyRestore)
  /\ SF_vars(rst # "done" /\ BeginRestore)
  /\ SF_vars(Upload) /\ SF_vars(DropCreate) /\ SF_vars(Load) /\ SF_vars(Normalise)
  /\ SF_vars(WorkerHealthy)
  /\ \A n \in Node : SF_vars(Gated(n) /\ Healthy(n))

FairSpec == Spec /\ Fairness

-----------------------------------------------------------------------------

\* restore_phase.py:21-22: while the database is swapped there are "no live
\* connections, no half-written sessions": a node that is up was rebooted since
\* the restore stopped it.
SwapIsQuiet ==
  (cmd = "restore" /\ pc \in {"upload", "drop", "load", "own", "worker"}) =>
    \A n \in Node : cont[n] # "off" => n \in woken

\* The worker of one node migrates the restored data alone: until it has, the
\* restore itself has brought nothing else up.
MigratesAlone ==
  (cmd = "restore" /\ pc \in {"worker", "workergate"}) =>
    \A n \in Node : cont[n] # "off" => n \in woken \/ (n = Leader /\ cont[n] = "worker")

\* A restore is recorded done only when the dump was loaded in full, re-owned and
\* migrated, whichever nodes woke up in between and wherever the leader went.
DoneIsRestored ==
  rst = "done" => data = "migrated"

\* restore_phase.py:268: "the dump never outlives the restore": the node that
\* the dump was loaded on no longer has it.  (A node that an earlier attempt
\* uploaded to, and failed on, may.)
DumpGone == rst = "done" => at \notin dumps

\* start clears the flag, and with it the permission to start, only when it has
\* brought up every node: no node is stranded behind a flag that refuses it.
StartReachesAll ==
  [][flag # "started" /\ flag' = "started" =>
       \A n \in Node : cont[n] \in {"starting", "healthy"}]_vars

\* A site whose restore failed can be brought up by replaying it.
RestoreConverges == []<>(rst = "done")

\* restore_phase.py:271-272: after a failed restore authentik is "left DOWN on
\* purpose (never half-up on half-data)".
StaysDown ==
  (cmd = "none" /\ rst = "failed" /\ data \in {"part", "loaded"}) =>
    \A n \in Node : cont[n] = "off"

\* How this module's state shows to whoever asks what a restore promises.
Held ==
  CASE data \in {"loaded", "owned"} -> "loaded" [] data = "migrated" -> "restored"
    [] OTHER -> data
Swapping == cmd = "restore" /\ pc \in {"upload", "drop", "load", "own", "worker"}
InUse == \E n \in Node : cont[n] # "off" /\ n \notin woken

\* restore_phase.py:21-22, 268-272: the phase is one swap of the database, made while
\* only rebooted nodes are up, and done only over the restored site; no other command,
\* reboot, failover or cut takes anything from the database.
Restore == INSTANCE RestoredDatabase WITH
  data <- Held, swapping <- Swapping, users <- InUse, done <- (rst = "done")
ImplementsRestore == Restore!Spec

Under == IF cmd = "restore" THEN {"restore"} ELSE {}

\* base.py:134-185: the restore comes under way and is recorded as the runner does it,
\* whatever fails or is cut; no shutdown, start or replay of another phase touches its
\* entry, and none runs beside it.
Contract == INSTANCE Pipeline WITH
  Listed <- {"restore"}, Before <- [p \in {"restore"} |-> {}],
  Skippable <- {"restore"}, Aside <- {},
  entry <- [p \in {"restore"} |-> rst], under <- Under
ImplementsPipeline == Contract!Spec
=============================================================================
