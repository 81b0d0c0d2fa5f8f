------------------------ MODULE AuthentikServiceProofs ------------------------
(***************************************************************************)
(* The authentik containers and the restore, for a fleet of any size and    *)
(* any number of reboots, leader moves and commands cut short.              *)
(***************************************************************************)
EXTENDS AuthentikService, TLAPS

\* While a restore stops the fleet, the nodes it has passed are down or woken.
Stopped ==
  /\ pc # "up" => k \in Node \/ (cmd = "shutdown" /\ pc = "stop")
  /\ (cmd = "restore" /\ pc = "stop") =>
       \A n \in Node : n < k => (cont[n] # "off" => n \in woken)

\* What the database holds at each stage of a restore.
Stored ==
  /\ (cmd = "restore" /\ pc = "own") => data = "loaded"
  /\ (cmd = "restore" /\ pc \in {"worker", "workergate"}) => data \in {"owned", "migrated"}
  /\ (cmd = "restore" /\ pc \in {"server", "servergate", "up", "gate"}) => data = "migrated"
  /\ (cmd # "restore" => pc \in {"stop", "up", "gate"})
  /\ rst = "done" => cmd # "restore"

\* Once the dump is loaded it is gone from the node it was loaded on.
Dumped ==
  /\ (cmd = "restore" /\ pc \notin {"stop", "upload", "drop", "load"}) => at \notin dumps
  /\ DumpGone

\* The nodes a start has passed are up.
Started ==
  (cmd = "start" /\ pc \in {"up", "gate"}) =>
    \A n \in Node : n < k => cont[n] \in {"starting", "healthy"}

Walked == Started /\ (cmd = "start" => pc # "stop")

Quieted == Stopped /\ SwapIsQuiet /\ MigratesAlone

IInv == TypeOK /\ Quieted /\ Stored /\ DoneIsRestored /\ Dumped /\ Walked

LEMMA Bounds ==
  /\ 1 \in Node /\ 1 \in 1..(N + 1) /\ Leader \in Node
  /\ 0 \in 0..MaxReboots /\ 0 \in 0..MaxMoves /\ 0 \in 0..MaxKills
  /\ \A r, m \in Nat : r \in 0..m /\ r < m => r + 1 \in 0..m
  /\ \A i \in Node : i \in Nat /\ i <= N /\ i \in 1..(N + 1) /\ i + 1 \in 1..(N + 1)
  /\ \A i \in Node : i # N => i + 1 \in Node
BY ServiceAssumption DEF Node

LEMMA Counted ==
  ASSUME BoundsType
  PROVE  /\ reboots < MaxReboots => reboots + 1 \in 0..MaxReboots
         /\ moves < MaxMoves => moves + 1 \in 0..MaxMoves
         /\ kills < MaxKills => kills + 1 \in 0..MaxKills
BY ServiceAssumption DEF BoundsType

LEMMA InitInv == Init => IInv
<1> SUFFICES ASSUME Init PROVE IInv
  OBVIOUS
<1>1. ServiceType /\ StoreType
  BY Bounds DEF Init, ServiceType, StoreType, Containers, Databases
<1>2. RecordType /\ SessionType /\ BoundsType
  BY Bounds DEF Init, RecordType, SessionType, BoundsType, Stages
<1>3. Quieted /\ Stored /\ DoneIsRestored
  BY Bounds DEF Init, Quieted, Stopped, SwapIsQuiet, MigratesAlone, Stored, DoneIsRestored
<1>4. Dumped /\ Walked
  BY DEF Init, Dumped, DumpGone, Walked, Started
<1>5. QED
  BY <1>1, <1>2, <1>3, <1>4 DEF IInv, TypeOK

\* Steps of the nodes and of Patroni.
LEMMA NodesInv ==
  ASSUME IInv, NEW n \in Node, Reboot(n) \/ Healthy(n) \/ MoveLeader
  PROVE  IInv'
<1> USE DEF IInv, TypeOK, service, store, record, session, bounds
<1>1. UNCHANGED session /\ UNCHANGED record /\ UNCHANGED kills /\ UNCHANGED dumps
  BY DEF Reboot, Healthy, MoveLeader
<1>2. TypeOK'
  <2>1. ServiceType'
    BY DEF ServiceType, Reboot, Healthy, MoveLeader, Containers
  <2>2. StoreType'
    BY DEF StoreType, Reboot, Healthy, MoveLeader, Databases, Migrated
  <2>3. BoundsType'
    BY Counted DEF BoundsType, Reboot, Healthy, MoveLeader
  <2>4. RecordType' /\ SessionType'
    BY <1>1 DEF RecordType, SessionType
  <2>5. QED
    BY <2>1, <2>2, <2>3, <2>4
<1>3. \A m \in Node : (cont[m] # "off" => m \in woken) => (cont'[m] # "off" => m \in woken')
  BY DEF ServiceType, Reboot, Healthy, MoveLeader
<1>4. \A m \in Node : cont[m] = "worker" => cont'[m] = "worker" \/ m \in woken'
  BY DEF ServiceType, Reboot, Healthy, MoveLeader
<1>5. Quieted'
  <2>1. Stopped' /\ SwapIsQuiet'
    BY <1>1, <1>3 DEF Quieted, Stopped, SwapIsQuiet
  <2>2. MigratesAlone'
    BY <1>1, <1>3, <1>4 DEF Quieted, MigratesAlone
  <2>3. QED
    BY <2>1, <2>2 DEF Quieted
<1>6. Stored' /\ DoneIsRestored'
  BY <1>1 DEF Stored, DoneIsRestored, Reboot, Healthy, MoveLeader, Usable, Migrated
<1>7. Dumped' /\ Walked'
  <2>1. \A m \in Node : cont[m] \in {"starting", "healthy"} => cont'[m] \in {"starting", "healthy"}
    BY DEF ServiceType, Reboot, Healthy, MoveLeader
  <2>2. QED
    BY <1>1, <2>1 DEF Dumped, DumpGone, Walked, Started
<1>8. QED
  BY <1>2, <1>5, <1>6, <1>7

\* The steps that walk the fleet, stopping it or starting it.
LEMMA WalkInv ==
  ASSUME IInv, StopNode \/ UpNode \/ GatePasses
  PROVE  IInv'
<1> USE DEF IInv, TypeOK, service, store, record, session, bounds, GoOn, Stage
<1>1. UNCHANGED <<store, record, bounds, cmd, at>>
  BY DEF StopNode, UpNode, GatePasses
<1>2. SessionType'
  BY <1>1, Bounds DEF SessionType, StopNode, UpNode, GatePasses, Stages, Quieted, Stopped
<1>3. ServiceType'
  BY <1>1 DEF ServiceType, StopNode, UpNode, GatePasses, Up, Containers
<1>4. StoreType' /\ RecordType' /\ BoundsType'
  BY <1>1 DEF StoreType, RecordType, BoundsType
<1>5. Quieted'
  <2>1. CASE StopNode
    <3>1. \A n \in Node : n < k + 1 => n < k \/ n = k
      BY ServiceAssumption DEF SessionType, Node
    <3>2. \A n \in Node : n # k => cont'[n] = cont[n] /\ (n \in woken <=> n \in woken')
      BY <2>1 DEF StopNode, ServiceType
    <3>3. cont'[k] = "off"
      BY <2>1 DEF StopNode, ServiceType
    <3>4. k = N => \A n \in Node : n < k \/ n = k
      BY ServiceAssumption DEF Node
    <3>5. Stopped'
      BY <2>1, <3>1, <3>2, <3>3, Bounds DEF StopNode, Quieted, Stopped
    <3>6. SwapIsQuiet'
      BY <2>1, <3>2, <3>3, <3>4 DEF StopNode, Quieted, Stopped, SwapIsQuiet
    <3>7. MigratesAlone'
      BY <2>1 DEF StopNode, MigratesAlone
    <3>8. QED
      BY <3>5, <3>6, <3>7 DEF Quieted
  <2>2. CASE UpNode \/ GatePasses
    BY <1>1, <2>2, Bounds DEF UpNode, GatePasses, Quieted, Stopped, SwapIsQuiet, MigratesAlone
  <2>3. QED
    BY <2>1, <2>2
<1>6. Stored' /\ DoneIsRestored'
  BY <1>1 DEF StopNode, UpNode, GatePasses, Stored, DoneIsRestored
<1>7. Dumped'
  BY <1>1 DEF StopNode, UpNode, GatePasses, Dumped, DumpGone, Stored
<1>8. Walked'
  <2>1. CASE StopNode
    BY <2>1 DEF StopNode, Walked, Started
  <2>2. CASE UpNode
    <3>1. \A n \in Node : n # k => cont'[n] = cont[n]
      BY <2>2 DEF UpNode, Up, ServiceType
    <3>2. cmd = "start" => k' = k /\ pc' = "gate"
      BY <2>2 DEF UpNode
    <3>3. \A n \in Node : n < k => n # k
      BY DEF SessionType, Node
    <3>4. QED
      BY <2>2, <1>1, <3>1, <3>2, <3>3 DEF UpNode, Walked, Started
  <2>3. CASE GatePasses
    <3>1. \A n \in Node : n < k + 1 => n < k \/ n = k
      BY ServiceAssumption DEF SessionType, Node
    <3>2. QED
      BY <2>3, <1>1, <3>1 DEF GatePasses, Walked, Started
  <2>4. QED
    BY <2>1, <2>2, <2>3
<1>9. QED
  BY <1>2, <1>3, <1>4, <1>5, <1>6, <1>7, <1>8

Begins ==
  BeginShutdown \/ DeclineShutdown \/ BeginStart \/ BeginReplay \/ BeginRestore \/ DeclineRestore

Ends == VerifyShutdown \/ GateFails \/ ClearFlag \/ VerifyRestore

\* Where commands begin, and where they end.
LEMMA CommandsInv ==
  ASSUME IInv, Begins \/ Ends
  PROVE  IInv'
<1> USE DEF IInv, TypeOK, service, store, record, session, bounds, Begin, End
<1>1. UNCHANGED <<service, store, bounds>>
  BY DEF Begins, BeginShutdown, DeclineShutdown, BeginStart, BeginReplay, BeginRestore, DeclineRestore,
         Ends, VerifyShutdown, GateFails, ClearFlag, VerifyRestore
<1>2. ServiceType' /\ StoreType'
  BY <1>1 DEF ServiceType, StoreType
<1>3. BoundsType'
  BY <1>1 DEF BoundsType
<1>4. RecordType'
  BY DEF RecordType, Begins, BeginShutdown, DeclineShutdown, BeginStart, BeginReplay, BeginRestore,
         DeclineRestore, Ends, VerifyShutdown, GateFails, ClearFlag, VerifyRestore
<1>5. CASE Begins
  <2>1. SessionType'
    BY <1>5, Bounds DEF SessionType, StoreType, Stages,
       Begins, BeginShutdown, DeclineShutdown, BeginStart, BeginReplay, BeginRestore, DeclineRestore
  <2>2. \A n \in Node : ~(n < 1)
    BY DEF Node
  <2>3. Quieted'
    BY <1>5, <1>1, <2>2, Bounds DEF Quieted, Stopped, SwapIsQuiet, MigratesAlone,
       Begins, BeginShutdown, DeclineShutdown, BeginStart, BeginReplay, BeginRestore, DeclineRestore
  <2>4. Stored' /\ DoneIsRestored'
    BY <1>5, <1>1 DEF Stored, DoneIsRestored,
       Begins, BeginShutdown, DeclineShutdown, BeginStart, BeginReplay, BeginRestore, DeclineRestore
  <2>5. Dumped' /\ Walked'
    BY <1>5, <1>1, <2>2 DEF Dumped, DumpGone, Walked, Started,
       Begins, BeginShutdown, DeclineShutdown, BeginStart, BeginReplay, BeginRestore, DeclineRestore
  <2>6. QED
    BY <1>2, <1>3, <1>4, <2>1, <2>3, <2>4, <2>5
<1>6. CASE Ends
  <2>1. cmd' = "none" /\ pc' = "stop" /\ k' = 1 /\ at' = at
    BY <1>6 DEF Ends, VerifyShutdown, GateFails, ClearFlag, VerifyRestore
  <2>2. SessionType'
    BY <2>1, Bounds DEF SessionType, Stages
  <2>3. Quieted'
    BY <2>1, Bounds DEF Quieted, Stopped, SwapIsQuiet, MigratesAlone
  <2>4. Stored' /\ DoneIsRestored'
    BY <1>6, <1>1, <2>1 DEF Stored, DoneIsRestored,
       Ends, VerifyShutdown, GateFails, ClearFlag, VerifyRestore
  <2>5. Dumped' /\ Walked'
    BY <1>6, <1>1, <2>1 DEF Dumped, DumpGone, Walked, Started,
       Ends, VerifyShutdown, GateFails, ClearFlag, VerifyRestore
  <2>6. QED
    BY <1>2, <1>3, <1>4, <2>2, <2>3, <2>4, <2>5
<1>7. QED
  BY <1>5, <1>6

Cuts == Raise \/ Kill

\* Where a command is cut short.
LEMMA CutInv ==
  ASSUME IInv, Cuts
  PROVE  IInv'
<1> USE DEF IInv, TypeOK, service, store, record, session, bounds, End
<1>1. UNCHANGED <<service, primary, reboots, moves>> /\ flag' \in {flag, "failed"}
  BY DEF Cuts, Raise, Kill, CutShort
<1>2. /\ cmd # "none" /\ cmd' = "none" /\ pc' = "stop" /\ k' = 1 /\ at' = at
      /\ kills < MaxKills /\ kills' = kills + 1
      /\ data' \in Left
  BY DEF Cuts, Raise, Kill, CutShort
<1>3. rst' = rst \/ rst' = "failed"
  BY DEF Cuts, Raise, Kill
<1>4. data' = data \/ cmd = "restore"
  BY <1>2 DEF Left
<1>5. data' \in Databases
  BY <1>2 DEF StoreType, Left, Databases
<1>6. \/ dumps' = dumps
      \/ cmd = "restore" /\ dumps' = dumps \union {at}
  BY DEF Cuts, Raise, Kill, CutShort
<1>7. ServiceType' /\ StoreType' /\ RecordType' /\ SessionType' /\ BoundsType'
  <2>1. StoreType' /\ ServiceType' /\ RecordType'
    BY <1>1, <1>3, <1>5, <1>6 DEF StoreType, SessionType, ServiceType, RecordType
  <2>2. SessionType'
    BY <1>2, Bounds DEF SessionType, Stages
  <2>3. BoundsType'
    BY <1>1, <1>2, Counted DEF BoundsType
  <2>4. QED
    BY <2>1, <2>2, <2>3
<1>8. Quieted'
  BY <1>2, Bounds DEF Quieted, Stopped, SwapIsQuiet, MigratesAlone
<1>9. cmd = "restore" => rst' # "done"
  BY <1>3 DEF Stored
<1>10. Stored' /\ DoneIsRestored'
  BY <1>2, <1>3, <1>4, <1>9 DEF Stored, DoneIsRestored
<1>11. Dumped' /\ Walked'
  BY <1>2, <1>3, <1>6, <1>9 DEF Dumped, DumpGone, Walked, Started
<1>12. QED
  BY <1>7, <1>8, <1>10, <1>11

Swaps == Upload \/ DropCreate \/ Load \/ Normalise \/ WorkerHealthy

Refused == UploadCorrupt \/ DropFails \/ LoadFails \/ NormaliseFails

\* The steps of a restore that swap the database, and their failures.
LEMMA SwapInv ==
  ASSUME IInv, Swaps \/ Refused
  PROVE  IInv'
<1> USE DEF IInv, TypeOK, service, store, record, session, bounds, environment, End, Failed, Stage
<1>1. UNCHANGED <<service, flag, primary, at, bounds>> /\ cmd = "restore"
  BY DEF Swaps, Upload, DropCreate, Load, Normalise, WorkerHealthy,
         Refused, UploadCorrupt, DropFails, LoadFails, NormaliseFails
<1>2. rst' = rst \/ rst' = "failed"
  BY DEF Swaps, Upload, DropCreate, Load, Normalise, WorkerHealthy,
         Refused, UploadCorrupt, DropFails, LoadFails, NormaliseFails
<1>3. k' = 1 /\ pc' \in Stages /\ cmd' \in {"none", "restore"}
  BY <1>1 DEF Stages, Swaps, Upload, DropCreate, Load, Normalise, WorkerHealthy,
         Refused, UploadCorrupt, DropFails, LoadFails, NormaliseFails
<1>4. ServiceType' /\ BoundsType' /\ RecordType' /\ SessionType'
  BY <1>1, <1>2, <1>3, Bounds DEF ServiceType, BoundsType, RecordType, SessionType
<1>5. StoreType'
  <2>1. data' \in Databases
    BY DEF StoreType, Databases, Migrated, Swaps, Upload, DropCreate, Load, Normalise, WorkerHealthy,
           Refused, UploadCorrupt, DropFails, LoadFails, NormaliseFails
  <2>2. dumps' \subseteq Node
    BY DEF StoreType, SessionType, Swaps, Upload, DropCreate, Load, Normalise, WorkerHealthy,
           Refused, UploadCorrupt, DropFails, LoadFails, NormaliseFails
  <2>3. QED
    BY <1>1, <2>1, <2>2 DEF StoreType
<1>6. Quieted'
  <2>1. Stopped'
    BY <1>1, <1>3, Bounds DEF Quieted, Stopped, Swaps, Upload, DropCreate, Load, Normalise, WorkerHealthy,
           Refused, UploadCorrupt, DropFails, LoadFails, NormaliseFails
  <2>2. SwapIsQuiet' /\ MigratesAlone'
    BY <1>1 DEF Quieted, SwapIsQuiet, MigratesAlone, Swaps, Upload, DropCreate, Load, Normalise,
           WorkerHealthy, Refused, UploadCorrupt, DropFails, LoadFails, NormaliseFails
  <2>3. QED
    BY <2>1, <2>2 DEF Quieted
<1>7. Stored' /\ DoneIsRestored'
  BY <1>1, <1>2 DEF Stored, DoneIsRestored, Usable, Migrated, Swaps, Upload, DropCreate, Load, Normalise,
           WorkerHealthy, Refused, UploadCorrupt, DropFails, LoadFails, NormaliseFails
<1>8. Dumped' /\ Walked'
  BY <1>1, <1>2 DEF Dumped, DumpGone, Walked, Started, Stored, Swaps, Upload, DropCreate, Load, Normalise,
           WorkerHealthy, Refused, UploadCorrupt, DropFails, LoadFails, NormaliseFails
<1>9. QED
  BY <1>4, <1>5, <1>6, <1>7, <1>8

\* The steps of a restore that bring authentik back up.
LEMMA BackUpInv ==
  ASSUME IInv, WorkerAlone \/ ServerUp \/ ServerHealthy
  PROVE  IInv'
<1> USE DEF IInv, TypeOK, service, store, record, session, bounds, Stage
<1>1. UNCHANGED <<store, record, bounds, cmd, at>> /\ cmd = "restore" /\ k' = 1
  BY DEF WorkerAlone, ServerUp, ServerHealthy
<1>2. ServiceType'
  BY DEF ServiceType, WorkerAlone, ServerUp, ServerHealthy, Up, Containers
<1>3. SessionType'
  BY <1>1, Bounds DEF SessionType, Stages, WorkerAlone, ServerUp, ServerHealthy
<1>4. StoreType' /\ RecordType' /\ BoundsType'
  BY <1>1 DEF StoreType, RecordType, BoundsType
<1>5. Stopped' /\ SwapIsQuiet'
  BY <1>1, Bounds DEF Stopped, SwapIsQuiet, WorkerAlone, ServerUp, ServerHealthy
<1>6. MigratesAlone'
  <2>1. CASE WorkerAlone
    BY <2>1 DEF WorkerAlone, ServiceType, Quieted, SwapIsQuiet, MigratesAlone
  <2>2. CASE ServerUp \/ ServerHealthy
    BY <2>2 DEF ServerUp, ServerHealthy, MigratesAlone
  <2>3. QED
    BY <2>1, <2>2
<1>7. Stored' /\ DoneIsRestored'
  BY <1>1 DEF Stored, DoneIsRestored, WorkerAlone, ServerUp, ServerHealthy
<1>8. Dumped' /\ Walked'
  BY <1>1 DEF Dumped, DumpGone, Walked, Started, WorkerAlone, ServerUp, ServerHealthy
<1>9. QED
  BY <1>2, <1>3, <1>4, <1>5, <1>6, <1>7, <1>8 DEF Quieted

THEOREM Invariance == Spec => []IInv
<1>1. IInv /\ [Next]_vars => IInv'
  <2> SUFFICES ASSUME IInv, [Next]_vars PROVE IInv'
    OBVIOUS
  <2>1. CASE UNCHANGED vars
    BY <2>1 DEF IInv, TypeOK, ServiceType, StoreType, RecordType, SessionType, BoundsType,
                Quieted, Stopped, SwapIsQuiet, MigratesAlone, Stored, DoneIsRestored,
                Dumped, DumpGone, Walked, Started, vars, service, store, record, session, bounds
  <2>2. CASE (\E n \in Node : Reboot(n) \/ Healthy(n)) \/ MoveLeader
    BY <2>2, Bounds, NodesInv
  <2>3. CASE StopNode \/ UpNode \/ GatePasses
    BY <2>3, WalkInv
  <2>4. CASE Begins \/ Ends
    BY <2>4, CommandsInv
  <2>5. CASE Swaps \/ Refused
    BY <2>5, SwapInv
  <2>6. CASE WorkerAlone \/ ServerUp \/ ServerHealthy
    BY <2>6, BackUpInv
  <2>7. CASE Cuts
    BY <2>7, CutInv
  <2>8. QED
    BY <2>1, <2>2, <2>3, <2>4, <2>5, <2>6, <2>7 DEF Next, Begins, Ends, Cuts, Swaps, Refused
<1>2. QED
  BY InitInv, <1>1, PTL DEF Spec

\* The containers, the database and the session stay in their types.
THEOREM TypeCorrect == Spec => []TypeOK
BY Invariance, PTL DEF IInv

\* For any fleet: the restore swaps the database with no node up but those
\* that rebooted since it stopped them.
THEOREM Quiet == Spec => []SwapIsQuiet
BY Invariance, PTL DEF IInv, Quieted

\* For any fleet and leader: one worker migrates the restored data.
THEOREM Alone == Spec => []MigratesAlone
BY Invariance, PTL DEF IInv, Quieted

\* For any fleet: a restore recorded done has its data loaded and migrated.
THEOREM DoneRestored == Spec => []DoneIsRestored
BY Invariance, PTL DEF IInv

\* For any fleet: the node a restore recorded done loaded from keeps no dump.
THEOREM NoDump == Spec => []DumpGone
BY Invariance, PTL DEF IInv, Dumped

\* For any fleet: start gives up its flag only when every node is up.
THEOREM StartsAll == Spec => StartReachesAll
<1>1. IInv /\ [Next]_vars =>
        [flag # "started" /\ flag' = "started" =>
           \A n \in Node : cont[n] \in {"starting", "healthy"}]_vars
  <2> SUFFICES ASSUME IInv, Next, flag # "started", flag' = "started"
      PROVE \A n \in Node : cont[n] \in {"starting", "healthy"}
    BY DEF vars, record
  <2> USE DEF service, store, record, session, bounds, environment
  <2>1. ClearFlag /\ cmd = "start"
    BY DEF Next, Reboot, Healthy, MoveLeader, Raise, Kill, BeginShutdown, DeclineShutdown, StopNode,
       VerifyShutdown, BeginStart, BeginReplay, UpNode, GatePasses, GateFails, ClearFlag, BeginRestore,
       DeclineRestore, Upload, UploadCorrupt, DropCreate, DropFails, Load, LoadFails, Normalise,
       NormaliseFails, WorkerAlone, WorkerHealthy, ServerUp, ServerHealthy, VerifyRestore, CutShort
  <2>2. pc = "up" /\ \A n \in Node : n < k
    BY <2>1, ServiceAssumption DEF ClearFlag, Node
  <2>3. QED
    BY <2>1, <2>2 DEF IInv, Walked, Started
<1>2. QED
  BY Invariance, <1>1, PTL DEF Spec, StartReachesAll

-----------------------------------------------------------------------------
(* One swap.                                                                *)

Finished == rst = "done"

LEMMA Flags ==
  /\ Swapping \in BOOLEAN /\ InUse \in BOOLEAN /\ Finished \in BOOLEAN
  /\ Swapping' \in BOOLEAN /\ InUse' \in BOOLEAN /\ Finished' \in BOOLEAN
BY Zenon DEF Swapping, InUse, Finished

\* Nobody uses the database, and no restore is recorded, during a swap.
LEMMA SwapAlone ==
  ASSUME IInv, Swapping
  PROVE  ~InUse /\ ~Finished
BY DEF IInv, Quieted, SwapIsQuiet, Stored, Swapping, InUse, Finished

\* Only the verify of the restore records it, and only over restored data.
LEMMA RecordFrame ==
  ASSUME Next, rst' = "done"
  PROVE  \/ rst = "done"
         \/ VerifyRestore
<1> USE DEF service, store, record, session, bounds, environment
<1>1. QED
  BY DEF Next, Reboot, Healthy, MoveLeader, Raise, Kill, BeginShutdown, DeclineShutdown, StopNode,
     VerifyShutdown, BeginStart, BeginReplay, UpNode, GatePasses, GateFails, ClearFlag, BeginRestore,
     DeclineRestore, Upload, UploadCorrupt, DropCreate, DropFails, Load, LoadFails, Normalise,
     NormaliseFails, WorkerAlone, WorkerHealthy, ServerUp, ServerHealthy, VerifyRestore, Failed

LEMMA DataFrame ==
  ASSUME Next
  PROVE  \/ data' = data
         \/ \E n \in Node : Healthy(n)
         \/ DropCreate \/ DropFails \/ Load \/ LoadFails \/ Normalise \/ WorkerHealthy \/ Cuts
<1> USE DEF service, store, record, session, bounds, environment
<1>1. QED
  BY DEF Next, Cuts, Reboot, MoveLeader, BeginShutdown, DeclineShutdown, StopNode,
     VerifyShutdown, BeginStart, BeginReplay, UpNode, GatePasses, GateFails, ClearFlag, BeginRestore,
     DeclineRestore, Upload, UploadCorrupt, NormaliseFails, WorkerAlone, ServerUp, ServerHealthy,
     VerifyRestore

\* Whatever leaves the data alone and records nothing is the service's coming and going.
LEMMA Serving ==
  ASSUME IInv', Held' = Held, rst' = "done" => rst = "done"
  PROVE  Restore!Serve
<1>1. Swapping' => ~InUse' /\ ~Finished'
  BY DEF IInv, Quieted, SwapIsQuiet, Stored, Swapping, InUse, Finished
<1>2. QED
  BY <1>1, Flags DEF Restore!Serve, Finished

LEMMA Migrating ==
  ASSUME IInv, (\E n \in Node : Healthy(n)) \/ WorkerHealthy, data' # data
  PROVE  Restore!Migrate
<1>1. \/ data = "void" /\ data' = "app"
      \/ data = "owned" /\ data' = "migrated"
  BY DEF Healthy, WorkerHealthy, Migrated
<1>2. \/ Held = "void" /\ Held' = "app"
      \/ Held = "loaded" /\ Held' = "restored"
  BY <1>1 DEF Held
<1>3. rst # "done" /\ rst' = rst
  BY <1>1 DEF IInv, DoneIsRestored, Healthy, WorkerHealthy, record
<1>4. Swapping' <=> Swapping
  BY DEF Healthy, WorkerHealthy, Swapping, Stage, session
<1>5. InUse' <=> InUse
  <2>1. /\ \A n \in Node : cont'[n] = "off" <=> cont[n] = "off"
        /\ woken' = woken
    BY DEF IInv, TypeOK, ServiceType, Healthy, WorkerHealthy, service
  <2>2. QED
    BY <2>1 DEF InUse
<1>6. Swapping' = Swapping /\ InUse' = InUse
  BY <1>4, <1>5, Flags, Zenon
<1>7. QED
  BY <1>2, <1>3, <1>6 DEF Restore!Migrate

\* DROP, CREATE and psql, what came of them, and what is left when they are cut.
LEMMA SwapsData ==
  ASSUME IInv, DropCreate \/ DropFails \/ Load \/ LoadFails \/ Cuts, Held' # Held
  PROVE  Restore!Next
<1>1. /\ cmd = "restore"
      /\ \/ pc = "drop" /\ data' \in {"gone", "void"}
         \/ pc = "load" /\ (data' = "part" \/ (data = "void" /\ data' = "loaded"))
  <2>1. CASE DropCreate \/ DropFails \/ Load \/ LoadFails
    BY <2>1 DEF DropCreate, DropFails, Load, LoadFails, Held
  <2>2. CASE Cuts
    <3>1. data' \in Left /\ data' # data
      BY <2>2 DEF Cuts, Raise, Kill, CutShort, Held
    <3>2. ~(cmd = "restore" /\ pc = "own")
      BY <3>1 DEF Left, IInv, Stored, Held
    <3>3. QED
      BY <3>1, <3>2 DEF Left
  <2>3. QED
    BY <2>1, <2>2
<1>2. Swapping /\ ~InUse /\ ~Finished
  <2>1. Swapping
    BY <1>1 DEF Swapping
  <2>2. QED
    BY <2>1, SwapAlone
<1>3. InUse' = InUse
  BY DEF DropCreate, DropFails, Load, LoadFails, Cuts, Raise, Kill, CutShort, InUse, service
<1>4. (rst' = "done") = (rst = "done")
  BY <1>1, <1>2 DEF DropCreate, DropFails, Load, LoadFails, Cuts, Raise, Kill, Failed, record, Finished
<1>5. Restore!GoesOn
  <2>1. ~InUse'
    BY <1>2, <1>3
  <2>2. QED
    BY <2>1, <1>4, Flags DEF Restore!GoesOn, Finished
<1>6. CASE data' \in {"gone", "void"}
  <2>1. Held' \in {"gone", "void"}
    BY <1>6 DEF Held
  <2>2. QED
    BY <1>2, <1>5, <2>1 DEF Restore!Drop, Restore!Next, Finished
<1>7. CASE data' = "part" \/ (data = "void" /\ data' = "loaded")
  <2>1. \/ Held = "void" /\ Held' = "loaded"
        \/ Held' = "part"
    BY <1>7 DEF Held
  <2>2. QED
    BY <1>2, <1>5, <2>1 DEF Restore!Load, Restore!Next, Finished
<1>8. QED
  BY <1>1, <1>6, <1>7

LEMMA Recording ==
  ASSUME IInv, VerifyRestore, rst' = "done"
  PROVE  Restore!Finish
<1>1. Held = "restored" /\ Held' = Held
  BY DEF IInv, Stored, VerifyRestore, store, Held
<1>2. ~Swapping /\ ~Swapping'
  BY DEF VerifyRestore, Swapping, End
<1>3. InUse' = InUse
  BY DEF VerifyRestore, service, InUse
<1>4. Swapping' = Swapping
  BY <1>2, Flags, Zenon
<1>5. QED
  BY <1>1, <1>2, <1>3, <1>4 DEF Restore!Finish

LEMMA RestoreStep ==
  ASSUME IInv, IInv', [Next]_vars
  PROVE  [Restore!Next]_<<Held, Swapping, InUse, (rst = "done")>>
<1>1. CASE UNCHANGED vars
  BY <1>1 DEF vars, service, store, record, session, bounds, Held, Swapping, InUse
<1>2. CASE Next /\ Held' = Held /\ (rst' = "done" => rst = "done")
  BY <1>2, Serving DEF Restore!Next
<1>3. CASE Next /\ rst' = "done" /\ rst # "done"
  BY <1>3, RecordFrame, Recording DEF Restore!Next
<1>4. CASE Next /\ Held' # Held
  <2>1. data' # data
    BY <1>4 DEF Held
  <2>2. ~Normalise
    <3>1. Normalise => Held' = Held
      BY DEF Normalise, IInv, Stored, Held
    <3>2. QED
      BY <1>4, <3>1
  <2>3. QED
    BY <1>4, <2>1, <2>2, DataFrame, Migrating, SwapsData DEF Restore!Next
<1>5. QED
  BY <1>1, <1>2, <1>3, <1>4

\* For any fleet, and any reboots, leader moves and cuts: the restore phase implements
\* the swap of RestoredDatabase (restore_phase.py:21-22, 262-310), and so do all the
\* other commands by leaving the database alone.
THEOREM OneSwap == Spec => ImplementsRestore
<1>1. Init => Restore!Init
  <2>1. Init => Held = "app" /\ ~Swapping /\ ~Finished
    BY DEF Init, Held, Swapping, Finished
  <2>2. QED
    BY <2>1, Flags DEF Restore!Init, Finished
<1>2. IInv /\ IInv' /\ [Next]_vars
      => [Restore!Next]_<<Held, Swapping, InUse, (rst = "done")>>
  BY RestoreStep
<1>3. QED
  BY <1>1, <1>2, Invariance, PTL DEF Spec, ImplementsRestore, Restore!Spec

-----------------------------------------------------------------------------
(* The contract of the runner.                                              *)

Entries == [p \in {"restore"} |-> rst]

LEMMA EntryWritten ==
  \A s : rst' = s => Entries' = [Entries EXCEPT !["restore"] = s]
BY DEF Entries

LEMMA RestoreTurns ==
  /\ rst # "done" => {"restore"} \in Contract!Turns(Entries)
  /\ rst' # "done" => {"restore"} \in Contract!Turns(Entries')
  /\ {} \in Contract!Turns(Entries')
<1>1. rst # "done" => {"restore"} \in Contract!Turns(Entries)
  BY DEF Contract!Turns, Entries
<1>2. rst' # "done" => {"restore"} \in Contract!Turns(Entries')
  BY DEF Contract!Turns, Entries
<1>3. QED
  BY <1>1, <1>2 DEF Contract!Turns

LEMMA OthersKeep ==
  ASSUME UNCHANGED rst,
         \/ cmd' = cmd
         \/ cmd # "restore" /\ cmd' # "restore"
  PROVE  UNCHANGED <<Entries, Under>>
BY DEF Entries, Under

\* The restore ends: done, failed, or as it was recorded.
LEMMA EndsKeep ==
  ASSUME cmd = "restore", cmd' = "none", rst' \in {"done", "failed", rst}
  PROVE  Contract!Next
<1>1. Under = {"restore"} /\ Under' = {}
  BY DEF Under
<1>2. CASE rst' = "done"
  <2>1. Contract!Verified("restore")
    BY <1>1, <1>2, RestoreTurns, EntryWritten DEF Contract!Verified, Contract!Written, Entries
  <2>2. QED
    BY <2>1 DEF Contract!Next
<1>3. CASE rst' = "failed"
  <2>1. Contract!Failed("restore")
    BY <1>1, <1>3, EntryWritten DEF Contract!Failed, Contract!Written, Entries
  <2>2. QED
    BY <2>1 DEF Contract!Next
<1>4. CASE rst' = rst
  <2>1. Contract!Cut("restore")
    BY <1>1, <1>4 DEF Contract!Cut, Entries
  <2>2. QED
    BY <2>1 DEF Contract!Next
<1>5. QED
  BY <1>2, <1>3, <1>4

LEMMA RunnerStep ==
  ASSUME [Next]_vars
  PROVE  [Contract!Next]_<<Entries, Under>>
<1> USE DEF record, session, Stage, GoOn, End, Begin
<1>1. CASE UNCHANGED vars
  BY <1>1, OthersKeep DEF vars
<1>2. CASE \/ \E n \in Node : Reboot(n) \/ Healthy(n)
           \/ MoveLeader \/ StopNode \/ UpNode \/ GatePasses
           \/ DeclineShutdown \/ Upload \/ DropCreate \/ Load \/ Normalise
           \/ WorkerAlone \/ WorkerHealthy \/ ServerUp \/ ServerHealthy
  <2>1. rst' = rst /\ cmd' = cmd
    BY <1>2 DEF Reboot, Healthy, MoveLeader, StopNode, UpNode, GatePasses, DeclineShutdown, Upload,
       DropCreate, Load, Normalise, WorkerAlone, WorkerHealthy, ServerUp, ServerHealthy
  <2>2. QED
    BY <2>1, OthersKeep
<1>3. CASE BeginShutdown \/ BeginStart \/ BeginReplay \/ VerifyShutdown \/ ClearFlag
  <2>1. rst' = rst /\ cmd # "restore" /\ cmd' # "restore"
    BY <1>3 DEF BeginShutdown, BeginStart, BeginReplay, VerifyShutdown, ClearFlag
  <2>2. QED
    BY <2>1, OthersKeep
<1>4. CASE BeginRestore
  <2>1. rst' = "pending" /\ Under = {} /\ Under' = {"restore"}
    BY <1>4 DEF BeginRestore, Under
  <2>2. Entries' = [p \in {"restore"} |-> IF p \in {"restore"} THEN "pending" ELSE Entries[p]]
    BY <2>1 DEF Entries
  <2>3. Contract!Provision
    BY <2>1, <2>2, RestoreTurns DEF Contract!Provision, Entries
  <2>4. QED
    BY <2>3 DEF Contract!Next
<1>5. CASE DeclineRestore
  <2>1. rst # "done" /\ rst' = "skipped" /\ Under = {} /\ Under' = {}
    BY <1>5 DEF DeclineRestore, Under
  <2>2. Contract!Declined("restore")
    BY <2>1, RestoreTurns, EntryWritten DEF Contract!Declined, Contract!Written, Entries
  <2>3. QED
    BY <2>2 DEF Contract!Next
<1>6. CASE Raise \/ Kill \/ GateFails
  <2>1. /\ cmd = "restore" => rst' \in {"failed", rst}
        /\ cmd # "restore" => rst' = rst
        /\ cmd' = "none"
    BY <1>6 DEF Raise, Kill, GateFails, CutShort
  <2>2. QED
    BY <2>1, EndsKeep, OthersKeep
<1>7. CASE UploadCorrupt \/ DropFails \/ LoadFails \/ NormaliseFails \/ VerifyRestore
  <2>1. cmd = "restore" /\ cmd' = "none" /\ rst' \in {"done", "failed"}
    BY <1>7 DEF UploadCorrupt, DropFails, LoadFails, NormaliseFails, VerifyRestore, Failed
  <2>2. QED
    BY <2>1, EndsKeep
<1>8. QED
  BY <1>1, <1>2, <1>3, <1>4, <1>5, <1>6, <1>7 DEF Next

\* The restore of a fleet comes under way and is recorded as the contract of the runner
\* says (base.py:134-185); no shutdown, start or replay touches its entry.
THEOREM RunsAsRunner == Spec => ImplementsPipeline
<1>1. Init => Contract!Init
  BY DEF Init, Under, Contract!Init
<1>2. [Next]_vars => [Contract!Next]_<<Entries, Under>>
  BY RunnerStep
<1>3. QED
  BY <1>1, <1>2, PTL DEF Spec, ImplementsPipeline, Contract!Spec, Entries

=============================================================================
