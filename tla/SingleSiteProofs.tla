--------------------------- MODULE SingleSiteProofs ---------------------------
(***************************************************************************)
(* The single node, for any number of edits, reboots, containers that exit, *)
(* steps that fail and sessions cut short: authentik, then the proxy.       *)
(***************************************************************************)
EXTENDS SingleSite, SingleProxy, TLAPS

\* The site file is edited at most once per upset.
Edited == want.tag <= upsets + 1 /\ want.art <= upsets + 1

\* A phase that runs is not done, and a restore runs over a done authentik phase.
Ordered ==
  /\ pc \in AuthPlaces => auth # "done"
  /\ pc \in RestorePlaces => auth = "done" /\ rst # "done"

\* What the database holds at each step of the restore.
Stored ==
  /\ pc = "worker" => data = "loaded"
  /\ pc = "workergate" =>
       data \in {"loaded", "restored"} /\ (cont["worker"] = "healthy" => data = "restored")
  /\ pc \in {"server", "servergate", "mint", "check"} => data = "restored"
  /\ DoneIsRestored

\* From the restart on, whatever runs was made from what is on disk.
Current ==
  auth = "done" \/ pc \in {"gate", "verify"} =>
    \A c \in Apps : cont[c] # "off" => runs[c].tag = disk.tag

\* Minted at the last step, or known not to be.
Minted == rst = "done" \/ pc = "check" => token \/ unminted

IInv == TypeOK /\ Edited /\ Ordered /\ SwapIsQuiet /\ Stored /\ Current /\ Minted

Types == {"off", "starting", "healthy"}

LEMMA Absence == Absent \in Configs /\ Absent.tag = 0
BY SingleAssumption DEF Absent, Configs, Versions

\* An upset is counted, and an edit stays within the versions.
LEMMA Counted ==
  ASSUME TypeOK, Edited
  PROVE  /\ Upset => upsets' \in 0..MaxUpsets /\ upsets' = upsets + 1
         /\ want.tag \in Nat /\ want.art \in Nat
         /\ Upset => want.tag + 1 \in Versions /\ want.art + 1 \in Versions
BY SingleAssumption DEF TypeOK, Edited, Upset, Configs, Versions

\* `up -d` keeps the types, leaves the other containers alone, and whatever it
\* was asked for is made from the disk or already current.
LEMMA UpKeeps ==
  ASSUME NodeType, NEW cs \in SUBSET Apps, NEW again \in BOOLEAN, Up(cs, again)
  PROVE  /\ cont' \in [Apps -> Types] /\ runs' \in [Apps -> Configs]
         /\ \A c \in Apps \ cs : cont'[c] = cont[c] /\ runs'[c] = runs[c]
         /\ \A c \in cs : runs'[c].tag = disk.tag
         /\ \A c \in cs : cont[c] = "off" => cont'[c] = "starting"
BY DEF NodeType, Up, Stale, Types

LEMMA InitInv == Init => IInv
<1> SUFFICES ASSUME Init PROVE IInv
  OBVIOUS
<1>1. want \in Configs /\ want.tag = 1 /\ want.art = 1
  BY SingleAssumption DEF Init, Configs, Versions
<1>2. TypeOK
  <2>1. NodeType
    BY Absence DEF Init, NodeType
  <2>2. StoreType /\ RecordType
    BY DEF Init, StoreType, RecordType, Databases
  <2>3. upsets \in 0..MaxUpsets /\ pc \in Places
    BY SingleAssumption DEF Init, Places
  <2>4. QED
    BY <1>1, <2>1, <2>2, <2>3 DEF TypeOK
<1>3. Edited
  BY <1>1, SingleAssumption DEF Edited, Init
<1>4. Ordered /\ SwapIsQuiet /\ Stored /\ Current /\ Minted
  BY DEF Init, Ordered, SwapIsQuiet, Stored, DoneIsRestored, Current, Minted,
         AuthPlaces, RestorePlaces
<1>5. QED
  BY <1>2, <1>3, <1>4 DEF IInv

\* What a cut leaves: a database of another kind only where a restore was at it.
LEMMA CutData ==
  ASSUME IInv, CutShort
  PROVE  /\ StoreType' /\ unminted' = unminted
         /\ data' = data => token' = token
         /\ data' # data =>
              /\ rst # "done"
              /\ \/ pc = "drop" /\ data' \in {"gone", "void"}
                 \/ pc = "load" /\ (data' = "part" \/ (data = "void" /\ data' = "loaded"))
<1>1. data' \in Left /\ (data' = data => token' = token)
  BY DEF CutShort, IInv, TypeOK, StoreType
<1>2. StoreType' /\ unminted' = unminted
  BY <1>1 DEF CutShort, Left, Databases, IInv, TypeOK, StoreType
<1>3. data' # data =>
        \/ pc = "drop" /\ data' \in {"gone", "void"}
        \/ pc = "load" /\ (data' = "part" \/ (data = "void" /\ data' = "loaded"))
  BY <1>1 DEF Left
<1>4. pc \in {"drop", "load"} => rst # "done"
  BY DEF IInv, Ordered, RestorePlaces
<1>5. QED
  BY <1>1, <1>2, <1>3, <1>4

\* Steps that only move the session on, or end it: the nodes and the database stay.
LEMMA SessionInv ==
  ASSUME IInv,
         \/ \E named \in SUBSET {"authentik", "restore"} : Provision(named)
         \/ Decline \/ GateFails
  PROVE  IInv'
<1> USE DEF IInv
<1>1. UNCHANGED want /\ UNCHANGED node /\ UNCHANGED store
  BY DEF Provision, Decline, GateFails
<1>2. upsets' \in 0..MaxUpsets /\ upsets' >= upsets
  BY Counted DEF TypeOK, Provision, Decline, GateFails
<1>3. RecordType' /\ pc' \in {"idle", "push", "stop"}
  BY DEF TypeOK, RecordType, Provision, Enter, Decline, GateFails, Fails, Recorded, record
<1>4. TypeOK'
  BY <1>1, <1>2, <1>3 DEF TypeOK, NodeType, StoreType, node, store, Places, AuthPlaces, RestorePlaces
<1>5. Edited'
  BY <1>1, <1>2, <1>4 DEF Edited, TypeOK, Configs, Versions
<1>6. Ordered'
  BY <1>3 DEF Ordered, AuthPlaces, RestorePlaces, Provision, Enter, Decline, GateFails, Fails,
              Recorded, record
<1>7. /\ rst' = "done" => rst = "done"
      /\ auth' = "done" => auth = "done"
  BY DEF Provision, Decline, GateFails, Fails, Recorded, record
<1>8. SwapIsQuiet' /\ Stored' /\ Current' /\ Minted'
  BY <1>1, <1>3, <1>7 DEF SwapIsQuiet, Stored, DoneIsRestored, Current, Minted, node, store
<1>9. QED
  BY <1>4, <1>5, <1>6, <1>8

\* Where a session is cut short.
LEMMA CutInv ==
  ASSUME IInv, Raise \/ Kill
  PROVE  IInv'
<1> USE DEF IInv
<1>1. UNCHANGED want /\ UNCHANGED node /\ pc' = "idle" /\ CutShort
  BY DEF Raise, Kill, Fails
<1>2. upsets' \in 0..MaxUpsets /\ upsets' >= upsets
  BY Counted DEF TypeOK, Raise, Kill
<1>3. RecordType' /\ (auth' = "done" => auth = "done") /\ (rst' = "done" => rst = "done")
  BY DEF TypeOK, RecordType, Raise, Kill, Fails, Recorded, record
<1>4. TypeOK' /\ Edited'
  BY <1>1, <1>2, <1>3, CutData DEF TypeOK, Edited, NodeType, node, Places, Configs, Versions
<1>5. Ordered' /\ SwapIsQuiet' /\ Current'
  BY <1>1, <1>3 DEF Ordered, SwapIsQuiet, Current, node, AuthPlaces, RestorePlaces
<1>6. Stored' /\ Minted'
  BY <1>1, <1>3, CutData DEF Stored, DoneIsRestored, Minted
<1>7. QED
  BY <1>4, <1>5, <1>6

LEMMA EditInv ==
  ASSUME IInv, Edit
  PROVE  IInv'
<1> USE DEF IInv
<1>1. UNCHANGED <<node, store, record, pc>>
  BY DEF Edit
<1>2. upsets' \in 0..MaxUpsets /\ want' \in Configs /\ Edited'
  BY Counted DEF Edit, TypeOK, Edited, Configs
<1>3. TypeOK'
  BY <1>1, <1>2 DEF TypeOK, NodeType, StoreType, RecordType, node, store, record
<1>4. Ordered' /\ SwapIsQuiet' /\ Stored' /\ Current' /\ Minted'
  BY <1>1 DEF Ordered, SwapIsQuiet, Stored, DoneIsRestored, Current, Minted, node, store, record
<1>5. QED
  BY <1>2, <1>3, <1>4

\* What the containers do by themselves.
LEMMA ContainerInv ==
  ASSUME IInv, PgExits \/ \E c \in Apps : Healthy(c) \/ Exit(c)
  PROVE  IInv'
<1> USE DEF IInv
<1>1. UNCHANGED <<want, disk, unit, runs, dump, unminted, record, pc>>
  BY DEF PgExits, Healthy, Exit, store
<1>2. upsets' \in 0..MaxUpsets /\ upsets' >= upsets
  BY Counted DEF TypeOK, PgExits, Healthy, Exit
<1>3. cont' \in [Apps -> Types] /\ pg' \in BOOLEAN
  BY DEF TypeOK, NodeType, Types, PgExits, Healthy, Exit
<1>4. \A c \in Apps : cont[c] = "off" => cont'[c] = "off"
  BY DEF TypeOK, NodeType, PgExits, Healthy, Exit, CanHeal
<1>5. /\ data' \in Databases /\ token' \in BOOLEAN
      /\ token => token'
      /\ data = "restored" => data' = "restored"
      /\ data = "loaded" => data' \in {"loaded", "restored"}
  BY DEF TypeOK, StoreType, PgExits, Healthy, Exit, Databases, store
<1>6. TypeOK' /\ Edited'
  BY <1>1, <1>2, <1>3, <1>5
     DEF TypeOK, Edited, NodeType, StoreType, RecordType, record, Types, Configs, Versions
<1>7. Ordered' /\ SwapIsQuiet' /\ Minted' /\ Current'
  BY <1>1, <1>4, <1>5 DEF Ordered, SwapIsQuiet, Minted, Current, record, AuthPlaces, RestorePlaces, Apps
<1>8. Stored'
  <2>1. pc = "worker" => data' = "loaded"
    BY DEF SwapIsQuiet, Stored, PgExits, Healthy, Exit, CanHeal, store
  <2>2. ASSUME pc = "workergate", cont'["worker"] = "healthy"
        PROVE  data' = "restored"
    <3>1. "worker" \in Apps /\ data \in {"loaded", "restored"}
      BY <2>2 DEF Apps, Stored
    <3>2. CASE cont["worker"] = "healthy"
      BY <1>5, <2>2, <3>2 DEF Stored
    <3>3. CASE cont["worker"] # "healthy"
      BY <2>2, <3>1, <3>3 DEF TypeOK, NodeType, PgExits, Healthy, Exit
    <3>4. QED
      BY <3>2, <3>3
  <2>3. QED
    BY <1>1, <1>5, <2>1, <2>2 DEF Stored, DoneIsRestored, record
<1>9. QED
  BY <1>6, <1>7, <1>8

\* A reboot ends the session; the unit brings up whatever is on the disk.
LEMMA RebootInv ==
  ASSUME IInv, Reboot
  PROVE  IInv'
<1> USE DEF IInv
<1>1. UNCHANGED <<want, disk>> /\ pc' = "idle"
  BY DEF Reboot, Lost, Fails, node
<1>2. upsets' \in 0..MaxUpsets /\ upsets' >= upsets
  BY Counted DEF TypeOK, Reboot
<1>3. RecordType' /\ (auth' = "done" => auth = "done") /\ (rst' = "done" => rst = "done")
  BY DEF TypeOK, RecordType, Reboot, Lost, Fails, Recorded, record
<1>4. /\ StoreType' /\ unminted' = unminted
      /\ rst = "done" => data' = data /\ token' = token
  <2>1. CASE CutShort
    BY <2>1, CutData
  <2>2. CASE UNCHANGED store
    BY <2>2 DEF TypeOK, StoreType, store
  <2>3. CASE data = "none" /\ PgUp /\ UNCHANGED <<token, dump, unminted>>
    BY <2>3 DEF TypeOK, StoreType, PgUp, Databases, Stored, DoneIsRestored
  <2>4. QED
    BY <2>1, <2>2, <2>3 DEF Reboot
<1>5. NodeType' /\ (\/ UNCHANGED <<cont, runs>>
                   \/ \A c \in Apps : runs'[c].tag = disk.tag)
  <2>1. CASE disk = Absent
    BY <2>1 DEF TypeOK, NodeType, Reboot, node
  <2>2. CASE disk # Absent
    BY <2>2, UpKeeps DEF TypeOK, NodeType, Reboot, PgUp, Types
  <2>3. QED
    BY <2>1, <2>2
<1>6. TypeOK' /\ Edited'
  BY <1>1, <1>2, <1>3, <1>4, <1>5 DEF TypeOK, Edited, Places, Configs, Versions
<1>7. Ordered' /\ SwapIsQuiet' /\ Stored' /\ Minted'
  BY <1>1, <1>3, <1>4
     DEF Ordered, SwapIsQuiet, Stored, DoneIsRestored, Minted, AuthPlaces, RestorePlaces
<1>8. Current'
  BY <1>1, <1>3, <1>5 DEF Current
<1>9. QED
  BY <1>6, <1>7, <1>8

\* The authentik phase: what it starts, it starts from what it has pushed.
LEMMA AuthInv ==
  ASSUME IInv, AuthStep
  PROVE  IInv'
<1> USE DEF IInv
<1>1. want' = want /\ flag' = flag /\ dump' = dump /\ unminted' = unminted
  BY DEF AuthStep, Push, Restart, RestartFails, Gate, VerifyAuth, Fails, Recorded, Goto,
         store, record
<1>2. upsets' \in 0..MaxUpsets /\ upsets' >= upsets
  BY Counted DEF TypeOK, AuthStep, Push, Restart, RestartFails, Gate, VerifyAuth
<1>3. RecordType' /\ rst' = rst /\ pc' \in AuthPlaces \cup {"idle", "stop"}
  BY DEF TypeOK, RecordType, AuthStep, Push, Restart, RestartFails, Gate, VerifyAuth, Fails,
         Recorded, Goto, Enter, record, AuthPlaces, RestorePlaces
<1>4. StoreType' /\ token' = token /\ (data = "restored" => data' = "restored")
  BY <1>1 DEF TypeOK, StoreType, AuthStep, Push, Restart, RestartFails, Gate, VerifyAuth, PgUp,
         Databases, store
<1>5. NodeType'
  <2>1. CASE Push \/ Gate \/ VerifyAuth
    BY <2>1 DEF TypeOK, NodeType, Push, Gate, VerifyAuth, node
  <2>2. CASE Restart
    BY <2>2, UpKeeps DEF TypeOK, NodeType, Restart, PgUp, Types
  <2>3. CASE RestartFails
    BY <2>3 DEF TypeOK, NodeType, RestartFails
  <2>4. QED
    BY <2>1, <2>2, <2>3 DEF AuthStep
<1>6. TypeOK' /\ Edited'
  BY <1>1, <1>2, <1>3, <1>4, <1>5
     DEF TypeOK, Edited, Places, AuthPlaces, RestorePlaces, Configs, Versions
<1>7. Ordered'
  BY DEF Ordered, AuthStep, Push, Restart, RestartFails, Gate, VerifyAuth, Fails, Recorded, Goto,
         Enter, record, AuthPlaces, RestorePlaces
<1>8. SwapIsQuiet' /\ Stored' /\ Minted'
  BY <1>1, <1>3, <1>4
     DEF SwapIsQuiet, Stored, DoneIsRestored, Minted, AuthPlaces, RestorePlaces
<1>9. Current'
  <2>1. CASE Push
    BY <2>1 DEF Current, Ordered, Push, Goto, record, AuthPlaces
  <2>2. CASE Restart
    BY <2>2, UpKeeps DEF TypeOK, Current, Restart
  <2>3. CASE RestartFails
    BY <2>3 DEF Current, RestartFails, Fails, Recorded, AuthPlaces
  <2>4. CASE Gate \/ VerifyAuth
    BY <2>4 DEF Current, Gate, VerifyAuth, node
  <2>5. QED
    BY <2>1, <2>2, <2>3, <2>4 DEF AuthStep
<1>10. QED
  BY <1>6, <1>7, <1>8, <1>9

\* shutdown and start.
LEMMA LifecycleInv ==
  ASSUME IInv, LifecycleStep
  PROVE  IInv'
<1> USE DEF IInv
<1>1. UNCHANGED <<want, disk, unit, token, dump, unminted, auth, rst, upsets>>
  BY DEF LifecycleStep, BeginShutdown, Halt, VerifyShutdown, BeginStart, StartUp, StartGate,
         ClearFlag, Goto, node, store, record
<1>2. RecordType' /\ pc' \in StartPlaces \cup {"idle", "halt", "halted"}
  BY <1>1 DEF TypeOK, RecordType, LifecycleStep, BeginShutdown, Halt, VerifyShutdown, BeginStart,
         StartUp, StartGate, ClearFlag, Goto, record, StartPlaces
<1>3. StoreType' /\ (data = "restored" => data' = "restored")
  BY <1>1 DEF TypeOK, StoreType, LifecycleStep, BeginShutdown, Halt, VerifyShutdown, BeginStart,
         StartUp, StartGate, ClearFlag, PgUp, Databases, store
<1>4. NodeType' /\ Current'
  <2>1. CASE BeginShutdown \/ VerifyShutdown \/ BeginStart \/ StartGate \/ ClearFlag
    BY <1>1, <1>2, <2>1 DEF TypeOK, NodeType, Current, BeginShutdown, VerifyShutdown, BeginStart,
         StartGate, ClearFlag, node, StartPlaces
  <2>2. CASE Halt
    BY <1>1, <2>2 DEF TypeOK, NodeType, Current, Halt, Goto
  <2>3. CASE StartUp
    BY <1>1, <2>3, UpKeeps, ZenonT(40) DEF TypeOK, NodeType, Current, StartUp, PgUp, Types
  <2>4. QED
    BY <2>1, <2>2, <2>3 DEF LifecycleStep
<1>5. TypeOK' /\ Edited'
  BY <1>1, <1>2, <1>3, <1>4 DEF TypeOK, Edited, Places
<1>6. Ordered' /\ SwapIsQuiet' /\ Stored' /\ Minted'
  BY <1>1, <1>2, <1>3
     DEF Ordered, SwapIsQuiet, Stored, DoneIsRestored, Minted, AuthPlaces, RestorePlaces,
         StartPlaces
<1>7. QED
  BY <1>4, <1>5, <1>6

\* The restore, while it swaps the database ...
LEMMA SwapInv ==
  ASSUME IInv, Stop \/ Upload \/ UploadCorrupt \/ Drop \/ DropFails \/ Load \/ LoadFails
  PROVE  IInv'
<1> USE DEF IInv
<1> USE DEF Stop, Upload, UploadCorrupt, Drop, DropFails, Load, LoadFails
<1>1. UNCHANGED <<want, disk, unit, pg, runs, auth, flag, unminted>>
  BY DEF Goto, Fails, Recorded, node, store, record, AuthPlaces
<1>2. upsets' \in 0..MaxUpsets /\ upsets' >= upsets
  BY Counted DEF TypeOK
<1>3. /\ RecordType' /\ auth = "done" /\ rst' # "done"
      /\ pc' \in {"idle", "upload", "drop", "load", "worker"}
  BY <1>1 DEF TypeOK, RecordType, Ordered, Goto, Fails, Recorded, record, RestorePlaces
<1>4. StoreType'
  BY <1>1 DEF TypeOK, StoreType, Databases, store
<1>5. /\ cont' \in [Apps -> Types]
      /\ \A c \in Apps : cont'[c] # "off" => cont'[c] = cont[c]
  BY DEF TypeOK, NodeType, Types, node
<1>6. TypeOK' /\ Edited'
  BY <1>1, <1>2, <1>3, <1>4, <1>5
     DEF TypeOK, NodeType, Types, Edited, Places, RestorePlaces, Configs, Versions
<1>7. Ordered' /\ Minted'
  BY <1>1, <1>3 DEF Ordered, Minted, AuthPlaces, RestorePlaces
<1>8. SwapIsQuiet'
  BY <1>3 DEF SwapIsQuiet, Goto, Fails, node
<1>9. Stored'
  BY <1>3 DEF Stored, DoneIsRestored, Goto, Fails
<1>10. Current'
  BY <1>1, <1>3, <1>5 DEF Current
<1>11. QED
  BY <1>6, <1>7, <1>8, <1>9, <1>10

\* ... and while it brings authentik up on it again.
LEMMA RiseInv ==
  ASSUME IInv,
         WorkerUp \/ WorkerGate \/ ServerUp \/ ServerGate \/ Mint \/ MintFails \/ VerifyRestore
  PROVE  IInv'
<1> USE DEF IInv
<1> USE DEF WorkerUp, WorkerGate, ServerUp, ServerGate, Mint, MintFails, VerifyRestore
<1>1. UNCHANGED <<want, disk, unit, pg, data, dump, auth, flag>>
  BY DEF Goto, node, store, record
<1>2. upsets' \in 0..MaxUpsets /\ upsets' >= upsets
  <2>1. Upset \/ UNCHANGED upsets
    OBVIOUS
  <2>2. QED
    BY <2>1, Counted DEF TypeOK
<1>3. /\ RecordType' /\ auth = "done"
      /\ pc' \in {"workergate", "server", "servergate", "mint", "check", "idle"}
      /\ pc' # "idle" => rst' # "done"
      /\ rst' = "done" => pc = "check"
  BY <1>1 DEF TypeOK, RecordType, Ordered, Goto, record, RestorePlaces
<1>4. StoreType' /\ Minted'
  BY <1>1, <1>3 DEF TypeOK, StoreType, Minted, Databases, Goto, store
<1>5. NodeType' /\ Current'
  <2>1. CASE UNCHANGED node
    BY <1>1, <1>3, <2>1 DEF TypeOK, NodeType, Current, node
  <2>2. ASSUME NEW cs \in SUBSET Apps, Up(cs, FALSE)
        PROVE  NodeType' /\ Current'
    <3>1. /\ cont' \in [Apps -> Types] /\ runs' \in [Apps -> Configs]
          /\ \A c \in Apps \ cs : cont'[c] = cont[c] /\ runs'[c] = runs[c]
          /\ \A c \in cs : runs'[c].tag = disk.tag
      BY <2>2, UpKeeps DEF TypeOK
    <3>2. NodeType'
      BY <1>1, <3>1 DEF TypeOK, NodeType, Types
    <3>3. Current'
      BY <1>1, <1>3, <3>1 DEF Current
    <3>4. QED
      BY <3>2, <3>3
  <2>3. CASE WorkerUp \/ ServerUp
    <3>1. {"worker"} \in SUBSET Apps /\ {"server"} \in SUBSET Apps
      BY DEF Apps
    <3>2. Up({"worker"}, FALSE) \/ Up({"server"}, FALSE)
      BY <2>3
    <3>3. QED
      BY <2>2, <3>1, <3>2
  <2>4. QED
    BY <2>1, <2>3
<1>6. TypeOK' /\ Edited'
  BY <1>1, <1>2, <1>3, <1>4, <1>5
     DEF TypeOK, Edited, Places, RestorePlaces, Configs, Versions
<1>7. Ordered'
  BY <1>1, <1>3 DEF Ordered, AuthPlaces, RestorePlaces
<1>8. SwapIsQuiet' /\ Stored'
  <2>1. CASE WorkerUp
    <3>1. cont'["server"] = cont["server"] /\ cont'["worker"] = "starting"
      <4>1. Up({"worker"}, FALSE) /\ {"worker"} \in SUBSET Apps /\ NodeType
        BY <2>1 DEF Apps, TypeOK
      <4>2. cont["worker"] = "off"
        BY <2>1 DEF SwapIsQuiet, Apps
      <4>3. QED
        BY <4>1, <4>2, UpKeeps DEF Apps
    <3>2. QED
      BY <1>1, <1>3, <2>1, <3>1 DEF SwapIsQuiet, Stored, DoneIsRestored, Goto, Apps
  <2>2. CASE WorkerGate
    BY <1>1, <1>3, <2>2 DEF SwapIsQuiet, Stored, DoneIsRestored, Goto, node
  <2>3. CASE ServerUp \/ ServerGate \/ Mint \/ MintFails \/ VerifyRestore
    BY <1>1, <1>3, <2>3 DEF SwapIsQuiet, Stored, DoneIsRestored, Goto
  <2>4. QED
    BY <2>1, <2>2, <2>3
<1>9. QED
  BY <1>4, <1>5, <1>6, <1>7, <1>8

LEMMA StutterInv ==
  ASSUME IInv, UNCHANGED vars
  PROVE  IInv'
BY DEF IInv, vars, node, store, record, TypeOK, NodeType, StoreType, RecordType, Edited, Ordered,
       SwapIsQuiet, Stored, DoneIsRestored, Current, Minted

LEMMA NextInv == IInv /\ [Next]_vars => IInv'
<1> SUFFICES ASSUME IInv, [Next]_vars PROVE IInv'
  OBVIOUS
<1>1. CASE \/ \E named \in SUBSET {"authentik", "restore"} : Provision(named)
           \/ Decline \/ GateFails
  BY <1>1, SessionInv
<1>2. CASE AuthStep
  BY <1>2, AuthInv
<1>3. CASE RestoreStep
  BY <1>3, SwapInv, RiseInv DEF RestoreStep
<1>4. CASE LifecycleStep
  BY <1>4, LifecycleInv
<1>5. CASE Edit
  BY <1>5, EditInv
<1>6. CASE NodeStep
  BY <1>6, RebootInv, ContainerInv DEF NodeStep
<1>7. CASE UNCHANGED vars
  BY <1>7, StutterInv
<1>8. CASE Raise \/ Kill
  BY <1>8, CutInv
<1>9. QED
  BY <1>1, <1>2, <1>3, <1>4, <1>5, <1>6, <1>7, <1>8 DEF Next

LEMMA Invariance == Spec => []IInv
<1>1. Init => IInv
  BY InitInv
<1>2. IInv /\ [Next]_vars => IInv'
  BY NextInv
<1>3. QED
  BY <1>1, <1>2, PTL DEF Spec

-----------------------------------------------------------------------------

\* The node, its containers, the database and the records keep their types.
THEOREM TypeCorrect == Spec => []TypeOK
<1>1. IInv => TypeOK
  BY DEF IInv
<1>2. QED
  BY <1>1, Invariance, PTL

\* However often the node reboots and sessions are cut, nothing of authentik runs
\* between the stop and the load of a restore, and no server before the migration
\* (restore_single_phase.py:175-258).
THEOREM QuietSwap == Spec => []SwapIsQuiet
<1>1. IInv => SwapIsQuiet
  BY DEF IInv
<1>2. QED
  BY <1>1, Invariance, PTL

\* A restore recorded done holds the whole dump, migrated.
THEOREM DoneRestored == Spec => []DoneIsRestored
<1>1. IInv => DoneIsRestored
  BY DEF IInv, Stored
<1>2. QED
  BY <1>1, Invariance, PTL

\* What runs while the authentik phase is done was made from what that phase pushed,
\* whoever started it: the unit, the restore or `akro start`.
THEOREM DoneCurrent == Spec => []DoneIsCurrent
<1>1. IInv => DoneIsCurrent
  BY DEF IInv, Current, DoneIsCurrent
<1>2. QED
  BY <1>1, Invariance, PTL

\* The pinned token outlives a completed restore, unless re-minting it failed.
THEOREM DoneToken == Spec => []DoneHasToken
<1>1. IInv => DoneHasToken
  BY DEF IInv, Minted, DoneHasToken
<1>2. QED
  BY <1>1, Invariance, PTL

-----------------------------------------------------------------------------
(* One swap.                                                                *)

Finished == rst = "done"

\* There is a database wherever authentik has been verified.
Made == auth = "done" => data # "none"

LEMMA MadeInvariance == Spec => []Made
<1>1. Init => Made
  BY DEF Init, Made
<1>2. Made /\ [Next]_vars => Made'
  <2> SUFFICES ASSUME Made, [Next]_vars PROVE Made'
    OBVIOUS
  <2> USE DEF Made, node, store, record
  <2>1. CASE UNCHANGED vars
    BY <2>1 DEF vars
  <2>2. data # "none" => data' # "none"
    BY DEF vars, Next, Provision, Decline, Raise, Kill, Edit, AuthStep, Push, Restart, RestartFails,
       Gate, GateFails, VerifyAuth, RestoreStep, Stop, Upload, UploadCorrupt, Drop, DropFails, Load,
       LoadFails, WorkerUp, WorkerGate, ServerUp, ServerGate, Mint, MintFails, VerifyRestore,
       LifecycleStep, BeginShutdown, Halt, VerifyShutdown, BeginStart, StartUp, StartGate, ClearFlag,
       NodeStep, Reboot, PgExits, Healthy, Exit, PgUp, CutShort, Left
  <2>3. auth' = "done" => auth = "done" \/ (VerifyAuth /\ Ready)
    BY DEF vars, Next, Provision, Decline, Raise, Kill, Edit, AuthStep, Push, Restart, RestartFails,
       Gate, GateFails, VerifyAuth, RestoreStep, Stop, Upload, UploadCorrupt, Drop, DropFails, Load,
       LoadFails, WorkerUp, WorkerGate, ServerUp, ServerGate, Mint, MintFails, VerifyRestore,
       LifecycleStep, BeginShutdown, Halt, VerifyShutdown, BeginStart, StartUp, StartGate, ClearFlag,
       NodeStep, Reboot, PgExits, Healthy, Exit, Goto, Fails, Recorded, Lost
  <2>4. QED
    BY <2>2, <2>3 DEF Ready
<1>3. QED
  BY <1>1, <1>2, PTL DEF Spec

LEMMA Flags ==
  /\ Swapping \in BOOLEAN /\ InUse \in BOOLEAN /\ Finished \in BOOLEAN
  /\ Swapping' \in BOOLEAN /\ InUse' \in BOOLEAN /\ Finished' \in BOOLEAN
BY DEF Swapping, InUse, Finished

LEMMA SwapAlone ==
  ASSUME IInv, Swapping
  PROVE  ~InUse /\ ~Finished
BY DEF IInv, SwapIsQuiet, Ordered, RestorePlaces, Swapping, InUse, Finished

\* Only the verify of the restore records it, over restored data.
LEMMA RecordFrame ==
  ASSUME IInv, Next, rst' = "done"
  PROVE  rst = "done" \/ (VerifyRestore /\ data = "restored")
<1>1. rst = "done" \/ VerifyRestore
  BY DEF node, store, record, Next, Provision, Decline, Raise, Kill, Edit, AuthStep, Push, Restart,
     RestartFails, Gate, GateFails, VerifyAuth, RestoreStep, Stop, Upload, UploadCorrupt, Drop,
     DropFails, Load, LoadFails, WorkerUp, WorkerGate, ServerUp, ServerGate, Mint, MintFails,
     LifecycleStep, BeginShutdown, Halt, VerifyShutdown, BeginStart, StartUp, StartGate, ClearFlag,
     NodeStep, Reboot, PgExits, Healthy, Exit, Goto, Fails, Recorded, Lost
<1>2. QED
  BY <1>1 DEF IInv, Stored, VerifyRestore

\* A session that is cut in the middle of a call, by whatever cuts it.
Cuts == Raise \/ Kill \/ (Reboot /\ CutShort)

\* What becomes of the database: PostgreSQL makes it, the restore swaps it, and the
\* first container to be healthy migrates it.
LEMMA DataFrame ==
  ASSUME IInv, Made, Next
  PROVE  \/ data' = data
         \/ ~Swapping /\ data = "none" /\ data' = "void"
         \/ Drop \/ DropFails \/ Load \/ LoadFails \/ Cuts
         \/ \E c \in Apps : Healthy(c)
<1>1. CASE Restart \/ RestartFails \/ StartUp \/ (Reboot /\ ~CutShort)
  <2>1. data' = data \/ (data = "none" /\ data' = "void")
    BY <1>1 DEF Reboot, Restart, RestartFails, StartUp, PgUp, store
  <2>2. Swapping => data # "none"
    BY DEF IInv, Made, Ordered, RestorePlaces, Swapping
  <2>3. QED
    BY <2>1, <2>2
<1>2. CASE \E named \in SUBSET {"authentik", "restore"} : Provision(named)
  BY <1>2 DEF Provision, store
<1>3. CASE Decline \/ Edit \/ GateFails \/ Push \/ Gate \/ VerifyAuth
  BY <1>3 DEF Decline, Edit, GateFails, Push, Gate, VerifyAuth, store
<1>4. CASE RestoreStep
  BY <1>4 DEF RestoreStep, Stop, Upload, UploadCorrupt, WorkerUp, WorkerGate, ServerUp,
     ServerGate, Mint, MintFails, VerifyRestore, store
<1>5. CASE LifecycleStep
  BY <1>1, <1>5 DEF LifecycleStep, BeginShutdown, Halt, VerifyShutdown, BeginStart, StartGate,
     ClearFlag, store
<1>6. CASE PgExits \/ \E c \in Apps : Exit(c)
  BY <1>6 DEF PgExits, Exit, store
<1>7. QED
  BY <1>1, <1>2, <1>3, <1>4, <1>5, <1>6 DEF Next, AuthStep, NodeStep, Cuts

LEMMA Serving ==
  ASSUME IInv', rst' = "done" => rst = "done",
         data' = data \/ (~Swapping /\ data = "none" /\ data' = "void")
  PROVE  Restore!Serve
<1>1. Swapping' => ~InUse' /\ ~Finished'
  BY DEF IInv, SwapIsQuiet, Ordered, RestorePlaces, Swapping, InUse, Finished
<1>2. QED
  BY <1>1, Flags DEF Restore!Serve, Restore!Created, Finished

LEMMA Migrating ==
  ASSUME IInv, NEW c \in Apps, Healthy(c), data' # data
  PROVE  Restore!Migrate
<1>1. \/ data = "void" /\ data' = "app"
      \/ data = "loaded" /\ data' = "restored"
  BY DEF Healthy
<1>2. rst # "done" /\ rst' = rst
  BY <1>1 DEF IInv, Stored, DoneIsRestored, Healthy, record
<1>3. Swapping' = Swapping
  BY DEF Healthy, Swapping
<1>4. InUse' <=> InUse
  <2>1. \A d \in Apps : cont'[d] = "off" <=> cont[d] = "off"
    BY DEF IInv, TypeOK, NodeType, Healthy, CanHeal
  <2>2. QED
    BY <2>1 DEF InUse
<1>5. InUse' = InUse
  BY <1>4, Flags, Zenon
<1>6. QED
  BY <1>1, <1>2, <1>3, <1>5 DEF Restore!Migrate

LEMMA SwapsData ==
  ASSUME IInv, IInv', Drop \/ DropFails \/ Load \/ LoadFails \/ Cuts, data' # data
  PROVE  Restore!Next
<1>1. \/ pc = "drop" /\ data' \in {"gone", "void"}
      \/ pc = "load" /\ (data' = "part" \/ (data = "void" /\ data' = "loaded"))
  <2>1. CASE Cuts
    BY <2>1, CutData DEF Cuts, Raise, Kill
  <2>2. CASE Drop \/ DropFails \/ Load \/ LoadFails
    BY <2>2 DEF Drop, DropFails, Load, LoadFails
  <2>3. QED
    BY <2>1, <2>2
<1>2. Swapping /\ ~InUse /\ ~Finished
  <2>1. Swapping
    BY <1>1 DEF Swapping
  <2>2. QED
    BY <2>1, SwapAlone
<1>3. rst' # "done"
  BY <1>1, <1>2 DEF Drop, DropFails, Load, LoadFails, Cuts, Raise, Kill, Reboot, Lost, Goto, Fails,
     Recorded, record, Finished
<1>4. Restore!GoesOn
  <2>1. Swapping' => ~InUse'
    BY SwapAlone DEF IInv, SwapIsQuiet, Swapping, InUse
  <2>2. (rst' = "done") = (rst = "done")
    BY <1>2, <1>3 DEF Finished
  <2>3. QED
    BY <2>1, <2>2, Flags DEF Restore!GoesOn
<1>5. CASE data' \in {"gone", "void"}
  BY <1>2, <1>4, <1>5 DEF Restore!Drop, Restore!Next, Finished
<1>6. CASE data' = "part" \/ (data = "void" /\ data' = "loaded")
  BY <1>2, <1>4, <1>6 DEF Restore!Load, Restore!Next, Finished
<1>7. QED
  BY <1>1, <1>5, <1>6

LEMMA Recording ==
  ASSUME VerifyRestore, data = "restored", rst' = "done"
  PROVE  Restore!Finish
<1>1. UNCHANGED <<data, InUse>>
  BY DEF VerifyRestore, node, store, InUse
<1>2. ~Swapping /\ ~Swapping'
  BY DEF VerifyRestore, Swapping
<1>3. Swapping' = Swapping
  BY <1>2, Flags, Zenon
<1>4. QED
  BY <1>1, <1>2, <1>3 DEF Restore!Finish

LEMMA RestoreStepMaps ==
  ASSUME IInv, IInv', Made, [Next]_vars
  PROVE  [Restore!Next]_<<data, Swapping, InUse, (rst = "done")>>
<1>1. CASE UNCHANGED vars
  BY <1>1 DEF vars, node, store, record, Swapping, InUse
<1>2. CASE Next /\ rst' = "done" /\ rst # "done"
  BY <1>2, RecordFrame, Recording DEF Restore!Next
<1>3. CASE Next /\ (rst' = "done" => rst = "done")
  BY <1>3, DataFrame, Serving, Migrating, SwapsData DEF Restore!Next
<1>4. QED
  BY <1>1, <1>2, <1>3

\* For any number of upsets: the restore of a single node implements the same swap as
\* the restore of a fleet (restore_single_phase.py:175-235), and every other command,
\* reboot and container leaves what is in the database alone.
THEOREM OneSwap == Spec => ImplementsRestore
<1>1. Init => Restore!Init
  <2>1. Init => ~Swapping /\ ~Finished /\ data = "none"
    BY DEF Init, Swapping, Finished
  <2>2. QED
    BY <2>1, Flags DEF Restore!Init, Finished
<1>2. IInv /\ IInv' /\ Made /\ [Next]_vars
      => [Restore!Next]_<<data, Swapping, InUse, (rst = "done")>>
  BY RestoreStepMaps
<1>3. QED
  BY <1>1, <1>2, Invariance, MadeInvariance, PTL DEF Spec, ImplementsRestore, Restore!Spec

-----------------------------------------------------------------------------
(* The contract of the runner.                                              *)

Entries == [p \in {"authentik", "restore"} |-> IF p = "authentik" THEN auth ELSE rst]

LEMMA EntriesWritten ==
  /\ UNCHANGED rst => \A s : auth' = s => Entries' = [Entries EXCEPT !["authentik"] = s]
  /\ UNCHANGED auth => \A s : rst' = s => Entries' = [Entries EXCEPT !["restore"] = s]
BY DEF Entries

LEMMA AuthTurn ==
  /\ auth # "done" => {"authentik"} \in Contract!Turns(Entries)
  /\ auth = "done" /\ rst # "done" => {"restore"} \in Contract!Turns(Entries)
  /\ {} \in Contract!Turns(Entries)
<1>1. auth # "done" => {"authentik"} \in Contract!Turns(Entries)
  BY DEF Contract!Turns, Entries
<1>2. auth = "done" /\ rst # "done" => {"restore"} \in Contract!Turns(Entries)
  BY DEF Contract!Turns, Contract!Passed, Entries
<1>3. QED
  BY <1>1, <1>2 DEF Contract!Turns

LEMMA AuthTurnNext ==
  /\ auth' # "done" => {"authentik"} \in Contract!Turns(Entries')
  /\ auth' = "done" /\ rst' # "done" => {"restore"} \in Contract!Turns(Entries')
  /\ {} \in Contract!Turns(Entries')
<1>1. auth' # "done" => {"authentik"} \in Contract!Turns(Entries')
  BY DEF Contract!Turns, Entries
<1>2. auth' = "done" /\ rst' # "done" => {"restore"} \in Contract!Turns(Entries')
  BY DEF Contract!Turns, Contract!Passed, Entries
<1>3. QED
  BY <1>1, <1>2 DEF Contract!Turns

LEMMA EnterTurns ==
  ASSUME Enter(auth', rst')
  PROVE  Under' \in Contract!Turns(Entries')
<1>1. \/ auth' # "done" /\ Under' = {"authentik"}
      \/ auth' = "done" /\ rst' # "done" /\ Under' = {"restore"}
      \/ Under' = {}
  BY DEF Enter, Under, AuthPlaces, RestorePlaces
<1>2. QED
  BY <1>1, AuthTurnNext

\* A step within a phase, or outside both.
LEMMA MovesWithin ==
  ASSUME UNCHANGED <<auth, rst>>,
         \/ pc' = pc
         \/ pc \in AuthPlaces /\ pc' \in AuthPlaces
         \/ pc \in RestorePlaces /\ pc' \in RestorePlaces
         \/ Under = {} /\ Under' = {}
  PROVE  UNCHANGED <<Entries, Under>>
BY DEF Entries, Under, AuthPlaces, RestorePlaces

\* A session that ends early, whatever it records of the phase it was in.
LEMMA EndsKeep ==
  ASSUME pc' = "idle", Recorded \/ UNCHANGED <<auth, rst>>
  PROVE  Contract!Next \/ UNCHANGED <<Entries, Under>>
<1>0. Under' = {}
  BY DEF Under, AuthPlaces, RestorePlaces
<1>1. CASE pc \in AuthPlaces
  <2>1. Under = {"authentik"} /\ rst' = rst /\ (auth' = "failed" \/ auth' = auth)
    BY <1>1 DEF Under, Recorded, AuthPlaces, RestorePlaces
  <2>2. CASE auth' = "failed"
    <3>1. Contract!Failed("authentik")
      BY <1>0, <2>1, <2>2, EntriesWritten DEF Contract!Failed, Contract!Written, Entries
    <3>2. QED
      BY <3>1 DEF Contract!Next
  <2>3. CASE auth' = auth
    <3>1. Contract!Cut("authentik")
      BY <1>0, <2>1, <2>3 DEF Contract!Cut, Entries
    <3>2. QED
      BY <3>1 DEF Contract!Next
  <2>4. QED
    BY <2>1, <2>2, <2>3
<1>2. CASE pc \in RestorePlaces
  <2>1. Under = {"restore"} /\ auth' = auth /\ (rst' = "failed" \/ rst' = rst)
    BY <1>2 DEF Under, Recorded, AuthPlaces, RestorePlaces
  <2>2. CASE rst' = "failed"
    <3>1. Contract!Failed("restore")
      BY <1>0, <2>1, <2>2, EntriesWritten DEF Contract!Failed, Contract!Written, Entries
    <3>2. QED
      BY <3>1 DEF Contract!Next
  <2>3. CASE rst' = rst
    <3>1. Contract!Cut("restore")
      BY <1>0, <2>1, <2>3 DEF Contract!Cut, Entries
    <3>2. QED
      BY <3>1 DEF Contract!Next
  <2>4. QED
    BY <2>1, <2>2, <2>3
<1>3. CASE pc \notin AuthPlaces \cup RestorePlaces
  <2>1. Under = {} /\ UNCHANGED <<auth, rst>>
    BY <1>3 DEF Under, Recorded
  <2>2. QED
    BY <1>0, <2>1, MovesWithin
<1>4. QED
  BY <1>1, <1>2, <1>3

LEMMA ProvisionKeeps ==
  ASSUME NEW named \in SUBSET {"authentik", "restore"}, Provision(named)
  PROVE  Contract!Provision
<1>1. Under = {} /\ Under' \in Contract!Turns(Entries')
  BY EnterTurns DEF Provision, Under, AuthPlaces, RestorePlaces
<1>2. Entries' = [p \in {"authentik", "restore"} |-> IF p \in named THEN "pending" ELSE Entries[p]]
  BY DEF Provision, Entries
<1>3. QED
  BY <1>1, <1>2 DEF Contract!Provision, Entries

LEMMA DeclineKeeps ==
  ASSUME IInv, Decline
  PROVE  Contract!Next \/ UNCHANGED <<Entries, Under>>
<1>0. Under' = {}
  BY DEF Decline, Under, AuthPlaces, RestorePlaces
<1>1. CASE pc = "push"
  <2>1. Under = {"authentik"} /\ auth # "done" /\ auth' = "declined" /\ rst' = rst
    BY <1>1 DEF Decline, Under, IInv, Ordered, AuthPlaces
  <2>2. Contract!Declined("authentik")
    BY <1>0, <2>1, AuthTurn, EntriesWritten DEF Contract!Declined, Contract!Written, Entries
  <2>3. QED
    BY <2>2 DEF Contract!Next
<1>2. CASE pc = "stop"
  <2>1. Under = {"restore"} /\ auth = "done" /\ rst # "done" /\ rst' = "skipped" /\ auth' = auth
    BY <1>2 DEF Decline, Under, IInv, Ordered, AuthPlaces, RestorePlaces
  <2>2. Contract!Declined("restore")
    BY <1>0, <2>1, AuthTurn, EntriesWritten DEF Contract!Declined, Contract!Written, Entries
  <2>3. QED
    BY <2>2 DEF Contract!Next
<1>3. CASE pc = "halt"
  <2>1. Under = {} /\ UNCHANGED <<auth, rst>>
    BY <1>3 DEF Decline, Under, AuthPlaces, RestorePlaces
  <2>2. QED
    BY <1>0, <2>1, MovesWithin
<1>4. QED
  BY <1>1, <1>2, <1>3 DEF Decline

LEMMA AuthRuns ==
  ASSUME AuthStep
  PROVE  Contract!Next \/ UNCHANGED <<Entries, Under>>
<1>1. CASE Push \/ Restart
  <2>1. pc \in AuthPlaces /\ pc' \in AuthPlaces /\ UNCHANGED <<auth, rst>>
    BY <1>1 DEF Push, Restart, Goto, record, AuthPlaces
  <2>2. QED
    BY <2>1, MovesWithin
<1>2. CASE RestartFails
  BY <1>2, EndsKeep DEF RestartFails, Fails
<1>3. CASE Gate
  <2>1. Under = {"authentik"} /\ Under' = Under /\ auth' = "applying" /\ rst' = rst
    BY <1>3 DEF Gate, Under, AuthPlaces
  <2>2. Contract!Pin("authentik")
    BY <2>1, EntriesWritten DEF Contract!Pin, Contract!Written, Entries
  <2>3. QED
    BY <2>2 DEF Contract!Next
<1>4. CASE VerifyAuth
  <2>1. Under = {"authentik"} /\ rst' = rst
    BY <1>4 DEF VerifyAuth, Under, AuthPlaces
  <2>2. CASE auth' = "done"
    <3>1. Contract!Verified("authentik")
      BY <1>4, <2>1, <2>2, EnterTurns, EntriesWritten
         DEF VerifyAuth, Contract!Verified, Contract!Written, Entries
    <3>2. QED
      BY <3>1 DEF Contract!Next
  <2>3. CASE auth' = "failed"
    <3>1. Under' = {}
      BY <1>4, <2>3 DEF VerifyAuth, Under, AuthPlaces, RestorePlaces
    <3>2. Contract!Failed("authentik")
      BY <2>1, <2>3, <3>1, EntriesWritten DEF Contract!Failed, Contract!Written, Entries
    <3>3. QED
      BY <3>2 DEF Contract!Next
  <2>4. QED
    BY <1>4, <2>2, <2>3 DEF VerifyAuth
<1>5. QED
  BY <1>1, <1>2, <1>3, <1>4 DEF AuthStep

LEMMA RestoreRuns ==
  ASSUME RestoreStep
  PROVE  Contract!Next \/ UNCHANGED <<Entries, Under>>
<1>1. CASE \/ Stop \/ Upload \/ Drop \/ Load \/ WorkerUp \/ WorkerGate \/ ServerUp \/ ServerGate
           \/ Mint \/ MintFails
  <2>1. pc \in RestorePlaces /\ pc' \in RestorePlaces /\ UNCHANGED <<auth, rst>>
    BY <1>1 DEF Stop, Upload, Drop, Load, WorkerUp, WorkerGate, ServerUp, ServerGate, Mint, MintFails,
       Goto, record, RestorePlaces
  <2>2. QED
    BY <2>1, MovesWithin
<1>2. CASE UploadCorrupt \/ DropFails \/ LoadFails
  BY <1>2, EndsKeep DEF UploadCorrupt, DropFails, LoadFails, Fails
<1>3. CASE VerifyRestore
  <2>1. Under = {"restore"} /\ Under' = {} /\ auth' = auth /\ rst' \in {"done", "failed"}
    BY <1>3 DEF VerifyRestore, Under, AuthPlaces, RestorePlaces
  <2>2. Contract!Verified("restore") \/ Contract!Failed("restore")
    BY <2>1, AuthTurnNext, EntriesWritten DEF Contract!Verified, Contract!Failed, Contract!Written, Entries
  <2>3. QED
    BY <2>2 DEF Contract!Next
<1>4. QED
  BY <1>1, <1>2, <1>3 DEF RestoreStep

LEMMA RunnerStep ==
  ASSUME IInv, [Next]_vars
  PROVE  [Contract!Next]_<<Entries, Under>>
<1>1. CASE UNCHANGED vars
  BY <1>1, MovesWithin DEF vars, record
<1>2. CASE \E named \in SUBSET {"authentik", "restore"} : Provision(named)
  BY <1>2, ProvisionKeeps DEF Contract!Next
<1>3. CASE GateFails \/ Raise \/ Kill
  BY <1>3, EndsKeep DEF GateFails, Raise, Kill, Fails, record
<1>4. CASE LifecycleStep
  <2>1. Under = {} /\ Under' = {} /\ UNCHANGED <<auth, rst>>
    BY <1>4 DEF LifecycleStep, BeginShutdown, Halt, VerifyShutdown, BeginStart, StartUp, StartGate,
       ClearFlag, Goto, record, Under, AuthPlaces, RestorePlaces
  <2>2. QED
    BY <2>1, MovesWithin
<1>5. CASE Edit \/ PgExits \/ \E c \in Apps : Healthy(c) \/ Exit(c)
  <2>1. pc' = pc /\ UNCHANGED <<auth, rst>>
    BY <1>5 DEF Edit, PgExits, Healthy, Exit, record
  <2>2. QED
    BY <2>1, MovesWithin
<1>6. CASE Reboot
  <2>1. CASE pc = "idle"
    BY <1>6, <2>1, MovesWithin DEF Reboot, Lost, record
  <2>2. CASE pc # "idle"
    BY <1>6, <2>2, EndsKeep DEF Reboot, Lost, Fails
  <2>3. QED
    BY <2>1, <2>2
<1>7. QED
  BY <1>1, <1>2, <1>3, <1>4, <1>5, <1>6, AuthRuns, RestoreRuns, DeclineKeeps DEF Next, NodeStep

\* The authentik and restore phases of a single node, whatever is declined, raises, is cut
\* or reboots, come under way and are recorded as the contract of the runner says
\* (base.py:134-185), and `akro shutdown` and `akro start` leave their entries alone.
THEOREM RunsAsRunner == Spec => ImplementsPipeline
<1>1. Init => Contract!Init
  BY DEF Init, Under, AuthPlaces, RestorePlaces, Contract!Init
<1>2. IInv /\ [Next]_vars => [Contract!Next]_<<Entries, Under>>
  BY RunnerStep
<1>3. QED
  BY <1>1, <1>2, Invariance, PTL DEF Spec, ImplementsPipeline, Contract!Spec, Entries

-----------------------------------------------------------------------------
(* The proxy (SingleProxy).                                                 *)

Telling == {"certbot", "push", "run", "swap", "verify"}

\* What the session remembers, and what it has written by then.
Remembered ==
  /\ at \in {"idle", "cert"} \cup Telling => ~dirty
  /\ at = "chain" => dirty
  /\ phase = "done" => at = "idle"
  /\ at \in {"chain", "key"} => hold \in Pairs
  /\ at \in {"certbot", "push", "run", "swap"} => Acme
  /\ at \in {"conf", "link", "test", "reload"} \cup Telling => served.conf # "absent"
  /\ served.conf = "absent" => conf = "default"
  /\ conf \in {"default", site}
  /\ served.conf \in {"plain", "tls"} => conf # "default"
  /\ at \in {"link", "test", "reload"} \cup Telling \/ phase = "done" => site = WantedConf
  /\ phase = "done" => conf = site

\* A running nginx that does not serve the files has been, or will be, told.
Told ==
  /\ Running /\ served # OnDisk => owing \/ dirty \/ hook \in {"key", "reload"}
  /\ phase = "done" /\ Running => served.conf = WantedConf

\* From the issuance on the lineage is of the environment asked for; what the hook has
\* copied so far is its.
Swapped ==
  /\ Acme /\ (at \in {"push", "run", "swap", "verify"} \/ phase = "done") => lineage.kind = provider
  /\ Acme /\ (at \in {"run", "swap", "verify"} \/ phase = "done") => hookfile
  /\ at = "swap" => hook # "idle"
  /\ Acme /\ (at \in {"swap", "verify"} \/ phase = "done") /\ ~missed =>
       /\ hook # "chain" => chain = lineage
       /\ hook \in {"idle", "reload"} => key = lineage.pair

ProxyInv == ProxyTypes /\ Remembered /\ Told /\ Swapped

\* A certificate's pair, and what makes one.
LEMMA CertFacts ==
  /\ NoCert \in Certs /\ NoCert.pair = NoPair /\ NoCert.kind = "none"
  /\ \A c \in Certs : c.pair \in Pairs \cup {NoPair} /\ c.kind \in Kinds \cup {"none"}
                    /\ (c.kind \in Kinds <=> c.pair \in Pairs)
                    /\ (c # NoCert => c.pair \in Pairs)
  /\ \A kind \in Kinds, p \in Pairs : [kind |-> kind, pair |-> p] \in Certs
<1>1. NoCert \in Certs /\ NoCert.pair = NoPair /\ NoCert.kind = "none"
  BY DEF Certs, NoCert
<1>2. NoPair \notin Pairs
  BY ProxyAssumption
<1>3. \A c \in Certs : c.pair \in Pairs \cup {NoPair} /\ c.kind \in Kinds \cup {"none"}
                    /\ (c.kind \in Kinds <=> c.pair \in Pairs)
                    /\ (c # NoCert => c.pair \in Pairs)
  BY <1>2 DEF Certs, NoCert, Kinds
<1>4. \A kind \in Kinds, p \in Pairs : [kind |-> kind, pair |-> p] \in Certs
  BY DEF Certs
<1>5. QED
  BY <1>1, <1>3, <1>4

LEMMA FreshPair ==
  ASSUME ProxyTypes
  PROVE  Fresh \in Pairs /\ Fresh \notin {chain.pair, key, lineage.pair, served.cert.pair, hold}
<1> DEFINE Some == Pairs \cup {NoPair}
<1>1. chain.pair \in Some /\ key \in Some /\ lineage.pair \in Some /\ served.cert.pair \in Some /\ hold \in Some
  BY CertFacts DEF ProxyTypes, SessionTypes, NginxTypes, CertbotTypes
<1>2. \A a, b, c, d, e \in Some : \E p \in Pairs \ Imported : p \notin {a, b, c, d, e}
  BY ProxyAssumption, Zenon
<1>3. \E p \in Pairs \ Imported : p \notin {chain.pair, key, lineage.pair, served.cert.pair, hold}
  <2> HIDE DEF Some
  <2>1. QED
    BY <1>1, <1>2, Zenon
<1>4. QED
  BY <1>3 DEF Fresh

\* Troubles are counted; what is imported are pairs.
LEMMA ProxyBounds ==
  /\ 0 \in 0..MaxTroubles /\ Imported \subseteq Pairs
  /\ troubles \in 0..MaxTroubles /\ Trouble => troubles' \in 0..MaxTroubles
<1>1. MaxTroubles \in Nat /\ Imported \subseteq Pairs
  BY ProxyAssumption
<1>2. QED
  BY <1>1 DEF Trouble

LEMMA OnDiskType ==
  ASSUME ProxyTypes
  PROVE  OnDisk \in [conf : {"default", "plain", "tls"}, cert : Certs] /\ OnDisk.conf = conf
BY CertFacts DEF ProxyTypes, SessionTypes, NginxTypes, OnDisk

\* What nginx holds when it does not run.
LEMMA StoppedType ==
  [conf |-> "stopped", cert |-> NoCert] \in [conf : {"absent", "stopped", "default", "plain", "tls"}, cert : Certs]
BY CertFacts

LEMMA ProxyInitInv == ProxyInit => ProxyInv
<1> SUFFICES ASSUME ProxyInit PROVE ProxyInv
  OBVIOUS
<1>1. served \in [conf : {"absent"}, cert : Certs] /\ lineage \in Certs /\ chain \in Certs
  BY CertFacts DEF ProxyInit
<1>2. ProxyTypes
  BY <1>1, ProxyBounds DEF ProxyInit, ProxyTypes, SessionTypes, NginxTypes, CertbotTypes
<1>3. Remembered /\ Told /\ Swapped
  BY <1>1 DEF ProxyInit, Remembered, Told, Swapped, Telling, Running
<1>4. QED
  BY <1>2, <1>3 DEF ProxyInv

\* The session up to the site file.
LEMMA FilesInv ==
  ASSUME ProxyInv, (\E p \in Providers : BeginProxy(p)) \/ FilesStep \/ InstallNginx \/ PushConf \/ LinkSite \/ LinkFails
  PROVE  ProxyInv'
<1> USE DEF ProxyInv, ProxyTypes, SessionTypes, NginxTypes, CertbotTypes, session, files, siteFile, history, certbot, Goes, Leaves, Onward, NewLineage
<1>1. CASE \E p \in Providers : BeginProxy(p)
  <2>1. ProxyTypes'
    BY <1>1 DEF BeginProxy
  <2>2. Remembered'
    BY <1>1, OnDiskType DEF BeginProxy, Remembered, Telling, WantedConf, TlsEnabled, Acme
  <2>3. Told'
    BY <1>1, OnDiskType DEF BeginProxy, Told, Remembered, Telling, Running, OnDisk, WantedConf, TlsEnabled
  <2>4. Swapped'
    BY <1>1 DEF BeginProxy, Swapped, Remembered, Telling, Acme
  <2>5. QED
    BY <2>1, <2>2, <2>3, <2>4
<1>2. CASE KeepCert
  <2>1. ProxyTypes'
    BY <1>2 DEF KeepCert
  <2>2. Remembered'
    BY <1>2, OnDiskType DEF KeepCert, Remembered, Telling, WantedConf, TlsEnabled, Acme
  <2>3. Told'
    BY <1>2, OnDiskType DEF KeepCert, Told, Remembered, Telling, Running, OnDisk, WantedConf, TlsEnabled
  <2>4. Swapped'
    BY <1>2 DEF KeepCert, Swapped, Remembered, Telling, Acme
  <2>5. QED
    BY <2>1, <2>2, <2>3, <2>4
<1>3. CASE MakeKey
  <2>1. ProxyTypes'
    BY <1>3, FreshPair DEF MakeKey
  <2>2. Remembered'
    BY <1>3, OnDiskType, FreshPair DEF MakeKey, Remembered, Telling, WantedConf, TlsEnabled, Acme
  <2>3. Told'
    BY <1>3, OnDiskType DEF MakeKey, Told, Remembered, Telling, Running, OnDisk, WantedConf, TlsEnabled
  <2>4. Swapped'
    BY <1>3 DEF MakeKey, Swapped, Remembered, Telling, Acme
  <2>5. QED
    BY <2>1, <2>2, <2>3, <2>4
<1>4. CASE MakeChain
  <2>1. ProxyTypes'
    BY <1>4, CertFacts DEF MakeChain, Kinds, Remembered, Telling
  <2>2. Remembered'
    BY <1>4, OnDiskType DEF MakeChain, Remembered, Telling, WantedConf, TlsEnabled, Acme, Kinds
  <2>3. Told'
    BY <1>4, OnDiskType DEF MakeChain, Told, Remembered, Telling, Running, OnDisk, WantedConf, TlsEnabled, Kinds
  <2>4. Swapped'
    BY <1>4 DEF MakeChain, Swapped, Remembered, Telling, Acme, Kinds
  <2>5. QED
    BY <2>1, <2>2, <2>3, <2>4
<1>5. CASE ImportChain
  <2>1. ProxyTypes'
    BY <1>5, CertFacts, ProxyBounds DEF ImportChain, Kinds
  <2>2. Remembered'
    BY <1>5, OnDiskType, ProxyBounds DEF ImportChain, Remembered, Telling, WantedConf, TlsEnabled, Acme, Kinds
  <2>3. Told'
    BY <1>5, OnDiskType DEF ImportChain, Told, Remembered, Telling, Running, OnDisk, WantedConf, TlsEnabled, Kinds
  <2>4. Swapped'
    BY <1>5 DEF ImportChain, Swapped, Remembered, Telling, Acme, Kinds
  <2>5. QED
    BY <2>1, <2>2, <2>3, <2>4
<1>6. CASE ImportKey
  <2>1. ProxyTypes'
    BY <1>6, CertFacts DEF ImportKey
  <2>2. Remembered'
    BY <1>6, OnDiskType DEF ImportKey, Remembered, Telling, WantedConf, TlsEnabled, Acme
  <2>3. Told'
    BY <1>6, OnDiskType DEF ImportKey, Told, Remembered, Telling, Running, OnDisk, WantedConf, TlsEnabled
  <2>4. Swapped'
    BY <1>6 DEF ImportKey, Swapped, Remembered, Telling, Acme
  <2>5. QED
    BY <2>1, <2>2, <2>3, <2>4
<1>7. CASE InstallNginx
  <2>1. ProxyTypes'
    BY <1>7, OnDiskType DEF InstallNginx
  <2>2. Remembered'
    BY <1>7, OnDiskType DEF InstallNginx, Remembered, Telling, WantedConf, TlsEnabled, Acme
  <2>3. Told'
    BY <1>7, OnDiskType DEF InstallNginx, Told, Remembered, Telling, Running, OnDisk, WantedConf, TlsEnabled
  <2>4. Swapped'
    BY <1>7 DEF InstallNginx, Swapped, Remembered, Telling, Acme
  <2>5. QED
    BY <2>1, <2>2, <2>3, <2>4
<1>8. CASE PushConf
  <2>1. ProxyTypes'
    BY <1>8 DEF PushConf, WriteSite, WantedConf
  <2>2. Remembered'
    BY <1>8, OnDiskType DEF PushConf, WriteSite, Remembered, Telling, WantedConf, TlsEnabled, Acme
  <2>3. Told'
    BY <1>8, OnDiskType DEF PushConf, WriteSite, Told, Remembered, Telling, Running, OnDisk, WantedConf, TlsEnabled
  <2>4. Swapped'
    BY <1>8 DEF PushConf, WriteSite, Swapped, Remembered, Telling, Acme
  <2>5. QED
    BY <2>1, <2>2, <2>3, <2>4
<1>9. CASE LinkSite \/ LinkFails
  <2>1. ProxyTypes'
    <3>1. SessionTypes'
      BY <1>9, ProxyBounds DEF LinkSite, LinkFails, Remembered, Telling, WantedConf
    <3>2. NginxTypes'
      BY <1>9, ProxyBounds DEF LinkSite, LinkFails, Remembered, Telling, WantedConf
    <3>3. CertbotTypes'
      BY <1>9, ProxyBounds DEF LinkSite, LinkFails, Remembered, Telling, WantedConf
    <3>4. QED
      BY <3>1, <3>2, <3>3
  <2>2. Remembered'
    BY <1>9, OnDiskType DEF LinkSite, LinkFails, Remembered, Telling, WantedConf, TlsEnabled, Acme
  <2>3. Told'
    BY <1>9, OnDiskType DEF LinkSite, LinkFails, Told, Remembered, Telling, Running, OnDisk, WantedConf, TlsEnabled
  <2>4. Swapped'
    BY <1>9 DEF LinkSite, LinkFails, Swapped, Remembered, Telling, Acme
  <2>5. QED
    BY <2>1, <2>2, <2>3, <2>4
<1>10. QED
  BY <1>1, <1>2, <1>3, <1>4, <1>5, <1>6, <1>7, <1>8, <1>9 DEF FilesStep

\* The test and the reload.
LEMMA ReloadInv ==
  ASSUME ProxyInv, TestPasses \/ TestFails \/ ReloadNginx \/ ReloadFails \/ NginxUnchanged
  PROVE  ProxyInv'
<1> USE DEF ProxyInv, ProxyTypes, SessionTypes, NginxTypes, CertbotTypes, session, files, siteFile, history, certbot, Goes, Leaves, Onward, NewLineage
<1>1. CASE TestPasses
  <2>1. ProxyTypes'
    BY <1>1 DEF TestPasses
  <2>2. Remembered'
    BY <1>1, OnDiskType DEF TestPasses, Remembered, Telling, WantedConf, TlsEnabled, Acme
  <2>3. Told'
    BY <1>1, OnDiskType DEF TestPasses, Told, Remembered, Telling, Running, OnDisk, WantedConf, TlsEnabled
  <2>4. Swapped'
    BY <1>1 DEF TestPasses, Swapped, Remembered, Telling, Acme
  <2>5. QED
    BY <2>1, <2>2, <2>3, <2>4
<1>2. CASE TestFails
  <2>1. ProxyTypes'
    <3>1. SessionTypes'
      BY <1>2 DEF TestFails
    <3>2. NginxTypes'
      BY <1>2 DEF TestFails
    <3>3. CertbotTypes'
      BY <1>2 DEF TestFails
    <3>4. QED
      BY <3>1, <3>2, <3>3
  <2>2. Remembered'
    BY <1>2, OnDiskType DEF TestFails, Remembered, Telling, WantedConf, TlsEnabled, Acme
  <2>3. Told'
    BY <1>2, OnDiskType DEF TestFails, Told, Remembered, Telling, Running, OnDisk, WantedConf, TlsEnabled
  <2>4. Swapped'
    BY <1>2 DEF TestFails, Swapped, Remembered, Telling, Acme
  <2>5. QED
    BY <2>1, <2>2, <2>3, <2>4
<1>3. CASE ReloadNginx
  <2>1. ProxyTypes'
    <3>1. SessionTypes'
      BY <1>3, OnDiskType DEF ReloadNginx
    <3>2. NginxTypes'
      BY <1>3, OnDiskType DEF ReloadNginx
    <3>3. CertbotTypes'
      BY <1>3, OnDiskType DEF ReloadNginx
    <3>4. QED
      BY <3>1, <3>2, <3>3
  <2>2. Remembered'
    BY <1>3, OnDiskType DEF ReloadNginx, Remembered, Telling, WantedConf, TlsEnabled, Acme, NeedsReload
  <2>3. Told'
    BY <1>3, OnDiskType DEF ReloadNginx, Told, Remembered, Telling, Running, OnDisk, WantedConf, TlsEnabled, NeedsReload
  <2>4. Swapped'
    BY <1>3 DEF ReloadNginx, Swapped, Remembered, Telling, Acme, NeedsReload
  <2>5. QED
    BY <2>1, <2>2, <2>3, <2>4
<1>4. CASE ReloadFails
  <2>1. ProxyTypes'
    <3>1. SessionTypes' /\ NginxTypes'
      BY <1>4 DEF ReloadFails
    <3>2. CertbotTypes'
      BY <1>4, ProxyBounds DEF ReloadFails
    <3>3. QED
      BY <3>1, <3>2
  <2>2. Remembered'
    BY <1>4, OnDiskType DEF ReloadFails, Remembered, Telling, WantedConf, TlsEnabled, Acme, NeedsReload
  <2>3. Told'
    BY <1>4, OnDiskType DEF ReloadFails, Told, Remembered, Telling, Running, OnDisk, WantedConf, TlsEnabled, NeedsReload
  <2>4. Swapped'
    BY <1>4 DEF ReloadFails, Swapped, Remembered, Telling, Acme, NeedsReload
  <2>5. QED
    BY <2>1, <2>2, <2>3, <2>4
<1>5. CASE NginxUnchanged
  <2>1. ProxyTypes'
    BY <1>5 DEF NginxUnchanged
  <2>2. Remembered'
    BY <1>5, OnDiskType DEF NginxUnchanged, Remembered, Telling, WantedConf, TlsEnabled, Acme, NeedsReload
  <2>3. Told'
    BY <1>5, OnDiskType DEF NginxUnchanged, Told, Remembered, Telling, Running, OnDisk, WantedConf, TlsEnabled, NeedsReload
  <2>4. Swapped'
    BY <1>5 DEF NginxUnchanged, Swapped, Remembered, Telling, Acme, NeedsReload
  <2>5. QED
    BY <2>1, <2>2, <2>3, <2>4
<1>6. QED
  BY <1>1, <1>2, <1>3, <1>4, <1>5

\* certbot, the session's use of the hook, and its end.
LEMMA CertbotInv ==
  ASSUME ProxyInv, CertbotStep \/ Renew \/ VerifyProxy \/ BreakOff
  PROVE  ProxyInv'
<1> USE DEF ProxyInv, ProxyTypes, SessionTypes, NginxTypes, CertbotTypes, session, files, siteFile, history, certbot, Goes, Leaves, Onward, NewLineage
<1>1. CASE CertbotKeeps
  <2>1. ProxyTypes'
    BY <1>1 DEF CertbotKeeps
  <2>2. Remembered'
    BY <1>1, OnDiskType DEF CertbotKeeps, Remembered, Telling, WantedConf, TlsEnabled, Acme, Due
  <2>3. Told'
    BY <1>1, OnDiskType DEF CertbotKeeps, Told, Remembered, Telling, Running, OnDisk, WantedConf, TlsEnabled, Due
  <2>4. Swapped'
    BY <1>1 DEF CertbotKeeps, Swapped, Remembered, Telling, Acme, Due
  <2>5. QED
    BY <2>1, <2>2, <2>3, <2>4
<1>2. CASE CertbotIssues
  <2>1. ProxyTypes'
    BY <1>2, CertFacts, FreshPair DEF CertbotIssues, Acme, Kinds, Remembered, Telling
  <2>2. Remembered'
    BY <1>2, OnDiskType DEF CertbotIssues, Remembered, Telling, WantedConf, TlsEnabled, Acme, Due, Kinds
  <2>3. Told'
    BY <1>2, OnDiskType DEF CertbotIssues, Told, Remembered, Telling, Running, OnDisk, WantedConf, TlsEnabled, Due, Acme, Kinds
  <2>4. Swapped'
    BY <1>2 DEF CertbotIssues, Swapped, Remembered, Telling, Acme, Due, Kinds
  <2>5. QED
    BY <2>1, <2>2, <2>3, <2>4
<1>3. CASE CertbotFails
  <2>1. ProxyTypes'
    <3>1. SessionTypes'
      BY <1>3, ProxyBounds DEF CertbotFails
    <3>2. NginxTypes'
      BY <1>3, ProxyBounds DEF CertbotFails
    <3>3. CertbotTypes'
      BY <1>3, ProxyBounds DEF CertbotFails
    <3>4. QED
      BY <3>1, <3>2, <3>3
  <2>2. Remembered'
    BY <1>3, OnDiskType DEF CertbotFails, Remembered, Telling, WantedConf, TlsEnabled, Acme
  <2>3. Told'
    BY <1>3, OnDiskType DEF CertbotFails, Told, Remembered, Telling, Running, OnDisk, WantedConf, TlsEnabled
  <2>4. Swapped'
    BY <1>3 DEF CertbotFails, Swapped, Remembered, Telling, Acme
  <2>5. QED
    BY <2>1, <2>2, <2>3, <2>4
<1>4. CASE PushHook
  <2>1. ProxyTypes'
    BY <1>4 DEF PushHook
  <2>2. Remembered'
    BY <1>4, OnDiskType DEF PushHook, Remembered, Telling, WantedConf, TlsEnabled, Acme
  <2>3. Told'
    BY <1>4, OnDiskType DEF PushHook, Told, Remembered, Telling, Running, OnDisk, WantedConf, TlsEnabled
  <2>4. Swapped'
    BY <1>4 DEF PushHook, Swapped, Remembered, Telling, Acme
  <2>5. QED
    BY <2>1, <2>2, <2>3, <2>4
<1>5. CASE RunHook
  <2>1. ProxyTypes'
    <3>1. SessionTypes'
      BY <1>5 DEF RunHook
    <3>2. NginxTypes'
      BY <1>5 DEF RunHook
    <3>3. CertbotTypes'
      BY <1>5 DEF RunHook
    <3>4. QED
      BY <3>1, <3>2, <3>3
  <2>2. Remembered'
    BY <1>5, OnDiskType DEF RunHook, Remembered, Telling, WantedConf, TlsEnabled, Acme
  <2>3. Told'
    BY <1>5, OnDiskType DEF RunHook, Told, Remembered, Telling, Running, OnDisk, WantedConf, TlsEnabled
  <2>4. Swapped'
    BY <1>5 DEF RunHook, Swapped, Remembered, Telling, Acme
  <2>5. QED
    BY <2>1, <2>2, <2>3, <2>4
<1>6. CASE Renew
  <2>1. ProxyTypes'
    <3>1. SessionTypes' /\ NginxTypes'
      BY <1>6 DEF Renew
    <3>2. lineage.kind \in Kinds /\ Fresh \in Pairs
      BY <1>6, CertFacts, FreshPair DEF Renew
    <3>3. CertbotTypes'
      BY <1>6, <3>2, CertFacts DEF Renew
    <3>4. QED
      BY <3>1, <3>3
  <2>2. Remembered'
    BY <1>6, OnDiskType DEF Renew, Remembered, Telling, WantedConf, TlsEnabled, Acme, Kinds
  <2>3. Told'
    BY <1>6, OnDiskType DEF Renew, Told, Remembered, Telling, Running, OnDisk, WantedConf, TlsEnabled, Kinds
  <2>4. Swapped'
    BY <1>6 DEF Renew, Swapped, Remembered, Telling, Acme, Kinds
  <2>5. QED
    BY <2>1, <2>2, <2>3, <2>4
<1>7. CASE VerifyProxy
  <2>1. ProxyTypes'
    <3>1. SessionTypes'
      BY <1>7 DEF VerifyProxy
    <3>2. NginxTypes'
      BY <1>7 DEF VerifyProxy
    <3>3. CertbotTypes'
      BY <1>7 DEF VerifyProxy
    <3>4. QED
      BY <3>1, <3>2, <3>3
  <2>2. Remembered'
    BY <1>7, OnDiskType DEF VerifyProxy, Remembered, Telling, WantedConf, TlsEnabled, Acme
  <2>3. Told'
    BY <1>7, OnDiskType DEF VerifyProxy, Told, Remembered, Telling, Running, OnDisk, WantedConf, TlsEnabled
  <2>4. Swapped'
    BY <1>7 DEF VerifyProxy, Swapped, Remembered, Telling, Acme
  <2>5. QED
    BY <2>1, <2>2, <2>3, <2>4
<1>8. CASE BreakOff
  <2>1. ProxyTypes'
    <3>1. SessionTypes' /\ NginxTypes'
      BY <1>8 DEF BreakOff
    <3>2. CertbotTypes'
      BY <1>8, ProxyBounds DEF BreakOff
    <3>3. QED
      BY <3>1, <3>2
  <2>2. Remembered'
    BY <1>8, OnDiskType DEF BreakOff, Remembered, Telling, WantedConf, TlsEnabled, Acme
  <2>3. Told'
    BY <1>8, OnDiskType DEF BreakOff, Told, Remembered, Telling, Running, OnDisk, WantedConf, TlsEnabled
  <2>4. Swapped'
    BY <1>8 DEF BreakOff, Swapped, Remembered, Telling, Acme
  <2>5. QED
    BY <2>1, <2>2, <2>3, <2>4
<1>9. QED
  BY <1>1, <1>2, <1>3, <1>4, <1>5, <1>6, <1>7, <1>8 DEF CertbotStep

\* The hook, the node and the time.
LEMMA HookInv ==
  ASSUME ProxyInv, HookStep \/ NodeReboots \/ NginxStops \/ TimePasses
  PROVE  ProxyInv'
<1> USE DEF ProxyInv, ProxyTypes, SessionTypes, NginxTypes, CertbotTypes, session, files, siteFile, history, certbot, Goes, Leaves, Onward, NewLineage
<1>1. CASE HookChain
  <2>1. ProxyTypes'
    BY <1>1 DEF HookChain
  <2>2. Remembered'
    BY <1>1, OnDiskType DEF HookChain, Remembered, Telling, WantedConf, TlsEnabled, Acme
  <2>3. Told'
    BY <1>1, OnDiskType DEF HookChain, Told, Remembered, Telling, Running, OnDisk, WantedConf, TlsEnabled
  <2>4. Swapped'
    BY <1>1 DEF HookChain, Swapped, Remembered, Telling, Acme
  <2>5. QED
    BY <2>1, <2>2, <2>3, <2>4
<1>2. CASE HookKey
  <2>1. ProxyTypes'
    BY <1>2, CertFacts DEF HookKey
  <2>2. Remembered'
    BY <1>2, OnDiskType DEF HookKey, Remembered, Telling, WantedConf, TlsEnabled, Acme
  <2>3. Told'
    BY <1>2, OnDiskType DEF HookKey, Told, Remembered, Telling, Running, OnDisk, WantedConf, TlsEnabled
  <2>4. Swapped'
    BY <1>2 DEF HookKey, Swapped, Remembered, Telling, Acme
  <2>5. QED
    BY <2>1, <2>2, <2>3, <2>4
<1>3. CASE HookMisses
  <2>1. ProxyTypes'
    BY <1>3, ProxyBounds DEF HookMisses
  <2>2. Remembered'
    BY <1>3, OnDiskType DEF HookMisses, Remembered, Telling, WantedConf, TlsEnabled, Acme
  <2>3. Told'
    BY <1>3, OnDiskType DEF HookMisses, Told, Remembered, Telling, Running, OnDisk, WantedConf, TlsEnabled
  <2>4. Swapped'
    BY <1>3 DEF HookMisses, Swapped, Remembered, Telling, Acme
  <2>5. QED
    BY <2>1, <2>2, <2>3, <2>4
<1>4. CASE HookReloads
  <2>1. ProxyTypes'
    <3>1. SessionTypes'
      BY <1>4 DEF HookReloads
    <3>2. NginxTypes'
      BY <1>4, OnDiskType DEF HookReloads
    <3>3. CertbotTypes'
      BY <1>4 DEF HookReloads
    <3>4. QED
      BY <3>1, <3>2, <3>3
  <2>2. Remembered'
    BY <1>4, OnDiskType DEF HookReloads, Remembered, Telling, WantedConf, TlsEnabled, Acme
  <2>3. Told'
    BY <1>4, OnDiskType DEF HookReloads, Told, Remembered, Telling, Running, OnDisk, WantedConf, TlsEnabled
  <2>4. Swapped'
    BY <1>4 DEF HookReloads, Swapped, Remembered, Telling, Acme
  <2>5. QED
    BY <2>1, <2>2, <2>3, <2>4
<1>5. CASE HookFails
  <2>1. ProxyTypes'
    BY <1>5, ProxyBounds DEF HookFails
  <2>2. Remembered'
    BY <1>5, OnDiskType DEF HookFails, Remembered, Telling, WantedConf, TlsEnabled, Acme
  <2>3. Told'
    BY <1>5, OnDiskType DEF HookFails, Told, Remembered, Telling, Running, OnDisk, WantedConf, TlsEnabled
  <2>4. Swapped'
    BY <1>5 DEF HookFails, Swapped, Remembered, Telling, Acme
  <2>5. QED
    BY <2>1, <2>2, <2>3, <2>4
<1>6. CASE NodeReboots
  <2>1. ProxyTypes'
    <3>1. SessionTypes'
      BY <1>6 DEF NodeReboots
    <3>2. served' \in {served, OnDisk, [conf |-> "stopped", cert |-> NoCert]}
      BY <1>6 DEF NodeReboots
    <3>3. NginxTypes'
      BY <1>6, <3>2, OnDiskType, StoppedType DEF NodeReboots
    <3>4. CertbotTypes'
      BY <1>6, ProxyBounds DEF NodeReboots
    <3>5. QED
      BY <3>1, <3>3, <3>4
  <2>2. Remembered'
    BY <1>6, OnDiskType DEF NodeReboots, Remembered, Telling, WantedConf, TlsEnabled, Acme
  <2>3. Told'
    BY <1>6, OnDiskType DEF NodeReboots, Told, Remembered, Telling, Running, OnDisk, WantedConf, TlsEnabled
  <2>4. Swapped'
    BY <1>6 DEF NodeReboots, Swapped, Remembered, Telling, Acme
  <2>5. QED
    BY <2>1, <2>2, <2>3, <2>4
<1>7. CASE NginxStops
  <2>1. ProxyTypes'
    BY <1>7, StoppedType, ProxyBounds DEF NginxStops
  <2>2. Remembered'
    BY <1>7, OnDiskType DEF NginxStops, Remembered, Telling, WantedConf, TlsEnabled, Acme
  <2>3. Told'
    BY <1>7, OnDiskType DEF NginxStops, Told, Remembered, Telling, Running, OnDisk, WantedConf, TlsEnabled
  <2>4. Swapped'
    BY <1>7 DEF NginxStops, Swapped, Remembered, Telling, Acme
  <2>5. QED
    BY <2>1, <2>2, <2>3, <2>4
<1>8. CASE TimePasses
  <2>1. ProxyTypes'
    BY <1>8, CertFacts, ProxyBounds DEF TimePasses, Kinds
  <2>2. Remembered'
    BY <1>8, OnDiskType DEF TimePasses, Remembered, Telling, WantedConf, TlsEnabled, Acme
  <2>3. Told'
    BY <1>8, OnDiskType DEF TimePasses, Told, Remembered, Telling, Running, OnDisk, WantedConf, TlsEnabled
  <2>4. Swapped'
    BY <1>8 DEF TimePasses, Swapped, Remembered, Telling, Acme
  <2>5. QED
    BY <2>1, <2>2, <2>3, <2>4
<1>9. QED
  BY <1>1, <1>2, <1>3, <1>4, <1>5, <1>6, <1>7, <1>8 DEF HookStep

LEMMA ProxyInvariance == ProxySpec => []ProxyInv
<1>1. ProxyInv /\ UNCHANGED proxyVars => ProxyInv'
  BY DEF ProxyInv, ProxyTypes, SessionTypes, NginxTypes, CertbotTypes, Remembered, Told, Swapped, proxyVars, session, files, siteFile, history, certbot, Acme,
     WantedConf, TlsEnabled, Running, OnDisk
<1>2. ProxyInv /\ [ProxyNext]_proxyVars => ProxyInv'
  BY <1>1, FilesInv, ReloadInv, CertbotInv, HookInv DEF ProxyNext, NginxStep
<1>3. QED
  BY ProxyInitInv, <1>2, PTL DEF ProxySpec

\* The proxy's state has its types.
THEOREM ProxyTypeCorrect == ProxySpec => []ProxyTypes
BY ProxyInvariance, PTL DEF ProxyInv

\* For any number of troubles: what nginx serves is what is on the disk, unless it is owed
\* a reload, and in the scheme of the config while the phase is done.
THEOREM ProxyServes == ProxySpec => []ServesTheDisk
<1>1. ProxyInv => ServesTheDisk
  BY DEF ProxyInv, Remembered, Told, ServesTheDisk
<1>2. QED
  BY ProxyInvariance, <1>1, PTL

\* For any number of troubles and renewals: a done ACME phase holds what certbot holds,
\* from the right environment, unless the hook could not copy.
THEOREM ProxyHoldsIssued == ProxySpec => []DoneHoldsIssued
<1>1. ProxyInv => DoneHoldsIssued
  BY DEF ProxyInv, Swapped, DoneHoldsIssued
<1>2. QED
  BY ProxyInvariance, <1>1, PTL

-----------------------------------------------------------------------------
(* Nothing trusted gives way to a placeholder (SingleProxy).                *)

\* While nginx serves a trusted certificate, and everything the session wrote has been
\* told to it, the chain on the disk is one the phase keeps.
Kept == ~owing /\ ~dirty /\ Trusted(served.cert) => chain # NoCert /\ chain.pair \notin old

\* A certificate nginx runs on was read with a key.
Fitting ==
  /\ served.cert # NoCert => key \in Pairs
  /\ served.conf = "absent" => served.cert = NoCert

\* What the hook copies is not a placeholder, and good for 30 days more.
Renewed ==
  /\ lineage.kind # "self"
  /\ hook # "idle" \/ at \in {"push", "run"} => lineage # NoCert /\ lineage.pair \notin old

\* A placeholder's pair is nobody else's.
Apart ==
  /\ at = "chain" => hold \notin {chain.pair, lineage.pair}
  /\ chain.kind = "self" => chain.pair # lineage.pair
  /\ at = "key" => chain.kind # "self"

\* While nginx serves a trusted certificate, a placeholder on the disk is one it refuses.
Unloadable ==
  ~owing /\ Trusted(served.cert) =>
    /\ chain.kind = "self" => ~Matched
    /\ at = "chain" => key # hold

Guarded == ProxyInv /\ Kept /\ Fitting /\ Renewed /\ Apart /\ Unloadable

LEMMA GuardedInit == ProxyInit => Guarded
<1>1. ProxyInit => Kept /\ Fitting /\ Renewed /\ Apart /\ Unloadable
  BY CertFacts DEF ProxyInit, Kept, Fitting, Renewed, Apart, Unloadable, Trusted, Matched, NoCert
<1>2. QED
  BY <1>1, ProxyInitInv DEF Guarded

\* The session up to the site file.
LEMMA FilesGuarded ==
  ASSUME Guarded, (\E p \in Providers : BeginProxy(p)) \/ FilesStep \/ InstallNginx \/ PushConf \/ LinkSite \/ LinkFails
  PROVE  (Kept /\ Fitting /\ Renewed /\ Apart /\ Unloadable)'
<1> USE DEF Guarded, ProxyInv, ProxyTypes, SessionTypes, NginxTypes, CertbotTypes, session, files, siteFile, history, certbot, Goes, Leaves, Onward, NewLineage, Trusted, Matched
<1>1. CASE \E p \in Providers : BeginProxy(p)
  BY <1>1, CertFacts DEF BeginProxy, Kept, Fitting, Renewed, Apart, Unloadable, Remembered, Telling
<1>2. CASE KeepCert
  BY <1>2, CertFacts DEF KeepCert, Kept, Fitting, Renewed, Apart, Unloadable, Remembered, Telling
<1>3. CASE MakeKey
  <2>1. Kept'
    BY <1>3, CertFacts, FreshPair DEF MakeKey, Keepable, Kept, Fitting, Remembered, Telling, Renewed
  <2>2. Fitting'
    BY <1>3, CertFacts, FreshPair DEF MakeKey, Keepable, Fitting, Remembered, Telling, Renewed
  <2>3. Renewed'
    BY <1>3, CertFacts, FreshPair DEF MakeKey, Keepable, Renewed, Remembered, Telling
  <2>4. Apart'
    BY <1>3, CertFacts, FreshPair DEF MakeKey, Keepable, Apart, Renewed
  <2>5. Unloadable'
    <3>1. ~(~owing /\ Trusted(served.cert))
      <4> SUFFICES ASSUME ~owing, Trusted(served.cert) PROVE FALSE
        OBVIOUS
      <4>1. ~dirty /\ at = "cert" /\ ~Keepable
        BY <1>3 DEF MakeKey, Remembered
      <4>2. chain # NoCert /\ chain.pair \notin old
        BY <4>1 DEF Kept
      <4>3. served.cert # NoCert
        BY CertFacts
      <4>4. key # NoPair
        BY <4>3, ProxyAssumption DEF Fitting
      <4>5. QED
        BY <4>1, <4>2, <4>4 DEF Keepable
    <3>2. QED
      BY <1>3, <3>1 DEF MakeKey, Unloadable
  <2>6. QED
    BY <2>1, <2>2, <2>3, <2>4, <2>5
<1>4. CASE MakeChain
  <2>1. Kept'
    BY <1>4, CertFacts DEF MakeChain, Kept, Fitting, Remembered, Telling, Renewed
  <2>2. Fitting'
    BY <1>4, CertFacts DEF MakeChain, Fitting, Remembered, Telling, Renewed
  <2>3. Renewed'
    BY <1>4, CertFacts DEF MakeChain, Renewed, Remembered, Telling
  <2>4. Apart'
    BY <1>4, CertFacts DEF MakeChain, Apart, Renewed
  <2>5. Unloadable'
    BY <1>4, CertFacts DEF MakeChain, Unloadable, Kept, Fitting, Apart, Renewed, Remembered, Telling
  <2>6. QED
    BY <2>1, <2>2, <2>3, <2>4, <2>5
<1>5. CASE ImportChain
  <2>1. Kept'
    BY <1>5, CertFacts, ProxyBounds DEF ImportChain, Kept, Fitting, Remembered, Telling, Renewed
  <2>2. Fitting'
    BY <1>5, CertFacts, ProxyBounds DEF ImportChain, Fitting, Remembered, Telling, Renewed
  <2>3. Renewed'
    BY <1>5, CertFacts, ProxyBounds DEF ImportChain, Renewed, Remembered, Telling
  <2>4. Apart'
    BY <1>5, CertFacts, ProxyBounds DEF ImportChain, Apart, Renewed
  <2>5. Unloadable'
    BY <1>5, CertFacts, ProxyBounds DEF ImportChain, Unloadable, Kept, Fitting, Apart, Renewed, Remembered, Telling
  <2>6. QED
    BY <2>1, <2>2, <2>3, <2>4, <2>5
<1>6. CASE ImportKey
  <2>1. Kept'
    BY <1>6, CertFacts DEF ImportKey, Kept, Fitting, Remembered, Telling, Renewed
  <2>2. Fitting'
    BY <1>6, CertFacts DEF ImportKey, Fitting, Remembered, Telling, Renewed
  <2>3. Renewed'
    BY <1>6, CertFacts DEF ImportKey, Renewed, Remembered, Telling
  <2>4. Apart'
    BY <1>6, CertFacts DEF ImportKey, Apart, Renewed
  <2>5. Unloadable'
    BY <1>6, CertFacts DEF ImportKey, Unloadable, Kept, Fitting, Apart, Renewed, Remembered, Telling
  <2>6. QED
    BY <2>1, <2>2, <2>3, <2>4, <2>5
<1>7. CASE InstallNginx
  <2>1. Kept'
    BY <1>7, CertFacts DEF InstallNginx, OnDisk, Kept, Fitting, Remembered, Telling, Renewed
  <2>2. Fitting'
    BY <1>7, CertFacts DEF InstallNginx, OnDisk, Fitting, Remembered, Telling, Renewed
  <2>3. Renewed'
    BY <1>7, CertFacts DEF InstallNginx, OnDisk, Renewed, Remembered, Telling
  <2>4. Apart'
    BY <1>7, CertFacts DEF InstallNginx, OnDisk, Apart, Renewed
  <2>5. Unloadable'
    BY <1>7, CertFacts DEF InstallNginx, OnDisk, Unloadable, Kept, Fitting, Apart, Renewed, Remembered, Telling
  <2>6. QED
    BY <2>1, <2>2, <2>3, <2>4, <2>5
<1>8. CASE PushConf \/ LinkSite \/ LinkFails
  BY <1>8, CertFacts DEF PushConf, WriteSite, LinkSite, LinkFails, Kept, Fitting, Renewed, Apart, Unloadable, Remembered, Telling
<1>9. QED
  BY <1>1, <1>2, <1>3, <1>4, <1>5, <1>6, <1>7, <1>8 DEF FilesStep

\* The test and the reload.
LEMMA ReloadGuarded ==
  ASSUME Guarded, TestPasses \/ TestFails \/ ReloadNginx \/ ReloadFails \/ NginxUnchanged
  PROVE  (Kept /\ Fitting /\ Renewed /\ Apart /\ Unloadable)'
<1> USE DEF Guarded, ProxyInv, ProxyTypes, SessionTypes, NginxTypes, CertbotTypes, session, files, siteFile, history, certbot, Goes, Leaves, Onward, NewLineage, Trusted, Matched
<1>1. CASE TestPasses
  BY <1>1, CertFacts DEF TestPasses, Kept, Fitting, Renewed, Apart, Unloadable, Remembered, Telling
<1>2. CASE TestFails
  BY <1>2, CertFacts DEF TestFails, Kept, Fitting, Renewed, Apart, Unloadable, Remembered, Telling
<1>3. CASE ReloadNginx
  <2>1. Kept'
    BY <1>3, CertFacts DEF ReloadNginx, Loadable, OnDisk, Kept, Fitting, Remembered, Telling, Renewed
  <2>2. Fitting'
    BY <1>3, CertFacts DEF ReloadNginx, Loadable, OnDisk, Fitting, Remembered, Telling, Renewed
  <2>3. Renewed'
    BY <1>3, CertFacts DEF ReloadNginx, Loadable, OnDisk, Renewed, Remembered, Telling
  <2>4. Apart'
    BY <1>3, CertFacts DEF ReloadNginx, Loadable, OnDisk, Apart, Renewed
  <2>5. Unloadable'
    BY <1>3, CertFacts DEF ReloadNginx, Loadable, OnDisk, Unloadable, Kept, Fitting, Apart, Renewed, Remembered, Telling
  <2>6. QED
    BY <2>1, <2>2, <2>3, <2>4, <2>5
<1>4. CASE ReloadFails
  BY <1>4, CertFacts DEF ReloadFails, Kept, Fitting, Renewed, Apart, Unloadable, Remembered, Telling
<1>5. CASE NginxUnchanged
  BY <1>5, CertFacts DEF NginxUnchanged, Kept, Fitting, Renewed, Apart, Unloadable, Remembered, Telling
<1>6. QED
  BY <1>1, <1>2, <1>3, <1>4, <1>5

\* certbot, and the end of the session.
LEMMA CertbotGuarded ==
  ASSUME Guarded, CertbotStep \/ Renew \/ VerifyProxy \/ BreakOff
  PROVE  (Kept /\ Fitting /\ Renewed /\ Apart /\ Unloadable)'
<1> USE DEF Guarded, ProxyInv, ProxyTypes, SessionTypes, NginxTypes, CertbotTypes, session, files, siteFile, history, certbot, Goes, Leaves, Onward, NewLineage, Trusted, Matched
<1>1. CASE CertbotKeeps
  BY <1>1, CertFacts DEF CertbotKeeps, Due, Kept, Fitting, Renewed, Apart, Unloadable, Remembered, Telling
<1>2. CASE CertbotIssues
  <2>1. Kept'
    BY <1>2, CertFacts, FreshPair DEF CertbotIssues, Due, Acme, Kept, Fitting, Remembered, Telling, Renewed
  <2>2. Fitting'
    BY <1>2, CertFacts, FreshPair DEF CertbotIssues, Due, Acme, Fitting, Remembered, Telling, Renewed
  <2>3. Renewed'
    BY <1>2, CertFacts, FreshPair DEF CertbotIssues, Due, Acme, Renewed, Remembered, Telling
  <2>4. Apart'
    BY <1>2, CertFacts, FreshPair DEF CertbotIssues, Due, Acme, Apart, Renewed
  <2>5. Unloadable'
    BY <1>2, CertFacts, FreshPair DEF CertbotIssues, Due, Acme, Unloadable, Kept, Fitting, Apart, Renewed, Remembered, Telling
  <2>6. QED
    BY <2>1, <2>2, <2>3, <2>4, <2>5
<1>3. CASE CertbotFails
  BY <1>3, CertFacts DEF CertbotFails, Kept, Fitting, Renewed, Apart, Unloadable, Remembered, Telling
<1>4. CASE PushHook
  BY <1>4, CertFacts DEF PushHook, Kept, Fitting, Renewed, Apart, Unloadable, Remembered, Telling
<1>5. CASE RunHook
  BY <1>5, CertFacts DEF RunHook, Kept, Fitting, Renewed, Apart, Unloadable, Remembered, Telling
<1>6. CASE Renew
  <2>1. Kept'
    BY <1>6, CertFacts, FreshPair DEF Renew, Kept, Fitting, Remembered, Telling, Renewed
  <2>2. Fitting'
    BY <1>6, CertFacts, FreshPair DEF Renew, Fitting, Remembered, Telling, Renewed
  <2>3. Renewed'
    <3>1. lineage'.kind = lineage.kind /\ lineage'.pair = Fresh /\ Fresh \notin old'
      BY <1>6 DEF Renew
    <3>2. lineage' # NoCert
      BY <3>1, FreshPair, CertFacts, ProxyAssumption
    <3>3. QED
      BY <3>1, <3>2 DEF Renewed
  <2>4. Apart'
    BY <1>6, CertFacts, FreshPair DEF Renew, Apart, Renewed
  <2>5. Unloadable'
    BY <1>6, CertFacts, FreshPair DEF Renew, Unloadable, Kept, Fitting, Apart, Renewed, Remembered, Telling
  <2>6. QED
    BY <2>1, <2>2, <2>3, <2>4, <2>5
<1>7. CASE VerifyProxy
  BY <1>7, CertFacts DEF VerifyProxy, Kept, Fitting, Renewed, Apart, Unloadable, Remembered, Telling
<1>8. CASE BreakOff
  BY <1>8, CertFacts DEF BreakOff, Kept, Fitting, Renewed, Apart, Unloadable, Remembered, Telling
<1>9. QED
  BY <1>1, <1>2, <1>3, <1>4, <1>5, <1>6, <1>7, <1>8 DEF CertbotStep

\* The hook, the node and the time.
LEMMA HookGuarded ==
  ASSUME Guarded, HookStep \/ NodeReboots \/ NginxStops \/ TimePasses
  PROVE  (Kept /\ Fitting /\ Renewed /\ Apart /\ Unloadable)'
<1> USE DEF Guarded, ProxyInv, ProxyTypes, SessionTypes, NginxTypes, CertbotTypes, session, files, siteFile, history, certbot, Goes, Leaves, Onward, NewLineage, Trusted, Matched
<1>1. CASE HookChain
  <2>1. Kept'
    BY <1>1, CertFacts DEF HookChain, Kept, Fitting, Remembered, Telling, Renewed
  <2>2. Fitting'
    BY <1>1, CertFacts DEF HookChain, Fitting, Remembered, Telling, Renewed
  <2>3. Renewed'
    BY <1>1, CertFacts DEF HookChain, Renewed, Remembered, Telling
  <2>4. Apart'
    BY <1>1, CertFacts DEF HookChain, Apart, Renewed
  <2>5. Unloadable'
    BY <1>1, CertFacts DEF HookChain, Unloadable, Kept, Fitting, Apart, Renewed, Remembered, Telling
  <2>6. QED
    BY <2>1, <2>2, <2>3, <2>4, <2>5
<1>2. CASE HookKey
  <2>1. Kept'
    BY <1>2, CertFacts DEF HookKey, Kept, Fitting, Remembered, Telling, Renewed
  <2>2. Fitting'
    BY <1>2, CertFacts DEF HookKey, Fitting, Remembered, Telling, Renewed
  <2>3. Renewed'
    BY <1>2, CertFacts DEF HookKey, Renewed, Remembered, Telling
  <2>4. Apart'
    BY <1>2, CertFacts DEF HookKey, Apart, Renewed
  <2>5. Unloadable'
    BY <1>2, CertFacts DEF HookKey, Unloadable, Kept, Fitting, Apart, Renewed, Remembered, Telling
  <2>6. QED
    BY <2>1, <2>2, <2>3, <2>4, <2>5
<1>3. CASE HookMisses
  BY <1>3, CertFacts DEF HookMisses, Kept, Fitting, Renewed, Apart, Unloadable, Remembered, Telling
<1>4. CASE HookReloads
  <2>1. Kept'
    BY <1>4, CertFacts DEF HookReloads, Loadable, OnDisk, Kept, Fitting, Remembered, Telling, Renewed
  <2>2. Fitting'
    BY <1>4, CertFacts DEF HookReloads, Loadable, OnDisk, Fitting, Remembered, Telling, Renewed
  <2>3. Renewed'
    BY <1>4, CertFacts DEF HookReloads, Loadable, OnDisk, Renewed, Remembered, Telling
  <2>4. Apart'
    BY <1>4, CertFacts DEF HookReloads, Loadable, OnDisk, Apart, Renewed
  <2>5. Unloadable'
    BY <1>4, CertFacts DEF HookReloads, Loadable, OnDisk, Unloadable, Kept, Fitting, Apart, Renewed, Remembered, Telling
  <2>6. QED
    BY <2>1, <2>2, <2>3, <2>4, <2>5
<1>5. CASE HookFails
  BY <1>5, CertFacts DEF HookFails, Kept, Fitting, Renewed, Apart, Unloadable, Remembered, Telling
<1>6. CASE NodeReboots
  <2>1. Kept'
    BY <1>6, CertFacts DEF NodeReboots, Loadable, OnDisk, Kept, Fitting, Remembered, Telling, Renewed
  <2>2. Fitting'
    BY <1>6, CertFacts DEF NodeReboots, Loadable, OnDisk, Fitting, Remembered, Telling, Renewed
  <2>3. Renewed'
    BY <1>6, CertFacts DEF NodeReboots, Loadable, OnDisk, Renewed, Remembered, Telling
  <2>4. Apart'
    BY <1>6, CertFacts DEF NodeReboots, Loadable, OnDisk, Apart, Renewed
  <2>5. Unloadable'
    BY <1>6, CertFacts DEF NodeReboots, Loadable, OnDisk, Unloadable, Kept, Fitting, Apart, Renewed, Remembered, Telling
  <2>6. QED
    BY <2>1, <2>2, <2>3, <2>4, <2>5
<1>7. CASE NginxStops
  BY <1>7, CertFacts DEF NginxStops, Kept, Fitting, Renewed, Apart, Unloadable, Remembered, Telling
<1>8. CASE TimePasses
  <2>1. Kept'
    BY <1>8, CertFacts DEF TimePasses, Kept, Fitting, Remembered, Telling, Renewed
  <2>2. Fitting'
    BY <1>8, CertFacts DEF TimePasses, Fitting, Remembered, Telling, Renewed
  <2>3. Renewed'
    BY <1>8, CertFacts DEF TimePasses, Renewed, Remembered, Telling
  <2>4. Apart'
    BY <1>8, CertFacts DEF TimePasses, Apart, Renewed
  <2>5. Unloadable'
    BY <1>8, CertFacts DEF TimePasses, Unloadable, Kept, Fitting, Apart, Renewed, Remembered, Telling
  <2>6. QED
    BY <2>1, <2>2, <2>3, <2>4, <2>5
<1>9. QED
  BY <1>1, <1>2, <1>3, <1>4, <1>5, <1>6, <1>7, <1>8 DEF HookStep

LEMMA GuardedInvariance == ProxySpec => []Guarded
<1>1. Guarded /\ UNCHANGED proxyVars => Guarded'
  BY DEF Guarded, ProxyInv, ProxyTypes, SessionTypes, NginxTypes, CertbotTypes, Remembered, Told, Swapped, proxyVars, session, files, siteFile, history,
     certbot, Acme, WantedConf, TlsEnabled, Running, OnDisk, Kept, Fitting, Renewed, Apart, Unloadable, Trusted, Matched
<1>2. Guarded /\ ProxyNext => Guarded'
  <2> SUFFICES ASSUME Guarded, ProxyNext PROVE Guarded'
    OBVIOUS
  <2>1. ProxyInv'
    BY FilesInv, ReloadInv, CertbotInv, HookInv DEF ProxyNext, NginxStep, Guarded
  <2>2. (Kept /\ Fitting /\ Renewed /\ Apart /\ Unloadable)'
    BY FilesGuarded, ReloadGuarded, CertbotGuarded, HookGuarded DEF ProxyNext, NginxStep
  <2>3. QED
    BY <2>1, <2>2 DEF Guarded
<1>3. QED
  BY GuardedInit, <1>1, <1>2, PTL DEF ProxySpec

\* The three steps that make nginx read the disk do not find a placeholder there.
LEMMA StepKeepsTrust ==
  ASSUME Guarded, [ProxyNext]_proxyVars, Trusted(served.cert), ~owing
  PROVE  served'.cert.kind # "self"
<1> USE DEF Trusted, OnDisk, Loadable, session, files, siteFile, history, certbot, Goes, Leaves
<1>1. NoCert.kind # "self" /\ served.cert.kind # "self"
  BY CertFacts
<1>2. chain.kind = "self" => ~Matched
  BY DEF Guarded, Unloadable
<1>3. CASE InstallNginx \/ ReloadNginx \/ HookReloads \/ NodeReboots \/ NginxStops
  <2>1. CASE InstallNginx
    BY <2>1, <1>1 DEF InstallNginx, Guarded, ProxyInv, Remembered
  <2>2. CASE ReloadNginx
    BY <2>2, <1>1, <1>2 DEF ReloadNginx
  <2>3. CASE HookReloads
    BY <2>3, <1>1, <1>2 DEF HookReloads
  <2>4. CASE NodeReboots
    BY <2>4, <1>1, <1>2 DEF NodeReboots
  <2>5. CASE NginxStops
    BY <2>5, <1>1 DEF NginxStops
  <2>6. QED
    BY <1>3, <2>1, <2>2, <2>3, <2>4, <2>5
<1>4. CASE UNCHANGED proxyVars
  BY <1>4, <1>1 DEF proxyVars
<1>5. CASE (\E p \in Providers : BeginProxy(p)) \/ FilesStep \/ PushConf \/ LinkSite \/ LinkFails \/ TestPasses \/ TestFails \/ ReloadFails \/ NginxUnchanged
  BY <1>5, <1>1 DEF BeginProxy, FilesStep, KeepCert, MakeKey, MakeChain, ImportChain, ImportKey, PushConf, WriteSite, LinkSite, LinkFails, TestPasses, TestFails,
     ReloadFails, NginxUnchanged
<1>6. CASE CertbotStep \/ Renew \/ VerifyProxy \/ BreakOff
  BY <1>6, <1>1 DEF CertbotStep, CertbotKeeps, CertbotIssues, CertbotFails, PushHook, RunHook, Renew, VerifyProxy, BreakOff
<1>7. CASE HookChain \/ HookKey \/ HookMisses \/ HookFails \/ TimePasses
  BY <1>7, <1>1 DEF HookChain, HookKey, HookMisses, HookFails, TimePasses
<1>8. QED
  BY <1>3, <1>4, <1>5, <1>6, <1>7 DEF ProxyNext, NginxStep, HookStep

\* For any number of troubles, edits and renewals: a certificate browsers take, with more
\* than 30 days left, is not replaced in nginx by a placeholder, unless a reload was lost.
THEOREM TrustIsKept == ProxySpec => NoDowngrade
<1>1. Guarded /\ [ProxyNext]_proxyVars =>
        [Trusted(served.cert) /\ ~owing => served'.cert.kind # "self"]_proxyVars
  BY StepKeepsTrust
<1>2. QED
  BY GuardedInvariance, <1>1, PTL DEF ProxySpec, NoDowngrade

\* What the proxy's session records, and when it ends.
LEMMA ProxyFrame ==
  ASSUME ProxyInv, ProxyNext
  PROVE  \/ phase' = phase /\ (at' = "idle" <=> at = "idle")
         \/ at = "idle" /\ at' # "idle" /\ phase' = "pending"
         \/ at # "idle" /\ at' = "idle" /\ phase' \in {phase, "done", "failed"}
<1> USE DEF session, Goes, Leaves, Onward
<1>1. CASE \E p \in Providers : BeginProxy(p)
  BY <1>1 DEF BeginProxy
<1>2. CASE FilesStep
  BY <1>2 DEF FilesStep, KeepCert, MakeKey, MakeChain, ImportChain, ImportKey
<1>3. CASE NginxStep
  BY <1>3 DEF NginxStep, InstallNginx, PushConf, LinkSite, LinkFails, TestPasses, TestFails, ReloadNginx, ReloadFails, NginxUnchanged
<1>4. CASE CertbotStep \/ Renew
  BY <1>4 DEF CertbotStep, CertbotKeeps, CertbotIssues, CertbotFails, PushHook, RunHook, Renew
<1>5. CASE HookStep
  BY <1>5 DEF HookStep, HookChain, HookKey, HookMisses, HookReloads, HookFails
<1>6. CASE VerifyProxy \/ BreakOff
  BY <1>6 DEF VerifyProxy, BreakOff
<1>7. CASE NodeReboots \/ NginxStops \/ TimePasses
  BY <1>7 DEF NodeReboots, NginxStops, TimePasses
<1>8. QED
  BY <1>1, <1>2, <1>3, <1>4, <1>5, <1>6, <1>7 DEF ProxyNext

ProxyEntries == [p \in {"nginx"} |-> phase]

LEMMA ProxyRunnerStep ==
  ASSUME ProxyInv, [ProxyNext]_proxyVars
  PROVE  [ProxyContract!Next]_<<ProxyEntries, ProxyUnder>>
<1>0. /\ phase' # "done" => {"nginx"} \in ProxyContract!Turns(ProxyEntries')
      /\ {} \in ProxyContract!Turns(ProxyEntries')
  <2>1. phase' # "done" => {"nginx"} \in ProxyContract!Turns(ProxyEntries')
    BY DEF ProxyContract!Turns, ProxyEntries
  <2>2. QED
    BY <2>1 DEF ProxyContract!Turns
<1>1. \A s : phase' = s => ProxyEntries' = [ProxyEntries EXCEPT !["nginx"] = s]
  BY DEF ProxyEntries
<1>2. CASE phase' = phase /\ (at' = "idle" <=> at = "idle")
  BY <1>2 DEF ProxyEntries, ProxyUnder
<1>3. CASE at = "idle" /\ at' # "idle" /\ phase' = "pending"
  <2>1. ProxyEntries' = [p \in {"nginx"} |-> IF p \in {"nginx"} THEN "pending" ELSE ProxyEntries[p]]
    BY <1>3 DEF ProxyEntries
  <2>2. ProxyUnder = {} /\ ProxyUnder' = {"nginx"}
    BY <1>3 DEF ProxyUnder
  <2>3. ProxyContract!Provision
    BY <1>0, <1>3, <2>1, <2>2 DEF ProxyContract!Provision, ProxyEntries
  <2>4. QED
    BY <2>3 DEF ProxyContract!Next
<1>4. CASE at # "idle" /\ at' = "idle" /\ phase' \in {phase, "done", "failed"}
  <2>1. ProxyUnder = {"nginx"} /\ ProxyUnder' = {}
    BY <1>4 DEF ProxyUnder
  <2>2. CASE phase' = phase
    <3>1. ProxyContract!Cut("nginx")
      BY <2>1, <2>2 DEF ProxyContract!Cut, ProxyEntries
    <3>2. QED
      BY <3>1 DEF ProxyContract!Next
  <2>3. CASE phase' \in {"done", "failed"}
    <3>1. ProxyContract!Verified("nginx") \/ ProxyContract!Failed("nginx")
      BY <1>0, <1>1, <2>1, <2>3 DEF ProxyContract!Verified, ProxyContract!Failed, ProxyContract!Written, ProxyEntries
    <3>2. QED
      BY <3>1 DEF ProxyContract!Next
  <2>4. QED
    BY <1>4, <2>2, <2>3
<1>5. CASE UNCHANGED proxyVars
  BY <1>2, <1>5 DEF proxyVars, session
<1>6. QED
  BY <1>2, <1>3, <1>4, <1>5, ProxyFrame

\* The nginx phase of a single node, under every provider, comes under way and is recorded
\* as the contract of the runner says (base.py:134-185); certbot's timer, and a hook that
\* outlives its session, do not touch its entry.
THEOREM ProxyRunsAsRunner == ProxySpec => ProxyImplementsPipeline
<1>1. ProxyInit => ProxyContract!Init
  BY DEF ProxyInit, ProxyUnder, ProxyContract!Init
<1>2. ProxyInv /\ [ProxyNext]_proxyVars => [ProxyContract!Next]_<<ProxyEntries, ProxyUnder>>
  BY ProxyRunnerStep
<1>3. QED
  BY <1>1, <1>2, ProxyInvariance, PTL DEF ProxySpec, ProxyImplementsPipeline, ProxyContract!Spec, ProxyEntries

=============================================================================
