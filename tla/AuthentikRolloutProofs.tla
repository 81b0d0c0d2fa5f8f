------------------------ MODULE AuthentikRolloutProofs ------------------------
(***************************************************************************)
(* The authentik phase, for a fleet of any size, any leader, any number of  *)
(* config edits, crashes, reboots and sessions cut short.                   *)
(***************************************************************************)
EXTENDS AuthentikRollout, TLAPS

\* What the push has done by each stage, and where the session stands in it.
Pushed ==
  /\ pc \in {"restart", "gate", "pin", "verify"} => \A n \in Node : file[n] = cfg
  /\ pc \in {"push", "restart", "gate", "pin"} => k \in Node
  /\ pc = "push" => \A j \in 1..(k - 1) : file[j] = cfg

\* A server that runs has a migrated database under it, and a bootstrap that
\* is past the leader has migrated to the session's version.
Seen ==
  /\ \A n \in Node : Running(n) => schema >= ver[n]
  /\ pc = "gate" => ver[Order(k)] = cfg
  /\ (~rolling /\ pc \in {"restart", "gate"} /\ k > 1) => schema >= cfg

\* Nodes that are not excused are healthy, but for the one being attended to,
\* or the one the last session left behind.
Attended ==
  /\ pc \notin {"idle", "gate"} => \A n \in Node \ excused : st[n] = "healthy"
  /\ pc = "gate" => \A n \in Node \ excused : st[n] = "healthy" \/ n = Order(k)
  /\ \A m, n \in Node \ excused : st[m] # "healthy" /\ st[n] # "healthy" => m = n

\* How far the nodes that were on their own files have come to the pushed ones.
Converging ==
  /\ (rolling /\ pc \in {"push", "restart", "gate"}) =>
       \A n \in Node \ changed : ver[n] = file[n] \/ n \in behind
  /\ pc \in {"restart", "gate"} =>
       \A i \in 1..(k - 1) : ver[Order(i)] = file[Order(i)] \/ Order(i) \in behind
  /\ pc \in {"pin", "verify"} => \A n \in Node : ver[n] = file[n] \/ n \in behind
  /\ pc = "verify" => tag = cfg
  /\ pc # "idle" => status # "done"
  /\ status = "done" => \A n \in Node : file[n] = tag /\ (ver[n] = tag \/ n \in behind)

IInv == TypeOK /\ Pushed /\ Seen /\ Attended /\ Converging

LEMMA OrderInNode == \A i \in Node : Order(i) \in Node
BY RolloutAssumption DEF Order, Node

LEMMA OrderOnto == \A n \in Node : \E i \in Node : Order(i) = n
<1> SUFFICES ASSUME NEW n \in Node PROVE \E i \in Node : Order(i) = n
  OBVIOUS
<1>1. CASE rolling
  <2>1. N + 1 - n \in Node /\ Order(N + 1 - n) = n
    BY <1>1, RolloutAssumption DEF Order, Node
  <2>2. QED
    BY <2>1
<1>2. CASE ~rolling /\ n = Leader
  <2>1. 1 \in Node /\ Order(1) = n
    BY <1>2, RolloutAssumption DEF Order, Node
  <2>2. QED
    BY <2>1
<1>3. CASE ~rolling /\ n < Leader
  <2>1. n + 1 \in Node /\ Order(n + 1) = n
    BY <1>3, RolloutAssumption DEF Order, Node
  <2>2. QED
    BY <2>1
<1>4. CASE ~rolling /\ n > Leader
  <2>1. n \in Node /\ Order(n) = n
    BY <1>4, RolloutAssumption DEF Order, Node
  <2>2. QED
    BY <2>1
<1>5. QED
  BY <1>1, <1>2, <1>3, <1>4, RolloutAssumption DEF Node

LEMMA Bounds ==
  /\ 0 \in Versions /\ 1 \in Versions /\ Versions \subseteq Nat
  /\ 1 \in Node /\ 1 \in 1..(N + 1) /\ 0 \in 0..MaxFaults /\ 0 \in 0..MaxKills
  /\ \A i \in Node : i \in Nat /\ i \in 1..(N + 1) /\ i + 1 \in 1..(N + 1)
  /\ \A i \in Node : i # N => i + 1 \in Node
BY RolloutAssumption DEF Versions, Node

LEMMA InitInv == Init => IInv
<1> SUFFICES ASSUME Init PROVE IInv
  OBVIOUS
<1>1. NodesType /\ SessionType
  <2>1. NodesType
    BY Bounds DEF Init, NodesType, NodeStates
  <2>2. SessionType
    BY Bounds DEF Init, SessionType
  <2>3. QED
    BY <2>1, <2>2
<1>2. Pushed /\ Seen /\ Attended /\ Converging
  BY DEF Init, Pushed, Seen, Attended, Converging, Running
<1>3. TypeOK
  BY <1>1, Bounds DEF Init, TypeOK
<1>4. QED
  BY <1>2, <1>3 DEF IInv

LEMMA NodesInv ==
  ASSUME IInv, NEW n \in Node,
         WorkerHealthy(n) \/ ComposeGivesUp(n) \/ Settle(n) \/ Crash(n) \/ Reboot(n)
  PROVE  IInv'
<1> USE RolloutAssumption DEF IInv, nodeVars, recordVars, sessionVars, history
<1>1. TypeOK'
  <2>1. NodesType'
    BY DEF TypeOK, NodesType, WorkerHealthy, ComposeGivesUp, Settle, Crash, Reboot, NodeStep, Fault, NodeStates
  <2>2. UNCHANGED <<sessionVars, recordVars, want, behind, kills>>
    BY DEF WorkerHealthy, ComposeGivesUp, Settle, Crash, Reboot, NodeStep, Fault
  <2>3. SessionType'
    BY <2>2 DEF TypeOK, SessionType
  <2>4. excused' \subseteq Node /\ faults' \in 0..MaxFaults
    BY DEF TypeOK, WorkerHealthy, ComposeGivesUp, Settle, Crash, Reboot, NodeStep, Fault
  <2>5. QED
    BY <2>1, <2>2, <2>3, <2>4 DEF TypeOK
<1>2. UNCHANGED <<file, tag, status, cfg, pc, k, rolling, changed, behind>>
      /\ (ver' = ver \/ ver' = [ver EXCEPT ![n] = file[n]])
      /\ schema' \in Nat /\ schema' >= schema
  BY DEF TypeOK, NodesType, SessionType, WorkerHealthy, ComposeGivesUp, Settle, Crash, Reboot, NodeStep, Fault, Versions
<1>3. \A i \in Node : Order(i)' = Order(i)
  BY <1>2 DEF Order
<1>4. Pushed'
  BY <1>2 DEF Pushed
<1>5. Seen'
  <2>1. \A m \in Node : Running(m)' => schema' >= ver'[m]
    BY DEF TypeOK, NodesType, SessionType, Seen, Running, WorkerHealthy, ComposeGivesUp, Settle, Crash, Reboot, NodeStep,
           Fault, Versions
  <2>2. pc' = "gate" => ver'[Order(k)'] = cfg'
    BY <1>2, <1>3, OrderInNode DEF TypeOK, NodesType, SessionType, Pushed, Seen
  <2>3. (~rolling' /\ pc' \in {"restart", "gate"} /\ k' > 1) => schema' >= cfg'
    BY <1>2 DEF TypeOK, NodesType, SessionType, Seen, Versions
  <2>4. QED
    BY <2>1, <2>2, <2>3 DEF Seen
<1>6. Attended'
  <2>1. excused \subseteq excused' /\ \A m \in Node \ excused' : st[m] = "healthy" => st'[m] = "healthy"
    BY DEF TypeOK, NodesType, SessionType, WorkerHealthy, ComposeGivesUp, Settle, Crash, Reboot, NodeStep, Fault
  <2>2. pc \in {"gate"} => Order(k)' = Order(k)
    BY <1>2, <1>3 DEF Pushed
  <2>3. QED
    BY <1>2, <2>1, <2>2 DEF Attended
<1>7. Converging'
  <2>1. \A m \in Node : ver'[m] = ver[m] \/ ver'[m] = file[m]
    BY <1>2 DEF TypeOK, NodesType
  <2>2. \A m \in Node : (ver[m] = file[m] \/ m \in behind) => (ver'[m] = file'[m] \/ m \in behind')
    BY <1>2, <2>1
  <2>3. pc \in {"restart", "gate"} =>
          \A i \in 1..(k - 1) : i \in Node /\ Order(i) \in Node /\ Order(i)' = Order(i)
    BY <1>3, OrderInNode DEF Pushed, Node
  <2>4. status = "done" => \A m \in Node : file'[m] = tag /\ (ver'[m] = tag \/ m \in behind')
    BY <1>2, <2>1 DEF Converging
  <2>5. QED
    BY <1>2, <2>2, <2>3, <2>4 DEF Converging
<1>8. QED
  BY <1>1, <1>4, <1>5, <1>6, <1>7

LEMMA PushInv ==
  ASSUME IInv, EditConfig \/ Begin \/ Push
  PROVE  IInv'
<1> USE RolloutAssumption DEF IInv, nodeVars, recordVars, sessionVars, history, TypeOK
<1>1. CASE EditConfig
  <2>1. Order(k)' = Order(k) /\ \A n \in Node : Running(n)' = Running(n)
    BY <1>1 DEF EditConfig, Order, Running
  <2>2. QED
    BY <1>1, <2>1 DEF EditConfig, NodesType, SessionType, Pushed, Seen, Attended, Converging, Versions
<1>2. CASE Begin
  <2>1. TypeOK'
    <3>1. NodesType'
      BY <1>2 DEF Begin, NodesType
    <3>2. SessionType'
      BY <1>2, Bounds DEF Begin, SessionType, Pushed
    <3>3. QED
      BY <1>2, <3>1, <3>2 DEF Begin
  <2>2. Pushed'
    BY <1>2, Bounds DEF Begin, Pushed
  <2>3. Seen'
    BY <1>2 DEF Begin, Seen, Running
  <2>4. Attended'
    BY <1>2 DEF Begin, Attended
  <2>5. Converging'
    BY <1>2 DEF Begin, NodesType, Converging
  <2>6. QED
    BY <2>1, <2>2, <2>3, <2>4, <2>5
<1>3. CASE Push
  <2>1. TypeOK'
    <3>1. NodesType'
      BY <1>3 DEF Push, NodesType, SessionType
    <3>2. SessionType'
      BY <1>3, Bounds DEF Push, SessionType, Pushed
    <3>3. QED
      BY <1>3, <3>1, <3>2 DEF Push
  <2>2. Pushed'
    BY <1>3, Bounds DEF Push, NodesType, SessionType, Pushed, Node
  <2>3. Seen'
    BY <1>3 DEF Push, Seen, Running
  <2>4. Attended'
    BY <1>3 DEF Push, Attended
  <2>5. Converging'
    BY <1>3, Bounds DEF Push, NodesType, SessionType, Converging, Node
  <2>6. QED
    BY <2>1, <2>2, <2>3, <2>4, <2>5
<1>4. QED
  BY <1>1, <1>2, <1>3

LEMMA RestartInv ==
  ASSUME IInv, SkipUnchanged \/ Restart
  PROVE  IInv'
<1> USE RolloutAssumption DEF IInv, nodeVars, recordVars, sessionVars, history, NextNode
<1>1. UNCHANGED <<file, schema, tag, status, cfg, rolling, changed, behind>> /\ pc = "restart" /\ k \in Node
  BY DEF SkipUnchanged, Restart, Pushed
<1>2. \A i \in Node : Order(i)' = Order(i)
  BY <1>1 DEF Order
<1>3. CASE SkipUnchanged
  <2>1. TypeOK'
    <3>1. NodesType' /\ SessionType'
      BY <1>3, <1>1, Bounds DEF SkipUnchanged, TypeOK, NodesType, SessionType
    <3>2. QED
      BY <1>3, <3>1 DEF SkipUnchanged, TypeOK
  <2>2. Pushed'
    BY <1>3, <1>1 DEF SkipUnchanged, Pushed, Node
  <2>3. Seen'
    BY <1>3, <1>1 DEF SkipUnchanged, Seen, Running
  <2>4. Attended'
    BY <1>3 DEF SkipUnchanged, Attended
  <2>5. \A i \in 1..k : ver[Order(i)] = file[Order(i)] \/ Order(i) \in behind
    BY <1>3, <1>1, OrderInNode DEF SkipUnchanged, Converging, Node
  <2>6. Converging'
    BY <1>3, <1>1, <1>2, <2>5, OrderOnto DEF SkipUnchanged, Converging, Node
  <2>7. QED
    BY <2>1, <2>2, <2>3, <2>4, <2>6
<1>4. CASE Restart
  <2>1. Order(k) \in Node /\ Order(k)' = Order(k)
    BY <1>1, <1>2, <1>4, OrderInNode DEF Restart
  <2>2. TypeOK'
    BY <1>4, <2>1 DEF Restart, TypeOK, NodesType, SessionType, NodeStates
  <2>3. Pushed'
    BY <1>4, <1>1 DEF Restart, Pushed
  <2>4. Seen'
    <3>1. ver'[Order(k)] = cfg
      BY <1>4, <1>1, <2>1 DEF Restart, TypeOK, NodesType, Pushed
    <3>2. \A n \in Node : Running(n)' => Running(n) /\ ver'[n] = ver[n]
      BY <1>4, <2>1 DEF Restart, TypeOK, NodesType, Running
    <3>3. QED
      BY <1>4, <1>1, <2>1, <3>1, <3>2 DEF Restart, Seen
  <2>5. Attended'
    BY <1>4, <2>1 DEF Restart, TypeOK, NodesType, SessionType, Attended
  <2>6. \A n \in Node : ver'[n] = ver[n] \/ ver'[n] = file[n]
    BY <1>4 DEF Restart, TypeOK, NodesType, SessionType
  <2>7. Converging'
    BY <1>4, <1>1, <1>2, <2>6, OrderInNode DEF Restart, Converging, Node
  <2>8. QED
    BY <2>2, <2>3, <2>4, <2>5, <2>7
<1>5. QED
  BY <1>3, <1>4

LEMMA GateInv ==
  ASSUME IInv, GatePasses \/ GateFails
  PROVE  IInv'
<1> USE RolloutAssumption DEF IInv, nodeVars, recordVars, sessionVars, history, NextNode
<1>1. UNCHANGED <<file, ver, st, schema, tag, cfg, rolling, changed, excused, behind>>
      /\ pc = "gate" /\ k \in Node
  BY DEF GatePasses, GateFails, Pushed
<1>2. \A i \in Node : Order(i)' = Order(i)
  BY <1>1 DEF Order
<1>3. CASE GatePasses
  <2>1. TypeOK'
    <3>1. NodesType' /\ SessionType'
      BY <1>3, <1>1, Bounds DEF GatePasses, TypeOK, NodesType, SessionType
    <3>2. QED
      BY <1>3, <3>1 DEF GatePasses, TypeOK
  <2>2. Pushed'
    BY <1>3, <1>1 DEF GatePasses, Pushed, Node
  <2>3. schema >= cfg
    BY <1>3, OrderInNode, <1>1 DEF GatePasses, Seen, Running
  <2>4. Seen'
    BY <1>3, <1>1, <2>3 DEF GatePasses, Seen, Running
  <2>5. Attended'
    BY <1>3 DEF GatePasses, Attended
  <2>6. \A i \in 1..k : ver[Order(i)] = file[Order(i)] \/ Order(i) \in behind
    BY <1>3, <1>1, OrderInNode DEF Converging, Seen, Pushed, Node
  <2>7. Converging'
    BY <1>3, <1>1, <1>2, <2>6, OrderOnto DEF GatePasses, Converging, Node
  <2>8. QED
    BY <2>1, <2>2, <2>4, <2>5, <2>7
<1>4. CASE GateFails
  <2>1. TypeOK' /\ Pushed'
    BY <1>4 DEF GateFails, TypeOK, NodesType, SessionType, Pushed
  <2>2. Seen'
    BY <1>4 DEF GateFails, Seen, Running
  <2>3. Attended' /\ Converging'
    BY <1>4 DEF GateFails, Attended, Converging
  <2>4. QED
    BY <2>1, <2>2, <2>3
<1>5. QED
  BY <1>3, <1>4

LEMMA VerifyInv ==
  ASSUME IInv, PinTag \/ VerifyNode \/ Verdict \/ Die
  PROVE  IInv'
<1> USE DEF IInv, nodeVars, recordVars, sessionVars, history
<1>1. UNCHANGED <<want, file, ver, st, schema, cfg, rolling, changed, excused, behind>>
  BY DEF PinTag, VerifyNode, Verdict, Die
<1>2. pc' = "idle" \/ pc' = "verify"
  BY DEF PinTag, VerifyNode, Verdict, Die
<1>3. TypeOK'
  <2>1. NodesType' /\ SessionType'
    BY <1>1, Bounds DEF TypeOK, NodesType, SessionType, PinTag, VerifyNode, Verdict, Die
  <2>2. status' \in {"pending", "applying", "done", "failed"} /\ tag' \in Versions
        /\ kills' \in 0..MaxKills /\ faults' = faults
    BY RolloutAssumption DEF TypeOK, SessionType, PinTag, VerifyNode, Verdict, Die
  <2>3. QED
    BY <1>1, <2>1, <2>2 DEF TypeOK
<1>4. Pushed'
  BY <1>1, <1>2 DEF Pushed, PinTag, VerifyNode, Verdict, Die
<1>5. Seen'
  BY <1>1, <1>2 DEF Seen, Running
<1>6. Attended'
  BY <1>1, <1>2 DEF Attended, PinTag, VerifyNode, Verdict, Die
<1>7. Converging'
  BY <1>1 DEF Pushed, Converging, PinTag, VerifyNode, Verdict, Die
<1>8. QED
  BY <1>3, <1>4, <1>5, <1>6, <1>7

THEOREM Invariance == Spec => []IInv
<1>1. IInv /\ [Next]_vars => IInv'
  <2> SUFFICES ASSUME IInv, [Next]_vars PROVE IInv'
    OBVIOUS
  <2>1. CASE UNCHANGED vars
    BY <2>1 DEF IInv, TypeOK, NodesType, SessionType, Pushed, Seen, Attended, Converging, Order, Running,
                vars, nodeVars, recordVars, sessionVars, history
  <2>2. CASE \E n \in Node : WorkerHealthy(n) \/ ComposeGivesUp(n) \/ Settle(n) \/ Crash(n) \/ Reboot(n)
    BY <2>2, NodesInv
  <2>3. CASE EditConfig \/ Begin \/ Push
    BY <2>3, PushInv
  <2>4. CASE SkipUnchanged \/ Restart
    BY <2>4, RestartInv
  <2>5. CASE GatePasses \/ GateFails
    BY <2>5, GateInv
  <2>6. CASE PinTag \/ VerifyNode \/ Verdict \/ Die
    BY <2>6, VerifyInv
  <2>7. QED
    BY <2>1, <2>2, <2>3, <2>4, <2>5, <2>6 DEF Next
<1>2. QED
  BY InitInv, <1>1, PTL DEF Spec

\* The state of the fleet and of the session stays in its type.
THEOREM TypeCorrect == Spec => []TypeOK
BY Invariance, PTL DEF IInv

\* For any fleet: two nodes migrate at once only when one of them fell over
\* by itself or was not healthy when the session began.
THEOREM Solo == Spec => []SoloMigration
<1>1. IInv => SoloMigration
  BY DEF IInv, Attended, SoloMigration, Migrating
<1>2. QED
  BY Invariance, <1>1, PTL

\* For any fleet: a rolling pass takes away one healthy node at a time.
THEOREM Rolls == Spec => []OneAtATime
<1>1. IInv => OneAtATime
  BY DEF IInv, Attended, OneAtATime
<1>2. QED
  BY Invariance, <1>1, PTL

\* For any fleet and any leader: the other nodes of a bootstrap find a
\* migrated schema.
THEOREM FindMigrated == Spec => []OthersFindMigrated
<1>1. IInv => OthersFindMigrated
  <2> SUFFICES ASSUME IInv, ~rolling, pc = "gate", Order(k) # Leader
               PROVE  schema >= ver[Order(k)]
    BY DEF OthersFindMigrated
  <2>1. k \in Node /\ k # 1
    BY DEF IInv, Pushed, Order
  <2>2. QED
    BY <2>1, RolloutAssumption DEF IInv, Seen, Node
<1>2. QED
  BY Invariance, <1>1, PTL

\* For any fleet: done means on the pinned version, but for nodes that were
\* behind their own files when a rolling pass looked at them.
THEOREM Converges == Spec => []StraightConverges
<1>1. IInv => StraightConverges
  BY DEF IInv, Converging, StraightConverges
<1>2. QED
  BY Invariance, <1>1, PTL

-----------------------------------------------------------------------------
(* The contract of the runner.                                              *)

Entries == [p \in {"authentik"} |-> status]

LEMMA EntryWritten ==
  \A s : status' = s => Entries' = [Entries EXCEPT !["authentik"] = s]
BY DEF Entries

LEMMA RunnerStep ==
  ASSUME [Next]_vars
  PROVE  [Contract!Next]_<<Entries, Under>>
<1> USE DEF recordVars, sessionVars
<1>0. /\ status' # "done" => {"authentik"} \in Contract!Turns(Entries')
      /\ {} \in Contract!Turns(Entries')
  <2>1. status' # "done" => {"authentik"} \in Contract!Turns(Entries')
    BY DEF Contract!Turns, Entries
  <2>2. QED
    BY <2>1 DEF Contract!Turns
<1>1. CASE UNCHANGED vars
  BY <1>1 DEF vars, Entries, Under
<1>2. CASE EditConfig \/ \E n \in Node : WorkerHealthy(n) \/ ComposeGivesUp(n) \/ Settle(n) \/ Crash(n) \/ Reboot(n)
  <2>1. status' = status /\ pc' = pc
    BY <1>2 DEF EditConfig, WorkerHealthy, ComposeGivesUp, Settle, Crash, Reboot, NodeStep, Fault
  <2>2. QED
    BY <2>1 DEF Entries, Under
<1>3. CASE Begin
  <2>1. status' = "pending" /\ Under = {} /\ Under' = {"authentik"}
    BY <1>3 DEF Begin, Under
  <2>2. Entries' = [p \in {"authentik"} |-> IF p \in {"authentik"} THEN "pending" ELSE Entries[p]]
    BY <2>1 DEF Entries
  <2>3. Contract!Provision
    BY <1>0, <2>1, <2>2 DEF Contract!Provision, Entries
  <2>4. QED
    BY <2>3 DEF Contract!Next
<1>4. CASE Push \/ SkipUnchanged \/ Restart \/ GatePasses \/ VerifyNode
  <2>1. status' = status /\ pc # "idle" /\ pc' # "idle"
    BY <1>4 DEF Push, SkipUnchanged, Restart, GatePasses, VerifyNode, NextNode
  <2>2. QED
    BY <2>1 DEF Entries, Under
<1>5. CASE PinTag
  <2>1. status' = "applying" /\ Under = {"authentik"} /\ Under' = Under
    BY <1>5 DEF PinTag, Under
  <2>2. Contract!Pin("authentik")
    BY <2>1, EntryWritten DEF Contract!Pin, Contract!Written, Entries
  <2>3. QED
    BY <2>2 DEF Contract!Next
<1>6. CASE GateFails \/ Verdict \/ Die
  <2>1. status' \in {"done", "failed", status} /\ Under = {"authentik"} /\ Under' = {}
    BY <1>6 DEF GateFails, Verdict, Die, Under
  <2>2. Contract!Verified("authentik") \/ Contract!Failed("authentik") \/ Contract!Cut("authentik")
    <3>1. CASE status' = status
      BY <2>1, <3>1 DEF Contract!Cut, Entries
    <3>2. CASE status' # status
      BY <1>0, <2>1, <3>2, EntryWritten DEF Contract!Verified, Contract!Failed, Contract!Written, Entries
    <3>3. QED
      BY <3>1, <3>2
  <2>3. QED
    BY <2>2 DEF Contract!Next
<1>7. QED
  BY <1>1, <1>2, <1>3, <1>4, <1>5, <1>6 DEF Next

\* The authentik phase, whichever path it takes and wherever it is cut, comes under way and
\* is recorded as the contract of the runner says (base.py:134-185).
THEOREM RunsAsRunner == Spec => ImplementsPipeline
<1>1. Init => Contract!Init
  BY DEF Init, Under, Contract!Init
<1>2. [Next]_vars => [Contract!Next]_<<Entries, Under>>
  BY RunnerStep
<1>3. QED
  BY <1>1, <1>2, PTL DEF Spec, ImplementsPipeline, Contract!Spec, Entries

=============================================================================
