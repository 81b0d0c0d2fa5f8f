------------------------ MODULE ClusterBootstrapProofs ------------------------
(***************************************************************************)
(* The database side of an HA site, for a fleet of any size, any bootstrap  *)
(* leader and any number of upsets.                                         *)
(***************************************************************************)
EXTENDS ClusterBootstrap, FiniteSetTheorems, TLAPS

EtcdLoop == {"etcdPush", "etcdDown", "etcdUp"}
Following == {"startFollower", "joining"}
PatroniPlaces == {"install", "startLeader", "promotion", "createRole", "createDb",
                  "list", "app"} \cup Following
HaPlaces == {"haPush", "haLoad", "backends"}

\* A session is at a node, in a phase that is not recorded done.
Where ==
  /\ pc # "idle" => k \in Nodes
  /\ pc \in EtcdLoop \cup {"etcdHealth"} => status["etcd"] # "done"
  /\ pc \in PatroniPlaces => status["patroni"] # "done"
  /\ pc \in HaPlaces => status["haproxy"] # "done"

\* Who may have data, and who may run.
Begun ==
  /\ \A n \in Nodes : role[n] # "off" => n \in on /\ n \in unit
  /\ \A n \in Nodes : role[n] \in {"primary", "replica"} => data[n] # {}
  /\ \A n \in Nodes : data[n] # {} => init # 0
  /\ LeaderInitialises

\* The start order so far.
Gated ==
  /\ (pc \in Following \/ \E f \in Followers : f \in unit) => data[Leader] # {}
  /\ pc \in Following =>
       k \in Followers /\ \A f \in Followers : f < k => data[f] # {}
  /\ \A f, g \in Followers : f < g /\ g \in unit => data[f] # {}

\* The primary is alone and has what anybody has.
Leads ==
  /\ \A p, q \in Primaries : p = q
  /\ ~lost => \A p \in Primaries, n \in Nodes : data[n] \subseteq data[p]
  /\ status["patroni"] = "done" /\ ~lost => \E n \in Nodes : App \subseteq data[n]

Created(n) == <<"etcd", n>> \notin owed => etcd[n] = ecomp[n]

\* The nodes the etcd loop has passed, and all of them after it.
EtcdInv ==
  /\ pc \in EtcdLoop => \A n \in Nodes : n < k => Created(n)
  /\ pc = "etcdHealth" => \A n \in Nodes : Created(n)
  /\ status["etcd"] = "done" => \A n \in Nodes : Created(n) /\ etcd[n] # 0

\* A router that is not owed a reload has its file, or is about to be told.
HaInv ==
  /\ \A n \in Nodes : ha[n] # 0 => hafile[n] # 0
  /\ pc = "haLoad" => hafile[k] # 0
  /\ \A n \in Nodes : <<"haproxy", n>> \notin owed =>
       ha[n] \in {0, hafile[n]} \/ (pc = "haLoad" /\ k = n /\ chg)
  /\ status["haproxy"] = "done" => \A n \in Nodes : ha[n] # 0

\* Edits are upsets, so the rendered version is bounded by them.
Edited == want <= upsets + 1

IInv == TypeOK /\ Edited /\ Where /\ Begun /\ Gated /\ Leads /\ EtcdInv /\ HaInv

-----------------------------------------------------------------------------

LEMMA Bounds ==
  /\ Leader \in Nodes /\ 1 \in Nodes /\ 0 \in 0..N /\ 0 \in 0..MaxUpsets
  /\ \A n \in Nodes : n \in 0..N /\ n \in Int /\ (n < N => n + 1 \in Nodes)
  /\ 1..(MaxUpsets + 1) \subseteq Versions /\ 0 \in Versions
  /\ 1 \in 1..(MaxUpsets + 1)
  /\ Followers \subseteq Nodes
BY ClusterAssumption DEF Nodes, Versions, Followers

\* An upset is counted, and makes room for an edit.
LEMMA OneMore ==
  ASSUME SessionType, Edited, Upset
  PROVE  /\ upsets' \in 0..MaxUpsets
         /\ want <= upsets' + 1
         /\ want + 1 \in 1..(MaxUpsets + 1) /\ want + 1 <= upsets' + 1
BY ClusterAssumption DEF SessionType, Edited, Upset

LEMMA InitInv == Init => IInv
<1> SUFFICES ASSUME Init PROVE IInv
  OBVIOUS
<1>1. TypeOK
  BY Bounds DEF Init, TypeOK, SessionType, NodesType, Places, Phases
<1>2. Where /\ Begun /\ Gated /\ Leads
  BY Bounds DEF Init, Where, Begun, Gated, Leads, LeaderInitialises, Primaries,
     EtcdLoop, Following, PatroniPlaces, HaPlaces, Phases
<1>3. EtcdInv /\ HaInv
  BY Bounds DEF Init, EtcdInv, HaInv, EtcdLoop, Phases
<1>4. Edited
  BY DEF Init, Edited
<1>5. QED
  BY <1>1, <1>2, <1>3, <1>4 DEF IInv

\* The session's control, from the loops and the statuses.
LEMMA AdvanceType ==
  ASSUME TypeOK, k \in Nodes, NEW loop \in Places, NEW after \in Places \ {"idle"},
         Advance(loop, after)
  PROVE  pc' \in {loop, after} /\ k' \in Nodes /\ k' \in 0..N /\ chg' = FALSE
BY Bounds DEF Advance, TypeOK, SessionType

LEMMA EnterType ==
  ASSUME NEW st \in [Phases -> {"pending", "done", "failed"}], Enter(st)
  PROVE  /\ pc' \in {"etcdPush", "install", "haPush", "idle"}
         /\ k' = 1 /\ k' \in 0..N /\ chg' = FALSE
         /\ pc' = "etcdPush" => st["etcd"] # "done"
         /\ pc' = "install" => st["patroni"] # "done"
         /\ pc' = "haPush" => st["haproxy"] # "done"
BY Bounds DEF Enter, Entry

LEMMA PassesType ==
  ASSUME TypeOK, NEW p \in Phases, Passes(p)
  PROVE  /\ status' \in [Phases -> {"pending", "done", "failed"}]
         /\ \A q \in Phases : status'[q] = IF q = p THEN "done" ELSE status[q]
         /\ pc' \in {"etcdPush", "install", "haPush", "idle"}
         /\ k' = 1 /\ k' \in 0..N /\ chg' = FALSE
         /\ pc' = "etcdPush" => status'["etcd"] # "done"
         /\ pc' = "install" => status'["patroni"] # "done"
         /\ pc' = "haPush" => status'["haproxy"] # "done"
<1>1. status' \in [Phases -> {"pending", "done", "failed"}]
  BY DEF Passes, TypeOK, SessionType
<1>2. \A q \in Phases : status'[q] = IF q = p THEN "done" ELSE status[q]
  BY DEF Passes, TypeOK, SessionType
<1>3. QED
  BY <1>1, <1>2, EnterType DEF Passes

LEMMA FailsType ==
  ASSUME TypeOK, NEW p \in Phases, Fails(p)
  PROVE  /\ status' \in [Phases -> {"pending", "done", "failed"}]
         /\ \A q \in Phases : status'[q] = IF q = p THEN "failed" ELSE status[q]
         /\ pc' = "idle" /\ k' = 0 /\ k' \in 0..N /\ chg' = FALSE
BY Bounds DEF Fails, Stop, TypeOK, SessionType

LEMMA PhaseNames ==
  /\ "etcd" \in Phases /\ "patroni" \in Phases /\ "haproxy" \in Phases
  /\ pc \in Places \ {"idle", "etcdHealth", "list", "app", "backends"} => PhaseOf(pc) \in Phases
BY DEF Phases, Places, PhaseOf

\* Where a command starts.
LEMMA ProvisionType ==
  ASSUME TypeOK, Provision
  PROVE  /\ status' \in [Phases -> {"pending", "done", "failed"}]
         /\ named' \subseteq Phases
         /\ \A q \in Phases : status'[q] = "done" => status[q] = "done"
         /\ pc' \in {"etcdPush", "install", "haPush", "idle"}
         /\ k' = 1 /\ k' \in 0..N /\ chg' = FALSE
         /\ pc' = "etcdPush" => status'["etcd"] # "done"
         /\ pc' = "install" => status'["patroni"] # "done"
         /\ pc' = "haPush" => status'["haproxy"] # "done"
<1>1. status' \in [Phases -> {"pending", "done", "failed"}]
  BY DEF Provision, TypeOK, SessionType
<1>2. \A q \in Phases : status'[q] = "done" => status[q] = "done"
  BY DEF Provision
<1>3. QED
  BY <1>1, <1>2, EnterType DEF Provision

LEMMA SessionInv ==
  ASSUME TypeOK, Edited, Where, Next
  PROVE  SessionType' /\ Edited' /\ Where'
<1> USE DEF TypeOK, Edited, Where, record, session, EtcdLoop, PatroniPlaces, HaPlaces, Following
<1>1. CASE Provision
  <2>1. Edited' /\ want' \in 1..(MaxUpsets + 1) /\ upsets' \in 0..MaxUpsets
    BY <1>1 DEF Provision, SessionType
  <2>2. QED
    BY <1>1, <2>1, ProvisionType, Bounds DEF Places, SessionType
<1>2. CASE ApplyRaises
  <2>1. PhaseOf(pc) \in Phases
    BY <1>2, PhaseNames DEF ApplyRaises, SessionType
  <2>2. QED
    BY <1>2, <2>1, FailsType, Bounds DEF ApplyRaises, Places, SessionType
<1>3. CASE VerifyRaises
  BY <1>3, Bounds DEF VerifyRaises, Stop, Places, SessionType
<1>4. CASE Kill
  <2>1. upsets' \in 0..MaxUpsets /\ want <= upsets' + 1
    BY <1>4, OneMore DEF Kill
  <2>2. QED
    BY <1>4, <2>1, Bounds DEF Kill, Stop, Places, SessionType
<1>5. CASE Edit
  <2>1. upsets' \in 0..MaxUpsets /\ want' \in 1..(MaxUpsets + 1) /\ want' <= upsets' + 1
    BY <1>5, OneMore DEF Edit
  <2>2. QED
    BY <1>5, <2>1 DEF Edit, SessionType
<1>6. CASE PushEtcd \/ DownEtcd \/ StartLeader \/ StartFollower \/ CreateRole \/ CreateDb \/ PushHa
  BY <1>6 DEF PushEtcd, DownEtcd, StartLeader, StartFollower, CreateRole, CreateDb, PushHa,
     Places, SessionType
<1>7. CASE UpEtcd \/ Install \/ LoadHa
  <2>1. CASE UpEtcd
    <3>1. pc' \in {"etcdPush", "etcdHealth"} /\ k' \in Nodes /\ k' \in 0..N /\ chg' = FALSE
      BY <2>1, AdvanceType DEF UpEtcd, Places
    <3>2. QED
      BY <2>1, <3>1 DEF UpEtcd, Places, SessionType
  <2>2. CASE Install
    <3>1. pc' \in {"install", "startLeader"} /\ k' \in Nodes /\ k' \in 0..N /\ chg' = FALSE
      BY <2>2, AdvanceType DEF Install, Places
    <3>2. QED
      BY <2>2, <3>1 DEF Install, Places, SessionType
  <2>3. CASE LoadHa
    <3>1. pc' \in {"haPush", "backends"} /\ k' \in Nodes /\ k' \in 0..N /\ chg' = FALSE
      BY <2>3, AdvanceType DEF LoadHa, Places
    <3>2. QED
      BY <2>3, <3>1 DEF LoadHa, Places, SessionType
  <2>4. QED
    BY <1>7, <2>1, <2>2, <2>3
<1>8. CASE UpEtcdFails \/ InstallFails \/ SqlRefused \/ LoadHaFails
  <2>0. upsets' \in 0..MaxUpsets /\ want <= upsets' + 1
    BY <1>8, OneMore DEF UpEtcdFails, InstallFails, SqlRefused, LoadHaFails
  <2>1. CASE UpEtcdFails
    <3>1. pc' \in {"etcdPush", "etcdHealth"} /\ k' \in Nodes /\ k' \in 0..N /\ chg' = FALSE
      BY <2>1, AdvanceType DEF UpEtcdFails, Places
    <3>2. QED
      BY <2>0, <2>1, <3>1 DEF UpEtcdFails, Places, SessionType
  <2>2. CASE InstallFails
    <3>1. pc' \in {"install", "startLeader"} /\ k' \in Nodes /\ k' \in 0..N /\ chg' = FALSE
      BY <2>2, AdvanceType DEF InstallFails, Places
    <3>2. QED
      BY <2>0, <2>2, <3>1 DEF InstallFails, Places, SessionType
  <2>3. CASE LoadHaFails
    <3>1. pc' \in {"haPush", "backends"} /\ k' \in Nodes /\ k' \in 0..N /\ chg' = FALSE
      BY <2>3, AdvanceType DEF LoadHaFails, Places
    <3>2. QED
      BY <2>0, <2>3, <3>1 DEF LoadHaFails, Places, SessionType
  <2>4. CASE SqlRefused
    BY <2>0, <2>4 DEF SqlRefused, Places, SessionType
  <2>5. QED
    BY <1>8, <2>1, <2>2, <2>3, <2>4
<1>9. CASE EtcdHealthy
  BY <1>9, PassesType, PhaseNames, Bounds DEF EtcdHealthy, Places, SessionType
<1>10. CASE EtcdUnhealthy \/ NeverPromoted \/ NeverJoined
  BY <1>10, FailsType, PhaseNames, Bounds DEF EtcdUnhealthy, NeverPromoted, NeverJoined, Places, SessionType
<1>11. CASE Promoted \/ Joined
  BY <1>11, Bounds DEF Promoted, Joined, NextFollower, Places, SessionType
<1>12. CASE VerifyList
  <2>1. CASE Listed
    BY <1>12, <2>1 DEF VerifyList, Places, SessionType
  <2>2. CASE ~Listed
    BY <1>12, <2>2, FailsType, PhaseNames, Bounds DEF VerifyList, Places, SessionType
  <2>3. QED
    BY <2>1, <2>2
<1>13. CASE VerifyApp
  <2>1. Passes("patroni") \/ Fails("patroni")
    BY <1>13 DEF VerifyApp
  <2>2. QED
    BY <1>13, <2>1, PassesType, FailsType, PhaseNames, Bounds, ZenonT(40) DEF VerifyApp, Places, SessionType
<1>14. CASE VerifyHa
  <2>1. Passes("haproxy") \/ Fails("haproxy")
    BY <1>14 DEF VerifyHa
  <2>2. QED
    BY <1>14, <2>1, PassesType, FailsType, PhaseNames, Bounds, ZenonT(40) DEF VerifyHa, Places, SessionType
<1>15. CASE \E n \in Nodes : Initialise(n) \/ Follow(n) \/ Replicate(n) \/ Promote(n) \/ Demote(n) \/ ComeUp(n)
  BY <1>15 DEF Initialise, Follow, Replicate, Promote, Demote, ComeUp, SessionType
<1>16. CASE \E n \in Nodes : Switchover(n) \/ GoDown(n)
  BY <1>16, OneMore DEF Switchover, GoDown, Upset, SessionType
<1>17. QED
  BY <1>1, <1>2, <1>3, <1>4, <1>5, <1>6, <1>7, <1>8, <1>9, <1>10, <1>11, <1>12, <1>13,
     <1>14, <1>15, <1>16 DEF Next, EtcdStep, PatroniStep, HaStep, PgStep, NodeStep

LEMMA NodesInv ==
  ASSUME TypeOK, Where, Next
  PROVE  NodesType'
<1> USE DEF TypeOK, NodesType, etcdVars, pgVars, haVars
<1>1. CASE Provision \/ VerifyRaises \/ Edit \/ EtcdHealthy \/ EtcdUnhealthy
  BY <1>1 DEF Provision, VerifyRaises, Edit, EtcdHealthy, EtcdUnhealthy
<1>2. CASE InstallFails \/ Promoted \/ NeverPromoted \/ Joined \/ NeverJoined
           \/ SqlRefused \/ VerifyList \/ VerifyApp \/ VerifyHa
  BY <1>2 DEF InstallFails, SqlRefused, Promoted, NeverPromoted, Joined, NeverJoined, VerifyList, VerifyApp, VerifyHa
<1>3. CASE ApplyRaises \/ Kill \/ LoadHaFails
  BY <1>3 DEF ApplyRaises, Kill, LoadHaFails, Untold, Where
<1>4. CASE PushEtcd \/ DownEtcd \/ UpEtcd \/ UpEtcdFails
  BY <1>4, Bounds DEF PushEtcd, DownEtcd, UpEtcd, UpEtcdFails, Where, SessionType
<1>5. CASE Install \/ StartLeader \/ StartFollower
  BY <1>5, Bounds DEF Install, StartLeader, StartFollower, Start, Where
<1>6. CASE CreateRole \/ CreateDb
  BY <1>6, Bounds DEF CreateRole, CreateDb, Execute, App
<1>7. CASE PushHa \/ LoadHa
  BY <1>7, Bounds DEF PushHa, LoadHa, Where, SessionType
<1>8. CASE \E n \in Nodes : Initialise(n) \/ Follow(n) \/ Replicate(n) \/ Promote(n) \/ Demote(n)
  <2> PICK n \in Nodes :
             Initialise(n) \/ Follow(n) \/ Replicate(n) \/ Promote(n) \/ Demote(n)
    BY <1>8
  <2>1. CASE Initialise(n) \/ Promote(n) \/ Demote(n)
    BY <2>1, ZenonT(40) DEF Initialise, Promote, Demote
  <2>2. CASE Follow(n) \/ Replicate(n)
    BY <2>2 DEF Follow, Replicate, Primaries
  <2>3. QED
    BY <2>1, <2>2
<1>9. CASE \E n \in Nodes : Switchover(n) \/ GoDown(n) \/ ComeUp(n)
  BY <1>9, Bounds DEF Switchover, GoDown, ComeUp, Primaries
<1>10. QED
  BY <1>1, <1>2, <1>3, <1>4, <1>5, <1>6, <1>7, <1>8, <1>9
  DEF Next, EtcdStep, PatroniStep, HaStep, PgStep, NodeStep

-----------------------------------------------------------------------------
(* What a step may disturb.                                                 *)

\* A phase is recorded done by its own verify.
LEMMA DoneFrame ==
  ASSUME TypeOK, Next, NEW q \in Phases, status'[q] = "done"
  PROVE  \/ status[q] = "done"
         \/ q = "etcd" /\ EtcdHealthy
         \/ q = "patroni" /\ VerifyApp /\ App \subseteq data[Leader]
         \/ q = "haproxy" /\ VerifyHa /\ Routed
<1> USE DEF record, session
<1>1. CASE Provision
  BY <1>1, ProvisionType
<1>2. CASE ApplyRaises
  <2>1. PhaseOf(pc) \in Phases
    BY <1>2, PhaseNames DEF ApplyRaises, TypeOK, SessionType
  <2>2. QED
    BY <1>2, <2>1, FailsType DEF ApplyRaises
<1>3. CASE VerifyRaises \/ Kill \/ Edit
  BY <1>3 DEF VerifyRaises, Kill, Edit
<1>4. CASE PushEtcd \/ DownEtcd \/ UpEtcd \/ UpEtcdFails
  BY <1>4 DEF PushEtcd, DownEtcd, UpEtcd, UpEtcdFails
<1>5. CASE Install \/ InstallFails \/ StartLeader \/ Promoted \/ StartFollower \/ Joined
           \/ CreateRole \/ CreateDb \/ SqlRefused
  BY <1>5 DEF Install, InstallFails, StartLeader, Promoted, StartFollower, Joined, CreateRole, CreateDb,
     SqlRefused
<1>6. CASE PushHa \/ LoadHa \/ LoadHaFails
  BY <1>6 DEF PushHa, LoadHa, LoadHaFails
<1>7. CASE EtcdHealthy
  BY <1>7, PassesType, PhaseNames DEF EtcdHealthy
<1>8. CASE EtcdUnhealthy \/ NeverPromoted \/ NeverJoined
  <2>1. Fails("etcd") \/ Fails("patroni")
    BY <1>8 DEF EtcdUnhealthy, NeverPromoted, NeverJoined
  <2>2. QED
    BY <2>1, FailsType, PhaseNames
<1>9. CASE VerifyList
  <2>1. status' = status \/ Fails("patroni")
    BY <1>9 DEF VerifyList
  <2>2. QED
    BY <2>1, FailsType, PhaseNames
<1>10. CASE VerifyApp
  <2>1. (App \subseteq data[Leader] /\ Passes("patroni")) \/ Fails("patroni")
    BY <1>10 DEF VerifyApp
  <2>2. QED
    BY <1>10, <2>1, PassesType, FailsType, PhaseNames
<1>11. CASE VerifyHa
  <2>1. (Routed /\ Passes("haproxy")) \/ Fails("haproxy")
    BY <1>11 DEF VerifyHa
  <2>2. QED
    BY <1>11, <2>1, PassesType, FailsType, PhaseNames
<1>12. CASE \E n \in Nodes : Initialise(n) \/ Follow(n) \/ Replicate(n) \/ Promote(n) \/ Demote(n)
             \/ Switchover(n) \/ GoDown(n) \/ ComeUp(n)
  BY <1>12 DEF Initialise, Follow, Replicate, Promote, Demote, Switchover, GoDown, ComeUp
<1>13. QED
  BY <1>1, <1>2, <1>3, <1>4, <1>5, <1>6, <1>7, <1>8, <1>9, <1>10, <1>11, <1>12
  DEF Next, EtcdStep, PatroniStep, HaStep, PgStep, NodeStep

\* Where the session goes, by where it is.
LEMMA PlaceFrame ==
  ASSUME TypeOK, Where, Next
  PROVE  \/ pc' = pc /\ k' = k /\ chg' = chg
         \/ pc' \in {"etcdPush", "install", "haPush", "idle"} /\ k' \in {0, 1} /\ chg' = FALSE
         \/ PushEtcd \/ DownEtcd \/ UpEtcd \/ UpEtcdFails
         \/ Promoted \/ StartFollower \/ Joined \/ PushHa \/ LoadHa \/ LoadHaFails
         \/ pc' \in PatroniPlaces \ Following
<1> USE DEF record, session
<1>1. CASE Provision
  BY <1>1, ProvisionType
<1>2. CASE ApplyRaises
  BY <1>2 DEF ApplyRaises, Fails, Stop
<1>3. CASE VerifyRaises \/ Kill \/ EtcdUnhealthy \/ NeverPromoted \/ NeverJoined
  BY <1>3 DEF VerifyRaises, Kill, EtcdUnhealthy, NeverPromoted, NeverJoined, Fails, Stop
<1>4. CASE Install \/ InstallFails
  BY <1>4 DEF Install, InstallFails, Advance, PatroniPlaces, Following
<1>5. CASE StartLeader \/ CreateRole \/ CreateDb \/ SqlRefused
  BY <1>5 DEF StartLeader, CreateRole, CreateDb, SqlRefused, PatroniPlaces, Following
<1>6. CASE EtcdHealthy
  BY <1>6, PassesType, PhaseNames DEF EtcdHealthy
<1>7. CASE VerifyList
  BY <1>7 DEF VerifyList, Fails, Stop, PatroniPlaces, Following
<1>8. CASE VerifyApp \/ VerifyHa
  <2>1. Passes("patroni") \/ Fails("patroni") \/ Passes("haproxy") \/ Fails("haproxy")
    BY <1>8 DEF VerifyApp, VerifyHa
  <2>2. QED
    BY <2>1, PassesType, FailsType, PhaseNames
<1>9. CASE Edit \/ \E n \in Nodes :
             Initialise(n) \/ Follow(n) \/ Replicate(n) \/ Promote(n) \/ Demote(n)
             \/ Switchover(n) \/ GoDown(n) \/ ComeUp(n)
  BY <1>9 DEF Edit, Initialise, Follow, Replicate, Promote, Demote, Switchover, GoDown, ComeUp
<1>10. QED
  BY <1>1, <1>2, <1>3, <1>4, <1>5, <1>6, <1>7, <1>8, <1>9
  DEF Next, EtcdStep, PatroniStep, HaStep, PgStep, NodeStep

\* etcd's files, containers and debts.
LEMMA EtcdFrame ==
  ASSUME Next
  PROVE  \/ PushEtcd \/ DownEtcd \/ UpEtcd \/ UpEtcdFails
         \/ UNCHANGED etcdVars /\ \A n \in Nodes : <<"etcd", n>> \in owed => <<"etcd", n>> \in owed'
<1>1. CASE Provision \/ ApplyRaises \/ VerifyRaises \/ Kill \/ Edit \/ EtcdHealthy \/ EtcdUnhealthy
  BY <1>1 DEF Provision, ApplyRaises, VerifyRaises, Kill, Edit, EtcdHealthy, EtcdUnhealthy
<1>2. CASE PatroniStep
  BY <1>2 DEF PatroniStep, Install, InstallFails, StartLeader, Promoted, NeverPromoted, StartFollower,
     Joined, NeverJoined, CreateRole, CreateDb, SqlRefused, VerifyList, VerifyApp
<1>3. CASE HaStep
  BY <1>3 DEF HaStep, PushHa, LoadHa, LoadHaFails, VerifyHa
<1>4. CASE PgStep \/ NodeStep
  BY <1>4 DEF PgStep, NodeStep, Initialise, Follow, Replicate, Promote, Demote, Switchover, GoDown, ComeUp
<1>5. QED
  BY <1>1, <1>2, <1>3, <1>4 DEF Next, EtcdStep

\* PostgreSQL's state.
LEMMA PgFrame ==
  ASSUME Next
  PROVE  \/ UNCHANGED <<on, pgVars>>
         \/ Install \/ StartLeader \/ StartFollower \/ CreateRole \/ CreateDb
         \/ PgStep \/ NodeStep
<1>1. CASE Provision \/ ApplyRaises \/ VerifyRaises \/ Kill \/ Edit
  BY <1>1 DEF Provision, ApplyRaises, VerifyRaises, Kill, Edit
<1>2. CASE EtcdStep
  BY <1>2 DEF EtcdStep, PushEtcd, DownEtcd, UpEtcd, UpEtcdFails, EtcdHealthy, EtcdUnhealthy
<1>3. CASE PatroniStep
  BY <1>3 DEF PatroniStep, InstallFails, Promoted, NeverPromoted, Joined, NeverJoined,
     SqlRefused, VerifyList, VerifyApp
<1>4. CASE HaStep
  BY <1>4 DEF HaStep, PushHa, LoadHa, LoadHaFails, VerifyHa
<1>5. QED
  BY <1>1, <1>2, <1>3, <1>4 DEF Next

\* The routers' files, what they have loaded, and their debts.
LEMMA HaFrame ==
  ASSUME Next
  PROVE  \/ ApplyRaises \/ Kill \/ PushHa \/ LoadHa \/ LoadHaFails \/ \E n \in Nodes : ComeUp(n)
         \/ /\ UNCHANGED haVars
            /\ \A n \in Nodes : <<"haproxy", n>> \in owed => <<"haproxy", n>> \in owed'
            /\ pc = "haLoad" => UNCHANGED session
<1>1. CASE Provision \/ VerifyRaises \/ Edit
  BY <1>1 DEF Provision, VerifyRaises, Edit, session
<1>2. CASE EtcdStep
  BY <1>2 DEF EtcdStep, PushEtcd, DownEtcd, UpEtcd, UpEtcdFails, EtcdHealthy, EtcdUnhealthy,
     session
<1>3. CASE PatroniStep
  BY <1>3 DEF PatroniStep, Install, InstallFails, StartLeader, Promoted, NeverPromoted, StartFollower,
     Joined, NeverJoined, CreateRole, CreateDb, SqlRefused, VerifyList, VerifyApp, session
<1>4. CASE VerifyHa
  BY <1>4 DEF VerifyHa, session
<1>5. CASE PgStep \/ \E n \in Nodes : GoDown(n)
  BY <1>5 DEF PgStep, Initialise, Follow, Replicate, Promote, Demote, Switchover, GoDown,
     session
<1>6. QED
  BY <1>1, <1>2, <1>3, <1>4, <1>5 DEF Next, HaStep, NodeStep

-----------------------------------------------------------------------------
(* etcd and the routers.                                                    *)

LEMMA EtcdKept ==
  ASSUME TypeOK, Where, EtcdInv, Next
  PROVE  EtcdInv'
<1> USE DEF EtcdInv, EtcdLoop, etcdVars
<1>0. ASSUME k \in Nodes, \A n \in Nodes : n < k \/ n = k => Created(n)'
      PROVE  /\ \A n \in Nodes : n < k + 1 => Created(n)'
             /\ ~(k < N) => \A n \in Nodes : Created(n)'
  BY <1>0, ClusterAssumption DEF Nodes
<1>1. CASE /\ UNCHANGED etcdVars
           /\ \A n \in Nodes : <<"etcd", n>> \in owed => <<"etcd", n>> \in owed'
           /\ ~(PushEtcd \/ DownEtcd \/ UpEtcd \/ UpEtcdFails)
  <2>1. \A n \in Nodes : Created(n) => Created(n)'
    BY <1>1 DEF Created
  <2>2. pc' \in EtcdLoop => (pc' = pc /\ k' = k) \/ k' \in {0, 1}
    BY <1>1, PlaceFrame DEF Promoted, StartFollower, Joined, NextFollower, PushHa, LoadHa,
       LoadHaFails, Advance, PatroniPlaces, Following
  <2>3. pc' = "etcdHealth" => pc = "etcdHealth"
    BY <1>1, PlaceFrame DEF Promoted, StartFollower, Joined, NextFollower, PushHa, LoadHa,
       LoadHaFails, Advance, PatroniPlaces, Following
  <2>4. status'["etcd"] = "done" => status["etcd"] = "done" \/ EtcdHealthy
    BY DoneFrame, PhaseNames
  <2>5. EtcdHealthy => pc = "etcdHealth" /\ \A n \in Nodes : etcd[n] # 0
    BY DEF EtcdHealthy, EtcdUp
  <2>6. \A n \in Nodes : ~(n < 0) /\ ~(n < 1)
    BY ClusterAssumption DEF Nodes
  <2>7. QED
    BY <1>1, <2>1, <2>2, <2>3, <2>4, <2>5, <2>6
<1>2. CASE PushEtcd
  <2>1. k \in Nodes /\ status["etcd"] # "done" /\ status' = status /\ k' = k /\ owed' = owed
    BY <1>2 DEF PushEtcd, Where, record
  <2>2. \A n \in Nodes : n # k => ecomp'[n] = ecomp[n] /\ etcd'[n] = etcd[n]
    BY <1>2, <2>1 DEF PushEtcd, TypeOK, NodesType
  <2>3. \A n \in Nodes : n < k => n # k
    BY Bounds, <2>1
  <2>4. pc = "etcdPush" /\ pc' \in {"etcdDown", "etcdUp"}
    BY <1>2 DEF PushEtcd
  <2>5. QED
    BY <2>1, <2>2, <2>3, <2>4 DEF Created
<1>3. CASE DownEtcd
  <2>1. k \in Nodes /\ status["etcd"] # "done" /\ status' = status /\ k' = k /\ owed' = owed
    BY <1>3 DEF DownEtcd, Where, record
  <2>2. \A n \in Nodes : n # k => ecomp'[n] = ecomp[n] /\ etcd'[n] = etcd[n]
    BY <1>3, <2>1 DEF DownEtcd, TypeOK, NodesType
  <2>3. \A n \in Nodes : n < k => n # k
    BY Bounds, <2>1
  <2>4. pc = "etcdDown" /\ pc' = "etcdUp"
    BY <1>3 DEF DownEtcd
  <2>5. QED
    BY <2>1, <2>2, <2>3, <2>4 DEF Created
<1>4. CASE UpEtcd
  <2>1. k \in Nodes /\ pc \in EtcdLoop /\ status["etcd"] # "done" /\ status' = status
    BY <1>4 DEF UpEtcd, Where, record
  <2>2. ecomp' = ecomp /\ owed' = owed \ {<<"etcd", k>>}
    BY <1>4 DEF UpEtcd
  <2>3. \A n \in Nodes : etcd'[n] = IF n = k THEN ecomp[k] ELSE etcd[n]
    BY <1>4, <2>1 DEF UpEtcd, TypeOK, NodesType
  <2>4. \A n \in Nodes : n < k \/ n = k => Created(n)'
    BY <2>1, <2>2, <2>3 DEF Created
  <2>6. IF k < N THEN pc' = "etcdPush" /\ k' = k + 1 ELSE pc' = "etcdHealth" /\ k' = 1
    BY <1>4 DEF UpEtcd, Advance
  <2>7. QED
    BY <1>0, <2>1, <2>4, <2>6
<1>5. CASE UpEtcdFails
  <2>1. k \in Nodes /\ pc \in EtcdLoop /\ status["etcd"] # "done" /\ status' = status
    BY <1>5 DEF UpEtcdFails, Where, record
  <2>2. UNCHANGED etcdVars /\ owed' = owed \cup {<<"etcd", k>>}
    BY <1>5 DEF UpEtcdFails
  <2>3. \A n \in Nodes : n < k \/ n = k => Created(n)'
    BY <2>1, <2>2 DEF Created
  <2>4. IF k < N THEN pc' = "etcdPush" /\ k' = k + 1 ELSE pc' = "etcdHealth" /\ k' = 1
    BY <1>5 DEF UpEtcdFails, Advance
  <2>5. QED
    BY <1>0, <2>1, <2>3, <2>4
<1>6. QED
  BY <1>1, <1>2, <1>3, <1>4, <1>5, EtcdFrame

LEMMA RoutersKept ==
  ASSUME TypeOK, Where, HaInv, Next
  PROVE  HaInv'
<1> USE DEF HaInv, haVars
<1>0. status'["haproxy"] = "done" =>
        status["haproxy"] = "done" \/ \A n \in Nodes : ha[n] # 0
  BY DoneFrame, PhaseNames DEF Routed
<1>1. CASE /\ ~(PushHa \/ LoadHa \/ LoadHaFails)
           /\ UNCHANGED haVars
           /\ \A n \in Nodes : <<"haproxy", n>> \in owed => <<"haproxy", n>> \in owed'
           /\ pc = "haLoad" => UNCHANGED session
  <2>1. pc' = "haLoad" => pc' = pc /\ k' = k /\ chg' = chg
    BY <1>1, PlaceFrame DEF Promoted, StartFollower, Joined, NextFollower, PushEtcd, DownEtcd,
       UpEtcd, UpEtcdFails, Advance, PatroniPlaces, Following
  <2>2. pc = "haLoad" => pc' = pc /\ k' = k /\ chg' = chg
    BY <1>1 DEF session
  <2>3. QED
    BY <1>0, <1>1, <2>1, <2>2
<1>2. CASE ApplyRaises \/ Kill
  <2>1. UNCHANGED haVars /\ owed' = owed \cup Untold /\ pc' = "idle"
    BY <1>2 DEF ApplyRaises, Kill, Fails, Stop
  <2>2. QED
    BY <1>0, <2>1 DEF Untold
<1>3. CASE PushHa
  <2>1. k \in Nodes /\ want # 0
    BY <1>3 DEF PushHa, Where, TypeOK, SessionType
  <2>2. QED
    BY <1>0, <1>3, <2>1 DEF PushHa, TypeOK, NodesType
<1>4. CASE LoadHa
  <2>1. k \in Nodes /\ pc' # "haLoad"
    BY <1>4 DEF LoadHa, Where, Advance
  <2>2. QED
    BY <1>0, <1>4, <2>1 DEF LoadHa, TypeOK, NodesType
<1>5. CASE LoadHaFails
  <2>1. UNCHANGED haVars /\ owed' = owed \cup Untold /\ pc' # "haLoad"
    BY <1>5 DEF LoadHaFails, Advance
  <2>2. QED
    BY <1>0, <1>5, <2>1 DEF LoadHaFails, Untold
<1>6. CASE \E n \in Nodes : ComeUp(n)
  <2>1. PICK n \in Nodes : ComeUp(n)
    BY <1>6
  <2>2. \A m \in Nodes : ha'[m] = IF m = n /\ ha[m] # 0 THEN hafile[m] ELSE ha[m]
    BY <2>1 DEF ComeUp, TypeOK, NodesType
  <2>3. QED
    BY <1>0, <2>1, <2>2 DEF ComeUp, session
<1>7. QED
  BY <1>1, <1>2, <1>3, <1>4, <1>5, <1>6, HaFrame

-----------------------------------------------------------------------------
(* The bootstrap order.                                                     *)

\* A node that has data never loses all of it.
LEMMA DataStays ==
  ASSUME TypeOK, Begun, Next, NEW n \in Nodes, data[n] # {}
  PROVE  data'[n] # {}
<1> USE DEF TypeOK, NodesType
<1>1. CASE UNCHANGED <<on, pgVars>> \/ Install \/ StartLeader \/ StartFollower \/ NodeStep
  BY <1>1 DEF pgVars, Install, StartLeader, StartFollower, NodeStep, GoDown, ComeUp
<1>2. CASE CreateRole \/ CreateDb
  BY <1>2 DEF CreateRole, CreateDb, Execute
<1>3. CASE PgStep
  <2>1. PICK m \in Nodes : Initialise(m) \/ Follow(m) \/ Replicate(m) \/ Promote(m)
                          \/ Demote(m) \/ Switchover(m)
    BY <1>3 DEF PgStep
  <2>2. CASE Initialise(m)
    BY <2>2 DEF Initialise
  <2>3. CASE Follow(m) \/ Replicate(m)
    <3>1. PICK p \in Primaries : data' = [data EXCEPT ![m] = data[p]]
      BY <2>3 DEF Follow, Replicate
    <3>2. data[p] # {}
      BY DEF Begun, Primaries
    <3>3. QED
      BY <3>1, <3>2
  <2>4. CASE Promote(m) \/ Demote(m) \/ Switchover(m)
    BY <2>4 DEF Promote, Demote, Switchover
  <2>5. QED
    BY <2>1, <2>2, <2>3, <2>4
<1>4. QED
  BY <1>1, <1>2, <1>3, PgFrame

\* Where data appears: in the initialisation, in a clone, or under a primary.
LEMMA BegunKept ==
  ASSUME TypeOK, Begun, Gated, Next
  PROVE  Begun'
<1> USE DEF TypeOK, NodesType, Begun, LeaderInitialises
<1>1. CASE UNCHANGED <<on, pgVars>>
  BY <1>1 DEF pgVars
<1>2. CASE Install
  BY <1>2 DEF Install
<1>3. CASE StartLeader \/ StartFollower
  <2>1. PICK m \in on : Start(m) /\ UNCHANGED <<on, data, init>>
    BY <1>3 DEF StartLeader, StartFollower
  <2>2. QED
    BY <2>1 DEF Start
<1>4. CASE CreateRole \/ CreateDb
  <2>1. UNCHANGED <<on, unit, role, init>>
    BY <1>4 DEF CreateRole, CreateDb
  <2>2. data' = data \/ \E x : Leader \in Primaries /\ data' = [data EXCEPT ![Leader] = @ \cup {x}]
    BY <1>4 DEF CreateRole, CreateDb, Execute
  <2>3. QED
    BY <2>1, <2>2 DEF Primaries
<1>5. CASE PgStep
  <2>1. PICK m \in Nodes : Initialise(m) \/ Follow(m) \/ Replicate(m) \/ Promote(m)
                          \/ Demote(m) \/ Switchover(m)
    BY <1>5 DEF PgStep
  <2>2. CASE Initialise(m)
    <3>1. m \in unit /\ \A n \in Nodes : data[n] = {}
      BY <2>2 DEF Initialise
    <3>2. m = Leader
      BY <3>1, Bounds DEF Gated, Followers
    <3>3. \A n \in Nodes : /\ role'[n] = IF n = Leader THEN "primary" ELSE role[n]
                           /\ data'[n] = IF n = Leader THEN {"system"} ELSE {}
      BY <2>2, <3>1, <3>2 DEF Initialise
    <3>4. init' = Leader /\ Leader # 0 /\ UNCHANGED <<on, unit>> /\ Leader \in on
      BY <2>2, <3>2, ClusterAssumption DEF Initialise, Nodes
    <3>5. QED
      BY <3>1, <3>2, <3>3, <3>4
  <2>3. CASE Follow(m) \/ Replicate(m)
    <3>1. PICK p \in Primaries : data' = [data EXCEPT ![m] = data[p]]
      BY <2>3 DEF Follow, Replicate
    <3>2. UNCHANGED <<on, unit, init>> /\ role[m] # "off"
      BY <2>3 DEF Follow, Replicate, Streaming
    <3>3. \A n \in Nodes : role'[n] = role[n] \/ n = m
      BY <2>3 DEF Follow, Replicate
    <3>4. data[p] # {} /\ init # 0
      BY DEF Primaries
    <3>5. \A n \in Nodes : data'[n] = IF n = m THEN data[p] ELSE data[n]
      BY <3>1
    <3>6. QED
      BY <3>2, <3>3, <3>4, <3>5
  <2>4. CASE Promote(m)
    BY <2>4 DEF Promote
  <2>5. CASE Demote(m)
    BY <2>5 DEF Demote, Primaries
  <2>6. CASE Switchover(m)
    BY <2>6 DEF Switchover, Primaries, Streaming
  <2>7. QED
    BY <2>1, <2>2, <2>3, <2>4, <2>5, <2>6
<1>6. CASE NodeStep
  BY <1>6 DEF NodeStep, GoDown, ComeUp
<1>7. QED
  BY <1>1, <1>2, <1>3, <1>4, <1>5, <1>6, PgFrame

LEMMA GatedKept ==
  ASSUME TypeOK, Where, Begun, Gated, Next
  PROVE  Gated'
<1> USE DEF TypeOK, Following
<1>1. \A n \in Nodes : data[n] # {} => data'[n] # {}
  BY DataStays
<1>2. Leader \in Nodes /\ Followers \subseteq Nodes
  BY Bounds
<1>3. \/ unit' = unit
      \/ StartLeader /\ unit' = unit \cup {Leader}
      \/ StartFollower /\ unit' = unit \cup {k}
  BY PgFrame DEF pgVars, Install, StartLeader, StartFollower, Start, CreateRole, CreateDb, PgStep,
     NodeStep, Initialise, Follow, Replicate, Promote, Demote, Switchover, GoDown, ComeUp
<1>4. \/ Promoted \/ Joined
      \/ pc' \in Following => pc \in Following /\ k' = k
  BY PlaceFrame DEF StartFollower, PushEtcd, DownEtcd, UpEtcd, UpEtcdFails, PushHa, LoadHa,
     LoadHaFails, Advance
<1>5. Promoted => data[Leader] # {} /\ NextFollower(1)
  BY <1>2 DEF Promoted, Begun, Primaries
<1>6. Joined => pc \in Following /\ k \in Nodes /\ data[k] # {} /\ NextFollower(k + 1)
  BY DEF Joined, Begun, Streaming, Where
<1>7. pc' \in Following => data[Leader] # {}
  BY <1>4, <1>5, <1>6 DEF Gated
<1>8. pc' \in Following => k' \in Followers /\ \A f \in Followers : f < k' => data[f] # {}
  <2>1. CASE Promoted
    <3>1. \A f \in Followers : f >= 1
      BY <1>2, ClusterAssumption DEF Nodes
    <3>2. pc' \in Following => k' \in Followers /\ \A g \in Followers : g >= 1 => k' <= g
      BY <1>5, <2>1 DEF NextFollower
    <3>3. \A f \in Followers : f \in Int
      BY <1>2, Bounds
    <3>4. QED
      BY <3>1, <3>2, <3>3
  <2>2. CASE Joined
    <3>1. \A f \in Followers : f \in Int /\ k \in Int
      BY <1>2, <1>6, <2>2, Bounds
    <3>2. k \in Followers /\ \A f \in Followers : f < k => data[f] # {}
      BY <1>6, <2>2 DEF Gated
    <3>3. \A f \in Followers : ~(f >= k + 1) => f < k \/ f = k
      BY <3>1
    <3>4. pc' \in Following => k' \in Followers /\ \A g \in Followers : g >= k + 1 => k' <= g
      BY <1>6, <2>2 DEF NextFollower
    <3>5. pc' \in Following => \A g \in Followers : g < k' => ~(g >= k + 1)
      BY <3>1, <3>4, <1>2, Bounds
    <3>6. QED
      BY <1>6, <2>2, <3>2, <3>3, <3>4, <3>5
  <2>3. CASE ~(Promoted \/ Joined)
    BY <1>4, <2>3 DEF Gated
  <2>4. QED
    BY <2>1, <2>2, <2>3
<1>9. (\E f \in Followers : f \in unit') => data[Leader] # {}
  BY <1>3 DEF Gated, StartFollower, Followers
<1>10. \A f, g \in Followers : f < g /\ g \in unit' => data[f] # {}
  BY <1>3 DEF Gated, StartFollower, Followers
<1>11. QED
  BY <1>1, <1>2, <1>7, <1>8, <1>9, <1>10 DEF Gated

\* One primary, which has what anybody has until a node is promoted without it.
LEMMA LeadsKept ==
  ASSUME TypeOK, Begun, Gated, Leads, Next
  PROVE  Leads'
<1> USE DEF TypeOK, NodesType
<1>0. status'["patroni"] = "done" =>
        status["patroni"] = "done" \/ \E n \in Nodes : App \subseteq data[n]
  BY DoneFrame, PhaseNames, Bounds
<1>1. CASE UNCHANGED <<on, pgVars>> \/ Install
  BY <1>0, <1>1 DEF Leads, Primaries, pgVars, Install
<1>2. CASE StartLeader \/ StartFollower
  <2>1. UNCHANGED <<on, data, lost, status>>
    BY <1>2 DEF StartLeader, StartFollower, record
  <2>2. Primaries' = Primaries
    BY <1>2 DEF StartLeader, StartFollower, Start, Primaries
  <2>3. QED
    BY <2>1, <2>2 DEF Leads
<1>3. CASE CreateRole \/ CreateDb
  <2>1. UNCHANGED <<on, role, lost, status>>
    BY <1>3 DEF CreateRole, CreateDb, record
  <2>2. data' = data \/ \E x : Leader \in Primaries /\ data' = [data EXCEPT ![Leader] = @ \cup {x}]
    BY <1>3 DEF CreateRole, CreateDb, Execute
  <2>3. QED
    BY <2>1, <2>2, Bounds DEF Leads, Primaries
<1>4. CASE PgStep
  <2>0. status' = status
    BY <1>4 DEF PgStep, Initialise, Follow, Replicate, Promote, Demote, Switchover, record
  <2>1. PICK m \in Nodes : Initialise(m) \/ Follow(m) \/ Replicate(m) \/ Promote(m)
                          \/ Demote(m) \/ Switchover(m)
    BY <1>4 DEF PgStep
  <2>2. CASE Initialise(m)
    <3>1. \A n \in Nodes : data[n] = {}
      BY <2>2 DEF Initialise, Begun
    <3>2. Primaries = {}
      BY <3>1 DEF Begun, Primaries
    <3>3. Primaries' \subseteq {m}
      BY <2>2, <3>2 DEF Initialise, Primaries
    <3>4. \A n \in Nodes : data'[n] \subseteq {"system"} /\ data'[m] = {"system"}
      BY <2>2, <3>1 DEF Initialise
    <3>5. ~(\E n \in Nodes : App \subseteq data[n])
      BY <3>1 DEF App
    <3>6. lost' = lost
      BY <2>2 DEF Initialise
    <3>7. QED
      BY <2>0, <3>3, <3>4, <3>5, <3>6 DEF Leads
  <2>3. CASE Follow(m) \/ Replicate(m)
    <3>1. PICK p \in Primaries : data' = [data EXCEPT ![m] = data[p]]
      BY <2>3 DEF Follow, Replicate
    <3>2. lost' = lost
      BY <2>3 DEF Follow, Replicate
    <3>3. Primaries' \subseteq Primaries /\ m \notin Primaries'
      BY <2>3 DEF Follow, Replicate, Primaries, Streaming
    <3>4. \A n \in Nodes : data'[n] = IF n = m THEN data[p] ELSE data[n]
      BY <3>1
    <3>5. ~lost => \A n \in Nodes : data[n] \subseteq data'[n]
      BY <3>4 DEF Leads
    <3>6. ~lost => \A q \in Primaries', n \in Nodes : data'[n] \subseteq data'[q]
      BY <3>3, <3>4 DEF Leads, Primaries
    <3>7. QED
      BY <2>0, <3>2, <3>3, <3>5, <3>6 DEF Leads
  <2>4. CASE Promote(m)
    <3>1. Primaries = {} /\ data' = data
      BY <2>4 DEF Promote
    <3>2. Primaries' \subseteq {m}
      BY <2>4, <3>1 DEF Promote, Primaries
    <3>3. ~lost' => ~lost /\ \A n \in Nodes : data[n] \subseteq data[m]
      BY <2>4 DEF Promote
    <3>4. QED
      BY <2>0, <3>1, <3>2, <3>3 DEF Leads
  <2>5. CASE Demote(m)
    <3>1. Primaries' \subseteq Primaries /\ UNCHANGED <<data, lost>>
      BY <2>5 DEF Demote, Primaries
    <3>2. QED
      BY <2>0, <3>1 DEF Leads
  <2>6. CASE Switchover(m)
    <3>1. PICK p \in Primaries : data[m] = data[p] /\ role' = [role EXCEPT ![p] = "waiting", ![m] = "primary"]
      BY <2>6 DEF Switchover
    <3>2. UNCHANGED <<on, data, lost>>
      BY <2>6 DEF Switchover
    <3>3. Primaries' \subseteq {m}
      BY <3>1, <3>2 DEF Leads, Primaries
    <3>4. QED
      BY <2>0, <3>1, <3>2, <3>3 DEF Leads
  <2>7. QED
    BY <2>1, <2>2, <2>3, <2>4, <2>5, <2>6
<1>5. CASE NodeStep
  <2>1. Primaries' \subseteq Primaries /\ UNCHANGED <<data, lost, status>>
    BY <1>5 DEF NodeStep, GoDown, ComeUp, Primaries, record
  <2>2. QED
    BY <2>1 DEF Leads
<1>6. QED
  BY <1>1, <1>2, <1>3, <1>4, <1>5, PgFrame

-----------------------------------------------------------------------------
(* The invariant, and what it implies.                                      *)

LEMMA StutterInv == IInv /\ UNCHANGED vars => IInv'
<1> SUFFICES ASSUME IInv, UNCHANGED vars PROVE IInv'
  OBVIOUS
<1> USE DEF IInv, vars, record, session, etcdVars, pgVars, haVars
<1>1. TypeOK' /\ Edited' /\ Where'
  BY DEF TypeOK, SessionType, NodesType, Edited, Where
<1>2. Begun' /\ Gated' /\ Leads'
  BY DEF Begun, Gated, Leads, LeaderInitialises, Primaries
<1>3. EtcdInv' /\ HaInv'
  BY DEF EtcdInv, HaInv, Created
<1>4. QED
  BY <1>1, <1>2, <1>3

\* IInv is inductive.
THEOREM Invariance == Spec => []IInv
<1>1. IInv /\ Next => IInv'
  BY SessionInv, NodesInv, BegunKept, GatedKept, LeadsKept, EtcdKept, RoutersKept DEF IInv, TypeOK
<1>2. IInv /\ [Next]_vars => IInv'
  BY <1>1, StutterInv
<1>3. QED
  BY InitInv, <1>2, PTL DEF Spec

\* Every variable keeps to its comment, for a fleet of any size.
THEOREM TypeCorrect == Spec => []TypeOK
<1>1. IInv => TypeOK
  BY DEF IInv
<1>2. QED
  BY <1>1, Invariance, PTL

\* The bootstrap leader alone initialises the PostgreSQL system, whatever node reboots
\* or fails, and wherever a session is cut.
THEOREM OnlyLeaderInitialises == Spec => []LeaderInitialises
<1>1. IInv => LeaderInitialises
  BY DEF IInv, Begun
<1>2. QED
  BY <1>1, Invariance, PTL

\* The followers are enabled one by one: of two with nothing cloned one would come
\* first in the fleet, and the other waits for it; and all wait for the leader.
THEOREM OneAtATime == Spec => []OneCloneAtATime
<1>1. ASSUME IInv PROVE OneCloneAtATime
  <2> DEFINE Empty == {n \in unit : data[n] = {}}
  <2>1. unit \subseteq Nodes
    BY <1>1 DEF IInv, TypeOK, NodesType
  <2>2. ASSUME NEW a \in Empty, NEW b \in Empty PROVE a = b
    <3>1. CASE a = Leader \/ b = Leader
      BY <1>1, <2>1, <2>2, <3>1 DEF IInv, Gated, Followers
    <3>2. CASE a # Leader /\ b # Leader
      <4>1. a \in Followers /\ b \in Followers /\ a \in Int /\ b \in Int
        BY <2>1, <2>2, <3>2, Bounds DEF Followers
      <4>2. ~(a < b) /\ ~(b < a)
        BY <1>1, <2>2, <4>1 DEF IInv, Gated
      <4>3. QED
        BY <4>1, <4>2
    <3>3. QED
      BY <3>1, <3>2
  <2>3. CASE Empty = {}
    BY <2>3, FS_EmptySet DEF OneCloneAtATime
  <2>4. CASE Empty # {}
    <3>1. PICK a \in Empty : Empty = {a}
      BY <2>2, <2>4
    <3>2. Cardinality(Empty) = 1
      BY <3>1, FS_Singleton
    <3>3. QED
      BY <3>2 DEF OneCloneAtATime
  <2>5. QED
    BY <2>3, <2>4
<1>2. QED
  BY <1>1, Invariance, PTL

\* A site whose patroni phase is done has the authentik role and database on its
\* primary, unless a node was promoted without them.
THEOREM DatabaseIsThere == Spec => []DoneHasDatabase
<1>1. ASSUME IInv PROVE DoneHasDatabase
  BY <1>1 DEF IInv, Leads, DoneHasDatabase
<1>2. QED
  BY <1>1, Invariance, PTL

\* Once etcd is done its containers match their files, except where `up -d` failed.
THEOREM ContainersCurrent == Spec => []EtcdIsCurrent
<1>1. ASSUME IInv PROVE EtcdIsCurrent
  BY <1>1 DEF IInv, EtcdInv, Created, EtcdIsCurrent
<1>2. QED
  BY <1>1, Invariance, PTL

\* Once haproxy is done every router runs, with its file except where a run was cut
\* between the push and the reload.
THEOREM RoutersCurrent == Spec => []RouterIsCurrent
<1>1. ASSUME IInv PROVE RouterIsCurrent
  BY <1>1 DEF IInv, HaInv, Where, HaPlaces, RouterIsCurrent
<1>2. QED
  BY <1>1, Invariance, PTL

\* On a formed cluster every node runs as primary or replica, with the role and the
\* database, and the fleet is up.
LEMMA FormedNodes ==
  ASSUME TypeOK, Formed
  PROVE  /\ on = Nodes
         /\ \A n \in Nodes : role[n] \in {"primary", "replica"}
         /\ \A n \in Nodes : App \subseteq data[n]
BY DEF TypeOK, NodesType, Formed, Listed, Primaries, Streaming

\* Starting what runs and creating what is there change nothing.
LEMMA IdempotentSteps ==
  ASSUME TypeOK, Formed, StartLeader \/ StartFollower \/ CreateRole \/ CreateDb, k \in Nodes
  PROVE  UNCHANGED <<role, data, init>> /\ UNCHANGED status
<1>1. CASE StartLeader
  BY <1>1, FormedNodes, Bounds DEF StartLeader, Start, TypeOK, NodesType, record
<1>2. CASE StartFollower
  BY <1>2, FormedNodes DEF StartFollower, Start, TypeOK, NodesType, record
<1>3. CASE CreateRole
  BY <1>3, FormedNodes, Bounds DEF CreateRole, Execute, TypeOK, NodesType, App, record
<1>4. CASE CreateDb
  BY <1>4, FormedNodes, Bounds DEF CreateDb, Execute, TypeOK, NodesType, App, record
<1>5. QED
  BY <1>1, <1>2, <1>3, <1>4

\* The gates and the verify of the phase pass on a formed cluster that is led by the
\* bootstrap leader, and no node is out of reach.
LEMMA NothingToFailOn ==
  ASSUME IInv, Formed, Leader \in Primaries, pc # "idle"
  PROVE  ~NeverPromoted /\ ~NeverJoined /\ ~ApplyRaises
         /\ (VerifyList \/ VerifyApp => status'["patroni"] # "failed" \/ status["patroni"] = "failed")
<1>1. k \in Nodes /\ TypeOK
  BY DEF IInv, Where
<1>2. ~NeverPromoted /\ ~ApplyRaises
  BY <1>1, FormedNodes, Bounds DEF NeverPromoted, ApplyRaises, Target
<1>3. ~NeverJoined
  <2>1. ASSUME pc = "joining" PROVE k \in Streaming
    <3>1. k \in Followers
      BY <2>1 DEF IInv, Gated, Following
    <3>2. k \notin Primaries
      BY <3>1 DEF IInv, Leads, Followers
    <3>3. QED
      BY <1>1, <3>2, FormedNodes DEF Primaries, Streaming
  <2>2. QED
    BY <2>1 DEF NeverJoined
<1>4. ASSUME VerifyList PROVE status' = status
  BY <1>4 DEF VerifyList, Formed
<1>5. ASSUME VerifyApp PROVE status'["patroni"] = "done"
  BY <1>1, <1>5, FormedNodes, Bounds, PassesType, PhaseNames DEF VerifyApp
<1>6. QED
  BY <1>2, <1>3, <1>4, <1>5

\* For any fleet: a replay over a formed cluster that the bootstrap leader leads
\* changes no role and no data, and does not fail.
THEOREM ReplaysQuietly == Spec => ReplayLeavesAlone
<1>1. ASSUME IInv, Next, Formed, Leader \in Primaries, pc' # pc
      PROVE  /\ UNCHANGED <<role, data, init>>
             /\ status["patroni"] = "pending" => status'["patroni"] # "failed"
  <2> USE DEF pgVars, record
  <2>1. TypeOK /\ (pc # "idle" => k \in Nodes)
    BY <1>1 DEF IInv, Where
  <2>2. CASE Provision \/ Kill \/ VerifyRaises
    BY <1>1, <2>1, <2>2, PhaseNames DEF Provision, Kill, VerifyRaises, TypeOK, SessionType
  <2>3. CASE PushEtcd \/ DownEtcd \/ UpEtcd \/ UpEtcdFails
    BY <2>3 DEF PushEtcd, DownEtcd, UpEtcd, UpEtcdFails
  <2>4. CASE EtcdHealthy \/ EtcdUnhealthy \/ VerifyHa
    BY <2>1, <2>4, PassesType, FailsType, PhaseNames DEF EtcdHealthy, EtcdUnhealthy, VerifyHa
  <2>5. CASE Install \/ InstallFails \/ Promoted \/ Joined \/ SqlRefused
    BY <2>5 DEF Install, InstallFails, Promoted, Joined, SqlRefused
  <2>6. CASE PushHa \/ LoadHa \/ LoadHaFails
    BY <2>6 DEF PushHa, LoadHa, LoadHaFails
  <2>7. CASE StartLeader \/ StartFollower \/ CreateRole \/ CreateDb
    BY <1>1, <2>1, <2>7, IdempotentSteps DEF StartLeader, StartFollower, CreateRole, CreateDb
  <2>8. CASE NeverPromoted \/ NeverJoined \/ ApplyRaises
    BY <1>1, <2>8, NothingToFailOn DEF NeverPromoted, NeverJoined, ApplyRaises
  <2>9. CASE VerifyList \/ VerifyApp
    BY <1>1, <2>9, NothingToFailOn DEF VerifyList, VerifyApp
  <2>10. ASSUME Edit \/ PgStep \/ NodeStep PROVE FALSE
    BY <1>1, <2>10 DEF Edit, PgStep, NodeStep, Initialise, Follow, Replicate, Promote, Demote,
       Switchover, GoDown, ComeUp, session
  <2>11. QED
    BY <1>1, <2>2, <2>3, <2>4, <2>5, <2>6, <2>7, <2>8, <2>9, <2>10
       DEF Next, EtcdStep, PatroniStep, HaStep
<1>2. QED
  BY Invariance, <1>1, PTL DEF Spec, ReplayLeavesAlone, vars, session, record, pgVars

-----------------------------------------------------------------------------
(* One database.                                                            *)

Content == UNION {data[n] : n \in Nodes}

\* A step that concerns the database leaves the record alone.
LEMMA StatusFrame ==
  ASSUME Next
  PROVE  status' = status \/ UNCHANGED <<init, data, lost>>
<1>1. CASE UNCHANGED <<on, pgVars>>
  BY <1>1 DEF pgVars
<1>2. CASE Install \/ StartLeader \/ StartFollower \/ CreateRole \/ CreateDb
  BY <1>2 DEF Install, StartLeader, StartFollower, CreateRole, CreateDb, record
<1>3. CASE PgStep \/ NodeStep
  BY <1>3 DEF PgStep, NodeStep, Initialise, Follow, Replicate, Promote, Demote, Switchover,
     GoDown, ComeUp, record
<1>4. QED
  BY <1>1, <1>2, <1>3, PgFrame

\* The contents of all copies, when one of them changes.
LEMMA ContentOf ==
  ASSUME TypeOK, NEW m \in Nodes, NEW d, data' = [data EXCEPT ![m] = d]
  PROVE  /\ d \subseteq Content'
         /\ Content' \subseteq Content \cup d
         /\ data[m] \subseteq d => Content' = Content \cup d
<1>1. \A n \in Nodes : data'[n] = IF n = m THEN d ELSE data[n]
  BY DEF TypeOK, NodesType
<1>2. QED
  BY <1>1 DEF Content

LEMMA CreateSimulates ==
  ASSUME IInv, IInv', CreateRole \/ CreateDb
  PROVE  Database!Next \/ UNCHANGED <<init, Content, lost, status>>
<1>1. UNCHANGED <<init, lost, status>>
  BY DEF CreateRole, CreateDb, record
<1>2. \/ data' = data
      \/ \E x \in {"role", "db"} :
           /\ x = "db" => "role" \in data[Leader]
           /\ Leader \in Primaries /\ data' = [data EXCEPT ![Leader] = @ \cup {x}]
  BY DEF CreateRole, CreateDb, Execute
<1>3. CASE data' = data
  BY <1>1, <1>3 DEF Content
<1>4. ASSUME NEW x \in {"role", "db"}, x = "db" => "role" \in data[Leader],
             Leader \in Primaries, data' = [data EXCEPT ![Leader] = @ \cup {x}]
      PROVE  Database!Next
  <2>1. data[Leader] # {} /\ init = Leader
    BY <1>4, Bounds DEF IInv, Begun, Primaries, LeaderInitialises
  <2>2. Content' = Content \cup {x}
    <3>1. Content' = Content \cup (data[Leader] \cup {x})
      BY <1>4, ContentOf, Bounds DEF IInv
    <3>2. data[Leader] \subseteq Content
      BY Bounds DEF Content
    <3>3. QED
      BY <3>1, <3>2
  <2>3. Content # {} /\ (x = "db" => "role" \in Content)
    BY <1>4, <2>1, Bounds DEF Content
  <2>4. Database!Create(x)
    BY <1>1, <2>1, <2>2, <2>3 DEF Database!Create, Content
  <2>5. QED
    BY <1>4, <2>4 DEF Database!Next
<1>5. QED
  BY <1>2, <1>3, <1>4

LEMMA PgSimulates ==
  ASSUME IInv, IInv', PgStep
  PROVE  Database!Next \/ UNCHANGED <<init, Content, lost, status>>
<1>0. status' = status
  BY DEF PgStep, Initialise, Follow, Replicate, Promote, Demote, Switchover, record
<1>1. PICK m \in Nodes : Initialise(m) \/ Follow(m) \/ Replicate(m) \/ Promote(m)
                        \/ Demote(m) \/ Switchover(m)
  BY DEF PgStep
<1>2. CASE Initialise(m)
  <2>1. /\ \A n \in Nodes : data[n] = {}
        /\ data' = [data EXCEPT ![m] = {"system"}] /\ init = 0 /\ init' = m /\ lost' = lost
    BY <1>2 DEF Initialise, IInv, Begun
  <2>2. init' = Leader
    BY <2>1 DEF IInv, Begun, LeaderInitialises, Nodes
  <2>3. Content = {} /\ Content' = {"system"}
    <3>1. Content = {}
      BY <2>1 DEF Content
    <3>2. Content' = Content \cup {"system"}
      BY <2>1, ContentOf DEF IInv
    <3>3. QED
      BY <3>1, <3>2
  <2>4. Database!Make
    BY <1>0, <2>1, <2>2, <2>3 DEF Database!Make, Content
  <2>5. QED
    BY <2>4 DEF Database!Next
<1>3. CASE Follow(m) \/ Replicate(m)
  <2>1. PICK p \in Primaries : data' = [data EXCEPT ![m] = data[p]]
    BY <1>3 DEF Follow, Replicate
  <2>2. UNCHANGED <<init, lost>>
    BY <1>3 DEF Follow, Replicate
  <2>3. p \in Nodes /\ data[p] # {} /\ data[p] \subseteq Content
    BY <2>1 DEF IInv, TypeOK, NodesType, Begun, Primaries, Content
  <2>4. /\ data[p] \subseteq Content' /\ Content' \subseteq Content \cup data[p]
        /\ data[m] \subseteq data[p] => Content' = Content \cup data[p]
    BY <2>1, ContentOf DEF IInv
  <2>5. CASE ~lost
    <3>1. data[m] \subseteq data[p]
      BY <2>1, <2>5 DEF IInv, Leads
    <3>2. Content' = Content
      BY <2>3, <2>4, <3>1
    <3>3. QED
      BY <1>0, <2>2, <3>2
  <2>6. CASE lost
    <3>1. Content' \subseteq Content /\ Content' # {}
      BY <2>3, <2>4
    <3>2. Database!Shrink
      BY <1>0, <2>2, <2>6, <3>1 DEF Database!Shrink, Content
    <3>3. QED
      BY <3>2 DEF Database!Next
  <2>7. QED
    BY <2>5, <2>6
<1>4. CASE Promote(m)
  <2>1. data[m] # {} /\ data' = data /\ init' = init
    BY <1>4 DEF Promote
  <2>2. init = Leader
    BY <2>1 DEF IInv, Begun, LeaderInitialises
  <2>3. Content' = Content
    BY <2>1 DEF Content
  <2>4. CASE lost' = lost
    BY <1>0, <2>1, <2>3, <2>4
  <2>5. CASE lost' # lost
    <3>1. lost' = TRUE
      <4> DEFINE gap == \E j \in Nodes : ~(data[j] \subseteq data[m])
      <4>1. lost' = (lost \/ gap)
        BY <1>4 DEF Promote
      <4>2. lost \in BOOLEAN
        BY DEF IInv, TypeOK, NodesType
      <4> HIDE DEF gap
      <4>3. QED
        BY <2>5, <4>1, <4>2, Zenon
    <3>2. Database!Lose
      BY <1>0, <2>1, <2>2, <2>3, <3>1 DEF Database!Lose, Content
    <3>3. QED
      BY <3>2 DEF Database!Next
  <2>6. QED
    BY <2>4, <2>5
<1>5. CASE Demote(m) \/ Switchover(m)
  BY <1>0, <1>5 DEF Demote, Switchover, Content
<1>6. QED
  BY <1>1, <1>2, <1>3, <1>4, <1>5

\* Every step of the site is a step of the one database or leaves it alone.
LEMMA DatabaseStep ==
  ASSUME IInv, IInv', [Next]_vars
  PROVE  \/ Database!Next
         \/ UNCHANGED <<init, Content, lost, (status["patroni"] = "done")>>
<1>1. CASE UNCHANGED vars
  BY <1>1 DEF vars, record, pgVars, Content
<1>2. CASE Next /\ UNCHANGED <<init, data, lost>>
  <2>1. Content' = Content
    BY <1>2 DEF Content
  <2>2. CASE status'["patroni"] = "done" /\ status["patroni"] # "done"
    <3>1. App \subseteq data[Leader]
      BY <1>2, <2>2, DoneFrame, PhaseNames DEF IInv
    <3>2. {"role", "db"} \subseteq Content
      BY <3>1, Bounds DEF App, Content
    <3>3. Database!HandOver
      BY <1>2, <2>1, <2>2, <3>2 DEF Database!HandOver, Content
    <3>4. QED
      BY <3>3 DEF Database!Next
  <2>3. CASE status'["patroni"] # "done" /\ status["patroni"] = "done"
    <3>1. Database!TakeBack
      BY <1>2, <2>1, <2>3 DEF Database!TakeBack, Content
    <3>2. QED
      BY <3>1 DEF Database!Next
  <2>4. CASE (status'["patroni"] = "done") = (status["patroni"] = "done")
    BY <1>2, <2>1, <2>4
  <2>5. QED
    BY <2>2, <2>3, <2>4, Zenon
<1>3. CASE Next /\ (CreateRole \/ CreateDb)
  BY <1>3, CreateSimulates
<1>4. CASE Next /\ PgStep
  BY <1>4, PgSimulates
<1>5. CASE Next /\ (Install \/ StartLeader \/ StartFollower \/ NodeStep)
  <2>1. UNCHANGED <<init, data, lost>>
    BY <1>5 DEF Install, StartLeader, StartFollower, NodeStep, GoDown, ComeUp
  <2>2. QED
    BY <1>2, <1>5, <2>1
<1>6. CASE Next /\ UNCHANGED pgVars
  BY <1>2, <1>6 DEF pgVars
<1>7. QED
  BY <1>1, <1>3, <1>4, <1>5, <1>6, PgFrame

\* The nodes, their gates, clones and failovers implement one database: made once by
\* the bootstrap leader, growing by the role and then the database, losing only to a
\* promotion that had not replayed everything, and never recorded done without both
\* (patroni_phase.py:1-10, 121-212).
THEOREM OneDatabase == Spec => ImplementsDatabase
<1>1. Init => Database!Init
  <2>1. Init => Content = {}
    BY DEF Init, Content
  <2>2. Init => status["patroni"] # "done"
    BY DEF Init, Phases
  <2>3. QED
    BY <2>1, <2>2 DEF Init, Content, Database!Init
<1>2. IInv /\ IInv' /\ [Next]_vars
      => [Database!Next]_<<init, Content, lost, (status["patroni"] = "done")>>
  BY DatabaseStep
<1>3. QED
  BY <1>1, <1>2, Invariance, PTL DEF Spec, ImplementsDatabase, Database!Spec, Content

-----------------------------------------------------------------------------
(* The contract of the runner.                                              *)

EtcdPlaces == {"etcdPush", "etcdDown", "etcdUp", "etcdHealth"}

LEMMA UnderAt ==
  ASSUME pc \in Places
  PROVE  /\ pc = "idle" <=> Under = {}
         /\ pc \in EtcdPlaces => Under = {"etcd"}
         /\ pc \in PatroniPlaces => Under = {"patroni"}
         /\ pc \in HaPlaces => Under = {"haproxy"}
         /\ pc \in {"idle"} \cup EtcdPlaces \cup PatroniPlaces \cup HaPlaces
BY DEF Under, Places, EtcdPlaces, PatroniPlaces, Following, HaPlaces

LEMMA UnderStays == pc' = pc => Under' = Under
BY DEF Under

\* Where a session goes over the statuses st, the phase has its turn.
LEMMA EnterTurns ==
  ASSUME NEW st, Enter(st)
  PROVE  Under' \in Contract!Turns(st)
<1>1. CASE st["etcd"] # "done"
  <2>1. Under' = {"etcd"}
    BY <1>1 DEF Enter, Entry, Under
  <2>2. QED
    BY <1>1, <2>1 DEF Contract!Turns, Phases
<1>2. CASE st["etcd"] = "done" /\ st["patroni"] # "done"
  <2>1. Under' = {"patroni"}
    BY <1>2 DEF Enter, Entry, Under
  <2>2. \A b \in {"etcd"} : Contract!Passed(b, st)
    BY <1>2 DEF Contract!Passed
  <2>3. QED
    BY <1>2, <2>1, <2>2 DEF Contract!Turns, Phases
<1>3. CASE st["etcd"] = "done" /\ st["patroni"] = "done" /\ st["haproxy"] # "done"
  <2>1. Under' = {"haproxy"}
    BY <1>3 DEF Enter, Entry, Under
  <2>2. \A b \in {"etcd", "patroni"} : Contract!Passed(b, st)
    BY <1>3 DEF Contract!Passed
  <2>3. QED
    BY <1>3, <2>1, <2>2 DEF Contract!Turns, Phases
<1>4. CASE st["etcd"] = "done" /\ st["patroni"] = "done" /\ st["haproxy"] = "done"
  BY <1>4 DEF Enter, Under, Contract!Turns
<1>5. QED
  BY <1>1, <1>2, <1>3, <1>4

LEMMA PassesVerifies ==
  ASSUME NEW p \in Phases, Under = {p}, Passes(p)
  PROVE  Contract!Next
<1>1. Contract!Verified(p)
  BY EnterTurns DEF Passes, Contract!Verified, Contract!Written
<1>2. QED
  BY <1>1 DEF Contract!Next

LEMMA FailsFails ==
  ASSUME NEW p \in Phases, Under = {p}, Fails(p)
  PROVE  Contract!Next
<1>1. Under' = {}
  BY DEF Fails, Stop, Under
<1>2. Contract!Failed(p)
  BY <1>1 DEF Fails, Contract!Failed, Contract!Written
<1>3. QED
  BY <1>2 DEF Contract!Next

\* The session's own steps.
LEMMA SessionRuns ==
  ASSUME TypeOK, Provision \/ ApplyRaises \/ VerifyRaises \/ Kill \/ Edit
  PROVE  Contract!Next \/ UNCHANGED <<status, Under>>
<1> USE DEF record, session
<1>0. pc \in Places
  BY DEF TypeOK, SessionType
<1>1. CASE Provision
  <2>1. Under = {} /\ Under' \in Contract!Turns(status')
    BY <1>1, EnterTurns DEF Provision, Under
  <2>2. Contract!Provision
    BY <1>1, <2>1 DEF Provision, Contract!Provision
  <2>3. QED
    BY <2>2 DEF Contract!Next
<1>2. CASE ApplyRaises
  <2>1. PhaseOf(pc) \in Phases /\ Under = {PhaseOf(pc)}
    BY <1>0, <1>2, UnderAt
       DEF ApplyRaises, Places, Phases, PhaseOf, EtcdPlaces, PatroniPlaces, Following, HaPlaces
  <2>2. QED
    BY <1>2, <2>1, FailsFails DEF ApplyRaises
<1>3. CASE VerifyRaises \/ Kill
  <2>1. pc # "idle" /\ pc' = "idle" /\ status' = status
    BY <1>3 DEF VerifyRaises, Kill, Stop
  <2>2. PICK p \in Phases : Under = {p}
    BY <1>0, <2>1, UnderAt DEF Phases
  <2>3. Contract!Cut(p)
    BY <2>1, <2>2 DEF Contract!Cut, Under
  <2>4. QED
    BY <2>3 DEF Contract!Next
<1>4. CASE Edit
  BY <1>4, UnderStays DEF Edit
<1>5. QED
  BY <1>1, <1>2, <1>3, <1>4

\* The phases' steps.
LEMMA PhasesRun ==
  ASSUME TypeOK, EtcdStep \/ PatroniStep \/ HaStep
  PROVE  Contract!Next \/ UNCHANGED <<status, Under>>
<1> USE DEF record, session
<1>0. pc \in Places
  BY DEF TypeOK, SessionType
<1>1. CASE PushEtcd \/ DownEtcd \/ UpEtcd \/ UpEtcdFails
  <2>1. pc \in EtcdPlaces /\ pc' \in EtcdPlaces /\ status' = status
    BY <1>1 DEF PushEtcd, DownEtcd, UpEtcd, UpEtcdFails, Advance, EtcdPlaces
  <2>2. QED
    BY <2>1 DEF Under, EtcdPlaces
<1>2. CASE EtcdHealthy \/ EtcdUnhealthy
  <2>1. Under = {"etcd"} /\ (Passes("etcd") \/ Fails("etcd"))
    BY <1>2 DEF EtcdHealthy, EtcdUnhealthy, Under
  <2>2. QED
    BY <2>1, PassesVerifies, FailsFails, PhaseNames
<1>3. CASE Install \/ InstallFails \/ StartLeader \/ Promoted \/ StartFollower \/ Joined
           \/ CreateRole \/ CreateDb \/ SqlRefused
  <2>1. pc \in PatroniPlaces /\ pc' \in PatroniPlaces /\ status' = status
    BY <1>3 DEF Install, InstallFails, StartLeader, Promoted, StartFollower, Joined, CreateRole,
       CreateDb, SqlRefused, NextFollower, Advance, PatroniPlaces, Following
  <2>2. QED
    BY <2>1 DEF Under, PatroniPlaces, Following
<1>4. CASE NeverPromoted \/ NeverJoined \/ VerifyApp
  <2>1. Under = {"patroni"} /\ (Passes("patroni") \/ Fails("patroni"))
    BY <1>4 DEF NeverPromoted, NeverJoined, VerifyApp, Under
  <2>2. QED
    BY <2>1, PassesVerifies, FailsFails, PhaseNames
<1>5. CASE VerifyList
  <2>1. CASE Fails("patroni")
    <3>1. Under = {"patroni"}
      BY <1>5 DEF VerifyList, Under
    <3>2. QED
      BY <2>1, <3>1, FailsFails, PhaseNames
  <2>2. CASE pc' = "app" /\ status' = status
    BY <1>5, <2>2 DEF VerifyList, Under
  <2>3. QED
    BY <1>5, <2>1, <2>2 DEF VerifyList
<1>6. CASE PushHa \/ LoadHa \/ LoadHaFails
  <2>1. pc \in HaPlaces /\ pc' \in HaPlaces /\ status' = status
    BY <1>6 DEF PushHa, LoadHa, LoadHaFails, Advance, HaPlaces
  <2>2. QED
    BY <2>1 DEF Under, HaPlaces
<1>7. CASE VerifyHa
  <2>1. Under = {"haproxy"} /\ (Passes("haproxy") \/ Fails("haproxy"))
    BY <1>7 DEF VerifyHa, Under
  <2>2. QED
    BY <2>1, PassesVerifies, FailsFails, PhaseNames
<1>8. QED
  BY <1>1, <1>2, <1>3, <1>4, <1>5, <1>6, <1>7 DEF EtcdStep, PatroniStep, HaStep

LEMMA RunnerStep ==
  ASSUME TypeOK, [Next]_vars
  PROVE  [Contract!Next]_<<status, Under>>
<1>1. CASE UNCHANGED vars
  BY <1>1, UnderStays DEF vars, record, session
<1>2. CASE PgStep \/ NodeStep
  <2>1. UNCHANGED <<record, session>>
    BY <1>2 DEF PgStep, NodeStep, Initialise, Follow, Replicate, Promote, Demote, Switchover,
       GoDown, ComeUp
  <2>2. QED
    BY <2>1, UnderStays DEF record, session
<1>3. QED
  BY <1>1, <1>2, SessionRuns, PhasesRun DEF Next

\* The three phases, whatever raises, is cut or goes down, come under way and are recorded
\* as the contract of the runner says (base.py:134-185): what this module takes for
\* granted of run_phases is what PhaseRunner shows it does.
THEOREM RunsAsRunner == Spec => ImplementsPipeline
<1>1. Init => Contract!Init
  BY DEF Init, Under, Contract!Init
<1>2. TypeOK /\ [Next]_vars => [Contract!Next]_<<status, Under>>
  BY RunnerStep
<1>3. QED
  BY <1>1, <1>2, TypeCorrect, PTL DEF Spec, ImplementsPipeline, Contract!Spec

=============================================================================
