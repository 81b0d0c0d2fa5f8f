------------------------------- MODULE Monitor -------------------------------
(***************************************************************************)
(* `akro monitor` (monitor/dashboard.py): each refresh is a thread of its    *)
(* own that probes the whole site from a pool, asks the primary it found     *)
(* for its slots and hands everything to the screen in one call.  The        *)
(* timer and the `r` key start one whether or not others still run; the      *)
(* site goes on changing under all of them.                                  *)
(***************************************************************************)
EXTENDS Naturals, FiniteSets

CONSTANTS
  Nodes,      \* the three nodes of an HA site
  First,      \* the one node of a single-node site; where primary and address start
  NoNode,     \* no holder, no primary, no answer
  Weak,       \* services that may be down on two nodes from the start
  Refreshes,  \* threads a refresh may run in
  MaxChanges, \* bound: changes of the site
  MaxHangs    \* bound: slot queries that do not come back in time

ASSUME MonitorAssumption ==
  /\ IsFiniteSet(Nodes) /\ Cardinality(Nodes) = 3
  /\ First \in Nodes /\ Weak \subseteq {"monitor", "stub_status", "etcd", "haproxy", "authentik"}
  /\ NoNode \notin Nodes
  /\ MaxChanges \in Nat /\ MaxHangs \in Nat

VARIABLES
  site,       \* the config: topology, and whether it has an API token
  world,      \* what each service would answer now
  refresh,    \* what each thread is at, and what it has so far
  shown,      \* the data of the panels
  central,    \* the dot in the title bar
  during,     \* history: the worlds there were while the shown refresh ran
  changes, hangs

monitorVars == <<site, world, refresh, shown, central, during, changes, hangs>>

Services == {"monitor", "stub_status", "etcd", "haproxy", "authentik"}
Roles == {"primary", "starting", "streaming", "stuck", "down"}
Worlds == [up : [Services -> SUBSET Nodes], patroni : [Nodes -> Roles],
           vip : Nodes \cup {NoNode}, workers : {"connected", "mismatched", "missing"},
           queue : {"clean", "warned", "failed"}]

\* The emitted config of an HA site always carries the token.
Configs == {[topology |-> "ha", token |-> TRUE]} \cup [topology : {"single"}, token : BOOLEAN]

Single == site.topology = "single"
----------------------------------------------------------------------------
(* The probes.  An answer is what the world of that moment gives.           *)

CheckKeepalived(w, n) == n \in w.up["monitor"]
CheckNginx(w, n) == n \in w.up["stub_status"]
CheckEtcd(w, n) == n \in w.up["etcd"]
CheckHaproxy(w, n) == n \in w.up["haproxy"]
CheckAuthentik(w, n) == n \in w.up["authentik"]

\* The address is served by the nginx of whoever holds it.
CheckVip(w) == IF w.vip \in w.up["monitor"] THEN w.vip ELSE NoNode

\* A leader should be running, a replica streaming; a node that answers
\* anything else has a problem.
CheckPatroni(w, n) ==
  [ok |-> w.patroni[n] # "down",
   leader |-> w.patroni[n] \in {"primary", "starting"},
   healthy |-> w.patroni[n] \in {"primary", "streaming"}]

\* pg_current_wal_lsn() is refused on a node in recovery.
CheckSlots(w, n) == IF n # NoNode /\ w.patroni[n] = "primary" THEN n ELSE NoNode

\* The API is asked through the address, or at the one node.
PrimaryHost(w) == IF Single THEN First ELSE w.vip
ApiAnswers(w) == PrimaryHost(w) \in w.up["authentik"]

CheckQueue(w) ==
  IF ~site.token THEN "untold" ELSE IF ApiAnswers(w) THEN w.queue ELSE "unreachable"

CheckWorkers(w) ==
  IF ~site.token THEN "untold" ELSE IF ApiAnswers(w) THEN w.workers ELSE "unreachable"

\* One answer per node, each of some moment of the refresh.
Answers(Check(_, _), ws) == {[n \in Nodes |-> Check(f[n], n)] : f \in [Nodes -> ws]}
----------------------------------------------------------------------------
(* The dots.                                                                *)

FailuresToDot(failures) == IF failures >= 3 THEN "down" ELSE IF failures >= 2 THEN "warn" ELSE "ok"
DotBinary(failed) == IF failed THEN "down" ELSE "ok"

WorstDot(dots) == IF "down" \in dots THEN "down" ELSE IF "warn" \in dots THEN "warn" ELSE "ok"

QueueDot(q) ==
  CASE q = "untold" -> "grey" [] q \in {"unreachable", "failed"} -> "down"
    [] q = "warned" -> "warn" [] OTHER -> "ok"
WorkersDot(k) ==
  CASE k = "untold" -> "grey" [] k \in {"unreachable", "missing"} -> "down"
    [] k = "mismatched" -> "warn" [] OTHER -> "ok"

Failed(answer) == Cardinality({n \in Nodes : ~answer[n]})

\* Mutant: a node that answers is taken for a healthy one.
PatroniFail_Answering(answer) == Cardinality({n \in Nodes : ~answer[n].ok})

PatroniFail(answer) == Cardinality({n \in Nodes : ~answer[n].ok \/ ~answer[n].healthy})

\* A failed queue and missing workers count as one of three; the address and
\* the stub_status port do not count at all.
AllFailures(d) ==
  {Failed(d.keepalived), PatroniFail(d.patroni), Failed(d.etcd), Failed(d.haproxy),
   Failed(d.authentik),
   IF d.queue \in {"unreachable", "failed"} THEN 1 ELSE 0,
   IF d.workers \in {"unreachable", "missing"} THEN 1 ELSE 0}

CentralHa(d) ==
  IF \E f \in AllFailures(d) : f >= 3 THEN "down"
  ELSE IF \E f \in AllFailures(d) : f >= 2 THEN "warn" ELSE "ok"

CentralSingle(d) ==
  WorstDot({DotBinary(~d.authentik[First]), DotBinary(~d.nginx[First]),
            QueueDot(d.queue), WorkersDot(d.workers)})

\* The screen before the first answer.
Checking == [panel |-> "checking"]

\* Patroni's panel prints the leader's line, with the slots, for this node.
LeaderLine(d, n) == d.patroni[n].ok /\ d.patroni[n].leader
----------------------------------------------------------------------------
\* The monitor may be started on a site in order, on one where a service is left
\* on one node only, or on one that has lost its primary.
Healthy ==
  [up |-> [s \in Services |-> Nodes],
   patroni |-> [n \in Nodes |-> IF n = First THEN "primary" ELSE "streaming"],
   vip |-> First, workers |-> "connected", queue |-> "clean"]
Beginnings ==
  {Healthy} \cup {[Healthy EXCEPT !.up[s] = {First}] : s \in Weak}
  \cup {[Healthy EXCEPT !.patroni = [n \in Nodes |-> IF n = First THEN "down" ELSE "stuck"]]}

MonitorInit ==
  /\ site \in Configs
  /\ world \in Beginnings
  /\ refresh = [r \in Refreshes |-> [at |-> "idle"]]
  /\ shown = Checking /\ central = "grey" /\ during = {}
  /\ changes = 0 /\ hangs = 0

screen == <<shown, central, during>>
Goes(r, rec) == refresh' = [refresh EXCEPT ![r] = rec]

\* Mutant: no refresh is started beside another.
Start_Alone(r) ==
  /\ \A s \in Refreshes : refresh[s].at = "idle"
  /\ Goes(r, [at |-> "probing", span |-> {world}])
  /\ UNCHANGED <<site, world, screen, changes, hangs>>

\* on_mount, the timer and the key: a thread of its own, beside any other.
Start(r) ==
  /\ refresh[r].at = "idle"
  /\ Goes(r, [at |-> "probing", span |-> {world}])
  /\ UNCHANGED <<site, world, screen, changes, hangs>>

\* Mutant: any node that answers is asked for the slots.
FindPrimary_Any(r) ==
  /\ ~Single /\ refresh[r].at = "probing"
  /\ \E answer \in Answers(CheckPatroni, refresh[r].span) : \E p \in Nodes :
       /\ answer[p].ok
       /\ Goes(r, [at |-> "asking", span |-> refresh[r].span, patroni |-> answer,
                   asked |-> p, since |-> {world}])
  /\ UNCHANGED <<site, world, screen, changes, hangs>>

\* Patroni's answers are awaited first; the first that is a leader is asked more.
FindPrimary(r) ==
  /\ ~Single /\ refresh[r].at = "probing"
  /\ \E answer \in Answers(CheckPatroni, refresh[r].span) :
     \E p \in Nodes \cup {NoNode} :
       /\ IF p = NoNode THEN \A n \in Nodes : ~answer[n].leader
                        ELSE answer[p].ok /\ answer[p].leader
       /\ Goes(r, [at |-> "asking", span |-> refresh[r].span, patroni |-> answer,
                   asked |-> p, since |-> {world}])
  /\ UNCHANGED <<site, world, screen, changes, hangs>>

\* The slot query has a connect timeout and no other: it may stay away while
\* the other answers wait.
Hang(r) ==
  /\ refresh[r].at = "asking" /\ refresh[r].asked # NoNode
  /\ hangs < MaxHangs
  /\ hangs' = hangs + 1
  /\ Goes(r, [refresh[r] EXCEPT !.at = "hung"])
  /\ UNCHANGED <<site, world, screen, changes>>

\* Every answer is in; the screen is called.
Gather(r) ==
  /\ refresh[r].at \in {"asking", "hung"}
  /\ \E vip \in {CheckVip(w) : w \in refresh[r].span},
       keepalived \in Answers(CheckKeepalived, refresh[r].span),
       etcd \in Answers(CheckEtcd, refresh[r].span),
       haproxy \in Answers(CheckHaproxy, refresh[r].span),
       authentik \in Answers(CheckAuthentik, refresh[r].span),
       nginx \in Answers(CheckNginx, refresh[r].span),
       queue \in {CheckQueue(w) : w \in refresh[r].span},
       workers \in {CheckWorkers(w) : w \in refresh[r].span},
       slots \in {CheckSlots(w, refresh[r].asked) : w \in refresh[r].since}
                 \cup (IF refresh[r].at = "hung" THEN {NoNode} ELSE {}) :
       Goes(r, [at |-> "gathered", span |-> refresh[r].span \cup refresh[r].since,
                data |-> [panel |-> "ha", vip |-> vip, keepalived |-> keepalived,
                          patroni |-> refresh[r].patroni, slots |-> slots,
                          etcd |-> etcd, haproxy |-> haproxy, authentik |-> authentik,
                          nginx |-> nginx, queue |-> queue, workers |-> workers]])
  /\ UNCHANGED <<site, world, screen, changes, hangs>>

GatherSingle(r) ==
  /\ Single /\ refresh[r].at = "probing"
  /\ \E authentik \in Answers(CheckAuthentik, refresh[r].span),
       nginx \in Answers(CheckNginx, refresh[r].span),
       queue \in {CheckQueue(w) : w \in refresh[r].span},
       workers \in {CheckWorkers(w) : w \in refresh[r].span} :
       Goes(r, [at |-> "gathered", span |-> refresh[r].span,
                data |-> [panel |-> "single", authentik |-> authentik, nginx |-> nginx,
                          queue |-> queue, workers |-> workers]])
  /\ UNCHANGED <<site, world, screen, changes, hangs>>

\* The screen's own thread runs the call: every panel, every dot, in one go.
Apply(r) ==
  /\ refresh[r].at = "gathered"
  /\ shown' = refresh[r].data
  /\ central' = (IF Single THEN CentralSingle(refresh[r].data) ELSE CentralHa(refresh[r].data))
  /\ during' = refresh[r].span
  /\ Goes(r, [at |-> "idle"])
  /\ UNCHANGED <<site, world, changes, hangs>>

Step(r) ==
  \/ FindPrimary(r) \/ Gather(r) \/ GatherSingle(r) \/ Apply(r)
----------------------------------------------------------------------------
(* The site.                                                                *)

Running == {r \in Refreshes : refresh[r].at \in {"probing", "asking"}}
Asking == {r \in Refreshes : refresh[r].at \in {"asking", "hung"}}

\* Probes under way may meet the world before or after the change.
Becomes(w) ==
  /\ changes < MaxChanges /\ changes' = changes + 1
  /\ w # world /\ world' = w
  /\ refresh' = [r \in Refreshes |->
       [f \in DOMAIN refresh[r] |->
          IF \/ f = "span" /\ r \in Running
             \/ f = "since" /\ r \in Asking
          THEN refresh[r][f] \cup {w} ELSE refresh[r][f]]]
  /\ UNCHANGED <<site, screen, hangs>>

\* A service stops or comes back on a node, or its port is closed or opened there.
ServiceChanges ==
  \E s \in IF Single THEN {"authentik", "stub_status"} ELSE Services,
     n \in IF Single THEN {First} ELSE Nodes :
  \E up \in {world.up[s] \ {n}, world.up[s] \cup {n}} :
    Becomes([world EXCEPT !.up[s] = up])

\* The primary is in crash recovery, or dies: nobody streams any more.
PrimaryLost ==
  /\ ~Single
  /\ \E p \in Nodes, to \in {"starting", "down"} :
       /\ world.patroni[p] = "primary"
       /\ Becomes([world EXCEPT !.patroni =
            [n \in Nodes |-> IF n = p THEN to
                              ELSE IF @[n] = "streaming" THEN "stuck" ELSE @[n]]])

\* A failover, or a switchover: the others have yet to follow.
Promote ==
  /\ ~Single
  /\ \E p \in Nodes :
       /\ world.patroni[p] \in {"streaming", "stuck", "starting"}
       /\ Becomes([world EXCEPT !.patroni =
            [n \in Nodes |-> IF n = p THEN "primary"
                              ELSE IF @[n] = "down" THEN "down" ELSE "stuck"]])

ReplicaChanges ==
  /\ ~Single
  /\ \E n \in Nodes, to \in {"streaming", "stuck", "down"} :
       /\ world.patroni[n] \in {"streaming", "stuck", "down"}
       /\ to = "streaming" => \E p \in Nodes : world.patroni[p] = "primary"
       /\ Becomes([world EXCEPT !.patroni[n] = to])

AddressMoves == ~Single /\ \E h \in Nodes \cup {NoNode} : Becomes([world EXCEPT !.vip = h])

WorkerChanges ==
  /\ site.token
  /\ \E k \in {"connected", "mismatched", "missing"} : Becomes([world EXCEPT !.workers = k])

QueueChanges == site.token /\ \E q \in {"clean", "warned", "failed"} : Becomes([world EXCEPT !.queue = q])
----------------------------------------------------------------------------
MonitorNext ==
  \/ \E r \in Refreshes : Start(r) \/ Step(r) \/ Hang(r)
  \/ ServiceChanges \/ PrimaryLost \/ Promote \/ ReplicaChanges
  \/ AddressMoves \/ WorkerChanges \/ QueueChanges

\* The timer never stops; every probe but a hung query ends, and the screen
\* takes its calls.
MonitorFairness ==
  /\ WF_monitorVars(\E r \in Refreshes : Start(r))
  /\ \A r \in Refreshes : WF_monitorVars(refresh[r].at # "hung" /\ Step(r))

MonitorSpec == MonitorInit /\ [][MonitorNext]_monitorVars /\ MonitorFairness
----------------------------------------------------------------------------
\* Types of the config, the world, the threads and the screen (dashboard.py's globals and panels).
MonitorTypes ==
  /\ site \in Configs
  /\ world \in Worlds /\ during \subseteq Worlds
  /\ \A r \in Refreshes : refresh[r].at \in {"idle", "probing", "asking", "hung", "gathered"}
  /\ IF shown = Checking THEN central = "grey"
     ELSE shown.panel = site.topology /\ central \in {"ok", "warn", "down"}
  /\ changes \in 0..MaxChanges /\ hangs \in 0..MaxHangs

\* The slots are asked of the primary after the others have answered for their
\* roles (action_refresh_now).  What the leader line shows is what a running
\* primary of that very screen said after it had been seen to lead, and two leader
\* lines mean that the primary moved while the refresh ran, not that there were two.
SlotsOfShownLeader ==
  shown # Checking /\ ~Single =>
    /\ shown.slots # NoNode =>
         /\ LeaderLine(shown, shown.slots)
         /\ \E w \in during : w.patroni[shown.slots] = "primary"
    /\ \A m, n \in Nodes : LeaderLine(shown, m) /\ LeaderLine(shown, n) /\ m # n
         => Cardinality(during) > 1

\* For a refresh under which the site stood still, the dot of an HA site is red
\* when some service answers (Patroni: is in its right state) nowhere, green only when
\* each has its majority (_apply_updates), and red without a running primary even while
\* all three Patronis answer (check_patroni_node, "Anything else ... is a real problem
\* even though Patroni still answers"); that of a single node is red when anything it
\* needs is (_apply_updates_single, _worst_dot).
VerdictIsTrue ==
  \A w \in during : during = {w} =>
    LET Right == {n \in Nodes : w.patroni[n] \in {"primary", "streaming"}}
        Serving == {w.up[s] : s \in Services \ {"stub_status"}} \cup {Right}
        Majority(S) == 2 * Cardinality(S) > Cardinality(Nodes)
        Api == site.token => First \in w.up["authentik"] /\ w.queue # "failed" /\ w.workers # "missing"
    IN IF Single
       THEN central = "down" <=> ~(First \in w.up["authentik"] /\ First \in w.up["stub_status"] /\ Api)
       ELSE /\ central = "down" <=> {} \in Serving
            /\ central = "ok" <=> \A S \in Serving : Majority(S)
            /\ (\A n \in Nodes : w.patroni[n] # "primary") => central = "down"

\* Whatever overlaps, is late or hangs: when the site has stopped changing, the
\* screen ends up showing it as it is and never goes back (set_interval,
\* action_refresh_now without `exclusive`).
SettlesCurrent == <>[](during = {world})

\* The screen, and every refresh that is out, have met the present site only.
Settled ==
  /\ during = {world}
  /\ \A r \in Refreshes : refresh[r].at # "idle" =>
       /\ refresh[r].span = {world}
       /\ refresh[r].at \in {"asking", "hung"} => refresh[r].since = {world}

\* Refreshes may overtake each other and their queries may hang (action_refresh_now):
\* what puts an older site back on the screen is a refresh that was out when the site
\* changed, and never one that was started since.
NeverGoesBack == [][Settled /\ world' = world => Settled']_monitorVars
=============================================================================
