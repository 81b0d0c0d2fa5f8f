------------------------------ MODULE SingleSite ------------------------------
(***************************************************************************)
(* authentik on a single node: server, worker and PostgreSQL are containers *)
(* of one compose project under one systemd unit.  `akro provision` runs    *)
(* the authentik and restore phases (phases/authentik_single_phase.py,      *)
(* phases/restore_single_phase.py); `akro shutdown` and `akro start` stop   *)
(* and start the two application containers (phases/authentik_lifecycle.py).*)
(* The node reboots, containers exit, commands fail or are cut.  The site   *)
(* file names a dump (without restore.sql_file the restore is an empty step *)
(* recorded done).                                                          *)
(*                                                                          *)
(* External: `docker compose up -d` starts what is stopped and recreates    *)
(* what was made from another configuration; a container has the files that *)
(* were on the node when it was started; authentik's own lock lets one      *)
(* container migrate at a time, and creates akadmin, with the token of the  *)
(* .env file, only in a database that has no user.                          *)
(***************************************************************************)
EXTENDS Naturals

CONSTANT MaxUpsets   \* bound: edits, reboots, containers that exit, steps that fail,
                     \* sessions cut short, together

ASSUME SingleAssumption == MaxUpsets \in Nat

Apps == {"server", "worker"}
Versions == 0..(MaxUpsets + 1)

\* tag: what .env and the compose file are rendered from; art: the branding files.
Configs == [tag : Versions, art : Versions]
Absent == [tag |-> 0, art |-> 0]

VARIABLES
  want,       \* what the site file asks for
  disk,       \* what is under /opt/authentik
  unit,       \* authentik-compose.service: started, or not
  pg,         \* the postgresql container runs
  cont, runs, \* each application container, and what it was started from
  data,       \* the authentik database, see Databases
  token,      \* the token pinned in the state file is valid in it
  dump,       \* the dump is in /tmp
  auth, rst, flag,  \* statuses of authentik, restore and authentik-shutdown
  pc,         \* where the session is
  unminted,   \* history: the token was lost and could not be put back
  upsets

node == <<disk, unit, pg, cont, runs>>
store == <<data, token, dump, unminted>>
record == <<auth, rst, flag>>
vars == <<want, node, store, record, pc, upsets>>

\* "none": no volume yet.  "gone": dropped.  "void": created and empty.  "part": psql
\* stopped on the way.  "loaded": the dump, not migrated.
Databases == {"none", "gone", "void", "part", "loaded", "app", "restored"}

AuthPlaces == {"push", "restart", "gate", "verify"}
RestorePlaces == {"stop", "upload", "drop", "load", "worker", "workergate",
                  "server", "servergate", "mint", "check"}
StartPlaces == {"up", "upgate", "clear"}
Places == {"idle"} \cup AuthPlaces \cup RestorePlaces \cup {"halt", "halted"} \cup StartPlaces

Init ==
  /\ want = [tag |-> 1, art |-> 1] /\ disk = Absent
  /\ unit = "stopped" /\ pg = FALSE
  /\ cont = [c \in Apps |-> "off"] /\ runs = [c \in Apps |-> Absent]
  /\ data = "none" /\ token = FALSE /\ dump = FALSE /\ unminted = FALSE
  /\ auth = "pending" /\ rst = "pending" /\ flag = "pending"
  /\ pc = "idle"
  /\ upsets = 0

Upset == upsets < MaxUpsets /\ upsets' = upsets + 1

-----------------------------------------------------------------------------
(* The containers.                                                          *)

\* Containers that `up -d` starts or makes anew.
Stale(c) == cont[c] = "off" \/ runs[c].tag # disk.tag

\* `up -d` of the containers cs, all of them made anew if again.
Up(cs, again) ==
  /\ cont' = [c \in Apps |-> IF c \in cs /\ (again \/ Stale(c)) THEN "starting" ELSE cont[c]]
  /\ runs' = [c \in Apps |-> IF c \in cs /\ (again \/ Stale(c)) THEN disk ELSE runs[c]]

\* PostgreSQL makes the database on its first start.
PgUp == pg' = TRUE /\ data' = IF data = "none" THEN "void" ELSE data

\* Whoever is first migrates: an empty database into a blank install with the
\* pinned token, the dump into restored data.  Half a dump defeats it, and so does
\* none at all.
CanHeal(c) == cont[c] = "starting" /\ pg /\ data \notin {"gone", "part"}

Healthy(c) ==
  /\ CanHeal(c)
  /\ cont' = [cont EXCEPT ![c] = "healthy"]
  /\ data' = CASE data = "void" -> "app" [] data = "loaded" -> "restored" [] OTHER -> data
  /\ token' = (token \/ data = "void")
  /\ UNCHANGED <<want, disk, unit, pg, runs, dump, unminted, record, pc, upsets>>

\* restart: "no": a container that exits stays down.
Exit(c) ==
  /\ cont[c] # "off" /\ Upset
  /\ cont' = [cont EXCEPT ![c] = "off"]
  /\ UNCHANGED <<want, disk, unit, pg, runs, store, record, pc>>

PgExits ==
  /\ pg /\ Upset
  /\ pg' = FALSE
  /\ UNCHANGED <<want, disk, unit, cont, runs, store, record, pc>>

-----------------------------------------------------------------------------
(* How a session goes on and ends.                                          *)

\* apply() raises: the phase that runs is recorded failed (start has no record).
\* verify() is outside the try of run_phases.
Recorded ==
  /\ auth' = IF pc \in AuthPlaces \ {"verify"} THEN "failed" ELSE auth
  /\ rst' = IF pc \in RestorePlaces \ {"check"} THEN "failed" ELSE rst
  /\ flag' = IF pc = "halt" THEN "failed" ELSE flag

Fails == Recorded /\ pc' = "idle"

Lost == IF pc = "idle" THEN UNCHANGED <<record, pc>> ELSE Fails

\* What the database may hold when the call the session is in is cut short.
Left ==
  IF ~pg THEN {data}
  ELSE CASE pc = "drop" -> {data, "gone", "void"}
         [] pc = "load" -> {data, "part"} \cup (IF data = "void" THEN {"loaded"} ELSE {})
         [] OTHER -> {data}

\* Some of the file is on the node, some of the work is done; nothing is tidied up.
CutShort ==
  /\ dump' \in {dump, dump \/ pc = "upload"}
  /\ data' \in Left
  /\ token' = (token /\ data' = data)
  /\ UNCHANGED unminted

\* The node goes down and comes back; the unit runs `up -d`.  A session's connection
\* is gone with it, in the middle of whatever it was doing.
Reboot ==
  /\ Upset
  /\ IF disk = Absent
       THEN UNCHANGED <<node, store>>
       ELSE /\ Up(Apps, TRUE) /\ unit' = "started" /\ UNCHANGED disk
            /\ IF data = "none"
                 THEN PgUp /\ UNCHANGED <<token, dump, unminted>>
                 ELSE pg' = TRUE /\ CutShort
  /\ Lost
  /\ UNCHANGED want

\* The first phase that is not done, in the order of PIPELINE_SINGLE.
Enter(au, rs) ==
  pc' = IF au # "done" THEN "push" ELSE IF rs # "done" THEN "stop" ELSE "idle"

\* Mutant: --replay runs the phase without marking it.
Provision_Unmarked(named) ==
  /\ pc = "idle"
  /\ named # {} \/ auth # "done" \/ rst # "done"
  /\ pc' = IF auth # "done" \/ "authentik" \in named THEN "push" ELSE "stop"
  /\ UNCHANGED <<want, node, store, record, upsets>>

\* provision, after --replay has marked what it names pending.
Provision(named) ==
  /\ pc = "idle"
  /\ auth' = IF "authentik" \in named THEN "pending" ELSE auth
  /\ rst' = IF "restore" \in named THEN "pending" ELSE rst
  /\ auth' # "done" \/ rst' # "done"
  /\ Enter(auth', rst')
  /\ UNCHANGED <<want, node, store, flag, upsets>>

\* Not confirmed: the run stops, or goes on without the optional phase.
Decline ==
  /\ \/ pc = "push" /\ auth' = "declined" /\ UNCHANGED <<rst, flag>>
     \/ pc = "stop" /\ rst' = "skipped" /\ UNCHANGED <<auth, flag>>
     \/ pc = "halt" /\ flag' = "declined" /\ UNCHANGED <<auth, rst>>
  /\ pc' = "idle"
  /\ UNCHANGED <<want, node, store, upsets>>

Raise ==
  /\ pc # "idle" /\ Upset
  /\ Fails /\ CutShort
  /\ UNCHANGED <<want, node>>

\* Ctrl-C: nothing is recorded.
Kill ==
  /\ pc # "idle" /\ Upset
  /\ pc' = "idle" /\ CutShort
  /\ UNCHANGED <<want, node, record>>

\* Another tag or other settings, or another logo, in the site file.
Edit ==
  /\ pc = "idle" /\ Upset
  /\ \/ want' = [want EXCEPT !.tag = @ + 1]
     \/ want' = [want EXCEPT !.art = @ + 1]
  /\ UNCHANGED <<node, store, record, pc>>

Goto(place) == pc' = place /\ UNCHANGED record

-----------------------------------------------------------------------------
(* AuthentikSinglePhase.                                                    *)

\* Branding, .env, compose file, unit; enable.
Push ==
  /\ pc = "push"
  /\ disk' = want
  /\ Goto("restart")
  /\ UNCHANGED <<want, unit, pg, cont, runs, store, upsets>>

\* Mutant: `systemctl start`, which does nothing to a unit that is started.
Restart_Start ==
  /\ pc = "restart"
  /\ IF unit = "started" THEN UNCHANGED <<pg, data, cont, runs>> ELSE PgUp /\ Up(Apps, FALSE)
  /\ unit' = "started"
  /\ Goto("gate")
  /\ UNCHANGED <<want, disk, token, dump, unminted, upsets>>

\* `systemctl restart`: `down`, of a unit that is started, then `up -d`.
Restart ==
  /\ pc = "restart"
  /\ PgUp /\ Up(Apps, unit = "started")
  /\ unit' = "started"
  /\ Goto("gate")
  /\ UNCHANGED <<want, disk, token, dump, unminted, upsets>>

\* `up -d` gives up (an image, or PostgreSQL not healthy in time).
RestartFails ==
  /\ pc = "restart" /\ Upset
  /\ pg' \in BOOLEAN
  /\ data' = IF pg' /\ data = "none" THEN "void" ELSE data
  /\ cont' = IF unit = "started" THEN [c \in Apps |-> "off"] ELSE cont
  /\ unit' = "stopped"
  /\ Fails
  /\ UNCHANGED <<want, disk, runs, token, dump, unminted>>

AllHealthy == \A c \in Apps : cont[c] = "healthy"

\* Healthy in time: the brand is set (a warning at most) and the tag recorded.
Gate ==
  /\ pc = "gate" /\ AllHealthy
  /\ auth' = "applying" /\ pc' = "verify"
  /\ UNCHANGED <<want, node, store, rst, flag, upsets>>

\* What the gate of each place waits for; out of time is out of luck, unless it
\* could not have passed.
Awaited == IF pc = "workergate" THEN {"worker"} ELSE Apps

GateFails ==
  /\ pc \in {"gate", "workergate", "servergate", "upgate"}
  /\ \E c \in Awaited :
       /\ cont[c] # "healthy"
       /\ IF CanHeal(c) THEN Upset ELSE UNCHANGED upsets
  /\ Fails
  /\ UNCHANGED <<want, node, store>>

\* /-/health/ready/: the server, with a database it can use.
Ready == cont["server"] = "healthy" /\ pg /\ data \in {"app", "restored"}

\* Healthy, ready, and the API takes the token.
VerifyAuth ==
  /\ pc = "verify"
  /\ auth' = IF AllHealthy /\ Ready /\ token THEN "done" ELSE "failed"
  /\ IF auth' = "done" THEN Enter(auth', rst) ELSE pc' = "idle"
  /\ UNCHANGED <<want, node, store, rst, flag, upsets>>

-----------------------------------------------------------------------------
(* RestoreSinglePhase.                                                      *)

\* `docker compose stop server worker`.
Stop ==
  /\ pc = "stop"
  /\ cont' = [c \in Apps |-> "off"]
  /\ Goto("upload")
  /\ UNCHANGED <<want, disk, unit, pg, runs, store, upsets>>

Upload ==
  /\ pc = "upload"
  /\ dump' = TRUE
  /\ Goto("drop")
  /\ UNCHANGED <<want, node, data, token, unminted, upsets>>

\* The checksum does not match: the dump is removed.
UploadCorrupt ==
  /\ pc = "upload" /\ Upset
  /\ dump' = FALSE
  /\ Fails
  /\ UNCHANGED <<want, node, data, token, unminted>>

Drop ==
  /\ pc = "drop" /\ pg
  /\ data' = "void" /\ token' = FALSE
  /\ Goto("load")
  /\ UNCHANGED <<want, node, dump, unminted, upsets>>

\* docker exec into a container that has exited; or the DROP is refused, or the CREATE
\* that follows it is.
DropFails ==
  /\ pc = "drop"
  /\ IF pg THEN data' \in {data, "gone"} /\ Upset ELSE UNCHANGED <<data, upsets>>
  /\ token' = (token /\ data' = data)
  /\ Fails
  /\ UNCHANGED <<want, node, dump, unminted>>

\* psql under ON_ERROR_STOP; the dump is removed whatever came of it.
Load ==
  /\ pc = "load" /\ pg /\ data = "void"
  /\ data' = "loaded" /\ dump' = FALSE
  /\ Goto("worker")
  /\ UNCHANGED <<want, node, token, unminted, upsets>>

LoadFails ==
  /\ pc = "load"
  /\ IF pg /\ data = "void"
       THEN data' \in {data, "part"} /\ Upset
       ELSE UNCHANGED <<data, upsets>>
  /\ dump' = FALSE
  /\ Fails
  /\ UNCHANGED <<want, node, token, unminted>>

\* `up -d --no-deps worker`: not even PostgreSQL is started with it.
WorkerUp ==
  /\ pc = "worker"
  /\ Up({"worker"}, FALSE)
  /\ Goto("workergate")
  /\ UNCHANGED <<want, disk, unit, pg, store, upsets>>

WorkerGate ==
  /\ pc = "workergate" /\ cont["worker"] = "healthy"
  /\ Goto("server")
  /\ UNCHANGED <<want, node, store, upsets>>

ServerUp ==
  /\ pc = "server"
  /\ Up({"server"}, FALSE)
  /\ Goto("servergate")
  /\ UNCHANGED <<want, disk, unit, pg, store, upsets>>

ServerGate ==
  /\ pc = "servergate" /\ AllHealthy
  /\ Goto("mint")
  /\ UNCHANGED <<want, node, store, upsets>>

\* Mutant: the .env file is trusted to bring the token back.
Mint_Env ==
  /\ pc = "mint"
  /\ Goto("check")
  /\ UNCHANGED <<want, node, store, upsets>>

\* remint_bootstrap_token through the worker, if the token is dead; then the brand.
Mint ==
  /\ pc = "mint" /\ Ready /\ cont["worker"] = "healthy"
  /\ token' = TRUE /\ unminted' = FALSE
  /\ Goto("check")
  /\ UNCHANGED <<want, node, data, dump, upsets>>

\* `ak shell` fails: a warning.
MintFails ==
  /\ pc = "mint"
  /\ IF Ready /\ cont["worker"] = "healthy" THEN Upset ELSE UNCHANGED upsets
  /\ unminted' = ~token
  /\ Goto("check")
  /\ UNCHANGED <<want, node, data, token, dump>>

\* Tables, users, healthy, ready; the token is a warning.
VerifyRestore ==
  /\ pc = "check"
  /\ rst' = IF AllHealthy /\ Ready THEN "done" ELSE "failed"
  /\ pc' = "idle"
  /\ UNCHANGED <<want, node, store, auth, flag, upsets>>

-----------------------------------------------------------------------------
(* akro shutdown and akro start.                                            *)

BeginShutdown ==
  /\ pc = "idle" /\ disk # Absent
  /\ Goto("halt")
  /\ UNCHANGED <<want, node, store, upsets>>

\* `docker compose stop server worker`; a no-op where neither runs.
Halt ==
  /\ pc = "halt"
  /\ cont' = [c \in Apps |-> "off"]
  /\ Goto("halted")
  /\ UNCHANGED <<want, disk, unit, pg, runs, store, upsets>>

VerifyShutdown ==
  /\ pc = "halted"
  /\ flag' = IF \A c \in Apps : cont[c] = "off" THEN "done" ELSE "failed"
  /\ pc' = "idle"
  /\ UNCHANGED <<want, node, store, auth, rst, upsets>>

BeginStart ==
  /\ pc = "idle" /\ flag = "done"
  /\ Goto("up")
  /\ UNCHANGED <<want, node, store, upsets>>

\* `up -d server worker`, and PostgreSQL first, which they depend on.
StartUp ==
  /\ pc = "up"
  /\ PgUp /\ Up(Apps, FALSE)
  /\ Goto("upgate")
  /\ UNCHANGED <<want, disk, unit, token, dump, unminted, upsets>>

StartGate ==
  /\ pc = "upgate" /\ AllHealthy
  /\ Goto("clear")
  /\ UNCHANGED <<want, node, store, upsets>>

ClearFlag ==
  /\ pc = "clear"
  /\ flag' = "started" /\ pc' = "idle"
  /\ UNCHANGED <<want, node, store, auth, rst, upsets>>

-----------------------------------------------------------------------------

AuthStep == Push \/ Restart \/ RestartFails \/ Gate \/ VerifyAuth
RestoreStep ==
  \/ Stop \/ Upload \/ UploadCorrupt \/ Drop \/ DropFails \/ Load \/ LoadFails
  \/ WorkerUp \/ WorkerGate \/ ServerUp \/ ServerGate \/ Mint \/ MintFails \/ VerifyRestore
LifecycleStep ==
  BeginShutdown \/ Halt \/ VerifyShutdown \/ BeginStart \/ StartUp \/ StartGate \/ ClearFlag
NodeStep == Reboot \/ PgExits \/ \E c \in Apps : Healthy(c) \/ Exit(c)

Next ==
  \/ \E named \in SUBSET {"authentik", "restore"} : Provision(named)
  \/ AuthStep \/ RestoreStep \/ LifecycleStep \/ GateFails
  \/ Decline \/ Raise \/ Kill \/ Edit \/ NodeStep

Spec == Init /\ [][Next]_vars

\* Calls end; a container that can become healthy does, in time once it is tried again
\* and again; the operator runs provision until both phases are done, and says yes.
Fairness ==
  /\ WF_vars(AuthStep) /\ WF_vars(RestoreStep) /\ WF_vars(GateFails)
  /\ WF_vars(Halt \/ VerifyShutdown \/ StartUp \/ StartGate \/ ClearFlag)
  /\ \A c \in Apps : WF_vars(Healthy(c))
  /\ SF_vars(Provision({})) /\ SF_vars(Push) /\ SF_vars(Stop)

FairSpec == Spec /\ Fairness

-----------------------------------------------------------------------------

NodeType ==
  /\ disk \in Configs
  /\ unit \in {"stopped", "started"} /\ pg \in BOOLEAN
  /\ cont \in [Apps -> {"off", "starting", "healthy"}]
  /\ runs \in [Apps -> Configs]

StoreType ==
  data \in Databases /\ token \in BOOLEAN /\ dump \in BOOLEAN /\ unminted \in BOOLEAN

RecordType ==
  /\ auth \in {"pending", "applying", "done", "failed", "declined"}
  /\ rst \in {"pending", "done", "failed", "skipped"}
  /\ flag \in {"pending", "done", "failed", "declined", "started"}

TypeOK ==
  /\ want \in Configs /\ upsets \in 0..MaxUpsets
  /\ NodeType /\ StoreType /\ RecordType
  /\ pc \in Places

\* restore_single_phase.py:175-235: no container of authentik runs while the database
\* is swapped, and until the dump is migrated the restore itself runs the worker only.
SwapIsQuiet ==
  /\ pc \in {"upload", "drop", "load", "worker"} => \A c \in Apps : cont[c] = "off"
  /\ pc \in {"workergate", "server"} => cont["server"] = "off"

\* A restore is recorded done only on the dump, loaded in full and migrated; nothing
\* but another restore takes that away.
DoneIsRestored == rst = "done" => data = "restored"

\* authentik_single_phase.py:300-305: a container that runs on a site whose authentik
\* phase is done was made from the configuration that phase has pushed.
DoneIsCurrent ==
  auth = "done" => \A c \in Apps : cont[c] # "off" => runs[c].tag = disk.tag

\* restore_single_phase.py:271-293: after a completed restore the pinned token works,
\* unless re-minting it failed.
DoneHasToken == rst = "done" => token \/ unminted

\* As long as PostgreSQL runs and the pinned token works again and again, running
\* provision until it is done brings the site up, whatever went wrong before
\* (README.md:237: "a re-run ... resumes at the frontier").
Converges ==
  []<>pg /\ []<>token => []<>(auth = "done" /\ rst = "done")

\* authentik_single_phase.py:104-106: "No "changed" tracking needed: apply always does
\* a full `systemctl restart`, which recreates the containers."
DoneHasBranding ==
  auth = "done" => \A c \in Apps : cont[c] # "off" => runs[c].art = disk.art

Swapping == pc \in {"upload", "drop", "load", "worker"}
InUse == \E c \in Apps : cont[c] # "off"

\* restore_single_phase.py:175-235: the phase is one swap of the database, made while
\* neither container runs, and done only over the restored site; no other command,
\* reboot, container that exits or cut takes anything from the database.
Restore == INSTANCE RestoredDatabase WITH
  swapping <- Swapping, users <- InUse, done <- (rst = "done")
ImplementsRestore == Restore!Spec

Under ==
  IF pc \in AuthPlaces THEN {"authentik"} ELSE IF pc \in RestorePlaces THEN {"restore"} ELSE {}

\* base.py:134-185: the two phases come under way and are recorded as the runner does it,
\* whatever is declined, raises, is cut or reboots; `akro shutdown` and `akro start`
\* leave their entries alone.
Contract == INSTANCE Pipeline WITH
  Listed <- {"authentik", "restore"},
  Before <- [p \in {"authentik", "restore"} |-> IF p = "restore" THEN {"authentik"} ELSE {}],
  Skippable <- {"restore"}, Aside <- {},
  entry <- [p \in {"authentik", "restore"} |-> IF p = "authentik" THEN auth ELSE rst],
  under <- Under
ImplementsPipeline == Contract!Spec
=============================================================================
