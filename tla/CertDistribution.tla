--------------------------- MODULE CertDistribution ---------------------------
(***************************************************************************)
(* The certificate of an HA site: the tls phase (phases/tls_phase.py), the  *)
(* part of the nginx-keepalived phase that serves it and finalizes ACME     *)
(* (phases/nginx_keepalived_phase.py), and the deploy hook, which the       *)
(* finalization runs once and certbot's timer runs on every renewal, with   *)
(* no operator and no lock between it and a session.                        *)
(*                                                                          *)
(* A certificate stands for its key as well: two files are a pair when they *)
(* hold the same one.  All of them are for the configured hostname.  The    *)
(* config does not change under a session: an edit counts from the next.    *)
(***************************************************************************)
EXTENDS Naturals

CONSTANTS
  N, Leader,    \* nodes in fleet order, and the one that holds certbot
  MaxIssues,    \* bound on certificates generated, imported or issued
  MaxEdits,     \* bound on edits of tls.provider and tls.acme.staging
  MaxBreaks     \* bound on sessions cut short and hook runs that fail

Node == 1..N

ASSUME CertAssumption ==
  /\ N \in Nat \ {0} /\ Leader \in Node
  /\ MaxIssues \in Nat /\ MaxEdits \in Nat /\ MaxBreaks \in Nat

VARIABLES
  chain, key,   \* fullchain.pem and privkey.pem on every node
  serving,      \* what the node's nginx has loaded; Nothing: it does not run
  up,           \* nodes with an nginx container
  live,         \* certbot's lineage on the leader
  hooked,       \* the deploy hook is installed
  tls, ng,      \* the records of the two phases
  pending,      \* tls_acme_pending
  want,         \* what the site config asks for
  pc, k,        \* the session: stage, and position in the fleet
  buf,          \* the chain and the key it is distributing
  changed,      \* nodes whose files it changed
  hook, hk,     \* the deploy hook: stage and node
  result,       \* how it ended last
  issued, old,  \* certificates made so far, and those near their expiry
  edits, breaks,
  crossed,      \* a hook has written since the session began
  unread        \* nodes where a reload failed, or was never tried

files == <<chain, key>>
nginx == <<serving, up>>
certbot == <<live, hooked, issued>>
record == <<tls, ng, pending>>
session == <<pc, k, buf, changed>>
deploy == <<hook, hk, result>>
world == <<want, old, edits>>
vars == <<files, nginx, certbot, record, session, deploy, world, breaks, crossed, unread>>

Providers == {"self", "staging", "production", "import"}

Nothing == [kind |-> "none", no |-> 0]

Cert == [kind : Providers, no : 1..MaxIssues]

Held == Cert \union {Nothing}

Acme(provider) == provider \in {"staging", "production"}

TlsStages == {"make", "readchain", "readkey", "push", "pushkey", "reload", "verify"}

NginxStages == {"nginx", "gate", "issue", "hook", "wait", "check"}

FilesType ==
  /\ chain \in [Node -> Held] /\ key \in [Node -> Held]
  /\ serving \in [Node -> Held] /\ up \subseteq Node
  /\ live \in Held /\ hooked \in BOOLEAN

SessionType ==
  /\ tls \in {"pending", "done", "failed"} /\ ng \in {"pending", "done", "failed"}
  /\ pending \in BOOLEAN
  /\ pc \in {"idle"} \union TlsStages \union NginxStages /\ k \in 1..(N + 1)
  /\ buf \in [chain : Held, key : Held]
  /\ changed \subseteq Node

HookType ==
  /\ hook \in {"idle", "chain", "key", "reload", "copy"} /\ hk \in Node
  /\ result \in {"none", "ok", "failed"}

BoundsType ==
  /\ want \in Providers
  /\ issued \in 0..MaxIssues /\ old \in 0..MaxIssues
  /\ edits \in 0..MaxEdits /\ breaks \in 0..MaxBreaks
  /\ crossed \in BOOLEAN /\ unread \subseteq Node

TypeOK == FilesType /\ SessionType /\ HookType /\ BoundsType

Empty == [chain |-> Nothing, key |-> Nothing]

\* The site has been provisioned up to the tls phase.
Init ==
  /\ chain = [n \in Node |-> Nothing] /\ key = [n \in Node |-> Nothing]
  /\ serving = [n \in Node |-> Nothing] /\ up = {}
  /\ live = Nothing /\ hooked = FALSE
  /\ tls = "pending" /\ ng = "pending" /\ pending = FALSE
  /\ want \in Providers
  /\ pc = "idle" /\ k = 1 /\ buf = Empty /\ changed = {}
  /\ hook = "idle" /\ hk = Leader /\ result = "none"
  /\ issued = 0 /\ old = 0 /\ edits = 0 /\ breaks = 0
  /\ crossed = FALSE /\ unread = {}

-----------------------------------------------------------------------------
(* nginx, the calendar, the operator.                                      *)

\* What nginx makes of the files on n: it refuses two that are not a pair.
Loaded(n) == IF chain[n] = key[n] THEN chain[n] ELSE Nothing

\* restart: unless-stopped -- after a reboot, or in a crash loop.
NginxRestarts(n) ==
  /\ n \in up
  /\ serving' = [serving EXCEPT ![n] = Loaded(n)]
  /\ unread' = unread \ {n}
  /\ UNCHANGED <<files, up, certbot, record, session, deploy, world, breaks, crossed>>

\* Two months on: certbot renews, and `-checkend 2592000` fails.
NearExpiry(c) == c.kind # "self" /\ c.no <= old

TimePasses ==
  /\ pc = "idle" /\ hook = "idle" /\ old # issued
  /\ old' = issued
  /\ UNCHANGED <<files, nginx, certbot, record, session, deploy, want, edits, breaks, crossed, unread>>

EditConfig ==
  /\ pc = "idle" /\ edits < MaxEdits /\ edits' = edits + 1
  /\ want' \in Providers \ {want}
  /\ UNCHANGED <<files, nginx, certbot, record, session, deploy, old, breaks, crossed, unread>>

\* `akro provision`, with --replay for either phase; what is done is skipped.
Provision(replay) ==
  /\ pc = "idle"
  /\ tls' = IF "tls" \in replay THEN "pending" ELSE tls
  /\ ng' = IF "nginx-keepalived" \in replay THEN "pending" ELSE ng
  /\ \/ tls' # "done" /\ pc' = "make"
     \/ tls' = "done" /\ ng' # "done" /\ pc' = "nginx"
  /\ crossed' = FALSE
  /\ UNCHANGED <<files, nginx, certbot, pending, k, buf, changed, deploy, world, breaks, unread>>

End == pc' = "idle" /\ k' = 1 /\ buf' = Empty /\ changed' = {}

\* Nodes whose new files the session has not told nginx about.
Owed ==
  {n \in changed : pc \in {"readchain", "readkey", "push", "pushkey"} \/ (pc = "reload" /\ n >= k)}

\* SSH lost, a command that fails and raises, or Ctrl-C: recorded or not.  The
\* hook goes on without the session that started it.
Break ==
  /\ pc # "idle" /\ breaks < MaxBreaks /\ breaks' = breaks + 1
  /\ tls' \in IF pc \in TlsStages \ {"verify"} THEN {tls, "failed"} ELSE {tls}
  /\ ng' \in IF pc \in NginxStages \ {"check"} THEN {ng, "failed"} ELSE {ng}
  /\ unread' = unread \union Owed
  /\ End
  /\ UNCHANGED <<files, nginx, certbot, pending, deploy, world, crossed>>

-----------------------------------------------------------------------------
(* The tls phase.                                                          *)

Stage(s) == pc' = s /\ k' = 1

\* A certificate for the hostname with more than thirty days to go is kept,
\* whoever issued it; that its key belongs to it is not looked at here.
Kept == chain[Leader] # Nothing /\ key[Leader] # Nothing /\ ~NearExpiry(chain[Leader])

Keep ==
  /\ pc = "make" /\ want # "import" /\ Kept
  /\ Stage("readchain")
  /\ UNCHANGED <<files, nginx, certbot, record, buf, changed, deploy, world, breaks, crossed, unread>>

\* Mutant: a new pair on the leader is no reason to reload it.
Generate_Unreported ==
  /\ pc = "make" /\ want # "import" /\ ~Kept
  /\ issued < MaxIssues /\ issued' = issued + 1
  /\ LET c == [kind |-> "self", no |-> issued + 1] IN
       /\ chain' = [chain EXCEPT ![Leader] = c]
       /\ key' = [key EXCEPT ![Leader] = c]
  /\ Stage("readchain")
  /\ UNCHANGED <<nginx, live, hooked, record, buf, changed, deploy, world, breaks, crossed, unread>>

Generate ==
  /\ pc = "make" /\ want # "import" /\ ~Kept
  /\ issued < MaxIssues /\ issued' = issued + 1
  /\ LET c == [kind |-> "self", no |-> issued + 1] IN
       /\ chain' = [chain EXCEPT ![Leader] = c]
       /\ key' = [key EXCEPT ![Leader] = c]
  /\ changed' = {Leader}
  /\ Stage("readchain")
  /\ UNCHANGED <<nginx, live, hooked, record, buf, deploy, world, breaks, crossed, unread>>

ReadChain ==
  /\ pc = "readchain"
  /\ buf' = [buf EXCEPT !.chain = chain[Leader]]
  /\ Stage("readkey")
  /\ UNCHANGED <<files, nginx, certbot, record, changed, deploy, world, breaks, crossed, unread>>

ReadKey ==
  /\ pc = "readkey"
  /\ buf' = [buf EXCEPT !.key = key[Leader]]
  /\ Stage("push")
  /\ UNCHANGED <<files, nginx, certbot, record, changed, deploy, world, breaks, crossed, unread>>

\* The pair comes from the workstation and is checked there: a new one, or the
\* one imported before.
ReadImport ==
  /\ pc = "make" /\ want = "import"
  /\ \E c \in {chain[n] : n \in Node} \union
              (IF issued < MaxIssues THEN {[kind |-> "import", no |-> issued + 1]} ELSE {}) :
       /\ c.kind = "import"
       /\ buf' = [chain |-> c, key |-> c]
       /\ issued' = IF c.no > issued THEN c.no ELSE issued
  /\ Stage("push")
  /\ UNCHANGED <<files, nginx, live, hooked, record, changed, deploy, world, breaks, crossed, unread>>

\* Mutant: an imported pair, too, is pushed to the others only.
Targets_Others == Node \ {Leader}

\* The leader has its own pair, unless it is imported.
Targets == IF want = "import" THEN Node ELSE Node \ {Leader}

NextNode == IF k = N THEN Stage("reload") ELSE pc' = "push" /\ k' = k + 1

SkipLeader ==
  /\ pc = "push" /\ k \in Node \ Targets
  /\ NextNode
  /\ UNCHANGED <<files, nginx, certbot, record, buf, changed, deploy, world, breaks, crossed, unread>>

PushChain ==
  /\ pc = "push" /\ k \in Targets
  /\ chain' = [chain EXCEPT ![k] = buf.chain]
  /\ changed' = IF chain[k] = buf.chain THEN changed ELSE changed \union {k}
  /\ pc' = "pushkey"
  /\ UNCHANGED <<key, nginx, certbot, record, k, buf, deploy, world, breaks, crossed, unread>>

PushKey ==
  /\ pc = "pushkey"
  /\ key' = [key EXCEPT ![k] = buf.key]
  /\ changed' = IF key[k] = buf.key THEN changed ELSE changed \union {k}
  /\ NextNode
  /\ UNCHANGED <<chain, nginx, certbot, record, buf, deploy, world, breaks, crossed, unread>>

\* Only where files changed and nginx runs; that it failed is only recorded.
Reload ==
  /\ pc = "reload" /\ k \in Node
  /\ \E new \in {serving[k], Loaded(k)} \ {Nothing} :
       /\ k \in changed /\ serving[k] # Nothing
       /\ serving' = [serving EXCEPT ![k] = new]
       /\ unread' = IF new = Loaded(k) THEN unread \ {k} ELSE unread \union {k}
  /\ k' = k + 1
  /\ UNCHANGED <<files, up, certbot, record, pc, buf, changed, deploy, world, breaks, crossed>>

SkipReload ==
  /\ pc = "reload" /\ k \in Node
  /\ k \notin changed \/ serving[k] = Nothing
  /\ k' = k + 1
  /\ UNCHANGED <<files, nginx, certbot, record, pc, buf, changed, deploy, world, breaks, crossed, unread>>

\* certbot and the webroot on the leader, the pending flag, tls_mode.
StageAcme ==
  /\ pc = "reload" /\ k = N + 1
  /\ pending' = (pending \/ Acme(want))
  /\ Stage("verify")
  /\ UNCHANGED <<files, nginx, certbot, tls, ng, buf, changed, deploy, world, breaks, crossed, unread>>

VerifyTls ==
  /\ pc = "verify"
  /\ IF \A n \in Node : Loaded(n) # Nothing
       THEN /\ tls' = "done"
            /\ IF ng = "done" THEN End ELSE Stage("nginx") /\ buf' = Empty /\ changed' = {}
       ELSE tls' = "failed" /\ End
  /\ UNCHANGED <<files, nginx, certbot, ng, pending, deploy, world, breaks, crossed, unread>>

-----------------------------------------------------------------------------
(* The nginx-keepalived phase.                                             *)

\* down && up where nginx does not run or its conf or compose file changed.
NginxUp ==
  /\ pc = "nginx"
  /\ \/ /\ \E new \in {Loaded(k), Nothing} : serving' = [serving EXCEPT ![k] = new]
        /\ up' = up \union {k} /\ unread' = unread \ {k}
     \/ serving[k] # Nothing /\ UNCHANGED <<nginx, unread>>
  /\ IF k = N THEN Stage("gate") ELSE k' = k + 1 /\ UNCHANGED pc
  /\ UNCHANGED <<files, certbot, record, buf, changed, deploy, world, breaks, crossed>>

Failed == ng' = "failed" /\ End

\* Node after node, each answers for itself; one that did may be down again
\* when the last is asked.
GatePasses ==
  /\ pc = "gate" /\ k \in Node /\ serving[k] # Nothing
  /\ k' = k + 1
  /\ UNCHANGED <<files, nginx, certbot, record, pc, buf, changed, deploy, world, breaks, crossed, unread>>

\* keepalived is up on all of them, and the VIP answers.
VipAnswers ==
  /\ pc = "gate" /\ k = N + 1
  /\ Stage(IF pending /\ Acme(want) THEN "issue" ELSE "check")
  /\ UNCHANGED <<files, nginx, certbot, record, buf, changed, deploy, world, breaks, crossed, unread>>

GateFails ==
  /\ pc = "gate"
  /\ Failed
  /\ UNCHANGED <<files, nginx, certbot, tls, pending, deploy, world, breaks, crossed, unread>>

\* Mutant: whatever lineage is there is kept.
KeepLineage_Unforced ==
  /\ pc = "issue" /\ hook = "idle"
  /\ live # Nothing /\ ~NearExpiry(live)
  /\ Stage("hook")
  /\ UNCHANGED <<files, nginx, certbot, record, buf, changed, deploy, world, breaks, crossed, unread>>

\* certbot keeps a lineage of the environment asked for that is not due.
KeepLineage ==
  /\ pc = "issue" /\ hook = "idle"
  /\ live # Nothing /\ live.kind = want /\ ~NearExpiry(live)
  /\ Stage("hook")
  /\ UNCHANGED <<files, nginx, certbot, record, buf, changed, deploy, world, breaks, crossed, unread>>

\* It issues when there is none, when it is due, and when the run forces it:
\* staging against production, or force_renewal in the config.  A renewal
\* that is still running its hook holds certbot's lock.
Issue ==
  /\ pc = "issue" /\ hook = "idle"
  /\ issued < MaxIssues /\ issued' = issued + 1
  /\ live' = [kind |-> want, no |-> issued + 1]
  /\ Stage("hook")
  /\ UNCHANGED <<files, nginx, hooked, record, buf, changed, deploy, world, breaks, crossed, unread>>

\* The CA, DNS, the lock; or the address is not on the leader, whose webroot
\* holds the challenge.
IssueFails ==
  /\ pc = "issue"
  /\ Failed
  /\ UNCHANGED <<files, nginx, certbot, tls, pending, deploy, world, breaks, crossed, unread>>

\* The hook is pushed, checked and run once by hand.  A run that an earlier
\* session left behind has ended by then.
RunHook ==
  /\ pc = "hook" /\ hook = "idle"
  /\ hooked' = TRUE /\ hook' = "chain" /\ hk' = Leader /\ result' = "none"
  /\ Stage("wait")
  /\ UNCHANGED <<files, nginx, live, issued, record, buf, changed, world, breaks, crossed, unread>>

Unpend ==
  /\ pc = "wait" /\ hook = "idle" /\ result = "ok"
  /\ pending' = FALSE
  /\ Stage("check")
  /\ UNCHANGED <<files, nginx, certbot, tls, ng, buf, changed, deploy, world, breaks, crossed, unread>>

HookFailed ==
  /\ pc = "wait" /\ hook = "idle" /\ result = "failed"
  /\ Failed
  /\ UNCHANGED <<files, nginx, certbot, tls, pending, deploy, world, breaks, crossed, unread>>

\* Identity and stub_status, node after node.
CheckNode ==
  /\ pc = "check" /\ k \in Node /\ serving[k] # Nothing
  /\ k' = k + 1
  /\ UNCHANGED <<files, nginx, certbot, record, pc, buf, changed, deploy, world, breaks, crossed, unread>>

\* A node that does not answer decides it, what is asked after it is only
\* shown; else one node holds the VIP and it answers, or not.
VerifyNginx ==
  /\ pc = "check"
  /\ \/ k \in Node /\ serving[k] = Nothing /\ ng' = "failed"
     \/ k = N + 1 /\ ng' \in {"done", "failed"}
  /\ End
  /\ UNCHANGED <<files, nginx, certbot, tls, pending, deploy, world, breaks, crossed, unread>>

-----------------------------------------------------------------------------
(* The deploy hook: the leader first, then the others; set -e.             *)

\* certbot's timer.  The lineage keeps the environment it was issued by.
Renew ==
  /\ hook = "idle" /\ live # Nothing /\ NearExpiry(live)
  /\ issued < MaxIssues /\ issued' = issued + 1
  /\ live' = [live EXCEPT !.no = issued + 1]
  /\ IF hooked THEN hook' = "chain" /\ hk' = Leader /\ result' = "none" ELSE UNCHANGED deploy
  /\ UNCHANGED <<files, nginx, hooked, record, session, world, breaks, crossed, unread>>

HookChain ==
  /\ hook = "chain"
  /\ chain' = [chain EXCEPT ![Leader] = live]
  /\ hook' = "key" /\ crossed' = TRUE
  /\ UNCHANGED <<key, nginx, certbot, record, session, hk, result, world, breaks, unread>>

HookKey ==
  /\ hook = "key"
  /\ key' = [key EXCEPT ![Leader] = live]
  /\ hook' = "reload" /\ crossed' = TRUE
  /\ UNCHANGED <<chain, nginx, certbot, record, session, hk, result, world, breaks, unread>>

\* The node after n: the others in fleet order, after the leader; 0 at the end.
After(n) ==
  LET m == IF n = Leader THEN 1 ELSE n + 1
      o == IF m = Leader THEN m + 1 ELSE m
  IN  IF o > N THEN 0 ELSE o

HookReload ==
  /\ hook = "reload" /\ serving[hk] # Nothing /\ Loaded(hk) # Nothing
  /\ serving' = [serving EXCEPT ![hk] = Loaded(hk)]
  /\ unread' = unread \ {hk}
  /\ IF After(hk) = 0
       THEN hook' = "idle" /\ result' = "ok" /\ UNCHANGED hk
       ELSE hook' = "copy" /\ hk' = After(hk) /\ UNCHANGED result
  /\ UNCHANGED <<files, up, certbot, record, session, world, breaks, crossed>>

HookCopy ==
  /\ hook = "copy"
  /\ chain' = [chain EXCEPT ![hk] = chain[Leader]]
  /\ key' = [key EXCEPT ![hk] = key[Leader]]
  /\ hook' = "reload" /\ crossed' = TRUE
  /\ UNCHANGED <<nginx, certbot, record, session, hk, result, world, breaks, unread>>

HookStops ==
  /\ hook' = "idle" /\ result' = "failed" /\ UNCHANGED hk
  /\ unread' = IF hook = "chain" THEN unread ELSE unread \union {hk}

HookRefused ==
  /\ hook = "reload" /\ (serving[hk] = Nothing \/ Loaded(hk) = Nothing)
  /\ HookStops
  /\ UNCHANGED <<files, nginx, certbot, record, session, world, breaks, crossed>>

\* The node goes down, the disk is full, scp is cut after the first file.
HookBreaks ==
  /\ hook # "idle" /\ breaks < MaxBreaks /\ breaks' = breaks + 1
  /\ HookStops
  /\ \/ UNCHANGED <<chain, crossed>>
     \/ hook = "copy" /\ chain' = [chain EXCEPT ![hk] = chain[Leader]] /\ crossed' = TRUE
  /\ UNCHANGED <<key, nginx, certbot, record, session, world>>

Next ==
  \/ \E n \in Node : NginxRestarts(n)
  \/ TimePasses \/ EditConfig \/ Break
  \/ \E replay \in SUBSET {"tls", "nginx-keepalived"} : Provision(replay)
  \/ Keep \/ Generate \/ ReadChain \/ ReadKey \/ ReadImport
  \/ SkipLeader \/ PushChain \/ PushKey \/ Reload \/ SkipReload \/ StageAcme \/ VerifyTls
  \/ NginxUp \/ GatePasses \/ VipAnswers \/ GateFails \/ KeepLineage \/ Issue \/ IssueFails
  \/ RunHook \/ Unpend \/ HookFailed \/ CheckNode \/ VerifyNginx
  \/ Renew \/ HookChain \/ HookKey \/ HookReload \/ HookCopy \/ HookRefused \/ HookBreaks

Spec == Init /\ [][Next]_vars

-----------------------------------------------------------------------------

\* Finalizing ACME gives up the pending mark, and with it the only thing that
\* makes a later run finish the swap, when every node has and serves the pair
\* certbot holds, issued by the environment the config asks for.
FinalizedIsServed ==
  [][pending /\ ~pending' =>
       /\ live.kind = want
       /\ \A n \in Node : chain[n] = live /\ key[n] = live /\ serving[n] = live]_vars

\* A tls phase that no renewal crossed is recorded done only when every node
\* has the leader's pair, whatever broke off before it.
DoneIsDistributed ==
  [][tls # "done" /\ tls' = "done" /\ ~crossed =>
       \A n \in Node : chain[n] = chain[Leader] /\ key[n] = chain[Leader]]_vars

\* "Actually takes effect instead of sitting unread on the bind-mounted volume"
\* (tls_phase.py:113-114): with nobody at work a running nginx serves what is
\* installed under it, unless its reload failed or was cut off.
ServedIsInstalled ==
  (pc = "idle" /\ hook = "idle") =>
    \A n \in Node : serving[n] \in {Nothing, Loaded(n)} \/ n \in unread

\* "Flip to `false` and `--replay nginx-keepalived` for the real one"
\* (README.md:370): after that replay no node serves the staging certificate.
FlipTakesEffect ==
  [][ng # "done" /\ ng' = "done" /\ want = "production" =>
       \A n \in Node : serving[n].kind # "staging"]_vars

Under ==
  IF pc \in TlsStages THEN {"tls"} ELSE IF pc \in NginxStages THEN {"nginx-keepalived"} ELSE {}

\* base.py:134-185: the two phases come under way and are recorded as the runner does it,
\* whatever breaks off; certbot's timer and its hook leave their entries alone.
Contract == INSTANCE Pipeline WITH
  Listed <- {"tls", "nginx-keepalived"},
  Before <- [p \in {"tls", "nginx-keepalived"} |-> IF p = "tls" THEN {} ELSE {"tls"}],
  Skippable <- {}, Aside <- {},
  entry <- [p \in {"tls", "nginx-keepalived"} |-> IF p = "tls" THEN tls ELSE ng],
  under <- Under
ImplementsPipeline == Contract!Spec
=============================================================================
