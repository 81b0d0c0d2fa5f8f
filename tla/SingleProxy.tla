---------------------------- MODULE SingleProxy ----------------------------
(***************************************************************************)
(* The nginx phase of a single node (phases/nginx_single_phase.py): one      *)
(* pair of files, a site file, a proxy that reads them when it starts or is  *)
(* told to, certbot's lineage, and the deploy hook, which the session runs   *)
(* once and certbot's timer at every renewal.                                *)
(***************************************************************************)
EXTENDS Naturals

CONSTANTS
  Providers,   \* the values of tls.provider the operator may configure; acme is two
  Pairs,       \* identities of a key and what is certified with it
  Imported,    \* the pairs the operator may have on the workstation
  NoPair,
  MaxTroubles  \* bound: cut sessions, reboots, failed commands, seasons that pass

ASSUME ProxyAssumption ==
  /\ Providers \subseteq {"none", "self", "staging", "production", "import"}
  /\ Imported \subseteq Pairs /\ NoPair \notin Pairs
  /\ Imported # {} \/ "import" \notin Providers
  /\ \A a, b, c, d, e \in Pairs \cup {NoPair} : \E p \in Pairs \ Imported : p \notin {a, b, c, d, e}
  /\ MaxTroubles \in Nat

VARIABLES
  provider,    \* what the site file says in the latest session
  phase,       \* "nginx" in the state file
  at,          \* where the session is
  dirty,       \* conf_changed or cert_changed, in its memory
  hold,        \* the pair it is writing
  chain, key,  \* fullchain.pem and privkey.pem
  site,        \* SITE_CONF, the site file of nginx
  conf,        \* the one that is enabled: nginx's default site until ours is linked
  served,      \* what nginx runs on: conf and certificate
  lineage,     \* /etc/letsencrypt/live
  hookfile,    \* the deploy hook is installed
  hook,        \* where a run of it is
  old,         \* pairs with no more than 30 days left
  owing,       \* history: what nginx reads was changed, the reload failed or was not asked for
  missed,      \* history: the latest run of the hook has left a file as it was
  troubles

session == <<provider, phase, at, dirty, hold>>
siteFile == <<site, conf>>
files == <<chain, key, siteFile>>
certbot == <<lineage, hookfile, old>>
history == <<owing, missed>>
proxyVars == <<session, files, served, certbot, hook, history, troubles>>

NoCert == [kind |-> "none", pair |-> NoPair]
Kinds == {"self", "staging", "production", "import"}
Certs == {NoCert} \cup [kind : Kinds, pair : Pairs]

TlsEnabled == provider # "none"
Acme == provider \in {"staging", "production"}
WantedConf == IF TlsEnabled THEN "tls" ELSE "plain"

Matched == key # NoPair /\ chain.pair = key
Running == served.conf \notin {"absent", "stopped"}

\* What nginx would read, and whether it would take it.
OnDisk == [conf |-> conf, cert |-> IF conf = "tls" THEN chain ELSE NoCert]
Loadable == conf = "tls" => Matched

Fresh ==
  CHOOSE p \in Pairs \ Imported : p \notin {chain.pair, key, lineage.pair, served.cert.pair, hold}
----------------------------------------------------------------------------
ProxyInit ==
  /\ provider \in Providers /\ phase = "pending"
  /\ at = "idle" /\ dirty = FALSE /\ hold = NoPair
  /\ chain = NoCert /\ key = NoPair /\ site = "absent" /\ conf = "default"
  /\ served = [conf |-> "absent", cert |-> NoCert]
  /\ lineage = NoCert /\ hookfile = FALSE /\ old = {}
  /\ hook = "idle"
  /\ owing = FALSE /\ missed = FALSE /\ troubles = 0

Trouble == troubles < MaxTroubles /\ troubles' = troubles + 1

Goes(place) == at' = place /\ UNCHANGED <<provider, phase>>

\* The session ends without the phase being done; what it had yet to tell nginx is forgotten.
Leaves(status) ==
  /\ at' = "idle" /\ phase' = status
  /\ owing' = (owing \/ dirty) /\ dirty' = FALSE /\ hold' = NoPair
  /\ UNCHANGED provider

\* provision, under the site file of that moment; --replay when the phase is done.
BeginProxy(p) ==
  /\ at = "idle"
  /\ provider' = p /\ phase' = "pending"
  /\ at' = IF p = "none" THEN "install" ELSE "cert"
  /\ UNCHANGED <<dirty, hold, files, served, certbot, hook, history, troubles>>
----------------------------------------------------------------------------
(* The pair.                                                                *)

\* Both files there, the name in the certificate, 30 days left: the key is not compared.
Keepable == chain # NoCert /\ key # NoPair /\ chain.pair \notin old

KeepCert ==
  /\ at = "cert" /\ provider # "import" /\ Keepable
  /\ Goes("install")
  /\ UNCHANGED <<dirty, hold, files, served, certbot, hook, history, troubles>>

\* Mutant: whatever is there is replaced.
MakeKey_Always ==
  /\ at = "cert" /\ provider # "import"
  /\ key' = Fresh /\ hold' = Fresh /\ dirty' = TRUE
  /\ Goes("chain")
  /\ UNCHANGED <<chain, siteFile, served, certbot, hook, history, troubles>>

\* openssl writes the key, then the certificate over it.
MakeKey ==
  /\ at = "cert" /\ provider # "import" /\ ~Keepable
  /\ key' = Fresh /\ hold' = Fresh /\ dirty' = TRUE
  /\ Goes("chain")
  /\ UNCHANGED <<chain, siteFile, served, certbot, hook, history, troubles>>

MakeChain ==
  /\ at = "chain"
  /\ chain' = [kind |-> "self", pair |-> hold] /\ hold' = NoPair
  /\ Goes("install")
  /\ UNCHANGED <<dirty, key, siteFile, served, certbot, hook, history, troubles>>

\* A pair that matches, covers the name and has not expired; any other raises.
ImportChain ==
  /\ at = "cert" /\ provider = "import"
  /\ \E p \in Imported :
       /\ chain' = [kind |-> "import", pair |-> p] /\ hold' = p
       /\ dirty' = (chain # chain')
  /\ Goes("key")
  /\ UNCHANGED <<key, siteFile, served, certbot, hook, history, troubles>>

ImportKey ==
  /\ at = "key"
  /\ key' = hold /\ hold' = NoPair
  /\ dirty' = (dirty \/ key # hold)
  /\ Goes("install")
  /\ UNCHANGED <<chain, siteFile, served, certbot, hook, history, troubles>>
----------------------------------------------------------------------------
(* nginx.                                                                   *)

\* apt starts what it installs, on the default site.
InstallNginx ==
  /\ at = "install"
  /\ served' = IF served.conf = "absent" THEN OnDisk ELSE served
  /\ Goes("conf")
  /\ UNCHANGED <<dirty, hold, files, certbot, hook, history, troubles>>

WriteSite == site' = WantedConf /\ conf' = IF conf = "default" THEN conf ELSE WantedConf

\* Mutant: only a new pair is a reason to reload.
PushConf_Unnoticed ==
  /\ at = "conf"
  /\ WriteSite
  /\ Goes("link")
  /\ UNCHANGED <<dirty, hold, chain, key, served, certbot, hook, history, troubles>>

PushConf ==
  /\ at = "conf"
  /\ WriteSite /\ dirty' = (dirty \/ site # WantedConf)
  /\ Goes("link")
  /\ UNCHANGED <<hold, chain, key, served, certbot, hook, history, troubles>>

\* ln -sf: that the site is enabled only now is no change to reload for.
LinkSite ==
  /\ at = "link"
  /\ conf' = site /\ owing' = (owing \/ (conf # site /\ ~dirty))
  /\ Goes("test")
  /\ UNCHANGED <<dirty, hold, chain, key, site, served, certbot, hook, missed, troubles>>

\* A failure is recorded, no more.
LinkFails ==
  /\ at = "link" /\ Trouble
  /\ Goes("test")
  /\ UNCHANGED <<dirty, hold, files, served, certbot, hook, history>>

\* nginx -t
TestPasses ==
  /\ at = "test" /\ Loadable
  /\ Goes("reload")
  /\ UNCHANGED <<dirty, hold, files, served, certbot, hook, history, troubles>>

TestFails ==
  /\ at = "test" /\ ~Loadable
  /\ Leaves("failed")
  /\ UNCHANGED <<files, served, certbot, hook, missed, troubles>>

Onward == Goes(IF Acme THEN "certbot" ELSE "verify")

\* Mutant: whether nginx runs is not asked.
NeedsReload_Files == dirty

\* Told only if it does not run, or if this session has changed a file.
NeedsReload == ~Running \/ dirty

ReloadNginx ==
  /\ at = "reload" /\ NeedsReload /\ Loadable
  /\ served' = OnDisk /\ owing' = FALSE /\ dirty' = FALSE
  /\ Onward
  /\ UNCHANGED <<hold, files, certbot, hook, missed, troubles>>

\* A failure is recorded, no more.
ReloadFails ==
  /\ at = "reload" /\ NeedsReload
  /\ IF Loadable THEN Trouble ELSE UNCHANGED troubles
  /\ owing' = TRUE /\ dirty' = FALSE
  /\ Onward
  /\ UNCHANGED <<hold, files, served, certbot, hook, missed>>

NginxUnchanged ==
  /\ at = "reload" /\ ~NeedsReload
  /\ Onward
  /\ UNCHANGED <<dirty, hold, files, served, certbot, hook, history, troubles>>
----------------------------------------------------------------------------
(* certbot and its hook.                                                    *)

\* Mutant: the issuer of what is there is not looked at.
Due_AnyIssuer == lineage = NoCert \/ lineage.pair \in old

\* Nothing there, near its expiry, or (forced) from the other environment.
Due == lineage = NoCert \/ lineage.pair \in old \/ lineage.kind # provider

CertbotKeeps ==
  /\ at = "certbot" /\ hook = "idle" /\ ~Due
  /\ Goes("push")
  /\ UNCHANGED <<dirty, hold, files, served, certbot, hook, history, troubles>>

\* The challenge is answered by the site file's :80.
Answering == served.conf \in {"plain", "tls"}

NewLineage(kind) ==
  /\ lineage' = [kind |-> kind, pair |-> Fresh]
  /\ old' = old \ {Fresh}

CertbotIssues ==
  /\ at = "certbot" /\ hook = "idle" /\ Due /\ Answering
  /\ NewLineage(provider)
  /\ Goes("push")
  /\ UNCHANGED <<dirty, hold, files, served, hookfile, hook, history, troubles>>

\* No issuance, or a renewal holds certbot's lock.
CertbotFails ==
  /\ at = "certbot"
  /\ IF hook # "idle" \/ (Due /\ ~Answering) THEN UNCHANGED troubles ELSE Trouble
  /\ Leaves("failed")
  /\ UNCHANGED <<files, served, certbot, hook, missed>>

PushHook ==
  /\ at = "push"
  /\ hookfile' = TRUE
  /\ Goes("run")
  /\ UNCHANGED <<dirty, hold, files, served, lineage, old, hook, history, troubles>>

RunHook ==
  /\ at = "run" /\ hook = "idle"
  /\ hook' = "chain" /\ missed' = FALSE
  /\ Goes("swap")
  /\ UNCHANGED <<dirty, hold, files, served, certbot, owing, troubles>>

\* certbot's timer, which runs every hook that is installed.
Renew ==
  /\ lineage.pair \in old /\ hook = "idle" /\ Answering
  /\ NewLineage(lineage.kind)
  /\ hook' = IF hookfile THEN "chain" ELSE "idle"
  /\ missed' = FALSE
  /\ UNCHANGED <<session, files, served, hookfile, owing, troubles>>

HookChain ==
  /\ hook = "chain"
  /\ chain' = lineage /\ hook' = "key"
  /\ UNCHANGED <<session, key, siteFile, served, certbot, history, troubles>>

HookKey ==
  /\ hook = "key"
  /\ key' = lineage.pair /\ hook' = "reload"
  /\ UNCHANGED <<session, chain, siteFile, served, certbot, history, troubles>>

\* cp fails; without `set -e` the script goes on.
HookMisses ==
  /\ Trouble
  /\ \/ hook = "chain" /\ hook' = "key"
     \/ hook = "key" /\ hook' = "reload"
  /\ missed' = TRUE
  /\ UNCHANGED <<session, files, served, certbot, owing>>

\* Its exit code is that of the reload, and all the session learns.
HookReloads ==
  /\ hook = "reload" /\ Running /\ Loadable
  /\ hook' = "idle"
  /\ served' = OnDisk /\ owing' = FALSE
  /\ IF at = "swap" THEN Goes("verify") /\ UNCHANGED <<dirty, hold>> ELSE UNCHANGED session
  /\ UNCHANGED <<files, certbot, missed, troubles>>

HookFails ==
  /\ hook = "reload"
  /\ IF Running /\ Loadable THEN Trouble ELSE UNCHANGED troubles
  /\ hook' = "idle" /\ owing' = TRUE
  /\ IF at = "swap"
       THEN at' = "idle" /\ phase' = "failed" /\ UNCHANGED <<provider, dirty, hold>>
       ELSE UNCHANGED session
  /\ UNCHANGED <<files, served, certbot, missed>>
----------------------------------------------------------------------------
\* Active, a pair, an answer of authentik in the scheme of the config, stub_status.  An
\* authentik that does not answer is a verify that fails: BreakOff, with "failed".
VerifyProxy ==
  /\ at = "verify"
  /\ Leaves(IF Running /\ (TlsEnabled => Matched) /\ served.conf = WantedConf
              THEN "done" ELSE "failed")
  /\ UNCHANGED <<files, served, certbot, hook, missed, troubles>>

\* A call raises, or the session is cut and records nothing.  A hook goes on by itself.
BreakOff ==
  /\ at # "idle" /\ Trouble
  /\ \E status \in {phase, "failed"} : Leaves(status)
  /\ UNCHANGED <<files, served, certbot, hook, missed>>

\* nginx is enabled: it comes back with what it finds, or not at all.
NodeReboots ==
  /\ Trouble
  /\ served' = IF served.conf = "absent" THEN served
               ELSE IF Loadable THEN OnDisk ELSE [conf |-> "stopped", cert |-> NoCert]
  /\ hook' = "idle" /\ missed' = (missed \/ hook \in {"chain", "key"})
  /\ at' = "idle" /\ phase' = (IF at = "idle" THEN phase ELSE "failed")
  /\ owing' = FALSE /\ dirty' = FALSE /\ hold' = NoPair
  /\ UNCHANGED <<provider, files, certbot>>

NginxStops ==
  /\ Running /\ Trouble
  /\ served' = [conf |-> "stopped", cert |-> NoCert]
  /\ UNCHANGED <<session, files, certbot, hook, history>>

\* All but the placeholder, which is good for ten years, near their expiry: weeks later.
TimePasses ==
  /\ at = "idle" /\ hook = "idle" /\ Trouble
  /\ old' = {c.pair : c \in {c \in {chain, lineage, served.cert} : c.kind \notin {"none", "self"}}}
  /\ old' # old
  /\ UNCHANGED <<session, files, served, lineage, hookfile, hook, history>>
----------------------------------------------------------------------------
FilesStep == KeepCert \/ MakeKey \/ MakeChain \/ ImportChain \/ ImportKey
NginxStep ==
  \/ InstallNginx \/ PushConf \/ LinkSite \/ LinkFails \/ TestPasses \/ TestFails
  \/ ReloadNginx \/ ReloadFails \/ NginxUnchanged
CertbotStep == CertbotKeeps \/ CertbotIssues \/ CertbotFails \/ PushHook \/ RunHook
HookStep == HookChain \/ HookKey \/ HookMisses \/ HookReloads \/ HookFails

ProxyNext ==
  \/ \E p \in Providers : BeginProxy(p)
  \/ FilesStep \/ NginxStep \/ CertbotStep \/ HookStep \/ VerifyProxy
  \/ Renew \/ BreakOff \/ NodeReboots \/ NginxStops \/ TimePasses

ProxySpec == ProxyInit /\ [][ProxyNext]_proxyVars

\* Every command ends; the operator provisions again until the phase is done; certbot
\* meets a free lock some time.
ProxyFairness ==
  /\ WF_proxyVars(FilesStep \/ NginxStep \/ CertbotStep \/ VerifyProxy)
  /\ WF_proxyVars(HookStep)
  /\ SF_proxyVars(phase # "done" /\ BeginProxy(provider))
  /\ SF_proxyVars(CertbotKeeps \/ CertbotIssues)

FairProxySpec == ProxySpec /\ ProxyFairness
----------------------------------------------------------------------------
SessionTypes ==
  /\ provider \in Providers /\ phase \in {"pending", "failed", "done"}
  /\ at \in {"idle", "cert", "chain", "key", "install", "conf", "link", "test", "reload",
             "certbot", "push", "run", "swap", "verify"}
  /\ dirty \in BOOLEAN /\ hold \in Pairs \cup {NoPair}

NginxTypes ==
  /\ chain \in Certs /\ key \in Pairs \cup {NoPair} /\ site \in {"absent", "plain", "tls"}
  /\ conf \in {"default", "plain", "tls"}
  /\ served \in [conf : {"absent", "stopped", "default", "plain", "tls"}, cert : Certs]

CertbotTypes ==
  /\ lineage \in Certs /\ hookfile \in BOOLEAN /\ old \subseteq Pairs
  /\ hook \in {"idle", "chain", "key", "reload"}
  /\ owing \in BOOLEAN /\ missed \in BOOLEAN /\ troubles \in 0..MaxTroubles

\* Types of the session, the files, nginx, certbot and the hook (nginx_single_phase.py).
ProxyTypes == SessionTypes /\ NginxTypes /\ CertbotTypes

\* nginx_single_phase.py:179-186: with nobody at work, a running nginx serves the files
\* on the disk, unless a reload failed or was forgotten with the session that owed it;
\* and while the phase is done it serves them in the scheme of the config even then.
ServesTheDisk ==
  at = "idle" /\ hook = "idle" /\ Running =>
    /\ ~owing => served = OnDisk
    /\ phase = "done" => served.conf = WantedConf

\* nginx_single_phase.py:28-32: while a phase for ACME is done, the files are what
\* certbot holds, from the environment the config asks for, after every renewal as after
\* the first issuance; a hook that could not copy is the only exception.
DoneHoldsIssued ==
  phase = "done" /\ Acme /\ hook = "idle" /\ ~missed =>
    /\ lineage.kind = provider
    /\ chain = lineage /\ key = lineage.pair

\* A certificate browsers take, with more than 30 days left.
Trusted(cert) == cert.kind \in {"production", "import"} /\ cert.pair \notin old

\* nginx_single_phase.py:199-208: a trusted certificate is never replaced in nginx by a
\* self-signed one, whatever is edited, cut, retried or renewed meanwhile and whatever
\* the hook could not copy, unless a reload was lost.
NoDowngrade ==
  [][Trusted(served.cert) /\ ~owing => served'.cert.kind # "self"]_proxyVars

\* Two files of different pairs, kept because only the certificate is looked at.
Torn == provider # "import" /\ Keepable /\ chain.pair # key
\* nginx runs on another site file than the one on the disk, which no session changes any more.
Unloaded == Running /\ served.conf # conf

\* "a re-run ... resumes at the frontier" (README.md:237): run again and again, the phase
\* gets done, but for two states a cut leaves it in for ever.
ProxyConverges == []<>(phase = "done") \/ <>[](Torn \/ Unloaded)

ProxyUnder == IF at = "idle" THEN {} ELSE {"nginx"}

\* base.py:134-185: the phase comes under way and is recorded as the runner does it, under
\* every provider; certbot's timer, and a hook that outlives its session, do not touch
\* its entry.
ProxyContract == INSTANCE Pipeline WITH
  Listed <- {"nginx"}, Before <- [p \in {"nginx"} |-> {}],
  Skippable <- {}, Aside <- {},
  entry <- [p \in {"nginx"} |-> phase], under <- ProxyUnder
ProxyImplementsPipeline == ProxyContract!Spec
============================================================================
