------------------------ MODULE CertDistributionProofs ------------------------
(***************************************************************************)
(* The certificate of an HA site, for a fleet of any size and any number of *)
(* certificates, edits, interrupted sessions and failing hooks.             *)
(***************************************************************************)
EXTENDS CertDistribution, TLAPS

\* The node a stage is about is one, and the hook begins with the leader.
Placed ==
  /\ pc = "idle" => k = 1
  /\ pc = "nginx" => k \in Node
  /\ pc = "pushkey" => k \in Targets
  /\ hook \in {"chain", "key"} => hk = Leader
  /\ hook = "copy" => hk # Leader

Has(n, c, p) == chain[n] = c /\ key[n] = p

\* What a session that no hook crosses has distributed so far.
Drawn == ~crossed =>
  /\ pc = "readkey" => buf.chain = chain[Leader]
  /\ (pc \in {"push", "pushkey", "reload", "verify"} /\ want # "import") =>
       Has(Leader, buf.chain, buf.key)
  /\ pc \in {"push", "pushkey"} => \A n \in Node : n < k => Has(n, buf.chain, buf.key)
  /\ pc = "pushkey" => chain[k] = buf.chain
  /\ pc \in {"reload", "verify"} => \A n \in Node : Has(n, buf.chain, buf.key)

\* A node that serves something else than its files is in somebody's debt.
Stale(n) == serving[n] # Nothing /\ ~Has(n, serving[n], serving[n])

Owing ==
  \A n \in Node : Stale(n) =>
    n \in unread \/ n \in Owed \/ (hook \in {"key", "reload"} /\ n = hk)

\* The nodes a run of the hook has served before it comes to node h.
Before(n, h) == h # Leader /\ (n = Leader \/ n < h)

Swapped(n) == Has(n, live, live) /\ serving[n] = live

\* While the finalization waits for the hook, only the hook writes.
Swapping ==
  /\ old <= issued
  /\ pc \in {"issue", "hook", "wait"} => Acme(want)
  /\ pc \in {"hook", "wait"} => live # Nothing /\ live.kind = want /\ ~NearExpiry(live)
  /\ pc = "wait" =>
       /\ hook = "key" => chain[Leader] = live
       /\ hook = "reload" => Has(hk, live, live)
       /\ hook \in {"reload", "copy"} => \A n \in Node : Before(n, hk) => Swapped(n)
       /\ (hook = "idle" /\ result = "ok") => \A n \in Node : Swapped(n)

IInv == TypeOK /\ Placed /\ Drawn /\ Owing /\ Swapping

-----------------------------------------------------------------------------

LEMMA Certs ==
  /\ Nothing \in Held
  /\ \A p \in Providers, i \in 1..MaxIssues : [kind |-> p, no |-> i] \in Held
  /\ \A p \in Providers, i \in 1..MaxIssues : [kind |-> p, no |-> i] # Nothing
  /\ \A c \in Held : c.kind \in Providers => c.no \in 1..MaxIssues /\ c # Nothing
  /\ \A c \in Held : c # Nothing => c.kind \in Providers
BY DEF Held, Cert, Nothing, Providers

LEMMA Renewed ==
  ASSUME NEW c \in Held, c # Nothing, NEW i \in 1..MaxIssues
  PROVE  [c EXCEPT !.no = i] \in Held
BY DEF Held, Cert, Nothing

LEMMA Bounds ==
  /\ Leader \in Node /\ 1 \in Node /\ 1 \in 1..(N + 1) /\ 0 \in 0..MaxIssues
  /\ 0 \in 0..MaxEdits /\ 0 \in 0..MaxBreaks
  /\ issued \in 0..MaxIssues /\ issued < MaxIssues => issued + 1 \in 1..MaxIssues /\ issued + 1 \in 0..MaxIssues
  /\ breaks \in 0..MaxBreaks /\ breaks < MaxBreaks => breaks + 1 \in 0..MaxBreaks
  /\ edits \in 0..MaxEdits /\ edits < MaxEdits => edits + 1 \in 0..MaxEdits
  /\ 1..MaxIssues \subseteq 0..MaxIssues
  /\ \A i \in Node : i + 1 \in 1..(N + 1) /\ i \in 1..(N + 1) /\ (i # N => i + 1 \in Node)
BY CertAssumption DEF Node

\* The hook visits the leader and then every other node.
LEMMA AfterAll ==
  ASSUME NEW h \in Node
  PROVE  /\ After(h) # 0 => /\ After(h) \in Node \ {Leader}
                            /\ \A n \in Node : Before(n, After(h)) => n = h \/ Before(n, h)
         /\ After(h) = 0 => \A n \in Node : n = h \/ Before(n, h)
BY CertAssumption DEF After, Before, Node

LEMMA LoadedHeld ==
  ASSUME FilesType, NEW n \in Node PROVE Loaded(n) \in Held
BY Certs DEF FilesType, Loaded

LEMMA InitInv == Init => IInv
<1> SUFFICES ASSUME Init PROVE IInv
  OBVIOUS
<1>1. FilesType
  BY Certs DEF Init, FilesType
<1>2. SessionType
  BY Certs, Bounds DEF Init, SessionType, Empty, TlsStages, NginxStages
<1>3. HookType /\ BoundsType
  BY Bounds DEF Init, HookType, BoundsType
<1>4. Placed /\ Drawn /\ Owing /\ Swapping
  BY CertAssumption DEF Init, Placed, Drawn, Owing, Swapping, Stale
<1>5. QED
  BY <1>1, <1>2, <1>3, <1>4 DEF IInv, TypeOK

\* The files, nginx and certbot.
LEMMA FilesInv ==
  ASSUME TypeOK, Placed, Next PROVE FilesType'
<1> USE DEF TypeOK, FilesType, files, nginx, certbot, record, session, deploy, world
<1>1. CASE \E n \in Node : NginxRestarts(n)
  BY <1>1, LoadedHeld DEF NginxRestarts
<1>2. CASE TimePasses \/ EditConfig \/ Break \/ \E r \in SUBSET {"tls", "nginx-keepalived"} : Provision(r)
  BY <1>2 DEF TimePasses, EditConfig, Break, Provision
<1>3. CASE Generate
  <2>1. [kind |-> "self", no |-> issued + 1] \in Held
    BY <1>3, Certs, Bounds DEF Generate, BoundsType, Providers
  <2>2. QED
    BY <1>3, <2>1 DEF Generate
<1>4. CASE Keep \/ ReadChain \/ ReadKey \/ ReadImport \/ SkipLeader \/ SkipReload \/ StageAcme \/ VerifyTls
  BY <1>4 DEF Keep, ReadChain, ReadKey, ReadImport, SkipLeader, SkipReload, StageAcme, VerifyTls
<1>5. CASE PushChain \/ PushKey
  BY <1>5 DEF PushChain, PushKey, SessionType
<1>6. CASE Reload \/ NginxUp
  BY <1>6, LoadedHeld, Certs DEF Reload, NginxUp, Placed
<1>7. CASE GatePasses \/ VipAnswers \/ CheckNode \/ GateFails \/ KeepLineage \/ IssueFails \/ RunHook \/ Unpend \/ HookFailed \/ VerifyNginx
  BY <1>7 DEF GatePasses, VipAnswers, CheckNode, GateFails, KeepLineage, IssueFails, RunHook, Unpend, HookFailed, VerifyNginx
<1>8. CASE Issue
  <2>1. want \in Providers /\ issued + 1 \in 1..MaxIssues
    BY <1>8, Bounds DEF Issue, BoundsType
  <2>2. QED
    BY <1>8, <2>1, Certs DEF Issue
<1>9. CASE Renew
  <2>1. [live EXCEPT !.no = issued + 1] \in Held
    BY <1>9, Bounds, Renewed DEF Renew, BoundsType
  <2>2. QED
    BY <1>9, <2>1 DEF Renew
<1>10. CASE HookChain \/ HookKey \/ HookRefused
  BY <1>10 DEF HookChain, HookKey, HookRefused
<1>11. CASE HookReload
  BY <1>11, LoadedHeld DEF HookReload, HookType
<1>12. CASE HookCopy \/ HookBreaks
  BY <1>12, Bounds DEF HookCopy, HookBreaks, HookType
<1>13. QED
  BY <1>1, <1>2, <1>3, <1>4, <1>5, <1>6, <1>7, <1>8, <1>9, <1>10, <1>11, <1>12 DEF Next

\* The session and the two records.
LEMMA SessionInv ==
  ASSUME TypeOK, Placed, Next PROVE SessionType'
<1> USE DEF TypeOK, SessionType, record, session, TlsStages, NginxStages
<1>1. CASE (\E n \in Node : NginxRestarts(n)) \/ TimePasses \/ EditConfig
  BY <1>1 DEF NginxRestarts, TimePasses, EditConfig
<1>2. CASE Break
  BY <1>2, Certs, Bounds DEF Break, End, Empty
<1>3. CASE \E r \in SUBSET {"tls", "nginx-keepalived"} : Provision(r)
  BY <1>3 DEF Provision
<1>4. CASE Keep \/ Generate \/ ReadChain \/ ReadKey
  BY <1>4, Bounds DEF Keep, Generate, ReadChain, ReadKey, Stage, FilesType
<1>5. CASE ReadImport
  <2>1. PICK c \in Held : buf' = [chain |-> c, key |-> c]
    <3>1. ASSUME issued < MaxIssues PROVE [kind |-> "import", no |-> issued + 1] \in Held
      BY <3>1, Certs, Bounds DEF BoundsType, Providers
    <3>2. \A n \in Node : chain[n] \in Held
      BY DEF FilesType
    <3>3. QED
      BY <1>5, <3>1, <3>2 DEF ReadImport
  <2>2. QED
    BY <1>5, <2>1, Bounds DEF ReadImport, Stage
<1>6. CASE SkipLeader \/ PushChain \/ PushKey
  BY <1>6, Bounds DEF SkipLeader, PushChain, PushKey, NextNode, Stage, Targets, Placed
<1>7. CASE Reload \/ SkipReload
  BY <1>7, Bounds DEF Reload, SkipReload
<1>8. CASE StageAcme \/ VerifyTls
  <2>1. CASE StageAcme
    BY <2>1, Bounds DEF StageAcme, Stage, Acme
  <2>2. Empty \in [chain : Held, key : Held]
    BY Certs DEF Empty
  <2>3. CASE VerifyTls
    BY <2>2, <2>3, Bounds DEF VerifyTls, Stage, End
  <2>4. QED
    BY <1>8, <2>1, <2>3
<1>9. CASE NginxUp \/ GatePasses \/ VipAnswers \/ CheckNode \/ KeepLineage \/ Issue \/ RunHook \/ Unpend
  BY <1>9, Bounds DEF NginxUp, GatePasses, VipAnswers, CheckNode, KeepLineage, Issue, RunHook, Unpend, Stage, Placed
<1>10. CASE GateFails \/ IssueFails \/ HookFailed \/ VerifyNginx
  BY <1>10, Certs, Bounds DEF GateFails, IssueFails, HookFailed, VerifyNginx, Failed, End, Empty
<1>11. CASE Renew \/ HookChain \/ HookKey \/ HookReload \/ HookCopy \/ HookRefused \/ HookBreaks
  BY <1>11 DEF Renew, HookChain, HookKey, HookReload, HookCopy, HookRefused, HookBreaks
<1>12. QED
  BY <1>1, <1>2, <1>3, <1>4, <1>5, <1>6, <1>7, <1>8, <1>9, <1>10, <1>11 DEF Next

\* The hook, the world and the history.
LEMMA HookInv ==
  ASSUME TypeOK, Placed, Next PROVE HookType' /\ BoundsType'
<1> USE DEF TypeOK, HookType, BoundsType, deploy, world, certbot
<1>1. CASE (\E n \in Node : NginxRestarts(n)) \/ TimePasses \/ EditConfig
  BY <1>1, Bounds DEF NginxRestarts, TimePasses, EditConfig
<1>2. CASE Break \/ (\E r \in SUBSET {"tls", "nginx-keepalived"} : Provision(r))
  BY <1>2, Bounds DEF Break, Provision, Owed, SessionType
<1>3. CASE Keep \/ Generate \/ ReadChain \/ ReadKey
  BY <1>3, Bounds DEF Keep, Generate, ReadChain, ReadKey
<1>4. CASE ReadImport
  <2>1. issued' \in 0..MaxIssues
    <3>1. \A n \in Node : chain[n].kind = "import" => chain[n].no \in 0..MaxIssues
      BY Certs, Bounds DEF FilesType, Providers
    <3>2. issued < MaxIssues => [kind |-> "import", no |-> issued + 1].no \in 0..MaxIssues
      BY Bounds
    <3>3. QED
      BY <1>4, <3>1, <3>2 DEF ReadImport
  <2>2. QED
    BY <1>4, <2>1 DEF ReadImport
<1>5. CASE SkipLeader \/ PushChain \/ PushKey \/ SkipReload \/ StageAcme \/ VerifyTls
  BY <1>5 DEF SkipLeader, PushChain, PushKey, SkipReload, StageAcme, VerifyTls
<1>6. CASE Reload \/ NginxUp
  BY <1>6 DEF Reload, NginxUp, Placed
<1>7. CASE GatePasses \/ VipAnswers \/ CheckNode \/ GateFails \/ KeepLineage \/ Issue \/ IssueFails \/ RunHook
  BY <1>7, Bounds DEF GatePasses, VipAnswers, CheckNode, GateFails, KeepLineage, Issue, IssueFails, RunHook
<1>8. CASE Unpend \/ HookFailed \/ VerifyNginx
  BY <1>8 DEF Unpend, HookFailed, VerifyNginx
<1>9. CASE Renew \/ HookChain \/ HookKey \/ HookCopy
  BY <1>9, Bounds DEF Renew, HookChain, HookKey, HookCopy
<1>10. CASE HookReload
  BY <1>10, AfterAll DEF HookReload
<1>11. CASE HookRefused \/ HookBreaks
  BY <1>11, Bounds DEF HookRefused, HookBreaks, HookStops
<1>12. QED
  BY <1>1, <1>2, <1>3, <1>4, <1>5, <1>6, <1>7, <1>8, <1>9, <1>10, <1>11 DEF Next

LEMMA PlacedInv ==
  ASSUME TypeOK, Placed, Next PROVE Placed'
<1> USE DEF Placed, record, session, deploy, world
<1>1. CASE (\E n \in Node : NginxRestarts(n)) \/ TimePasses \/ EditConfig \/ Break
  BY <1>1 DEF NginxRestarts, TimePasses, EditConfig, Break, End, Targets
<1>2. CASE \E r \in SUBSET {"tls", "nginx-keepalived"} : Provision(r)
  BY <1>2, Bounds DEF Provision
<1>3. CASE Keep \/ Generate \/ ReadChain \/ ReadKey \/ ReadImport
  BY <1>3 DEF Keep, Generate, ReadChain, ReadKey, ReadImport, Stage
<1>4. CASE SkipLeader \/ PushChain \/ PushKey
  BY <1>4 DEF SkipLeader, PushChain, PushKey, NextNode, Stage, Targets
<1>5. CASE Reload \/ SkipReload \/ StageAcme \/ VerifyTls
  BY <1>5, Bounds DEF Reload, SkipReload, StageAcme, VerifyTls, Stage, End
<1>6. CASE NginxUp
  BY <1>6, Bounds DEF NginxUp, Stage
<1>7. CASE GatePasses \/ VipAnswers \/ CheckNode \/ GateFails \/ KeepLineage \/ Issue \/ IssueFails \/ RunHook
  BY <1>7 DEF GatePasses, VipAnswers, CheckNode, GateFails, KeepLineage, Issue, IssueFails, RunHook, Stage, Failed, End
<1>8. CASE Unpend \/ HookFailed \/ VerifyNginx
  BY <1>8 DEF Unpend, HookFailed, VerifyNginx, Stage, Failed, End
<1>9. CASE Renew \/ HookChain \/ HookKey \/ HookCopy
  BY <1>9 DEF Renew, HookChain, HookKey, HookCopy, Targets
<1>10. CASE HookReload \/ HookRefused \/ HookBreaks
  BY <1>10, AfterAll DEF HookReload, HookRefused, HookBreaks, HookStops, TypeOK, HookType, Targets
<1>11. QED
  BY <1>1, <1>2, <1>3, <1>4, <1>5, <1>6, <1>7, <1>8, <1>9, <1>10 DEF Next

\* What a session has drawn and pushed, as long as no hook crosses it.
LEMMA DrawnInv ==
  ASSUME TypeOK, Placed, Drawn, Next PROVE Drawn'
<1> USE DEF Drawn, Has, files, nginx, certbot, record, session, deploy, world
<1>1. CASE (\E n \in Node : NginxRestarts(n)) \/ TimePasses
  BY <1>1 DEF NginxRestarts, TimePasses
<1>2. CASE EditConfig \/ Break \/ (\E r \in SUBSET {"tls", "nginx-keepalived"} : Provision(r))
  BY <1>2 DEF EditConfig, Break, Provision, End
<1>3. CASE Keep \/ Generate \/ ReadChain
  BY <1>3, Bounds DEF Keep, Generate, ReadChain, Stage, TypeOK, SessionType
<1>4. CASE ReadKey
  BY <1>4 DEF ReadKey, Stage, Node, TypeOK, SessionType
<1>5. CASE ReadImport
  BY <1>5 DEF ReadImport, Stage, Node
<1>6. CASE SkipLeader
  <2>1. \A n \in Node : n < k + 1 => n < k \/ n = k
    BY DEF Node, TypeOK, SessionType
  <2>2. k = N => \A n \in Node : n < k + 1
    BY CertAssumption DEF Node
  <2>3. k = Leader /\ want # "import"
    BY <1>6 DEF SkipLeader, Targets
  <2>4. QED
    BY <1>6, <2>1, <2>2, <2>3 DEF SkipLeader, NextNode, Stage
<1>7. CASE PushChain
  <2>1. k \in Node /\ (want # "import" => k # Leader)
    BY <1>7 DEF PushChain, Targets
  <2>2. \A n \in Node : n < k => n # k
    BY DEF Node
  <2>3. QED
    BY <1>7, <2>1, <2>2 DEF PushChain, TypeOK, FilesType
<1>8. CASE PushKey
  <2>1. k \in Node /\ (want # "import" => k # Leader)
    BY <1>8 DEF PushKey, Placed, Targets
  <2>2. \A n \in Node : n < k + 1 => n < k \/ n = k
    BY DEF Node, TypeOK, SessionType
  <2>3. k = N => \A n \in Node : n < k + 1
    BY CertAssumption DEF Node
  <2>4. QED
    BY <1>8, <2>1, <2>2, <2>3 DEF PushKey, NextNode, Stage, TypeOK, FilesType
<1>9. CASE Reload \/ SkipReload \/ StageAcme \/ VerifyTls
  BY <1>9 DEF Reload, SkipReload, StageAcme, VerifyTls, Stage, End
<1>10. CASE NginxUp \/ GatePasses \/ VipAnswers \/ CheckNode \/ GateFails \/ KeepLineage \/ Issue
  BY <1>10 DEF NginxUp, GatePasses, VipAnswers, CheckNode, GateFails, KeepLineage, Issue, Stage, Failed, End
<1>11. CASE IssueFails \/ RunHook \/ Unpend \/ HookFailed \/ VerifyNginx
  BY <1>11 DEF IssueFails, RunHook, Unpend, HookFailed, VerifyNginx, Stage, Failed, End
<1>12. CASE Renew \/ HookChain \/ HookKey \/ HookReload \/ HookCopy \/ HookRefused \/ HookBreaks
  BY <1>12 DEF Renew, HookChain, HookKey, HookReload, HookCopy, HookRefused, HookBreaks
<1>13. QED
  BY <1>1, <1>2, <1>3, <1>4, <1>5, <1>6, <1>7, <1>8, <1>9, <1>10, <1>11, <1>12 DEF Next

\* No node is left serving an old pair but in the debt of somebody.
LEMMA OwingInv ==
  ASSUME TypeOK, Placed, Owing, Next PROVE Owing'
<1> USE DEF Owing, Stale, Owed, Has, files, nginx, certbot, record, session, deploy, world
<1>1. CASE \E n \in Node : NginxRestarts(n)
  BY <1>1 DEF NginxRestarts, Loaded, TypeOK, FilesType
<1>2. CASE TimePasses \/ EditConfig \/ Break \/ (\E r \in SUBSET {"tls", "nginx-keepalived"} : Provision(r))
  BY <1>2 DEF TimePasses, EditConfig, Break, Provision, End
<1>3. CASE Keep \/ ReadChain \/ ReadKey \/ ReadImport \/ SkipLeader
  BY <1>3 DEF Keep, ReadChain, ReadKey, ReadImport, SkipLeader, NextNode, Stage, Node
<1>4. CASE Generate
  BY <1>4 DEF Generate, Stage, TypeOK, FilesType
<1>5. CASE PushChain
  BY <1>5 DEF PushChain, TypeOK, FilesType
<1>6. CASE PushKey
  BY <1>6 DEF PushKey, NextNode, Stage, Node, TypeOK, FilesType
<1>7. CASE Reload \/ SkipReload
  <2>1. \A n \in Node : n >= k => n = k \/ n >= k + 1
    BY DEF Node, TypeOK, SessionType
  <2>2. \A n \in Node \ {k} : UNCHANGED <<chain[n], key[n], serving[n]>> /\ (n \in unread => n \in unread')
    BY <1>7 DEF Reload, SkipReload, TypeOK, FilesType
  <2>3. UNCHANGED <<pc, changed, hook, hk>> /\ pc = "reload" /\ k' = k + 1 /\ k \in Node
    BY <1>7 DEF Reload, SkipReload
  <2>4. ASSUME NEW n \in Node, n = k, Stale(n)'
        PROVE  n \in unread' \/ (hook \in {"key", "reload"} /\ n = hk)
    <3>1. CASE Reload
      <4>1. PICK new \in {serving[k], Loaded(k)} \ {Nothing} :
              /\ serving' = [serving EXCEPT ![k] = new]
              /\ unread' = IF new = Loaded(k) THEN unread \ {k} ELSE unread \union {k}
        BY <3>1 DEF Reload
      <4>2. UNCHANGED <<chain, key>> /\ serving'[k] = new
        BY <3>1, <4>1, <2>3 DEF Reload, TypeOK, FilesType
      <4>3. new = Loaded(k) => chain[k] = new /\ key[k] = new
        BY <4>1 DEF Loaded
      <4>4. QED
        BY <4>1, <4>2, <4>3, <2>3, <2>4
    <3>2. CASE SkipReload
      <4>1. UNCHANGED <<chain, key, serving, unread>> /\ (k \notin changed \/ serving[k] = Nothing)
        BY <3>2 DEF SkipReload
      <4>2. QED
        BY <4>1, <2>3, <2>4
    <3>3. QED
      BY <1>7, <3>1, <3>2
  <2>5. \A n \in Node \ {k} : n \in Owed => n \in Owed'
    BY <2>1, <2>3
  <2>6. \A n \in Node \ {k} : Stale(n)' <=> Stale(n)
    BY <2>2
  <2>7. ASSUME NEW n \in Node, Stale(n)'
        PROVE  n \in unread' \/ n \in Owed' \/ (hook' \in {"key", "reload"} /\ n = hk')
    <3>1. CASE n = k
      <4>1. n \in unread' \/ (hook \in {"key", "reload"} /\ n = hk)
        BY <2>4, <2>7, <3>1, <2>3
      <4>2. QED
        BY <4>1, <2>3
    <3>2. CASE n # k
      <4>1. n \in unread \/ n \in Owed \/ (hook \in {"key", "reload"} /\ n = hk)
        BY <2>6, <2>7, <3>2
      <4>2. (n \in unread => n \in unread') /\ (n \in Owed => n \in Owed')
        BY <2>2, <2>5, <3>2
      <4>3. QED
        BY <4>1, <4>2, <2>3
    <3>3. QED
      BY <3>1, <3>2
  <2>8. QED
    BY <2>7
<1>8. CASE StageAcme \/ VerifyTls
  <2>1. Owed = {}
    <3>1. \A n \in changed : ~(n >= N + 1)
      BY CertAssumption DEF TypeOK, SessionType, Node
    <3>2. pc = "verify" \/ (pc = "reload" /\ k = N + 1)
      BY <1>8 DEF StageAcme, VerifyTls
    <3>3. QED
      BY <3>1, <3>2
  <2>2. UNCHANGED <<files, serving, unread, deploy>>
    BY <1>8 DEF StageAcme, VerifyTls
  <2>3. QED
    BY <2>1, <2>2
<1>9. CASE NginxUp
  BY <1>9 DEF NginxUp, Loaded, Stage, Placed, TypeOK, FilesType
<1>10. CASE GatePasses \/ VipAnswers \/ CheckNode \/ GateFails \/ KeepLineage \/ Issue \/ IssueFails
  BY <1>10 DEF GatePasses, VipAnswers, CheckNode, GateFails, KeepLineage, Issue, IssueFails, Stage, Failed, End
<1>11. CASE RunHook \/ Unpend \/ HookFailed \/ VerifyNginx \/ Renew
  BY <1>11 DEF RunHook, Unpend, HookFailed, VerifyNginx, Renew, Stage, Failed, End
<1>12. CASE HookChain \/ HookKey \/ HookCopy
  BY <1>12 DEF HookChain, HookKey, HookCopy, Placed, TypeOK, FilesType
<1>13. CASE HookReload
  BY <1>13 DEF HookReload, Loaded, TypeOK, FilesType
<1>14. CASE HookRefused \/ HookBreaks
  BY <1>14 DEF HookRefused, HookBreaks, HookStops, Placed, TypeOK, FilesType
<1>15. QED
  BY <1>1, <1>2, <1>3, <1>4, <1>5, <1>6, <1>7, <1>8, <1>9, <1>10, <1>11, <1>12, <1>13, <1>14 DEF Next

\* In the finalization nobody writes but the hook, which goes node by node.
LEMMA SwappingInv ==
  ASSUME TypeOK, Placed, Swapping, Next PROVE Swapping'
<1> USE DEF Swapping, Swapped, Has, files, nginx, certbot, record, session, deploy, world
<1>1. CASE \E n \in Node : NginxRestarts(n)
  BY <1>1 DEF NginxRestarts, Loaded, NearExpiry, TypeOK, FilesType
<1>2. CASE TimePasses \/ EditConfig \/ Break \/ (\E r \in SUBSET {"tls", "nginx-keepalived"} : Provision(r))
  BY <1>2, Bounds DEF TimePasses, EditConfig, Break, Provision, End, NearExpiry, TypeOK, BoundsType
<1>3. CASE Keep \/ ReadChain \/ ReadKey \/ SkipLeader \/ PushChain \/ PushKey
  BY <1>3 DEF Keep, ReadChain, ReadKey, SkipLeader, PushChain, PushKey, NextNode, Stage
<1>4. CASE Generate \/ ReadImport
  <2>1. pc' \in TlsStages /\ issued' >= issued /\ old' = old
    BY <1>4, Certs, Bounds DEF Generate, ReadImport, Stage, TlsStages, TypeOK, BoundsType, FilesType, Providers
  <2>2. issued' \in Nat /\ issued \in Nat /\ old \in Nat
    BY <1>4, HookInv DEF TypeOK, BoundsType
  <2>3. old' <= issued'
    BY <2>1, <2>2
  <2>4. QED
    BY <2>1, <2>3 DEF TlsStages
<1>5. CASE Reload \/ SkipReload \/ StageAcme \/ VerifyTls \/ NginxUp
  BY <1>5 DEF Reload, SkipReload, StageAcme, VerifyTls, NginxUp, Stage, End
<1>6. CASE GatePasses \/ VipAnswers \/ CheckNode \/ GateFails \/ KeepLineage \/ IssueFails
  BY <1>6 DEF GatePasses, VipAnswers, CheckNode, GateFails, KeepLineage, IssueFails, Stage, Failed, End, NearExpiry
<1>7. CASE Issue
  <2>1. live' = [kind |-> want, no |-> issued + 1] /\ live' # Nothing
    BY <1>7, Certs, Bounds DEF Issue, TypeOK, BoundsType
  <2>2. ~NearExpiry(live)'
    BY <1>7, <2>1, Bounds DEF Issue, NearExpiry, TypeOK, BoundsType
  <2>3. QED
    BY <1>7, <2>1, <2>2, Bounds DEF Issue, Stage, TypeOK, BoundsType
<1>8. CASE RunHook \/ Unpend \/ HookFailed \/ VerifyNginx
  BY <1>8 DEF RunHook, Unpend, HookFailed, VerifyNginx, Stage, Failed, End, NearExpiry
<1>9. CASE Renew
  BY <1>9, Bounds DEF Renew, NearExpiry, TypeOK, BoundsType
<1>10. CASE HookChain \/ HookKey
  BY <1>10, Bounds DEF HookChain, HookKey, Placed, Before, NearExpiry, TypeOK, FilesType
<1>11. CASE HookReload
  <2>1. hk \in Node /\ Loaded(hk) = chain[hk]
    BY <1>11 DEF HookReload, Loaded, TypeOK, HookType
  <2>2. ASSUME pc = "wait", NEW n \in Node, n = hk \/ Swapped(n)
        PROVE  Swapped(n)'
    <3>1. chain[hk] = live /\ key[hk] = live
      BY <1>11, <2>2 DEF HookReload
    <3>2. serving' = [serving EXCEPT ![hk] = live] /\ UNCHANGED <<chain, key, live>>
      BY <1>11, <2>1, <3>1 DEF HookReload
    <3>3. QED
      BY <3>1, <3>2, <2>1, <2>2 DEF TypeOK, FilesType
  <2>3. hook' = "idle" => \A n \in Node : n = hk \/ Before(n, hk)
    BY <1>11, <2>1, AfterAll DEF HookReload
  <2>4. hook' = "copy" => \A n \in Node : Before(n, hk') => n = hk \/ Before(n, hk)
    BY <1>11, <2>1, AfterAll DEF HookReload
  <2>5. UNCHANGED <<pc, live, old, issued, want>> /\ hook = "reload" /\ hook' \in {"idle", "copy"}
    BY <1>11 DEF HookReload
  <2>6. QED
    BY <2>2, <2>3, <2>4, <2>5 DEF NearExpiry
<1>12. CASE HookCopy
  <2>1. hk \in Node /\ hk # Leader /\ Leader \in Node
    BY <1>12, Bounds DEF HookCopy, Placed, TypeOK, HookType
  <2>2. \A n \in Node : Before(n, hk) => n # hk
    BY <2>1 DEF Before, Node
  <2>3. pc = "wait" => Swapped(Leader)
    BY <1>12, <2>1 DEF HookCopy, Before
  <2>4. QED
    BY <1>12, <2>1, <2>2, <2>3 DEF HookCopy, NearExpiry, TypeOK, FilesType
<1>13. CASE HookRefused \/ HookBreaks
  BY <1>13 DEF HookRefused, HookBreaks, HookStops, NearExpiry
<1>14. QED
  BY <1>1, <1>2, <1>3, <1>4, <1>5, <1>6, <1>7, <1>8, <1>9, <1>10, <1>11, <1>12, <1>13 DEF Next

THEOREM Invariance == Spec => []IInv
<1>1. IInv /\ [Next]_vars => IInv'
  <2>1. ASSUME IInv, Next PROVE IInv'
    BY <2>1, FilesInv, SessionInv, HookInv, PlacedInv, DrawnInv, OwingInv, SwappingInv DEF IInv, TypeOK
  <2>2. ASSUME IInv, UNCHANGED vars PROVE IInv'
    <3>1. TypeOK'
      BY <2>2 DEF IInv, TypeOK, FilesType, SessionType, HookType, BoundsType,
                  vars, files, nginx, certbot, record, session, deploy, world
    <3>2. Placed' /\ Drawn' /\ Owing'
      BY <2>2 DEF IInv, Placed, Drawn, Owing, Has, Stale, Owed, Targets,
                  vars, files, nginx, certbot, record, session, deploy, world
    <3>3. Swapping'
      BY <2>2 DEF IInv, Swapping, Swapped, Has, NearExpiry,
                  vars, files, nginx, certbot, record, session, deploy, world
    <3>4. QED
      BY <3>1, <3>2, <3>3 DEF IInv
  <2>3. QED
    BY <2>1, <2>2
<1>2. QED
  BY InitInv, <1>1, PTL DEF Spec

\* The files, the records, the session and the hook stay in their types.
THEOREM TypeCorrect == Spec => []TypeOK
BY Invariance, PTL DEF IInv

\* For any fleet: with nobody at work a running nginx serves what is installed,
\* unless its reload failed or was cut off.
THEOREM NothingUnread == Spec => []ServedIsInstalled
<1>1. IInv => ServedIsInstalled
  BY DEF IInv, Owing, Stale, Has, Owed, ServedIsInstalled, Loaded, TypeOK, FilesType
<1>2. QED
  BY Invariance, <1>1, PTL

\* For any fleet: a tls phase that no hook crossed ends done only with the
\* leader's pair on every node.
THEOREM Distributed == Spec => DoneIsDistributed
<1>1. ASSUME IInv, Next, tls # "done", tls' = "done", ~crossed
      PROVE  \A n \in Node : chain[n] = chain[Leader] /\ key[n] = chain[Leader]
  <2> USE DEF record, session
  <2>1. VerifyTls
    <3>1. (\E n \in Node : NginxRestarts(n)) \/ TimePasses \/ EditConfig => tls' = tls
      BY DEF NginxRestarts, TimePasses, EditConfig
    <3>2. Break \/ (\E r \in SUBSET {"tls", "nginx-keepalived"} : Provision(r)) => tls' # "done" \/ tls' = tls
      BY DEF Break, Provision
    <3>3. Keep \/ Generate \/ ReadChain \/ ReadKey \/ ReadImport \/ SkipLeader => tls' = tls
      BY DEF Keep, Generate, ReadChain, ReadKey, ReadImport, SkipLeader
    <3>4. PushChain \/ PushKey \/ Reload \/ SkipReload \/ StageAcme => tls' = tls
      BY DEF PushChain, PushKey, Reload, SkipReload, StageAcme
    <3>5. NginxUp \/ GatePasses \/ VipAnswers \/ CheckNode \/ GateFails \/ KeepLineage \/ Issue \/ IssueFails => tls' = tls
      BY DEF NginxUp, GatePasses, VipAnswers, CheckNode, GateFails, KeepLineage, Issue, IssueFails
    <3>6. RunHook \/ Unpend \/ HookFailed \/ VerifyNginx \/ Renew => tls' = tls
      BY DEF RunHook, Unpend, HookFailed, VerifyNginx, Renew
    <3>7. HookChain \/ HookKey \/ HookReload \/ HookCopy \/ HookRefused \/ HookBreaks => tls' = tls
      BY DEF HookChain, HookKey, HookReload, HookCopy, HookRefused, HookBreaks
    <3>8. QED
      BY <1>1, <3>1, <3>2, <3>3, <3>4, <3>5, <3>6, <3>7 DEF Next
  <2>2. pc = "verify" /\ \A n \in Node : Loaded(n) # Nothing
    BY <1>1, <2>1 DEF VerifyTls
  <2>3. \A n \in Node : chain[n] = buf.chain /\ key[n] = chain[n]
    BY <1>1, <2>2 DEF IInv, Drawn, Has, Loaded
  <2>4. QED
    BY <2>3, Bounds
<1>2. IInv /\ [Next]_vars =>
        [tls # "done" /\ tls' = "done" /\ ~crossed =>
           \A n \in Node : chain[n] = chain[Leader] /\ key[n] = chain[Leader]]_vars
  BY <1>1
<1>3. QED
  BY Invariance, <1>2, PTL DEF Spec, DoneIsDistributed

\* For any fleet: the pending mark is given up only when every node has and
\* serves what certbot holds, from the environment asked for.
THEOREM Finalized == Spec => FinalizedIsServed
<1>1. ASSUME IInv, Next, pending, ~pending'
      PROVE  /\ live.kind = want
             /\ \A n \in Node : chain[n] = live /\ key[n] = live /\ serving[n] = live
  <2> USE DEF record
  <2>1. Unpend
    <3>1. (\E n \in Node : NginxRestarts(n)) \/ TimePasses \/ EditConfig => pending' = pending
      BY DEF NginxRestarts, TimePasses, EditConfig
    <3>2. Break \/ (\E r \in SUBSET {"tls", "nginx-keepalived"} : Provision(r)) => pending' = pending
      BY DEF Break, Provision
    <3>3. Keep \/ Generate \/ ReadChain \/ ReadKey \/ ReadImport \/ SkipLeader => pending' = pending
      BY DEF Keep, Generate, ReadChain, ReadKey, ReadImport, SkipLeader
    <3>4. PushChain \/ PushKey \/ Reload \/ SkipReload \/ VerifyTls => pending' = pending
      BY DEF PushChain, PushKey, Reload, SkipReload, VerifyTls
    <3>5. StageAcme => pending' \/ ~pending
      BY DEF StageAcme
    <3>6. NginxUp \/ GatePasses \/ VipAnswers \/ CheckNode \/ GateFails \/ KeepLineage \/ Issue \/ IssueFails => pending' = pending
      BY DEF NginxUp, GatePasses, VipAnswers, CheckNode, GateFails, KeepLineage, Issue, IssueFails
    <3>7. RunHook \/ HookFailed \/ VerifyNginx \/ Renew => pending' = pending
      BY DEF RunHook, HookFailed, VerifyNginx, Renew
    <3>8. HookChain \/ HookKey \/ HookReload \/ HookCopy \/ HookRefused \/ HookBreaks => pending' = pending
      BY DEF HookChain, HookKey, HookReload, HookCopy, HookRefused, HookBreaks
    <3>9. QED
      BY <1>1, <3>1, <3>2, <3>3, <3>4, <3>5, <3>6, <3>7, <3>8 DEF Next
  <2>2. QED
    BY <1>1, <2>1 DEF Unpend, IInv, Swapping, Swapped, Has
<1>2. IInv /\ [Next]_vars =>
        [pending /\ ~pending' =>
           /\ live.kind = want
           /\ \A n \in Node : chain[n] = live /\ key[n] = live /\ serving[n] = live]_vars
  BY <1>1
<1>3. QED
  BY Invariance, <1>2, PTL DEF Spec, FinalizedIsServed

-----------------------------------------------------------------------------
(* The contract of the runner.                                              *)

Entries == [p \in {"tls", "nginx-keepalived"} |-> IF p = "tls" THEN tls ELSE ng]

LEMMA EntriesWritten ==
  /\ UNCHANGED ng => \A s : tls' = s => Entries' = [Entries EXCEPT !["tls"] = s]
  /\ UNCHANGED tls => \A s : ng' = s => Entries' = [Entries EXCEPT !["nginx-keepalived"] = s]
BY DEF Entries

LEMMA TurnNext ==
  /\ tls' # "done" => {"tls"} \in Contract!Turns(Entries')
  /\ tls' = "done" /\ ng' # "done" => {"nginx-keepalived"} \in Contract!Turns(Entries')
  /\ {} \in Contract!Turns(Entries')
<1>1. tls' # "done" => {"tls"} \in Contract!Turns(Entries')
  BY DEF Contract!Turns, Entries
<1>2. tls' = "done" /\ ng' # "done" => {"nginx-keepalived"} \in Contract!Turns(Entries')
  BY DEF Contract!Turns, Contract!Passed, Entries
<1>3. QED
  BY <1>1, <1>2 DEF Contract!Turns

\* A step within a phase, or outside both.
LEMMA MovesWithin ==
  ASSUME UNCHANGED <<tls, ng>>,
         \/ pc' = pc
         \/ pc \in TlsStages /\ pc' \in TlsStages
         \/ pc \in NginxStages /\ pc' \in NginxStages
  PROVE  UNCHANGED <<Entries, Under>>
BY DEF Entries, Under, TlsStages, NginxStages

LEMMA TlsRuns ==
  ASSUME Keep \/ Generate \/ ReadChain \/ ReadKey \/ ReadImport \/ SkipLeader \/ PushChain
         \/ PushKey \/ Reload \/ SkipReload \/ StageAcme \/ VerifyTls
  PROVE  Contract!Next \/ UNCHANGED <<Entries, Under>>
<1>1. CASE ~VerifyTls
  <2>1. UNCHANGED <<tls, ng>> /\ pc \in TlsStages /\ pc' \in TlsStages
    BY <1>1 DEF Keep, Generate, ReadChain, ReadKey, ReadImport, SkipLeader, PushChain, PushKey,
       Reload, SkipReload, StageAcme, NextNode, Stage, record, TlsStages
  <2>2. QED
    BY <2>1, MovesWithin
<1>2. CASE VerifyTls
  <2>1. Under = {"tls"} /\ ng' = ng
    BY <1>2 DEF VerifyTls, Under, TlsStages
  <2>2. CASE tls' = "done"
    <3>1. Under' = IF ng = "done" THEN {} ELSE {"nginx-keepalived"}
      BY <1>2, <2>2 DEF VerifyTls, End, Stage, Under, TlsStages, NginxStages
    <3>2. Under' \in Contract!Turns(Entries')
      BY <2>1, <2>2, <3>1, TurnNext
    <3>3. Contract!Verified("tls")
      BY <2>1, <2>2, <3>2, EntriesWritten DEF Contract!Verified, Contract!Written, Entries
    <3>4. QED
      BY <3>3 DEF Contract!Next
  <2>3. CASE tls' = "failed" /\ End
    <3>1. Under' = {}
      BY <2>3 DEF End, Under, TlsStages, NginxStages
    <3>2. Contract!Failed("tls")
      BY <2>1, <2>3, <3>1, EntriesWritten DEF Contract!Failed, Contract!Written, Entries
    <3>3. QED
      BY <3>2 DEF Contract!Next
  <2>4. QED
    BY <1>2, <2>2, <2>3 DEF VerifyTls
<1>3. QED
  BY <1>1, <1>2

LEMMA NginxRuns ==
  ASSUME NginxUp \/ GatePasses \/ VipAnswers \/ CheckNode \/ GateFails \/ KeepLineage \/ Issue \/ IssueFails
         \/ RunHook \/ Unpend \/ HookFailed \/ VerifyNginx
  PROVE  Contract!Next \/ UNCHANGED <<Entries, Under>>
<1>1. CASE NginxUp \/ GatePasses \/ VipAnswers \/ CheckNode \/ KeepLineage \/ Issue \/ RunHook \/ Unpend
  <2>1. UNCHANGED <<tls, ng>> /\ pc \in NginxStages /\ pc' \in NginxStages
    BY <1>1 DEF NginxUp, GatePasses, VipAnswers, CheckNode, KeepLineage, Issue, RunHook, Unpend, Stage, record, NginxStages
  <2>2. QED
    BY <2>1, MovesWithin
<1>2. CASE GateFails \/ IssueFails \/ HookFailed \/ VerifyNginx
  <2>1. Under = {"nginx-keepalived"} /\ Under' = {} /\ tls' = tls /\ ng' \in {"done", "failed"}
    BY <1>2 DEF GateFails, IssueFails, HookFailed, VerifyNginx, Failed, End, Under, TlsStages, NginxStages
  <2>2. Contract!Verified("nginx-keepalived") \/ Contract!Failed("nginx-keepalived")
    BY <2>1, TurnNext, EntriesWritten DEF Contract!Verified, Contract!Failed, Contract!Written, Entries
  <2>3. QED
    BY <2>2 DEF Contract!Next
<1>3. QED
  BY <1>1, <1>2

LEMMA BreakKeeps ==
  ASSUME SessionType, Break
  PROVE  Contract!Next
<1>0. Under' = {}
  BY DEF Break, End, Under, TlsStages, NginxStages
<1>1. CASE pc \in TlsStages
  <2>1. Under = {"tls"} /\ ng' = ng /\ tls' \in {tls, "failed"}
    BY <1>1 DEF Break, Under, TlsStages, NginxStages
  <2>2. Contract!Cut("tls") \/ Contract!Failed("tls")
    BY <1>0, <2>1, EntriesWritten DEF Contract!Cut, Contract!Failed, Contract!Written, Entries
  <2>3. QED
    BY <2>2 DEF Contract!Next
<1>2. CASE pc \in NginxStages
  <2>1. Under = {"nginx-keepalived"} /\ tls' = tls /\ ng' \in {ng, "failed"}
    BY <1>2 DEF Break, Under, TlsStages, NginxStages
  <2>2. Contract!Cut("nginx-keepalived") \/ Contract!Failed("nginx-keepalived")
    BY <1>0, <2>1, EntriesWritten DEF Contract!Cut, Contract!Failed, Contract!Written, Entries
  <2>3. QED
    BY <2>2 DEF Contract!Next
<1>3. QED
  BY <1>1, <1>2 DEF Break, SessionType

LEMMA ProvisionKeeps ==
  ASSUME NEW replay \in SUBSET {"tls", "nginx-keepalived"}, Provision(replay)
  PROVE  Contract!Provision
<1>1. Under = {}
  BY DEF Provision, Under, TlsStages, NginxStages
<1>2. \/ tls' # "done" /\ Under' = {"tls"}
      \/ tls' = "done" /\ ng' # "done" /\ Under' = {"nginx-keepalived"}
  BY DEF Provision, Under, TlsStages, NginxStages
<1>3. Entries' = [p \in {"tls", "nginx-keepalived"} |-> IF p \in replay THEN "pending" ELSE Entries[p]]
  BY DEF Provision, Entries
<1>4. Under' \in Contract!Turns(Entries')
  BY <1>2, TurnNext
<1>5. QED
  BY <1>1, <1>3, <1>4 DEF Contract!Provision, Entries

LEMMA RunnerStep ==
  ASSUME SessionType, [Next]_vars
  PROVE  [Contract!Next]_<<Entries, Under>>
<1>1. CASE UNCHANGED vars
  BY <1>1, MovesWithin DEF vars, record, session
<1>2. CASE \/ \E n \in Node : NginxRestarts(n)
           \/ TimePasses \/ EditConfig \/ Renew
           \/ HookChain \/ HookKey \/ HookReload \/ HookCopy \/ HookRefused \/ HookBreaks
  <2>1. UNCHANGED <<record, session>>
    BY <1>2 DEF NginxRestarts, TimePasses, EditConfig, Renew, HookChain, HookKey, HookReload, HookCopy,
       HookRefused, HookBreaks
  <2>2. QED
    BY <2>1, MovesWithin DEF record, session
<1>3. CASE \E replay \in SUBSET {"tls", "nginx-keepalived"} : Provision(replay)
  BY <1>3, ProvisionKeeps DEF Contract!Next
<1>4. QED
  BY <1>1, <1>2, <1>3, TlsRuns, NginxRuns, BreakKeeps DEF Next

\* The tls and nginx-keepalived phases, whatever breaks off, come under way and are
\* recorded as the contract of the runner says (base.py:134-185); certbot's timer and its
\* hook leave their entries alone.
THEOREM RunsAsRunner == Spec => ImplementsPipeline
<1>1. Init => Contract!Init
  BY DEF Init, Under, TlsStages, NginxStages, Contract!Init
<1>2. SessionType /\ [Next]_vars => [Contract!Next]_<<Entries, Under>>
  BY RunnerStep
<1>3. TypeOK => SessionType
  BY DEF TypeOK
<1>4. QED
  BY <1>1, <1>2, <1>3, TypeCorrect, PTL DEF Spec, ImplementsPipeline, Contract!Spec, Entries

=============================================================================
