----------------------------- MODULE OperatorProofs -----------------------------
(***************************************************************************)
(* What an operator looks at and does beside a site that lives on: the      *)
(* dashboard, for any number of refreshes, changes and hung queries, and    *)
(* ldap-reconcile, for any sources, accounts, identifiers and changes made  *)
(* by others meanwhile.                                                     *)
(***************************************************************************)
EXTENDS LdapReconcile, Monitor, FiniteSetTheorems, TLAPS

-----------------------------------------------------------------------------
(* ldap-reconcile.                                                          *)

\* Questions are asked once, only a command that was told yes goes on, and only one
\* that looks has an answer in hand.
Asked ==
  /\ ~Looking => cur = {}
  /\ pc = "plan" => confirmed = {}
  /\ pc \in {"apply", "verify"} => confirmed # {}
  /\ pc \in {"idle", "plan", "verify"} => held = {}

\* The answer of the source whose rows come next is what the directory holds, ...
Heard ==
  Looking => \A p \in Pairs : p[1] \in cur /\ p \notin touched => live[p] = ldap[p]

\* ... and every row of a source already read shows both sides as they are.
Shown(p) == \E r \in rows : r.pair = p /\ r.stored = stored[p] /\ r.live = ldap[p]

Read(p) == p[1] \in slugs /\ p[1] \notin todo \cup cur \cup unseen /\ p \notin touched

Seen ==
  Looking => \A p \in Pairs : Read(p) /\ Wanted(p) /\ stored[p] # None => Shown(p)

IInv == TypeOK /\ Asked /\ Heard /\ Seen /\ EarlierChangeKept /\ ZeroIsReconciled

LEMMA Counted ==
  ASSUME moves \in 0..MaxMoves, Move
  PROVE  moves' \in 0..MaxMoves
BY LdapAssumption DEF Move

LEMMA InitInv == Init => IInv
<1> SUFFICES ASSUME Init PROVE IInv
  OBVIOUS
<1>1. WorldType /\ LookType /\ ApplyType
  BY DEF Init, WorldType, LookType, ApplyType
<1>2. TypeOK
  BY <1>1, LdapAssumption DEF Init, TypeOK
<1>3. Asked /\ Heard /\ Seen /\ EarlierChangeKept /\ ZeroIsReconciled
  BY DEF Init, Asked, Heard, Seen, EarlierChangeKept, ZeroIsReconciled, Looking
<1>4. QED
  BY <1>2, <1>3 DEF IInv

\* A process that begins or is cut has nothing in memory.
LEMMA FreshInv ==
  ASSUME IInv, Cut \/ \E which \in SUBSET Sources : Run(which)
  PROVE  IInv'
<1> USE DEF IInv
<1>1. UNCHANGED outside /\ moves' \in 0..MaxMoves
  BY Counted DEF Cut, Run, TypeOK
<1>2. /\ pc' \in {"idle", "plan"} /\ rc' \in 0..2
      /\ pc' = "idle" => rc' = 1
      /\ \E which \in SUBSET Sources : Forget(which)
  BY DEF Cut, Run, Exit, TypeOK
<1>3. LookType' /\ ApplyType' /\ ok' \in BOOLEAN
  BY <1>2 DEF Forget, LookType, ApplyType
<1>4. TypeOK'
  BY <1>1, <1>2, <1>3 DEF TypeOK, WorldType, outside
<1>5. Asked' /\ Heard' /\ EarlierChangeKept' /\ ZeroIsReconciled'
  BY <1>2 DEF Forget, Looking, Asked, Heard, EarlierChangeKept, ZeroIsReconciled
<1>6. Seen'
  BY <1>2 DEF Forget, Seen, Read
<1>7. QED
  BY <1>4, <1>5, <1>6

\* The three ways a command ends by itself.
LEMMA EndInv ==
  ASSUME IInv, Refuse \/ Leave \/ Verdict
  PROVE  IInv'
<1> USE DEF IInv
<1>1. /\ UNCHANGED <<outside, slugs, look, apply, ok, touched, moves>>
      /\ pc' = "idle" /\ rc' \in 0..2
  BY DEF Refuse, Leave, Verdict, Exit
<1>2. TypeOK'
  BY <1>1 DEF TypeOK, WorldType, LookType, ApplyType, outside, look, apply
<1>3. Asked' /\ Heard' /\ Seen' /\ EarlierChangeKept'
  BY <1>1 DEF TypeOK, LookType, look, Asked, Heard, Seen, EarlierChangeKept, Looking, Refuse, Leave, Verdict, outside, apply
<1>4. ZeroIsReconciled'
  <2> SUFFICES ASSUME rc' = 0, NEW p \in Pairs,
                      p[1] \in slugs \ unseen, p \notin touched
               PROVE  \/ Agrees(p)
                      \/ confirmed = {} /\ \E r \in Drifted : r.pair = p
                      \/ confirmed # {} /\ ~ \E r \in confirmed : r.pair[2] = p[2]
    BY <1>1 DEF ZeroIsReconciled, Agrees, Drifted, Same, outside, look, apply
  <2>1. CASE Leave
    <3>1. Read(p) /\ Wanted(p) /\ Looking /\ confirmed = {}
      BY <2>1 DEF Leave, Read, Wanted, Looking, Asked
    <3>2. stored[p] = None \/ Shown(p)
      BY <3>1 DEF Seen
    <3>3. QED
      BY <3>1, <3>2 DEF Shown, Drifted, Same, Agrees
  <2>2. CASE Verdict
    <3>1. Read(p) /\ Looking /\ confirmed # {} /\ \A r \in rows : Same(r)
      BY <2>2 DEF Verdict, Exit, Read, Looking, Asked
    <3>2. Wanted(p) => stored[p] = None \/ Shown(p)
      BY <3>1 DEF Seen
    <3>3. Wanted(p) => Agrees(p)
      BY <3>1, <3>2 DEF Shown, Same, Agrees
    <3>4. QED
      BY <3>1, <3>3, <2>2 DEF Wanted, Verdict
  <2>3. CASE Refuse
    BY <2>3 DEF Refuse, Exit
  <2>4. QED
    BY <2>1, <2>2, <2>3
<1>5. QED
  BY <1>2, <1>3, <1>4

\* The search: what it finds is what the directory holds.
LEMMA SearchInv ==
  ASSUME IInv, NEW s \in Sources, Search(s) \/ SearchFails(s)
  PROVE  IInv'
<1> USE DEF IInv
<1>1. UNCHANGED <<ldap, stored, down, pc, slugs, rows, confirmed, left, held, raced, ok, rc, moves>>
  BY DEF Search, SearchFails, outside, apply
<1>2. Looking /\ s \in slugs /\ cur = {}
  BY DEF Search, SearchFails, TypeOK, LookType
<1>3. LookType'
  BY <1>1, <1>2 DEF Search, SearchFails, TypeOK, LookType, WorldType
<1>4. TypeOK'
  BY <1>1, <1>3 DEF TypeOK, WorldType, ApplyType, Row
<1>5. Asked' /\ EarlierChangeKept' /\ ZeroIsReconciled'
  BY <1>1, <1>2 DEF Asked, EarlierChangeKept, ZeroIsReconciled, Looking
<1>6. Heard'
  BY <1>1, <1>2 DEF Heard, Search, SearchFails, TypeOK, LookType
<1>7. Seen'
  <2> SUFFICES ASSUME NEW p \in Pairs, Read(p)', Wanted(p), stored[p] # None
               PROVE  Shown(p)
    BY <1>1 DEF Seen, Wanted, Shown
  <2>1. Read(p)
    BY <1>1, <1>2 DEF Read, Search, SearchFails
  <2>2. QED
    BY <1>2, <2>1 DEF Seen
<1>8. QED
  BY <1>4, <1>5, <1>6, <1>7

\* The rows: each shows what is on file beside what was found.
LEMMA RowsInv ==
  ASSUME IInv, ReadRows
  PROVE  IInv'
<1> USE DEF IInv
<1>1. UNCHANGED <<ldap, stored, down, pc, slugs, todo, unseen, confirmed, left, held, raced, ok, rc,
                  touched, moves>>
  BY DEF ReadRows, outside, apply
<1>2. Looking /\ cur' = {} /\ rows \subseteq rows'
  BY DEF ReadRows, Asked
<1>3. rows' \subseteq Row
  BY DEF ReadRows, TypeOK, LookType, WorldType, Row
<1>4. TypeOK'
  BY <1>1, <1>2, <1>3 DEF ReadRows, TypeOK, WorldType, LookType, ApplyType
<1>5. Asked' /\ Heard' /\ EarlierChangeKept' /\ ZeroIsReconciled'
  BY <1>1, <1>2 DEF Asked, Heard, EarlierChangeKept, ZeroIsReconciled, Looking
<1>6. Seen'
  <2> SUFFICES ASSUME NEW p \in Pairs, Read(p)', Wanted(p), stored[p] # None
               PROVE  Shown(p)'
    BY <1>1 DEF Seen, Wanted
  <2>1. CASE p[1] \in cur
    <3> DEFINE r == [pair |-> p, stored |-> stored[p], live |-> live[p]]
    <3>1. live[p] = ldap[p]
      BY <1>1, <1>2, <2>1 DEF Heard, Read
    <3>2. r \in rows'
      BY <2>1 DEF ReadRows
    <3>3. r.pair = p /\ r.stored = stored'[p] /\ r.live = ldap'[p]
      BY <1>1, <3>1
    <3>4. QED
      BY <3>2, <3>3 DEF Shown
  <2>2. CASE p[1] \notin cur
    <3>1. Read(p)
      BY <1>1, <2>2 DEF Read
    <3>2. Shown(p)
      BY <1>2, <3>1 DEF Seen
    <3>3. QED
      BY <1>1, <1>2, <3>2 DEF Shown
  <2>3. QED
    BY <2>1, <2>2
<1>7. QED
  BY <1>4, <1>5, <1>6

\* The questions, and the way back to looking.
LEMMA TurnInv ==
  ASSUME IInv, BeginVerify \/ \E yes \in SUBSET rows : Confirm(yes)
  PROVE  IInv'
<1> USE DEF IInv
<1>1. UNCHANGED <<outside, slugs, cur, live, held, raced, ok, rc, touched, moves>>
  BY DEF BeginVerify, Confirm, look, apply
<1>2. pc' \in {"apply", "verify"} /\ cur = {} /\ held = {}
  BY DEF BeginVerify, Confirm, Asked, Looking, TypeOK, ApplyType
<1>3. LookType' /\ ApplyType'
  BY <1>1, <1>2 DEF BeginVerify, Confirm, TypeOK, LookType, ApplyType, look, apply
<1>4. TypeOK'
  BY <1>1, <1>2, <1>3 DEF TypeOK, WorldType, outside
<1>5. Asked' /\ Heard' /\ EarlierChangeKept' /\ ZeroIsReconciled'
  BY <1>1, <1>2
     DEF BeginVerify, Confirm, Asked, Heard, EarlierChangeKept, ZeroIsReconciled, Looking, apply
<1>6. Seen'
  BY <1>1, <1>2 DEF BeginVerify, Confirm, Seen, Read, Looking
<1>7. QED
  BY <1>4, <1>5, <1>6

\* The script: what has been compared is written, or somebody was quicker.
LEMMA ScriptInv ==
  ASSUME IInv, NEW r \in left, Skip(r) \/ Compare(r) \/ Save(r)
  PROVE  IInv'
<1> USE DEF IInv
<1>1. UNCHANGED <<ldap, down, pc, slugs, look, confirmed, rc, touched, moves>> /\ pc = "apply"
  BY DEF Skip, Compare, Save, outside
<1>2. r \in Row /\ (Save(r) => r \in held)
  BY DEF TypeOK, ApplyType, Save
<1>3. WorldType' /\ ApplyType' /\ ok' \in BOOLEAN
  <2>1. r.pair \in Pairs /\ r.live \in Ids \cup {None}
    BY <1>2 DEF Row
  <2>2. WorldType'
    BY <1>1, <2>1 DEF Skip, Compare, Save, TypeOK, WorldType, outside
  <2>3. ApplyType' /\ ok' \in BOOLEAN
    BY <1>1 DEF Skip, Compare, Save, TypeOK, ApplyType
  <2>4. QED
    BY <2>2, <2>3
<1>4. TypeOK'
  BY <1>1, <1>3 DEF TypeOK, LookType, look
<1>5. Asked' /\ Heard' /\ Seen' /\ ZeroIsReconciled'
  BY <1>1 DEF Asked, Heard, Seen, ZeroIsReconciled, Looking, look
<1>6. EarlierChangeKept'
  BY DEF EarlierChangeKept, Skip, Compare, Save, outside
<1>7. QED
  BY <1>4, <1>5, <1>6

\* Everybody else: an account they change is marked.
LEMMA OthersInv ==
  ASSUME IInv, Others
  PROVE  IInv'
<1> USE DEF IInv
<1>1. UNCHANGED <<pc, slugs, todo, cur, live, rows, unseen, confirmed, left, held, ok, rc>>
  BY DEF Others, Reissue, Rewrite, GoDown, ComeBack, look, apply
<1>2. /\ touched \subseteq touched' /\ touched' \subseteq Pairs
      /\ \A p \in Pairs \ touched' : ldap'[p] = ldap[p] /\ stored'[p] = stored[p]
  BY DEF Others, Reissue, Rewrite, GoDown, ComeBack, TypeOK, WorldType, LookType
<1>3. WorldType'
  BY DEF Others, Reissue, Rewrite, GoDown, ComeBack, TypeOK, WorldType
<1>4. raced' \in BOOLEAN
  BY DEF Others, Reissue, Rewrite, GoDown, ComeBack, TypeOK, ApplyType, apply
<1>5. moves' \in 0..MaxMoves
  BY Counted DEF Others, Reissue, Rewrite, GoDown, ComeBack, TypeOK
<1>6. TypeOK'
  BY <1>1, <1>2, <1>3, <1>4, <1>5 DEF TypeOK, LookType, ApplyType
<1>7. Asked' /\ Heard'
  BY <1>1, <1>2 DEF Asked, Heard, Looking
<1>8. Seen'
  <2> SUFFICES ASSUME NEW p \in Pairs, Read(p)', Wanted(p), Looking, stored'[p] # None
               PROVE  Shown(p)'
    BY <1>1 DEF Seen, Wanted, Looking
  <2>1. Read(p) /\ ldap'[p] = ldap[p] /\ stored'[p] = stored[p]
    BY <1>1, <1>2 DEF Read
  <2>2. Shown(p)
    BY <2>1 DEF Seen
  <2>3. QED
    BY <1>1, <2>1, <2>2 DEF Shown
<1>9. EarlierChangeKept'
  <2>1. CASE \E p \in Pairs : Rewrite(p)
    <3>1. PICK p \in Pairs : Rewrite(p)
      BY <2>1
    <3>2. ASSUME NEW r \in held, ~raced'
          PROVE  stored'[r.pair] = r.stored
      <4>1. r.pair # p /\ ~raced
        BY <3>1, <3>2 DEF Rewrite
      <4>2. r.pair \in Pairs
        BY DEF TypeOK, ApplyType, Row
      <4>3. stored'[r.pair] = stored[r.pair]
        BY <3>1, <4>1, <4>2 DEF Rewrite, TypeOK, WorldType
      <4>4. QED
        BY <4>1, <4>3 DEF EarlierChangeKept
    <3>3. QED
      BY <1>1, <3>2 DEF EarlierChangeKept
  <2>2. CASE UNCHANGED stored /\ UNCHANGED raced
    BY <1>1, <2>2 DEF EarlierChangeKept
  <2>3. QED
    BY <2>1, <2>2 DEF Others, Reissue, GoDown, ComeBack, apply
<1>10. ZeroIsReconciled'
  <2> SUFFICES ASSUME pc = "idle", rc = 0, NEW p \in Pairs,
                      p[1] \in slugs \ unseen, p \notin touched'
               PROVE  \/ Agrees(p)'
                      \/ confirmed = {} /\ \E r \in Drifted : r.pair = p
                      \/ confirmed # {} /\ ~ \E r \in confirmed : r.pair[2] = p[2]
    BY <1>1 DEF ZeroIsReconciled, Drifted, Same
  <2>1. p \notin touched /\ ldap'[p] = ldap[p] /\ stored'[p] = stored[p]
    BY <1>2
  <2>2. Agrees(p)' <=> Agrees(p)
    BY <2>1 DEF Agrees
  <2>3. QED
    BY <2>1, <2>2 DEF ZeroIsReconciled
<1>11. QED
  BY <1>6, <1>7, <1>8, <1>9, <1>10

LEMMA NextInv == IInv /\ [Next]_vars => IInv'
<1> SUFFICES ASSUME IInv, [Next]_vars PROVE IInv'
  OBVIOUS
<1>1. CASE Cut \/ \E which \in SUBSET Sources : Run(which)
  BY <1>1, FreshInv
<1>2. CASE Refuse \/ Leave \/ Verdict
  BY <1>2, EndInv
<1>3. CASE \E s \in Sources : Search(s) \/ SearchFails(s)
  BY <1>3, SearchInv
<1>4. CASE ReadRows
  BY <1>4, RowsInv
<1>5. CASE BeginVerify \/ \E yes \in SUBSET rows : Confirm(yes)
  BY <1>5, TurnInv
<1>6. CASE \E r \in left : Skip(r) \/ Compare(r) \/ Save(r)
  BY <1>6, ScriptInv
<1>7. CASE Others
  BY <1>7, OthersInv
<1>8. CASE UNCHANGED vars
  BY <1>8 DEF vars, outside, look, apply, IInv, TypeOK, WorldType, LookType, ApplyType, Asked, Heard,
       Seen, Read, Wanted, Shown, Looking, EarlierChangeKept, ZeroIsReconciled, Agrees, Drifted, Same
<1>9. QED
  BY <1>1, <1>2, <1>3, <1>4, <1>5, <1>6, <1>7, <1>8 DEF Next, Command

LEMMA Invariance == Spec => []IInv
<1>1. Init => IInv
  BY InitInv
<1>2. IInv /\ [Next]_vars => IInv'
  BY NextInv
<1>3. QED
  BY <1>1, <1>2, PTL DEF Spec

-----------------------------------------------------------------------------

\* The world, the report and the script's list keep their types.
THEOREM TypeCorrect == Spec => []TypeOK
<1>1. IInv => TypeOK
  BY DEF IInv
<1>2. QED
  BY <1>1, Invariance, PTL

\* Exit 0 never claims more than was looked at and found in step (run, 220-265).
THEOREM ZeroIsTrue == Spec => []ZeroIsReconciled
<1>1. IInv => ZeroIsReconciled
  BY DEF IInv
<1>2. QED
  BY <1>1, Invariance, PTL

\* A row about to be written still holds what the operator was shown, or has changed
\* since it was compared (_apply_script).
THEOREM ChangeKept == Spec => []EarlierChangeKept
<1>1. IInv => EarlierChangeKept
  BY DEF IInv
<1>2. QED
  BY <1>1, Invariance, PTL

-----------------------------------------------------------------------------
(* The dashboard.                                                           *)

\* The two answers that depend on the config, with the config as an argument.
ApiOf(c, w) == (IF c.topology = "single" THEN First ELSE w.vip) \in w.up["authentik"]
QueueOf(c, w) == IF ~c.token THEN "untold" ELSE IF ApiOf(c, w) THEN w.queue ELSE "unreachable"
WorkersOf(c, w) == IF ~c.token THEN "untold" ELSE IF ApiOf(c, w) THEN w.workers ELSE "unreachable"
CentralOf(c, d) == IF c.topology = "single" THEN CentralSingle(d) ELSE CentralHa(d)

\* At most one node leads, and nobody streams without a running primary.
Sound(w) ==
  /\ \A m, n \in Nodes : {w.patroni[m], w.patroni[n]} \subseteq {"primary", "starting"} => m = n
  /\ \A n \in Nodes : w.patroni[n] = "streaming" => \E p \in Nodes : w.patroni[p] = "primary"

\* What a thread has met: some worlds, all of them sound.
Met(ws) ==
  /\ ws # {} /\ IsFiniteSet(ws)
  /\ \A w \in ws : w \in Worlds /\ Sound(w)

\* Every part of an answer is of a world met.
RolesTold(answer, ws) == \A n \in Nodes : \E w \in ws : answer[n] = CheckPatroni(w, n)

PartsTold(c, d, ws) ==
  /\ \A n \in Nodes : \E w \in ws : d.authentik[n] = CheckAuthentik(w, n)
  /\ \A n \in Nodes : \E w \in ws : d.nginx[n] = CheckNginx(w, n)
  /\ \E w \in ws : d.queue = QueueOf(c, w)
  /\ \E w \in ws : d.workers = WorkersOf(c, w)

NodesTold(d, ws) ==
  /\ RolesTold(d.patroni, ws)
  /\ \A n \in Nodes : \E w \in ws : d.keepalived[n] = CheckKeepalived(w, n)
  /\ \A n \in Nodes : \E w \in ws : d.etcd[n] = CheckEtcd(w, n)
  /\ \A n \in Nodes : \E w \in ws : d.haproxy[n] = CheckHaproxy(w, n)

\* Slots are those of a node seen to lead and, later, to run as primary.
SlotsTold(d, ws) ==
  d.slots # NoNode =>
    d.slots \in Nodes /\ LeaderLine(d, d.slots) /\ \E w \in ws : w.patroni[d.slots] = "primary"

\* What may be handed to the screen, over the worlds its refresh has met.
Answered(c, d, ws) ==
  /\ Met(ws)
  /\ d.panel = c.topology
  /\ PartsTold(c, d, ws)
  /\ c.topology # "single" => NodesTold(d, ws) /\ SlotsTold(d, ws)

Probing(t) == t.at = "probing" /\ DOMAIN t = {"at", "span"} /\ Met(t.span)

AskingSlots(c, t) ==
  /\ t.at \in {"asking", "hung"} /\ DOMAIN t = {"at", "span", "patroni", "asked", "since"}
  /\ c.topology # "single" /\ Met(t.span) /\ Met(t.since)
  /\ RolesTold(t.patroni, t.span)
  /\ t.asked # NoNode => t.asked \in Nodes /\ t.patroni[t.asked].ok /\ t.patroni[t.asked].leader

Gathered(c, t) == t.at = "gathered" /\ DOMAIN t = {"at", "span", "data"} /\ Answered(c, t.data, t.span)

Thread(c, t) ==
  \/ t.at = "idle" /\ DOMAIN t = {"at"}
  \/ Probing(t) \/ AskingSlots(c, t) \/ Gathered(c, t)

OnScreen(c, d, dot, ws) ==
  \/ d = Checking /\ dot = "grey" /\ ws = {}
  \/ Answered(c, d, ws) /\ dot = CentralOf(c, d)

Present ==
  /\ site \in Configs /\ changes \in 0..MaxChanges /\ hangs \in 0..MaxHangs
  /\ world \in Worlds /\ Sound(world)

Threads == DOMAIN refresh = Refreshes /\ \A r \in Refreshes : Thread(site, refresh[r])

MonitorInv == Present /\ Threads /\ OnScreen(site, shown, central, during)

LEMMA MetOne ==
  ASSUME NEW w \in Worlds, Sound(w)
  PROVE  Met({w})
BY FS_Singleton DEF Met

LEMMA MetBoth ==
  ASSUME NEW vs, Met(vs), NEW ws, Met(ws)
  PROVE  Met(vs \cup ws)
BY FS_Union DEF Met

\* A change of the site leaves every thread with what it may have met.
Grown(t, w) ==
  [f \in DOMAIN t |->
     IF \/ f = "span" /\ t.at \in {"probing", "asking"}
        \/ f = "since" /\ t.at \in {"asking", "hung"}
     THEN t[f] \cup {w} ELSE t[f]]

LEMMA ThreadGrows ==
  ASSUME NEW c, NEW t, Thread(c, t), NEW w \in Worlds, Sound(w)
  PROVE  Thread(c, Grown(t, w))
<1> DEFINE g == Grown(t, w)
<1>0. Met({w})
  BY MetOne
<1>1. CASE t.at = "idle" /\ DOMAIN t = {"at"}
  BY <1>1 DEF Thread, Grown
<1>2. CASE Probing(t)
  <2>1. g.at = "probing" /\ DOMAIN g = {"at", "span"} /\ g.span = t.span \cup {w}
    BY <1>2 DEF Probing, Grown
  <2>2. Met(g.span)
    BY <1>0, <1>2, <2>1, MetBoth DEF Probing
  <2>3. QED
    BY <2>1, <2>2 DEF Thread, Probing
<1>3. CASE AskingSlots(c, t)
  <2>1. /\ g.at = t.at /\ DOMAIN g = DOMAIN t
        /\ g.patroni = t.patroni /\ g.asked = t.asked
        /\ g.span \in {t.span, t.span \cup {w}} /\ g.since = t.since \cup {w}
    BY <1>3 DEF AskingSlots, Grown
  <2>2. Met(g.span) /\ Met(g.since)
    <3>1. Met(t.span) /\ Met(t.since)
      BY <1>3 DEF AskingSlots
    <3>2. Met(t.span \cup {w}) /\ Met(t.since \cup {w})
      BY <1>0, <3>1, MetBoth
    <3>3. QED
      BY <2>1, <3>1, <3>2
  <2>3. RolesTold(g.patroni, g.span)
    BY <1>3, <2>1 DEF AskingSlots, RolesTold
  <2>4. QED
    BY <1>3, <2>1, <2>2, <2>3 DEF Thread, AskingSlots
<1>4. CASE Gathered(c, t)
  <2>1. g.at = t.at /\ DOMAIN g = DOMAIN t /\ g.data = t.data /\ g.span = t.span
    BY <1>4 DEF Gathered, Grown
  <2>2. QED
    BY <1>4, <2>1 DEF Thread, Gathered
<1>5. QED
  BY <1>1, <1>2, <1>3, <1>4 DEF Thread

LEMMA BecomesInv ==
  ASSUME MonitorInv, NEW w \in Worlds, Sound(w), Becomes(w)
  PROVE  MonitorInv'
<1>1. Present'
  BY MonitorAssumption DEF MonitorInv, Present, Becomes
<1>2. DOMAIN refresh' = Refreshes /\ \A r \in Refreshes : refresh'[r] = Grown(refresh[r], w)
  BY DEF Becomes, Grown, Running, Asking
<1>3. Threads'
  <2>1. site' = site
    BY DEF Becomes
  <2>2. ASSUME NEW r \in Refreshes
        PROVE  Thread(site, Grown(refresh[r], w))
    BY ThreadGrows DEF MonitorInv, Threads
  <2>3. QED
    BY <1>2, <2>1, <2>2 DEF Threads
<1>4. OnScreen(site, shown, central, during)'
  BY DEF MonitorInv, Becomes, screen
<1>5. QED
  BY <1>1, <1>3, <1>4 DEF MonitorInv

LEMMA ServicesInv ==
  ASSUME MonitorInv, ServiceChanges
  PROVE  MonitorInv'
<1>1. PICK s \in Services, n \in Nodes, up \in SUBSET Nodes :
        Becomes([world EXCEPT !.up[s] = up])
  <2>1. world.up \in [Services -> SUBSET Nodes]
    BY DEF MonitorInv, Present, Worlds
  <2>2. QED
    BY <2>1, MonitorAssumption DEF ServiceChanges, Services
<1>2. [world EXCEPT !.up[s] = up] \in Worlds
  BY DEF MonitorInv, Present, Worlds
<1>3. Sound([world EXCEPT !.up[s] = up])
  BY DEF MonitorInv, Present, Sound, Worlds
<1>4. QED
  BY <1>1, <1>2, <1>3, BecomesInv

\* Roles that change so that there is still one leader, and a primary for whoever streams.
LEMMA RolesInv ==
  ASSUME MonitorInv, NEW roles \in [Nodes -> Roles], Sound([world EXCEPT !.patroni = roles]),
         Becomes([world EXCEPT !.patroni = roles])
  PROVE  MonitorInv'
<1>1. [world EXCEPT !.patroni = roles] \in Worlds
  BY DEF MonitorInv, Present, Worlds
<1>2. QED
  BY <1>1, BecomesInv

LEMMA PrimaryLostInv ==
  ASSUME MonitorInv, PrimaryLost
  PROVE  MonitorInv'
<1>1. PICK p \in Nodes, to \in {"starting", "down"} :
        /\ world.patroni[p] = "primary"
        /\ Becomes([world EXCEPT !.patroni =
             [n \in Nodes |-> IF n = p THEN to ELSE IF @[n] = "streaming" THEN "stuck" ELSE @[n]]])
  BY DEF PrimaryLost
<1> DEFINE roles == [n \in Nodes |-> IF n = p THEN to
                       ELSE IF world.patroni[n] = "streaming" THEN "stuck" ELSE world.patroni[n]]
<1>2. world.patroni \in [Nodes -> Roles] /\ roles \in [Nodes -> Roles]
  BY DEF MonitorInv, Present, Worlds, Roles
<1>3. Becomes([world EXCEPT !.patroni = roles])
  BY <1>1
<1>4. [world EXCEPT !.patroni = roles].patroni = roles
  BY DEF MonitorInv, Present, Worlds
<1>5. Sound([world EXCEPT !.patroni = roles])
  BY <1>1, <1>2, <1>4 DEF MonitorInv, Present, Sound
<1>6. QED
  BY <1>2, <1>3, <1>5, RolesInv

LEMMA PromoteInv ==
  ASSUME MonitorInv, Promote
  PROVE  MonitorInv'
<1>1. PICK p \in Nodes :
        Becomes([world EXCEPT !.patroni =
          [n \in Nodes |-> IF n = p THEN "primary" ELSE IF @[n] = "down" THEN "down" ELSE "stuck"]])
  BY DEF Promote
<1> DEFINE roles == [n \in Nodes |-> IF n = p THEN "primary"
                       ELSE IF world.patroni[n] = "down" THEN "down" ELSE "stuck"]
<1>2. roles \in [Nodes -> Roles]
  BY DEF Roles
<1>3. Becomes([world EXCEPT !.patroni = roles])
  BY <1>1
<1>4. [world EXCEPT !.patroni = roles].patroni = roles
  BY DEF MonitorInv, Present, Worlds
<1>5. Sound([world EXCEPT !.patroni = roles])
  BY <1>4 DEF Sound
<1>6. QED
  BY <1>2, <1>3, <1>5, RolesInv

LEMMA ReplicaInv ==
  ASSUME MonitorInv, ReplicaChanges
  PROVE  MonitorInv'
<1>1. PICK n \in Nodes, to \in {"streaming", "stuck", "down"} :
        /\ world.patroni[n] \in {"streaming", "stuck", "down"}
        /\ to = "streaming" => \E p \in Nodes : world.patroni[p] = "primary"
        /\ Becomes([world EXCEPT !.patroni[n] = to])
  BY DEF ReplicaChanges
<1> DEFINE roles == [world.patroni EXCEPT ![n] = to]
<1>2. world.patroni \in [Nodes -> Roles] /\ roles \in [Nodes -> Roles]
  BY DEF MonitorInv, Present, Worlds, Roles
<1>3. Becomes([world EXCEPT !.patroni = roles])
  BY <1>1
<1>4. [world EXCEPT !.patroni = roles].patroni = roles
  BY DEF MonitorInv, Present, Worlds
<1>5. Sound([world EXCEPT !.patroni = roles])
  BY <1>1, <1>2, <1>4 DEF MonitorInv, Present, Sound
<1>6. QED
  BY <1>2, <1>3, <1>5, RolesInv

\* The address, the workers and the queue change under nobody's role.
LEMMA RestInv ==
  ASSUME MonitorInv, AddressMoves \/ WorkerChanges \/ QueueChanges
  PROVE  MonitorInv'
<1>1. PICK w \in Worlds : Becomes(w) /\ w.patroni = world.patroni
  <2>1. CASE AddressMoves
    <3>1. PICK h \in Nodes \cup {NoNode} : Becomes([world EXCEPT !.vip = h])
      BY <2>1 DEF AddressMoves
    <3>2. QED
      BY <3>1 DEF MonitorInv, Present, Worlds
  <2>2. CASE WorkerChanges
    <3>1. PICK k \in {"connected", "mismatched", "missing"} : Becomes([world EXCEPT !.workers = k])
      BY <2>2 DEF WorkerChanges
    <3>2. QED
      BY <3>1 DEF MonitorInv, Present, Worlds
  <2>3. CASE QueueChanges
    <3>1. PICK q \in {"clean", "warned", "failed"} : Becomes([world EXCEPT !.queue = q])
      BY <2>3 DEF QueueChanges
    <3>2. QED
      BY <3>1 DEF MonitorInv, Present, Worlds
  <2>4. QED
    BY <2>1, <2>2, <2>3
<1>2. Sound(w)
  BY <1>1 DEF MonitorInv, Present, Sound
<1>3. QED
  BY <1>1, <1>2, BecomesInv

\* The same three lines end every step of a thread: it goes on as a thread may.
LEMMA GoesInv ==
  ASSUME MonitorInv, NEW r \in Refreshes, NEW t, Thread(site, t), Goes(r, t),
         UNCHANGED <<site, world, changes>>, hangs' \in 0..MaxHangs,
         OnScreen(site, shown, central, during)'
  PROVE  MonitorInv'
<1>1. Threads'
  <2>1. DOMAIN refresh' = Refreshes /\ \A s \in Refreshes : refresh'[s] = IF s = r THEN t ELSE refresh[s]
    BY DEF Goes, MonitorInv, Threads
  <2>2. \A s \in Refreshes : Thread(site, refresh'[s])
    BY <2>1 DEF MonitorInv, Threads
  <2>3. QED
    BY <2>1, <2>2 DEF Threads
<1>2. QED
  BY <1>1 DEF MonitorInv, Present

LEMMA StartInv ==
  ASSUME MonitorInv, NEW r \in Refreshes, Start(r)
  PROVE  MonitorInv'
<1> DEFINE t == [at |-> "probing", span |-> {world}]
<1>1. Met({world})
  BY MetOne DEF MonitorInv, Present
<1>2. Thread(site, t)
  BY <1>1 DEF Thread, Probing
<1>3. QED
  BY <1>2, GoesInv DEF Start, screen, MonitorInv, Present

LEMMA FindPrimaryInv ==
  ASSUME MonitorInv, NEW r \in Refreshes, FindPrimary(r)
  PROVE  MonitorInv'
<1>1. PICK answer \in Answers(CheckPatroni, refresh[r].span), p \in Nodes \cup {NoNode} :
        /\ IF p = NoNode THEN \A n \in Nodes : ~answer[n].leader
                         ELSE answer[p].ok /\ answer[p].leader
        /\ Goes(r, [at |-> "asking", span |-> refresh[r].span, patroni |-> answer,
                    asked |-> p, since |-> {world}])
  BY DEF FindPrimary
<1> DEFINE t == [at |-> "asking", span |-> refresh[r].span, patroni |-> answer,
                 asked |-> p, since |-> {world}]
<1>2. Met({world})
  BY MetOne DEF MonitorInv, Present
<1>3. Met(refresh[r].span)
  BY DEF FindPrimary, MonitorInv, Threads, Thread, Probing, AskingSlots, Gathered
<1>4. RolesTold(answer, refresh[r].span)
  BY <1>1 DEF Answers, RolesTold
<1>5. Thread(site, t)
  BY <1>1, <1>2, <1>3, <1>4 DEF Thread, AskingSlots, FindPrimary, Single
<1>6. QED
  BY <1>1, <1>5, GoesInv DEF FindPrimary, screen, MonitorInv, Present

LEMMA HangInv ==
  ASSUME MonitorInv, NEW r \in Refreshes, Hang(r)
  PROVE  MonitorInv'
<1> DEFINE t == [refresh[r] EXCEPT !.at = "hung"]
<1>1. AskingSlots(site, refresh[r])
  BY DEF Hang, MonitorInv, Threads, Thread, Probing, AskingSlots, Gathered
<1>2. t.at = "hung" /\ DOMAIN t = DOMAIN refresh[r] /\ \A f \in DOMAIN t : f # "at" => t[f] = refresh[r][f]
  BY <1>1 DEF AskingSlots
<1>3. Thread(site, t)
  BY <1>1, <1>2 DEF Thread, AskingSlots
<1>4. hangs' \in 0..MaxHangs
  BY MonitorAssumption DEF Hang, MonitorInv, Present
<1>5. QED
  BY <1>3, <1>4, GoesInv DEF Hang, screen, MonitorInv, Present

LEMMA GatherInv ==
  ASSUME MonitorInv, NEW r \in Refreshes, Gather(r)
  PROVE  MonitorInv'
<1> DEFINE span == refresh[r].span
           since == refresh[r].since
<1>1. AskingSlots(site, refresh[r])
  BY DEF Gather, MonitorInv, Threads, Thread, Probing, AskingSlots, Gathered
<1>2. PICK vip \in {CheckVip(w) : w \in span},
       keepalived \in Answers(CheckKeepalived, span),
       etcd \in Answers(CheckEtcd, span),
       haproxy \in Answers(CheckHaproxy, span),
       authentik \in Answers(CheckAuthentik, span),
       nginx \in Answers(CheckNginx, span),
       queue \in {CheckQueue(w) : w \in span},
       workers \in {CheckWorkers(w) : w \in span},
       slots \in {CheckSlots(w, refresh[r].asked) : w \in since}
                 \cup (IF refresh[r].at = "hung" THEN {NoNode} ELSE {}) :
       Goes(r, [at |-> "gathered", span |-> span \cup since,
                data |-> [panel |-> "ha", vip |-> vip, keepalived |-> keepalived,
                          patroni |-> refresh[r].patroni, slots |-> slots,
                          etcd |-> etcd, haproxy |-> haproxy, authentik |-> authentik,
                          nginx |-> nginx, queue |-> queue, workers |-> workers]])
  BY DEF Gather
<1> DEFINE d == [panel |-> "ha", vip |-> vip, keepalived |-> keepalived,
                 patroni |-> refresh[r].patroni, slots |-> slots,
                 etcd |-> etcd, haproxy |-> haproxy, authentik |-> authentik,
                 nginx |-> nginx, queue |-> queue, workers |-> workers]
           t == [at |-> "gathered", span |-> span \cup since, data |-> d]
<1>3. Met(span \cup since)
  BY <1>1, MetBoth DEF AskingSlots
<1>4. PartsTold(site, d, span \cup since)
  <2>1. \A n \in Nodes : \E w \in span : authentik[n] = CheckAuthentik(w, n)
    BY <1>2 DEF Answers
  <2>2. \A n \in Nodes : \E w \in span : nginx[n] = CheckNginx(w, n)
    BY <1>2 DEF Answers
  <2>3. \E w \in span : queue = QueueOf(site, w)
    BY <1>2 DEF CheckQueue, QueueOf, ApiAnswers, PrimaryHost, Single, ApiOf
  <2>4. \E w \in span : workers = WorkersOf(site, w)
    BY <1>2 DEF CheckWorkers, WorkersOf, ApiAnswers, PrimaryHost, Single, ApiOf
  <2>5. QED
    BY <2>1, <2>2, <2>3, <2>4 DEF PartsTold
<1>5. NodesTold(d, span \cup since)
  <2>1. \A n \in Nodes : \E w \in span : keepalived[n] = CheckKeepalived(w, n)
    BY <1>2 DEF Answers
  <2>2. \A n \in Nodes : \E w \in span : etcd[n] = CheckEtcd(w, n)
    BY <1>2 DEF Answers
  <2>3. \A n \in Nodes : \E w \in span : haproxy[n] = CheckHaproxy(w, n)
    BY <1>2 DEF Answers
  <2>4. RolesTold(refresh[r].patroni, span \cup since)
    BY <1>1 DEF AskingSlots, RolesTold
  <2>5. QED
    BY <2>1, <2>2, <2>3, <2>4 DEF NodesTold
<1>6. SlotsTold(d, span \cup since)
  <2>1. slots # NoNode => \E w \in since : slots = refresh[r].asked /\ w.patroni[slots] = "primary"
    BY <1>2 DEF CheckSlots
  <2>2. QED
    BY <1>1, <2>1 DEF SlotsTold, AskingSlots, LeaderLine
<1>7. site.topology = "ha"
  BY <1>1 DEF AskingSlots, MonitorInv, Present, Configs
<1>8. Thread(site, t)
  BY <1>3, <1>4, <1>5, <1>6, <1>7 DEF Thread, Gathered, Answered
<1>9. QED
  BY <1>2, <1>8, GoesInv DEF Gather, screen, MonitorInv, Present

LEMMA GatherSingleInv ==
  ASSUME MonitorInv, NEW r \in Refreshes, GatherSingle(r)
  PROVE  MonitorInv'
<1> DEFINE span == refresh[r].span
<1>1. Met(span)
  BY DEF GatherSingle, MonitorInv, Threads, Thread, Probing, AskingSlots, Gathered
<1>2. PICK authentik \in Answers(CheckAuthentik, span),
       nginx \in Answers(CheckNginx, span),
       queue \in {CheckQueue(w) : w \in span},
       workers \in {CheckWorkers(w) : w \in span} :
       Goes(r, [at |-> "gathered", span |-> span,
                data |-> [panel |-> "single", authentik |-> authentik, nginx |-> nginx,
                          queue |-> queue, workers |-> workers]])
  BY DEF GatherSingle
<1> DEFINE d == [panel |-> "single", authentik |-> authentik, nginx |-> nginx,
                 queue |-> queue, workers |-> workers]
           t == [at |-> "gathered", span |-> span, data |-> d]
<1>3. PartsTold(site, d, span)
  <2>1. \A n \in Nodes : \E w \in span : authentik[n] = CheckAuthentik(w, n)
    BY <1>2 DEF Answers
  <2>2. \A n \in Nodes : \E w \in span : nginx[n] = CheckNginx(w, n)
    BY <1>2 DEF Answers
  <2>3. \E w \in span : queue = QueueOf(site, w)
    BY <1>2 DEF CheckQueue, QueueOf, ApiAnswers, PrimaryHost, Single, ApiOf
  <2>4. \E w \in span : workers = WorkersOf(site, w)
    BY <1>2 DEF CheckWorkers, WorkersOf, ApiAnswers, PrimaryHost, Single, ApiOf
  <2>5. QED
    BY <2>1, <2>2, <2>3, <2>4 DEF PartsTold
<1>4. Thread(site, t)
  BY <1>1, <1>3 DEF Thread, Gathered, Answered, GatherSingle, Single
<1>5. QED
  BY <1>2, <1>4, GoesInv DEF GatherSingle, screen, MonitorInv, Present

LEMMA ApplyInv ==
  ASSUME MonitorInv, NEW r \in Refreshes, Apply(r)
  PROVE  MonitorInv'
<1>1. Gathered(site, refresh[r])
  BY DEF Apply, MonitorInv, Threads, Thread, Probing, AskingSlots, Gathered
<1>2. Answered(site', shown', during') /\ central' = CentralOf(site', shown')
  BY <1>1 DEF Gathered, Apply, Single, CentralOf
<1>3. Thread(site, [at |-> "idle"])
  BY DEF Thread
<1>4. QED
  BY <1>2, <1>3, GoesInv DEF Apply, OnScreen, MonitorInv, Present

LEMMA MonitorBegins == MonitorInit => MonitorInv
<1> SUFFICES ASSUME MonitorInit PROVE MonitorInv
  OBVIOUS
<1>1. Present
  <2>1. Healthy \in Worlds /\ Sound(Healthy)
    BY MonitorAssumption DEF Healthy, Worlds, Services, Roles, Sound
  <2>2. world \in Worlds /\ Sound(world)
    <3>1. CASE world = Healthy
      BY <2>1, <3>1
    <3>2. ASSUME NEW s \in Weak, world = [Healthy EXCEPT !.up[s] = {First}]
          PROVE  world \in Worlds /\ Sound(world)
      <4>1. s \in Services
        BY MonitorAssumption DEF Services
      <4>2. Healthy.up \in [Services -> SUBSET Nodes]
        BY <2>1 DEF Worlds
      <4>3. world.patroni = Healthy.patroni /\ world \in Worlds
        BY <2>1, <3>2, <4>1, <4>2, MonitorAssumption DEF Worlds
      <4>4. QED
        BY <2>1, <4>3 DEF Sound
    <3>3. ASSUME world = [Healthy EXCEPT !.patroni = [n \in Nodes |-> IF n = First THEN "down" ELSE "stuck"]]
          PROVE  world \in Worlds /\ Sound(world)
      <4>1. [n \in Nodes |-> IF n = First THEN "down" ELSE "stuck"] \in [Nodes -> Roles]
        BY DEF Roles
      <4>2. /\ world.patroni = [n \in Nodes |-> IF n = First THEN "down" ELSE "stuck"]
            /\ world \in Worlds
        BY <2>1, <3>3, <4>1 DEF Worlds
      <4>3. QED
        BY <4>2 DEF Sound
    <3>4. QED
      BY <3>1, <3>2, <3>3 DEF MonitorInit, Beginnings
  <2>3. QED
    BY <2>1, <2>2, MonitorAssumption DEF MonitorInit, Present
<1>2. Threads
  BY DEF MonitorInit, Threads, Thread
<1>3. QED
  BY <1>1, <1>2 DEF MonitorInit, MonitorInv, OnScreen

LEMMA MonitorStep == MonitorInv /\ [MonitorNext]_monitorVars => MonitorInv'
<1> SUFFICES ASSUME MonitorInv, [MonitorNext]_monitorVars PROVE MonitorInv'
  OBVIOUS
<1>1. ASSUME NEW r \in Refreshes, Start(r) \/ Step(r) \/ Hang(r)
      PROVE  MonitorInv'
  BY <1>1, StartInv, FindPrimaryInv, HangInv, GatherInv, GatherSingleInv, ApplyInv DEF Step
<1>2. CASE ServiceChanges
  BY <1>2, ServicesInv
<1>3. CASE PrimaryLost
  BY <1>3, PrimaryLostInv
<1>4. CASE Promote
  BY <1>4, PromoteInv
<1>5. CASE ReplicaChanges
  BY <1>5, ReplicaInv
<1>6. CASE AddressMoves \/ WorkerChanges \/ QueueChanges
  BY <1>6, RestInv
<1>7. CASE UNCHANGED monitorVars
  BY <1>7 DEF monitorVars, MonitorInv, Present, Threads
<1>8. QED
  BY <1>1, <1>2, <1>3, <1>4, <1>5, <1>6, <1>7 DEF MonitorNext

LEMMA MonitorInvariance == MonitorSpec => []MonitorInv
BY MonitorBegins, MonitorStep, PTL DEF MonitorSpec

\* The config, the site, every thread, the panels and the dot keep their types.
THEOREM MonitorTypeCorrect == MonitorSpec => []MonitorTypes
<1>1. MonitorInv => MonitorTypes
  <2> SUFFICES ASSUME MonitorInv PROVE MonitorTypes
    OBVIOUS
  <2>1. \A r \in Refreshes : refresh[r].at \in {"idle", "probing", "asking", "hung", "gathered"}
    BY DEF MonitorInv, Threads, Thread, Probing, AskingSlots, Gathered
  <2>2. during \subseteq Worlds
    BY DEF MonitorInv, OnScreen, Answered, Met
  <2>3. IF shown = Checking THEN central = "grey"
        ELSE shown.panel = site.topology /\ central \in {"ok", "warn", "down"}
    <3>1. CASE shown = Checking /\ central = "grey" /\ during = {}
      BY <3>1
    <3>2. CASE Answered(site, shown, during) /\ central = CentralOf(site, shown)
      <4>1. shown.panel = site.topology /\ shown # Checking
        BY <3>2 DEF Answered, Checking, MonitorInv, Present, Configs
      <4>2. central \in {"ok", "warn", "down"}
        BY <3>2 DEF CentralOf, CentralSingle, CentralHa, WorstDot
      <4>3. QED
        BY <4>1, <4>2
    <3>3. QED
      BY <3>1, <3>2 DEF MonitorInv, OnScreen
  <2>4. QED
    BY <2>1, <2>2, <2>3 DEF MonitorTypes, MonitorInv, Present
<1>2. QED
  BY <1>1, MonitorInvariance, PTL

LEMMA LeadersAnswer ==
  ASSUME NEW w, NEW n
  PROVE  /\ CheckPatroni(w, n).leader <=> w.patroni[n] \in {"primary", "starting"}
         /\ CheckPatroni(w, n).ok <=> w.patroni[n] # "down"
         /\ CheckPatroni(w, n).healthy <=> w.patroni[n] \in {"primary", "streaming"}
BY DEF CheckPatroni

\* Whatever overlaps and changes meanwhile: slots shown are those of a shown leader that
\* was seen to run as primary after it had been seen to lead (action_refresh_now), and
\* two leader lines mean that the site changed under the refresh.
THEOREM SlotsAreOfLeader == MonitorSpec => []SlotsOfShownLeader
<1>1. MonitorInv => SlotsOfShownLeader
  <2> SUFFICES ASSUME MonitorInv, shown # Checking, ~Single PROVE
        /\ shown.slots # NoNode =>
             /\ LeaderLine(shown, shown.slots)
             /\ \E w \in during : w.patroni[shown.slots] = "primary"
        /\ \A m, n \in Nodes : LeaderLine(shown, m) /\ LeaderLine(shown, n) /\ m # n
             => Cardinality(during) > 1
    BY DEF SlotsOfShownLeader
  <2>1. Met(during) /\ NodesTold(shown, during) /\ SlotsTold(shown, during)
    BY DEF MonitorInv, OnScreen, Answered, Single
  <2>2. ASSUME NEW m \in Nodes, NEW n \in Nodes, LeaderLine(shown, m), LeaderLine(shown, n), m # n
        PROVE  Cardinality(during) > 1
    <3>1. PICK v \in during : shown.patroni[m] = CheckPatroni(v, m)
      BY <2>1 DEF NodesTold, RolesTold
    <3>2. PICK w \in during : shown.patroni[n] = CheckPatroni(w, n)
      BY <2>1 DEF NodesTold, RolesTold
    <3>3. v.patroni[m] \in {"primary", "starting"} /\ w.patroni[n] \in {"primary", "starting"}
      BY <2>2, <3>1, <3>2, LeadersAnswer DEF LeaderLine
    <3>4. v # w
      BY <2>1, <2>2, <3>3 DEF Met, Sound
    <3>5. {v, w} \subseteq during /\ Cardinality({v, w}) = 2
      <4>1. IsFiniteSet({v}) /\ Cardinality({v}) = 1
        BY FS_Singleton
      <4>2. Cardinality({v} \cup {w}) = 2
        BY <3>4, <4>1, FS_AddElement
      <4>3. QED
        BY <4>2
    <3>6. QED
      BY <2>1, <3>5, FS_Subset, FS_CardinalityType DEF Met
  <2>3. QED
    BY <2>1, <2>2 DEF SlotsTold
<1>2. QED
  BY <1>1, MonitorInvariance, PTL

-----------------------------------------------------------------------------
(* The dot.                                                                 *)

LEMMA OfThree ==
  ASSUME NEW S \in SUBSET Nodes
  PROVE  /\ Cardinality(S) \in 0..3
         /\ Cardinality(Nodes \ S) = 3 - Cardinality(S)
         /\ Cardinality(S) = 0 <=> S = {}
<1>1. IsFiniteSet(Nodes) /\ Cardinality(Nodes) = 3
  BY MonitorAssumption
<1>2. IsFiniteSet(S) /\ Cardinality(S) <= 3
  BY <1>1, FS_Subset
<1>3. Cardinality(S) \in Nat
  BY <1>2, FS_CardinalityType
<1>4. Cardinality(S) = 0 <=> S = {}
  BY <1>2, FS_EmptySet
<1>5. Nodes \cap S = S
  OBVIOUS
<1>6. Cardinality(Nodes \ S) = Cardinality(Nodes) - Cardinality(Nodes \cap S)
  BY <1>1, FS_Difference
<1>7. QED
  BY <1>1, <1>2, <1>3, <1>4, <1>5, <1>6

Majority(S) == 2 * Cardinality(S) > Cardinality(Nodes)

\* The thresholds over the failures, said of the nodes that serve.
LEMMA Thresholds ==
  ASSUME NEW S \in SUBSET Nodes, NEW f, f = Cardinality(Nodes \ S)
  PROVE  /\ f >= 3 <=> S = {}
         /\ f >= 2 <=> ~Majority(S)
BY OfThree, MonitorAssumption DEF Majority

\* Who is in its right state, by the roles.
RightState(w) == {n \in Nodes : w.patroni[n] \in {"primary", "streaming"}}

\* Over one world each count is of the nodes that do not serve in it.
LEMMA FailuresCounted ==
  ASSUME NEW w, NEW d, NodesTold(d, {w}), \A n \in Nodes : d.authentik[n] = CheckAuthentik(w, n)
  PROVE  /\ Failed(d.keepalived) = Cardinality(Nodes \ w.up["monitor"])
         /\ Failed(d.etcd) = Cardinality(Nodes \ w.up["etcd"])
         /\ Failed(d.haproxy) = Cardinality(Nodes \ w.up["haproxy"])
         /\ Failed(d.authentik) = Cardinality(Nodes \ w.up["authentik"])
         /\ PatroniFail(d.patroni) = Cardinality(Nodes \ RightState(w))
<1>1. {n \in Nodes : ~d.keepalived[n]} = Nodes \ w.up["monitor"]
  BY DEF NodesTold, CheckKeepalived
<1>2. {n \in Nodes : ~d.etcd[n]} = Nodes \ w.up["etcd"]
  BY DEF NodesTold, CheckEtcd
<1>3. {n \in Nodes : ~d.haproxy[n]} = Nodes \ w.up["haproxy"]
  BY DEF NodesTold, CheckHaproxy
<1>4. {n \in Nodes : ~d.authentik[n]} = Nodes \ w.up["authentik"]
  BY DEF CheckAuthentik
<1>5. {n \in Nodes : ~d.patroni[n].ok \/ ~d.patroni[n].healthy} = Nodes \ RightState(w)
  <2>1. \A n \in Nodes : d.patroni[n] = CheckPatroni(w, n)
    BY DEF NodesTold, RolesTold
  <2>2. ASSUME NEW n \in Nodes
        PROVE  (~d.patroni[n].ok \/ ~d.patroni[n].healthy) <=> w.patroni[n] \notin {"primary", "streaming"}
    <3>1. (~CheckPatroni(w, n).ok \/ ~CheckPatroni(w, n).healthy) <=> w.patroni[n] \notin {"primary", "streaming"}
      BY LeadersAnswer
    <3>2. QED
      BY <2>1, <3>1
  <2>3. QED
    BY <2>2 DEF RightState
<1>6. QED
  BY <1>1, <1>2, <1>3, <1>4, <1>5 DEF Failed, PatroniFail

ServingSets(w) == {w.up[s] : s \in Services \ {"stub_status"}} \cup {RightState(w)}

LEMMA HaVerdict ==
  ASSUME NEW w \in Worlds, Sound(w), NEW d, NodesTold(d, {w}),
         \A n \in Nodes : d.authentik[n] = CheckAuthentik(w, n)
  PROVE  /\ CentralHa(d) = "down" <=> {} \in ServingSets(w)
         /\ CentralHa(d) = "ok" <=> \A S \in ServingSets(w) : Majority(S)
         /\ (\A n \in Nodes : w.patroni[n] # "primary") => CentralHa(d) = "down"
<1> DEFINE served == {w.up["monitor"], RightState(w), w.up["etcd"], w.up["haproxy"], w.up["authentik"]}
<1>1. ServingSets(w) = served
  BY DEF ServingSets, Services
<1>2. \A S \in served : S \in SUBSET Nodes
  BY DEF Worlds, Services, RightState
<1>3. \E b1, b2 \in {0, 1} : AllFailures(d) = {Cardinality(Nodes \ S) : S \in served} \cup {b1, b2}
  <2> DEFINE b1 == IF d.queue \in {"unreachable", "failed"} THEN 1 ELSE 0
             b2 == IF d.workers \in {"unreachable", "missing"} THEN 1 ELSE 0
  <2>1. AllFailures(d) = {Cardinality(Nodes \ S) : S \in served} \cup {b1, b2}
    BY FailuresCounted DEF AllFailures
  <2>2. b1 \in {0, 1} /\ b2 \in {0, 1}
    OBVIOUS
  <2>3. QED
    BY <2>1, <2>2
<1>4. (\E f \in AllFailures(d) : f >= 3) <=> {} \in served
  <2>1. \A S \in served : Cardinality(Nodes \ S) >= 3 <=> S = {}
    BY <1>2, Thresholds
  <2> HIDE DEF served
  <2>2. PICK b1 \in {0, 1}, b2 \in {0, 1} :
          AllFailures(d) = {Cardinality(Nodes \ S) : S \in served} \cup {b1, b2}
    BY <1>3
  <2>3. ASSUME NEW f \in AllFailures(d), f >= 3
        PROVE  {} \in served
    <3>1. f \notin {b1, b2}
      BY <2>3
    <3>2. PICK S \in served : f = Cardinality(Nodes \ S)
      BY <2>2, <3>1
    <3>3. QED
      BY <2>1, <2>3, <3>2
  <2>4. ASSUME {} \in served
        PROVE  \E f \in AllFailures(d) : f >= 3
    <3>1. Cardinality(Nodes \ {}) \in AllFailures(d) /\ Cardinality(Nodes \ {}) >= 3
      BY <2>1, <2>2, <2>4
    <3>2. QED
      BY <3>1
  <2>5. QED
    BY <2>3, <2>4
<1>5. (\E f \in AllFailures(d) : f >= 2) <=> \E S \in served : ~Majority(S)
  BY <1>2, <1>3, Thresholds
<1>6. {} \in served => \E S \in served : ~Majority(S)
  BY <1>2, OfThree, MonitorAssumption DEF Majority
<1>7. (\A n \in Nodes : w.patroni[n] # "primary") => RightState(w) = {}
  BY DEF Sound, RightState
<1>8. QED
  BY <1>1, <1>4, <1>5, <1>6, <1>7 DEF CentralHa

LEMMA SingleVerdict ==
  ASSUME NEW c \in Configs, c.topology = "single", NEW w, NEW d, PartsTold(c, d, {w}),
         w.queue \in {"clean", "warned", "failed"},
         w.workers \in {"connected", "mismatched", "missing"}
  PROVE  CentralSingle(d) = "down" <=>
           ~(/\ First \in w.up["authentik"] /\ First \in w.up["stub_status"]
             /\ c.token => First \in w.up["authentik"] /\ w.queue # "failed" /\ w.workers # "missing")
<1>1. First \in Nodes
  BY MonitorAssumption
<1>2. /\ d.authentik[First] = CheckAuthentik(w, First) /\ d.nginx[First] = CheckNginx(w, First)
      /\ d.queue = QueueOf(c, w) /\ d.workers = WorkersOf(c, w)
  BY <1>1 DEF PartsTold
<1> DEFINE dots == {DotBinary(~d.authentik[First]), DotBinary(~d.nginx[First]),
                    QueueDot(d.queue), WorkersDot(d.workers)}
<1>3. CentralSingle(d) = "down" <=> "down" \in dots
  BY DEF CentralSingle, WorstDot
<1>4. DotBinary(~d.authentik[First]) = "down" <=> First \notin w.up["authentik"]
  BY <1>2 DEF DotBinary, CheckAuthentik
<1>5. DotBinary(~d.nginx[First]) = "down" <=> First \notin w.up["stub_status"]
  BY <1>2 DEF DotBinary, CheckNginx
<1>6. ApiOf(c, w) <=> First \in w.up["authentik"]
  BY DEF ApiOf
<1>7. c.token \in BOOLEAN
  BY DEF Configs
<1>8. QueueDot(d.queue) = "down" <=> c.token /\ (First \notin w.up["authentik"] \/ w.queue = "failed")
  BY <1>2, <1>6, <1>7 DEF QueueDot, QueueOf
<1>9. WorkersDot(d.workers) = "down" <=> c.token /\ (First \notin w.up["authentik"] \/ w.workers = "missing")
  BY <1>2, <1>6, <1>7 DEF WorkersDot, WorkersOf
<1>10. QED
  BY <1>3, <1>4, <1>5, <1>7, <1>8, <1>9

\* For any site that stood still under the refresh on the screen: the dot of an HA site is
\* red when some service is right nowhere, or no primary runs, green only when each
\* has its majority (_apply_updates); that of a single node is red when anything it
\* needs is (_apply_updates_single).
THEOREM VerdictTrue == MonitorSpec => []VerdictIsTrue
<1>1. MonitorInv => VerdictIsTrue
  <2> SUFFICES ASSUME MonitorInv, NEW w \in during, during = {w}
               PROVE
        LET Right == {n \in Nodes : w.patroni[n] \in {"primary", "streaming"}}
            Serving == {w.up[s] : s \in Services \ {"stub_status"}} \cup {Right}
            Most(S) == 2 * Cardinality(S) > Cardinality(Nodes)
            Api == site.token => First \in w.up["authentik"] /\ w.queue # "failed" /\ w.workers # "missing"
        IN IF Single
           THEN central = "down" <=> ~(First \in w.up["authentik"] /\ First \in w.up["stub_status"] /\ Api)
           ELSE /\ central = "down" <=> {} \in Serving
                /\ central = "ok" <=> \A S \in Serving : Most(S)
                /\ (\A n \in Nodes : w.patroni[n] # "primary") => central = "down"
    BY DEF VerdictIsTrue
  <2>1. Answered(site, shown, {w}) /\ central = CentralOf(site, shown)
    BY DEF MonitorInv, OnScreen
  <2>2. w \in Worlds /\ Sound(w) /\ PartsTold(site, shown, {w})
    BY <2>1 DEF Answered, Met
  <2>3. CASE Single
    <3>1. site \in Configs /\ site.topology = "single" /\ central = CentralSingle(shown)
      BY <2>1, <2>3 DEF Single, CentralOf, MonitorInv, Present
    <3>2. w.queue \in {"clean", "warned", "failed"} /\ w.workers \in {"connected", "mismatched", "missing"}
      BY <2>2 DEF Worlds
    <3>3. QED
      BY <2>2, <2>3, <3>1, <3>2, SingleVerdict
  <2>4. CASE ~Single
    <3>1. NodesTold(shown, {w}) /\ central = CentralHa(shown)
      BY <2>1, <2>4 DEF Answered, Single, CentralOf
    <3>2. \A n \in Nodes : shown.authentik[n] = CheckAuthentik(w, n)
      BY <2>2 DEF PartsTold
    <3>3. /\ CentralHa(shown) = "down" <=> {} \in ServingSets(w)
          /\ CentralHa(shown) = "ok" <=> \A S \in ServingSets(w) : Majority(S)
          /\ (\A n \in Nodes : w.patroni[n] # "primary") => CentralHa(shown) = "down"
      BY <2>2, <3>1, <3>2, HaVerdict
    <3>4. QED
      BY <2>4, <3>1, <3>3 DEF ServingSets, RightState, Majority
  <2>5. QED
    BY <2>3, <2>4
<1>2. QED
  BY <1>1, MonitorInvariance, PTL

-----------------------------------------------------------------------------
(* The screen does not go back.                                             *)

\* A thread that has met the present site only goes on doing so.
LEMMA SettledThread ==
  ASSUME MonitorInv, Settled, NEW r \in Refreshes,
         Start(r) \/ FindPrimary(r) \/ Hang(r) \/ Gather(r) \/ GatherSingle(r)
  PROVE  Settled'
<1>1. UNCHANGED <<world, during>>
  BY DEF Start, FindPrimary, Hang, Gather, GatherSingle, screen
<1>2. PICK rec : Goes(r, rec) /\ rec.span = {world} /\ (rec.at \in {"asking", "hung"} => rec.since = {world})
  <2>1. CASE Start(r)
    BY <2>1 DEF Start
  <2>2. CASE FindPrimary(r)
    BY <2>2 DEF FindPrimary, Settled
  <2>3. CASE Hang(r)
    <3>1. refresh[r].span = {world} /\ refresh[r].since = {world}
      BY <2>3 DEF Hang, Settled
    <3>2. AskingSlots(site, refresh[r])
      BY <2>3 DEF Hang, MonitorInv, Threads, Thread, Probing, Gathered
    <3>3. WITNESS [refresh[r] EXCEPT !.at = "hung"]
    <3>4. QED
      BY <2>3, <3>1, <3>2 DEF Hang, AskingSlots
  <2>4. CASE Gather(r)
    <3>1. refresh[r].span = {world} /\ refresh[r].since = {world}
      BY <2>4 DEF Gather, Settled
    <3>2. QED
      BY <2>4, <3>1 DEF Gather
  <2>5. CASE GatherSingle(r)
    BY <2>5 DEF GatherSingle, Settled
  <2>6. QED
    BY <2>1, <2>2, <2>3, <2>4, <2>5
<1>3. \A s \in Refreshes : refresh'[s] = IF s = r THEN rec ELSE refresh[s]
  BY <1>2 DEF Goes, MonitorInv, Threads
<1>4. QED
  BY <1>1, <1>2, <1>3 DEF Settled

\* Whatever overlaps or hangs: once the screen and every refresh that is out have met
\* the present site only, the screen stays current until the site changes.
THEOREM StaysCurrent == MonitorSpec => NeverGoesBack
<1>1. MonitorInv /\ [MonitorNext]_monitorVars
      => [Settled /\ world' = world => Settled']_monitorVars
  <2> SUFFICES ASSUME MonitorInv, MonitorNext, Settled, world' = world
      PROVE  Settled'
    BY DEF monitorVars
  <2>1. ASSUME NEW r \in Refreshes, Apply(r)
        PROVE  Settled'
    <3>1. during' = {world} /\ Goes(r, [at |-> "idle"])
      BY <2>1 DEF Apply, Settled
    <3>2. \A s \in Refreshes : refresh'[s] = IF s = r THEN [at |-> "idle"] ELSE refresh[s]
      BY <3>1 DEF Goes, MonitorInv, Threads
    <3>3. QED
      BY <3>1, <3>2 DEF Settled
  <2>2. ASSUME NEW w, Becomes(w)
        PROVE  FALSE
    BY <2>2 DEF Becomes
  <2>3. ~(ServiceChanges \/ PrimaryLost \/ Promote \/ ReplicaChanges \/ AddressMoves
          \/ WorkerChanges \/ QueueChanges)
    BY <2>2 DEF ServiceChanges, PrimaryLost, Promote, ReplicaChanges, AddressMoves, WorkerChanges,
       QueueChanges
  <2>4. QED
    BY <2>1, <2>3, SettledThread DEF MonitorNext, Step
<1>2. QED
  BY <1>1, MonitorInvariance, PTL DEF MonitorSpec, NeverGoesBack

=============================================================================
