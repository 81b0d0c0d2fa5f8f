---------------------------- MODULE LdapReconcile ----------------------------
(***************************************************************************)
(* `akro ldap-reconcile` (phases/ldap_reconcile.py, cli.cmd_ldap_reconcile): *)
(* search every LDAP source, compare each entry with the identifier that    *)
(* authentik has on file, ask the operator, repoint what was confirmed,     *)
(* look again.  The directory and authentik's table live on meanwhile: an   *)
(* identifier is reissued, a sync or another operator rewrites a row.       *)
(***************************************************************************)
EXTENDS Naturals

CONSTANTS
  Sources,    \* LDAP sources configured in authentik
  Pairs,      \* <<source, user>> that may be linked
  Ids,        \* identifiers the directory hands out
  None,       \* no entry in the directory, or no row on file
  MaxMoves    \* bound: changes by others, outages of a source and commands cut short

ASSUME LdapAssumption ==
  /\ \A p \in Pairs : p[1] \in Sources
  /\ None \notin Ids
  /\ MaxMoves \in Nat

VARIABLES
  ldap,       \* the identifier of each user's entry in each directory
  stored,     \* UserLDAPSourceConnection.identifier
  down,       \* sources that do not answer
  pc,         \* where the command is
  slugs,      \* the sources it is asked for: all, or the one of --source
  todo,       \* sources still to look at
  cur,        \* the source that has been searched and whose rows come next
  live,       \* what that search found
  rows,       \* the rows of the report
  confirmed,  \* the rows the operator said yes to
  left,       \* those not dealt with yet
  held,       \* the one whose identifier has been read and compared
  ok, rc,     \* all well so far; the exit code of the last command
  touched,    \* history: pairs somebody else has changed since they were looked at
  unseen,     \* history: sources the last look could not reach
  raced,      \* history: somebody else has changed the held row
  moves

outside == <<ldap, stored, down>>
look == <<todo, cur, live, rows, unseen>>
apply == <<confirmed, left, held, raced>>
vars == <<outside, pc, slugs, look, apply, ok, rc, touched, moves>>

Row == [pair : Pairs, stored : Ids, live : Ids \cup {None}]
Looking == pc \in {"plan", "verify"}

Init ==
  /\ ldap \in [Pairs -> Ids]
  /\ stored \in [Pairs -> Ids]
  /\ down = {}
  /\ pc = "idle" /\ slugs = {} /\ todo = {} /\ cur = {}
  /\ live = [p \in Pairs |-> None]
  /\ rows = {} /\ confirmed = {} /\ left = {} /\ held = {}
  /\ ok = TRUE /\ rc = 0
  /\ touched = {} /\ unseen = {} /\ raced = FALSE
  /\ moves = 0

-----------------------------------------------------------------------------
(* The command.                                                             *)

\* What a process has in memory, at the start.
Forget(which) ==
  /\ slugs' = which /\ todo' = which
  /\ cur' = {} /\ rows' = {} /\ unseen' = {}
  /\ live' = [p \in Pairs |-> None]
  /\ confirmed' = {} /\ left' = {} /\ held' = {}
  /\ ok' = TRUE /\ touched' = {} /\ raced' = FALSE

\* run, with --source (of a source that exists or not) or without.
Run(which) ==
  /\ pc = "idle"
  /\ which = Sources \/ which = {} \/ \E s \in Sources : which = {s}
  /\ pc' = "plan"
  /\ Forget(which)
  /\ UNCHANGED <<outside, rc, moves>>

Exit(code) ==
  /\ pc' = "idle"
  /\ rc' = code

\* No source of that name: refused, rather than "nothing to check".
Refuse ==
  /\ pc = "plan" /\ slugs = {}
  /\ Exit(2)
  /\ UNCHANGED <<outside, slugs, look, apply, ok, touched, moves>>

\* source.connection().search(...): one answer for the whole source.
Search(s) ==
  /\ Looking /\ s \in todo /\ cur = {}
  /\ s \notin down
  /\ todo' = todo \ {s} /\ cur' = {s}
  /\ live' = [p \in Pairs |-> IF p[1] = s THEN ldap[p] ELSE None]
  /\ touched' = {p \in touched : p[1] # s}
  /\ UNCHANGED <<outside, pc, slugs, rows, unseen, apply, ok, rc, moves>>

\* The search raises: a line on the screen, and no rows for the source.
SearchFails(s) ==
  /\ Looking /\ s \in todo /\ cur = {}
  /\ s \in down
  /\ todo' = todo \ {s}
  /\ unseen' = unseen \cup {s}
  /\ UNCHANGED <<outside, pc, slugs, cur, live, rows, apply, ok, rc, touched, moves>>

\* The verify asks by user name alone, in every source of the command.
Wanted(p) ==
  \/ pc = "plan"
  \/ \E r \in confirmed : r.pair[2] = p[2]

\* The rows on file for the source, each beside what the search found.
ReadRows ==
  /\ cur # {}
  /\ rows' = rows \cup {[pair |-> p, stored |-> stored[p], live |-> live[p]] :
                          p \in {q \in Pairs : q[1] \in cur /\ stored[q] # None /\ Wanted(q)}}
  /\ cur' = {} /\ live' = [p \in Pairs |-> None]
  /\ UNCHANGED <<outside, pc, slugs, todo, unseen, apply, ok, rc, touched, moves>>

Same(r) == r.live = r.stored
Drifted == {r \in rows : r.live # None /\ ~Same(r)}

\* Nothing linked, nothing flagged, nothing DIFFERENT, or every question answered no.
Leave ==
  /\ pc = "plan" /\ slugs # {} /\ todo = {} /\ cur = {}
  /\ Exit(0)
  /\ UNCHANGED <<outside, slugs, look, apply, ok, touched, moves>>

\* The questions, one per drifted row, on what the look has found.
Confirm(yes) ==
  /\ pc = "plan" /\ slugs # {} /\ todo = {} /\ cur = {}
  /\ yes # {} /\ yes \subseteq Drifted
  /\ confirmed' = yes /\ left' = yes
  /\ pc' = "apply"
  /\ UNCHANGED <<outside, slugs, look, held, raced, ok, rc, touched, moves>>

\* SKIPPED_NO_ROW or SKIPPED_CHANGED: the row is not what the operator was shown.
Skip(r) ==
  /\ pc = "apply" /\ held = {} /\ r \in left
  /\ stored[r.pair] # r.stored
  /\ left' = left \ {r}
  /\ ok' = FALSE
  /\ UNCHANGED <<outside, pc, slugs, look, confirmed, held, raced, rc, touched, moves>>

\* Mutant: the row is written whatever it holds by now.
Compare_Unchecked(r) ==
  /\ pc = "apply" /\ held = {} /\ r \in left
  /\ stored[r.pair] # None
  /\ held' = {r}
  /\ UNCHANGED <<outside, pc, slugs, look, confirmed, left, raced, ok, rc, touched, moves>>

\* first(), and the comparison with what the plan saw.
Compare(r) ==
  /\ pc = "apply" /\ held = {} /\ r \in left
  /\ stored[r.pair] = r.stored
  /\ held' = {r}
  /\ UNCHANGED <<outside, pc, slugs, look, confirmed, left, raced, ok, rc, touched, moves>>

\* Mutant: the payload carries the two identifiers the other way round.
Save_Swapped(r) ==
  /\ pc = "apply" /\ r \in held
  /\ stored' = [stored EXCEPT ![r.pair] = r.stored]
  /\ left' = left \ {r}
  /\ held' = {} /\ raced' = FALSE
  /\ UNCHANGED <<ldap, down, pc, slugs, look, confirmed, ok, rc, touched, moves>>

\* save(), a statement of its own: by then the row may hold something else, or be
\* gone (an INSERT brings it back).
Save(r) ==
  /\ pc = "apply" /\ r \in held
  /\ stored' = [stored EXCEPT ![r.pair] = r.live]
  /\ left' = left \ {r}
  /\ held' = {} /\ raced' = FALSE
  /\ UNCHANGED <<ldap, down, pc, slugs, look, confirmed, ok, rc, touched, moves>>

\* The second look, at the users just dealt with.
BeginVerify ==
  /\ pc = "apply" /\ left = {}
  /\ pc' = "verify"
  /\ todo' = slugs /\ rows' = {} /\ unseen' = {}
  /\ UNCHANGED <<outside, slugs, cur, live, apply, ok, rc, touched, moves>>

\* Mutant: the exit code forgets what the second look found.
Verdict_Unverified ==
  /\ pc = "verify" /\ todo = {} /\ cur = {}
  /\ Exit(IF ok THEN 0 ELSE 1)
  /\ UNCHANGED <<outside, slugs, look, apply, ok, touched, moves>>

Verdict ==
  /\ pc = "verify" /\ todo = {} /\ cur = {}
  /\ Exit(IF ok /\ \A r \in rows : Same(r) THEN 0 ELSE 1)
  /\ UNCHANGED <<outside, slugs, look, apply, ok, touched, moves>>

Move == moves < MaxMoves /\ moves' = moves + 1

\* Ctrl-C, or `ak shell` fails: the command ends with neither verdict nor look.
Cut ==
  /\ pc # "idle" /\ Move
  /\ Exit(1)
  /\ Forget({})
  /\ UNCHANGED outside

Command ==
  \/ \E s \in Sources : Search(s) \/ SearchFails(s)
  \/ \E r \in left : Skip(r) \/ Compare(r) \/ Save(r)
  \/ Refuse \/ ReadRows \/ Leave \/ BeginVerify \/ Verdict

-----------------------------------------------------------------------------
(* Everybody else.                                                          *)

\* The directory gives the account another identifier, or drops the entry.
Reissue(p) ==
  /\ Move
  /\ \E i \in (Ids \cup {None}) \ {ldap[p]} : ldap' = [ldap EXCEPT ![p] = i]
  /\ touched' = touched \cup {p}
  /\ UNCHANGED <<stored, down, pc, slugs, look, apply, ok, rc>>

\* A sync, another operator's fix, the rest of a script whose command was cut: the
\* row is rewritten, made or removed.
Rewrite(p) ==
  /\ Move
  /\ \E i \in (Ids \cup {None}) \ {stored[p]} : stored' = [stored EXCEPT ![p] = i]
  /\ touched' = touched \cup {p}
  /\ raced' = (raced \/ \E r \in held : r.pair = p)
  /\ UNCHANGED <<ldap, down, pc, slugs, look, confirmed, left, held, ok, rc>>

GoDown(s) ==
  /\ s \notin down /\ Move
  /\ down' = down \cup {s}
  /\ UNCHANGED <<ldap, stored, pc, slugs, look, apply, ok, rc, touched>>

ComeBack(s) ==
  /\ s \in down
  /\ down' = down \ {s}
  /\ UNCHANGED <<ldap, stored, pc, slugs, look, apply, ok, rc, touched, moves>>

Others ==
  \/ \E p \in Pairs : Reissue(p) \/ Rewrite(p)
  \/ \E s \in Sources : GoDown(s) \/ ComeBack(s)

Next ==
  \/ \E which \in SUBSET Sources : Run(which)
  \/ \E yes \in SUBSET rows : Confirm(yes)
  \/ Command \/ Cut \/ Others

Spec == Init /\ [][Next]_vars

\* A step of the command ends in time (120 s), a source comes back, and the operator
\* who runs the command over every source again and again some time says yes to all.
Fairness ==
  /\ WF_vars(Command)
  /\ \A s \in Sources : WF_vars(ComeBack(s))
  /\ SF_vars(Run(Sources))
  /\ SF_vars(slugs = Sources /\ Confirm(Drifted))

FairSpec == Spec /\ Fairness

-----------------------------------------------------------------------------
(* What it must keep.                                                       *)

WorldType ==
  /\ ldap \in [Pairs -> Ids \cup {None}]
  /\ stored \in [Pairs -> Ids \cup {None}]
  /\ down \subseteq Sources

LookType ==
  /\ slugs \subseteq Sources /\ todo \subseteq slugs /\ cur \subseteq slugs
  /\ live \in [Pairs -> Ids \cup {None}]
  /\ rows \subseteq Row
  /\ touched \subseteq Pairs /\ unseen \subseteq slugs

ApplyType ==
  /\ confirmed \subseteq Row
  /\ left \subseteq confirmed /\ held \subseteq left
  /\ raced \in BOOLEAN

TypeOK ==
  /\ WorldType /\ LookType /\ ApplyType
  /\ pc \in {"idle", "plan", "apply", "verify"}
  /\ ok \in BOOLEAN /\ rc \in 0..2
  /\ moves \in 0..MaxMoves

\* The row agrees with the directory, or there is nothing to compare it with.
Agrees(p) == None \in {ldap[p], stored[p]} \/ ldap[p] = stored[p]

\* A finished command that exits 0 tells the truth: every account it was asked about
\* has the directory's identifier on file, unless the source could not be reached,
\* somebody has changed the account since it was looked at, or the operator was
\* shown the difference and said no (run, 220-265).
ZeroIsReconciled ==
  pc = "idle" /\ rc = 0 =>
    \A p \in Pairs :
      p[1] \in slugs \ unseen /\ p \notin touched =>
        \/ Agrees(p)
        \/ confirmed = {} /\ \E r \in Drifted : r.pair = p
        \/ confirmed # {} /\ ~ \E r \in confirmed : r.pair[2] = p[2]

\* What a sync or another operator has put into a row since the plan is not
\* overwritten, except in the moment between first() and save() (_apply_script).
EarlierChangeKept ==
  \A r \in held : raced \/ stored[r.pair] = r.stored

\* Once the directory and the table are left alone, re-running the command and
\* saying yes brings every account back in step (README.md:596-632).
Converges == <>[](\A p \in Pairs : Agrees(p))

\* "compare-and-swap against the value last read, so a real sync or a concurrent fix
\* landing in between is skipped rather than clobbered" (README.md:628-629).
SkippedNotClobbered ==
  [][\A p \in Pairs : pc = "apply" /\ held' # held /\ stored'[p] # stored[p]
        => \E r \in held : r.pair = p /\ stored[p] = r.stored]_vars
=============================================================================
