----------------------------- MODULE PhaseRunner -----------------------------
(***************************************************************************)
(* The phase runner (phases/base.py run_phases) under the commands that     *)
(* drive it: `akro provision` with --replay and --only, and `akro clean`,   *)
(* which shares the state file.  A phase is plan, confirm, apply, verify;   *)
(* its status is what the state file holds (a whole record at every step,   *)
(* see StateFile), and the session may be killed at any moment: Ctrl-C is   *)
(* not an Exception, so the runner's except clause does not record it, and  *)
(* neither is an exception raised by verify().                              *)
(*                                                                          *)
(* Phases are numbered in pipeline order.  built[i] is the truth on the     *)
(* nodes that status[i] is meant to summarise.                              *)
(***************************************************************************)
EXTENDS Naturals

CONSTANTS
  N,          \* length of the pipeline
  Optional,   \* phases that may be declined without stopping (restore)
  Asks,       \* phases that ask before applying (all but the read-only ones)
  Pins,       \* phases whose apply() ends by marking itself "applying"
  MaxUpsets   \* bound on the operator's replays, --only runs, cleans and kills

Phase == 1..N

ASSUME RunnerAssumption ==
  /\ N \in Nat \ {0}
  /\ Optional \subseteq Phase /\ Asks \subseteq Phase /\ Pins \subseteq Phase
  /\ MaxUpsets \in Nat

VARIABLES
  status,     \* status[i] in the state file
  built,      \* built[i]: "none", "half" (an apply began) or "good"
  reopened,   \* phases recorded done on which an apply or a clean has begun since
  session,    \* the command that is running
  sel,        \* the phases run_phases was given
  named,      \* the phases the operator named with --replay or --only
  at, step,   \* run_phases: current phase, and how far it got
  upsets

vars == <<status, built, reopened, session, sel, named, at, step, upsets>>

Statuses == {"pending", "applying", "done", "failed", "declined", "skipped"}

TypeOK ==
  /\ status \in [Phase -> Statuses]
  /\ built \in [Phase -> {"none", "half", "good"}]
  /\ reopened \subseteq Phase
  /\ session \in {"none", "full", "only", "clean"}
  /\ sel \subseteq Phase
  /\ named \subseteq Phase
  /\ at \in 1..(N + 1)
  /\ step \in {"next", "apply", "verify"}
  /\ upsets \in 0..MaxUpsets

Init ==
  /\ status = [i \in Phase |-> "pending"]
  /\ built = [i \in Phase |-> "none"]
  /\ reopened = {}
  /\ session = "none"
  /\ sel = {} /\ named = {}
  /\ at = 1 /\ step = "next"
  /\ upsets = 0

-----------------------------------------------------------------------------
(* Commands.                                                               *)

Upset == upsets < MaxUpsets /\ upsets' = upsets + 1

\* --replay: every named phase is marked pending before anything else.
MarkReplays(replay) ==
  status' = [i \in Phase |-> IF i \in replay THEN "pending" ELSE status[i]]

RunPhases(kind, phases, names) ==
  /\ session' = kind /\ sel' = phases /\ named' = names
  /\ at' = 1 /\ step' = "next"
  /\ UNCHANGED <<built, reopened>>

Provision(replay) ==
  /\ session = "none"
  /\ IF replay = {} THEN UNCHANGED upsets ELSE Upset
  /\ MarkReplays(replay)
  /\ RunPhases("full", Phase, replay)

\* --only runs the named phases even when they are recorded done.
ProvisionOnly(only, replay) ==
  /\ session = "none" /\ only # {} /\ Upset
  /\ MarkReplays(replay)
  /\ RunPhases("only", only, only \union replay)

\* An unknown --only name ends the command after --replay has taken effect.
RejectOnly(replay) ==
  /\ session = "none" /\ replay # {} /\ Upset
  /\ MarkReplays(replay)
  /\ named' = replay
  /\ UNCHANGED <<built, reopened, session, sel, at, step>>

Kill ==
  /\ session # "none" /\ Upset
  /\ session' = "none" /\ step' = "next"
  /\ UNCHANGED <<status, built, reopened, sel, named, at>>

-----------------------------------------------------------------------------
(* run_phases.                                                             *)

Running == session \in {"full", "only"} /\ at \in Phase

\* Mutant: a done phase runs again in every session.
Skipped_NeverWhenDone == at \notin sel

\* Mutant: a failed phase is passed over in a full run.
Skipped_AfterFailure == at \notin sel \/ (status[at] \in {"done", "failed"} /\ session = "full")

Skipped == at \notin sel \/ (status[at] = "done" /\ session = "full")

Due == Running /\ step = "next" /\ ~Skipped

Mark(s) == status' = [status EXCEPT ![at] = s]

Stop == session' = "none" /\ step' = "next" /\ UNCHANGED at

Advance == at' = at + 1 /\ step' = "next" /\ UNCHANGED session

Skip ==
  /\ Running /\ step = "next" /\ Skipped
  /\ Advance
  /\ UNCHANGED <<status, built, reopened, sel, named, upsets>>

\* Mutant: a declined phase is always recorded skipped.
Decline_GoesOn ==
  /\ Due /\ at \in Asks
  /\ Mark("skipped") /\ Advance
  /\ UNCHANGED <<built, reopened, sel, named, upsets>>

Decline ==
  /\ Due /\ at \in Asks
  /\ IF at \in Optional
       THEN Mark("skipped") /\ Advance
       ELSE Mark("declined") /\ Stop
  /\ UNCHANGED <<built, reopened, sel, named, upsets>>

\* Confirmed, or nothing to confirm: apply() starts to change the nodes while
\* the record still says what it said.
Accept ==
  /\ Due
  /\ built' = [built EXCEPT ![at] = "half"]
  /\ reopened' = IF status[at] = "done" THEN reopened \union {at} ELSE reopened
  /\ step' = "apply"
  /\ UNCHANGED <<status, session, sel, named, at, upsets>>

ApplyRaises ==
  /\ Running /\ step = "apply"
  /\ Mark("failed") /\ Stop
  /\ UNCHANGED <<built, reopened, sel, named, upsets>>

\* apply() returns; many of its steps only record a failure and go on.
ApplyReturns(result) ==
  /\ Running /\ step = "apply"
  /\ built' = [built EXCEPT ![at] = result]
  /\ IF at \in Pins THEN Mark("applying") ELSE UNCHANGED status
  /\ step' = "verify"
  /\ UNCHANGED <<reopened, session, sel, named, at, upsets>>

\* Mutant: verify's verdict is taken for granted.
VerifyPasses_Unasked ==
  /\ Running /\ step = "verify"
  /\ Mark("done") /\ Advance
  /\ reopened' = reopened \ {at}
  /\ UNCHANGED <<built, sel, named, upsets>>

VerifyPasses ==
  /\ Running /\ step = "verify" /\ built[at] = "good"
  /\ Mark("done") /\ Advance
  /\ reopened' = reopened \ {at}
  /\ UNCHANGED <<built, sel, named, upsets>>

VerifyFails ==
  /\ Running /\ step = "verify"
  /\ Mark("failed") /\ Stop
  /\ UNCHANGED <<built, reopened, sel, named, upsets>>

Finish ==
  /\ session \in {"full", "only"} /\ at = N + 1
  /\ Stop
  /\ UNCHANGED <<status, built, reopened, sel, named, upsets>>

-----------------------------------------------------------------------------
(* akro clean: the nodes are stripped step by step, then the state file is  *)
(* archived whatever the steps recorded.  A failed `ufw reset` raises and   *)
(* leaves the file as it is; so does Kill.                                  *)

BeginClean ==
  /\ session = "none" /\ Upset
  /\ session' = "clean"
  /\ UNCHANGED <<status, built, reopened, sel, named, at, step>>

Strip ==
  /\ session = "clean"
  /\ \E i \in Asks, left \in {"none", "half"} :
       /\ built[i] \notin {"none", left}
       /\ built' = [built EXCEPT ![i] = left]
       /\ reopened' = reopened \union {i}
  /\ UNCHANGED <<status, session, sel, named, at, step, upsets>>

CleanRaises ==
  /\ session = "clean"
  /\ Stop
  /\ UNCHANGED <<status, built, reopened, sel, named, upsets>>

ArchiveState ==
  /\ session = "clean"
  /\ status' = [i \in Phase |-> "pending"]
  /\ reopened' = {}
  /\ Stop
  /\ UNCHANGED <<built, sel, named, upsets>>

Next ==
  \/ \E replay \in SUBSET Phase : Provision(replay) \/ RejectOnly(replay)
  \/ \E only, replay \in SUBSET Phase : ProvisionOnly(only, replay)
  \/ Kill
  \/ Skip \/ Decline \/ Accept
  \/ ApplyRaises \/ (\E r \in {"half", "good"} : ApplyReturns(r))
  \/ VerifyPasses \/ VerifyFails \/ Finish
  \/ BeginClean \/ Strip \/ CleanRaises \/ ArchiveState

\* Every remote call has a timeout, so a step of a session ends one way or the
\* other (weak fairness); the operator runs `akro provision` again until it is
\* through and does not say no to a required phase for ever; and a phase tried
\* again and again succeeds some time (strong fairness).  Nothing is assumed of
\* replays, kills and cleans.
Fairness ==
  /\ WF_vars(Provision({})) /\ WF_vars(Skip) /\ WF_vars(Finish)
  /\ WF_vars(CleanRaises \/ ArchiveState)
  /\ WF_vars(Accept \/ Decline)
  /\ WF_vars(ApplyRaises \/ \E r \in {"half", "good"} : ApplyReturns(r))
  /\ WF_vars(VerifyPasses \/ VerifyFails)
  /\ \A i \in Phase :
       /\ SF_vars(i \notin Optional /\ at = i /\ Accept)
       /\ SF_vars(at = i /\ ApplyReturns("good"))
       /\ SF_vars(at = i /\ VerifyPasses)

Spec == Init /\ [][Next]_vars

FairSpec == Spec /\ Fairness

-----------------------------------------------------------------------------

\* "Completed phases are skipped" is only sound if done means built.  The one
\* way a done record can be wrong is a re-apply by --only, or a clean, that
\* began and did not finish.
DoneIsBuilt ==
  \A i \in Phase : status[i] = "done" => built[i] = "good" \/ i \in reopened

\* A full run never applies a phase while an earlier one is unfinished: every
\* earlier phase is recorded done, or optional and declined.
PipelineOrder ==
  (session = "full" /\ step \in {"apply", "verify"}) =>
    \A j \in 1..(at - 1) : status[j] = "done" \/ (j \in Optional /\ status[j] = "skipped")

Sound(i) == status[i] = "done" /\ i \notin reopened

\* "Re-running a completed phase must be a no-op": nothing that is done is
\* undone or begun again unless the operator named it, or asked for a clean.
RedoneOnlyIfAsked ==
  [][\A i \in Phase : Sound(i) /\ ~Sound(i)' => i \in named' \/ session = "clean"]_vars

\* The runner is resumable: whatever was replayed, killed or torn down, plain
\* `akro provision` run again and again gets the site to the end of the
\* pipeline for good.
ResumeConverges == <>[](\A i \in Phase \ Optional : status[i] = "done")


\* The phase that a full run is applying or verifying.
Under == IF session = "full" /\ step \in {"apply", "verify"} THEN {at} ELSE {}

\* base.py:134-185: whatever is named, skipped, declined, cut or torn down, a run writes
\* one entry at a time, of a phase whose turn it is.
Contract == INSTANCE Pipeline WITH
  Listed <- Phase, Before <- [i \in Phase |-> 1..(i - 1)], Skippable <- Optional,
  Aside <- Phase, entry <- status, under <- Under
ImplementsPipeline == Contract!Spec
=============================================================================
