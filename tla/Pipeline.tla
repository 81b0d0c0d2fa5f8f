------------------------------- MODULE Pipeline -------------------------------
(***************************************************************************)
(* What `akro provision` promises about the phases' entries of the state    *)
(* file (phases/base.py run_phases), without what the phases do: one phase  *)
(* is under way at a time, over phases that are done or were skipped; it    *)
(* ends with one entry written, or none when the session is cut; and no     *)
(* other entry changes but by --replay.  PhaseRunner, with its commands,    *)
(* and the modules that run phases of their own (AuthentikRollout,          *)
(* AuthentikService, CertDistribution, ClusterBootstrap, SingleSite,        *)
(* SingleProxy) are all shown to implement this module, so that what each   *)
(* takes for granted of the runner is what the runner does.                 *)
(***************************************************************************)

CONSTANTS
  Listed,     \* the phases of the pipeline
  Before,     \* Before[p]: those that come before p
  Skippable,  \* optional ones
  Aside       \* phases that --only may run by themselves

VARIABLES
  entry,      \* entry[p] in the state file
  under       \* the phase under way, if any: a set of at most one

Init == entry = [p \in Listed |-> "pending"] /\ under = {}

Passed(p, at) == at[p] = "done" \/ (p \in Skippable /\ at[p] = "skipped")

\* What may come under way over the entries at.
Turns(at) ==
  {{}} \cup {{p} : p \in {q \in Listed : at[q] # "done" /\ \A b \in Before[q] : Passed(b, at)}}

Written(p, s) == [entry EXCEPT ![p] = s]

\* A session begins or goes on, some entries being marked pending at its start, or
\* all of them being archived.
Provision ==
  /\ under = {}
  /\ \E named \in SUBSET Listed :
       entry' = [p \in Listed |-> IF p \in named THEN "pending" ELSE entry[p]]
  /\ under' \in Turns(entry')

Pin(p) ==
  /\ under = {p}
  /\ entry' = Written(p, "applying") /\ under' = under

Verified(p) ==
  /\ under = {p}
  /\ entry' = Written(p, "done") /\ under' \in Turns(entry')

Failed(p) ==
  /\ under = {p}
  /\ entry' = Written(p, "failed") /\ under' = {}

Cut(p) == under = {p} /\ under' = {} /\ entry' = entry

\* Asked about before or as it comes under way.
Declined(p) ==
  /\ {p} \in Turns(entry) /\ under \in {{}, {p}}
  /\ entry' = Written(p, IF p \in Skippable THEN "skipped" ELSE "declined")
  /\ under' = {}

\* --only: outside the order.
Only(p) ==
  /\ under = {} /\ under' = {}
  /\ \E s \in {"applying", "done", "failed", "declined", "skipped"} : entry' = Written(p, s)

Next ==
  \/ Provision
  \/ \E p \in Listed : Pin(p) \/ Verified(p) \/ Failed(p) \/ Cut(p) \/ Declined(p)
  \/ \E p \in Aside : Only(p)

Spec == Init /\ [][Next]_<<entry, under>>
=============================================================================
