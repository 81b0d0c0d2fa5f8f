-------------------------- MODULE PhaseRunnerProofs --------------------------
(***************************************************************************)
(* The phase runner, for a pipeline of any length and any number of         *)
(* replays, kills and cleans.                                               *)
(***************************************************************************)
EXTENDS PhaseRunner, TLAPS

\* A full run was given the whole pipeline and has passed every earlier phase.
Passed ==
  session = "full" =>
    /\ sel = Phase
    /\ \A j \in 1..(at - 1) : status[j] = "done" \/ (j \in Optional /\ status[j] = "skipped")

\* While apply or verify is under way the record of that phase is not "done",
\* unless the re-apply of a done phase has been noted.
UnderWay ==
  step # "next" =>
    /\ session \in {"full", "only"} /\ at \in Phase
    /\ status[at] = "done" => at \in reopened

\* --only gives run_phases nothing the operator did not name.
OnlyNamed == session = "only" => sel \subseteq named

IInv == TypeOK /\ DoneIsBuilt /\ Passed /\ UnderWay /\ OnlyNamed

LEMMA InitInv == Init => IInv
BY RunnerAssumption DEF Init, IInv, TypeOK, DoneIsBuilt, Passed, UnderWay, OnlyNamed, Phase, Statuses

\* Starting a command changes no record except to make it pending.
LEMMA CommandInv ==
  ASSUME IInv, NEW only \in SUBSET Phase, NEW replay \in SUBSET Phase,
         Provision(replay) \/ RejectOnly(replay) \/ ProvisionOnly(only, replay)
  PROVE  IInv'
<1> USE RunnerAssumption DEF IInv, TypeOK, DoneIsBuilt, Passed, UnderWay, OnlyNamed, Phase,
        Statuses, Upset, MarkReplays, RunPhases
<1>1. CASE Provision(replay)
  BY <1>1 DEF Provision
<1>2. CASE RejectOnly(replay)
  BY <1>2 DEF RejectOnly
<1>3. CASE ProvisionOnly(only, replay)
  BY <1>3 DEF ProvisionOnly
<1>4. QED
  BY <1>1, <1>2, <1>3

LEMMA RunInv ==
  ASSUME IInv, Skip \/ Decline \/ Accept \/ Finish
  PROVE  IInv'
<1> USE RunnerAssumption DEF IInv, TypeOK, DoneIsBuilt, Passed, UnderWay, OnlyNamed, Phase,
        Statuses, Running, Due, Skipped, Mark, Stop, Advance
<1>1. CASE Skip
  BY <1>1 DEF Skip
<1>2. CASE Decline
  BY <1>2 DEF Decline
<1>3. CASE Accept
  BY <1>3 DEF Accept
<1>4. CASE Finish
  BY <1>4 DEF Finish
<1>5. QED
  BY <1>1, <1>2, <1>3, <1>4

LEMMA ApplyInv ==
  ASSUME IInv, ApplyRaises \/ (\E r \in {"half", "good"} : ApplyReturns(r)) \/ VerifyPasses \/ VerifyFails
  PROVE  IInv'
<1> USE RunnerAssumption DEF IInv, TypeOK, DoneIsBuilt, Passed, UnderWay, OnlyNamed, Phase,
        Statuses, Running, Mark, Stop, Advance
<1>1. CASE ApplyRaises
  BY <1>1 DEF ApplyRaises
<1>2. CASE \E r \in {"half", "good"} : ApplyReturns(r)
  BY <1>2 DEF ApplyReturns
<1>3. CASE VerifyPasses
  BY <1>3 DEF VerifyPasses
<1>4. CASE VerifyFails
  BY <1>4 DEF VerifyFails
<1>5. QED
  BY <1>1, <1>2, <1>3, <1>4

LEMMA CleanInv ==
  ASSUME IInv, Kill \/ BeginClean \/ Strip \/ CleanRaises \/ ArchiveState
  PROVE  IInv'
<1> USE RunnerAssumption DEF IInv, TypeOK, DoneIsBuilt, Passed, UnderWay, OnlyNamed, Phase,
        Statuses, Upset, Stop
<1>1. CASE Kill
  BY <1>1 DEF Kill
<1>2. CASE BeginClean
  BY <1>2 DEF BeginClean
<1>3. CASE Strip
  BY <1>3 DEF Strip
<1>4. CASE CleanRaises
  BY <1>4 DEF CleanRaises
<1>5. CASE ArchiveState
  BY <1>5 DEF ArchiveState
<1>6. QED
  BY <1>1, <1>2, <1>3, <1>4, <1>5

THEOREM Invariance == Spec => []IInv
<1>1. IInv /\ [Next]_vars => IInv'
  <2> SUFFICES ASSUME IInv, [Next]_vars PROVE IInv'
    OBVIOUS
  <2>1. CASE UNCHANGED vars
    BY <2>1 DEF IInv, TypeOK, DoneIsBuilt, Passed, UnderWay, OnlyNamed, vars
  <2>2. CASE \E replay \in SUBSET Phase : Provision(replay) \/ RejectOnly(replay)
    BY <2>2, CommandInv
  <2>3. CASE \E only, replay \in SUBSET Phase : ProvisionOnly(only, replay)
    BY <2>3, CommandInv
  <2>4. CASE Skip \/ Decline \/ Accept \/ Finish
    BY <2>4, RunInv
  <2>5. CASE ApplyRaises \/ (\E r \in {"half", "good"} : ApplyReturns(r)) \/ VerifyPasses \/ VerifyFails
    BY <2>5, ApplyInv
  <2>6. CASE Kill \/ BeginClean \/ Strip \/ CleanRaises \/ ArchiveState
    BY <2>6, CleanInv
  <2>7. QED
    BY <2>1, <2>2, <2>3, <2>4, <2>5, <2>6 DEF Next
<1>2. QED
  BY InitInv, <1>1, PTL DEF Spec

\* The runner's state stays in its type.
THEOREM TypeCorrect == Spec => []TypeOK
BY Invariance, PTL DEF IInv

\* A phase recorded done has been built, unless a re-apply or a clean that
\* did not finish has been at it since.
THEOREM DoneMeansBuilt == Spec => []DoneIsBuilt
BY Invariance, PTL DEF IInv

\* A full run applies a phase only when every earlier one is done, or optional
\* and declined: for any pipeline, after any history.
THEOREM InOrder == Spec => []PipelineOrder
<1>1. IInv => PipelineOrder
  BY DEF IInv, Passed, PipelineOrder
<1>2. QED
  BY Invariance, <1>1, PTL

LEMMA StepKeepsSound ==
  ASSUME IInv, Next, NEW i \in Phase, Sound(i), ~Sound(i)'
  PROVE  i \in named' \/ session = "clean"
<1> USE RunnerAssumption DEF IInv, TypeOK, UnderWay, OnlyNamed, Sound, Phase
<1>1. ASSUME NEW only \in SUBSET Phase, NEW replay \in SUBSET Phase,
             Provision(replay) \/ RejectOnly(replay) \/ ProvisionOnly(only, replay)
      PROVE  i \in named'
  BY <1>1 DEF Provision, RejectOnly, ProvisionOnly, RunPhases, MarkReplays
<1>2. CASE Skip \/ Decline \/ Accept \/ Finish
  BY <1>2 DEF Skip, Decline, Accept, Finish, Due, Skipped, Running, Mark, Stop, Advance
<1>3. CASE ApplyRaises \/ (\E r \in {"half", "good"} : ApplyReturns(r)) \/ VerifyPasses \/ VerifyFails
  BY <1>3 DEF ApplyRaises, ApplyReturns, VerifyPasses, VerifyFails, Running, Mark, Stop, Advance
<1>4. CASE Kill \/ BeginClean
  BY <1>4 DEF Kill, BeginClean
<1>5. CASE Strip \/ CleanRaises \/ ArchiveState
  BY <1>5 DEF Strip, CleanRaises, ArchiveState
<1>6. QED
  BY <1>1, <1>2, <1>3, <1>4, <1>5 DEF Next

\* Nothing that is done and sound is begun again or un-recorded unless the
\* operator named the phase or asked for a clean.
THEOREM NoUnaskedRedo == Spec => RedoneOnlyIfAsked
<1>1. IInv /\ [Next]_vars =>
        [\A i \in Phase : Sound(i) /\ ~Sound(i)' => i \in named' \/ session = "clean"]_vars
  BY StepKeepsSound
<1>2. QED
  BY Invariance, <1>1, PTL DEF Spec, RedoneOnlyIfAsked

-----------------------------------------------------------------------------
(* The contract.                                                            *)

LEMMA TurnOf ==
  ASSUME NEW i \in Phase, NEW st, st[i] # "done",
         \A j \in 1..(i - 1) : st[j] = "done" \/ (j \in Optional /\ st[j] = "skipped")
  PROVE  {i} \in Contract!Turns(st)
<1>1. \A b \in [j \in Phase |-> 1..(j - 1)][i] : Contract!Passed(b, st)
  BY DEF Contract!Passed
<1>2. QED
  BY <1>1 DEF Contract!Turns

LEMMA NoTurn == \A st : {} \in Contract!Turns(st)
BY DEF Contract!Turns

LEMMA AtNext ==
  ASSUME IInv, step = "next" \/ session # "full"
  PROVE  Under = {}
BY DEF Under

\* The commands: they name phases, or archive the record.
LEMMA CommandsKeep ==
  ASSUME IInv, NEW only \in SUBSET Phase, NEW replay \in SUBSET Phase,
         \/ Provision(replay) \/ RejectOnly(replay) \/ ProvisionOnly(only, replay)
         \/ ArchiveState
  PROVE  Contract!Provision
<1>1. Under = {} /\ Under' = {}
  BY DEF Under, Provision, RejectOnly, ProvisionOnly, ArchiveState, RunPhases, Stop
<1>2. PICK named_ \in SUBSET Phase :
        status' = [i \in Phase |-> IF i \in named_ THEN "pending" ELSE status[i]]
  <2>1. CASE ArchiveState
    <3>1. status' = [i \in Phase |-> IF i \in Phase THEN "pending" ELSE status[i]]
      BY <2>1 DEF ArchiveState
    <3>2. QED
      BY <3>1
  <2>2. QED
    BY <2>1 DEF Provision, RejectOnly, ProvisionOnly, MarkReplays
<1>3. QED
  BY <1>1, <1>2, NoTurn DEF Contract!Provision

\* A phase that comes under way in a full run has its turn.
LEMMA DueInTurn ==
  ASSUME IInv, Due, session = "full"
  PROVE  {at} \in Contract!Turns(status)
<1>1. at \in Phase /\ status[at] # "done"
  BY DEF Due, Running, Skipped, IInv, Passed
<1>2. QED
  BY <1>1, TurnOf DEF IInv, Passed

LEMMA AskedKeep ==
  ASSUME IInv, Decline \/ Accept
  PROVE  Contract!Next \/ UNCHANGED <<status, Under>>
<1>0. at \in Phase /\ Under = {} /\ session \in {"full", "only"}
  BY AtNext DEF Decline, Accept, Due, Running
<1>1. CASE Decline
  <2>1. Under' = {}
    BY <1>1 DEF Decline, Stop, Advance, Under
  <2>2. status' = [status EXCEPT ![at] = IF at \in Optional THEN "skipped" ELSE "declined"]
    BY <1>1 DEF Decline, Mark
  <2>3. CASE session = "full"
    <3>1. Contract!Declined(at)
      BY <1>0, <1>1, <2>1, <2>2, <2>3, DueInTurn
         DEF Decline, Contract!Declined, Contract!Written
    <3>2. QED
      BY <1>0, <3>1 DEF Contract!Next
  <2>4. CASE session = "only"
    <3>1. Contract!Only(at)
      BY <1>0, <2>1, <2>2 DEF Contract!Only, Contract!Written
    <3>2. QED
      BY <1>0, <3>1 DEF Contract!Next
  <2>5. QED
    BY <1>0, <2>3, <2>4
<1>2. CASE Accept
  <2>1. status' = status /\ session' = session /\ at' = at /\ step' = "apply"
    BY <1>2 DEF Accept
  <2>2. CASE session = "full"
    <3>1. Under' \in Contract!Turns(status')
      BY <1>2, <2>1, <2>2, DueInTurn DEF Accept, Under
    <3>2. status' = [p \in Phase |-> IF p \in {} THEN "pending" ELSE status[p]]
      BY <2>1 DEF IInv, TypeOK
    <3>3. Contract!Provision
      BY <1>0, <3>1, <3>2 DEF Contract!Provision
    <3>4. QED
      BY <3>3 DEF Contract!Next
  <2>3. CASE session = "only"
    BY <1>0, <2>1, <2>3 DEF Under
  <2>4. QED
    BY <1>0, <2>2, <2>3
<1>3. QED
  BY <1>1, <1>2

\* What apply and verify come to.
LEMMA WorkKeep ==
  ASSUME IInv,
         ApplyRaises \/ (\E r \in {"half", "good"} : ApplyReturns(r)) \/ VerifyPasses \/ VerifyFails
  PROVE  Contract!Next \/ UNCHANGED <<status, Under>>
<1>1. at \in Phase /\ session \in {"full", "only"} /\ step \in {"apply", "verify"}
  BY DEF ApplyRaises, ApplyReturns, VerifyPasses, VerifyFails, Running
<1>2. Under = IF session = "full" THEN {at} ELSE {}
  BY <1>1 DEF Under
<1>3. CASE ApplyRaises \/ VerifyFails
  <2>1. status' = [status EXCEPT ![at] = "failed"] /\ Under' = {}
    BY <1>3 DEF ApplyRaises, VerifyFails, Mark, Stop, Under
  <2>2. (session = "full" => Contract!Failed(at)) /\ (session = "only" => Contract!Only(at))
    BY <1>2, <2>1 DEF Contract!Failed, Contract!Only, Contract!Written
  <2>3. QED
    BY <1>1, <2>2 DEF Contract!Next
<1>4. CASE VerifyPasses
  <2>1. status' = [status EXCEPT ![at] = "done"] /\ Under' = {}
    BY <1>4 DEF VerifyPasses, Mark, Advance, Under
  <2>2. (session = "full" => Contract!Verified(at)) /\ (session = "only" => Contract!Only(at))
    BY <1>2, <2>1, NoTurn DEF Contract!Verified, Contract!Only, Contract!Written
  <2>3. QED
    BY <1>1, <2>2 DEF Contract!Next
<1>5. CASE \E r \in {"half", "good"} : ApplyReturns(r)
  <2>1. /\ status' = [status EXCEPT ![at] = "applying"] \/ status' = status
        /\ session' = session /\ at' = at /\ step' = "verify"
    BY <1>5 DEF ApplyReturns, Mark
  <2>2. Under' = Under
    BY <1>1, <1>2, <2>1 DEF Under
  <2>3. CASE status' = [status EXCEPT ![at] = "applying"]
    <3>1. (session = "full" => Contract!Pin(at)) /\ (session = "only" => Contract!Only(at))
      BY <1>2, <2>2, <2>3 DEF Contract!Pin, Contract!Only, Contract!Written
    <3>2. QED
      BY <1>1, <3>1 DEF Contract!Next
  <2>4. QED
    BY <2>1, <2>2, <2>3
<1>6. QED
  BY <1>3, <1>4, <1>5

LEMMA ContractStep ==
  ASSUME IInv, [Next]_vars
  PROVE  [Contract!Next]_<<status, Under>>
<1>1. CASE UNCHANGED vars
  BY <1>1 DEF vars, Under
<1>2. CASE \/ \E replay \in SUBSET Phase : Provision(replay) \/ RejectOnly(replay)
           \/ \E only, replay \in SUBSET Phase : ProvisionOnly(only, replay)
           \/ ArchiveState
  BY <1>2, CommandsKeep DEF Contract!Next
<1>3. CASE Kill
  <2>1. status' = status /\ Under' = {}
    BY <1>3 DEF Kill, Under
  <2>2. CASE Under = {at} /\ at \in Phase
    <3>1. Contract!Cut(at)
      BY <2>1, <2>2 DEF Contract!Cut
    <3>2. QED
      BY <2>2, <3>1 DEF Contract!Next
  <2>3. CASE Under = {}
    BY <2>1, <2>3
  <2>4. QED
    BY <2>2, <2>3 DEF Under, IInv, UnderWay
<1>4. CASE Skip \/ Finish \/ BeginClean \/ Strip \/ CleanRaises
  <2>1. status' = status /\ Under' = {}
    BY <1>4 DEF Skip, Finish, BeginClean, Strip, CleanRaises, Stop, Advance, Under
  <2>2. Under = {}
    <3>1. N + 1 \notin Phase
      BY RunnerAssumption DEF Phase
    <3>2. QED
      BY <1>4, <3>1 DEF Skip, Finish, BeginClean, Strip, CleanRaises, Under, IInv, UnderWay
  <2>3. QED
    BY <2>1, <2>2
<1>5. CASE Decline \/ Accept
  BY <1>5, AskedKeep
<1>6. CASE ApplyRaises \/ (\E r \in {"half", "good"} : ApplyReturns(r)) \/ VerifyPasses \/ VerifyFails
  BY <1>6, WorkKeep
<1>7. QED
  BY <1>1, <1>2, <1>3, <1>4, <1>5, <1>6 DEF Next

\* For a pipeline of any length, and any replays, --only runs, kills and cleans: a full
\* run writes one entry at a time, of a phase whose turn it is (base.py:134-185).
THEOREM RunsInTurn == Spec => ImplementsPipeline
<1>1. Init => Contract!Init
  BY DEF Init, Under, Contract!Init
<1>2. IInv /\ [Next]_vars => [Contract!Next]_<<status, Under>>
  BY ContractStep
<1>3. QED
  BY <1>1, <1>2, Invariance, PTL DEF Spec, ImplementsPipeline, Contract!Spec

=============================================================================
