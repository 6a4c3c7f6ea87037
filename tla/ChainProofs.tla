---------------------------- MODULE ChainProofs ----------------------------
(***************************************************************************)
(* The enrichment chain, for any manifests, floored and skippable steps:   *)
(* its record is honest, and neither safeToSync nor an exit code of zero   *)
(* is to be had but for what ran whole, in order and audited, from the     *)
(* step where the run began; and of the whole plan, if every resume went   *)
(* by its hint.                                                            *)
(*                                                                         *)
(* A step is good that has left something on which no step before it has   *)
(* written since, and the gate while its verdict stands.  Good are all the *)
(* steps that the last run has recorded as done, for what a step takes     *)
(* away lies after it.  Good or skipped are those before its first, if the *)
(* hints were heeded: the hint names the first step with no good word.     *)
(***************************************************************************)
EXTENDS ChainRunner, FiniteSetTheorems, SequenceTheorems, TLAPS

Entries == [id : StepIds, status : {"done", "failed", "skipped"}, complete : BOOLEAN]

HasGate(plan) == \E i \in DOMAIN plan : plan[i] = "gate"

\* The given steps are those of a plan from the first on.
Follows(steps, plan, first) ==
    \A i \in 1 .. Len(steps) : first - 1 + i \in 1 .. Len(plan) /\ steps[i] = plan[first - 1 + i]

DataStates == {"stale", "torn", "short", "whole"}

\* What a change of the data leaves alone: all before a place of a plan.
Unmoved(plan, place, data, left) == \A i \in DOMAIN plan : i < place => left[plan[i]] = data[plan[i]]
AuditStays(plan, place) == \A i \in DOMAIN plan : i < place /\ plan[i] = "gate" => crAudited' = crAudited

\* A run of the given steps of a plan is at one of them.
RunsAt(plan, first, steps, at) ==
    /\ IsPlan(plan) /\ first \in 1 .. Len(plan) + 1
    /\ steps \in Seq(StepIds) /\ Len(steps) = Len(plan) - first + 1 /\ Follows(steps, plan, first)
    /\ at \in 1 .. Len(steps)

\* What a step leaves that has run.
LeftBy(steps, at, data, state) ==
    [t \in StepIds |->
    IF t = steps[at] THEN state
    ELSE IF \E i \in 1 .. at : steps[i] = t THEN data[t]
    ELSE IF \E i \in DOMAIN steps : steps[i] = t THEN "stale"
    ELSE data[t]]

\* What the record says of a step that is done; and if it counts as complete.
Honest(e, data) ==
    e.status = "done" /\ e.id # "gate" => data[e.id] = IF e.complete THEN "whole" ELSE "short"
Full(e, data) ==
    e.status = "done" /\ e.id # "gate" /\ StepIsComplete(e) => data[e.id] = "whole"

\* A run has begun, and its plan is there.
Begun == crStatus.outcome # "none"

Good(s, data, audited) == IF s = "gate" THEN audited ELSE data[s] \in {"whole", "short"}
Vouched(s, data, audited, skipped) == Good(s, data, audited) \/ (s # "gate" /\ s \in skipped)

\* What a plan file says is a plan.
PlansInv ==
    /\ ~Begun => crPlans = {}
    /\ \A file \in crPlans : IsPlan(file.digest) /\ (file.phase = "all" => HasGate(file.digest))

PlanInv ==
    Begun =>
        /\ IsPlan(crPlan.digest)
        /\ crPlan.phase = "all" => HasGate(crPlan.digest)
        /\ crPlan.first \in 1 .. Len(crPlan.digest) + 1
        /\ crPlan.heeded =>
               \A i \in DOMAIN crPlan.digest :
                   i < crPlan.first => Vouched(crPlan.digest[i], crData, crAudited, crPlan.skipped)

\* The record follows the plan from the first step of the run on.
RecordInv ==
    /\ crStatus.entries \in Seq(Entries)
    /\ ~Begun => crStatus.entries = <<>> /\ crPlan = NoChain
    /\ Begun => crPlan.first - 1 + Len(crStatus.entries) <= Len(crPlan.digest)
    /\ \A i \in DOMAIN crStatus.entries :
          /\ crStatus.entries[i].id = crPlan.digest[crPlan.first - 1 + i]
          /\ crStatus.entries[i].status = "failed" =>
                 i = Len(crStatus.entries) /\ crStatus.outcome = "failed"
          /\ crStatus.entries[i].status = "skipped" => crStatus.entries[i].id # "gate"
          /\ crStatus.entries[i].status = "done" => Good(crStatus.entries[i].id, crData, crAudited)

RunInv ==
    crRun # NoChain =>
        /\ Begun
        /\ crRun.steps = SubSeq(crPlan.digest, crPlan.first, Len(crPlan.digest))
        /\ crRun.skip \subseteq Skippable
        /\ crRun = [steps |-> crRun.steps, at |-> crRun.at, skip |-> crRun.skip]

\* Only a floored step may be done and short.
FullInv == \A i \in DOMAIN crStatus.entries : Full(crStatus.entries[i], crData)

\* What is on record of a gate that was passed.
GateIn(entries) == \E i \in DOMAIN entries : entries[i].id = "gate" /\ entries[i].status = "done"

EndInv ==
    /\ crStatus.outcome \in {"none", "running", "failed", "complete"}
    /\ crStatus.outcome = "complete" => crPlan.first - 1 + Len(crStatus.entries) = Len(crPlan.digest)
    /\ crStatus.outcome # "failed" /\ crStatus.gate = "read" => GateIn(crStatus.entries)
    /\ crStatus.safe => /\ crStatus.outcome = "complete" /\ crStatus.gate = "read"
                        /\ \A i \in DOMAIN crStatus.entries : StepIsComplete(crStatus.entries[i])

CrInv == CrTypeOK /\ RecordIsHonest /\ PlansInv /\ PlanInv /\ RecordInv /\ RunInv /\ FullInv /\ EndInv

-----------------------------------------------------------------------------
(* Plans.                                                                  *)

\* What the runner resolves is a plan, and whole if it is for all phases.
LEMMA ResolvedIsPlan ==
    ASSUME crManifest \in DOMAIN Manifests, NEW phase \in Phases
    PROVE  IsPlan(Resolved(phase)) /\ (phase = "all" => HasGate(Resolved(phase)))
<1>1. PICK plan : plan = Manifests[crManifest]
  OBVIOUS
<1>r. Resolved(phase) = PhasePlan(plan, phase)
  BY <1>1 DEF Resolved, PhasePlans
<1>2. /\ IsPlan(plan) /\ HasGate(plan)
      /\ phase # "all" => \E r \in Stretches(plan) : IsPhase(plan, phase, r[1], r[2])
  BY <1>1, ChainAssumption DEF HasGate
<1>3. CASE phase = "all"
  BY <1>r, <1>2, <1>3 DEF PhasePlan
<1>4. CASE phase # "all"
  <2>1. PICK r \in Stretches(plan) : r = CHOOSE q \in Stretches(plan) : IsPhase(plan, phase, q[1], q[2])
    BY <1>2, <1>4
  <2>2. Resolved(phase) = SubSeq(plan, r[1], r[2])
    BY <1>r, <1>4, <2>1 DEF PhasePlan
  <2>l. PICK l \in Nat : l = Len(plan)
    BY <1>2 DEF IsPlan
  <2>3. PICK i \in 1 .. l, j \in 0 .. l : r = <<i, j>>
    BY <1>2, <2>1, <2>l DEF Stretches, IsPlan
  <2>4. PICK part : part = SubSeq(plan, i, j)
    OBVIOUS
  <2>5. \A n \in i .. j : n \in DOMAIN plan /\ plan[n] \in StepIds
    BY <1>2, <2>l DEF IsPlan
  <2>6. /\ part \in Seq(StepIds) /\ Len(part) = IF i <= j THEN j - i + 1 ELSE 0
        /\ \A n \in 1 .. j - i + 1 : part[n] = plan[i + n - 1]
    BY <2>4, <2>5, SubSeqProperties
  <2>7. \A n \in DOMAIN part : i + n - 1 \in DOMAIN plan /\ part[n] = plan[i + n - 1]
    BY <1>2, <2>6, <2>l DEF IsPlan
  <2>8. \A m, n \in DOMAIN part : part[m] = part[n] => m = n
    BY <1>2, <2>6, <2>7 DEF IsPlan
  <2>9. \A m, n \in DOMAIN part : part[m] = "gate" /\ PhaseOf(part[n]) = "enrich" => n < m
    BY <1>2, <2>6, <2>7 DEF IsPlan
  <2>10. IsPlan(part)
    BY <2>6, <2>8, <2>9 DEF IsPlan
  <2> QED BY <1>4, <2>2, <2>3, <2>4, <2>10
<1> QED BY <1>3, <1>4

\* The steps of a run are its plan's, from the first on.
LEMMA StepsAre ==
    ASSUME NEW plan, IsPlan(plan), NEW first \in 1 .. Len(plan) + 1,
           NEW steps, steps = SubSeq(plan, first, Len(plan))
    PROVE  /\ steps \in Seq(StepIds) /\ Len(steps) = Len(plan) - first + 1
           /\ Follows(steps, plan, first)
<1>l. PICK l \in Nat : l = Len(plan)
  BY DEF IsPlan
<1>1. \A n \in first .. l : n \in DOMAIN plan /\ plan[n] \in StepIds
  BY <1>l DEF IsPlan
<1>2. /\ steps \in Seq(StepIds) /\ Len(steps) = IF first <= l THEN l - first + 1 ELSE 0
      /\ \A n \in 1 .. l - first + 1 : steps[n] = plan[first + n - 1]
  BY <1>1, <1>l, SubSeqProperties
<1>3. Len(steps) = l - first + 1
  BY <1>2, <1>l
<1>4. \A i \in 1 .. Len(steps) : first - 1 + i \in 1 .. l /\ first + i - 1 = first - 1 + i
  BY <1>3, <1>l
<1> QED BY <1>2, <1>3, <1>4, <1>l DEF Follows

\* Where a run is.
LEMMA RunIs ==
    ASSUME CrInv, crRun # NoChain
    PROVE  /\ IsPlan(crPlan.digest) /\ crPlan.first \in 1 .. Len(crPlan.digest) + 1
           /\ Len(crPlan.digest) \in Nat /\ DOMAIN crPlan.digest = 1 .. Len(crPlan.digest)
           /\ crRun.steps \in Seq(StepIds) /\ Len(crRun.steps) = Len(crPlan.digest) - crPlan.first + 1
           /\ Follows(crRun.steps, crPlan.digest, crPlan.first)
           /\ crRun.at \in 1 .. Len(crRun.steps) + 1 /\ Len(crStatus.entries) = crRun.at - 1
           /\ DOMAIN crRun.steps = 1 .. Len(crRun.steps) /\ Begun
<1>1. /\ IsPlan(crPlan.digest) /\ crPlan.first \in 1 .. Len(crPlan.digest) + 1
      /\ crRun.steps = SubSeq(crPlan.digest, crPlan.first, Len(crPlan.digest))
      /\ crRun.at \in 1 .. Len(crRun.steps) + 1 /\ Len(crStatus.entries) = crRun.at - 1 /\ Begun
  BY DEF CrInv, CrTypeOK, RunInv, PlanInv
<1>2. crPlan.digest \in Seq(StepIds)
  BY <1>1 DEF IsPlan
<1>3. PICK plan, first, steps : plan = crPlan.digest /\ first = crPlan.first /\ steps = crRun.steps
  OBVIOUS
<1>4. /\ steps \in Seq(StepIds) /\ Len(steps) = Len(plan) - first + 1
      /\ Follows(steps, plan, first)
  BY <1>1, <1>3, StepsAre
<1> QED BY <1>1, <1>2, <1>3, <1>4

\* What a step that ran leaves: before it nothing changes.
LEMMA LeavesWhat ==
    ASSUME NEW plan, NEW first, NEW steps, NEW at, RunsAt(plan, first, steps, at), NEW data, NEW left, NEW state,
           left = LeftBy(steps, at, data, state), NEW place, place = first - 1 + at
    PROVE  /\ left[steps[at]] = state
           /\ Unmoved(plan, place, data, left)
<1>l. PICK l \in Nat : l = Len(plan) /\ DOMAIN plan = 1 .. l /\ \A i \in 1 .. l : plan[i] \in StepIds
  BY DEF RunsAt, IsPlan
<1>k. PICK k \in Nat : k = Len(steps) /\ DOMAIN steps = 1 .. k /\ \A i \in 1 .. k : steps[i] \in StepIds
  BY DEF RunsAt
<1>1. at \in 1 .. k /\ k = l - first + 1 /\ first \in 1 .. l + 1
  BY <1>l, <1>k DEF RunsAt
<1>2. \A i \in 1 .. k : first - 1 + i \in 1 .. l /\ steps[i] = plan[first - 1 + i]
  BY <1>l, <1>k DEF Follows, RunsAt
<1>3. \A i, j \in 1 .. l : plan[i] = plan[j] => i = j
  BY <1>l DEF IsPlan, RunsAt
<1>4. left[steps[at]] = state
  BY <1>1, <1>k DEF LeftBy
<1>5. ASSUME NEW i \in 1 .. l, i < first - 1 + at
      PROVE  left[plan[i]] = data[plan[i]]
  <2>1. plan[i] # steps[at] /\ plan[i] \in StepIds
    BY <1>1, <1>2, <1>3, <1>5, <1>l
  <2>2. CASE i >= first
    <3>1. PICK j \in 1 .. at : i = first - 1 + j
      <4>1. i - first + 1 \in 1 .. at /\ i = first - 1 + (i - first + 1)
        BY <1>1, <1>5, <2>2
      <4> QED BY <4>1
    <3>2. steps[j] = plan[i]
      BY <1>1, <1>2, <3>1
    <3> QED BY <2>1, <3>2 DEF LeftBy
  <2>3. CASE ~(i >= first)
    <3>1. ASSUME NEW j \in 1 .. k PROVE steps[j] # plan[i]
      <4>1. first - 1 + j \in 1 .. l /\ steps[j] = plan[first - 1 + j] /\ first - 1 + j # i
        BY <1>1, <1>2, <2>3
      <4> QED BY <1>3, <4>1
    <3> QED BY <1>1, <1>k, <2>1, <3>1 DEF LeftBy
  <2> QED BY <2>2, <2>3
<1>7. Unmoved(plan, place, data, left)
  BY <1>5, <1>l DEF Unmoved
<1> QED BY <1>4, <1>7

LEMMA LeavesKeep ==
    ASSUME CrInv, CrInFlight, NEW state \in DataStates, Leaves(CurrentStep, state)
    PROVE  /\ crData' \in [StepIds -> DataStates] /\ crAudited' \in BOOLEAN
           /\ crData'[CurrentStep] = state
           /\ Unmoved(crPlan.digest, crPlan.first - 1 + crRun.at, crData, crData')
           /\ AuditStays(crPlan.digest, crPlan.first - 1 + crRun.at)
<1>1. PICK plan, first, steps, at, data, left : /\ plan = crPlan.digest /\ first = crPlan.first
                                                /\ steps = crRun.steps /\ at = crRun.at
                                                /\ data = crData /\ left = crData'
  OBVIOUS
<1>2. /\ IsPlan(plan) /\ first \in 1 .. Len(plan) + 1 /\ Len(plan) \in Nat /\ DOMAIN plan = 1 .. Len(plan)
      /\ steps \in Seq(StepIds) /\ Len(steps) = Len(plan) - first + 1 /\ Follows(steps, plan, first)
      /\ DOMAIN steps = 1 .. Len(steps)
  BY <1>1, RunIs DEF CrInFlight
<1>3. at \in 1 .. Len(steps)
  BY <1>1, RunIs DEF CrInFlight
<1>4. left = LeftBy(steps, at, data, state)
  BY <1>1 DEF Leaves, CurrentStep, LeftBy
<1>5. left[steps[at]] = state /\ Unmoved(plan, first - 1 + at, data, left)
  <2>1. PICK place : place = first - 1 + at
    OBVIOUS
  <2>2. RunsAt(plan, first, steps, at)
    BY <1>2, <1>3 DEF RunsAt
  <2>3. left[steps[at]] = state /\ Unmoved(plan, place, data, left)
    BY ONLY <1>4, <2>1, <2>2, LeavesWhat
  <2> QED BY <2>1, <2>3
<1>6. left \in [StepIds -> DataStates]
  <2>1. data \in [StepIds -> DataStates]
    BY <1>1 DEF CrInv, CrTypeOK, DataStates
  <2> QED BY <1>4, <2>1 DEF DataStates, LeftBy
<1>7. crAudited \in BOOLEAN /\ crAudited' = (crAudited /\ PhaseOf(CurrentStep) # "enrich")
  BY DEF CrInv, CrTypeOK, Leaves
<1>8. AuditStays(plan, first - 1 + at)
  <2> SUFFICES ASSUME NEW i \in DOMAIN plan, i < first - 1 + at, plan[i] = "gate"
               PROVE  crAudited' = crAudited
    BY DEF AuditStays
  <2>1. first - 1 + at \in DOMAIN plan /\ CurrentStep = plan[first - 1 + at]
    BY <1>1, <1>2, <1>3 DEF Follows, CurrentStep
  <2>2. PhaseOf(CurrentStep) # "enrich"
    <3>1. ~(first - 1 + at < i)
      BY <1>2, <1>3
    <3> QED BY <1>2, <2>1, <3>1 DEF IsPlan
  <2> QED BY <1>7, <2>2
<1> QED BY <1>1, <1>5, <1>6, <1>7, <1>8 DEF CurrentStep

-----------------------------------------------------------------------------
(* The steps of a run.                                                     *)

LEMMA GoodStays ==
    ASSUME NEW plan, NEW place, NEW data, NEW left, Unmoved(plan, place, data, left),
           AuditStays(plan, place), NEW i \in DOMAIN plan, i < place
    PROVE  /\ Good(plan[i], data, crAudited) => Good(plan[i], left, crAudited')
           /\ \A skipped : Vouched(plan[i], data, crAudited, skipped) =>
                            Vouched(plan[i], left, crAudited', skipped)
BY DEF Unmoved, AuditStays, Good, Vouched

\* A step that is recorded.
LEMMA EntryAdded ==
    ASSUME CrInv, CrInFlight, NEW e \in Entries, e.id = CurrentStep,
           UNCHANGED <<crManifest, crPlans, crPlan, crBaseline>>,
           NEW outcome \in {"running", "failed"}, NEW gate, NEW exit \in {"none", "one"},
           crStatus' = Record(outcome, Append(crStatus.entries, e), gate, exit),
           e.status = "failed" => outcome = "failed",
           crRun' = NoChain \/ (outcome = "running" /\ crRun' = [crRun EXCEPT !.at = @ + 1]),
           crData' \in [StepIds -> DataStates], crAudited' \in BOOLEAN,
           Unmoved(crPlan.digest, crPlan.first - 1 + crRun.at, crData, crData'),
           AuditStays(crPlan.digest, crPlan.first - 1 + crRun.at),
           outcome = "running" /\ gate = "read" => gate = crStatus.gate \/ (e.id = "gate" /\ e.status = "done"),
           e.status = "skipped" => e.id # "gate", e.status = "done" => Good(e.id, crData', crAudited'),
           Honest(e, crData'), Full(e, crData')
    PROVE  CrInv'
<1>1. PICK plan, first, steps, at, entries : /\ plan = crPlan.digest /\ first = crPlan.first
                                             /\ steps = crRun.steps /\ at = crRun.at
                                             /\ entries = crStatus.entries
  OBVIOUS
<1>2. /\ IsPlan(plan) /\ first \in 1 .. Len(plan) + 1 /\ Len(plan) \in Nat /\ DOMAIN plan = 1 .. Len(plan)
      /\ steps \in Seq(StepIds) /\ Len(steps) = Len(plan) - first + 1 /\ Follows(steps, plan, first)
      /\ DOMAIN steps = 1 .. Len(steps) /\ Len(entries) = at - 1 /\ Begun
  BY <1>1, RunIs DEF CrInFlight
<1>3. at \in 1 .. Len(steps) /\ crRun # NoChain
  BY <1>1, RunIs DEF CrInFlight
<1>4. entries \in Seq(Entries)
  BY <1>1 DEF CrInv, RecordInv
<1>5. PICK more : more = Append(entries, e)
  OBVIOUS
<1>6. /\ more \in Seq(Entries) /\ Len(more) = at /\ more[at] = e /\ DOMAIN more = 1 .. at
      /\ \A i \in 1 .. at - 1 : more[i] = entries[i] /\ i \in DOMAIN entries
  <2> HIDE DEF Entries
  <2>1. /\ more \in Seq(Entries) /\ Len(more) = Len(entries) + 1 /\ more[Len(entries) + 1] = e
        /\ \A i \in 1 .. Len(entries) : more[i] = entries[i]
    BY <1>4, <1>5, AppendProperties
  <2>2. Len(entries) + 1 = at /\ Len(entries) = at - 1 /\ DOMAIN entries = 1 .. Len(entries)
    BY <1>2, <1>3, <1>4
  <2> QED BY <2>1, <2>2
<1>7. /\ crStatus'.outcome = outcome /\ crStatus'.entries = more /\ crStatus'.exit = exit
      /\ crStatus'.gate = gate /\ crStatus'.safe = FALSE
  <2>1. crStatus' = Record(outcome, more, gate, exit)
    BY <1>1, <1>5
  <2> QED BY <2>1 DEF Record
<1>8. \A i \in 1 .. at : i < at \/ i = at
  BY <1>3
<1>9. e.id = plan[first - 1 + at] /\ first - 1 + at \in DOMAIN plan
  BY <1>1, <1>2, <1>3 DEF Follows, CurrentStep
<1>10. \A i \in 1 .. at - 1 : /\ first - 1 + i \in DOMAIN plan /\ first - 1 + i < first - 1 + at
                              /\ entries[i].id = plan[first - 1 + i]
  <2>1. \A i \in 1 .. at - 1 : i \in DOMAIN entries /\ i \in 1 .. Len(steps)
    BY <1>2, <1>3, <1>6
  <2>2. \A i \in 1 .. at - 1 : first - 1 + i < first - 1 + at
    BY <1>2, <1>3
  <2>3. \A i \in DOMAIN entries : entries[i].id = plan[first - 1 + i]
    BY <1>1 DEF CrInv, RecordInv
  <2>4. \A i \in 1 .. at - 1 : first - 1 + i \in DOMAIN plan
    BY <1>2, <2>1 DEF Follows
  <2> QED BY <2>1, <2>2, <2>3, <2>4
<1>11. \A i \in 1 .. at - 1 : crData'[entries[i].id] = crData[entries[i].id]
  BY <1>1, <1>10 DEF Unmoved
<1>12. CrTypeOK'
  <2>1. crRun' # NoChain => outcome = "running" /\ crRun'.steps = steps /\ crRun'.at = at + 1
    BY <1>1, <1>3 DEF CrInv, RunInv
  <2>2. crRun' # NoChain =>
            crRun'.at \in 1 .. Len(crRun'.steps) + 1 /\ Len(crStatus'.entries) = crRun'.at - 1
    <3>1. at \in 1 .. Len(steps) /\ Len(steps) \in Nat
      BY <1>2, <1>3
    <3>2. at + 1 \in 1 .. Len(steps) + 1 /\ at = at + 1 - 1
      BY ONLY <3>1
    <3> QED BY <1>6, <1>7, <2>1, <3>2
  <2> QED BY <1>7, <2>1, <2>2 DEF CrInv, CrTypeOK, DataStates
<1>13. RecordIsHonest'
  <2> SUFFICES ASSUME NEW i \in 1 .. at PROVE Honest(more[i], crData')
    BY <1>6, <1>7 DEF RecordIsHonest, Honest
  <2>1. CASE i < at
    <3>1. Honest(entries[i], crData)
      BY <1>1, <1>6, <2>1 DEF CrInv, RecordIsHonest, Honest
    <3> QED BY <1>6, <1>11, <2>1, <3>1 DEF Honest
  <2> QED BY <1>6, <1>8, <2>1
<1>14. PlanInv'
  <2>1. ASSUME crPlan.heeded, NEW i \in DOMAIN plan, i < first
        PROVE  Vouched(plan[i], crData', crAudited', crPlan.skipped)
    <3>1. i < first - 1 + at /\ Vouched(plan[i], crData, crAudited, crPlan.skipped)
      BY <1>1, <1>2, <1>3, <2>1 DEF CrInv, PlanInv
    <3> QED BY <1>1, <3>1, GoodStays
  <2> QED BY <1>1, <1>2, <2>1 DEF CrInv, PlanInv
<1>15. Begun'
  BY <1>7 DEF Begun
<1>16. RecordInv'
  <2>1. first - 1 + Len(more) <= Len(plan)
    BY <1>2, <1>3, <1>6
  <2>2. ASSUME NEW i \in 1 .. at
        PROVE  /\ more[i].id = plan[first - 1 + i]
               /\ more[i].status = "failed" => i = at /\ outcome = "failed"
               /\ more[i].status = "skipped" => more[i].id # "gate"
               /\ more[i].status = "done" => Good(more[i].id, crData', crAudited')
    <3>1. CASE i < at
      <4>1. entries[i].status # "failed" /\ (entries[i].status = "skipped" => entries[i].id # "gate")
        BY <1>1, <1>3, <1>6, <3>1 DEF CrInv, CrTypeOK, RecordInv
      <4>2. entries[i].status = "done" => Good(entries[i].id, crData, crAudited)
        BY <1>1, <1>6, <3>1, <4>1 DEF CrInv, RecordInv
      <4>3. entries[i].status = "done" => Good(entries[i].id, crData', crAudited')
        <5>1. PICK place, spot : place = first - 1 + at /\ spot = first - 1 + i
          OBVIOUS
        <5>2. spot \in DOMAIN plan /\ spot < place /\ entries[i].id = plan[spot]
          <6>1. i \in 1 .. at - 1
            BY <1>3, <3>1
          <6> QED BY <1>10, <5>1, <6>1
        <5>3. Unmoved(plan, place, crData, crData') /\ AuditStays(plan, place)
          BY <1>1, <5>1
        <5>4. Good(plan[spot], crData, crAudited) => Good(plan[spot], crData', crAudited')
          BY ONLY <5>2, <5>3, GoodStays
        <5> QED BY <4>2, <5>2, <5>4
      <4> QED BY <1>6, <1>10, <3>1, <4>1, <4>3
    <3> QED BY <1>6, <1>8, <1>9, <3>1
  <2> QED BY <1>1, <1>6, <1>7, <1>15, <2>1, <2>2 DEF RecordInv
<1>17. RunInv'
  BY <1>1, <1>3, <1>15 DEF CrInv, RunInv
<1>18. FullInv'
  <2> SUFFICES ASSUME NEW i \in 1 .. at PROVE Full(more[i], crData')
    BY <1>6, <1>7 DEF FullInv
  <2>1. CASE i < at
    <3>1. Full(entries[i], crData)
      BY <1>1, <1>6, <2>1 DEF CrInv, FullInv
    <3> QED BY <1>6, <1>11, <2>1, <3>1 DEF Full
  <2> QED BY <1>6, <1>8, <2>1
<1>19. EndInv'
  <2>1. outcome = "running" /\ gate = "read" => GateIn(more)
    <3> SUFFICES ASSUME outcome = "running", gate = "read" PROVE GateIn(more)
      OBVIOUS
    <3>1. CASE e.id = "gate" /\ e.status = "done"
      BY <1>3, <1>6, <3>1 DEF GateIn
    <3>2. CASE gate = crStatus.gate
      <4>1. PICK i \in DOMAIN entries : entries[i].id = "gate" /\ entries[i].status = "done"
        BY <1>1, <1>3, <3>2 DEF CrInv, CrTypeOK, EndInv, GateIn
      <4>2. i \in 1 .. at - 1
        BY <1>2, <1>4, <4>1
      <4> QED BY <1>3, <1>6, <4>1, <4>2 DEF GateIn
    <3> QED BY <3>1, <3>2
  <2> QED BY <1>7, <2>1 DEF EndInv
<1>20. PlansInv'
  BY <1>15, <1>2 DEF CrInv, PlansInv
<1> QED BY <1>12, <1>13, <1>14, <1>16, <1>17, <1>18, <1>19, <1>20 DEF CrInv

\* The step a run is at is none of those before it in the plan.
LEMMA CurrentIs ==
    ASSUME CrInv, CrInFlight
    PROVE  /\ CurrentStep \in StepIds
           /\ \A i \in DOMAIN crPlan.digest : i < crPlan.first - 1 + crRun.at => crPlan.digest[i] # CurrentStep
<1>1. PICK plan, first, steps, at : /\ plan = crPlan.digest /\ first = crPlan.first
                                    /\ steps = crRun.steps /\ at = crRun.at
  OBVIOUS
<1>2. /\ IsPlan(plan) /\ first \in 1 .. Len(plan) + 1 /\ Len(plan) \in Nat /\ DOMAIN plan = 1 .. Len(plan)
      /\ steps \in Seq(StepIds) /\ Len(steps) = Len(plan) - first + 1 /\ Follows(steps, plan, first)
      /\ DOMAIN steps = 1 .. Len(steps)
  BY <1>1, RunIs DEF CrInFlight
<1>3. at \in 1 .. Len(steps)
  BY <1>1, RunIs DEF CrInFlight
<1>4. CurrentStep = steps[at]
  BY <1>1 DEF CurrentStep
<1>5. first - 1 + at \in DOMAIN plan /\ CurrentStep = plan[first - 1 + at]
  BY <1>2, <1>3, <1>4 DEF Follows
<1>6. \A i, j \in DOMAIN plan : plan[i] = plan[j] => i = j
  BY <1>2 DEF IsPlan
<1>7. \A i \in DOMAIN plan : i < first - 1 + at => plan[i] # CurrentStep
  <2> SUFFICES ASSUME NEW i \in DOMAIN plan, i < first - 1 + at PROVE plan[i] # CurrentStep
    OBVIOUS
  <2>1. i # first - 1 + at
    BY <1>2, <1>3
  <2> QED BY <1>5, <1>6, <2>1
<1> QED BY <1>1, <1>2, <1>3, <1>4, <1>7

LEMMA SkipKeeps == ASSUME CrInv, StepSkipped PROVE CrInv'
<1>1. CrInFlight /\ CurrentStep \in StepIds
  BY CurrentIs DEF StepSkipped
<1>2. PICK e : e = Logged(CurrentStep, "skipped", TRUE)
  OBVIOUS
<1>3. e \in Entries /\ e.id = CurrentStep /\ e.status = "skipped"
  BY <1>1, <1>2 DEF Logged, Entries
<1>4. CurrentStep # "gate"
  BY <1>1, ChainAssumption DEF CrInv, RunInv, CrInFlight, StepSkipped, Skips
<1>5. crData' = crData /\ crAudited' = crAudited
  BY DEF StepSkipped
<1>6. /\ crData' \in [StepIds -> DataStates] /\ crAudited' \in BOOLEAN
      /\ Unmoved(crPlan.digest, crPlan.first - 1 + crRun.at, crData, crData')
      /\ AuditStays(crPlan.digest, crPlan.first - 1 + crRun.at)
  BY <1>5 DEF CrInv, CrTypeOK, DataStates, Unmoved, AuditStays
<1>7. Honest(e, crData') /\ Full(e, crData')
  BY <1>3 DEF Honest, Full
<1>8. /\ crStatus' = Record("running", Append(crStatus.entries, e), crStatus.gate, "none")
      /\ crRun' = [crRun EXCEPT !.at = @ + 1]
      /\ UNCHANGED <<crManifest, crPlans, crPlan, crBaseline>>
  BY <1>2 DEF StepSkipped, GoesOn
<1> QED BY <1>1, <1>3, <1>4, <1>6, <1>7, <1>8, EntryAdded

LEMMA DoneKeeps ==
    ASSUME CrInv, NEW state \in {"whole", "short"}, StepDone(state)
    PROVE  CrInv'
<1>1. CrInFlight /\ CurrentStep \in StepIds
  BY CurrentIs DEF StepDone, Reaches
<1>2. PICK e : e = Logged(CurrentStep, "done", state = "whole")
  OBVIOUS
<1>3. e \in Entries /\ e.id = CurrentStep /\ e.status = "done" /\ e.complete = (state = "whole")
  <2>1. (state = "whole") \in BOOLEAN
    OBVIOUS
  <2>2. PICK complete \in BOOLEAN : complete = (state = "whole")
    BY <2>1
  <2>3. e = [id |-> CurrentStep, status |-> "done", complete |-> complete]
    BY <1>2, <2>2 DEF Logged
  <2> QED BY <1>1, <2>2, <2>3 DEF Entries
<1>4. CurrentStep # "gate"
  BY DEF StepDone, Reaches, PhaseOf
<1>5. state \in DataStates
  BY DEF DataStates
<1>6. /\ crData' \in [StepIds -> DataStates] /\ crAudited' \in BOOLEAN
      /\ crData'[CurrentStep] = state
      /\ Unmoved(crPlan.digest, crPlan.first - 1 + crRun.at, crData, crData')
      /\ AuditStays(crPlan.digest, crPlan.first - 1 + crRun.at)
  BY <1>1, <1>5, LeavesKeep DEF StepDone
<1>7. e.status = "done" => Good(e.id, crData', crAudited')
  BY <1>3, <1>4, <1>6 DEF Good
<1>8. Honest(e, crData')
  BY <1>3, <1>6 DEF Honest
<1>9. Full(e, crData')
  <2>1. state = "short" => CurrentStep \in Floored
    BY DEF StepDone
  <2> QED BY <1>3, <1>6, <2>1 DEF Full, StepIsComplete
<1>10. /\ crStatus' = Record("running", Append(crStatus.entries, e), crStatus.gate, "none")
       /\ crRun' = [crRun EXCEPT !.at = @ + 1]
       /\ UNCHANGED <<crManifest, crPlans, crPlan, crBaseline>>
  BY <1>2 DEF StepDone, GoesOn
<1> QED BY <1>1, <1>3, <1>6, <1>7, <1>8, <1>9, <1>10, EntryAdded

LEMMA FailKeeps ==
    ASSUME CrInv, NEW complete \in BOOLEAN, StepFails(complete)
    PROVE  CrInv'
<1>1. CrInFlight /\ CurrentStep \in StepIds
  BY CurrentIs DEF StepFails, Reaches
<1>2. PICK e : e = Logged(CurrentStep, "failed", complete)
  OBVIOUS
<1>3. e \in Entries /\ e.id = CurrentStep /\ e.status = "failed"
  BY <1>1, <1>2 DEF Logged, Entries
<1>4. "torn" \in DataStates
  BY DEF DataStates
<1>5. /\ crData' \in [StepIds -> DataStates] /\ crAudited' \in BOOLEAN
      /\ Unmoved(crPlan.digest, crPlan.first - 1 + crRun.at, crData, crData')
      /\ AuditStays(crPlan.digest, crPlan.first - 1 + crRun.at)
  BY <1>1, <1>4, LeavesKeep DEF StepFails
<1>6. Honest(e, crData') /\ Full(e, crData')
  BY <1>3 DEF Honest, Full
<1>7. /\ crStatus' = Record("failed", Append(crStatus.entries, e), crStatus.gate, "one")
      /\ crRun' = NoChain
      /\ UNCHANGED <<crManifest, crPlans, crPlan, crBaseline>>
  BY <1>2 DEF StepFails, GivesUp
<1> QED BY <1>1, <1>3, <1>5, <1>6, <1>7, EntryAdded

\* What the gate leaves alone, when it reaches a verdict or none.
LEMMA GateLeaves ==
    ASSUME CrInv, Reaches({"gate"}), crData' = crData, crAudited' \in {crAudited, TRUE}
    PROVE  /\ CrInFlight /\ CurrentStep = "gate" /\ "gate" \in StepIds
           /\ crData' \in [StepIds -> DataStates] /\ crAudited' \in BOOLEAN
           /\ Unmoved(crPlan.digest, crPlan.first - 1 + crRun.at, crData, crData')
           /\ AuditStays(crPlan.digest, crPlan.first - 1 + crRun.at)
<1>1. CrInFlight /\ CurrentStep = "gate"
  BY DEF Reaches, PhaseOf
<1>2. "gate" \in StepIds
  BY <1>1, CurrentIs
<1>3. crData' \in [StepIds -> DataStates] /\ crAudited' \in BOOLEAN
  BY DEF CrInv, CrTypeOK, DataStates
<1>4. Unmoved(crPlan.digest, crPlan.first - 1 + crRun.at, crData, crData')
  BY DEF Unmoved
<1>5. AuditStays(crPlan.digest, crPlan.first - 1 + crRun.at)
  BY <1>1, CurrentIs DEF AuditStays
<1> QED BY <1>1, <1>2, <1>3, <1>4, <1>5

LEMMA PassKeeps ==
    ASSUME CrInv, NEW found, GatePasses(found)
    PROVE  CrInv'
<1>1. PICK e : e = Logged("gate", "done", TRUE)
  OBVIOUS
<1>2. /\ CrInFlight /\ CurrentStep = "gate" /\ "gate" \in StepIds
      /\ crData' \in [StepIds -> DataStates] /\ crAudited' \in BOOLEAN
      /\ Unmoved(crPlan.digest, crPlan.first - 1 + crRun.at, crData, crData')
      /\ AuditStays(crPlan.digest, crPlan.first - 1 + crRun.at)
  BY GateLeaves DEF GatePasses
<1>3. e \in Entries /\ e.id = CurrentStep /\ e.status = "done" /\ e.id = "gate"
  BY <1>1, <1>2 DEF Logged, Entries
<1>4. Honest(e, crData') /\ Full(e, crData')
  BY <1>3 DEF Honest, Full
<1>5. Good(e.id, crData', crAudited')
  BY <1>3 DEF Good, GatePasses
<1>6. /\ crStatus' = Record("running", Append(crStatus.entries, e), "read", "none")
      /\ crRun' = [crRun EXCEPT !.at = @ + 1]
      /\ UNCHANGED <<crManifest, crPlans, crPlan, crBaseline>>
  BY <1>1 DEF GatePasses, GoesOn
<1> QED BY <1>2, <1>3, <1>4, <1>5, <1>6, EntryAdded

\* A gate that fails, of whatever reason, with the failure on record.
LEMMA GateFailKeeps ==
    ASSUME CrInv, Reaches({"gate"}), NEW gate,
           GivesUp(Append(crStatus.entries, Logged("gate", "failed", TRUE)), gate),
           UNCHANGED <<crManifest, crPlans, crPlan, crData, crAudited, crBaseline>>
    PROVE  CrInv'
<1>1. PICK e : e = Logged("gate", "failed", TRUE)
  OBVIOUS
<1>2. /\ CrInFlight /\ CurrentStep = "gate" /\ "gate" \in StepIds
      /\ crData' \in [StepIds -> DataStates] /\ crAudited' \in BOOLEAN
      /\ Unmoved(crPlan.digest, crPlan.first - 1 + crRun.at, crData, crData')
      /\ AuditStays(crPlan.digest, crPlan.first - 1 + crRun.at)
  BY GateLeaves
<1>3. e \in Entries /\ e.id = CurrentStep /\ e.status = "failed"
  BY <1>1, <1>2 DEF Logged, Entries
<1>4. Honest(e, crData') /\ Full(e, crData')
  BY <1>3 DEF Honest, Full
<1>5. /\ crStatus' = Record("failed", Append(crStatus.entries, e), gate, "one")
      /\ crRun' = NoChain
      /\ UNCHANGED <<crManifest, crPlans, crPlan, crBaseline>>
  BY <1>1 DEF GivesUp
<1> QED BY <1>2, <1>3, <1>4, <1>5, EntryAdded

-----------------------------------------------------------------------------
(* The ends of a run.                                                      *)

\* A run that ends as it stands: refused at the gate, or complete.
LEMMA EndKeeps ==
    ASSUME CrInv, crRun # NoChain, NEW outcome \in {"failed", "complete"}, NEW gate, NEW exit,
           crStatus' = Record(outcome, crStatus.entries, gate, exit), crRun' = NoChain,
           outcome = "complete" => crRun.at > Len(crRun.steps) /\ gate = crStatus.gate, exit = "zero" => outcome = "complete",
           UNCHANGED <<crManifest, crPlans, crPlan, crData, crAudited, crBaseline>>
    PROVE  CrInv'
<1>1. PICK plan, first, steps, at, entries : /\ plan = crPlan.digest /\ first = crPlan.first
                                             /\ steps = crRun.steps /\ at = crRun.at
                                             /\ entries = crStatus.entries
  OBVIOUS
<1>2. /\ IsPlan(plan) /\ first \in 1 .. Len(plan) + 1 /\ Len(plan) \in Nat
      /\ Len(steps) = Len(plan) - first + 1 /\ Len(entries) = at - 1 /\ at \in 1 .. Len(steps) + 1 /\ Begun
  BY <1>1, RunIs
<1>3. /\ crStatus'.outcome = outcome /\ crStatus'.entries = entries /\ crStatus'.exit = exit
      /\ crStatus'.gate = gate
      /\ crStatus'.safe => /\ outcome = "complete" /\ gate = "read"
                           /\ \A i \in DOMAIN entries : StepIsComplete(entries[i])
  BY <1>1 DEF Record
<1>4. CrTypeOK'
  BY <1>3 DEF CrInv, CrTypeOK
<1>5. RecordIsHonest'
  BY <1>1, <1>3 DEF CrInv, RecordIsHonest
<1>6. Begun'
  BY <1>3 DEF Begun
<1>7. PlanInv'
  BY <1>2 DEF CrInv, PlanInv
<1>8. RecordInv'
  <2>1. \A i \in DOMAIN entries : entries[i].status # "failed"
    BY <1>1 DEF CrInv, CrTypeOK, RecordInv
  <2> QED BY <1>1, <1>2, <1>3, <1>6, <2>1 DEF CrInv, RecordInv
<1>9. RunInv' /\ FullInv' /\ PlansInv'
  BY <1>1, <1>2, <1>3, <1>6 DEF CrInv, RunInv, FullInv, PlansInv
<1>10. EndInv'
  <2>1. outcome = "complete" => first - 1 + Len(entries) = Len(plan)
    <3> SUFFICES ASSUME outcome = "complete" PROVE first - 1 + Len(entries) = Len(plan)
      OBVIOUS
    <3>1. PICK l, k, n : l = Len(plan) /\ k = Len(steps) /\ n = Len(entries)
      OBVIOUS
    <3>2. l \in Nat /\ first \in 1 .. l + 1 /\ k = l - first + 1 /\ n = at - 1 /\ at \in 1 .. k + 1 /\ at > k
      BY <1>1, <1>2, <3>1
    <3>3. first - 1 + n = l
      BY ONLY <3>2
    <3> QED BY <3>1, <3>3
  <2>2. outcome = "complete" /\ gate = "read" => GateIn(entries)
    BY <1>1 DEF CrInv, CrTypeOK, EndInv
  <2> QED BY <1>1, <1>3, <2>1, <2>2 DEF EndInv
<1> QED BY <1>4, <1>5, <1>7, <1>8, <1>9, <1>10 DEF CrInv

LEMMA KillKeeps ==
    ASSUME CrInv, NEW state \in {"torn", "whole", "short"}, ChainKilled(state)
    PROVE  CrInv'
<1>1. PICK plan, first, steps, at, entries : /\ plan = crPlan.digest /\ first = crPlan.first
                                             /\ steps = crRun.steps /\ at = crRun.at
                                             /\ entries = crStatus.entries
  OBVIOUS
<1>2. /\ IsPlan(plan) /\ first \in 1 .. Len(plan) + 1 /\ Len(plan) \in Nat /\ DOMAIN plan = 1 .. Len(plan)
      /\ Len(steps) = Len(plan) - first + 1 /\ Len(entries) = at - 1 /\ at \in 1 .. Len(steps) + 1 /\ Begun
  BY <1>1, RunIs DEF ChainKilled
<1>3. PICK place : place = first - 1 + at
  OBVIOUS
<1>4. /\ crData' \in [StepIds -> DataStates] /\ crAudited' \in BOOLEAN
      /\ Unmoved(plan, place, crData, crData') /\ AuditStays(plan, place)
  <2>1. CASE UNCHANGED <<crData, crAudited>>
    BY <2>1 DEF CrInv, CrTypeOK, DataStates, Unmoved, AuditStays
  <2>2. CASE Reaches({"enrich", "structures"}) /\ Leaves(CurrentStep, state)
    BY <1>1, <1>3, <2>2, LeavesKeep DEF Reaches, DataStates
  <2> QED BY <2>1, <2>2 DEF ChainKilled
<1>5. /\ crStatus' = crStatus /\ crRun' = NoChain /\ crStatus.outcome = "running"
      /\ UNCHANGED <<crManifest, crPlans, crPlan, crBaseline>>
  BY DEF ChainKilled, CrInv, CrTypeOK
<1>6. \A i \in DOMAIN entries : /\ first - 1 + i \in DOMAIN plan /\ first - 1 + i < place
                                /\ entries[i].id = plan[first - 1 + i]
  <2>1. \A i \in DOMAIN entries : i \in 1 .. at - 1 /\ entries[i].id = plan[first - 1 + i]
    <3>1. \A i \in DOMAIN entries : entries[i].id = plan[first - 1 + i]
      BY <1>1 DEF CrInv, RecordInv
    <3>2. DOMAIN entries = 1 .. Len(entries)
      BY <1>1 DEF CrInv, RecordInv
    <3> QED BY <1>2, <3>1, <3>2
  <2>2. \A i \in 1 .. at - 1 : first - 1 + i \in 1 .. Len(plan) /\ first - 1 + i < first - 1 + at
    BY <1>2
  <2> QED BY <1>2, <1>3, <2>1, <2>2
<1>7. \A i \in DOMAIN entries : crData'[entries[i].id] = crData[entries[i].id]
  BY <1>4, <1>6 DEF Unmoved
<1>8. CrTypeOK'
  BY <1>4, <1>5 DEF CrInv, CrTypeOK, DataStates
<1>9. RecordIsHonest'
  BY <1>1, <1>5, <1>7 DEF CrInv, RecordIsHonest
<1>10. PlanInv' /\ PlansInv'
  <2>1. ASSUME crPlan.heeded, NEW i \in DOMAIN plan, i < first
        PROVE  Vouched(plan[i], crData', crAudited', crPlan.skipped)
    <3>1. Vouched(plan[i], crData, crAudited, crPlan.skipped)
      BY <1>1, <1>2, <2>1 DEF CrInv, PlanInv
    <3>2. i < place
      BY <1>2, <1>3, <2>1
    <3> QED BY ONLY <1>4, <3>1, <3>2, GoodStays
  <2> QED BY <1>1, <1>2, <1>5, <2>1 DEF CrInv, PlanInv, PlansInv, Begun
<1>11. RecordInv'
  <2>1. ASSUME NEW i \in DOMAIN entries, entries[i].status = "done"
        PROVE  Good(entries[i].id, crData', crAudited')
    <3>1. Good(entries[i].id, crData, crAudited)
      BY <1>1, <2>1 DEF CrInv, RecordInv
    <3>2. PICK spot : spot = first - 1 + i
      OBVIOUS
    <3>3. spot \in DOMAIN plan /\ spot < place /\ entries[i].id = plan[spot]
      BY <1>6, <3>2
    <3>4. Good(plan[spot], crData, crAudited)
      BY <3>1, <3>3
    <3> QED BY ONLY <1>4, <3>3, <3>4, GoodStays
  <2> QED BY <1>1, <1>5, <2>1 DEF CrInv, RecordInv, Begun
<1>12. RunInv'
  BY <1>5 DEF RunInv
<1>13. FullInv'
  BY <1>1, <1>5, <1>7 DEF CrInv, FullInv, Full
<1>14. EndInv'
  BY <1>5 DEF CrInv, EndInv
<1> QED BY <1>8, <1>9, <1>10, <1>11, <1>12, <1>13, <1>14 DEF CrInv

\* Neither what the manifest resolves to nor the baseline is in what a run knows.
LEMMA OthersKeep ==
    ASSUME CrInv, crManifest' \in DOMAIN Manifests, crBaseline' \in {"none", "foreign", "sealed"},
           UNCHANGED <<crRun, crPlans, crPlan, crStatus, crData, crAudited>>
    PROVE  CrInv'
<1>1. CrTypeOK'
  BY DEF CrInv, CrTypeOK
<1>2. RecordIsHonest'
  BY DEF CrInv, RecordIsHonest
<1>3. PlanInv' /\ PlansInv'
  BY DEF CrInv, PlanInv, PlansInv, Begun
<1>4. RecordInv'
  BY DEF CrInv, RecordInv, Begun
<1>5. RunInv'
  BY DEF CrInv, RunInv, Begun
<1>6. FullInv'
  BY DEF CrInv, FullInv
<1>7. EndInv'
  BY DEF CrInv, EndInv
<1> QED BY <1>1, <1>2, <1>3, <1>4, <1>5, <1>6, <1>7 DEF CrInv

-----------------------------------------------------------------------------
(* Starting and resuming.                                                  *)

\* A run of a plan from one of its steps on; all before are accounted for, if the
\* hints were heeded.
LEMMA LaunchKeeps ==
    ASSUME CrInv, NEW plan, IsPlan(plan.digest), plan.phase = "all" => HasGate(plan.digest),
           NEW first \in 1 .. Len(plan.digest) + 1, NEW fresh, NEW partial,
           NEW skip, skip \subseteq Skippable, NEW heeded, NEW skipped,
           Launch(plan, first, fresh, partial, skip, heeded, skipped),
           heeded => \A i \in DOMAIN plan.digest :
                         i < first => Vouched(plan.digest[i], crData, crAudited, skipped)
    PROVE  CrInv'
<1>1. PICK digest, steps : digest = plan.digest /\ steps = SubSeq(digest, first, Len(digest))
  OBVIOUS
<1>2. steps \in Seq(StepIds) /\ Len(steps) = Len(digest) - first + 1 /\ digest \in Seq(StepIds)
  BY <1>1, StepsAre DEF IsPlan
<1>3. Len(digest) \in Nat /\ Len(steps) \in Nat
  BY <1>2
<1>4. /\ crStatus'.outcome = "running" /\ crStatus'.entries = <<>> /\ crStatus'.exit = "none"
      /\ crStatus'.gate = "none" /\ crStatus'.safe = FALSE /\ Begun'
  BY DEF Launch, Record, Begun
<1>5. /\ crPlan'.digest = digest /\ crPlan'.first = first /\ crPlan'.phase = plan.phase
      /\ crPlan'.heeded = heeded /\ crPlan'.skipped = skipped
      /\ crRun' = [steps |-> steps, at |-> 1, skip |-> skip]
      /\ crPlans' = crPlans \cup {plan}
      /\ UNCHANGED <<crManifest, crData, crAudited, crBaseline>>
  BY <1>1 DEF Launch
<1>6. CrTypeOK'
  <2>1. 1 \in 1 .. Len(steps) + 1 /\ Len(<<>>) = 0
    BY <1>3
  <2> QED BY <1>4, <1>5, <2>1 DEF CrInv, CrTypeOK
<1>7. RecordIsHonest' /\ FullInv'
  BY <1>4 DEF RecordIsHonest, FullInv
<1>8. PlanInv' /\ PlansInv'
  BY <1>1, <1>4, <1>5 DEF CrInv, PlanInv, PlansInv
<1>9. RecordInv'
  <2>1. <<>> \in Seq(Entries) /\ Len(<<>>) = 0 /\ DOMAIN <<>> = {}
    OBVIOUS
  <2>2. first - 1 + 0 <= Len(digest)
    BY <1>1, <1>3
  <2> QED BY <1>4, <1>5, <2>1, <2>2 DEF RecordInv
<1>10. RunInv'
  BY <1>1, <1>4, <1>5 DEF RunInv
<1>11. EndInv'
  BY <1>4 DEF EndInv
<1> QED BY <1>6, <1>7, <1>8, <1>9, <1>10, <1>11 DEF CrInv

LEMMA StartKeeps ==
    ASSUME CrInv, NEW scope, NEW phase \in Phases, NEW partial \in BOOLEAN, NEW skip \in SUBSET Skippable,
           StartChain(scope, phase, partial, skip)
    PROVE  CrInv'
<1>1. PICK plan : plan = PlanFile(phase, scope)
  OBVIOUS
<1>2. IsPlan(plan.digest) /\ (plan.phase = "all" => HasGate(plan.digest))
  BY <1>1, ResolvedIsPlan DEF CrInv, CrTypeOK, PlanFile
<1>3. PICK first : first = 1
  OBVIOUS
<1>4. first \in 1 .. Len(plan.digest) + 1 /\ \A i \in DOMAIN plan.digest : ~(i < first)
  BY <1>2, <1>3 DEF IsPlan
<1>5. Launch(plan, first, TRUE, partial, skip, TRUE, {})
  BY <1>1, <1>3 DEF StartChain
<1> QED BY <1>2, <1>4, <1>5, LaunchKeeps

\* All the steps before the one where the hint would have a resume are accounted for.
LEMMA GoodBefore ==
    ASSUME CrInv, Begun, crPlan.heeded, NEW first \in Nat, first <= ResumePoint,
           NEW i \in DOMAIN crPlan.digest, i < first
    PROVE  Vouched(crPlan.digest[i], crData, crAudited, crPlan.skipped \cup SkippedNow)
<1>1. PICK plan, old, entries : plan = crPlan.digest /\ old = crPlan.first /\ entries = crStatus.entries
  OBVIOUS
<1>2. IsPlan(plan) /\ old \in 1 .. Len(plan) + 1 /\ Len(plan) \in Nat /\ DOMAIN plan = 1 .. Len(plan)
  BY <1>1 DEF CrInv, PlanInv, IsPlan
<1>3. CASE i < old
  BY <1>1, <1>3 DEF CrInv, PlanInv, Vouched
<1>4. CASE ~(i < old)
  <2>1. PICK n \in Nat : n = Len(entries) /\ DOMAIN entries = 1 .. n
    BY <1>1 DEF CrInv, RecordInv
  <2>2. PICK heard : heard = {j \in 1 .. n : entries[j].status # "failed"}
    OBVIOUS
  <2>3. \A j \in 1 .. n : entries[j].status = "failed" => j = n
    BY <1>1, <2>1 DEF CrInv, RecordInv
  <2>4. ResumePoint = old + Cardinality(heard)
    BY <1>1, <2>1, <2>2 DEF ResumePoint
  <2>5. PICK j \in Nat : j = i - old + 1 /\ i = old - 1 + j /\ j >= 1
    <3>1. i - old + 1 \in Nat /\ i = old - 1 + (i - old + 1) /\ i - old + 1 >= 1
      BY <1>1, <1>2, <1>4
    <3> QED BY <3>1
  <2>6. j \in heard
    <3>1. CASE \A m \in 1 .. n : m \in heard
      <4>1. heard = 1 .. n
        BY <2>2, <3>1
      <4>2. Cardinality(heard) = n
        <5>1. Cardinality(1 .. n) = n
          <6>1. n \in Int /\ 1 \in Int /\ (n = IF 1 > n THEN 0 ELSE n - 1 + 1)
            BY <2>1
          <6> QED BY ONLY <6>1, FS_Interval
        <5> QED BY <4>1, <5>1
      <4>3. j <= n
        BY <1>1, <1>2, <2>1, <2>4, <2>5, <4>2
      <4> QED BY <2>1, <2>5, <3>1, <4>3
    <3>2. CASE \E m \in 1 .. n : m \notin heard
      <4>1. n \notin heard /\ n >= 1
        BY <2>1, <2>2, <2>3, <3>2
      <4>2. heard = 1 .. n - 1
        <5>1. \A m \in 1 .. n - 1 : m \in 1 .. n /\ m # n
          BY <2>1
        <5>2. \A m \in 1 .. n : m # n => m \in 1 .. n - 1
          BY <2>1
        <5> QED BY <2>2, <2>3, <4>1, <5>1, <5>2
      <4>3. Cardinality(heard) = n - 1
        <5>1. PICK k \in Nat : k = n - 1
          BY <2>1, <4>1
        <5>2. Cardinality(1 .. k) = k
          BY FS_Interval
        <5> QED BY <4>2, <5>1, <5>2
      <4>4. j <= n - 1
        <5>1. /\ old \in Int /\ n \in Nat /\ j \in Nat /\ i = old - 1 + j /\ i < first
              /\ first \in Nat /\ first <= old + (n - 1)
          BY <1>1, <1>2, <2>1, <2>4, <2>5, <4>3
        <5> QED BY ONLY <5>1
      <4> QED BY <2>1, <2>5, <4>2, <4>4
    <3> QED BY <3>1, <3>2
  <2>7. j \in DOMAIN entries /\ entries[j].status # "failed"
    BY <2>1, <2>2, <2>6
  <2>8. entries[j] \in Entries /\ entries[j].id = plan[old - 1 + j]
    BY <1>1, <2>1, <2>7 DEF CrInv, RecordInv
  <2>9. CASE entries[j].status = "done"
    BY <1>1, <2>5, <2>7, <2>8, <2>9 DEF CrInv, RecordInv, Vouched
  <2>10. CASE entries[j].status = "skipped"
    <3>1. entries[j].id \in SkippedNow /\ entries[j].id # "gate"
      BY <1>1, <2>7, <2>8, <2>10 DEF CrInv, RecordInv, SkippedNow, Entries
    <3> QED BY <1>1, <2>5, <2>8, <3>1 DEF Vouched
  <2> QED BY <2>7, <2>8, <2>9, <2>10 DEF Entries
<1> QED BY <1>3, <1>4

LEMMA ResumeKeeps ==
    ASSUME CrInv, NEW file \in crPlans, NEW first \in 1 .. Len(Manifests[crManifest]),
           NEW skip \in SUBSET Skippable, ResumeChain(file, first, skip)
    PROVE  CrInv'
<1>1. Begun /\ IsPlan(file.digest) /\ (file.phase = "all" => HasGate(file.digest))
  BY DEF CrInv, PlansInv
<1>2. PICK heeded, skipped, partial : /\ heeded = Heeds(file, first) /\ skipped = SkippedBefore(file, first)
                                     /\ partial = crPlan.partial
  OBVIOUS
<1>3. /\ first <= Len(file.digest)
      /\ Launch(file, first, FALSE, partial, skip, heeded, skipped)
  BY <1>2 DEF ResumeChain, Resume
<1>4. first \in Nat /\ first \in 1 .. Len(file.digest) + 1
  BY <1>1, <1>3 DEF IsPlan
<1>5. ASSUME heeded, NEW i \in DOMAIN file.digest, i < first
      PROVE  Vouched(file.digest[i], crData, crAudited, skipped)
  <2>1. crPlan.heeded /\ file.digest = crPlan.digest /\ first <= ResumePoint /\ Heeds(file, first)
    <3>1. Heeds(file, first)
      BY <1>2, <1>5, Zenon
    <3> QED BY <3>1 DEF Heeds
  <2>2. Vouched(file.digest[i], crData, crAudited, crPlan.skipped \cup SkippedNow)
    BY <1>1, <1>4, <1>5, <2>1, GoodBefore
  <2> QED BY <1>2, <1>5, <2>1, <2>2 DEF Vouched, SkippedBefore
<1> QED BY <1>1, <1>3, <1>4, <1>5, LaunchKeeps

-----------------------------------------------------------------------------
(* The theorem.                                                            *)

LEMMA CrInitInv == CrInit => CrInv
<1> SUFFICES ASSUME CrInit PROVE CrInv
  OBVIOUS
<1>1. /\ crStatus.outcome = "none" /\ crStatus.entries = <<>> /\ crStatus.exit = "none"
      /\ crStatus.gate = "none" /\ crStatus.safe = FALSE /\ crRun = NoChain /\ crPlan = NoChain
      /\ crPlans = {} /\ ~Begun
  BY DEF CrInit, Record, Begun
<1>2. CrTypeOK
  BY <1>1, ChainAssumption DEF CrInit, CrTypeOK
<1>3. <<>> \in Seq(Entries) /\ DOMAIN <<>> = {}
  OBVIOUS
<1>4. RecordIsHonest /\ PlansInv /\ PlanInv /\ RecordInv /\ RunInv /\ FullInv /\ EndInv
  BY <1>1, <1>3 DEF RecordIsHonest, PlansInv, PlanInv, RecordInv, RunInv, FullInv, EndInv
<1> QED BY <1>2, <1>4 DEF CrInv

LEMMA CrNextKeeps == CrInv /\ [CrNext]_crVars => CrInv'
<1> SUFFICES ASSUME CrInv, [CrNext]_crVars PROVE CrInv'
  OBVIOUS
<1>1. CASE ManifestChanges
  BY <1>1, OthersKeep DEF ManifestChanges, CrInv, CrTypeOK
<1>2. CASE SealBaseline
  BY <1>2, OthersKeep DEF SealBaseline, CrInv, CrTypeOK
<1>3. CASE \E scope \in {"world", "country"}, phase \in Phases,
              partial \in BOOLEAN, skip \in SUBSET Skippable : StartChain(scope, phase, partial, skip)
  BY <1>3, StartKeeps
<1>4. CASE \E file \in crPlans, first \in 1..Len(Manifests[crManifest]),
              skip \in SUBSET Skippable : ResumeChain(file, first, skip)
  BY <1>4, ResumeKeeps
<1>5. CASE StepSkipped
  BY <1>5, SkipKeeps
<1>6. CASE \E state \in {"whole", "short"} : StepDone(state)
  BY <1>6, DoneKeeps
<1>7. CASE \E complete \in BOOLEAN : StepFails(complete)
  BY <1>7, FailKeeps
<1>8. CASE GateRefusesShort
  BY <1>8, EndKeeps DEF GateRefusesShort, GivesUp, Reaches, CrInFlight
<1>9. CASE GateRefusesBaseline
  BY <1>9, GateFailKeeps DEF GateRefusesBaseline
<1>10. CASE \E found \in {"clean", "known"} : GatePasses(found)
  BY <1>10, PassKeeps
<1>11. CASE \E found \in {"new", "unread"} : GateFails(found)
  BY <1>11, GateFailKeeps DEF GateFails
<1>12. CASE ChainCompletes
  BY <1>12, EndKeeps DEF ChainCompletes
<1>13. CASE \E state \in {"torn", "whole", "short"} : ChainKilled(state)
  BY <1>13, KillKeeps
<1>14. CASE UNCHANGED crVars
  BY <1>14, OthersKeep DEF crVars, CrInv, CrTypeOK
<1> QED BY <1>1, <1>2, <1>3, <1>4, <1>5, <1>6, <1>7, <1>8, <1>9, <1>10, <1>11, <1>12, <1>13, <1>14 DEF CrNext

\* A complete run has recorded each step of its plan from its first on, as done or
\* as skipped.
LEMMA CompleteIsWhole ==
    ASSUME CrInv, crStatus.outcome = "complete", NEW i \in DOMAIN crPlan.digest, i >= crPlan.first
    PROVE  \E j \in DOMAIN crStatus.entries :
               /\ crStatus.entries[j] \in Entries
               /\ crStatus.entries[j].id = crPlan.digest[i]
               /\ \/ /\ crStatus.entries[j].status = "done"
                     /\ Good(crPlan.digest[i], crData, crAudited)
                     /\ Full(crStatus.entries[j], crData)
                  \/ crPlan.digest[i] \in SkippedNow /\ crPlan.digest[i] # "gate"
<1>1. PICK plan, first, entries : plan = crPlan.digest /\ first = crPlan.first /\ entries = crStatus.entries
  OBVIOUS
<1>2. IsPlan(plan) /\ first \in 1 .. Len(plan) + 1 /\ Len(plan) \in Nat /\ DOMAIN plan = 1 .. Len(plan)
  BY <1>1 DEF CrInv, PlanInv, IsPlan, Begun
<1>3. first - 1 + Len(entries) = Len(plan) /\ Len(entries) \in Nat /\ DOMAIN entries = 1 .. Len(entries)
  BY <1>1 DEF CrInv, EndInv, RecordInv
<1>4. PICK j \in 1 .. Len(entries) : i = first - 1 + j
  <2>1. PICK l, n : l = Len(plan) /\ n = Len(entries)
    OBVIOUS
  <2>2. /\ l \in Nat /\ n \in Nat /\ first \in 1 .. l + 1 /\ first - 1 + n = l /\ i \in 1 .. l /\ i >= first
    BY <1>1, <1>2, <1>3, <2>1
  <2>3. i - first + 1 \in 1 .. n /\ i = first - 1 + (i - first + 1)
    BY ONLY <2>2
  <2>4. i - first + 1 \in 1 .. Len(entries) /\ i = first - 1 + (i - first + 1)
    BY <2>1, <2>3
  <2> QED BY <2>4
<1>5. /\ j \in DOMAIN entries /\ entries[j] \in Entries
      /\ entries[j].id = plan[i] /\ entries[j].status # "failed"
  BY <1>1, <1>3, <1>4 DEF CrInv, RecordInv
<1>6. CASE entries[j].status = "done"
  <2>1. Good(plan[i], crData, crAudited) /\ Full(entries[j], crData)
    BY <1>1, <1>5, <1>6 DEF CrInv, RecordInv, FullInv
  <2> QED BY <1>1, <1>5, <1>6, <2>1
<1>7. CASE entries[j].status = "skipped"
  <2>1. plan[i] \in SkippedNow /\ plan[i] # "gate"
    BY <1>1, <1>5, <1>7 DEF CrInv, RecordInv, SkippedNow, Entries
  <2> QED BY <1>1, <1>5, <2>1
<1> QED BY <1>5, <1>6, <1>7 DEF Entries

\* The places of the plan that a run has.
LEMMA RangeIs ==
    ASSUME CrInv, Begun, NEW i \in crPlan.first .. Len(crPlan.digest)
    PROVE  i \in DOMAIN crPlan.digest /\ i >= crPlan.first
BY DEF CrInv, PlanInv, IsPlan

LEMMA SoundFollows == CrInv => ChainIsSound
<1> SUFFICES ASSUME CrInv PROVE ChainIsSound
  OBVIOUS
<1>1. SafeToSyncIsEarned
  <2> SUFFICES ASSUME crStatus.safe
               PROVE  /\ crAudited
                      /\ \A i \in crPlan.first .. Len(crPlan.digest) : Answers(i, {"whole"}, SkippedNow)
    BY DEF SafeToSyncIsEarned
  <2>1. /\ crStatus.outcome = "complete" /\ GateIn(crStatus.entries) /\ Begun
        /\ \A j \in DOMAIN crStatus.entries : StepIsComplete(crStatus.entries[j])
    BY DEF CrInv, EndInv, Begun
  <2>2. crAudited
    BY <2>1 DEF CrInv, RecordInv, GateIn, Good
  <2>3. ASSUME NEW i \in crPlan.first .. Len(crPlan.digest) PROVE Answers(i, {"whole"}, SkippedNow)
    <3>1. i \in DOMAIN crPlan.digest /\ i >= crPlan.first
      BY <2>1, RangeIs
    <3>2. PICK j \in DOMAIN crStatus.entries :
              /\ crStatus.entries[j].id = crPlan.digest[i]
              /\ \/ crStatus.entries[j].status = "done" /\ Full(crStatus.entries[j], crData)
                 \/ crPlan.digest[i] \in SkippedNow /\ crPlan.digest[i] # "gate"
      BY <2>1, <3>1, CompleteIsWhole
    <3> QED BY <2>1, <2>2, <3>2 DEF Answers, Full
  <2> QED BY <2>2, <2>3
<1>2. ASSUME crStatus.exit = "zero", NEW i \in DOMAIN crPlan.digest, i >= crPlan.first
      PROVE  Answers(i, {"whole", "short"}, SkippedNow)
  <2>1. crStatus.outcome = "complete"
    BY <1>2 DEF CrInv, CrTypeOK
  <2>2. Vouched(crPlan.digest[i], crData, crAudited, SkippedNow)
    BY <1>2, <2>1, CompleteIsWhole DEF Vouched
  <2> QED BY <2>2 DEF Answers, Vouched, Good
<1>3. ExitZeroRanTheRest
  <2> SUFFICES ASSUME crStatus.exit = "zero", NEW i \in crPlan.first .. Len(crPlan.digest)
               PROVE  Answers(i, {"whole", "short"}, SkippedNow)
    BY DEF ExitZeroRanTheRest
  <2>1. i \in DOMAIN crPlan.digest /\ i >= crPlan.first
    BY RangeIs DEF CrInv, CrTypeOK, Begun
  <2> QED BY <1>2, <2>1
<1>4. ExitZeroIsWholePlan
  <2> SUFFICES ASSUME crStatus.exit = "zero", crPlan.phase = "all", crPlan.heeded
               PROVE  /\ crAudited
                      /\ \A i \in DOMAIN crPlan.digest :
                             Answers(i, {"whole", "short"}, crPlan.skipped \cup SkippedNow)
    BY DEF ExitZeroIsWholePlan
  <2>1. Begun
    BY DEF CrInv, CrTypeOK, Begun
  <2>2. ASSUME NEW i \in DOMAIN crPlan.digest
        PROVE  Answers(i, {"whole", "short"}, crPlan.skipped \cup SkippedNow)
    <3>1. CASE i >= crPlan.first
      BY <1>2, <3>1 DEF Answers
    <3>2. CASE ~(i >= crPlan.first)
      <4>1. i < crPlan.first
        BY <2>1, <3>2 DEF CrInv, PlanInv, IsPlan
      <4>2. Vouched(crPlan.digest[i], crData, crAudited, crPlan.skipped)
        BY <2>1, <4>1 DEF CrInv, PlanInv
      <4> QED BY <4>2 DEF Answers, Vouched, Good
    <3> QED BY <3>1, <3>2
  <2>3. PICK i \in DOMAIN crPlan.digest : crPlan.digest[i] = "gate"
    BY <2>1 DEF CrInv, PlanInv, HasGate
  <2> QED BY <2>2, <2>3 DEF Answers
<1> QED BY <1>1, <1>3, <1>4 DEF ChainIsSound, ChainIsHonest, CrInv

\* The runner's record is well formed, and what it calls done is done.  safeToSync
\* means that all from the run's first step on is whole or skipped, and audited; an
\* exit code of zero that it has run in order or was skipped, wherever --from began,
\* and if each resume went by its hint, that this holds of the whole plan, however
\* often the chain failed, was killed or resumed and the manifest changed.
THEOREM ChainAlwaysSound == CrSpec => []ChainIsSound
<1>1. CrInit => CrInv
  BY CrInitInv
<1>2. CrInv /\ [CrNext]_crVars => CrInv'
  BY CrNextKeeps
<1>3. CrInv => ChainIsSound
  BY SoundFollows
<1> QED BY <1>1, <1>2, <1>3, PTL DEF CrSpec
=============================================================================
